----------------------------- MODULE Operations -----------------------------
(***************************************************************************)
(* services/operations.py under concurrent requests: readings and the      *)
(* alerts they raise, threshold configs, acknowledgements, and the         *)
(* deletion of a well, which cascades to all of them.                      *)
(*                                                                         *)
(* A request is a Python thread with one database session.  Sessions are   *)
(* READ COMMITTED and do not autoflush: each SELECT is a step of its own   *)
(* that sees what is committed by then, and the INSERT, UPDATE or DELETE   *)
(* runs in commit().  An UPDATE or DELETE and its COMMIT are one step (the *)
(* row lock it takes makes every other writer of the row wait in between,  *)
(* and readers see the old row); the INSERTs of create_reading and its     *)
(* COMMIT are two, for the alert's id is taken at the INSERT and seen at   *)
(* the COMMIT.  Authentication and RBAC come before the first step.        *)
(***************************************************************************)
EXTENDS Naturals, FiniteSets, Sequences

CONSTANTS
  Workers,        \* threads that serve requests
  Wells, Metrics, \* ids of the wells that exist initially; metric names
  Values,         \* reading values
  Bands,          \* bands a threshold config may be created with
  Patches,        \* bodies of PATCH /thresholds: functions on some of the band fields
  None,           \* an absent row, or an unset bound
  MaxReading,     \* bound: reading requests that get past their SELECTs
  MaxConfig       \* bound: threshold configs ever created

Fields == {"warning_min", "warning_max", "critical_min", "critical_max"}
Statuses == {"normal", "warning", "breach"}
Severities == {"warning", "critical"}

ASSUME OperationsAssumption ==
  /\ IsFiniteSet(Workers)
  /\ Values \subseteq Nat
  /\ None \notin Nat
  /\ Bands \subseteq [Fields -> Nat \cup {None}]
  /\ \A p \in Patches : \E F \in SUBSET Fields : p \in [F -> Nat \cup {None}]
  /\ None \notin [Fields -> Nat \cup {None}]
  /\ MaxReading \in Nat
  /\ MaxConfig \in Nat

VARIABLES
  wells,       \* ids of the wells rows
  configs,     \* rows of threshold_configs: [id, well, metric, band]
  readings,    \* rows of operation_readings: [id, well, metric, value, status]
  alerts,      \* rows of threshold_alerts: [id, well, metric, value, severity, acknowledged]
  configSeq, readingSeq, alertSeq,  \* last ids the tables' sequences handed out
  req,         \* the request each worker serves: its arguments, locals and position
  alertWell    \* history: the well of every alert inserted so far, committed or not

tables == <<wells, configs, readings, alerts>>
seqs == <<configSeq, readingSeq, alertSeq>>
vars == <<tables, seqs, req, alertWell>>

Row(table, id) == {r \in table : r.id = id}
ConfigFor(w, m) == {c \in configs : c.well = w /\ c.metric = m}

-----------------------------------------------------------------------------
(* evaluate_status.  Bounds are inclusive and None is "no bound".           *)

AtOrAbove(v, bound) == bound # None /\ v >= bound
AtOrBelow(v, bound) == bound # None /\ v <= bound

(* Mutant of EvaluateStatus: the warning bands are checked first.           *)
EvaluateStatus_WarningFirst(band, v) ==
  IF band = None THEN "normal"
  ELSE IF AtOrAbove(v, band["warning_max"]) \/ AtOrBelow(v, band["warning_min"]) THEN "warning"
  ELSE IF AtOrAbove(v, band["critical_max"]) \/ AtOrBelow(v, band["critical_min"]) THEN "breach"
  ELSE "normal"

EvaluateStatus(band, v) ==
  IF band = None THEN "normal"
  ELSE IF AtOrAbove(v, band["critical_max"]) THEN "breach"
  ELSE IF AtOrBelow(v, band["critical_min"]) THEN "breach"
  ELSE IF AtOrAbove(v, band["warning_max"]) THEN "warning"
  ELSE IF AtOrBelow(v, band["warning_min"]) THEN "warning"
  ELSE "normal"

SeverityOf(status) == IF status = "breach" THEN "critical" ELSE "warning"

-----------------------------------------------------------------------------
(* Requests.  "pc" is the next step; "done" is a request that was answered  *)
(* with "code", 0 standing for a connection that was lost instead.  Of an   *)
(* answered request only what the answer names is kept.                     *)

Idle == [op |-> "none", pc |-> "done", code |-> 0]

Answered(r, code) ==
  CASE r.op = "reading" -> [op |-> r.op, pc |-> "done", code |-> code, well |-> r.well,
                            rid |-> r.rid, aid |-> r.aid]
    [] r.op = "config" -> [op |-> r.op, pc |-> "done", code |-> code, cid |-> r.cid]
    [] r.op = "ack" -> [op |-> r.op, pc |-> "done", code |-> code, aid |-> r.aid]
    [] OTHER -> [Idle EXCEPT !.code = code]

Init ==
  /\ wells = Wells
  /\ configs = {}
  /\ readings = {}
  /\ alerts = {}
  /\ configSeq = 0
  /\ readingSeq = 0
  /\ alertSeq = 0
  /\ req = [w \in Workers |-> Idle]
  /\ alertWell = <<>>

At(w, op, pc) == req[w].op = op /\ req[w].pc = pc
Free(w) == req[w].pc = "done"
Become(w, r) == req' = [req EXCEPT ![w] = r]
Goto(w, pc) == req' = [req EXCEPT ![w].pc = pc]
Answer(w, code) == Become(w, Answered(req[w], code))

(* create_reading.  The SELECT of the well starts the request.              *)

NewReading(well, m, v) ==
  [op |-> "reading", pc |-> "threshold", well |-> well, metric |-> m,
   value |-> v, status |-> "normal", rid |-> 0, aid |-> 0]

(* Reading requests that may still take an id. *)
Unflushed == {w \in Workers : req[w].op = "reading" /\ req[w].pc \in {"threshold", "flush"}}

StartReading(w, well, m, v) ==
  /\ Free(w)
  /\ readingSeq + Cardinality(Unflushed) < MaxReading
  /\ Become(w, IF well \in wells THEN NewReading(well, m, v)
               ELSE Answered(Idle, 422))
  /\ UNCHANGED <<tables, seqs, alertWell>>

(* get_threshold_for is scalar_one_or_none: two rows raise.                 *)
SelectThreshold(w) ==
  /\ At(w, "reading", "threshold")
  /\ LET rows == ConfigFor(req[w].well, req[w].metric)
         band == IF rows = {} THEN None ELSE (CHOOSE c \in rows : TRUE).band
     IN  IF Cardinality(rows) > 1 THEN Answer(w, 500)
         ELSE req' = [req EXCEPT ![w].pc = "flush",
                                 ![w].status = EvaluateStatus(band, req[w].value)]
  /\ UNCHANGED <<tables, seqs, alertWell>>

(* Mutants of InsertReading: only a breach raises an alert; no foreign key. *)
InsertReading_With(w, raises, checked) ==
  /\ At(w, "reading", "flush")
  /\ readingSeq' = readingSeq + 1
  /\ IF checked /\ req[w].well \notin wells
     THEN Answer(w, 500) /\ UNCHANGED <<alertSeq, alertWell>>
     ELSE /\ alertSeq' = IF raises THEN alertSeq + 1 ELSE alertSeq
          /\ alertWell' = IF raises THEN Append(alertWell, req[w].well) ELSE alertWell
          /\ req' = [req EXCEPT ![w].pc = "commit", ![w].rid = readingSeq + 1,
                                ![w].aid = IF raises THEN alertSeq + 1 ELSE 0]
  /\ UNCHANGED <<tables, configSeq>>

InsertReading_BreachOnly(w) == InsertReading_With(w, req[w].status = "breach", TRUE)
InsertReading_NoForeignKey(w) == InsertReading_With(w, req[w].status # "normal", FALSE)

(* The flush of db.commit(): INSERT the reading and, unless it is normal,   *)
(* the alert.  Without the well the foreign key fails and nothing in the    *)
(* endpoint catches it.                                                     *)
InsertReading(w) ==
  /\ At(w, "reading", "flush")
  /\ readingSeq' = readingSeq + 1
  /\ IF req[w].well \notin wells
     THEN Answer(w, 500) /\ UNCHANGED <<alertSeq, alertWell>>
     ELSE LET raises == req[w].status # "normal"
          IN  /\ alertSeq' = IF raises THEN alertSeq + 1 ELSE alertSeq
              /\ alertWell' = IF raises THEN Append(alertWell, req[w].well) ELSE alertWell
              /\ req' = [req EXCEPT ![w].pc = "commit",
                                    ![w].rid = readingSeq + 1,
                                    ![w].aid = IF raises THEN alertSeq + 1 ELSE 0]
  /\ UNCHANGED <<tables, configSeq>>

ReadingRow(r) ==
  [id |-> r.rid, well |-> r.well, metric |-> r.metric, value |-> r.value,
   status |-> r.status]

AlertRow(r) ==
  [id |-> r.aid, well |-> r.well, metric |-> r.metric, value |-> r.value,
   severity |-> SeverityOf(r.status), acknowledged |-> FALSE]

CommitReading(w) ==
  /\ At(w, "reading", "commit")
  /\ readings' = readings \cup {ReadingRow(req[w])}
  /\ alerts' = IF req[w].aid = 0 THEN alerts ELSE alerts \cup {AlertRow(req[w])}
  /\ Goto(w, "refresh")
  /\ UNCHANGED <<wells, configs, seqs, alertWell>>

(* db.refresh raises when the row is gone, which takes the well's deletion. *)
RefreshReading(w) ==
  /\ At(w, "reading", "refresh")
  /\ Answer(w, IF Row(readings, req[w].rid) = {} THEN 500 ELSE 201)
  /\ UNCHANGED <<tables, seqs, alertWell>>

-----------------------------------------------------------------------------
(* create_threshold.                                                        *)

Uninserted == {w \in Workers : req[w].op = "config" /\ req[w].pc \in {"lookup", "flush"}}

StartConfig(w, well, m, band) ==
  /\ Free(w)
  /\ configSeq + Cardinality(Uninserted) < MaxConfig
  /\ Become(w, IF well \in wells
               THEN [op |-> "config", pc |-> "lookup", well |-> well, metric |-> m,
                     band |-> band, cid |-> 0]
               ELSE Answered(Idle, 422))
  /\ UNCHANGED <<tables, seqs, alertWell>>

LookupConfig(w) ==
  /\ At(w, "config", "lookup")
  /\ IF ConfigFor(req[w].well, req[w].metric) # {} THEN Answer(w, 409) ELSE Goto(w, "flush")
  /\ UNCHANGED <<tables, seqs, alertWell>>

(* Mutant of Conflicts: no unique constraint.                               *)
Conflicts_Never(well, m) == FALSE

(* uq_threshold_well_metric. *)
Conflicts(well, m) == ConfigFor(well, m) # {}

(* INSERT and COMMIT.  A violated foreign key or unique constraint is an    *)
(* IntegrityError, which the endpoint does not catch.                       *)
InsertConfig(w) ==
  /\ At(w, "config", "flush")
  /\ configSeq' = configSeq + 1
  /\ LET r == req[w]
     IN  IF r.well \notin wells \/ Conflicts(r.well, r.metric)
         THEN Answer(w, 500) /\ UNCHANGED configs
         ELSE /\ configs' = configs \cup {[id |-> configSeq + 1, well |-> r.well,
                                           metric |-> r.metric, band |-> r.band]}
              /\ req' = [req EXCEPT ![w].pc = "refresh", ![w].cid = configSeq + 1]
  /\ UNCHANGED <<wells, readings, alerts, readingSeq, alertSeq, alertWell>>

-----------------------------------------------------------------------------
(* update_threshold.  The row is loaded (404), the body's fields are set on *)
(* the loaded object, and the UPDATE writes the columns whose value differs *)
(* from the loaded one, so a body equal to what was loaded writes nothing.  *)

StartPatch(w, id, patch) ==
  /\ Free(w)
  /\ IF Row(configs, id) = {}
     THEN Become(w, Answered(Idle, 404))
     ELSE \E c \in Row(configs, id) :
            Become(w, [op |-> "patch", pc |-> "flush", cid |-> id,
                       loaded |-> c.band, patch |-> patch])
  /\ UNCHANGED <<tables, seqs, alertWell>>

Dirty(r) == {f \in DOMAIN r.patch : r.patch[f] # r.loaded[f]}

(* Mutant of Patched: the UPDATE writes the whole loaded object back.       *)
Patched_WholeRow(band, r) ==
  [f \in Fields |-> IF f \in DOMAIN r.patch THEN r.patch[f] ELSE r.loaded[f]]

Patched(band, r) == [f \in Fields |-> IF f \in Dirty(r) THEN r.patch[f] ELSE band[f]]

(* UPDATE ... WHERE id and COMMIT; no row matched is a StaleDataError. *)
UpdateConfig(w) ==
  /\ At(w, "patch", "flush")
  /\ IF Dirty(req[w]) # {} /\ Row(configs, req[w].cid) = {}
     THEN Answer(w, 500) /\ UNCHANGED configs
     ELSE /\ configs' = {IF c.id = req[w].cid
                         THEN [c EXCEPT !.band = Patched(c.band, req[w])]
                         ELSE c : c \in configs}
          /\ Goto(w, "refresh")
  /\ UNCHANGED <<wells, readings, alerts, seqs, alertWell>>

(* The refresh that ends create_threshold and update_threshold.             *)
RefreshConfig(w) ==
  /\ At(w, "config", "refresh") \/ At(w, "patch", "refresh")
  /\ Answer(w, IF Row(configs, req[w].cid) = {} THEN 500
               ELSE IF req[w].op = "config" THEN 201 ELSE 200)
  /\ UNCHANGED <<tables, seqs, alertWell>>

(* delete_threshold.  A DELETE that matches no row only warns.              *)

StartDrop(w, id) ==
  /\ Free(w)
  /\ Become(w, IF Row(configs, id) = {} THEN Answered(Idle, 404)
               ELSE [op |-> "drop", pc |-> "flush", cid |-> id])
  /\ UNCHANGED <<tables, seqs, alertWell>>

DeleteConfig(w) ==
  /\ At(w, "drop", "flush")
  /\ configs' = configs \ Row(configs, req[w].cid)
  /\ Answer(w, 204)
  /\ UNCHANGED <<wells, readings, alerts, seqs, alertWell>>

-----------------------------------------------------------------------------
(* acknowledge_alert: the same load, UPDATE if changed, refresh.            *)

StartAck(w, id) ==
  /\ Free(w)
  /\ IF Row(alerts, id) = {}
     THEN Become(w, Answered(Idle, 404))
     ELSE \E a \in Row(alerts, id) :
            Become(w, [op |-> "ack", pc |-> "flush", aid |-> id,
                       loaded |-> a.acknowledged])
  /\ UNCHANGED <<tables, seqs, alertWell>>

(* Mutant of UpdateAlert: the commit is missing.                            *)
UpdateAlert_NoCommit(w) ==
  /\ At(w, "ack", "flush")
  /\ Goto(w, "refresh")
  /\ UNCHANGED <<tables, seqs, alertWell>>

UpdateAlert(w) ==
  /\ At(w, "ack", "flush")
  /\ IF ~req[w].loaded /\ Row(alerts, req[w].aid) = {}
     THEN Answer(w, 500) /\ UNCHANGED alerts
     ELSE /\ alerts' = IF req[w].loaded THEN alerts
                       ELSE {IF a.id = req[w].aid THEN [a EXCEPT !.acknowledged = TRUE]
                             ELSE a : a \in alerts}
          /\ Goto(w, "refresh")
  /\ UNCHANGED <<wells, configs, readings, seqs, alertWell>>

RefreshAlert(w) ==
  /\ At(w, "ack", "refresh")
  /\ Answer(w, IF Row(alerts, req[w].aid) = {} THEN 500 ELSE 200)
  /\ UNCHANGED <<tables, seqs, alertWell>>

-----------------------------------------------------------------------------
(* services/wells.py delete_well: the DELETE waits for transactions that    *)
(* inserted children of the well, then ON DELETE CASCADE empties the other  *)
(* tables of it.                                                            *)

StartDropWell(w, well) ==
  /\ Free(w)
  /\ Become(w, IF well \notin wells THEN Answered(Idle, 404)
               ELSE [op |-> "drop_well", pc |-> "flush", well |-> well])
  /\ UNCHANGED <<tables, seqs, alertWell>>

(* Mutants of Locked: the DELETE waits for nobody, or for every DELETE of   *)
(* the well, itself included.                                               *)
Locked_Never(well) == FALSE
Locked_ByDeletes(well) == \E v \in Workers : At(v, "drop_well", "flush") /\ req[v].well = well

Locked(well) == \E v \in Workers : At(v, "reading", "commit") /\ req[v].well = well

DeleteWell(w) ==
  /\ At(w, "drop_well", "flush")
  /\ ~Locked(req[w].well)
  /\ wells' = wells \ {req[w].well}
  /\ configs' = {c \in configs : c.well # req[w].well}
  /\ readings' = {r \in readings : r.well # req[w].well}
  /\ alerts' = {a \in alerts : a.well # req[w].well}
  /\ Answer(w, 204)
  /\ UNCHANGED <<seqs, alertWell>>

(* The process dies, or its database connection does: what is not committed *)
(* is rolled back, what is stays, and the client cannot tell which.         *)
Lose(w) ==
  /\ ~Free(w)
  /\ Become(w, Idle)
  /\ UNCHANGED <<tables, seqs, alertWell>>

Step(w) ==
  \/ SelectThreshold(w) \/ InsertReading(w) \/ CommitReading(w) \/ RefreshReading(w)
  \/ LookupConfig(w) \/ InsertConfig(w) \/ UpdateConfig(w) \/ RefreshConfig(w)
  \/ DeleteConfig(w)
  \/ UpdateAlert(w) \/ RefreshAlert(w)
  \/ DeleteWell(w)

Start(w) ==
  \/ \E well \in Wells, m \in Metrics :
       \/ \E v \in Values : StartReading(w, well, m, v)
       \/ \E band \in Bands : StartConfig(w, well, m, band)
  \/ \E id \in 1..MaxConfig :
       \/ \E patch \in Patches : StartPatch(w, id, patch)
       \/ StartDrop(w, id)
  \/ \E id \in 1..MaxReading : StartAck(w, id)
  \/ \E well \in Wells : StartDropWell(w, well)

Next == \E w \in Workers : Start(w) \/ Step(w) \/ Lose(w)

Spec == Init /\ [][Next]_vars

(* A thread that runs makes progress; nobody has to send requests. *)
FairSpec == Spec /\ \A w \in Workers : WF_vars(Step(w))

-----------------------------------------------------------------------------

Requests ==
  [op : {"none"}, pc : {"done"}, code : Nat]
    \cup [op : {"reading"}, pc : {"threshold", "flush", "commit", "refresh"}, well : Wells,
          metric : Metrics, value : Values, status : Statuses,
          rid : 0..MaxReading, aid : 0..MaxReading]
    \cup [op : {"reading"}, pc : {"done"}, code : Nat, well : Wells,
          rid : 0..MaxReading, aid : 0..MaxReading]
    \cup [op : {"config"}, pc : {"lookup", "flush", "refresh"}, well : Wells,
          metric : Metrics, band : Bands, cid : 0..MaxConfig]
    \cup [op : {"config"}, pc : {"done"}, code : Nat, cid : 0..MaxConfig]
    \cup [op : {"patch"}, pc : {"flush", "refresh"}, cid : 1..MaxConfig,
          loaded : [Fields -> Nat \cup {None}], patch : Patches]
    \cup [op : {"drop"}, pc : {"flush"}, cid : 1..MaxConfig]
    \cup [op : {"ack"}, pc : {"flush", "refresh"}, aid : 1..MaxReading, loaded : BOOLEAN]
    \cup [op : {"ack"}, pc : {"done"}, code : Nat, aid : 1..MaxReading]
    \cup [op : {"drop_well"}, pc : {"flush"}, well : Wells]

TypeOK ==
  /\ wells \subseteq Wells
  /\ configs \subseteq [id : 1..configSeq, well : Wells, metric : Metrics,
                         band : [Fields -> Nat \cup {None}]]
  /\ readings \subseteq [id : 1..readingSeq, well : Wells, metric : Metrics,
                          value : Values, status : Statuses]
  /\ alerts \subseteq [id : 1..alertSeq, well : Wells, metric : Metrics,
                        value : Values, severity : Severities, acknowledged : BOOLEAN]
  /\ configSeq \in 0..MaxConfig
  /\ readingSeq \in 0..MaxReading
  /\ alertSeq \in 0..readingSeq
  /\ req \in [Workers -> Requests]
  /\ alertWell \in [1..alertSeq -> Wells]

(* Readings, alerts and threshold configs never outlive their well, although *)
(* create_reading and create_threshold check the well in one statement and   *)
(* insert in another.                                                        *)
NoOrphans == \A row \in configs \cup readings \cup alerts : row.well \in wells

(* One config per well and metric, however many create_threshold requests    *)
(* find none at the same time: with two, get_threshold_for would raise on    *)
(* every further reading.                                                    *)
OneConfigPerMetric ==
  \A c, d \in configs : c.well = d.well /\ c.metric = d.metric => c = d

(* A reading that left the normal range and the alert it raised are stored   *)
(* together and go together: there are as many alerts of a well, metric,     *)
(* value and severity as readings with them, whatever failed in between.     *)
AlertPerAbnormalReading ==
  \A well \in Wells, m \in Metrics, v \in Values, s \in {"warning", "breach"} :
    Cardinality({r \in readings : /\ r.well = well /\ r.metric = m
                                  /\ r.value = v /\ r.status = s})
      = Cardinality({a \in alerts : /\ a.well = well /\ a.metric = m
                                    /\ a.value = v /\ a.severity = SeverityOf(s)})

(* evaluate_status returns the worst band the value is in, for bands that    *)
(* overlap or are inverted too (nothing validates their order).              *)
StatusIsWorstBand ==
  \A c \in configs, v \in Values :
    LET in(hi, lo) == AtOrAbove(v, c.band[hi]) \/ AtOrBelow(v, c.band[lo])
        status == EvaluateStatus(c.band, v)
    IN  /\ status = "breach" <=> in("critical_max", "critical_min")
        /\ status = "normal" <=> ~ (in("critical_max", "critical_min")
                                      \/ in("warning_max", "warning_min"))

(* What a client was told is what the tables hold.  A reading answered 201   *)
(* is there until its well is deleted, one answered with an error left       *)
(* neither a reading nor an alert; a config refused or failed left no row;   *)
(* an alert whose acknowledgement was answered 200 is acknowledged or gone.  *)
AnswersMatchTables ==
  \A w \in Workers :
    LET r == req[w] IN
    /\ r.op = "reading" /\ r.pc = "done" =>
         /\ r.code = 201 => Row(readings, r.rid) # {} \/ r.well \notin wells
         /\ r.code = 500 => Row(readings, r.rid) = {} /\ Row(alerts, r.aid) = {}
    /\ r.op = "config" /\ r.pc = "done" /\ r.code \in {409, 500} =>
         Row(configs, r.cid) = {}
    /\ r.op = "ack" /\ r.pc = "done" /\ r.code = 200 =>
         \A a \in Row(alerts, r.aid) : a.acknowledged

(* PATCH writes the fields of its body and no other: two PATCHes of the same *)
(* config that both loaded the old row do not undo each other.               *)
PatchTouchesOnlyItsFields ==
  [][\A c \in configs, d \in configs' : c.id = d.id =>
       \A f \in Fields : c.band[f] # d.band[f] =>
         \E w \in Workers : /\ At(w, "patch", "flush")
                            /\ req[w].cid = c.id
                            /\ f \in DOMAIN req[w].patch
                            /\ req[w].patch[f] = d.band[f]]_vars

(* Every request is answered, also a deletion that waits for readings.       *)
EveryRequestIsAnswered ==
  \A w \in Workers : (req[w].pc # "done") ~> (req[w].pc = "done")

(* models/operation.py:19-21: "a reading's status reflects the thresholds in *)
(* effect when it was recorded".                                             *)
StatusReflectsThresholdsInEffect ==
  [][\A r \in readings' \ readings :
       r.status = EvaluateStatus(IF ConfigFor(r.well, r.metric) = {} THEN None
                                 ELSE (CHOOSE c \in ConfigFor(r.well, r.metric) : TRUE).band,
                                 r.value)]_vars

-----------------------------------------------------------------------------
(* The alerts these requests leave behind are those of AlertLog: inserted,   *)
(* committed or rolled back, acknowledged for good, deleted with their well. *)

Inserted == {w \in Workers : At(w, "reading", "commit") /\ req[w].aid # 0}

Log == INSTANCE AlertLog WITH
         MaxAlert <- MaxReading,
         MaxInFlight <- Cardinality(Workers),
         seq <- alertSeq,
         pending <- {req[w].aid : w \in Inserted},
         live <- {a.id : a \in alerts},
         acked <- {a.id : a \in {b \in alerts : b.acknowledged}},
         wellOf <- alertWell

ImplementsAlertLog == Log!LogSpec
=============================================================================
