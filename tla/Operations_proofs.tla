-------------------------- MODULE Operations_proofs --------------------------
(***************************************************************************)
(* Proofs about Operations, for any wells, metrics, values and bands, any  *)
(* finite number of workers and any number of rows: what the schema and    *)
(* the transactions keep together stays together, no PATCH undoes another, *)
(* the alerts of the service are those of AlertLog, and tables, requests   *)
(* and bands have their types, from which a status is the worst band.      *)
(***************************************************************************)
EXTENDS Operations, FiniteSetTheorems, TLAPS

(* Where a request is.                                                      *)
Waits(r) == r.op = "reading" /\ r.pc \in {"threshold", "flush"}
Inserts(r) == r.op = "reading" /\ r.pc = "commit"

(* The fields of a request its next step reads.                             *)
Holds(r) ==
  /\ {"op", "pc"} \subseteq DOMAIN r
  /\ r.op = "reading" /\ r.pc # "done" =>
       DOMAIN r = {"op", "pc", "well", "metric", "value", "status", "rid", "aid"}
  /\ r.op = "reading" /\ r.pc = "flush" => r.status \in Statuses
  /\ r.op = "config" /\ r.pc # "done" =>
       DOMAIN r = {"op", "pc", "well", "metric", "band", "cid"}
  /\ r.op = "ack" /\ r.pc = "flush" => r.loaded \in BOOLEAN

ReqOK == req = [w \in Workers |-> req[w]] /\ \A w \in Workers : Holds(req[w])

(* An open transaction that inserted a reading, and its alert unless the    *)
(* reading is normal: its well cannot be deleted, its ids are its own.      *)
Held(r) ==
  /\ r.well \in wells
  /\ r.status \in Statuses
  /\ r.rid \in 1..readingSeq /\ Row(readings, r.rid) = {}
  /\ r.status = "normal" => r.aid = 0
  /\ r.status # "normal" => /\ r.aid \in 1..alertSeq /\ alertWell[r.aid] = r.well
                            /\ Row(alerts, r.aid) = {}

Apart(r, s) == r.rid # s.rid /\ (r.aid = 0 \/ r.aid # s.aid)

HeldOK ==
  /\ \A w \in Workers : Inserts(req[w]) => Held(req[w])
  /\ \A u, w \in Workers : u # w /\ Inserts(req[u]) /\ Inserts(req[w]) => Apart(req[u], req[w])

(* The sequences have handed out what the tables hold.                      *)
SeqsOK ==
  /\ configSeq \in Nat /\ readingSeq \in Nat /\ alertSeq \in Nat
  /\ alertSeq <= readingSeq
  /\ readingSeq + Cardinality(Unflushed) <= MaxReading
  /\ alertWell \in Seq(Wells) /\ Len(alertWell) = alertSeq

ConfigsOK ==
  /\ \A c \in configs : DOMAIN c = {"id", "well", "metric", "band"} /\ c.id \in 1..configSeq
  /\ \A c, d \in configs : c.id = d.id => c = d

ReadingsOK ==
  /\ IsFiniteSet(readings)
  /\ \A r \in readings : r.id \in 1..readingSeq

AlertFields == {"id", "well", "metric", "value", "severity", "acknowledged"}

AlertsOK ==
  /\ IsFiniteSet(alerts)
  /\ \A a \in alerts : /\ DOMAIN a = AlertFields /\ a.acknowledged \in BOOLEAN
                       /\ a.id \in 1..alertSeq /\ a.well = alertWell[a.id]
  /\ \A a, b \in alerts : a.id = b.id => a = b

(* The inductive invariant.                                                 *)
OpsInv ==
  /\ wells \subseteq Wells
  /\ ReqOK /\ HeldOK /\ SeqsOK
  /\ ConfigsOK /\ ReadingsOK /\ AlertsOK
  /\ NoOrphans /\ OneConfigPerMetric

-----------------------------------------------------------------------------
LEMMA OpsInitInv == Init => OpsInv
<1> SUFFICES ASSUME Init PROVE OpsInv
  OBVIOUS
<1>1. Unflushed = {} /\ HeldOK /\ ReqOK
  BY DEF Init, Unflushed, HeldOK, Inserts, ReqOK, Holds, Idle
<1>2. SeqsOK
  BY <1>1, FS_EmptySet, OperationsAssumption DEF Init, SeqsOK, OperationsAssumption
<1> QED
  BY <1>1, <1>2, FS_EmptySet
  DEF Init, OpsInv, ConfigsOK, ReadingsOK, AlertsOK, NoOrphans, OneConfigPerMetric

(* One request moves.                                                       *)
LEMMA StepKeepsReqs ==
  ASSUME ReqOK, NEW w \in Workers, NEW r, Become(w, r), Holds(r)
  PROVE  /\ ReqOK'
         /\ req'[w] = r
         /\ \A u \in Workers \ {w} : req'[u] = req[u]
<1>1. req' = [u \in Workers |-> IF u = w THEN r ELSE req[u]]
  BY DEF ReqOK, Become
<1>2. \A u \in Workers : Holds(req'[u])
  BY <1>1 DEF ReqOK
<1>3. req' = [u \in Workers |-> req'[u]]
  BY <1>1
<1> QED
  BY <1>1, <1>2, <1>3 DEF ReqOK, Holds

(* The readings still to be inserted fit the bound: a request that starts   *)
(* was let in for one of them, and one that inserts gives it up.            *)
LEMMA BudgetIsKept ==
  ASSUME ReqOK, SeqsOK, NEW w \in Workers, NEW r, Become(w, r), Holds(r),
         \/ readingSeq' = readingSeq
            /\ (~ Waits(r) \/ Waits(req[w]) \/ readingSeq + Cardinality(Unflushed) < MaxReading)
         \/ readingSeq' = readingSeq + 1 /\ Waits(req[w]) /\ ~ Waits(r)
  PROVE  readingSeq' + Cardinality(Unflushed') <= MaxReading
<1>1. /\ req'[w] = r
      /\ \A u \in Workers \ {w} : req'[u] = req[u]
  BY StepKeepsReqs
<1>2. /\ Unflushed = {u \in Workers : Waits(req[u])}
      /\ Unflushed' = {u \in Workers : Waits(req'[u])}
  BY DEF Unflushed, Waits
<1>3. IsFiniteSet(Unflushed) /\ Cardinality(Unflushed) \in Nat
  BY <1>2, FS_Subset, FS_CardinalityType, OperationsAssumption DEF OperationsAssumption
<1>4. Unflushed' = IF Waits(r) THEN Unflushed \cup {w} ELSE Unflushed \ {w}
  BY <1>1, <1>2
<1>5. w \in Unflushed <=> Waits(req[w])
  BY <1>2
<1>6. MaxReading \in Nat /\ readingSeq \in Nat /\ readingSeq + Cardinality(Unflushed) <= MaxReading
  BY OperationsAssumption DEF OperationsAssumption, SeqsOK
<1>7. CASE Waits(r)
  <2>1. Cardinality(Unflushed') = IF w \in Unflushed THEN Cardinality(Unflushed)
                                  ELSE Cardinality(Unflushed) + 1
    BY <1>3, <1>4, <1>7, FS_AddElement
  <2> QED
    BY <1>3, <1>5, <1>6, <1>7, <2>1
<1>8. CASE ~ Waits(r)
  <2>1. Cardinality(Unflushed') = IF w \in Unflushed THEN Cardinality(Unflushed) - 1
                                  ELSE Cardinality(Unflushed)
    BY <1>3, <1>4, <1>8, FS_RemoveElement
  <2> QED
    BY <1>3, <1>5, <1>6, <1>8, <2>1
<1> QED
  BY <1>7, <1>8

(* What a step has to keep that inserts no reading.                         *)
LEMMA WriteStep ==
  ASSUME OpsInv, NEW w \in Workers, NEW r, Become(w, r), Holds(r), ~ Inserts(r),
         ~ Waits(r) \/ Waits(req[w]) \/ readingSeq + Cardinality(Unflushed) < MaxReading,
         wells' \subseteq wells, configSeq' \in Nat,
         readingSeq' = readingSeq, alertSeq' = alertSeq, alertWell' = alertWell,
         ConfigsOK', ReadingsOK', AlertsOK', NoOrphans', OneConfigPerMetric',
         \A u \in Workers \ {w} : Inserts(req[u]) =>
           /\ req[u].well \in wells' /\ Row(readings', req[u].rid) = {}
           /\ req[u].status # "normal" => Row(alerts', req[u].aid) = {}
  PROVE  OpsInv'
<1>1. /\ ReqOK'
      /\ req'[w] = r
      /\ \A u \in Workers \ {w} : req'[u] = req[u]
  BY StepKeepsReqs DEF OpsInv
<1>2. SeqsOK'
  <2>1. readingSeq' + Cardinality(Unflushed') <= MaxReading
    BY BudgetIsKept DEF OpsInv
  <2> QED
    BY <2>1 DEF OpsInv, SeqsOK
<1>3. HeldOK'
  <2>1. ASSUME NEW u \in Workers, Inserts(req[u])'
        PROVE  u # w /\ req'[u] = req[u] /\ Inserts(req[u]) /\ Held(req[u])
    BY <1>1, <2>1 DEF OpsInv, HeldOK, Inserts
  <2>2. ASSUME NEW u \in Workers, Inserts(req[u])' PROVE Held(req[u])'
    BY <2>1, <2>2 DEF Held
  <2>3. ASSUME NEW u \in Workers, NEW v \in Workers, u # v, Inserts(req[u])', Inserts(req[v])'
        PROVE  Apart(req[u], req[v])'
    BY <2>1, <2>3 DEF OpsInv, HeldOK, Apart
  <2> QED
    BY <2>2, <2>3 DEF HeldOK
<1> QED
  BY <1>1, <1>2, <1>3 DEF OpsInv

(* A step that only looks.                                                  *)
LEMMA QuietStep ==
  ASSUME OpsInv, NEW w \in Workers, NEW r, Become(w, r), Holds(r), ~ Inserts(r),
         ~ Waits(r) \/ Waits(req[w]) \/ readingSeq + Cardinality(Unflushed) < MaxReading,
         UNCHANGED <<tables, seqs, alertWell>>
  PROVE  OpsInv'
<1>1. /\ wells' = wells /\ configs' = configs /\ readings' = readings /\ alerts' = alerts
      /\ configSeq' = configSeq /\ readingSeq' = readingSeq /\ alertSeq' = alertSeq
      /\ alertWell' = alertWell
  BY DEF tables, seqs
<1>2. ConfigsOK' /\ ReadingsOK' /\ AlertsOK' /\ NoOrphans' /\ OneConfigPerMetric'
  BY <1>1 DEF OpsInv, ConfigsOK, ReadingsOK, AlertsOK, NoOrphans, OneConfigPerMetric, ConfigFor
<1>3. \A u \in Workers : Inserts(req[u]) =>
        /\ req[u].well \in wells' /\ Row(readings', req[u].rid) = {}
        /\ req[u].status # "normal" => Row(alerts', req[u].aid) = {}
  BY <1>1 DEF OpsInv, HeldOK, Held
<1> QED
  BY <1>1, <1>2, <1>3, WriteStep DEF OpsInv, SeqsOK

(* What Goto and Answer make of a request.                                  *)
LEMMA GotoKeeps ==
  ASSUME OpsInv, NEW w \in Workers, NEW pc, Goto(w, pc), req[w].pc # "done",
         pc \notin {"done", "threshold", "flush"} \/ (req[w].op = "config" /\ pc = "flush")
  PROVE  \E r : /\ Become(w, r) /\ Holds(r) /\ ~ Waits(r)
                /\ r.op = req[w].op /\ r.pc = pc /\ r.well = req[w].well
                /\ r.rid = req[w].rid /\ r.aid = req[w].aid /\ r.cid = req[w].cid
                /\ r.loaded = req[w].loaded
<1> DEFINE r == [req[w] EXCEPT !.pc = pc]
<1>1. Become(w, r)
  BY DEF Goto, Become
<1>2. Holds(req[w])
  BY DEF OpsInv, ReqOK
<1>3. /\ r.op = req[w].op /\ r.pc = pc /\ DOMAIN r = DOMAIN req[w] /\ r.well = req[w].well
      /\ r.rid = req[w].rid /\ r.aid = req[w].aid /\ r.cid = req[w].cid
      /\ r.loaded = req[w].loaded
  BY <1>2 DEF Holds
<1>4. Holds(r) /\ ~ Waits(r)
  BY <1>2, <1>3 DEF Holds, Waits
<1> QED
  BY <1>1, <1>3, <1>4

LEMMA AnsweredHolds ==
  ASSUME NEW r, NEW code
  PROVE  /\ Holds(Answered(r, code))
         /\ ~ Waits(Answered(r, code)) /\ ~ Inserts(Answered(r, code))
BY DEF Answered, Idle, Holds, Waits, Inserts

(* A request that goes on, is answered or lost.                             *)
Moves(w) ==
  \E r : /\ Become(w, r) /\ Holds(r) /\ ~ Inserts(r)
         /\ ~ Waits(r) \/ Waits(req[w]) \/ readingSeq + Cardinality(Unflushed) < MaxReading

LEMMA StartMoves ==
  ASSUME OpsInv, NEW w \in Workers, Start(w)
  PROVE  Moves(w) /\ UNCHANGED <<tables, seqs, alertWell>>
<1>1. UNCHANGED <<tables, seqs, alertWell>>
  BY DEF Start, StartReading, StartConfig, StartPatch, StartDrop, StartAck, StartDropWell
<1>2. ASSUME NEW q, NEW code, Become(w, Answered(q, code)) PROVE Moves(w)
  BY <1>2, AnsweredHolds DEF Moves
<1>3. Moves(w)
  <2>1. ASSUME NEW well \in Wells, NEW m \in Metrics, NEW v \in Values, StartReading(w, well, m, v)
        PROVE  Moves(w)
    <3>1. Holds(NewReading(well, m, v)) /\ ~ Inserts(NewReading(well, m, v))
      BY DEF NewReading, Holds, Inserts
    <3> QED
      BY <2>1, <1>2, <3>1 DEF StartReading, Moves
  <2>2. ASSUME NEW well \in Wells, NEW m \in Metrics, NEW band \in Bands, StartConfig(w, well, m, band)
        PROVE  Moves(w)
    BY <2>2, <1>2 DEF StartConfig, Holds, Inserts, Waits, Moves
  <2>3. ASSUME NEW id \in 1..MaxConfig, NEW patch \in Patches, StartPatch(w, id, patch)
        PROVE  Moves(w)
    <3>1. ASSUME NEW band, NEW r,
                 r = [op |-> "patch", pc |-> "flush", cid |-> id, loaded |-> band, patch |-> patch]
          PROVE  Holds(r) /\ ~ Inserts(r) /\ ~ Waits(r)
      BY <3>1 DEF Holds, Inserts, Waits
    <3> QED
      BY <2>3, <1>2, <3>1 DEF StartPatch, Moves
  <2>4. ASSUME NEW id \in 1..MaxConfig, StartDrop(w, id) PROVE Moves(w)
    BY <2>4, <1>2 DEF StartDrop, Holds, Inserts, Waits, Moves
  <2>5. ASSUME NEW id \in 1..MaxReading, StartAck(w, id) PROVE Moves(w)
    <3>1. ASSUME NEW a \in alerts, NEW r,
                 r = [op |-> "ack", pc |-> "flush", aid |-> id, loaded |-> a.acknowledged]
          PROVE  Holds(r) /\ ~ Inserts(r) /\ ~ Waits(r)
      BY <3>1 DEF Holds, Inserts, Waits, OpsInv, AlertsOK
    <3> QED
      BY <2>5, <1>2, <3>1 DEF StartAck, Row, Moves
  <2>6. ASSUME NEW well \in Wells, StartDropWell(w, well) PROVE Moves(w)
    BY <2>6, <1>2 DEF StartDropWell, Holds, Inserts, Waits, Moves
  <2> QED
    BY <2>1, <2>2, <2>3, <2>4, <2>5, <2>6 DEF Start
<1> QED
  BY <1>1, <1>3

LEMMA StatusIsOne ==
  ASSUME NEW band, NEW v PROVE EvaluateStatus(band, v) \in Statuses
BY DEF EvaluateStatus, Statuses

(* The steps of a request that look at the tables, or the loss of it.       *)
Looks(w) ==
  \/ SelectThreshold(w) \/ RefreshReading(w)
  \/ LookupConfig(w) \/ RefreshConfig(w)
  \/ RefreshAlert(w)
  \/ Lose(w)

LEMMA LookMoves ==
  ASSUME OpsInv, NEW w \in Workers, Looks(w)
  PROVE  Moves(w) /\ UNCHANGED <<tables, seqs, alertWell>>
<1>1. UNCHANGED <<tables, seqs, alertWell>>
  BY DEF Looks, SelectThreshold, RefreshReading, LookupConfig, RefreshConfig, RefreshAlert, Lose
<1>2. ASSUME NEW code, Answer(w, code) PROVE Moves(w)
  BY <1>2, AnsweredHolds DEF Answer, Moves
<1>3. Moves(w)
  <2>1. ASSUME SelectThreshold(w) PROVE Moves(w)
    <3>1. Holds(req[w]) /\ req[w].op = "reading" /\ req[w].pc = "threshold"
      BY <2>1 DEF SelectThreshold, At, OpsInv, ReqOK
    <3>2. ASSUME NEW status \in Statuses,
                 req' = [req EXCEPT ![w].pc = "flush", ![w].status = status]
          PROVE  Moves(w)
      <4> DEFINE r == [req[w] EXCEPT !.pc = "flush", !.status = status]
      <4>1. Become(w, r)
        BY <3>2 DEF Become, OpsInv, ReqOK
      <4>2. r.op = "reading" /\ r.pc = "flush" /\ r.status = status /\ DOMAIN r = DOMAIN req[w]
        BY <3>1 DEF Holds
      <4>3. Holds(r) /\ ~ Inserts(r) /\ Waits(req[w])
        BY <3>1, <4>2 DEF Holds, Inserts, Waits
      <4> QED
        BY <4>1, <4>3 DEF Moves
    <3> QED
      BY <2>1, <1>2, <3>2, StatusIsOne DEF SelectThreshold
  <2>2. ASSUME LookupConfig(w) PROVE Moves(w)
    <3>1. ASSUME Goto(w, "flush") PROVE Moves(w)
      BY <3>1, <2>2, GotoKeeps DEF LookupConfig, At, Moves, Inserts
    <3> QED
      BY <2>2, <1>2, <3>1 DEF LookupConfig
  <2>3. ASSUME RefreshReading(w) \/ RefreshConfig(w) \/ RefreshAlert(w) PROVE Moves(w)
    BY <2>3, <1>2 DEF RefreshReading, RefreshConfig, RefreshAlert
  <2>4. ASSUME Lose(w) PROVE Moves(w)
    BY <2>4 DEF Lose, Idle, Holds, Inserts, Waits, Moves
  <2> QED
    BY <2>1, <2>2, <2>3, <2>4 DEF Looks
<1> QED
  BY <1>1, <1>3

LEMMA MoveKeepsInv ==
  ASSUME OpsInv, NEW w \in Workers, Moves(w), UNCHANGED <<tables, seqs, alertWell>>
  PROVE  OpsInv'
BY QuietStep DEF Moves


(* So do the writes, but for the INSERT of create_reading.                  *)
Writes(w) ==
  \/ CommitReading(w)
  \/ InsertConfig(w) \/ UpdateConfig(w) \/ DeleteConfig(w)
  \/ UpdateAlert(w)
  \/ DeleteWell(w)

LEMMA WriteMoves ==
  ASSUME OpsInv, NEW w \in Workers, Writes(w)
  PROVE  \E r : Become(w, r) /\ Holds(r) /\ ~ Inserts(r) /\ ~ Waits(r)
<1> DEFINE Goal == \E r : Become(w, r) /\ Holds(r) /\ ~ Inserts(r) /\ ~ Waits(r)
<1>1. ASSUME NEW code, Answer(w, code) PROVE Goal
  BY <1>1, AnsweredHolds DEF Answer
<1>2. ASSUME Goto(w, "refresh"), req[w].pc # "done" PROVE Goal
  BY <1>2, GotoKeeps DEF Inserts
<1>3. ASSUME InsertConfig(w), req' = [req EXCEPT ![w].pc = "refresh", ![w].cid = configSeq + 1]
      PROVE  Goal
  <2> DEFINE r == [req[w] EXCEPT !.pc = "refresh", !.cid = configSeq + 1]
  <2>1. Become(w, r)
    BY <1>3 DEF Become, OpsInv, ReqOK
  <2>2. Holds(req[w]) /\ req[w].op = "config" /\ req[w].pc = "flush"
    BY <1>3 DEF InsertConfig, At, OpsInv, ReqOK
  <2>3. r.op = "config" /\ r.pc = "refresh" /\ DOMAIN r = DOMAIN req[w]
    BY <2>2 DEF Holds
  <2>4. Holds(r) /\ ~ Inserts(r) /\ ~ Waits(r)
    BY <2>2, <2>3 DEF Holds, Inserts, Waits
  <2> QED
    BY <2>1, <2>4
<1> HIDE DEF Goal
<1>4. ASSUME CommitReading(w) PROVE Goal
  BY <1>2, <1>4 DEF CommitReading, At
<1>5. ASSUME InsertConfig(w) PROVE Goal
  BY <1>1, <1>3, <1>5 DEF InsertConfig
<1>6. ASSUME UpdateConfig(w) \/ UpdateAlert(w) PROVE Goal
  BY <1>1, <1>2, <1>6 DEF UpdateConfig, UpdateAlert, At
<1>7. ASSUME DeleteConfig(w) \/ DeleteWell(w) PROVE Goal
  BY <1>1, <1>7 DEF DeleteConfig, DeleteWell
<1>8. Goal
  BY <1>4, <1>5, <1>6, <1>7 DEF Writes
<1> QED
  BY <1>8 DEF Goal

-----------------------------------------------------------------------------
(* create_reading: the INSERT opens what the COMMIT closes.                 *)

LEMMA InsertReadingKeepsInv ==
  ASSUME OpsInv, NEW w \in Workers, InsertReading(w)
  PROVE  OpsInv'
<1> DEFINE q == req[w]
           raises == q.status # "normal"
           r == [q EXCEPT !.pc = "commit", !.rid = readingSeq + 1,
                          !.aid = IF raises THEN alertSeq + 1 ELSE 0]
<1>1. /\ wells' = wells /\ configs' = configs /\ readings' = readings /\ alerts' = alerts
      /\ configSeq' = configSeq /\ readingSeq' = readingSeq + 1
      /\ q.op = "reading" /\ q.pc = "flush"
  BY DEF InsertReading, tables, At
<1>2. Holds(q) /\ q.status \in Statuses /\ Waits(q)
  BY <1>1 DEF OpsInv, ReqOK, Holds, Waits
<1>3. readingSeq \in Nat /\ alertSeq \in Nat
  BY DEF OpsInv, SeqsOK
<1>4. ConfigsOK' /\ ReadingsOK' /\ NoOrphans' /\ OneConfigPerMetric'
  BY <1>1, <1>3 DEF OpsInv, ConfigsOK, ReadingsOK, NoOrphans, OneConfigPerMetric
<1>5. CASE q.well \notin wells
  <2> DEFINE d == Answered(q, 500)
  <2>1. Become(w, d) /\ Holds(d) /\ ~ Inserts(d) /\ ~ Waits(d)
        /\ alertSeq' = alertSeq /\ alertWell' = alertWell
    BY <1>5, AnsweredHolds DEF InsertReading, Answer
  <2> HIDE DEF d
  <2>2. /\ ReqOK'
        /\ req'[w] = d
        /\ \A u \in Workers \ {w} : req'[u] = req[u]
    BY <2>1, StepKeepsReqs DEF OpsInv
  <2>3. readingSeq' + Cardinality(Unflushed') <= MaxReading
    BY <1>1, <1>2, <2>1, BudgetIsKept DEF OpsInv
  <2>4. SeqsOK'
    BY <1>1, <2>1, <2>3 DEF OpsInv, SeqsOK
  <2>5. HeldOK'
    <3>1. ASSUME NEW u \in Workers, Inserts(req[u])'
          PROVE  u # w /\ req'[u] = req[u] /\ Inserts(req[u]) /\ Held(req[u])
      BY <2>1, <2>2, <3>1 DEF OpsInv, HeldOK, Inserts
    <3>2. ASSUME NEW u \in Workers, Inserts(req[u])' PROVE Held(req[u])'
      BY <1>1, <1>3, <2>1, <3>1, <3>2 DEF Held, Row
    <3>3. ASSUME NEW u \in Workers, NEW v \in Workers, u # v, Inserts(req[u])', Inserts(req[v])'
          PROVE  Apart(req[u], req[v])'
      BY <3>1, <3>3 DEF OpsInv, HeldOK, Apart
    <3> QED
      BY <3>2, <3>3 DEF HeldOK
  <2>6. AlertsOK'
    BY <1>1, <2>1 DEF OpsInv, AlertsOK
  <2> QED
    BY <1>1, <1>4, <2>2, <2>4, <2>5, <2>6 DEF OpsInv
<1>6. CASE q.well \in wells
  <2>1. /\ Become(w, r)
        /\ alertSeq' = IF raises THEN alertSeq + 1 ELSE alertSeq
        /\ alertWell' = IF raises THEN Append(alertWell, q.well) ELSE alertWell
    BY <1>6 DEF InsertReading, Become, OpsInv, ReqOK
  <2>2. /\ r.op = "reading" /\ r.pc = "commit" /\ r.well = q.well /\ r.status = q.status
        /\ r.rid = readingSeq + 1 /\ r.aid = IF raises THEN alertSeq + 1 ELSE 0
        /\ DOMAIN r = DOMAIN q
    BY <1>1, <1>2 DEF Holds
  <2>3. Holds(r) /\ Inserts(r) /\ ~ Waits(r)
    BY <1>1, <1>2, <2>2 DEF Holds, Inserts, Waits
  <2> HIDE DEF r
  <2>4. /\ ReqOK'
        /\ req'[w] = r
        /\ \A u \in Workers \ {w} : req'[u] = req[u]
    BY <2>1, <2>3, StepKeepsReqs DEF OpsInv
  <2>5. readingSeq' + Cardinality(Unflushed') <= MaxReading
    BY <1>1, <1>2, <2>1, <2>3, BudgetIsKept DEF OpsInv
  <2>6. /\ alertSeq' \in Nat /\ alertSeq' >= alertSeq /\ alertSeq' <= readingSeq'
        /\ alertWell' \in Seq(Wells) /\ Len(alertWell') = alertSeq'
        /\ \A i \in 1..alertSeq : i \in 1..alertSeq' /\ alertWell'[i] = alertWell[i]
        /\ raises => alertWell'[alertSeq + 1] = q.well
    BY <1>1, <1>3, <1>6, <2>1 DEF OpsInv, SeqsOK
  <2>7. SeqsOK'
    BY <1>1, <1>3, <2>5, <2>6 DEF OpsInv, SeqsOK
  <2>8. AlertsOK'
    BY <1>1, <2>6 DEF OpsInv, AlertsOK
  <2>9. HeldOK'
    <3>1. ASSUME NEW u \in Workers \ {w}, Inserts(req[u])'
          PROVE  req'[u] = req[u] /\ Inserts(req[u]) /\ Held(req[u])
      BY <2>4, <3>1 DEF OpsInv, HeldOK, Inserts
    <3>2. ASSUME NEW u \in Workers \ {w}, Inserts(req[u])' PROVE Held(req[u])'
      BY <1>1, <1>3, <2>6, <3>1, <3>2 DEF Held, Row
    <3>3. Held(req[w])'
      <4>1. Row(readings, r.rid) = {} /\ (raises => Row(alerts, r.aid) = {})
        BY <1>3, <2>2 DEF OpsInv, ReadingsOK, AlertsOK, Row
      <4> QED
        BY <1>1, <1>2, <1>3, <1>6, <2>1, <2>2, <2>4, <2>6, <4>1 DEF Held
    <3>4. ASSUME NEW u \in Workers \ {w}, Inserts(req[u])'
          PROVE  Apart(req[u], req[w])' /\ Apart(req[w], req[u])'
      <4>1. /\ req[u].rid \in 1..readingSeq
            /\ req[u].aid = 0 \/ req[u].aid \in 1..alertSeq
        BY <3>1, <3>4 DEF Held
      <4> QED
        BY <1>3, <2>2, <2>4, <3>1, <3>4, <4>1 DEF Apart
    <3>5. ASSUME NEW u \in Workers \ {w}, NEW v \in Workers \ {w}, u # v,
                 Inserts(req[u])', Inserts(req[v])'
          PROVE  Apart(req[u], req[v])'
      BY <3>1, <3>5 DEF OpsInv, HeldOK, Apart
    <3> QED
      BY <3>2, <3>3, <3>4, <3>5 DEF HeldOK
  <2> QED
    BY <1>1, <1>4, <2>4, <2>7, <2>8, <2>9 DEF OpsInv
<1> QED
  BY <1>5, <1>6

LEMMA CommitReadingKeepsInv ==
  ASSUME OpsInv, NEW w \in Workers, CommitReading(w)
  PROVE  OpsInv'
<1> DEFINE q == req[w]
<1>1. /\ q.op = "reading" /\ q.pc = "commit"
      /\ readings' = readings \cup {ReadingRow(q)}
      /\ alerts' = IF q.aid = 0 THEN alerts ELSE alerts \cup {AlertRow(q)}
      /\ wells' = wells /\ configs' = configs
      /\ configSeq' = configSeq /\ readingSeq' = readingSeq /\ alertSeq' = alertSeq
      /\ alertWell' = alertWell
  BY DEF CommitReading, At, seqs
<1>2. Inserts(q) /\ Held(q)
  BY <1>1 DEF OpsInv, HeldOK, Inserts
<1>3. PICK r : Become(w, r) /\ Holds(r) /\ ~ Inserts(r) /\ ~ Waits(r)
  BY WriteMoves DEF Writes
<1>4. configSeq \in Nat /\ alertSeq \in Nat
  BY DEF OpsInv, SeqsOK
<1>5. /\ ReadingRow(q).id = q.rid /\ ReadingRow(q).well = q.well
      /\ AlertRow(q).id = q.aid /\ AlertRow(q).well = q.well
      /\ AlertRow(q).acknowledged = FALSE /\ DOMAIN AlertRow(q) = AlertFields
  BY DEF ReadingRow, AlertRow, AlertFields
<1>6. ConfigsOK' /\ OneConfigPerMetric'
  BY <1>1 DEF OpsInv, ConfigsOK, OneConfigPerMetric
<1>7. ReadingsOK'
  BY <1>1, <1>2, <1>5, FS_AddElement DEF OpsInv, ReadingsOK, Held
<1>8. AlertsOK'
  <2>1. IsFiniteSet(alerts')
    BY <1>1, FS_AddElement DEF OpsInv, AlertsOK
  <2>2. CASE q.aid = 0
    BY <1>1, <2>2 DEF OpsInv, AlertsOK
  <2>3. CASE q.aid # 0
    <3>1. q.aid \in 1..alertSeq /\ alertWell[q.aid] = q.well /\ \A a \in alerts : a.id # q.aid
      BY <1>2, <2>3 DEF Held, Row
    <3>2. /\ alerts' = alerts \cup {AlertRow(q)} /\ alertSeq' = alertSeq /\ alertWell' = alertWell
          /\ AlertsOK
      BY <1>1, <2>3 DEF OpsInv
    <3>3. \A a \in alerts' : /\ DOMAIN a = AlertFields /\ a.acknowledged \in BOOLEAN
                             /\ a.id \in 1..alertSeq /\ a.well = alertWell[a.id]
      BY <1>5, <3>1, <3>2 DEF AlertsOK
    <3>4. \A a, b \in alerts' : a.id = b.id => a = b
      BY <1>5, <3>1, <3>2 DEF AlertsOK
    <3> QED
      BY <2>1, <3>2, <3>3, <3>4 DEF AlertsOK
  <2> QED
    BY <2>2, <2>3
<1>9. NoOrphans'
  BY <1>1, <1>2, <1>5 DEF OpsInv, NoOrphans, Held
<1>10. ASSUME NEW u \in Workers \ {w}, Inserts(req[u])
       PROVE  /\ req[u].well \in wells' /\ Row(readings', req[u].rid) = {}
              /\ req[u].status # "normal" => Row(alerts', req[u].aid) = {}
  <2>1. Held(req[u]) /\ Apart(q, req[u])
    BY <1>2, <1>10 DEF OpsInv, HeldOK
  <2> QED
    BY <1>1, <1>5, <2>1 DEF Held, Apart, Row
<1> QED
  BY <1>1, <1>3, <1>4, <1>6, <1>7, <1>8, <1>9, <1>10, WriteStep

-----------------------------------------------------------------------------
(* The other writes: none touches what an open create_reading relies on.    *)

LEMMA InsertConfigKeepsInv ==
  ASSUME OpsInv, NEW w \in Workers, InsertConfig(w)
  PROVE  OpsInv'
<1> DEFINE q == req[w]
           refused == q.well \notin wells \/ Conflicts(q.well, q.metric)
           row == [id |-> configSeq + 1, well |-> q.well, metric |-> q.metric, band |-> q.band]
<1>1. /\ q.op = "config" /\ q.pc = "flush"
      /\ wells' = wells /\ readings' = readings /\ alerts' = alerts
      /\ configSeq' = configSeq + 1 /\ readingSeq' = readingSeq /\ alertSeq' = alertSeq
      /\ alertWell' = alertWell
      /\ configs' = IF refused THEN configs ELSE configs \cup {row}
  BY DEF InsertConfig, At
<1>2. configSeq \in Nat /\ configSeq' \in Nat
  BY <1>1 DEF OpsInv, SeqsOK
<1>3. PICK r : Become(w, r) /\ Holds(r) /\ ~ Inserts(r) /\ ~ Waits(r)
  BY WriteMoves DEF Writes
<1>4. ConfigsOK' /\ OneConfigPerMetric' /\ NoOrphans'
  <2>1. CASE refused
    BY <1>1, <1>2, <2>1 DEF OpsInv, ConfigsOK, OneConfigPerMetric, NoOrphans
  <2>2. CASE ~ refused
    <3>1. /\ DOMAIN row = {"id", "well", "metric", "band"}
          /\ row.id = configSeq + 1 /\ row.well = q.well /\ row.metric = q.metric
      OBVIOUS
    <3>2. q.well \in wells /\ \A c \in configs : ~ (c.well = q.well /\ c.metric = q.metric)
      BY <2>2 DEF Conflicts, ConfigFor
    <3> HIDE DEF row
    <3>3. ConfigsOK'
      BY <1>1, <1>2, <2>2, <3>1 DEF OpsInv, ConfigsOK
    <3>4. OneConfigPerMetric'
      BY <1>1, <2>2, <3>1, <3>2 DEF OpsInv, OneConfigPerMetric
    <3>5. NoOrphans'
      BY <1>1, <2>2, <3>1, <3>2 DEF OpsInv, NoOrphans
    <3> QED
      BY <3>3, <3>4, <3>5
  <2> QED
    BY <2>1, <2>2
<1>5. ReadingsOK' /\ AlertsOK'
  BY <1>1 DEF OpsInv, ReadingsOK, AlertsOK
<1>6. \A u \in Workers : Inserts(req[u]) =>
        /\ req[u].well \in wells' /\ Row(readings', req[u].rid) = {}
        /\ req[u].status # "normal" => Row(alerts', req[u].aid) = {}
  BY <1>1 DEF OpsInv, HeldOK, Held
<1> QED
  BY <1>1, <1>2, <1>3, <1>4, <1>5, <1>6, WriteStep

(* A write of configs alone that adds none and moves none.                  *)
LEMMA ConfigWriteStep ==
  ASSUME OpsInv, NEW w \in Workers, NEW r, Become(w, r), Holds(r), ~ Inserts(r), ~ Waits(r),
         UNCHANGED <<wells, readings, alerts, seqs, alertWell>>,
         ConfigsOK', OneConfigPerMetric', \A d \in configs' : d.well \in wells
  PROVE  OpsInv'
<1>1. /\ wells' = wells /\ readings' = readings /\ alerts' = alerts
      /\ configSeq' = configSeq /\ readingSeq' = readingSeq /\ alertSeq' = alertSeq
      /\ alertWell' = alertWell
  BY DEF seqs
<1>2. ReadingsOK' /\ AlertsOK' /\ NoOrphans'
  BY <1>1 DEF OpsInv, ReadingsOK, AlertsOK, NoOrphans
<1>3. \A u \in Workers : Inserts(req[u]) =>
        /\ req[u].well \in wells' /\ Row(readings', req[u].rid) = {}
        /\ req[u].status # "normal" => Row(alerts', req[u].aid) = {}
  BY <1>1 DEF OpsInv, HeldOK, Held
<1> QED
  BY <1>1, <1>2, <1>3, WriteStep DEF OpsInv, SeqsOK

LEMMA UpdateConfigKeepsInv ==
  ASSUME OpsInv, NEW w \in Workers, UpdateConfig(w)
  PROVE  OpsInv'
<1> DEFINE q == req[w]
           New(c) == IF c.id = q.cid THEN [c EXCEPT !.band = Patched(c.band, q)] ELSE c
<1>1. PICK r : Become(w, r) /\ Holds(r) /\ ~ Inserts(r) /\ ~ Waits(r)
  BY WriteMoves DEF Writes
<1>2. \A c \in configs : /\ New(c).id = c.id /\ New(c).well = c.well /\ New(c).metric = c.metric
                         /\ DOMAIN New(c) = DOMAIN c
  BY DEF OpsInv, ConfigsOK
<1>3. configs' = configs \/ configs' = {New(c) : c \in configs}
  BY DEF UpdateConfig
<1>4. configSeq' = configSeq
  BY DEF UpdateConfig, seqs
<1> HIDE DEF New
<1>5. ConfigsOK'
  BY <1>2, <1>3, <1>4 DEF OpsInv, ConfigsOK
<1>6. OneConfigPerMetric'
  BY <1>2, <1>3 DEF OpsInv, OneConfigPerMetric
<1>7. \A d \in configs' : d.well \in wells
  BY <1>2, <1>3 DEF OpsInv, NoOrphans
<1> QED
  BY <1>1, <1>5, <1>6, <1>7, ConfigWriteStep DEF UpdateConfig

LEMMA DeleteConfigKeepsInv ==
  ASSUME OpsInv, NEW w \in Workers, DeleteConfig(w)
  PROVE  OpsInv'
<1>1. PICK r : Become(w, r) /\ Holds(r) /\ ~ Inserts(r) /\ ~ Waits(r)
  BY WriteMoves DEF Writes
<1>2. configs' \subseteq configs /\ configSeq' = configSeq
  BY DEF DeleteConfig, seqs
<1>3. ConfigsOK' /\ OneConfigPerMetric' /\ \A d \in configs' : d.well \in wells
  BY <1>2 DEF OpsInv, ConfigsOK, OneConfigPerMetric, NoOrphans
<1> QED
  BY <1>1, <1>3, ConfigWriteStep DEF DeleteConfig

(* The UPDATE of an alert, as a mapping of the table.                       *)
Acknowledged(a, id) == IF a.id = id THEN [a EXCEPT !.acknowledged = TRUE] ELSE a

LEMMA AcknowledgedIsRowwise ==
  ASSUME AlertsOK, NEW a \in alerts, NEW id
  PROVE  /\ Acknowledged(a, id).id = a.id /\ Acknowledged(a, id).well = a.well
         /\ Acknowledged(a, id).metric = a.metric /\ Acknowledged(a, id).value = a.value
         /\ Acknowledged(a, id).severity = a.severity
         /\ DOMAIN Acknowledged(a, id) = AlertFields
         /\ Acknowledged(a, id).acknowledged <=> a.id = id \/ a.acknowledged
         /\ Acknowledged(a, id).acknowledged \in BOOLEAN
<1>1. DOMAIN a = AlertFields /\ a.acknowledged \in BOOLEAN
  BY DEF AlertsOK
<1>2. CASE a.id = id
  BY <1>1, <1>2 DEF Acknowledged, AlertFields
<1>3. CASE a.id # id
  BY <1>1, <1>3 DEF Acknowledged, AlertFields
<1> QED
  BY <1>2, <1>3

(* It maps the rows one to one.                                             *)
LEMMA AcknowledgedIsBijection ==
  ASSUME AlertsOK, NEW id, NEW S \in SUBSET alerts
  PROVE  /\ IsFiniteSet({Acknowledged(a, id) : a \in S})
         /\ Cardinality({Acknowledged(a, id) : a \in S}) = Cardinality(S)
<1> DEFINE T == {Acknowledged(a, id) : a \in S}
           f == [a \in S |-> Acknowledged(a, id)]
<1>1. f \in [S -> T] /\ \A t \in T : \E a \in S : f[a] = t
  OBVIOUS
<1>2. ASSUME NEW a \in S, NEW b \in S, f[a] = f[b] PROVE a = b
  <2>1. a \in alerts /\ b \in alerts /\ Acknowledged(a, id).id = Acknowledged(b, id).id
    BY <1>2
  <2>2. Acknowledged(a, id).id = a.id
    BY <2>1, AcknowledgedIsRowwise
  <2>3. Acknowledged(b, id).id = b.id
    BY <2>1, AcknowledgedIsRowwise
  <2> QED
    BY <2>1, <2>2, <2>3 DEF AlertsOK
<1>3. f \in Bijection(S, T)
  BY <1>1, <1>2 DEF Bijection, Injection, Surjection, IsInjective
<1>4. IsFiniteSet(S)
  BY FS_Subset DEF AlertsOK
<1> QED
  BY <1>3, <1>4, FS_Bijection DEF ExistsBijection

LEMMA UpdateAlertKeepsInv ==
  ASSUME OpsInv, NEW w \in Workers, UpdateAlert(w)
  PROVE  OpsInv'
<1> DEFINE q == req[w]
           New(a) == Acknowledged(a, q.aid)
<1>1. /\ wells' = wells /\ configs' = configs /\ readings' = readings
      /\ configSeq' = configSeq /\ readingSeq' = readingSeq /\ alertSeq' = alertSeq
      /\ alertWell' = alertWell
  BY DEF UpdateAlert, seqs
<1>2. PICK r : Become(w, r) /\ Holds(r) /\ ~ Inserts(r) /\ ~ Waits(r)
  BY WriteMoves DEF Writes
<1>3. alerts' = alerts \/ alerts' = {New(a) : a \in alerts}
  BY DEF UpdateAlert, Acknowledged
<1>4. IsFiniteSet(alerts')
  BY <1>3, AcknowledgedIsBijection DEF OpsInv, AlertsOK
<1>5. \A a \in alerts : /\ New(a).id = a.id /\ New(a).well = a.well
                        /\ DOMAIN New(a) = AlertFields /\ New(a).acknowledged \in BOOLEAN
  BY AcknowledgedIsRowwise DEF OpsInv
<1> HIDE DEF New
<1>6. AlertsOK' /\ \A b \in alerts' : \E a \in alerts : a.id = b.id /\ a.well = b.well
  <2>1. CASE alerts' = alerts
    BY <1>1, <2>1 DEF OpsInv, AlertsOK
  <2>2. CASE alerts' = {New(a) : a \in alerts}
    <3>1. \A b \in alerts' : /\ DOMAIN b = AlertFields /\ b.acknowledged \in BOOLEAN
                             /\ b.id \in 1..alertSeq /\ b.well = alertWell[b.id]
      BY <1>5, <2>2 DEF OpsInv, AlertsOK
    <3>2. \A b, c \in alerts' : b.id = c.id => b = c
      BY <1>5, <2>2 DEF OpsInv, AlertsOK
    <3>3. \A b \in alerts' : \E a \in alerts : a.id = b.id /\ a.well = b.well
      BY <1>5, <2>2
    <3> QED
      BY <1>1, <1>4, <3>1, <3>2, <3>3 DEF AlertsOK
  <2> QED
    BY <1>3, <2>1, <2>2
<1>7. ConfigsOK' /\ OneConfigPerMetric' /\ ReadingsOK'
  BY <1>1 DEF OpsInv, ConfigsOK, OneConfigPerMetric, ReadingsOK
<1>8. NoOrphans'
  BY <1>1, <1>6 DEF OpsInv, NoOrphans
<1>9. \A u \in Workers : Inserts(req[u]) =>
        /\ req[u].well \in wells' /\ Row(readings', req[u].rid) = {}
        /\ req[u].status # "normal" => Row(alerts', req[u].aid) = {}
  BY <1>1, <1>6 DEF OpsInv, HeldOK, Held, Row
<1> QED
  BY <1>1, <1>2, <1>6, <1>7, <1>8, <1>9, WriteStep DEF OpsInv, SeqsOK

(* The cascade: the lock keeps the well of every open create_reading.       *)
LEMMA DeleteWellKeepsInv ==
  ASSUME OpsInv, NEW w \in Workers, DeleteWell(w)
  PROVE  OpsInv'
<1> DEFINE well == req[w].well
<1>1. /\ wells' = wells \ {well}
      /\ configs' = {c \in configs : c.well # well}
      /\ readings' = {r \in readings : r.well # well}
      /\ alerts' = {a \in alerts : a.well # well}
      /\ configSeq' = configSeq /\ readingSeq' = readingSeq /\ alertSeq' = alertSeq
      /\ alertWell' = alertWell
  BY DEF DeleteWell, seqs
<1>2. PICK r : Become(w, r) /\ Holds(r) /\ ~ Inserts(r) /\ ~ Waits(r)
  BY WriteMoves DEF Writes
<1>3. ConfigsOK' /\ OneConfigPerMetric' /\ NoOrphans'
  BY <1>1 DEF OpsInv, ConfigsOK, OneConfigPerMetric, NoOrphans
<1>4. ReadingsOK' /\ AlertsOK'
  BY <1>1, FS_Subset DEF OpsInv, ReadingsOK, AlertsOK
<1>5. \A u \in Workers : Inserts(req[u]) =>
        /\ req[u].well \in wells' /\ Row(readings', req[u].rid) = {}
        /\ req[u].status # "normal" => Row(alerts', req[u].aid) = {}
  BY <1>1 DEF DeleteWell, Locked, At, Inserts, OpsInv, HeldOK, Held, Row
<1> QED
  BY <1>1, <1>2, <1>3, <1>4, <1>5, WriteStep DEF OpsInv, SeqsOK

LEMMA OpsNextInv == OpsInv /\ [Next]_vars => OpsInv'
<1> SUFFICES ASSUME OpsInv, [Next]_vars PROVE OpsInv'
  OBVIOUS
<1>1. ASSUME NEW w \in Workers, Start(w) PROVE OpsInv'
  BY <1>1, StartMoves, MoveKeepsInv
<1>2. ASSUME NEW w \in Workers, Step(w) PROVE OpsInv'
  <2>1. CASE Looks(w)
    BY <2>1, LookMoves, MoveKeepsInv
  <2>2. CASE InsertReading(w) \/ Writes(w)
    BY <2>2, InsertReadingKeepsInv, CommitReadingKeepsInv, InsertConfigKeepsInv,
       UpdateConfigKeepsInv, DeleteConfigKeepsInv, UpdateAlertKeepsInv, DeleteWellKeepsInv
    DEF Writes
  <2> QED
    BY <1>2, <2>1, <2>2 DEF Step, Looks, Writes
<1>3. ASSUME NEW w \in Workers, Lose(w) PROVE OpsInv'
  BY <1>3, LookMoves, MoveKeepsInv DEF Looks
<1>4. CASE UNCHANGED vars
  BY <1>4 DEF vars, tables, seqs, OpsInv, ReqOK, HeldOK, SeqsOK, ConfigsOK, ReadingsOK, AlertsOK,
     NoOrphans, OneConfigPerMetric, Held, Inserts, Apart, Unflushed, Row
<1> QED
  BY <1>1, <1>2, <1>3, <1>4 DEF Next

LEMMA OpsAlwaysInv == Spec => []OpsInv
BY OpsInitInv, OpsNextInv, PTL DEF Spec

(* No reading, alert or config is left of a deleted well, whatever checked  *)
(* the well before and inserts after: the foreign keys refuse, the lock     *)
(* makes the deletion wait, and the cascade takes what was committed.       *)
THEOREM OperationsNoOrphans == Spec => []NoOrphans
<1>1. OpsInv => NoOrphans
  BY DEF OpsInv
<1> QED
  BY <1>1, OpsAlwaysInv, PTL

(* However many create_threshold find none, one config is stored per well   *)
(* and metric, so get_threshold_for never raises.                           *)
THEOREM OperationsOneConfigPerMetric == Spec => []OneConfigPerMetric
<1>1. OpsInv => OneConfigPerMetric
  BY DEF OpsInv
<1> QED
  BY <1>1, OpsAlwaysInv, PTL

-----------------------------------------------------------------------------
(* The refinement: what each step is to a reader of the alerts.             *)

Pending == {req[v].aid : v \in Inserted}
Live == {a.id : a \in alerts}
Acked == {a.id : a \in {b \in alerts : b.acknowledged}}

LogStep == [Log!LogNext]_(Log!logVars)

(* An open create_reading that raised an alert.                             *)
Raises(r) == Inserts(r) /\ r.aid # 0

LEMMA AlertIdsFit ==
  ASSUME SeqsOK PROVE alertSeq <= MaxReading /\ 1..alertSeq \subseteq 1..MaxReading
<1>1. IsFiniteSet(Unflushed)
  BY FS_Subset, OperationsAssumption DEF Unflushed, OperationsAssumption
<1>2. Cardinality(Unflushed) \in Nat
  BY <1>1, FS_CardinalityType
<1> QED
  BY <1>2, OperationsAssumption DEF SeqsOK, OperationsAssumption

LEMMA InsertedRaises == Inserted = {v \in Workers : Raises(req[v])}
BY DEF Inserted, Raises, Inserts, At

(* One request moves: what becomes of the alerts in flight.                 *)
LEMMA PendingMoves ==
  ASSUME OpsInv, NEW w \in Workers, NEW r, Become(w, r), Holds(r)
  PROVE  /\ Pending = {req[v].aid : v \in Inserted \ {w}}
                        \cup (IF Raises(req[w]) THEN {req[w].aid} ELSE {})
         /\ Pending' = {req[v].aid : v \in Inserted \ {w}}
                         \cup (IF Raises(r) THEN {r.aid} ELSE {})
<1> DEFINE Rest == {req[v].aid : v \in Inserted \ {w}}
<1>1. /\ req'[w] = r
      /\ \A u \in Workers \ {w} : req'[u] = req[u]
  BY StepKeepsReqs DEF OpsInv
<1>2. /\ Inserted = {v \in Workers : Raises(req[v])}
      /\ Inserted' = {v \in Workers : Raises(req'[v])}
  BY DEF Inserted, Raises, Inserts, At
<1>3. Pending' = {req'[v].aid : v \in Inserted'}
  BY DEF Pending
<1>4. Inserted' \ {w} = Inserted \ {w}
  BY <1>1, <1>2
<1>5. /\ w \in Inserted <=> Raises(req[w])
      /\ w \in Inserted' <=> Raises(r)
  BY <1>1, <1>2
<1>6. \A i : i \in Pending <=> i \in Rest \/ (Raises(req[w]) /\ i = req[w].aid)
  BY <1>5 DEF Pending
<1>7. \A i : i \in Pending' <=> i \in Rest \/ (Raises(r) /\ i = r.aid)
  <2>1. \A v \in Inserted \ {w} : v \in Inserted' /\ req'[v].aid = req[v].aid
    BY <1>1, <1>4 DEF Inserted
  <2>2. \A v \in Inserted' : v \in Inserted \ {w} \/ (v = w /\ Raises(r))
    BY <1>4, <1>5
  <2> QED
    BY <1>1, <1>3, <1>5, <2>1, <2>2
<1> QED
  BY <1>6, <1>7

(* Ids in flight are distinct.                                              *)
LEMMA PendingIsApart ==
  ASSUME OpsInv, NEW w \in Workers, Raises(req[w])
  PROVE  req[w].aid \notin {req[v].aid : v \in Inserted \ {w}}
BY InsertedRaises DEF OpsInv, HeldOK, Apart, Raises

(* There are never more of them than workers.                               *)
LEMMA PendingIsBounded ==
  ASSUME NEW w \in Workers, ~ Raises(req[w])
  PROVE  Cardinality(Pending) < Cardinality(Workers)
<1> DEFINE f == [v \in Inserted |-> req[v].aid]
<1>1. IsFiniteSet(Workers \ {w}) /\ Cardinality(Workers \ {w}) = Cardinality(Workers) - 1
      /\ Cardinality(Workers) \in Nat
  BY FS_RemoveElement, FS_CardinalityType, OperationsAssumption DEF OperationsAssumption
<1>2. Inserted \in SUBSET (Workers \ {w})
  BY InsertedRaises
<1>3. IsFiniteSet(Inserted) /\ Cardinality(Inserted) <= Cardinality(Workers \ {w})
  BY <1>1, <1>2, FS_Subset
<1>4. f \in Surjection(Inserted, Pending)
  BY DEF Pending, Surjection
<1>5. IsFiniteSet(Pending) /\ Cardinality(Pending) <= Cardinality(Inserted)
  BY <1>3, <1>4, FS_Surjection
<1>6. Cardinality(Pending) \in Nat /\ Cardinality(Inserted) \in Nat
  BY <1>3, <1>5, FS_CardinalityType
<1> QED
  BY <1>1, <1>3, <1>5, <1>6

(* What is nothing to a reader.                                             *)
LEMMA LogStutter ==
  ASSUME UNCHANGED <<wells, alertSeq, alertWell, Pending, Live, Acked>>
  PROVE  LogStep
BY DEF LogStep, Log!logVars, Pending, Live, Acked

LEMMA MoveStutters ==
  ASSUME OpsInv, NEW w \in Workers, NEW r, Become(w, r), Holds(r),
         ~ Raises(req[w]), ~ Raises(r), UNCHANGED <<wells, alerts, alertSeq, alertWell>>
  PROVE  LogStep
<1>1. Pending' = Pending
  BY PendingMoves
<1>2. Live' = Live /\ Acked' = Acked
  BY DEF Live, Acked
<1> QED
  BY <1>1, <1>2, LogStutter

(* A lost connection rolls back.                                            *)
LEMMA LoseIsRollback ==
  ASSUME OpsInv, NEW w \in Workers, Lose(w)
  PROVE  LogStep
<1>1. Become(w, Idle) /\ Holds(Idle) /\ ~ Raises(Idle)
  BY DEF Lose, Idle, Holds, Raises, Inserts
<1>2. UNCHANGED <<wells, alerts, alertSeq, alertWell>>
  BY DEF Lose, tables, seqs
<1>3. CASE ~ Raises(req[w])
  BY <1>1, <1>2, <1>3, MoveStutters
<1>4. CASE Raises(req[w])
  <2>1. req[w].aid \in 1..MaxReading
    BY <1>4, AlertIdsFit DEF Raises, OpsInv, HeldOK, Held
  <2>2. PICK i \in 1..MaxReading : i = req[w].aid
    BY <2>1
  <2>3. i \in Pending /\ Pending' = Pending \ {i}
    BY <1>1, <1>4, <2>2, PendingMoves, PendingIsApart
  <2>4. Live' = Live /\ Acked' = Acked
    BY <1>2 DEF Live, Acked
  <2>5. Log!Rollback(i)
    BY <1>2, <2>3, <2>4 DEF Log!Rollback, Pending, Live, Acked
  <2> QED
    BY <2>5 DEF LogStep, Log!LogNext, Log!Ids
<1> QED
  BY <1>3, <1>4

LEMMA InsertIsInsert ==
  ASSUME OpsInv, NEW w \in Workers, InsertReading(w)
  PROVE  LogStep
<1> DEFINE q == req[w]
           raises == q.status # "normal"
           r == [q EXCEPT !.pc = "commit", !.rid = readingSeq + 1,
                          !.aid = IF raises THEN alertSeq + 1 ELSE 0]
<1>1. /\ wells' = wells /\ alerts' = alerts /\ q.op = "reading" /\ q.pc = "flush"
      /\ ~ Raises(q) /\ Holds(q) /\ Waits(q)
  BY DEF InsertReading, tables, At, Raises, Inserts, Waits, OpsInv, ReqOK
<1>2. CASE q.well \notin wells
  <2>1. Become(w, Answered(q, 500)) /\ UNCHANGED <<alertSeq, alertWell>>
    BY <1>2 DEF InsertReading, Answer
  <2>2. Holds(Answered(q, 500)) /\ ~ Raises(Answered(q, 500))
    BY AnsweredHolds DEF Raises
  <2> QED
    BY <1>1, <2>1, <2>2, MoveStutters
<1>3. CASE q.well \in wells
  <2>1. /\ Become(w, r)
        /\ alertSeq' = IF raises THEN alertSeq + 1 ELSE alertSeq
        /\ alertWell' = IF raises THEN Append(alertWell, q.well) ELSE alertWell
    BY <1>3 DEF InsertReading, Become, OpsInv, ReqOK
  <2>2. /\ r.op = "reading" /\ r.pc = "commit" /\ DOMAIN r = DOMAIN q
        /\ r.aid = IF raises THEN alertSeq + 1 ELSE 0
    BY <1>1 DEF Holds
  <2>3. Holds(r) /\ (Raises(r) <=> raises)
    BY <1>1, <2>2 DEF Holds, Inserts, Raises, OpsInv, SeqsOK
  <2> HIDE DEF r
  <2>4. CASE ~ raises
    BY <1>1, <2>1, <2>3, <2>4, MoveStutters
  <2>5. CASE raises
    <3>1. PICK well \in Wells : well = q.well
      BY <1>3 DEF OpsInv
    <3>2. alertSeq < MaxReading
      <4>1. IsFiniteSet(Unflushed) /\ w \in Unflushed
        BY <1>1, FS_Subset, OperationsAssumption DEF Unflushed, Waits, OperationsAssumption
      <4>2. Cardinality(Unflushed) \in Nat /\ Cardinality(Unflushed) # 0
        BY <4>1, FS_CardinalityType, FS_EmptySet
      <4> QED
        BY <4>2, OperationsAssumption DEF OperationsAssumption, OpsInv, SeqsOK
    <3>3. Log!Cardinality(Pending) < Cardinality(Workers)
      <4>1. Log!Cardinality(Pending) = Cardinality(Pending)
        BY DEF Log!Cardinality, Cardinality
      <4> QED
        BY <1>1, <4>1, PendingIsBounded
    <3>4. Pending' = Pending \cup {alertSeq + 1}
      BY <1>1, <2>1, <2>2, <2>3, <2>5, PendingMoves
    <3>5. alertWell' = [i \in 1..(alertSeq + 1) |->
                          IF i = alertSeq + 1 THEN well ELSE alertWell[i]]
      BY <1>3, <2>1, <2>5, <3>1 DEF OpsInv, SeqsOK
    <3>6. Live' = Live /\ Acked' = Acked
      BY <1>1 DEF Live, Acked
    <3>7. well \in wells /\ wells' = wells /\ alertSeq' = alertSeq + 1
      BY <1>1, <1>3, <2>1, <2>5, <3>1
    <3>8. Log!Insert(well)
      BY <3>2, <3>3, <3>4, <3>5, <3>6, <3>7 DEF Log!Insert, Pending, Live, Acked
    <3> QED
      BY <3>8 DEF LogStep, Log!LogNext
  <2> QED
    BY <2>4, <2>5
<1> QED
  BY <1>2, <1>3

LEMMA CommitIsCommit ==
  ASSUME OpsInv, NEW w \in Workers, CommitReading(w)
  PROVE  LogStep
<1> DEFINE q == req[w]
<1>1. PICK r : Become(w, r) /\ Holds(r) /\ ~ Inserts(r)
  BY WriteMoves DEF Writes
<1>2. /\ wells' = wells /\ alertSeq' = alertSeq /\ alertWell' = alertWell /\ Inserts(q)
      /\ alerts' = IF q.aid = 0 THEN alerts ELSE alerts \cup {AlertRow(q)}
  BY DEF CommitReading, At, seqs, Inserts
<1>3. ~ Raises(r)
  BY <1>1 DEF Raises
<1>4. CASE q.aid = 0
  BY <1>1, <1>2, <1>3, <1>4, MoveStutters DEF Raises
<1>5. CASE q.aid # 0
  <2>1. Raises(q)
    BY <1>2, <1>5 DEF Raises
  <2>2. PICK i \in 1..MaxReading : i = q.aid
    BY <2>1, AlertIdsFit DEF Raises, OpsInv, HeldOK, Held
  <2>3. i \in Pending /\ Pending' = Pending \ {i}
    BY <1>1, <1>3, <2>1, <2>2, PendingMoves, PendingIsApart
  <2>4. AlertRow(q).id = i /\ AlertRow(q).acknowledged = FALSE
    BY <2>2 DEF AlertRow
  <2>5. Live' = Live \cup {i}
    BY <1>2, <1>5, <2>4 DEF Live
  <2>6. Acked' = Acked
    BY <1>2, <1>5, <2>4 DEF Acked
  <2>7. Log!Commit(i)
    BY <1>2, <2>3, <2>5, <2>6 DEF Log!Commit, Pending, Live, Acked
  <2> QED
    BY <2>7 DEF LogStep, Log!LogNext, Log!Ids
<1> QED
  BY <1>4, <1>5

LEMMA UpdateIsAcknowledge ==
  ASSUME OpsInv, NEW w \in Workers, UpdateAlert(w)
  PROVE  LogStep
<1> DEFINE q == req[w]
           New(a) == Acknowledged(a, q.aid)
<1>1. PICK r : Become(w, r) /\ Holds(r) /\ ~ Inserts(r)
  BY WriteMoves DEF Writes
<1>2. /\ wells' = wells /\ alertSeq' = alertSeq /\ alertWell' = alertWell
      /\ ~ Raises(q) /\ ~ Raises(r)
  BY <1>1 DEF UpdateAlert, At, seqs, Raises, Inserts
<1>3. alerts' = alerts \/ (alerts' = {New(a) : a \in alerts} /\ Row(alerts, q.aid) # {})
  BY DEF UpdateAlert, Acknowledged
<1>4. CASE alerts' = alerts
  BY <1>1, <1>2, <1>4, MoveStutters
<1>5. CASE alerts' = {New(a) : a \in alerts} /\ Row(alerts, q.aid) # {}
  <2>1. PICK i \in 1..MaxReading : i = q.aid
    BY <1>5, AlertIdsFit DEF Row, OpsInv, AlertsOK
  <2>2. \A a \in alerts : New(a).id = a.id
    BY AcknowledgedIsRowwise DEF OpsInv
  <2>3. \A a \in alerts : New(a).acknowledged <=> a.id = i \/ a.acknowledged
    BY <2>1, AcknowledgedIsRowwise DEF OpsInv
  <2> HIDE DEF New
  <2>4. Pending' = Pending
    BY <1>1, <1>2, PendingMoves
  <2>5. Live' = Live /\ i \in Live
    <3>1. Live' = {b.id : b \in alerts'} /\ alerts' = {New(a) : a \in alerts}
      BY <1>5 DEF Live
    <3>2. \E a \in alerts : a.id = i
      BY <1>5, <2>1 DEF Row
    <3> QED
      BY <2>2, <3>1, <3>2 DEF Live
  <2>6. Acked' = Acked \cup {i}
    <3>1. \A j : j \in Acked' <=> \E b \in alerts' : b.acknowledged /\ j = b.id
      BY DEF Acked
    <3>2. \A j : j \in Acked' <=> \E a \in alerts : New(a).acknowledged /\ j = New(a).id
      BY <1>5, <3>1
    <3>3. \A j : j \in Acked <=> \E a \in alerts : a.acknowledged /\ j = a.id
      BY DEF Acked
    <3>4. \E a \in alerts : a.id = i
      BY <1>5, <2>1 DEF Row
    <3> QED
      BY <2>2, <2>3, <3>2, <3>3, <3>4
  <2>7. Log!Acknowledge(i)
    BY <1>2, <2>4, <2>5, <2>6 DEF Log!Acknowledge, Pending, Live, Acked
  <2> QED
    BY <2>7 DEF LogStep, Log!LogNext, Log!Ids
<1> QED
  BY <1>3, <1>4, <1>5

LEMMA DeleteIsDelete ==
  ASSUME OpsInv, NEW w \in Workers, DeleteWell(w)
  PROVE  LogStep
<1> DEFINE q == req[w]
<1>1. PICK r : Become(w, r) /\ Holds(r) /\ ~ Inserts(r)
  BY WriteMoves DEF Writes
<1>2. /\ wells' = wells \ {q.well} /\ alerts' = {a \in alerts : a.well # q.well}
      /\ alertSeq' = alertSeq /\ alertWell' = alertWell
      /\ ~ Raises(q) /\ ~ Raises(r)
  BY <1>1 DEF DeleteWell, At, seqs, Raises, Inserts
<1>3. CASE q.well \notin wells
  <2>1. wells' = wells /\ alerts' = alerts
    BY <1>2, <1>3 DEF OpsInv, NoOrphans
  <2> QED
    BY <1>1, <1>2, <2>1, MoveStutters
<1>4. CASE q.well \in wells
  <2>1. PICK well \in Wells : well = q.well
    BY <1>4 DEF OpsInv
  <2>2. Pending' = Pending
    BY <1>1, <1>2, PendingMoves
  <2>3. \A i \in Pending : alertWell[i] # well
    <3> SUFFICES ASSUME NEW v \in Inserted PROVE alertWell[req[v].aid] # well
      BY DEF Pending
    <3>1. v \in Workers /\ Raises(req[v])
      BY InsertedRaises
    <3>2. Held(req[v]) /\ req[v].aid # 0 /\ req[v].well # well
      BY <2>1, <3>1 DEF DeleteWell, Locked, At, Raises, Inserts, OpsInv, HeldOK
    <3> QED
      BY <3>2 DEF Held
  <2>4. \A a \in alerts : a.well = alertWell[a.id]
    BY DEF OpsInv, AlertsOK
  <2>5. Live' = {i \in Live : alertWell[i] # well} /\ Acked' = {i \in Acked : alertWell[i] # well}
    BY <1>2, <2>1, <2>4 DEF Live, Acked
  <2>6. Log!DeleteWell(well)
    BY <1>2, <1>4, <2>1, <2>2, <2>3, <2>5 DEF Log!DeleteWell, Pending, Live, Acked
  <2> QED
    BY <2>6 DEF LogStep, Log!LogNext
<1> QED
  BY <1>3, <1>4

LEMMA OpsNextLog == OpsInv /\ [Next]_vars => LogStep
<1> SUFFICES ASSUME OpsInv, [Next]_vars PROVE LogStep
  OBVIOUS
<1>1. ASSUME NEW w \in Workers, Moves(w), ~ Raises(req[w]),
             UNCHANGED <<wells, alerts, alertSeq, alertWell>>
      PROVE  LogStep
  BY <1>1, MoveStutters DEF Moves, Raises
<1>2. ASSUME NEW w \in Workers, Start(w) PROVE LogStep
  <2>1. Free(w)
    BY <1>2 DEF Start, StartReading, StartConfig, StartPatch, StartDrop, StartAck, StartDropWell
  <2> QED
    BY <1>1, <1>2, <2>1, StartMoves DEF Free, Raises, Inserts, tables, seqs
<1>3. ASSUME NEW w \in Workers, Looks(w), ~ Lose(w) PROVE LogStep
  <2>1. ~ Raises(req[w])
    BY <1>3 DEF Looks, SelectThreshold, RefreshReading, LookupConfig, RefreshConfig, RefreshAlert,
         At, Raises, Inserts
  <2> QED
    BY <1>1, <1>3, <2>1, LookMoves DEF tables, seqs
<1>4. ASSUME NEW w \in Workers, InsertConfig(w) \/ UpdateConfig(w) \/ DeleteConfig(w)
      PROVE  LogStep
  <2>1. Moves(w)
    BY <1>4, WriteMoves DEF Writes, Moves
  <2> QED
    BY <1>1, <1>4, <2>1 DEF InsertConfig, UpdateConfig, DeleteConfig, At, Raises, Inserts, seqs
<1>5. ASSUME NEW w \in Workers, Step(w) PROVE LogStep
  BY <1>3, <1>4, <1>5, InsertIsInsert, CommitIsCommit, UpdateIsAcknowledge, DeleteIsDelete,
     LoseIsRollback DEF Step, Looks
<1>6. CASE UNCHANGED vars
  BY <1>6, LogStutter DEF vars, tables, seqs, Pending, Inserted, At, Live, Acked
<1> QED
  BY <1>2, <1>5, <1>6, LoseIsRollback DEF Next

LEMMA OpsInitLog == Init => Log!LogInit
BY DEF Init, Log!LogInit, Inserted, At, Idle

(* Concurrent requests over several tables and transactions are, as far as  *)
(* a reader of threshold_alerts can tell, the steps of AlertLog: the stream *)
(* and the panel may be judged over that module.                            *)
THEOREM OperationsImplementsAlertLog == Spec => ImplementsAlertLog
<1>1. Init => Log!LogInit
  BY OpsInitLog
<1>2. OpsInv /\ [Next]_vars => [Log!LogNext]_(Log!logVars)
  BY OpsNextLog DEF LogStep
<1> QED
  BY <1>1, <1>2, OpsAlwaysInv, PTL DEF Spec, ImplementsAlertLog, Log!LogSpec

-----------------------------------------------------------------------------
(* No lost update.                                                          *)

LEMMA OpsPatches ==
  OpsInv /\ [Next]_vars =>
    \A c \in configs, d \in configs' : c.id = d.id =>
      \A f \in Fields : c.band[f] # d.band[f] =>
        \E w \in Workers : /\ At(w, "patch", "flush")
                           /\ req[w].cid = c.id
                           /\ f \in DOMAIN req[w].patch
                           /\ req[w].patch[f] = d.band[f]
<1> SUFFICES ASSUME OpsInv, [Next]_vars, NEW c \in configs, NEW d \in configs', c.id = d.id,
                    NEW f \in Fields, c.band[f] # d.band[f]
             PROVE  \E w \in Workers : /\ At(w, "patch", "flush")
                                       /\ req[w].cid = c.id
                                       /\ f \in DOMAIN req[w].patch
                                       /\ req[w].patch[f] = d.band[f]
  OBVIOUS
<1>1. d \notin configs
  BY DEF OpsInv, ConfigsOK
<1>2. c.id \in 1..configSeq /\ configSeq \in Nat
  BY DEF OpsInv, ConfigsOK, SeqsOK
<1>3. PICK w \in Workers : Start(w) \/ Step(w) \/ Lose(w)
  BY <1>1 DEF Next, vars, tables
<1>4. InsertConfig(w) \/ UpdateConfig(w) \/ DeleteConfig(w) \/ DeleteWell(w)
  <2>1. configs' # configs
    BY <1>1
  <2>2. ~ Start(w) /\ ~ Looks(w)
    BY <2>1, StartMoves, LookMoves DEF tables
  <2> QED
    BY <1>3, <2>1, <2>2
    DEF Looks, Step, InsertReading, CommitReading, UpdateAlert, tables
<1>5. ~ InsertConfig(w)
  BY <1>1, <1>2 DEF InsertConfig
<1>6. ~ DeleteConfig(w) /\ ~ DeleteWell(w)
  BY <1>1 DEF DeleteConfig, DeleteWell
<1>7. UpdateConfig(w)
  BY <1>4, <1>5, <1>6
<1> DEFINE q == req[w]
<1>8. PICK e \in configs : d = IF e.id = q.cid THEN [e EXCEPT !.band = Patched(e.band, q)] ELSE e
  BY <1>1, <1>7 DEF UpdateConfig
<1>9. e.id = q.cid /\ DOMAIN e = {"id", "well", "metric", "band"}
  BY <1>1, <1>8 DEF OpsInv, ConfigsOK
<1>10. d.id = e.id /\ d.band = Patched(e.band, q)
  BY <1>8, <1>9
<1>11. e = c
  BY <1>10 DEF OpsInv, ConfigsOK
<1>12. f \in Dirty(q) /\ d.band[f] = q.patch[f]
  BY <1>10, <1>11 DEF Patched
<1> QED
  BY <1>7, <1>9, <1>11, <1>12 DEF UpdateConfig, Dirty

(* Two PATCHes of one config that both loaded the old row do not undo each  *)
(* other: a field changes only to the value a PATCH under way has for it.   *)
THEOREM OperationsPatchTouchesOnlyItsFields == Spec => PatchTouchesOnlyItsFields
BY OpsAlwaysInv, OpsPatches, PTL DEF Spec, PatchTouchesOnlyItsFields

-----------------------------------------------------------------------------
(* Readings and alerts in pairs.                                            *)

ReadingsOf(R, well, m, v, s) ==
  {r \in R : r.well = well /\ r.metric = m /\ r.value = v /\ r.status = s}

AlertsOf(A, well, m, v, s) ==
  {a \in A : a.well = well /\ a.metric = m /\ a.value = v /\ a.severity = SeverityOf(s)}

Paired(R, A) ==
  \A well \in Wells, m \in Metrics, v \in Values, s \in {"warning", "breach"} :
    Cardinality(ReadingsOf(R, well, m, v, s)) = Cardinality(AlertsOf(A, well, m, v, s))

LEMMA PairedIsProperty == Paired(readings, alerts) <=> AlertPerAbnormalReading
BY DEF Paired, ReadingsOf, AlertsOf, AlertPerAbnormalReading

LEMMA CommitKeepsPairs ==
  ASSUME OpsInv, Paired(readings, alerts), NEW w \in Workers, CommitReading(w)
  PROVE  Paired(readings', alerts')
<1> DEFINE q == req[w]
           row == ReadingRow(q)
           alert == AlertRow(q)
<1>1. /\ readings' = readings \cup {row}
      /\ alerts' = IF q.aid = 0 THEN alerts ELSE alerts \cup {alert}
  BY DEF CommitReading
<1>2. Held(q)
  BY DEF CommitReading, At, Inserts, OpsInv, HeldOK
<1>3. row.id = q.rid /\ row.well = q.well /\ row.metric = q.metric /\ row.value = q.value
      /\ row.status = q.status
  BY DEF ReadingRow
<1>4. alert.id = q.aid /\ alert.well = q.well /\ alert.metric = q.metric /\ alert.value = q.value
      /\ alert.severity = SeverityOf(q.status)
  BY DEF AlertRow
<1>5. row \notin readings
  BY <1>2, <1>3 DEF Held, Row
<1>6. IsFiniteSet(readings) /\ IsFiniteSet(alerts)
  BY DEF OpsInv, ReadingsOK, AlertsOK
<1>7. q.aid = 0 <=> q.status = "normal"
  BY <1>2 DEF Held
<1> HIDE DEF row, alert
<1> SUFFICES ASSUME NEW well \in Wells, NEW m \in Metrics, NEW v \in Values,
                    NEW s \in {"warning", "breach"}
             PROVE  Cardinality(ReadingsOf(readings', well, m, v, s))
                      = Cardinality(AlertsOf(alerts', well, m, v, s))
  BY DEF Paired
<1> DEFINE R == ReadingsOf(readings, well, m, v, s)
           A == AlertsOf(alerts, well, m, v, s)
<1>8. /\ IsFiniteSet(R) /\ IsFiniteSet(A) /\ Cardinality(R) = Cardinality(A)
      /\ R \subseteq readings /\ A \subseteq alerts
  <2>1. R \in SUBSET readings /\ A \in SUBSET alerts
    BY DEF ReadingsOf, AlertsOf
  <2> QED
    BY <1>6, <2>1, FS_Subset DEF Paired
<1>9. CASE q.well = well /\ q.metric = m /\ q.value = v /\ q.status = s
  <2>1. q.aid # 0 /\ alert \notin alerts
    BY <1>2, <1>4, <1>7, <1>9 DEF Held, Row
  <2>2. ReadingsOf(readings', well, m, v, s) = R \cup {row}
    BY <1>1, <1>3, <1>9 DEF ReadingsOf
  <2>3. AlertsOf(alerts', well, m, v, s) = A \cup {alert}
    BY <1>1, <1>4, <1>9, <2>1 DEF AlertsOf
  <2>4. row \notin R /\ alert \notin A
    BY <1>5, <1>8, <2>1
  <2> HIDE DEF R, A
  <2>5. Cardinality(R \cup {row}) = Cardinality(R) + 1
    BY <1>8, <2>4, FS_AddElement
  <2>6. Cardinality(A \cup {alert}) = Cardinality(A) + 1
    BY <1>8, <2>4, FS_AddElement
  <2> QED
    BY <1>8, <2>2, <2>3, <2>5, <2>6
<1>10. CASE ~ (q.well = well /\ q.metric = m /\ q.value = v /\ q.status = s)
  <2>1. ReadingsOf(readings', well, m, v, s) = R
    BY <1>1, <1>3, <1>10 DEF ReadingsOf
  <2>2. AlertsOf(alerts', well, m, v, s) = A
    BY <1>1, <1>2, <1>4, <1>7, <1>10 DEF AlertsOf, SeverityOf, Held, Statuses
  <2> QED
    BY <1>8, <2>1, <2>2
<1> QED
  BY <1>9, <1>10

LEMMA AcknowledgeKeepsPairs ==
  ASSUME OpsInv, Paired(readings, alerts), NEW w \in Workers, UpdateAlert(w)
  PROVE  Paired(readings', alerts')
<1> DEFINE id == req[w].aid
<1>1. readings' = readings
  BY DEF UpdateAlert
<1>2. CASE alerts' = alerts
  BY <1>1, <1>2
<1>3. CASE alerts' = {Acknowledged(a, id) : a \in alerts}
  <2> SUFFICES ASSUME NEW well \in Wells, NEW m \in Metrics, NEW v \in Values,
                      NEW s \in {"warning", "breach"}
               PROVE  Cardinality(AlertsOf(alerts', well, m, v, s))
                        = Cardinality(AlertsOf(alerts, well, m, v, s))
    BY <1>1 DEF Paired
  <2> DEFINE A == AlertsOf(alerts, well, m, v, s)
  <2>1. \A a \in alerts : /\ Acknowledged(a, id).well = a.well
                          /\ Acknowledged(a, id).metric = a.metric
                          /\ Acknowledged(a, id).value = a.value
                          /\ Acknowledged(a, id).severity = a.severity
    BY AcknowledgedIsRowwise DEF OpsInv
  <2>2. AlertsOf(alerts', well, m, v, s) = {Acknowledged(a, id) : a \in A}
    BY <1>3, <2>1 DEF AlertsOf
  <2>3. A \in SUBSET alerts
    BY DEF AlertsOf
  <2> HIDE DEF A
  <2>4. Cardinality({Acknowledged(a, id) : a \in A}) = Cardinality(A)
    BY <2>3, AcknowledgedIsBijection DEF OpsInv
  <2> QED
    BY <2>2, <2>4 DEF A
<1> QED
  BY <1>2, <1>3 DEF UpdateAlert, Acknowledged

LEMMA DeleteKeepsPairs ==
  ASSUME Paired(readings, alerts), NEW w \in Workers, DeleteWell(w)
  PROVE  Paired(readings', alerts')
<1> DEFINE gone == req[w].well
<1>1. /\ readings' = {r \in readings : r.well # gone}
      /\ alerts' = {a \in alerts : a.well # gone}
  BY DEF DeleteWell
<1> SUFFICES ASSUME NEW well \in Wells, NEW m \in Metrics, NEW v \in Values,
                    NEW s \in {"warning", "breach"}
             PROVE  Cardinality(ReadingsOf(readings', well, m, v, s))
                      = Cardinality(AlertsOf(alerts', well, m, v, s))
  BY DEF Paired
<1>2. CASE well = gone
  <2>1. ReadingsOf(readings', well, m, v, s) = {} /\ AlertsOf(alerts', well, m, v, s) = {}
    BY <1>1, <1>2 DEF ReadingsOf, AlertsOf
  <2> QED
    BY <2>1
<1>3. CASE well # gone
  <2>1. /\ ReadingsOf(readings', well, m, v, s) = ReadingsOf(readings, well, m, v, s)
        /\ AlertsOf(alerts', well, m, v, s) = AlertsOf(alerts, well, m, v, s)
    BY <1>1, <1>3 DEF ReadingsOf, AlertsOf
  <2> QED
    BY <2>1 DEF Paired
<1> QED
  BY <1>2, <1>3

LEMMA NextKeepsPairs ==
  ASSUME OpsInv, Paired(readings, alerts), [Next]_vars
  PROVE  Paired(readings', alerts')
<1>1. CASE UNCHANGED <<readings, alerts>>
  BY <1>1
<1>2. CASE ~ UNCHANGED <<readings, alerts>>
  <2>1. PICK w \in Workers : Start(w) \/ Step(w) \/ Lose(w)
    BY <1>2 DEF Next, vars, tables
  <2>2. ~ Start(w) /\ ~ Looks(w)
    BY <1>2, StartMoves, LookMoves DEF tables
  <2>3. CommitReading(w) \/ UpdateAlert(w) \/ DeleteWell(w)
    BY <1>2, <2>1, <2>2
    DEF Looks, Step, InsertReading, InsertConfig, UpdateConfig, DeleteConfig, tables
  <2> QED
    BY <2>3, CommitKeepsPairs, AcknowledgeKeepsPairs, DeleteKeepsPairs
<1> QED
  BY <1>1, <1>2

(* A reading out of its band and the alert it raised are stored in one      *)
(* transaction and leave with their well: whichever request fails, is lost  *)
(* or waits, there are as many of the one as of the other.                  *)
THEOREM OperationsAlertPerAbnormalReading == Spec => []AlertPerAbnormalReading
<1>1. Init => Paired(readings, alerts)
  BY DEF Init, Paired, ReadingsOf, AlertsOf
<1>2. OpsInv /\ Paired(readings, alerts) /\ [Next]_vars => Paired(readings, alerts)'
  BY NextKeepsPairs
<1>3. Paired(readings, alerts) => AlertPerAbnormalReading
  BY PairedIsProperty
<1> QED
  BY <1>1, <1>2, <1>3, OpsAlwaysInv, PTL DEF Spec

-----------------------------------------------------------------------------
(* What a client was told.                                                  *)

Ended(r, code) == r.pc = "done" /\ r.code = code

(* What a reading's request knows of its rows: they are of its well, from   *)
(* the COMMIT on its reading is there unless the well is gone, and after an *)
(* error neither is there.                                                  *)
ReadingTold(r) ==
  /\ r.rid \in 0..readingSeq /\ r.aid \in 0..alertSeq
  /\ r.pc \in {"threshold", "flush"} => r.rid = 0 /\ r.aid = 0
  /\ \A x \in Row(readings, r.rid) : x.well = r.well
  /\ r.pc \in {"commit", "refresh"} => \A a \in Row(alerts, r.aid) : a.well = r.well
  /\ r.pc = "refresh" \/ Ended(r, 201) => Row(readings, r.rid) # {} \/ r.well \notin wells
  /\ Ended(r, 500) => Row(readings, r.rid) = {} /\ Row(alerts, r.aid) = {}

ConfigTold(r) ==
  /\ r.cid \in 0..configSeq
  /\ r.pc \in {"lookup", "flush"} => r.cid = 0
  /\ Ended(r, 409) \/ Ended(r, 500) => Row(configs, r.cid) = {}

AckTold(r) ==
  /\ r.aid \in 1..alertSeq
  /\ (r.pc = "flush" /\ r.loaded) \/ r.pc = "refresh" \/ Ended(r, 200) =>
       \A a \in Row(alerts, r.aid) : a.acknowledged

Told(r) ==
  /\ r.op = "reading" => ReadingTold(r)
  /\ r.op = "config" => ConfigTold(r)
  /\ r.op = "ack" => AckTold(r)

(* The rows an open create_reading will store are nobody else's.            *)
Distinct(q, r) ==
  /\ r.op = "reading" => q.rid # r.rid
  /\ r.op \in {"reading", "ack"} => q.aid = 0 \/ q.aid # r.aid

ToldInv ==
  /\ \A w \in Workers : Told(req[w])
  /\ \A u, w \in Workers : u # w /\ Inserts(req[u]) => Distinct(req[u], req[w])

LEMMA ToldIsProperty == ToldInv => AnswersMatchTables
BY DEF ToldInv, Told, ReadingTold, ConfigTold, AckTold, Ended, AnswersMatchTables

(* What a request that does not move may find changed: no row with its ids  *)
(* is new, a reading goes only with its well, no alert is unacknowledged.   *)
Frame(r) ==
  /\ r.op = "reading" => /\ \A x \in readings' : x.id = r.rid => x \in readings
                         /\ \A x \in readings : x \in readings' \/ x.well \notin wells'
  /\ r.op \in {"reading", "ack"} =>
       \A b \in alerts' : b.id = r.aid =>
         \E a \in alerts : a.id = b.id /\ a.well = b.well /\ (a.acknowledged => b.acknowledged)

LEMMA FrameKeepsTold ==
  ASSUME OpsInv, NEW u \in Workers, req'[u] = req[u], Told(req[u]), Frame(req[u]),
         wells' \subseteq wells, readingSeq' >= readingSeq, alertSeq' >= alertSeq,
         configSeq' >= configSeq, readingSeq' \in Nat, alertSeq' \in Nat, configSeq' \in Nat,
         \A d \in configs' : d.id > configSeq \/ Row(configs, d.id) # {}
  PROVE  Told(req[u])'
<1> DEFINE r == req[u]
<1>1. readingSeq \in Nat /\ alertSeq \in Nat /\ configSeq \in Nat
  BY DEF OpsInv, SeqsOK
<1>2. ASSUME r.op = "reading" PROVE ReadingTold(req[u])'
  <2>1. ReadingTold(r) /\ Frame(r)
    BY <1>2 DEF Told
  <2>2. r.rid \in 0..readingSeq' /\ r.aid \in 0..alertSeq'
    BY <1>1, <2>1 DEF ReadingTold
  <2>3. \A x \in Row(readings', r.rid) : x \in Row(readings, r.rid)
    BY <1>2, <2>1 DEF Frame, Row
  <2>4. \A b \in Row(alerts', r.aid) : \E a \in Row(alerts, r.aid) : a.well = b.well
    BY <1>2, <2>1 DEF Frame, Row
  <2>5. Row(readings, r.rid) # {} => Row(readings', r.rid) # {} \/ r.well \notin wells'
    BY <1>2, <2>1 DEF Frame, Row, ReadingTold
  <2> QED
    BY <2>1, <2>2, <2>3, <2>4, <2>5 DEF ReadingTold, Ended
<1>3. ASSUME r.op = "config" PROVE ConfigTold(req[u])'
  <2>1. ConfigTold(r)
    BY <1>3 DEF Told
  <2>2. r.cid \in 0..configSeq'
    BY <1>1, <2>1 DEF ConfigTold
  <2>3. Row(configs, r.cid) = {} => Row(configs', r.cid) = {}
    BY <1>1, <2>1 DEF ConfigTold, Row
  <2> QED
    BY <2>1, <2>2, <2>3 DEF ConfigTold, Ended
<1>4. ASSUME r.op = "ack" PROVE AckTold(req[u])'
  <2>1. AckTold(r) /\ Frame(r)
    BY <1>4 DEF Told
  <2>2. r.aid \in 1..alertSeq'
    BY <1>1, <2>1 DEF AckTold
  <2>3. \A b \in Row(alerts', r.aid) :
          \E a \in Row(alerts, r.aid) : a.acknowledged => b.acknowledged
    BY <1>4, <2>1 DEF Frame, Row
  <2> QED
    BY <2>1, <2>2, <2>3 DEF AckTold, Ended
<1> QED
  BY <1>2, <1>3, <1>4 DEF Told

(* One request moves.                                                       *)
LEMMA ToldStep ==
  ASSUME OpsInv, ToldInv, NEW w \in Workers, NEW r, Become(w, r), Holds(r),
         \A u \in Workers \ {w} : Told(req[u])', Told(req[w])',
         \A u \in Workers \ {w} : Inserts(req[u]) => Distinct(req[u], r),
         Inserts(r) => \A u \in Workers \ {w} : Distinct(r, req[u])
  PROVE  ToldInv'
<1>1. /\ req'[w] = r
      /\ \A u \in Workers \ {w} : req'[u] = req[u]
  BY StepKeepsReqs DEF OpsInv
<1>2. ASSUME NEW u \in Workers, NEW v \in Workers, u # v, Inserts(req[u])'
      PROVE  Distinct(req[u], req[v])'
  BY <1>1, <1>2 DEF ToldInv, Inserts, Distinct
<1> QED
  BY <1>2 DEF ToldInv

(* A step that changes no table.                                            *)
LEMMA ToldQuietStep ==
  ASSUME OpsInv, ToldInv, NEW w \in Workers, NEW r, Become(w, r), Holds(r), ~ Inserts(r),
         Told(req[w])', UNCHANGED <<tables, seqs, alertWell>>,
         \/ r.op \notin {"reading", "ack"}
         \/ r.op = req[w].op /\ r.aid = req[w].aid /\ (r.op = "reading" => r.rid = req[w].rid)
         \/ r.op = "reading" /\ r.rid = 0 /\ r.aid = 0
         \/ r.op = "ack" /\ Row(alerts, r.aid) # {}
  PROVE  ToldInv'
<1>1. \A u \in Workers \ {w} : req'[u] = req[u]
  BY StepKeepsReqs DEF OpsInv
<1>2. /\ wells' = wells /\ configs' = configs /\ readings' = readings /\ alerts' = alerts
      /\ configSeq' = configSeq /\ readingSeq' = readingSeq /\ alertSeq' = alertSeq
  BY DEF tables, seqs
<1>3. ASSUME NEW u \in Workers \ {w} PROVE Told(req[u])'
  <2>1. Told(req[u]) /\ Frame(req[u])
    BY <1>2 DEF ToldInv, Frame
  <2> QED
    BY <1>1, <1>2, <1>3, <2>1, FrameKeepsTold DEF OpsInv, SeqsOK, Row
<1>4. ASSUME NEW u \in Workers \ {w}, Inserts(req[u]) PROVE Distinct(req[u], r)
  <2>1. Distinct(req[u], req[w]) /\ Held(req[u])
    BY <1>4 DEF ToldInv, OpsInv, HeldOK
  <2>2. req[u].rid # 0 /\ (req[u].aid = 0 \/ Row(alerts, req[u].aid) = {})
    BY <2>1 DEF Held
  <2> QED
    BY <2>1, <2>2 DEF Distinct
<1> QED
  BY <1>3, <1>4, ToldStep

LEMMA AnsweredKeeps ==
  ASSUME NEW q, NEW code
  PROVE  LET r == Answered(q, code)
         IN  /\ q.op \in {"reading", "config", "ack"} => r.op = q.op
             /\ q.op \notin {"reading", "config", "ack"} => r.op = "none"
             /\ r.pc = "done" /\ r.code = code
             /\ q.op = "reading" => r.well = q.well /\ r.rid = q.rid /\ r.aid = q.aid
             /\ q.op = "config" => r.cid = q.cid
             /\ q.op = "ack" => r.aid = q.aid
BY DEF Answered, Idle

(* No row has the id 0.                                                     *)
LEMMA NoRowZero ==
  ASSUME OpsInv
  PROVE  Row(readings, 0) = {} /\ Row(alerts, 0) = {} /\ Row(configs, 0) = {}
BY DEF Row, OpsInv, ReadingsOK, AlertsOK, ConfigsOK

(* An answer of a step that changes no table.                               *)
LEMMA AnswerKeepsTold ==
  ASSUME OpsInv, ToldInv, NEW w \in Workers, NEW code, Answer(w, code),
         UNCHANGED <<tables, seqs, alertWell>>,
         req[w].op = "reading" /\ code = 201 =>
           Row(readings, req[w].rid) # {} \/ req[w].well \notin wells,
         req[w].op = "reading" /\ code = 500 =>
           Row(readings, req[w].rid) = {} /\ Row(alerts, req[w].aid) = {},
         req[w].op = "config" /\ code \in {409, 500} => Row(configs, req[w].cid) = {},
         req[w].op = "ack" /\ code = 200 => \A a \in Row(alerts, req[w].aid) : a.acknowledged
  PROVE  ToldInv'
<1> DEFINE q == req[w]
           r == Answered(q, code)
<1>1. Become(w, r) /\ Holds(r) /\ ~ Inserts(r)
  BY AnsweredHolds DEF Answer
<1>2. /\ q.op \in {"reading", "config", "ack"} => r.op = q.op
      /\ q.op \notin {"reading", "config", "ack"} => r.op = "none"
      /\ r.pc = "done" /\ r.code = code
      /\ q.op = "reading" => r.well = q.well /\ r.rid = q.rid /\ r.aid = q.aid
      /\ q.op = "config" => r.cid = q.cid
      /\ q.op = "ack" => r.aid = q.aid
  BY AnsweredKeeps
<1> HIDE DEF r
<1>3. req'[w] = r /\ Told(q)
  BY <1>1, StepKeepsReqs DEF OpsInv, ToldInv
<1>4. /\ wells' = wells /\ configs' = configs /\ readings' = readings /\ alerts' = alerts
      /\ configSeq' = configSeq /\ readingSeq' = readingSeq /\ alertSeq' = alertSeq
  BY DEF tables, seqs
<1>5. Told(req[w])'
  <2>1. ASSUME r.op = "reading" PROVE ReadingTold(req[w])'
    BY <1>2, <1>3, <1>4, <2>1 DEF Told, ReadingTold, Ended
  <2>2. ASSUME r.op = "config" PROVE ConfigTold(req[w])'
    BY <1>2, <1>3, <1>4, <2>2 DEF Told, ConfigTold, Ended
  <2>3. ASSUME r.op = "ack" PROVE AckTold(req[w])'
    BY <1>2, <1>3, <1>4, <2>3 DEF Told, AckTold, Ended
  <2> QED
    BY <1>3, <2>1, <2>2, <2>3 DEF Told
<1> QED
  BY <1>1, <1>2, <1>5, ToldQuietStep

LEMMA LookKeepsTold ==
  ASSUME OpsInv, ToldInv, NEW w \in Workers, Looks(w)
  PROVE  ToldInv'
<1> DEFINE q == req[w]
<1>1. UNCHANGED <<tables, seqs, alertWell>>
  BY LookMoves
<1>2. /\ wells' = wells /\ configs' = configs /\ readings' = readings /\ alerts' = alerts
      /\ configSeq' = configSeq /\ readingSeq' = readingSeq /\ alertSeq' = alertSeq
  BY <1>1 DEF tables, seqs
<1>3. Told(q) /\ Holds(q)
  BY DEF ToldInv, OpsInv, ReqOK
<1>4. ASSUME SelectThreshold(w) PROVE ToldInv'
  <2>1. q.op = "reading" /\ q.pc = "threshold" /\ q.rid = 0 /\ q.aid = 0
    BY <1>3, <1>4 DEF SelectThreshold, At, Told, ReadingTold
  <2>2. ASSUME Answer(w, 500) PROVE ToldInv'
    BY <1>1, <2>1, <2>2, NoRowZero, AnswerKeepsTold
  <2>3. ASSUME NEW status, status \in Statuses,
               req' = [req EXCEPT ![w].pc = "flush", ![w].status = status]
        PROVE  ToldInv'
    <3> DEFINE r == [q EXCEPT !.pc = "flush", !.status = status]
    <3>1. Become(w, r)
      BY <2>3 DEF Become, OpsInv, ReqOK
    <3>2. /\ r.op = "reading" /\ r.pc = "flush" /\ r.status = status /\ DOMAIN r = DOMAIN q
          /\ r.rid = 0 /\ r.aid = 0
      BY <1>3, <2>1 DEF Holds
    <3>3. Holds(r) /\ ~ Inserts(r)
      BY <1>3, <2>1, <2>3, <3>2 DEF Holds, Inserts
    <3> HIDE DEF r
    <3>4. req'[w] = r
      BY <3>1, <3>3, StepKeepsReqs DEF OpsInv
    <3>5. Told(req[w])'
      BY <1>2, <3>2, <3>4, NoRowZero DEF Told, ReadingTold, Ended, OpsInv, SeqsOK
    <3> QED
      BY <1>1, <3>1, <3>2, <3>3, <3>5, ToldQuietStep
  <2> QED
    BY <1>4, <2>2, <2>3, StatusIsOne DEF SelectThreshold
<1>5. ASSUME RefreshReading(w) PROVE ToldInv'
  <2>1. q.op = "reading" /\ q.pc = "refresh"
    BY <1>5 DEF RefreshReading, At
  <2>2. Row(readings, q.rid) = {} => Row(alerts, q.aid) = {}
    BY <1>3, <2>1 DEF Told, ReadingTold, Row, OpsInv, NoOrphans
  <2> QED
    BY <1>1, <1>5, <2>1, <2>2, AnswerKeepsTold DEF RefreshReading
<1>6. ASSUME LookupConfig(w) PROVE ToldInv'
  <2>1. q.op = "config" /\ q.pc = "lookup" /\ q.cid = 0
    BY <1>3, <1>6 DEF LookupConfig, At, Told, ConfigTold
  <2>2. ASSUME Answer(w, 409) PROVE ToldInv'
    BY <1>1, <2>1, <2>2, NoRowZero, AnswerKeepsTold
  <2>3. ASSUME Goto(w, "flush") PROVE ToldInv'
    <3>1. PICK r : Become(w, r) /\ Holds(r) /\ r.op = "config" /\ r.pc = "flush" /\ r.cid = 0
      BY <2>1, <2>3, GotoKeeps
    <3>2. req'[w] = r
      BY <3>1, StepKeepsReqs DEF OpsInv
    <3>3. Told(req[w])'
      BY <1>2, <3>1, <3>2 DEF Told, ConfigTold, Ended, OpsInv, SeqsOK
    <3> QED
      BY <1>1, <3>1, <3>3, ToldQuietStep DEF Inserts
  <2> QED
    BY <1>6, <2>2, <2>3 DEF LookupConfig
<1>7. ASSUME RefreshConfig(w) PROVE ToldInv'
  <2>1. q.op \in {"config", "patch"}
    BY <1>7 DEF RefreshConfig, At
  <2>2. PICK code : /\ Answer(w, code)
                    /\ code = IF Row(configs, q.cid) = {} THEN 500
                              ELSE IF q.op = "config" THEN 201 ELSE 200
    BY <1>7 DEF RefreshConfig
  <2>3. q.op = "config" /\ code \in {409, 500} => Row(configs, q.cid) = {}
    BY <2>2
  <2> QED
    BY <1>1, <2>1, <2>2, <2>3, AnswerKeepsTold
<1>8. ASSUME RefreshAlert(w) PROVE ToldInv'
  <2>1. q.op = "ack" /\ q.pc = "refresh"
    BY <1>8 DEF RefreshAlert, At
  <2>2. \A a \in Row(alerts, q.aid) : a.acknowledged
    BY <1>3, <2>1 DEF Told, AckTold
  <2> QED
    BY <1>1, <1>8, <2>1, <2>2, AnswerKeepsTold DEF RefreshAlert
<1>9. ASSUME Lose(w) PROVE ToldInv'
  <2>1. Become(w, Idle) /\ Holds(Idle) /\ Idle.op = "none" /\ ~ Inserts(Idle)
    BY <1>9 DEF Lose, Idle, Holds, Inserts
  <2>2. req'[w] = Idle
    BY <2>1, StepKeepsReqs DEF OpsInv
  <2>3. Told(req[w])'
    BY <2>1, <2>2 DEF Told
  <2> QED
    BY <1>1, <2>1, <2>3, ToldQuietStep
<1> QED
  BY <1>4, <1>5, <1>6, <1>7, <1>8, <1>9 DEF Looks

LEMMA StartKeepsTold ==
  ASSUME OpsInv, ToldInv, NEW w \in Workers, Start(w)
  PROVE  ToldInv'
<1>1. UNCHANGED <<tables, seqs, alertWell>>
  BY StartMoves
<1>2. /\ wells' = wells /\ configs' = configs /\ readings' = readings /\ alerts' = alerts
      /\ configSeq' = configSeq /\ readingSeq' = readingSeq /\ alertSeq' = alertSeq
  BY <1>1 DEF tables, seqs
<1>3. ASSUME NEW r, Become(w, r), Holds(r), ~ Inserts(r), r.op \in {"none", "patch", "drop", "drop_well"}
      PROVE  ToldInv'
  <2>1. req'[w] = r
    BY <1>3, StepKeepsReqs DEF OpsInv
  <2>2. Told(req[w])'
    BY <1>3, <2>1 DEF Told
  <2> QED
    BY <1>1, <1>3, <2>2, ToldQuietStep
<1>4. ASSUME NEW code, Become(w, Answered(Idle, code)) PROVE ToldInv'
  <2>1. Answered(Idle, code).op = "none"
    BY DEF Answered, Idle
  <2> QED
    BY <1>3, <1>4, <2>1, AnsweredHolds
<1>5. ASSUME NEW well \in Wells, NEW m \in Metrics, NEW v \in Values, StartReading(w, well, m, v)
      PROVE  ToldInv'
  <2> DEFINE r == NewReading(well, m, v)
  <2>1. Holds(r) /\ ~ Inserts(r) /\ r.op = "reading" /\ r.pc = "threshold" /\ r.rid = 0 /\ r.aid = 0
    BY DEF NewReading, Holds, Inserts
  <2> HIDE DEF r
  <2>2. ASSUME Become(w, r) PROVE ToldInv'
    <3>1. req'[w] = r
      BY <2>1, <2>2, StepKeepsReqs DEF OpsInv
    <3>2. Told(req[w])'
      BY <1>2, <2>1, <3>1, NoRowZero DEF Told, ReadingTold, Ended, OpsInv, SeqsOK
    <3> QED
      BY <1>1, <2>1, <2>2, <3>2, ToldQuietStep
  <2> QED
    BY <1>4, <1>5, <2>2 DEF StartReading, r
<1>6. ASSUME NEW well \in Wells, NEW m \in Metrics, NEW band \in Bands, StartConfig(w, well, m, band)
      PROVE  ToldInv'
  <2> DEFINE r == [op |-> "config", pc |-> "lookup", well |-> well, metric |-> m,
                   band |-> band, cid |-> 0]
  <2>1. Holds(r) /\ ~ Inserts(r) /\ r.op = "config" /\ r.pc = "lookup" /\ r.cid = 0
    BY DEF Holds, Inserts
  <2> HIDE DEF r
  <2>2. ASSUME Become(w, r) PROVE ToldInv'
    <3>1. req'[w] = r
      BY <2>1, <2>2, StepKeepsReqs DEF OpsInv
    <3>2. Told(req[w])'
      BY <1>2, <2>1, <3>1 DEF Told, ConfigTold, Ended, OpsInv, SeqsOK
    <3> QED
      BY <1>1, <2>1, <2>2, <3>2, ToldQuietStep
  <2> QED
    BY <1>4, <1>6, <2>2 DEF StartConfig, r
<1>7. ASSUME NEW id \in 1..MaxReading, StartAck(w, id) PROVE ToldInv'
  <2>1. ASSUME NEW a \in Row(alerts, id), NEW r, Become(w, r),
               r = [op |-> "ack", pc |-> "flush", aid |-> id, loaded |-> a.acknowledged]
        PROVE  ToldInv'
    <3>1. /\ Holds(r) /\ ~ Inserts(r) /\ r.op = "ack" /\ r.pc = "flush" /\ r.aid = id
          /\ r.loaded = a.acknowledged
      BY <2>1 DEF Holds, Inserts, Row, OpsInv, AlertsOK
    <3>2. req'[w] = r
      BY <2>1, <3>1, StepKeepsReqs DEF OpsInv
    <3>3. id \in 1..alertSeq /\ (r.loaded => \A b \in Row(alerts, id) : b.acknowledged)
      BY <3>1 DEF Row, OpsInv, AlertsOK
    <3>4. Told(req[w])'
      BY <1>2, <3>1, <3>2, <3>3 DEF Told, AckTold, Ended
    <3> QED
      BY <1>1, <2>1, <3>1, <3>4, ToldQuietStep
  <2> QED
    BY <1>4, <1>7, <2>1 DEF StartAck
<1>8. ASSUME NEW id \in 1..MaxConfig, NEW patch \in Patches, StartPatch(w, id, patch) PROVE ToldInv'
  <2>1. ASSUME NEW band, NEW r, Become(w, r),
               r = [op |-> "patch", pc |-> "flush", cid |-> id, loaded |-> band, patch |-> patch]
        PROVE  ToldInv'
    BY <1>3, <2>1 DEF Holds, Inserts
  <2> QED
    BY <1>4, <1>8, <2>1 DEF StartPatch
<1>9. ASSUME NEW id \in 1..MaxConfig, StartDrop(w, id) PROVE ToldInv'
  BY <1>3, <1>4, <1>9 DEF StartDrop, Holds, Inserts
<1>10. ASSUME NEW well \in Wells, StartDropWell(w, well) PROVE ToldInv'
  BY <1>3, <1>4, <1>10 DEF StartDropWell, Holds, Inserts
<1> QED
  BY <1>5, <1>6, <1>7, <1>8, <1>9, <1>10 DEF Start

(* The writes.                                                              *)

LEMMA InsertReadingKeepsTold ==
  ASSUME OpsInv, ToldInv, NEW w \in Workers, InsertReading(w)
  PROVE  ToldInv'
<1> DEFINE q == req[w]
           raises == q.status # "normal"
<1>1. /\ wells' = wells /\ configs' = configs /\ readings' = readings /\ alerts' = alerts
      /\ configSeq' = configSeq /\ readingSeq' = readingSeq + 1
      /\ q.op = "reading" /\ q.pc = "flush"
  BY DEF InsertReading, tables, At
<1>2. Told(q) /\ Holds(q) /\ q.rid = 0 /\ q.aid = 0
  BY <1>1 DEF ToldInv, OpsInv, ReqOK, Told, ReadingTold
<1>3. readingSeq \in Nat /\ alertSeq \in Nat /\ configSeq \in Nat
  BY DEF OpsInv, SeqsOK
<1>4. alertSeq' = alertSeq \/ alertSeq' = alertSeq + 1
  BY DEF InsertReading
<1>5. ASSUME NEW u \in Workers, req'[u] = req[u] PROVE Told(req[u])'
  <2>1. Told(req[u]) /\ Frame(req[u])
    BY <1>1 DEF ToldInv, Frame
  <2> QED
    BY <1>1, <1>3, <1>4, <1>5, <2>1, FrameKeepsTold DEF Row
<1>6. CASE q.well \notin wells
  <2> DEFINE r == Answered(q, 500)
  <2>1. Become(w, r) /\ Holds(r) /\ ~ Inserts(r)
    BY <1>6, AnsweredHolds DEF InsertReading, Answer
  <2>2. r.op = "reading" /\ r.pc = "done" /\ r.code = 500 /\ r.rid = 0 /\ r.aid = 0
    BY <1>1, <1>2 DEF Answered
  <2> HIDE DEF r
  <2>3. req'[w] = r /\ \A u \in Workers \ {w} : req'[u] = req[u]
    BY <2>1, StepKeepsReqs DEF OpsInv
  <2>4. Told(req[w])'
    BY <1>1, <1>3, <1>4, <2>2, <2>3, NoRowZero DEF Told, ReadingTold, Ended
  <2>5. \A u \in Workers \ {w} : Inserts(req[u]) => Distinct(req[u], r)
    BY <1>1, <1>2, <2>2 DEF ToldInv, Distinct
  <2> QED
    BY <1>5, <2>1, <2>3, <2>4, <2>5, ToldStep
<1>7. CASE q.well \in wells
  <2> DEFINE r == [q EXCEPT !.pc = "commit", !.rid = readingSeq + 1,
                            !.aid = IF raises THEN alertSeq + 1 ELSE 0]
  <2>1. /\ Become(w, r)
        /\ alertSeq' = IF raises THEN alertSeq + 1 ELSE alertSeq
    BY <1>7 DEF InsertReading, Become, OpsInv, ReqOK
  <2>2. /\ r.op = "reading" /\ r.pc = "commit" /\ DOMAIN r = DOMAIN q
        /\ r.rid = readingSeq + 1 /\ r.aid = IF raises THEN alertSeq + 1 ELSE 0
    BY <1>1, <1>2 DEF Holds
  <2>3. Holds(r)
    BY <1>1, <1>2, <2>2 DEF Holds
  <2> HIDE DEF r
  <2>4. req'[w] = r /\ \A u \in Workers \ {w} : req'[u] = req[u]
    BY <2>1, <2>3, StepKeepsReqs DEF OpsInv
  <2>5. Row(readings, r.rid) = {} /\ Row(alerts, r.aid) = {}
    BY <1>3, <2>2 DEF Row, OpsInv, ReadingsOK, AlertsOK
  <2>6. r.rid \in 0..readingSeq' /\ r.aid \in 0..alertSeq'
    BY <1>1, <1>3, <2>1, <2>2
  <2>7. Told(req[w])'
    BY <1>1, <2>2, <2>4, <2>5, <2>6 DEF Told, ReadingTold, Ended
  <2>8. ASSUME NEW u \in Workers \ {w} PROVE Distinct(r, req[u])
    <3>1. /\ req[u].op = "reading" => req[u].rid \in 0..readingSeq
          /\ req[u].op \in {"reading", "ack"} => req[u].aid \in 0..alertSeq
      BY <1>3 DEF ToldInv, Told, ReadingTold, AckTold
    <3> QED
      BY <1>3, <2>2, <3>1 DEF Distinct
  <2>9. ASSUME NEW u \in Workers \ {w}, Inserts(req[u]) PROVE Distinct(req[u], r)
    <3>1. Distinct(r, req[u]) /\ req[u].op = "reading"
      BY <2>8, <2>9 DEF Inserts
    <3>2. r.aid # 0 => r.aid # req[u].aid
      BY <3>1 DEF Distinct
    <3> QED
      BY <2>2, <3>1, <3>2 DEF Distinct
  <2> QED
    BY <1>5, <2>1, <2>3, <2>4, <2>7, <2>8, <2>9, ToldStep
<1> QED
  BY <1>6, <1>7

(* A write that leaves the sequences alone, or takes a config's id.         *)
LEMMA ToldWriteStep ==
  ASSUME OpsInv, ToldInv, NEW w \in Workers, NEW r, Become(w, r), Holds(r), ~ Inserts(r),
         Told(req[w])', wells' \subseteq wells, readingSeq' = readingSeq, alertSeq' = alertSeq,
         configSeq' >= configSeq, configSeq' \in Nat,
         \A d \in configs' : d.id > configSeq \/ Row(configs, d.id) # {},
         \A u \in Workers \ {w} : Frame(req[u]),
         \/ r.op \notin {"reading", "ack"}
         \/ r.op = req[w].op /\ r.aid = req[w].aid /\ (r.op = "reading" => r.rid = req[w].rid)
  PROVE  ToldInv'
<1>1. \A u \in Workers \ {w} : req'[u] = req[u]
  BY StepKeepsReqs DEF OpsInv
<1>2. ASSUME NEW u \in Workers \ {w} PROVE Told(req[u])'
  BY <1>1, FrameKeepsTold DEF ToldInv, OpsInv, SeqsOK
<1>3. ASSUME NEW u \in Workers \ {w}, Inserts(req[u]) PROVE Distinct(req[u], r)
  BY <1>3 DEF ToldInv, Distinct
<1> QED
  BY <1>2, <1>3, ToldStep

LEMMA CommitReadingKeepsTold ==
  ASSUME OpsInv, ToldInv, NEW w \in Workers, CommitReading(w)
  PROVE  ToldInv'
<1> DEFINE q == req[w]
<1>1. /\ q.op = "reading" /\ q.pc = "commit"
      /\ readings' = readings \cup {ReadingRow(q)}
      /\ alerts' = IF q.aid = 0 THEN alerts ELSE alerts \cup {AlertRow(q)}
      /\ wells' = wells /\ configs' = configs
      /\ configSeq' = configSeq /\ readingSeq' = readingSeq /\ alertSeq' = alertSeq
  BY DEF CommitReading, At, seqs
<1>2. Held(q) /\ Told(q) /\ Inserts(q)
  BY <1>1 DEF OpsInv, HeldOK, Inserts, ToldInv
<1>3. /\ ReadingRow(q).id = q.rid /\ ReadingRow(q).well = q.well
      /\ AlertRow(q).id = q.aid /\ AlertRow(q).well = q.well
  BY DEF ReadingRow, AlertRow
<1>4. PICK r : /\ Become(w, r) /\ Holds(r) /\ ~ Waits(r)
               /\ r.op = "reading" /\ r.pc = "refresh" /\ r.well = q.well
               /\ r.rid = q.rid /\ r.aid = q.aid
  BY <1>1, GotoKeeps DEF CommitReading
<1>5. req'[w] = r
  BY <1>4, StepKeepsReqs DEF OpsInv
<1>6. Told(req[w])'
  <2>1. /\ \A x \in Row(readings', r.rid) : x.well = r.well
        /\ Row(readings', r.rid) # {}
    BY <1>1, <1>2, <1>3, <1>4 DEF Row, Held
  <2>2. \A a \in Row(alerts', r.aid) : a.well = r.well
    BY <1>1, <1>2, <1>3, <1>4 DEF Row, Told, ReadingTold
  <2> QED
    BY <1>1, <1>2, <1>4, <1>5, <2>1, <2>2 DEF Told, ReadingTold, Ended
<1>7. ASSUME NEW u \in Workers \ {w} PROVE Frame(req[u])
  <2>1. Distinct(q, req[u])
    BY <1>2 DEF ToldInv
  <2> QED
    BY <1>1, <1>3, <2>1 DEF Frame, Distinct
<1>8. \A d \in configs' : Row(configs, d.id) # {}
  BY <1>1 DEF Row
<1>9. configSeq \in Nat
  BY DEF OpsInv, SeqsOK
<1> QED
  BY <1>1, <1>4, <1>6, <1>7, <1>8, <1>9, ToldWriteStep DEF Inserts

(* Writes of configs.                                                       *)
LEMMA ConfigsFrame ==
  ASSUME UNCHANGED <<readings, alerts>>, NEW r
  PROVE  Frame(r)
BY DEF Frame

LEMMA InsertConfigKeepsTold ==
  ASSUME OpsInv, ToldInv, NEW w \in Workers, InsertConfig(w)
  PROVE  ToldInv'
<1> DEFINE q == req[w]
           refused == q.well \notin wells \/ Conflicts(q.well, q.metric)
<1>1. /\ q.op = "config" /\ q.pc = "flush" /\ wells' = wells
      /\ readings' = readings /\ alerts' = alerts
      /\ configSeq' = configSeq + 1 /\ readingSeq' = readingSeq /\ alertSeq' = alertSeq
  BY DEF InsertConfig, At
<1>2. Told(q) /\ Holds(q) /\ q.cid = 0 /\ configSeq \in Nat
  BY <1>1 DEF ToldInv, Told, ConfigTold, OpsInv, ReqOK, SeqsOK
<1>3. \A d \in configs' : d.id > configSeq \/ Row(configs, d.id) # {}
  BY <1>2 DEF InsertConfig, Row
<1>4. CASE refused
  <2> DEFINE r == Answered(q, 500)
  <2>1. Become(w, r) /\ Holds(r) /\ ~ Inserts(r) /\ configs' = configs
    BY <1>4, AnsweredHolds DEF InsertConfig, Answer
  <2>2. r.op = "config" /\ r.pc = "done" /\ r.code = 500 /\ r.cid = 0
    BY <1>1, <1>2 DEF Answered
  <2> HIDE DEF r
  <2>3. req'[w] = r
    BY <2>1, StepKeepsReqs DEF OpsInv
  <2>4. Told(req[w])'
    BY <1>1, <1>2, <2>1, <2>2, <2>3, NoRowZero DEF Told, ConfigTold, Ended
  <2> QED
    BY <1>1, <1>2, <1>3, <2>1, <2>2, <2>4, ConfigsFrame, ToldWriteStep
<1>5. CASE ~ refused
  <2> DEFINE r == [q EXCEPT !.pc = "refresh", !.cid = configSeq + 1]
  <2>1. Become(w, r)
    BY <1>5 DEF InsertConfig, Become, OpsInv, ReqOK
  <2>2. r.op = "config" /\ r.pc = "refresh" /\ r.cid = configSeq + 1 /\ DOMAIN r = DOMAIN q
    BY <1>1, <1>2 DEF Holds
  <2>3. Holds(r) /\ ~ Inserts(r)
    BY <1>1, <1>2, <2>2 DEF Holds, Inserts
  <2> HIDE DEF r
  <2>4. req'[w] = r
    BY <2>1, <2>3, StepKeepsReqs DEF OpsInv
  <2>5. Told(req[w])'
    BY <1>1, <1>2, <2>2, <2>4 DEF Told, ConfigTold, Ended
  <2> QED
    BY <1>1, <1>2, <1>3, <2>1, <2>2, <2>3, <2>5, ConfigsFrame, ToldWriteStep
<1> QED
  BY <1>4, <1>5

LEMMA ChangeConfigKeepsTold ==
  ASSUME OpsInv, ToldInv, NEW w \in Workers, UpdateConfig(w) \/ DeleteConfig(w)
  PROVE  ToldInv'
<1>1. /\ wells' = wells /\ readings' = readings /\ alerts' = alerts
      /\ configSeq' = configSeq /\ readingSeq' = readingSeq /\ alertSeq' = alertSeq
      /\ req[w].op \in {"patch", "drop"} /\ req[w].pc # "done"
  BY DEF UpdateConfig, DeleteConfig, seqs, At
<1>2. \A d \in configs' : Row(configs, d.id) # {}
  <2>1. CASE configs' \subseteq configs
    BY <2>1 DEF Row
  <2>2. CASE configs' = {IF c.id = req[w].cid THEN [c EXCEPT !.band = Patched(c.band, req[w])]
                         ELSE c : c \in configs}
    BY <2>2 DEF Row, OpsInv, ConfigsOK
  <2> QED
    BY <2>1, <2>2 DEF UpdateConfig, DeleteConfig
<1>3. PICK r : Become(w, r) /\ Holds(r) /\ ~ Inserts(r) /\ r.op \in {"none", "patch", "drop"}
  <2>1. ASSUME NEW code, Answer(w, code)
        PROVE  \E r : Become(w, r) /\ Holds(r) /\ ~ Inserts(r) /\ r.op = "none"
    BY <1>1, <2>1, AnsweredHolds, AnsweredKeeps DEF Answer
  <2>2. ASSUME Goto(w, "refresh")
        PROVE  \E r : Become(w, r) /\ Holds(r) /\ ~ Inserts(r) /\ r.op \in {"patch", "drop"}
    BY <1>1, <2>2, GotoKeeps DEF Inserts
  <2> QED
    BY <2>1, <2>2 DEF UpdateConfig, DeleteConfig
<1>4. req'[w] = r
  BY <1>3, StepKeepsReqs DEF OpsInv
<1>5. Told(req[w])'
  BY <1>3, <1>4 DEF Told
<1>6. configSeq \in Nat
  BY DEF OpsInv, SeqsOK
<1> QED
  BY <1>1, <1>2, <1>3, <1>5, <1>6, ConfigsFrame, ToldWriteStep

LEMMA UpdateAlertKeepsTold ==
  ASSUME OpsInv, ToldInv, NEW w \in Workers, UpdateAlert(w)
  PROVE  ToldInv'
<1> DEFINE q == req[w]
           New(a) == Acknowledged(a, q.aid)
           stale == ~ q.loaded /\ Row(alerts, q.aid) = {}
<1>1. /\ q.op = "ack" /\ q.pc = "flush" /\ wells' = wells /\ configs' = configs
      /\ readings' = readings
      /\ configSeq' = configSeq /\ readingSeq' = readingSeq /\ alertSeq' = alertSeq
  BY DEF UpdateAlert, At, seqs
<1>2. Told(q) /\ configSeq \in Nat
  BY DEF ToldInv, OpsInv, SeqsOK
<1>3. CASE stale
  <2>1. Answer(w, 500) /\ UNCHANGED <<tables, seqs, alertWell>>
    BY <1>3 DEF UpdateAlert, tables
  <2> QED
    BY <1>1, <2>1, AnswerKeepsTold
<1>4. CASE ~ stale
  <2>1. /\ Goto(w, "refresh")
        /\ alerts' = IF q.loaded THEN alerts ELSE {New(a) : a \in alerts}
    BY <1>4 DEF UpdateAlert, Acknowledged
  <2>2. PICK r : /\ Become(w, r) /\ Holds(r) /\ ~ Waits(r)
                 /\ r.op = "ack" /\ r.pc = "refresh" /\ r.aid = q.aid
    BY <1>1, <2>1, GotoKeeps
  <2>3. req'[w] = r
    BY <2>2, StepKeepsReqs DEF OpsInv
  <2>4. \A a \in alerts : New(a).id = a.id /\ New(a).well = a.well
    BY AcknowledgedIsRowwise DEF OpsInv
  <2>5. \A a \in alerts : New(a).acknowledged <=> a.id = q.aid \/ a.acknowledged
    BY AcknowledgedIsRowwise DEF OpsInv
  <2> HIDE DEF New
  <2>6. \A a \in Row(alerts', q.aid) : a.acknowledged
    <3>1. CASE q.loaded
      BY <1>1, <1>2, <2>1, <3>1 DEF Told, AckTold
    <3>2. CASE ~ q.loaded
      BY <2>1, <2>4, <2>5, <3>2 DEF Row
    <3> QED
      BY <3>1, <3>2
  <2>7. Told(req[w])'
    BY <1>1, <1>2, <2>2, <2>3, <2>6 DEF Told, AckTold, Ended
  <2>8. \A b \in alerts' : \E a \in alerts : /\ a.id = b.id /\ a.well = b.well
                                             /\ a.acknowledged => b.acknowledged
    <3>1. CASE q.loaded
      BY <2>1, <3>1
    <3>2. CASE ~ q.loaded
      BY <2>1, <2>4, <2>5, <3>2
    <3> QED
      BY <3>1, <3>2
  <2>9. \A u \in Workers \ {w} : Frame(req[u])
    BY <1>1, <2>8 DEF Frame
  <2>10. \A d \in configs' : Row(configs, d.id) # {}
    BY <1>1 DEF Row
  <2> QED
    BY <1>1, <1>2, <2>2, <2>7, <2>9, <2>10, ToldWriteStep DEF Inserts
<1> QED
  BY <1>3, <1>4

LEMMA DeleteWellKeepsTold ==
  ASSUME OpsInv, ToldInv, NEW w \in Workers, DeleteWell(w)
  PROVE  ToldInv'
<1> DEFINE gone == req[w].well
<1>1. /\ wells' = wells \ {gone}
      /\ configs' = {c \in configs : c.well # gone}
      /\ readings' = {r \in readings : r.well # gone}
      /\ alerts' = {a \in alerts : a.well # gone}
      /\ configSeq' = configSeq /\ readingSeq' = readingSeq /\ alertSeq' = alertSeq
      /\ req[w].op = "drop_well" /\ configSeq \in Nat
  BY DEF DeleteWell, seqs, At, OpsInv, SeqsOK
<1>2. PICK r : Become(w, r) /\ Holds(r) /\ ~ Inserts(r) /\ r.op = "none"
  BY <1>1, AnsweredHolds, AnsweredKeeps DEF DeleteWell, Answer
<1>3. req'[w] = r
  BY <1>2, StepKeepsReqs DEF OpsInv
<1>4. Told(req[w])'
  BY <1>2, <1>3 DEF Told
<1>5. \A u \in Workers \ {w} : Frame(req[u])
  BY <1>1 DEF Frame
<1>6. \A d \in configs' : Row(configs, d.id) # {}
  BY <1>1 DEF Row
<1> QED
  BY <1>1, <1>2, <1>4, <1>5, <1>6, ToldWriteStep

LEMMA NextKeepsTold ==
  ASSUME OpsInv, ToldInv, [Next]_vars
  PROVE  ToldInv'
<1>1. ASSUME NEW w \in Workers, Step(w) PROVE ToldInv'
  BY <1>1, LookKeepsTold, InsertReadingKeepsTold, CommitReadingKeepsTold, InsertConfigKeepsTold,
     ChangeConfigKeepsTold, UpdateAlertKeepsTold, DeleteWellKeepsTold DEF Step, Looks
<1>2. ASSUME NEW w \in Workers, Start(w) \/ Lose(w) PROVE ToldInv'
  BY <1>2, StartKeepsTold, LookKeepsTold DEF Looks
<1>3. CASE UNCHANGED vars
  BY <1>3 DEF vars, tables, seqs, ToldInv, Told, ReadingTold, ConfigTold, AckTold, Ended,
     Distinct, Inserts, Row
<1> QED
  BY <1>1, <1>2, <1>3 DEF Next

(* What a client was told is what the tables hold, whatever other requests  *)
(* do before the refresh and after the answer: a stored reading is there as *)
(* long as its well, an error left nothing, an acknowledgement stands.      *)
THEOREM OperationsAnswersMatchTables == Spec => []AnswersMatchTables
<1>1. Init => ToldInv
  BY DEF Init, Idle, ToldInv, Told, Inserts
<1>2. OpsInv /\ ToldInv /\ [Next]_vars => ToldInv'
  BY NextKeepsTold
<1>3. ToldInv => AnswersMatchTables
  BY ToldIsProperty
<1> QED
  BY <1>1, <1>2, <1>3, OpsAlwaysInv, PTL DEF Spec

-----------------------------------------------------------------------------
(* What the tables and the requests are made of.                            *)

BandRows == [Fields -> Nat \cup {None}]
ConfigRows == [id : Nat, well : Wells, metric : Metrics, band : BandRows]
ReadingRows == [id : Nat, well : Wells, metric : Metrics, value : Values, status : Statuses]
AlertRows == [id : Nat, well : Wells, metric : Metrics, value : Values, severity : Severities,
              acknowledged : BOOLEAN]

(* The members of Requests, by what the request does and whether it is open. *)
OpenReadings ==
  [op : {"reading"}, pc : {"threshold", "flush", "commit", "refresh"}, well : Wells,
   metric : Metrics, value : Values, status : Statuses, rid : 0..MaxReading, aid : 0..MaxReading]
DoneReadings ==
  [op : {"reading"}, pc : {"done"}, code : Nat, well : Wells, rid : 0..MaxReading,
   aid : 0..MaxReading]
OpenConfigs ==
  [op : {"config"}, pc : {"lookup", "flush", "refresh"}, well : Wells, metric : Metrics,
   band : Bands, cid : 0..MaxConfig]
DoneConfigs == [op : {"config"}, pc : {"done"}, code : Nat, cid : 0..MaxConfig]
OpenPatches ==
  [op : {"patch"}, pc : {"flush", "refresh"}, cid : 1..MaxConfig, loaded : BandRows,
   patch : Patches]
OpenDrops == [op : {"drop"}, pc : {"flush"}, cid : 1..MaxConfig]
OpenAcks == [op : {"ack"}, pc : {"flush", "refresh"}, aid : 1..MaxReading, loaded : BOOLEAN]
DoneAcks == [op : {"ack"}, pc : {"done"}, code : Nat, aid : 1..MaxReading]
OpenWellDrops == [op : {"drop_well"}, pc : {"flush"}, well : Wells]

(* A create_threshold that may still take an id.                            *)
WaitsConfig(r) == r.op = "config" /\ r.pc \in {"lookup", "flush"}

(* The rows and requests, with the bound on the configs' ids counted like   *)
(* the one on the readings': the ids of the rows are OpsInv's.              *)
RowTypes == configs \subseteq ConfigRows /\ readings \subseteq ReadingRows /\ alerts \subseteq AlertRows
ConfigBudget == configSeq + Cardinality(Uninserted) <= MaxConfig
TypesInv == RowTypes /\ ConfigBudget /\ req \in [Workers -> Requests]

LEMMA RequestKinds ==
  ASSUME NEW q \in Requests
  PROVE  /\ q.op = "reading" /\ q.pc # "done" => q \in OpenReadings
         /\ q.op = "reading" /\ q.pc = "done" => q \in DoneReadings
         /\ q.op = "config" /\ q.pc # "done" => q \in OpenConfigs
         /\ q.op = "config" /\ q.pc = "done" => q \in DoneConfigs
         /\ q.op = "patch" => q \in OpenPatches
         /\ q.op = "drop" => q \in OpenDrops
         /\ q.op = "ack" /\ q.pc # "done" => q \in OpenAcks
         /\ q.op = "ack" /\ q.pc = "done" => q \in DoneAcks
         /\ q.op = "drop_well" => q \in OpenWellDrops
BY DEF Requests, OpenReadings, DoneReadings, OpenConfigs, DoneConfigs, OpenPatches, BandRows,
   OpenDrops, OpenAcks, DoneAcks, OpenWellDrops

LEMMA KindsAreRequests ==
  /\ OpenReadings \subseteq Requests /\ DoneReadings \subseteq Requests
  /\ OpenConfigs \subseteq Requests /\ DoneConfigs \subseteq Requests
  /\ OpenPatches \subseteq Requests /\ OpenDrops \subseteq Requests
  /\ OpenAcks \subseteq Requests /\ DoneAcks \subseteq Requests
  /\ OpenWellDrops \subseteq Requests
BY DEF Requests, OpenReadings, DoneReadings, OpenConfigs, DoneConfigs, OpenPatches, BandRows,
   OpenDrops, OpenAcks, DoneAcks, OpenWellDrops

LEMMA AnsweredIsRequest ==
  ASSUME NEW q \in Requests, NEW code \in Nat
  PROVE  Answered(q, code) \in Requests
<1> DEFINE r == Answered(q, code)
<1>1. ASSUME q.op = "reading" PROVE r \in DoneReadings
  <2>1. q \in OpenReadings \/ q \in DoneReadings
    BY <1>1, RequestKinds
  <2>2. r = [op |-> q.op, pc |-> "done", code |-> code, well |-> q.well,
             rid |-> q.rid, aid |-> q.aid]
    BY <1>1 DEF Answered
  <2> QED
    BY <1>1, <2>1, <2>2 DEF OpenReadings, DoneReadings
<1>2. ASSUME q.op = "config" PROVE r \in DoneConfigs
  <2>1. q \in OpenConfigs \/ q \in DoneConfigs
    BY <1>2, RequestKinds
  <2>2. r = [op |-> q.op, pc |-> "done", code |-> code, cid |-> q.cid]
    BY <1>2 DEF Answered
  <2> QED
    BY <1>2, <2>1, <2>2 DEF OpenConfigs, DoneConfigs
<1>3. ASSUME q.op = "ack" PROVE r \in DoneAcks
  <2>1. q \in OpenAcks \/ q \in DoneAcks
    BY <1>3, RequestKinds
  <2>2. r = [op |-> q.op, pc |-> "done", code |-> code, aid |-> q.aid]
    BY <1>3 DEF Answered
  <2> QED
    BY <1>3, <2>1, <2>2 DEF OpenAcks, DoneAcks
<1>4. ASSUME q.op \notin {"reading", "config", "ack"} PROVE r \in Requests
  <2>1. r = [op |-> "none", pc |-> "done", code |-> code]
    BY <1>4 DEF Answered, Idle
  <2> QED
    BY <2>1 DEF Requests
<1> QED
  BY <1>1, <1>2, <1>3, <1>4, KindsAreRequests

(* What every step does to the request that takes it.                       *)
Turns(w) == \E r \in Requests : Become(w, r)

LEMMA AnswerTurns ==
  ASSUME TypesInv, NEW w \in Workers, NEW code \in Nat, Answer(w, code)
  PROVE  Turns(w)
BY AnsweredIsRequest DEF Answer, Turns, TypesInv

LEMMA GotoTurns ==
  ASSUME TypesInv, NEW w \in Workers, NEW pc, Goto(w, pc),
         \/ req[w].op = "reading" /\ req[w].pc # "done" /\ pc = "refresh"
         \/ req[w].op = "config" /\ req[w].pc # "done" /\ pc = "flush"
         \/ req[w].op = "patch" /\ pc = "refresh"
         \/ req[w].op = "ack" /\ req[w].pc # "done" /\ pc = "refresh"
  PROVE  Turns(w)
<1> DEFINE q == req[w]
           r == [q EXCEPT !.pc = pc]
<1>1. q \in Requests /\ Become(w, r)
  BY DEF TypesInv, Goto, Become
<1>2. ASSUME q \in OpenReadings, pc = "refresh" PROVE r \in OpenReadings
  BY <1>2 DEF OpenReadings
<1>3. ASSUME q \in OpenConfigs, pc = "flush" PROVE r \in OpenConfigs
  BY <1>3 DEF OpenConfigs
<1>4. ASSUME q \in OpenPatches, pc = "refresh" PROVE r \in OpenPatches
  BY <1>4 DEF OpenPatches
<1>5. ASSUME q \in OpenAcks, pc = "refresh" PROVE r \in OpenAcks
  BY <1>5 DEF OpenAcks
<1>6. r \in Requests
  BY <1>1, <1>2, <1>3, <1>4, <1>5, RequestKinds, KindsAreRequests
<1> QED
  BY <1>1, <1>6 DEF Turns

LEMMA StartTurns ==
  ASSUME OpsInv, TypesInv, NEW w \in Workers, Start(w)
  PROVE  Turns(w)
<1>1. Idle \in Requests
  BY DEF Idle, Requests
<1>2. ASSUME NEW code \in Nat, Become(w, Answered(Idle, code)) PROVE Turns(w)
  BY <1>1, <1>2, AnsweredIsRequest DEF Turns
<1>3. ASSUME NEW well \in Wells, NEW m \in Metrics, NEW v \in Values, StartReading(w, well, m, v)
      PROVE  Turns(w)
  <2>1. NewReading(well, m, v) \in OpenReadings
    BY OperationsAssumption DEF OperationsAssumption, NewReading, OpenReadings, Statuses
  <2> QED
    BY <1>2, <1>3, <2>1, KindsAreRequests DEF StartReading, Turns
<1>4. ASSUME NEW well \in Wells, NEW m \in Metrics, NEW band \in Bands,
             StartConfig(w, well, m, band)
      PROVE  Turns(w)
  <2>1. [op |-> "config", pc |-> "lookup", well |-> well, metric |-> m,
         band |-> band, cid |-> 0] \in OpenConfigs
    BY OperationsAssumption DEF OperationsAssumption, OpenConfigs
  <2> QED
    BY <1>2, <1>4, <2>1, KindsAreRequests DEF StartConfig, Turns
<1>5. ASSUME NEW id \in 1..MaxConfig, NEW patch \in Patches, StartPatch(w, id, patch)
      PROVE  Turns(w)
  <2>1. ASSUME NEW c \in Row(configs, id)
        PROVE  [op |-> "patch", pc |-> "flush", cid |-> id, loaded |-> c.band, patch |-> patch]
                 \in OpenPatches
    BY <2>1 DEF TypesInv, RowTypes, ConfigRows, Row, OpenPatches
  <2> QED
    <3>1. CASE Row(configs, id) = {}
      BY <1>2, <1>5, <3>1 DEF StartPatch
    <3>2. CASE Row(configs, id) # {}
      <4>1. PICK c \in Row(configs, id) : Become(w, [op |-> "patch", pc |-> "flush", cid |-> id, loaded |-> c.band, patch |-> patch])
        BY <1>5, <3>2 DEF StartPatch
      <4> QED
        BY <2>1, <4>1, KindsAreRequests DEF Turns
    <3> QED
      BY <3>1, <3>2
<1>6. ASSUME NEW id \in 1..MaxConfig, StartDrop(w, id) PROVE Turns(w)
  <2>1. [op |-> "drop", pc |-> "flush", cid |-> id] \in OpenDrops
    BY DEF OpenDrops
  <2> QED
    BY <1>2, <1>6, <2>1, KindsAreRequests DEF StartDrop, Turns
<1>7. ASSUME NEW id \in 1..MaxReading, StartAck(w, id) PROVE Turns(w)
  <2>1. ASSUME NEW a \in Row(alerts, id)
        PROVE  [op |-> "ack", pc |-> "flush", aid |-> id, loaded |-> a.acknowledged] \in OpenAcks
    BY <2>1 DEF TypesInv, RowTypes, AlertRows, Row, OpenAcks
  <2> QED
    <3>1. CASE Row(alerts, id) = {}
      BY <1>2, <1>7, <3>1 DEF StartAck
    <3>2. CASE Row(alerts, id) # {}
      <4>1. PICK a \in Row(alerts, id) : Become(w, [op |-> "ack", pc |-> "flush", aid |-> id, loaded |-> a.acknowledged])
        BY <1>7, <3>2 DEF StartAck
      <4> QED
        BY <2>1, <4>1, KindsAreRequests DEF Turns
    <3> QED
      BY <3>1, <3>2
<1>8. ASSUME NEW well \in Wells, StartDropWell(w, well) PROVE Turns(w)
  <2>1. [op |-> "drop_well", pc |-> "flush", well |-> well] \in OpenWellDrops
    BY DEF OpenWellDrops
  <2> QED
    BY <1>2, <1>8, <2>1, KindsAreRequests DEF StartDropWell, Turns
<1> QED
  BY <1>3, <1>4, <1>5, <1>6, <1>7, <1>8 DEF Start

(* The ids a request takes are within the bounds when the sequences are.    *)
LEMMA StepTurns ==
  ASSUME OpsInv, OpsInv', TypesInv, NEW w \in Workers, Step(w) \/ Lose(w),
         configSeq' \in 0..MaxConfig
  PROVE  Turns(w)
<1> DEFINE q == req[w]
<1>1. q \in Requests
  BY DEF TypesInv
<1>2. ASSUME SelectThreshold(w) PROVE Turns(w)
  <2>1. ASSUME NEW status \in Statuses,
               req' = [req EXCEPT ![w].pc = "flush", ![w].status = status]
        PROVE  Turns(w)
    <3> DEFINE r == [q EXCEPT !.pc = "flush", !.status = status]
    <3>1. Become(w, r)
      BY <2>1 DEF TypesInv, Become
    <3>2. q \in OpenReadings
      BY <1>1, <1>2, RequestKinds DEF SelectThreshold, At
    <3>3. r \in OpenReadings
      BY <3>2 DEF OpenReadings
    <3> QED
      BY <3>1, <3>3, KindsAreRequests DEF Turns
  <2> QED
    BY <1>2, <2>1, StatusIsOne, AnswerTurns DEF SelectThreshold
<1>3. ASSUME InsertReading(w) PROVE Turns(w)
  <2> DEFINE raises == q.status # "normal"
             r == [q EXCEPT !.pc = "commit", !.rid = readingSeq + 1,
                            !.aid = IF raises THEN alertSeq + 1 ELSE 0]
  <2>1. CASE q.well \notin wells
    BY <1>3, <2>1, AnswerTurns DEF InsertReading
  <2>2. CASE q.well \in wells
    <3>1. Become(w, r) /\ alertSeq' = (IF raises THEN alertSeq + 1 ELSE alertSeq)
      BY <1>3, <2>2 DEF InsertReading, TypesInv, Become
    <3>2. q \in OpenReadings /\ readingSeq' = readingSeq + 1
      BY <1>1, <1>3, RequestKinds DEF InsertReading, At
    <3>3. /\ readingSeq \in Nat /\ alertSeq \in Nat /\ alertSeq <= readingSeq
          /\ readingSeq' \in 0..MaxReading
      <4>1. IsFiniteSet(Unflushed')
        BY FS_Subset, OperationsAssumption DEF Unflushed, OperationsAssumption
      <4>2. Cardinality(Unflushed') \in Nat
        BY <4>1, FS_CardinalityType
      <4> QED
        BY <4>2, OperationsAssumption DEF OperationsAssumption, OpsInv, SeqsOK
    <3>4. /\ readingSeq + 1 \in 0..MaxReading
          /\ (IF raises THEN alertSeq + 1 ELSE 0) \in 0..MaxReading
      BY <3>2, <3>3, OperationsAssumption DEF OperationsAssumption
    <3>5. r \in OpenReadings
      BY <3>2, <3>4 DEF OpenReadings
    <3> QED
      BY <3>1, <3>5, KindsAreRequests DEF Turns
  <2> QED
    BY <2>1, <2>2
<1>4. ASSUME CommitReading(w) PROVE Turns(w)
  BY <1>4, GotoTurns DEF CommitReading, At
<1>5. ASSUME RefreshReading(w) PROVE Turns(w)
  BY <1>5, AnswerTurns DEF RefreshReading
<1>6. ASSUME LookupConfig(w) PROVE Turns(w)
  BY <1>6, GotoTurns, AnswerTurns DEF LookupConfig, At
<1>7. ASSUME InsertConfig(w) PROVE Turns(w)
  <2> DEFINE refused == q.well \notin wells \/ Conflicts(q.well, q.metric)
             r == [q EXCEPT !.pc = "refresh", !.cid = configSeq + 1]
  <2>1. CASE refused
    BY <1>7, <2>1, AnswerTurns DEF InsertConfig
  <2>2. CASE ~ refused
    <3>1. Become(w, r)
      BY <1>7, <2>2 DEF InsertConfig, TypesInv, Become
    <3>2. q \in OpenConfigs /\ configSeq' = configSeq + 1
      BY <1>1, <1>7, RequestKinds DEF InsertConfig, At
    <3>3. r \in OpenConfigs
      BY <3>2 DEF OpenConfigs
    <3> QED
      BY <3>1, <3>3, KindsAreRequests DEF Turns
  <2> QED
    BY <2>1, <2>2
<1>8. ASSUME UpdateConfig(w) PROVE Turns(w)
  BY <1>8, GotoTurns, AnswerTurns DEF UpdateConfig, At
<1>9. ASSUME RefreshConfig(w) PROVE Turns(w)
  BY <1>9, AnswerTurns DEF RefreshConfig
<1>10. ASSUME DeleteConfig(w) PROVE Turns(w)
  BY <1>10, AnswerTurns DEF DeleteConfig
<1>11. ASSUME UpdateAlert(w) PROVE Turns(w)
  BY <1>11, GotoTurns, AnswerTurns DEF UpdateAlert, At
<1>12. ASSUME RefreshAlert(w) PROVE Turns(w)
  BY <1>12, AnswerTurns DEF RefreshAlert
<1>13. ASSUME DeleteWell(w) PROVE Turns(w)
  BY <1>13, AnswerTurns DEF DeleteWell
<1>14. ASSUME Lose(w) PROVE Turns(w)
  <2>1. Idle \in Requests
    BY DEF Idle, Requests
  <2> QED
    BY <1>14, <2>1 DEF Lose, Turns
<1> QED
  BY <1>2, <1>3, <1>4, <1>5, <1>6, <1>7, <1>8, <1>9, <1>10, <1>11, <1>12, <1>13, <1>14 DEF Step

(* The configs still to be inserted fit the bound, as the readings do.      *)
LEMMA ConfigBudgetIsKept ==
  ASSUME OpsInv, TypesInv, NEW w \in Workers, NEW r, Become(w, r),
         \/ configSeq' = configSeq
            /\ (~ WaitsConfig(r) \/ WaitsConfig(req[w])
                  \/ configSeq + Cardinality(Uninserted) < MaxConfig)
         \/ configSeq' = configSeq + 1 /\ WaitsConfig(req[w]) /\ ~ WaitsConfig(r)
  PROVE  ConfigBudget' /\ configSeq' \in 0..MaxConfig
<1>1. /\ req'[w] = r
      /\ \A u \in Workers \ {w} : req'[u] = req[u]
  BY DEF Become, TypesInv
<1>2. /\ Uninserted = {u \in Workers : WaitsConfig(req[u])}
      /\ Uninserted' = {u \in Workers : WaitsConfig(req'[u])}
  BY DEF Uninserted, WaitsConfig
<1>3. /\ IsFiniteSet(Uninserted) /\ Cardinality(Uninserted) \in Nat
      /\ IsFiniteSet(Uninserted') /\ Cardinality(Uninserted') \in Nat
  BY <1>2, FS_Subset, FS_CardinalityType, OperationsAssumption DEF OperationsAssumption
<1>4. Uninserted' = IF WaitsConfig(r) THEN Uninserted \cup {w} ELSE Uninserted \ {w}
  BY <1>1, <1>2
<1>5. w \in Uninserted <=> WaitsConfig(req[w])
  BY <1>2
<1>6. MaxConfig \in Nat /\ configSeq \in Nat /\ configSeq + Cardinality(Uninserted) <= MaxConfig
  BY OperationsAssumption DEF OperationsAssumption, OpsInv, SeqsOK, TypesInv, ConfigBudget
<1>7. CASE WaitsConfig(r)
  <2>1. Cardinality(Uninserted') = IF w \in Uninserted THEN Cardinality(Uninserted)
                                   ELSE Cardinality(Uninserted) + 1
    BY <1>3, <1>4, <1>7, FS_AddElement
  <2> QED
    BY <1>3, <1>5, <1>6, <1>7, <2>1 DEF ConfigBudget
<1>8. CASE ~ WaitsConfig(r)
  <2>1. Cardinality(Uninserted') = IF w \in Uninserted THEN Cardinality(Uninserted) - 1
                                   ELSE Cardinality(Uninserted)
    BY <1>3, <1>4, <1>8, FS_RemoveElement
  <2> QED
    BY <1>3, <1>5, <1>6, <1>8, <2>1 DEF ConfigBudget
<1> QED
  BY <1>7, <1>8

(* Which steps come near the configs' ids.                                  *)
LEMMA NextKeepsConfigBudget ==
  ASSUME OpsInv, TypesInv, NEW w \in Workers, Start(w) \/ Step(w) \/ Lose(w)
  PROVE  ConfigBudget' /\ configSeq' \in 0..MaxConfig
<1> DEFINE q == req[w]
<1>1. ASSUME NEW r, Become(w, r), ~ WaitsConfig(r), configSeq' = configSeq
      PROVE  ConfigBudget' /\ configSeq' \in 0..MaxConfig
  BY <1>1, ConfigBudgetIsKept
<1>2. ASSUME NEW code, Answer(w, code), configSeq' = configSeq
      PROVE  ConfigBudget' /\ configSeq' \in 0..MaxConfig
  <2>1. ~ WaitsConfig(Answered(q, code))
    BY DEF Answered, Idle, WaitsConfig
  <2> QED
    BY <1>1, <1>2, <2>1 DEF Answer
<1>3. ASSUME NEW code, Become(w, Answered(Idle, code)), configSeq' = configSeq
      PROVE  ConfigBudget' /\ configSeq' \in 0..MaxConfig
  <2>1. ~ WaitsConfig(Answered(Idle, code))
    BY DEF Answered, Idle, WaitsConfig
  <2> QED
    BY <1>1, <1>3, <2>1
<1>4. q \in Requests /\ req = [u \in Workers |-> req[u]]
  BY DEF TypesInv
<1>5. ASSUME Goto(w, "refresh"), q.op # "config", q.pc # "done", configSeq' = configSeq
      PROVE  ConfigBudget' /\ configSeq' \in 0..MaxConfig
  <2>1. PICK r : Become(w, r) /\ r.op = q.op
    BY <1>5, GotoKeeps
  <2>2. ~ WaitsConfig(r)
    BY <1>5, <2>1 DEF WaitsConfig
  <2> QED
    BY <1>1, <1>5, <2>1, <2>2
<1>6. ASSUME Start(w) PROVE ConfigBudget' /\ configSeq' \in 0..MaxConfig
  <2>1. configSeq' = configSeq
    BY <1>6, StartMoves DEF seqs
  <2>2. ASSUME NEW well \in Wells, NEW m \in Metrics, NEW v \in Values,
               StartReading(w, well, m, v)
        PROVE  ConfigBudget' /\ configSeq' \in 0..MaxConfig
    <3>1. ~ WaitsConfig(NewReading(well, m, v))
      BY DEF NewReading, WaitsConfig
    <3> QED
      BY <1>1, <1>3, <2>1, <2>2, <3>1 DEF StartReading
  <2>3. ASSUME NEW well \in Wells, NEW m \in Metrics, NEW band \in Bands,
               StartConfig(w, well, m, band)
        PROVE  ConfigBudget' /\ configSeq' \in 0..MaxConfig
    BY <1>3, <2>1, <2>3, ConfigBudgetIsKept DEF StartConfig
  <2>4. ASSUME NEW r, Become(w, r), r.op \in {"patch", "drop", "ack", "drop_well"}
        PROVE  ConfigBudget' /\ configSeq' \in 0..MaxConfig
    BY <1>1, <2>1, <2>4 DEF WaitsConfig
  <2>5. ASSUME NEW id, NEW patch, StartPatch(w, id, patch)
        PROVE  ConfigBudget' /\ configSeq' \in 0..MaxConfig
    <3>1. CASE Row(configs, id) = {}
      BY <1>3, <2>1, <2>5, <3>1 DEF StartPatch
    <3>2. CASE Row(configs, id) # {}
      <4>1. PICK c \in Row(configs, id) :
              Become(w, [op |-> "patch", pc |-> "flush", cid |-> id, loaded |-> c.band,
                         patch |-> patch])
        BY <2>5, <3>2 DEF StartPatch
      <4> QED
        BY <2>4, <4>1
    <3> QED
      BY <3>1, <3>2
  <2>6. ASSUME NEW id, StartDrop(w, id)
        PROVE  ConfigBudget' /\ configSeq' \in 0..MaxConfig
    BY <1>3, <2>1, <2>4, <2>6 DEF StartDrop
  <2>7. ASSUME NEW id, StartAck(w, id)
        PROVE  ConfigBudget' /\ configSeq' \in 0..MaxConfig
    <3>1. CASE Row(alerts, id) = {}
      BY <1>3, <2>1, <2>7, <3>1 DEF StartAck
    <3>2. CASE Row(alerts, id) # {}
      <4>1. PICK a \in Row(alerts, id) :
              Become(w, [op |-> "ack", pc |-> "flush", aid |-> id, loaded |-> a.acknowledged])
        BY <2>7, <3>2 DEF StartAck
      <4> QED
        BY <2>4, <4>1
    <3> QED
      BY <3>1, <3>2
  <2>8. ASSUME NEW well, StartDropWell(w, well)
        PROVE  ConfigBudget' /\ configSeq' \in 0..MaxConfig
    BY <1>3, <2>1, <2>4, <2>8 DEF StartDropWell
  <2> QED
    BY <1>6, <2>2, <2>3, <2>5, <2>6, <2>7, <2>8 DEF Start
<1>7. ASSUME LookupConfig(w) PROVE ConfigBudget' /\ configSeq' \in 0..MaxConfig
  <2>1. configSeq' = configSeq /\ q.op = "config" /\ q.pc = "lookup"
    BY <1>7 DEF LookupConfig, seqs, At
  <2>2. CASE Goto(w, "flush")
    BY <2>1, <2>2, GotoKeeps, ConfigBudgetIsKept DEF WaitsConfig
  <2> QED
    BY <1>2, <1>7, <2>1, <2>2 DEF LookupConfig
<1>8. ASSUME InsertConfig(w) PROVE ConfigBudget' /\ configSeq' \in 0..MaxConfig
  <2>1. configSeq' = configSeq + 1 /\ WaitsConfig(q)
    BY <1>8 DEF InsertConfig, At, WaitsConfig
  <2>2. PICK r : Become(w, r) /\ ~ WaitsConfig(r)
    <3>1. CASE Answer(w, 500)
      <4>1. ~ WaitsConfig(Answered(q, 500))
        BY DEF Answered, Idle, WaitsConfig
      <4> QED
        BY <3>1, <4>1 DEF Answer
    <3>2. CASE req' = [req EXCEPT ![w].pc = "refresh", ![w].cid = configSeq + 1]
      <4> DEFINE r == [q EXCEPT !.pc = "refresh", !.cid = configSeq + 1]
      <4>1. q \in OpenConfigs
        BY <1>4, <2>1, RequestKinds DEF WaitsConfig
      <4>2. r.pc = "refresh"
        BY <4>1 DEF OpenConfigs
      <4>3. Become(w, r)
        BY <1>4, <3>2 DEF Become
      <4> QED
        BY <4>2, <4>3 DEF WaitsConfig
    <3> QED
      BY <1>8, <3>1, <3>2 DEF InsertConfig
  <2> QED
    BY <2>1, <2>2, ConfigBudgetIsKept
<1>9. ASSUME SelectThreshold(w) \/ InsertReading(w)
      PROVE  ConfigBudget' /\ configSeq' \in 0..MaxConfig
  <2>1. configSeq' = configSeq /\ q.op = "reading" /\ q.pc # "done"
    BY <1>9 DEF SelectThreshold, InsertReading, seqs, At
  <2>2. q \in OpenReadings
    BY <1>4, <2>1, RequestKinds
  <2>3. ASSUME NEW status, req' = [req EXCEPT ![w].pc = "flush", ![w].status = status]
        PROVE  ConfigBudget' /\ configSeq' \in 0..MaxConfig
    <3> DEFINE r == [q EXCEPT !.pc = "flush", !.status = status]
    <3>1. Become(w, r) /\ r.op = "reading"
      BY <1>4, <2>2, <2>3 DEF Become, OpenReadings
    <3> QED
      BY <1>1, <2>1, <3>1 DEF WaitsConfig
  <2>4. ASSUME NEW rid, NEW aid,
               req' = [req EXCEPT ![w].pc = "commit", ![w].rid = rid, ![w].aid = aid]
        PROVE  ConfigBudget' /\ configSeq' \in 0..MaxConfig
    <3> DEFINE r == [q EXCEPT !.pc = "commit", !.rid = rid, !.aid = aid]
    <3>1. Become(w, r) /\ r.op = "reading"
      BY <1>4, <2>2, <2>4 DEF Become, OpenReadings
    <3> QED
      BY <1>1, <2>1, <3>1 DEF WaitsConfig
  <2> QED
    BY <1>2, <1>9, <2>1, <2>3, <2>4 DEF SelectThreshold, InsertReading
<1>10. ASSUME CommitReading(w) \/ UpdateConfig(w) \/ UpdateAlert(w)
       PROVE  ConfigBudget' /\ configSeq' \in 0..MaxConfig
  BY <1>2, <1>5, <1>10 DEF CommitReading, UpdateConfig, UpdateAlert, At, seqs
<1>11. ASSUME \/ RefreshReading(w) \/ RefreshConfig(w) \/ DeleteConfig(w) \/ RefreshAlert(w)
              \/ DeleteWell(w)
       PROVE  ConfigBudget' /\ configSeq' \in 0..MaxConfig
  BY <1>2, <1>11 DEF RefreshReading, RefreshConfig, DeleteConfig, RefreshAlert, DeleteWell, seqs
<1>12. ASSUME Lose(w) PROVE ConfigBudget' /\ configSeq' \in 0..MaxConfig
  <2>1. ~ WaitsConfig(Idle)
    BY DEF Idle, WaitsConfig
  <2> QED
    BY <1>1, <1>12, <2>1 DEF Lose, seqs
<1> QED
  BY <1>6, <1>7, <1>8, <1>9, <1>10, <1>11, <1>12 DEF Step

(* The rows a step writes.                                                  *)
LEMMA NextKeepsRowTypes ==
  ASSUME OpsInv, TypesInv, NEW w \in Workers, Start(w) \/ Step(w) \/ Lose(w)
  PROVE  RowTypes'
<1> DEFINE q == req[w]
<1>1. q \in Requests
  BY DEF TypesInv
<1>2. configSeq \in Nat
  BY DEF OpsInv, SeqsOK
<1>3. CASE /\ configs' \subseteq configs
           /\ readings' \subseteq readings
           /\ alerts' \subseteq alerts
  BY <1>3 DEF TypesInv, RowTypes
<1>4. CASE CommitReading(w)
  <2>1. q \in OpenReadings
    BY <1>1, <1>4, RequestKinds DEF CommitReading, At
  <2>2. ReadingRow(q) \in ReadingRows
    BY <2>1 DEF OpenReadings, ReadingRow, ReadingRows
  <2>3. AlertRow(q) \in AlertRows
    BY <2>1 DEF OpenReadings, AlertRow, AlertRows, SeverityOf, Severities
  <2> QED
    BY <1>4, <2>2, <2>3 DEF CommitReading, TypesInv, RowTypes
<1>5. CASE InsertConfig(w)
  <2>1. q \in OpenConfigs
    BY <1>1, <1>5, RequestKinds DEF InsertConfig, At
  <2>2. q.band \in BandRows
    BY <2>1, OperationsAssumption DEF OpenConfigs, BandRows, OperationsAssumption
  <2>3. [id |-> configSeq + 1, well |-> q.well, metric |-> q.metric, band |-> q.band]
          \in ConfigRows
    BY <1>2, <2>1, <2>2 DEF OpenConfigs, ConfigRows
  <2> QED
    BY <1>5, <2>3 DEF InsertConfig, TypesInv, RowTypes
<1>6. CASE UpdateConfig(w)
  <2>1. q \in OpenPatches
    BY <1>1, <1>6, RequestKinds DEF UpdateConfig, At
  <2>2. PICK F \in SUBSET Fields : q.patch \in [F -> Nat \cup {None}]
    BY <2>1, OperationsAssumption DEF OpenPatches, OperationsAssumption
  <2>3. ASSUME NEW c \in configs PROVE [c EXCEPT !.band = Patched(c.band, q)] \in ConfigRows
    <3>1. c \in ConfigRows
      BY DEF TypesInv, RowTypes
    <3>2. Dirty(q) \subseteq F
      BY <2>2 DEF Dirty
    <3>3. Patched(c.band, q) \in BandRows
      BY <2>2, <3>1, <3>2 DEF Patched, ConfigRows, BandRows
    <3> QED
      BY <3>1, <3>3 DEF ConfigRows
  <2>4. readings' = readings /\ alerts' = alerts
    BY <1>6 DEF UpdateConfig
  <2>5. configs' \subseteq ConfigRows
    BY <1>6, <2>3 DEF UpdateConfig, TypesInv, RowTypes
  <2> QED
    BY <2>4, <2>5 DEF TypesInv, RowTypes
<1>7. CASE UpdateAlert(w)
  <2>1. ASSUME NEW a \in alerts PROVE [a EXCEPT !.acknowledged = TRUE] \in AlertRows
    BY DEF TypesInv, RowTypes, AlertRows
  <2>2. configs' = configs /\ readings' = readings
    BY <1>7 DEF UpdateAlert
  <2>3. alerts' \subseteq AlertRows
    BY <1>7, <2>1 DEF UpdateAlert, TypesInv, RowTypes
  <2> QED
    BY <2>2, <2>3 DEF TypesInv, RowTypes
<1>8. CASE Start(w)
  BY <1>3, <1>8, StartMoves DEF tables
<1>9. CASE \/ SelectThreshold(w) \/ InsertReading(w) \/ RefreshReading(w) \/ LookupConfig(w)
           \/ RefreshConfig(w) \/ DeleteConfig(w) \/ RefreshAlert(w) \/ DeleteWell(w) \/ Lose(w)
  BY <1>3, <1>9
  DEF SelectThreshold, InsertReading, RefreshReading, LookupConfig, RefreshConfig, DeleteConfig,
      RefreshAlert, DeleteWell, Lose, tables
<1> QED
  BY <1>4, <1>5, <1>6, <1>7, <1>8, <1>9 DEF Step

LEMMA NextKeepsTypes ==
  ASSUME OpsInv, OpsInv', TypesInv, [Next]_vars
  PROVE  TypesInv'
<1>1. ASSUME NEW w \in Workers, Start(w) \/ Step(w) \/ Lose(w) PROVE TypesInv'
  <2>1. RowTypes' /\ ConfigBudget' /\ configSeq' \in 0..MaxConfig
    BY <1>1, NextKeepsRowTypes, NextKeepsConfigBudget
  <2>2. PICK r \in Requests : Become(w, r)
    BY <1>1, <2>1, StartTurns, StepTurns DEF Turns
  <2>3. req' \in [Workers -> Requests]
    BY <2>2 DEF Become, TypesInv
  <2> QED
    BY <2>1, <2>3 DEF TypesInv
<1>2. CASE UNCHANGED vars
  <2>1. Uninserted' = Uninserted
    BY <1>2 DEF vars, Uninserted
  <2> QED
    BY <1>2, <2>1 DEF vars, tables, seqs, TypesInv, RowTypes, ConfigBudget
<1> QED
  BY <1>1, <1>2 DEF Next

LEMMA TypesInvIsTypeOK == OpsInv /\ TypesInv => TypeOK
<1> SUFFICES ASSUME OpsInv, TypesInv PROVE TypeOK
  OBVIOUS
<1>1. IsFiniteSet(Unflushed) /\ IsFiniteSet(Uninserted)
  BY FS_Subset, OperationsAssumption DEF Unflushed, Uninserted, OperationsAssumption
<1>2. Cardinality(Unflushed) \in Nat /\ Cardinality(Uninserted) \in Nat
  BY <1>1, FS_CardinalityType
<1>3. /\ configSeq \in 0..MaxConfig
      /\ readingSeq \in 0..MaxReading
      /\ alertSeq \in 0..readingSeq
  BY <1>2, OperationsAssumption
  DEF OperationsAssumption, OpsInv, SeqsOK, TypesInv, ConfigBudget
<1>4. configs \subseteq [id : 1..configSeq, well : Wells, metric : Metrics, band : BandRows]
  BY DEF OpsInv, ConfigsOK, TypesInv, RowTypes, ConfigRows
<1>5. readings \subseteq [id : 1..readingSeq, well : Wells, metric : Metrics,
                          value : Values, status : Statuses]
  BY DEF OpsInv, ReadingsOK, TypesInv, RowTypes, ReadingRows
<1>6. alerts \subseteq [id : 1..alertSeq, well : Wells, metric : Metrics,
                        value : Values, severity : Severities, acknowledged : BOOLEAN]
  BY DEF OpsInv, AlertsOK, TypesInv, RowTypes, AlertRows
<1>7. alertWell \in [1..alertSeq -> Wells]
  BY DEF OpsInv, SeqsOK
<1> QED
  BY <1>3, <1>4, <1>5, <1>6, <1>7 DEF OpsInv, TypesInv, TypeOK, BandRows

LEMMA OpsAlwaysTypes == Spec => [](OpsInv /\ TypesInv)
<1>1. Init => TypesInv
  <2> SUFFICES ASSUME Init PROVE TypesInv
    OBVIOUS
  <2>1. Uninserted = {} /\ Idle \in Requests
    BY DEF Init, Uninserted, Idle, Requests
  <2>2. ConfigBudget
    BY <2>1, FS_EmptySet, OperationsAssumption DEF Init, ConfigBudget, OperationsAssumption
  <2> QED
    BY <2>1, <2>2 DEF Init, TypesInv, RowTypes
<1>2. OpsInv /\ OpsInv' /\ TypesInv /\ [Next]_vars => TypesInv'
  BY NextKeepsTypes
<1> QED
  BY <1>1, <1>2, OpsAlwaysInv, PTL DEF Spec

(* The tables hold rows of their columns' types with ids their sequences    *)
(* gave, and a request has the locals of the handler that serves it.        *)
THEOREM OperationsTypeCorrect == Spec => []TypeOK
<1>1. OpsInv /\ TypesInv => TypeOK
  BY TypesInvIsTypeOK
<1> QED
  BY <1>1, OpsAlwaysTypes, PTL

LEMMA StatusOfBand ==
  ASSUME NEW band \in BandRows, NEW v \in Values
  PROVE  LET in(hi, lo) == AtOrAbove(v, band[hi]) \/ AtOrBelow(v, band[lo])
             status == EvaluateStatus(band, v)
         IN  /\ status = "breach" <=> in("critical_max", "critical_min")
             /\ status = "normal" <=> ~ (in("critical_max", "critical_min")
                                           \/ in("warning_max", "warning_min"))
<1>1. band # None
  BY OperationsAssumption DEF OperationsAssumption, BandRows
<1> QED
  BY <1>1 DEF EvaluateStatus

(* A reading's status is the worst band its value is in, whatever bounds    *)
(* creations and patches have left in the config: unset, equal, inverted.   *)
THEOREM OperationsStatusIsWorstBand == Spec => []StatusIsWorstBand
<1>1. OpsInv /\ TypesInv => StatusIsWorstBand
  <2> SUFFICES ASSUME TypesInv, NEW c \in configs, NEW v \in Values
               PROVE  LET in(hi, lo) == AtOrAbove(v, c.band[hi]) \/ AtOrBelow(v, c.band[lo])
                          status == EvaluateStatus(c.band, v)
                      IN  /\ status = "breach" <=> in("critical_max", "critical_min")
                          /\ status = "normal" <=> ~ (in("critical_max", "critical_min")
                                                        \/ in("warning_max", "warning_min"))
    BY DEF StatusIsWorstBand
  <2>1. c.band \in BandRows
    BY DEF TypesInv, RowTypes, ConfigRows
  <2> QED
    BY <2>1, StatusOfBand
<1> QED
  BY <1>1, OpsAlwaysTypes, PTL
=============================================================================
