---------------------------- MODULE OperationsForms ----------------------------
(***************************************************************************)
(* The operations page below its alerts: the well selector, the thresholds *)
(* panel with an editor in each row, the form that records readings, and   *)
(* the readings history, over a server other users write to as well.  Its  *)
(* requests are one step here (Operations has their inside).               *)
(*                                                                         *)
(* There is one metric, so a well has at most one threshold config: two of *)
(* them are as unrelated as two wells.  The user is one who may edit; a    *)
(* viewer sees the same without the controls.  The component of a form or  *)
(* a row is mounted as long as the code's JSX holds it at the same place   *)
(* under the same key, and keeps its state until then.                     *)
(***************************************************************************)
EXTENDS Integers, Sequences, FiniteSets, TLC, QueryCache

CONSTANTS WellIds,
          ConfigIds,     \* 1..n: the ids the configs' sequence may give out
          FirstConfigs,  \* id -> [well, band], or NULL, at first
          BandNames,     \* warning_min, ..., critical_max
          Texts,         \* what is typed into a number field
          FirstWell,     \* the well the page was opened for
          NULL,
          HistoryLength, \* 10
          MaxVisits,     \* bound: wells selected
          MaxInputs,     \* bound: fields changed, editors cancelled
          MaxSaves,      \* bound: forms submitted, configs deleted
          MaxEvents      \* bound: refetches, requests lost, writes of other users

String(n) == ToString(n)
Bands == [BandNames -> (0..9) \cup {NULL}] \* of a config: numbers have one digit here

ASSUME OperationsFormsAssumption ==
  /\ ConfigIds \subseteq Nat \ {0} /\ IsFiniteSet(ConfigIds)
  /\ FirstConfigs \in [ConfigIds -> [well : WellIds, band : Bands] \cup {NULL}]
  /\ \A i \in ConfigIds : FirstConfigs[i] # NULL =>
       i <= Cardinality({j \in ConfigIds : FirstConfigs[j] # NULL}) \* given out in order
  /\ FirstWell \in WellIds /\ HistoryLength \in Nat
  /\ NULL \notin WellIds \cup Int
  /\ NULL \notin {"thresholds", "readings", "alerts"} \X (WellIds \cup {NULL})
  /\ NoData \notin [got : [ConfigIds -> Bands \cup {NULL}], asOf : Nat]
  /\ {MaxVisits, MaxInputs, MaxSaves, MaxEvents} \subseteq Nat

ASSUME TextAssumption ==
  /\ \A m, n \in 0..9 : String(m) = String(n) => m = n
  /\ \A n \in 0..9 : String(n) \notin {"", " ", "x"}
  /\ Texts \subseteq {"", " ", "x"} \cup {String(n) : n \in 0..9}

VARIABLES
  configs,  \* threshold_configs: id -> [well, band], or NULL
  next,     \* the next of its ids
  readings, \* of each well the values recorded, newest first
  writes,   \* history: this tab's requests applied so far, by table
  cache,    \* the query cache
  well,     \* well_id of the URL, or NULL
  rows,     \* the EditableRows on screen, by config: [form, call, del]
  adding,   \* the thresholds panel's own form: [form, call]
  record,   \* RecordReadingForm: [value, call]
  calls,    \* requests of useMutation under way
  told,     \* history: of each table, how many of its writes this tab knows of
  count     \* of what is bounded, so far

server == <<configs, next, readings, writes>>
forms == <<rows, adding, record>>
vars == <<server, cache, well, forms, calls, told, count>>

Bounds == [visits |-> MaxVisits, inputs |-> MaxInputs, saves |-> MaxSaves, events |-> MaxEvents]
Counted(what) == count[what] < Bounds[what] /\ count' = [count EXCEPT ![what] = @ + 1]

ThresholdsKey(w) == <<"thresholds", w>>
ReadingsKey(w) == <<"readings", w>>
AlertsKey == <<"alerts", NULL>> \* whichever filters the alerts panel has
Keys == {ThresholdsKey(w) : w \in WellIds} \cup {ReadingsKey(w) : w \in WellIds} \cup {AlertsKey}

(* The table an entry's freshness depends on: readings raise the alerts.    *)
TableOf(x) == IF x[1] = "thresholds" THEN "configs" ELSE "readings"

-----------------------------------------------------------------------------
(* Number fields hold text.  A blank one is converted to 0 by Number.       *)

IsNaN(text) == text = "x"
Number(text) == IF text = " " THEN 0 ELSE CHOOSE n \in 0..9 : String(n) = text
numberField(text) == text = "" \/ ~ IsNaN(text)
toBand(text) == IF text = "" THEN NULL ELSE Number(text)
Text(v) == IF v = NULL THEN "" ELSE String(v)

thresholdSchema(values) == \A b \in BandNames : numberField(values[b])
readingSchema(text) == text # "" /\ ~ IsNaN(text)

(* useForm's default values of ThresholdForm; band is NULL in the new one.  *)
\* mutant: only the first band is filled in.
Defaults_Lost(band) ==
  [b \in BandNames |-> IF band = NULL \/ b = "critical_max" THEN "" ELSE Text(band[b])]

Defaults(band) == [b \in BandNames |-> IF band = NULL THEN "" ELSE Text(band[b])]

NewForm(band) == [values |-> Defaults(band), typed |-> {}, from |-> band]
onValid(form) == [b \in BandNames |-> toBand(form.values[b])]

-----------------------------------------------------------------------------
(* What is on screen.                                                       *)

NoForm == [form |-> NULL, call |-> 0]
NewRow == [form |-> NULL, call |-> 0, del |-> 0]
NewRecord == [value |-> "", call |-> 0]

Active(w) == {AlertsKey} \cup (IF w = NULL THEN {} ELSE {ThresholdsKey(w), ReadingsKey(w)})

(* ThresholdsPanel's list in cache c. *)
Listed(w, c) ==
  {i \in ConfigIds : /\ w # NULL /\ HasData(c[ThresholdsKey(w)])
                     /\ c[ThresholdsKey(w)].data.got[i] # NULL}

Newest(items) == SubSeq(items, 1, IF Len(items) < HistoryLength THEN Len(items) ELSE HistoryLength)

ReadingsHistory ==
  IF well = NULL \/ ~ HasData(cache[ReadingsKey(well)]) THEN <<>>
  ELSE Newest(cache[ReadingsKey(well)].data.got)

(* Render for well w with cache c: rows stay as long as they are listed.    *)
Show(w, c, r) ==
  /\ well' = w
  /\ cache' = [x \in Keys |-> IF x \in Active(w) \ Active(well) THEN Observed(c[x]) ELSE c[x]]
  /\ rows' = [i \in ConfigIds |-> IF i \notin Listed(w, c) THEN NULL
                                  ELSE IF r[i] = NULL THEN NewRow ELSE r[i]]

(* selectWell, Back and Forward.  The panels stay, with what was typed.     *)
OperationsPage(w) ==
  /\ w # well /\ Counted("visits")
  /\ Show(w, cache, rows)
  /\ IF w = NULL THEN adding' = NoForm /\ record' = NewRecord ELSE UNCHANGED <<adding, record>>
  /\ UNCHANGED <<server, calls, told>>

-----------------------------------------------------------------------------
(* useThresholdsQuery, useReadingsQuery.                                    *)

\* mutant: the URL names no well.
useThresholdsQuery_All(w) ==
  [i \in ConfigIds |-> IF configs[i] # NULL THEN configs[i].band ELSE NULL]

useThresholdsQuery(w) ==
  [i \in ConfigIds |-> IF configs[i] # NULL /\ configs[i].well = w THEN configs[i].band ELSE NULL]
useReadingsQuery(w) == readings[w]

Serve(x) ==
  [got |-> CASE x[1] = "thresholds" -> useThresholdsQuery(x[2])
             [] x[1] = "readings" -> useReadingsQuery(x[2])
             [] x[1] = "alerts" -> "alerts",
   asOf |-> writes[TableOf(x)]]

ServeGet(x) ==
  /\ cache[x].fetch = Asked
  /\ cache' = [cache EXCEPT ![x].fetch = Answered(Serve(x))]
  /\ UNCHANGED <<server, well, forms, calls, told, count>>

(* The promises of invalidateQueries that wait for the fetch of x end.  One *)
(* has `missed` what it waits for if the fetch failed, or was a first load  *)
(* under way that is not restarted.                                         *)
Resumed(S, x, missed) ==
  {IF c.awaits = x THEN [c EXCEPT !.awaits = NULL, !.missed = @ \/ missed] ELSE c : c \in S}

(* The fetch of x is cancelled for a new one.  Who waits for it is handed   *)
(* the new one's promise, which a second time is the one that is cancelled. *)
HandedOn(S, x) ==
  Resumed({c \in S : c.handed}, x, TRUE) \cup
  {IF c.awaits = x THEN [c EXCEPT !.handed = TRUE] ELSE c : c \in {d \in S : ~ d.handed}}

ReceiveGet(x) ==
  /\ cache[x].fetch.state = "answered"
  /\ Show(well, [cache EXCEPT ![x] = Received(@)], rows)
  /\ calls' = Resumed(calls, x, FALSE)
  /\ UNCHANGED <<server, adding, record, told, count>>

FailGet(x) ==
  /\ IsFetching(cache[x]) /\ Counted("events")
  /\ cache' = [cache EXCEPT ![x] = Failed(@)]
  /\ calls' = Resumed(calls, x, TRUE)
  /\ UNCHANGED <<server, well, forms, told>>

(* A stale entry is fetched again on focus or reconnect. *)
Refetch(x) ==
  /\ x \in Active(well) /\ ~ IsFetching(cache[x]) /\ Counted("events")
  /\ cache' = [cache EXCEPT ![x] = Ask(@)]
  /\ UNCHANGED <<server, well, forms, calls, told>>

-----------------------------------------------------------------------------
(* What the operator does.                                                  *)

Call(op, w, i, row, form) ==
  /\ Counted("saves")
  /\ calls' = calls \cup {[n |-> count.saves + 1, op |-> op, well |-> w, i |-> i, row |-> row,
                           form |-> form, answer |-> NULL, asOf |-> 0,
                           hooked |-> FALSE, awaits |-> NULL, awaited |-> NULL, handed |-> FALSE,
                           missed |-> FALSE]}

(* A field of a ThresholdForm is changed, once each.                        *)
Typed(f, b, t) == [f EXCEPT !.values[b] = t, !.typed = @ \cup {b}]
ThresholdForm(f) == {Typed(f, b, t) : b \in BandNames \ f.typed, t \in Texts}

EditableRow(i) ==
  /\ rows[i] # NULL
  /\ \/ /\ rows[i].form = NULL
        /\ rows' = [rows EXCEPT ![i].form = NewForm(cache[ThresholdsKey(well)].data.got[i])]
        /\ UNCHANGED <<calls, count>>
     \/ /\ rows[i].form = NULL /\ rows[i].del = 0
        /\ rows' = [rows EXCEPT ![i].del = count.saves + 1]
        /\ Call("delete", well, i, NULL, NULL)
     \/ /\ rows[i].form # NULL /\ Counted("inputs")
        /\ \E f \in ThresholdForm(rows[i].form) \cup {NULL} : rows' = [rows EXCEPT ![i].form = f]
        /\ UNCHANGED calls
     \/ /\ rows[i].form # NULL /\ rows[i].call = 0 /\ thresholdSchema(rows[i].form.values)
        /\ rows' = [rows EXCEPT ![i].call = count.saves + 1]
        /\ Call("update", well, i, onValid(rows[i].form), rows[i].form)
  /\ UNCHANGED <<server, cache, well, adding, record, told>>

(* Ids do not run out in the bounded table.                                 *)
IdLeft == next + Cardinality({c \in calls : c.op = "create"}) \in ConfigIds

ThresholdsPanel ==
  /\ well # NULL
  /\ \/ /\ adding.form = NULL
        /\ adding' = [adding EXCEPT !.form = NewForm(NULL)]
        /\ UNCHANGED <<calls, count>>
     \/ /\ adding.form # NULL /\ Counted("inputs")
        /\ \E f \in ThresholdForm(adding.form) \cup {NULL} : adding' = [adding EXCEPT !.form = f]
        /\ UNCHANGED calls
     \/ /\ adding.form # NULL /\ adding.call = 0 /\ thresholdSchema(adding.form.values) /\ IdLeft
        /\ adding' = [adding EXCEPT !.call = count.saves + 1]
        /\ Call("create", well, 0, onValid(adding.form), adding.form)
  /\ UNCHANGED <<server, cache, well, rows, record, told>>

RecordReadingForm ==
  /\ well # NULL
  /\ \/ /\ Counted("inputs")
        /\ \E t \in Texts \ {record.value} : record' = [record EXCEPT !.value = t]
        /\ UNCHANGED calls
     \/ /\ record.call = 0 /\ readingSchema(record.value)
        /\ record' = [record EXCEPT !.call = count.saves + 1]
        /\ Call("reading", well, 0, Number(record.value), NULL)
  /\ UNCHANGED <<server, cache, well, rows, adding, told>>

-----------------------------------------------------------------------------
(* The server's side.                                                       *)

HasConfig(w) == \E i \in ConfigIds : configs[i] # NULL /\ configs[i].well = w

StatusOf(c) ==
  CASE c.op = "create" /\ HasConfig(c.well) -> 409
    [] c.op \in {"update", "delete"} /\ configs[c.i] = NULL -> 404
    [] OTHER -> 200

ServeCall(c) ==
  /\ c.answer = NULL
  /\ LET table == IF c.op = "reading" THEN "readings" ELSE "configs"
     IN  /\ calls' = (calls \ {c}) \cup
                     {[c EXCEPT !.answer = StatusOf(c), !.asOf = writes[table] + 1]}
         /\ writes' = IF StatusOf(c) = 200 THEN [writes EXCEPT ![table] = @ + 1] ELSE writes
  /\ IF StatusOf(c) # 200 THEN UNCHANGED <<configs, next, readings>>
     ELSE /\ readings' = IF c.op = "reading" THEN [readings EXCEPT ![c.well] = <<c.row>> \o @] ELSE readings
          /\ next' = IF c.op = "create" THEN next + 1 ELSE next
          /\ configs' = CASE c.op = "create" -> [configs EXCEPT ![next] = [well |-> c.well, band |-> c.row]]
                          [] c.op = "update" -> [configs EXCEPT ![c.i].band = c.row]
                          [] c.op = "delete" -> [configs EXCEPT ![c.i] = NULL]
                          [] OTHER -> configs
  /\ UNCHANGED <<cache, well, forms, told, count>>

(* The request or its answer is lost, or the server fails: 0 is no answer.  *)
LoseCall(c) ==
  /\ c.answer # 0 /\ ~ c.hooked /\ Counted("events")
  /\ calls' = (calls \ {c}) \cup {[c EXCEPT !.answer = 0]}
  /\ UNCHANGED <<server, cache, well, forms, told>>

OtherWrite ==
  /\ Counted("events")
  /\ \E i \in {j \in ConfigIds : configs[j] # NULL} :
       \/ configs' = [configs EXCEPT ![i] = NULL]
       \/ \E b \in BandNames : configs' = [configs EXCEPT ![i].band[b] = 9]
  /\ UNCHANGED <<next, readings, writes, cache, well, forms, calls, told>>

-----------------------------------------------------------------------------
(* The mutations' callbacks.                                                *)

InvalidateQueries(kinds) ==
  [x \in Keys |-> IF x[1] \in kinds THEN Invalidated(cache[x], x \in Active(well)) ELSE cache[x]]

Heard(c, table) == told' = [told EXCEPT ![table] = IF c.asOf > @ THEN c.asOf ELSE @]

(* onSuccess of the hooks for thresholds returns invalidateQueries: the     *)
(* mutation is pending until the fetch of the panel's entry ends.  One that *)
(* another save waits for is cancelled for it.                              *)
\* mutant: the promise is not returned.
useThresholdMutation_NotAwaited(c) ==
  /\ c.op \in {"create", "update", "delete"} /\ c.answer = 200 /\ ~ c.hooked
  /\ LET x == IF well = NULL THEN NULL ELSE ThresholdsKey(well)
     IN  calls' = (calls \ {c}) \cup {[c EXCEPT !.hooked = TRUE, !.awaited = x]}
  /\ cache' = InvalidateQueries({"thresholds"})
  /\ Heard(c, "configs")
  /\ UNCHANGED <<server, well, forms, count>>

useThresholdMutation(c) ==
  /\ c.op \in {"create", "update", "delete"} /\ c.answer = 200 /\ ~ c.hooked
  /\ LET x == IF well = NULL THEN NULL ELSE ThresholdsKey(well)
         others == IF x # NULL /\ HasData(cache[x]) THEN HandedOn(calls \ {c}, x) ELSE calls \ {c}
         early == x # NULL /\ ~ HasData(cache[x]) /\ IsFetching(cache[x])
     IN  calls' = others \cup {[c EXCEPT !.hooked = TRUE, !.awaits = x, !.awaited = x, !.missed = early]}
  /\ cache' = InvalidateQueries({"thresholds"})
  /\ Heard(c, "configs")
  /\ UNCHANGED <<server, well, forms, count>>

(* That of the hook for readings does not.                                  *)
\* mutant: the alerts are not invalidated.
useCreateReadingMutation_Readings(c) ==
  /\ c.op = "reading" /\ c.answer = 200 /\ ~ c.hooked
  /\ calls' = (calls \ {c}) \cup {[c EXCEPT !.hooked = TRUE]}
  /\ cache' = InvalidateQueries({"readings"})
  /\ Heard(c, "readings")
  /\ UNCHANGED <<server, well, forms, count>>

useCreateReadingMutation(c) ==
  /\ c.op = "reading" /\ c.answer = 200 /\ ~ c.hooked
  /\ calls' = (calls \ {c}) \cup {[c EXCEPT !.hooked = TRUE]}
  /\ cache' = InvalidateQueries({"readings", "alerts"})
  /\ Heard(c, "readings")
  /\ UNCHANGED <<server, well, forms, count>>

(* The mutation ends.  If the component that called it is still there, its  *)
(* button works again, and after a success the editor or form is done.      *)
Settle(c) ==
  /\ (c.hooked /\ c.awaits = NULL) \/ c.answer \notin {NULL, 200}
  /\ calls' = calls \ {c}
  /\ LET ok == c.answer = 200
     IN  /\ adding' = IF adding.call # c.n THEN adding
                      ELSE IF ok THEN NoForm ELSE [adding EXCEPT !.call = 0]
         /\ record' = IF record.call # c.n THEN record
                      ELSE IF ok THEN NewRecord ELSE [record EXCEPT !.call = 0]
         /\ rows' = [i \in ConfigIds |->
              CASE rows[i] # NULL /\ rows[i].call = c.n ->
                     [rows[i] EXCEPT !.call = 0, !.form = IF ok THEN NULL ELSE @]
                [] rows[i] # NULL /\ rows[i].del = c.n -> [rows[i] EXCEPT !.del = 0]
                [] OTHER -> rows[i]]
  /\ UNCHANGED <<server, cache, well, told, count>>

-----------------------------------------------------------------------------

(* The page is open and its queries are answered.                           *)
Init ==
  /\ configs = FirstConfigs
  /\ next = Cardinality({i \in ConfigIds : FirstConfigs[i] # NULL}) + 1
  /\ readings = [w \in WellIds |-> <<>>]
  /\ writes = [t \in {"configs", "readings"} |-> 0]
  /\ told = writes
  /\ well = FirstWell
  /\ cache = [x \in Keys |-> IF x \in Active(FirstWell) THEN Entry(Serve(x)) ELSE EmptyEntry]
  /\ rows = [i \in ConfigIds |-> IF i \in Listed(well, cache) THEN NewRow ELSE NULL]
  /\ adding = NoForm /\ record = NewRecord
  /\ calls = {}
  /\ count = [b \in DOMAIN Bounds |-> 0]

Operator ==
  \/ \E w \in WellIds \cup {NULL} : OperationsPage(w)
  \/ \E i \in ConfigIds : EditableRow(i)
  \/ ThresholdsPanel \/ RecordReadingForm

Network ==
  \/ \E x \in Keys : ServeGet(x) \/ ReceiveGet(x)
  \/ \E c \in calls : ServeCall(c) \/ useThresholdMutation(c) \/ useCreateReadingMutation(c) \/ Settle(c)

Next ==
  \/ Operator
  \/ Network
  \/ \E x \in Keys : FailGet(x) \/ Refetch(x)
  \/ \E c \in calls : LoseCall(c)
  \/ OtherWrite

(* Requests are answered: what fails, fails as an answer.                   *)
Spec == Init /\ [][Next]_vars /\ WF_vars(Network)

-----------------------------------------------------------------------------

TypeOK ==
  /\ \A i \in ConfigIds : configs[i] # NULL => configs[i].well \in WellIds /\ i < next
  /\ \A t \in DOMAIN writes : told[t] \in 0..writes[t]
  /\ well \in WellIds \cup {NULL}
  /\ \A i \in ConfigIds : rows[i] # NULL => rows[i].call \in Nat /\ rows[i].del \in Nat
  /\ \A c \in calls : c.answer \in {NULL, 0, 200, 404, 409} /\ c.awaits \in Keys \cup {NULL}

(* After a write of this tab was answered, an entry that depends on its     *)
(* table and is at rest shows it, or is marked to be fetched when used.     *)
(* (A first load under way by then is not restarted: `overtaken`.)          *)
ReadsItsWrites ==
  \A x \in Keys : HasData(cache[x]) /\ ~ IsFetching(cache[x]) =>
    \/ cache[x].data.asOf >= told[TableOf(x)]
    \/ cache[x].overtaken
    \/ cache[x].invalid /\ (x \in Active(well) => cache[x].failed)

(* An editor or form for thresholds is not done before the panel shows what *)
(* was saved, unless it missed the fetch it waited for.                     *)
SavedIsShown ==
  [][\A c \in calls : /\ c.hooked /\ c.op # "reading" /\ c.awaited = ThresholdsKey(c.well)
                      /\ ~ c.missed /\ \A d \in calls' : d.n # c.n
       => HasData(cache[c.awaited]) /\ cache[c.awaited].data.asOf >= c.asOf]_vars

(* The rows on screen, and so what is edited or deleted, are configs of the *)
(* well in the URL; the history is of its readings, newest first.           *)
ShowsItsWell ==
  /\ \A i \in ConfigIds : rows[i] # NULL /\ configs[i] # NULL => configs[i].well = well
  /\ ReadingsHistory # <<>> =>
       LET all == readings[well]
       IN  \E k \in 1..Len(all) : ReadingsHistory = Newest(SubSeq(all, k, Len(all)))

(* A save sends all the bands, and still changes none that was not typed    *)
(* in, if the config is as the editor found it.                             *)
OnlyTypedBandsChange ==
  [][\A c \in calls : c.op = "update" /\ configs' # configs /\ c \notin calls'
       /\ configs[c.i] # NULL /\ configs[c.i].band = c.form.from
       => \A b \in BandNames \ c.form.typed : configs'[c.i].band[b] = configs[c.i].band[b]]_vars

(* A button does not wait for ever on the fetch behind it.                  *)
SavesEnd == \A n \in 1..MaxSaves : (\E c \in calls : c.n = n) ~> (\A c \in calls : c.n # n)

(* A number that is stored was typed as one (refuted: Number(" ") is 0).    *)
NumbersWereTyped ==
  \A c \in calls : c.op \in {"create", "update"} =>
    \A b \in BandNames : c.row[b] = NULL \/ String(c.row[b]) = c.form.values[b]
=============================================================================
