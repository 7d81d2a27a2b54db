---------------------------- MODULE PredictionsPage ----------------------------
(***************************************************************************)
(* The predictions page: a well selector, the form that runs the screening *)
(* model, the chart of the selected prediction and the history, beside the *)
(* dashboard, which counts all predictions.  The model's numbers are left  *)
(* out: an input is one the form rejects, one only the server does, or a   *)
(* good one.                                                               *)
(***************************************************************************)
EXTENDS Integers, FiniteSets, QueryCache

CONSTANTS WellIds,       \* strings: places are also "none" and "dashboard", "all" a list
          PredictionIds, \* 1..n: the ids the sequence may give out
          NULL,
          History,       \* places visited before the tab's user signed in again
          MaxVisits,     \* bound: places gone to
          MaxPicks,      \* bound: clicks on the history
          MaxRuns,       \* bound: predictions asked for
          MaxEvents      \* bound: refetches, requests lost, writes of other users

ASSUME PredictionsPageAssumption ==
  /\ WellIds \cap {"none", "dashboard", "all"} = {}
  /\ NULL \notin Int \cup WellIds \cup {"none", "dashboard"}
  /\ IsFiniteSet(PredictionIds) /\ PredictionIds = 1..Cardinality(PredictionIds)
  /\ NoData \notin [got : (SUBSET PredictionIds) \cup WellIds \cup {NULL}, asOf : Nat]
  /\ History \subseteq WellIds \cup {"none", "dashboard"}
  /\ {MaxVisits, MaxPicks, MaxRuns, MaxEvents} \subseteq Nat

Inputs == {"good", "rejected", "typo"}

VARIABLES
  wells,       \* the wells there are
  predictions, \* id -> its well, or NULL
  next,        \* the next id
  writes,      \* history: this tab's runs stored so far
  cache,       \* the query cache
  place,       \* well_id of the URL, "none", or "dashboard" instead of the page
  past,        \* places Back and Forward lead to
  selected,    \* selectedPredictionId, or 0
  run,         \* the page's createMutation: [call, error]
  calls,       \* its requests under way
  told,        \* history: how many of its writes this tab knows of
  stray,       \* history: the selection was made for another place than this
  count        \* of what is bounded, so far

server == <<wells, predictions, next, writes>>
page == <<place, past, selected, stray>>
vars == <<server, cache, page, run, calls, told, count>>

Bounds == [visits |-> MaxVisits, picks |-> MaxPicks, runs |-> MaxRuns, events |-> MaxEvents]
Counted(what) == count[what] < Bounds[what] /\ count' = [count EXCEPT ![what] = @ + 1]

(* Query keys. *)
ListKey(w) == <<"list", w>>
AllKey == <<"list", "all">>
DetailKey(i) == <<"detail", i>>
Keys == {ListKey(w) : w \in WellIds} \cup {AllKey} \cup {DetailKey(i) : i \in PredictionIds}

Places == WellIds \cup {"none", "dashboard"}

Active(p, s) ==
  CASE p = "dashboard" -> {AllKey}
    [] p = "none" -> {DetailKey(i) : i \in {s} \ {0}}
    [] OTHER -> {ListKey(p)} \cup {DetailKey(i) : i \in {s} \ {0}}

(* Render place p with selection s and cache c. *)
Show(p, s, c) ==
  /\ place' = p /\ selected' = s
  /\ cache' = [x \in Keys |-> IF x \in Active(p, s) \ Active(place, selected)
                              THEN Observed(c[x]) ELSE c[x]]

(* What the page shows: the prediction charted and the ids in the history.  *)
PredictionChart ==
  IF place = "dashboard" \/ selected = 0 THEN NULL
  ELSE IF HasData(cache[DetailKey(selected)]) THEN cache[DetailKey(selected)].data.got ELSE NULL

PredictionHistoryList ==
  IF place \in WellIds /\ HasData(cache[ListKey(place)]) THEN cache[ListKey(place)].data.got ELSE {}

-----------------------------------------------------------------------------
(* Going places.  Leaving for the dashboard unmounts the page.              *)

NoRun == [call |-> 0, error |-> NULL]
Went(p) == /\ p # place /\ Counted("visits")
           /\ past' = past \cup {place}
           /\ run' = IF "dashboard" \in {p, place} THEN NoRun ELSE run
           /\ UNCHANGED <<server, calls, told>>

\* mutant: the selection is kept.
selectWell_Kept(p) ==
  /\ place # "dashboard" /\ p # "dashboard" /\ Went(p)
  /\ Show(p, selected, cache) /\ stray' = FALSE

selectWell(p) ==
  /\ place # "dashboard" /\ p # "dashboard" /\ Went(p)
  /\ Show(p, 0, cache) /\ stray' = FALSE

NavBar(p) ==
  /\ p \in {"none", "dashboard"} /\ Went(p)
  /\ LET leaves == "dashboard" \in {p, place}
     IN  /\ Show(p, IF leaves THEN 0 ELSE selected, cache)
         /\ stray' = (~ leaves /\ selected # 0)

BackOrForward(p) ==
  /\ p \in past /\ Went(p)
  /\ LET leaves == "dashboard" \in {p, place}
     IN  /\ Show(p, IF leaves THEN 0 ELSE selected, cache)
         /\ stray' = (~ leaves /\ selected # 0)

(* A click on a row of the history. *)
onSelect(i) ==
  /\ i \in PredictionHistoryList \ {selected} /\ Counted("picks")
  /\ Show(place, i, cache) /\ stray' = FALSE
  /\ UNCHANGED <<server, past, run, calls, told>>

(* The form checks less than the server does.                               *)
predictionSchema(input) == input # "typo"

PredictionForm(input) ==
  /\ place \in WellIds /\ run.call = 0 /\ predictionSchema(input)
  /\ next + Cardinality(calls) \in PredictionIds \* bound
  /\ Counted("runs")
  /\ run' = [call |-> count.runs + 1, error |-> NULL]
  /\ calls' = calls \cup {[n |-> count.runs + 1, well |-> place, input |-> input, answer |-> NULL,
                           id |-> 0, asOf |-> 0, hooked |-> FALSE, awaits |-> {}, awaited |-> {},
                           handed |-> {}, missed |-> FALSE]}
  /\ UNCHANGED <<server, cache, page, told>>

-----------------------------------------------------------------------------
(* The server's side.                                                       *)

list_predictions(w) == {i \in PredictionIds : predictions[i] # NULL /\ w \in {"all", predictions[i]}}
get_prediction(i) == predictions[i]

Serve(x) ==
  [got |-> IF x[1] = "list" THEN list_predictions(x[2]) ELSE get_prediction(x[2]), asOf |-> writes]

create_prediction(c) ==
  /\ c.answer = NULL
  /\ IF c.input # "good" \/ c.well \notin wells
     THEN /\ calls' = (calls \ {c}) \cup {[c EXCEPT !.answer = 422]}
          /\ UNCHANGED server
     ELSE /\ predictions' = [predictions EXCEPT ![next] = c.well]
          /\ next' = next + 1 /\ writes' = writes + 1 /\ UNCHANGED wells
          /\ calls' = (calls \ {c}) \cup {[c EXCEPT !.answer = 201, !.id = next, !.asOf = writes + 1]}
  /\ UNCHANGED <<cache, page, run, told, count>>

(* The request or its answer is lost, or the server fails: 0 is no answer.  *)
LoseCall(c) ==
  /\ c.answer # 0 /\ ~ c.hooked /\ Counted("events")
  /\ calls' = (calls \ {c}) \cup {[c EXCEPT !.answer = 0]}
  /\ UNCHANGED <<server, cache, page, run, told>>

(* Another user deletes a well, and with it its predictions.                *)
OtherDeletes(w) ==
  /\ w \in wells /\ Counted("events")
  /\ wells' = wells \ {w}
  /\ predictions' = [i \in PredictionIds |-> IF predictions[i] = w THEN NULL ELSE predictions[i]]
  /\ UNCHANGED <<next, writes, cache, page, run, calls, told>>

-----------------------------------------------------------------------------
(* usePredictionsQuery, useAllPredictionsQuery, usePredictionQuery.         *)

ServeGet(x) ==
  /\ cache[x].fetch = Asked
  /\ cache' = [cache EXCEPT ![x].fetch = Answered(Serve(x))]
  /\ UNCHANGED <<server, page, run, calls, told, count>>

(* invalidateQueries waits for every fetch it started or found under way.   *)
Resumed(S, x, missed) ==
  {IF x \in c.awaits THEN [c EXCEPT !.awaits = @ \ {x}, !.missed = @ \/ missed] ELSE c : c \in S}

(* The fetches of X are cancelled for new ones.  Who waits for one is       *)
(* handed the new one's promise, which a second time is what is cancelled.  *)
HandedOn(S, X) ==
  {LET lost == c.awaits \cap c.handed \cap X
   IN  [c EXCEPT !.awaits = @ \ lost, !.handed = @ \cup (c.awaits \cap X),
                 !.missed = @ \/ lost # {}] : c \in S}

(* A 404 is an error like any other.                                        *)
ReceiveGet(x) ==
  /\ cache[x].fetch.state = "answered"
  /\ LET gone == cache[x].fetch.answer.got = NULL
     IN  /\ cache' = [cache EXCEPT ![x] = IF gone THEN Failed(@) ELSE Received(@)]
         /\ calls' = Resumed(calls, x, gone)
  /\ UNCHANGED <<server, page, run, told, count>>

FailGet(x) ==
  /\ IsFetching(cache[x]) /\ Counted("events")
  /\ cache' = [cache EXCEPT ![x] = Failed(@)]
  /\ calls' = Resumed(calls, x, TRUE)
  /\ UNCHANGED <<server, page, run, told>>

(* A stale entry is fetched again on focus or reconnect. *)
Refetch(x) ==
  /\ x \in Active(place, selected) /\ ~ IsFetching(cache[x]) /\ Counted("events")
  /\ cache' = [cache EXCEPT ![x] = Ask(@)]
  /\ UNCHANGED <<server, page, run, calls, told>>

-----------------------------------------------------------------------------
(* useCreatePredictionMutation's onSuccess returns invalidateQueries for    *)
(* all predictions, and what mutate was given runs when that is done.       *)

\* mutant: the promise is not returned.
useCreatePredictionMutation_NotAwaited(c) ==
  /\ c.answer = 201 /\ ~ c.hooked
  /\ cache' = [x \in Keys |-> Invalidated(cache[x], x \in Active(place, selected))]
  /\ calls' = (calls \ {c}) \cup {[c EXCEPT !.hooked = TRUE, !.awaited = Active(place, selected)]}
  /\ told' = IF c.asOf > told THEN c.asOf ELSE told
  /\ UNCHANGED <<server, page, run, count>>

\* mutant: only the history of the well on screen is invalidated.
useCreatePredictionMutation_ThisWell(c) ==
  /\ c.answer = 201 /\ ~ c.hooked
  /\ cache' = [x \in Keys |-> IF x = <<"list", place>>
                              THEN Invalidated(cache[x], x \in Active(place, selected)) ELSE cache[x]]
  /\ calls' = (calls \ {c}) \cup {[c EXCEPT !.hooked = TRUE]}
  /\ told' = IF c.asOf > told THEN c.asOf ELSE told
  /\ UNCHANGED <<server, page, run, count>>

useCreatePredictionMutation(c) ==
  /\ c.answer = 201 /\ ~ c.hooked
  /\ cache' = [x \in Keys |-> Invalidated(cache[x], x \in Active(place, selected))]
  /\ LET active == Active(place, selected)
         early == \E x \in active : IsFetching(cache[x]) /\ ~ HasData(cache[x])
         cut == {x \in active : HasData(cache[x])}
     IN  calls' = HandedOn(calls \ {c}, cut) \cup
                  {[c EXCEPT !.hooked = TRUE, !.awaits = active, !.awaited = active, !.missed = early]}
  /\ told' = IF c.asOf > told THEN c.asOf ELSE told
  /\ UNCHANGED <<server, page, run, count>>

\* mutant: "Running" is turned off by a success only.
Settle_OnSuccess(c) ==
  /\ (c.hooked /\ c.awaits = {}) \/ c.answer \notin {NULL, 201}
  /\ calls' = calls \ {c}
  /\ IF run.call = c.n /\ c.answer = 201
     THEN Show(place, c.id, cache) /\ run' = NoRun /\ stray' = (c.well # place)
     ELSE UNCHANGED <<cache, place, selected, stray, run>>
  /\ UNCHANGED <<server, past, told, count>>

(* The mutation ends; the page, if still there, selects the prediction.     *)
Settle(c) ==
  /\ (c.hooked /\ c.awaits = {}) \/ c.answer \notin {NULL, 201}
  /\ calls' = calls \ {c}
  /\ CASE run.call # c.n -> UNCHANGED <<cache, place, selected, stray, run>>
       [] run.call = c.n /\ c.answer = 201 ->
            Show(place, c.id, cache) /\ run' = NoRun /\ stray' = (c.well # place)
       [] OTHER -> /\ run' = [call |-> 0, error |-> c.answer]
                   /\ UNCHANGED <<cache, place, selected, stray>>
  /\ UNCHANGED <<server, past, told, count>>

-----------------------------------------------------------------------------

Init ==
  /\ wells = WellIds
  /\ predictions = [i \in PredictionIds |-> NULL]
  /\ next = 1 /\ writes = 0 /\ told = 0
  /\ place = "none" /\ past = History /\ selected = 0 /\ stray = FALSE
  /\ cache = [x \in Keys |-> EmptyEntry]
  /\ run = NoRun /\ calls = {}
  /\ count = [b \in DOMAIN Bounds |-> 0]

Operator ==
  \/ \E p \in Places : selectWell(p) \/ NavBar(p) \/ BackOrForward(p)
  \/ \E i \in PredictionIds : onSelect(i)
  \/ \E input \in Inputs : PredictionForm(input)

Network ==
  \/ \E x \in Keys : ServeGet(x) \/ ReceiveGet(x)
  \/ \E c \in calls : create_prediction(c) \/ useCreatePredictionMutation(c) \/ Settle(c)

Next ==
  \/ Operator
  \/ Network
  \/ \E x \in Keys : FailGet(x) \/ Refetch(x)
  \/ \E c \in calls : LoseCall(c)
  \/ \E w \in WellIds : OtherDeletes(w)

(* Requests are answered: what fails, fails as an answer.                   *)
Spec == Init /\ [][Next]_vars /\ WF_vars(Network)

-----------------------------------------------------------------------------

TypeOK ==
  /\ wells \subseteq WellIds
  /\ \A i \in PredictionIds : predictions[i] # NULL => predictions[i] \in wells /\ i < next
  /\ told \in 0..writes /\ writes < next
  /\ place \in Places /\ past \subseteq Places
  /\ selected \in 0..(next - 1)
  /\ run.error \in {NULL, 0, 422}
  /\ \A c \in calls : c.awaits \subseteq c.awaited

(* After a run of this tab was answered, every list of predictions at rest  *)
(* has it, that of the dashboard included, or will be fetched when used.    *)
ReadsItsWrites ==
  \A x \in Keys : HasData(cache[x]) /\ ~ IsFetching(cache[x]) =>
    \/ cache[x].data.asOf >= told
    \/ cache[x].overtaken
    \/ cache[x].invalid /\ (x \in Active(place, selected) => cache[x].failed)

(* The chart is of the well in the URL, unless Back, Forward or a link came *)
(* after the selection, or the answer did after the well was switched.      *)
ChartIsOfItsWell ==
  PredictionChart # NULL /\ place \in WellIds => PredictionChart = place \/ stray

(* A run that is selected when it is done is in the history beside it,      *)
(* unless it missed the fetch it waited for or is deleted by then.          *)
RunIsInHistory ==
  [][\A c \in calls : /\ selected' = c.id /\ selected' # selected /\ c.n = run.call
                      /\ ListKey(place) \in c.awaited /\ ~ c.missed
                      /\ predictions[c.id] = place
       => c.id \in PredictionHistoryList]_vars

(* The button does not say "Running" for ever.                              *)
RunsEnd == \A n \in 1..MaxRuns : run.call = n ~> run.call # n

(* "One or more is outside an acceptable range": refuted when it is the     *)
(* well that is gone.                                                       *)
InputIsBlamedRightly == \A c \in calls : c.answer = 422 => c.input = "rejected"
=============================================================================
