----------------------- MODULE PredictionsPage_proofs -----------------------
(***************************************************************************)
(* Proofs about PredictionsPage: its types; a list at rest shows the runs  *)
(* this tab knows of; the chart is of the well in the URL; the run that is *)
(* selected when it is done is in the history beside it.                   *)
(***************************************************************************)
EXTENDS PredictionsPage, QueryCache_proofs, FiniteSetTheorems

-----------------------------------------------------------------------------
(* Types.                                                                   *)

Counters == {"visits", "picks", "runs", "events"}

(* Not answered, lost, stored, refused.                                     *)
Answers == {NULL, 0, 201, 422}

CallTypes ==
  [n : Nat, well : WellIds, input : Inputs, answer : Answers, id : Nat, asOf : Nat,
   hooked : BOOLEAN, awaits : SUBSET Keys, awaited : SUBSET Keys, handed : SUBSET Keys,
   missed : BOOLEAN]

ServerTypes ==
  /\ wells \subseteq WellIds
  /\ predictions \in [PredictionIds -> WellIds \cup {NULL}]
  /\ \A i \in PredictionIds : predictions[i] # NULL => predictions[i] \in wells /\ i < next
  /\ writes \in Nat /\ next = writes + 1

CacheTypes == DOMAIN cache = Keys /\ \A x \in Keys : IsEntry(cache[x])

PageTypes ==
  /\ place \in Places /\ past \subseteq Places
  /\ selected \in PredictionIds \cup {0} /\ stray \in BOOLEAN
  /\ run \in [call : Nat, error : {NULL, 0, 422}]
  /\ told \in 0..writes

(* A run has its id once it is stored, and what waits for entries was told. *)
CallFacts(c) ==
  /\ c.n <= count["runs"] /\ c.id <= writes /\ c.asOf <= writes
  /\ c.awaits \subseteq c.awaited
  /\ c.answer = 201 => c.id # 0 /\ c.asOf = c.id /\ c.id \in PredictionIds
  /\ c.hooked => c.answer = 201
  /\ ~ c.hooked => c.awaited = {}

CallTypesInv ==
  /\ calls \subseteq CallTypes /\ IsFiniteSet(calls)
  /\ count \in [Counters -> Nat]
  /\ \A c \in calls : CallFacts(c)
  /\ \A c, d \in calls : c.n = d.n => c = d

(* The form takes an id from the bounded sequence only if one is left for   *)
(* each run that is under way.                                              *)
Unanswered == {c \in calls : c.answer = NULL}
IdsAreLeft == writes + Cardinality(Unanswered) <= Cardinality(PredictionIds)

-----------------------------------------------------------------------------
(* The cache.  Every step does to an entry one of the things of QueryCache. *)

CacheStep(x) ==
  \/ Kept(cache[x], cache'[x])
  \/ Took(cache[x], cache'[x])
  \/ Brought(cache[x], cache'[x], Serve(x)) /\ UNCHANGED server

LEMMA ActiveEntries ==
  ASSUME NEW p \in Places, NEW s \in PredictionIds \cup {0}
  PROVE  Active(p, s) \subseteq Keys
BY DEF Places, Active, Keys

LEMMA ShowCache ==
  ASSUME NEW p, NEW s, NEW c, \A x \in Keys : IsEntry(c[x]), Show(p, s, c)
  PROVE  DOMAIN cache' = Keys /\ \A x \in Keys : Kept(c[x], cache'[x])
BY OperationsKeep DEF Show

LEMMA StepCache ==
  ASSUME CacheTypes, [Next]_vars
  PROVE  DOMAIN cache' = Keys /\ \A x \in Keys : CacheStep(x)
<1> USE DEF CacheTypes
<1>1. ASSUME NEW p \in Places, selectWell(p) \/ NavBar(p) \/ BackOrForward(p)
      PROVE  DOMAIN cache' = Keys /\ \A x \in Keys : CacheStep(x)
  BY <1>1, ShowCache DEF selectWell, NavBar, BackOrForward, CacheStep
<1>2. ASSUME NEW i \in PredictionIds, onSelect(i)
      PROVE  DOMAIN cache' = Keys /\ \A x \in Keys : CacheStep(x)
  BY <1>2, ShowCache DEF onSelect, CacheStep
<1>3. ASSUME NEW x \in Keys, ServeGet(x)
      PROVE  DOMAIN cache' = Keys /\ \A y \in Keys : CacheStep(y)
  <2>1. cache'[x] = [cache[x] EXCEPT !.fetch = Answered(Serve(x))]
    BY <1>3 DEF ServeGet
  <2>2. Brought(cache[x], cache'[x], Serve(x))
    BY <2>1, AnswerBrings
  <2>3. UNCHANGED server /\ \A y \in Keys \ {x} : cache'[y] = cache[y]
    BY <1>3 DEF ServeGet
  <2> QED
    BY <1>3, <2>2, <2>3, OperationsKeep DEF ServeGet, CacheStep
<1>4. ASSUME NEW x \in Keys, ReceiveGet(x)
      PROVE  DOMAIN cache' = Keys /\ \A y \in Keys : CacheStep(y)
  BY <1>4, OperationsKeep, ReceivedTakes DEF ReceiveGet, CacheStep
<1>5. ASSUME NEW x \in Keys, FailGet(x) \/ Refetch(x)
      PROVE  DOMAIN cache' = Keys /\ \A y \in Keys : CacheStep(y)
  BY <1>5, OperationsKeep DEF FailGet, Refetch, CacheStep
<1>6. ASSUME NEW c \in calls, useCreatePredictionMutation(c)
      PROVE  DOMAIN cache' = Keys /\ \A x \in Keys : CacheStep(x)
  <2>1. cache' = [x \in Keys |-> Invalidated(cache[x], x \in Active(place, selected))]
    BY <1>6 DEF useCreatePredictionMutation
  <2>2. \A x \in Keys : Kept(cache[x], Invalidated(cache[x], x \in Active(place, selected)))
    <3> TAKE x \in Keys
    <3>1. (x \in Active(place, selected)) \in BOOLEAN
      OBVIOUS
    <3> QED
      BY <3>1, OperationsKeep
  <2> QED
    BY <2>1, <2>2 DEF CacheStep
<1>7. ASSUME UNCHANGED cache PROVE DOMAIN cache' = Keys /\ \A x \in Keys : CacheStep(x)
  BY <1>7, OperationsKeep DEF CacheStep
<1>8. ASSUME NEW c \in calls, Settle(c)
      PROVE  DOMAIN cache' = Keys /\ \A x \in Keys : CacheStep(x)
  <2>1. UNCHANGED cache \/ Show(place, c.id, cache)
    BY <1>8 DEF Settle
  <2> QED
    BY <1>7, <2>1, ShowCache DEF CacheStep
<1>9. ASSUME NEW c \in calls, create_prediction(c) \/ LoseCall(c) PROVE UNCHANGED cache
  BY <1>9 DEF create_prediction, LoseCall
<1>10. ASSUME NEW input \in Inputs, PredictionForm(input) PROVE UNCHANGED cache
  BY <1>10 DEF PredictionForm
<1>11. ASSUME NEW w \in WellIds, OtherDeletes(w) PROVE UNCHANGED cache
  BY <1>11 DEF OtherDeletes
<1>12. CASE UNCHANGED vars
  BY <1>7, <1>12 DEF vars
<1> QED
  BY <1>1, <1>2, <1>3, <1>4, <1>5, <1>6, <1>7, <1>8, <1>9, <1>10, <1>11, <1>12
     DEF Next, Operator, Network

-----------------------------------------------------------------------------
(* The runs under way.  A step starts one, or does one of four things to    *)
(* each that it does not end.                                               *)

SameRun(c, d) == d \in CallTypes /\ d.n = c.n /\ d.well = c.well

(* It stops waiting for some entries: they arrived, or it missed them.      *)
Waited(c, d) ==
  /\ d.answer = c.answer /\ d.id = c.id /\ d.asOf = c.asOf
  /\ d.hooked = c.hooked /\ d.awaited = c.awaited
  /\ d.awaits \subseteq c.awaits /\ (c.missed => d.missed)
  /\ \A x \in c.awaits \ d.awaits : d.missed \/ Took(cache[x], cache'[x])

(* It is stored.                                                            *)
Stored(c, d) ==
  /\ c.answer = NULL /\ d.answer = 201 /\ d.id = next /\ d.asOf = writes + 1
  /\ d.hooked = c.hooked /\ d.awaits = c.awaits /\ d.awaited = c.awaited
  /\ writes' = writes + 1 /\ predictions' = [predictions EXCEPT ![next] = c.well]

(* It is refused or lost.                                                   *)
Lost(c, d) ==
  /\ d.answer \in {0, 422} /\ d.id = c.id /\ d.asOf = c.asOf
  /\ ~ c.hooked /\ ~ d.hooked /\ d.awaits = c.awaits /\ d.awaited = c.awaited

(* Its answer is heard, and it waits for what was asked of the server then. *)
Hooked(c, d) ==
  /\ c.answer = 201 /\ d.answer = 201 /\ d.id = c.id /\ d.asOf = c.asOf
  /\ d.hooked /\ d.awaits = d.awaited
  /\ d.missed \/ \A x \in d.awaited : cache'[x].fetch = Asked

CallStep(c, d) == SameRun(c, d) /\ (Waited(c, d) \/ Stored(c, d) \/ Lost(c, d) \/ Hooked(c, d))

RunsStep(h) ==
  /\ h \in [calls -> CallTypes] /\ calls' \subseteq {h[c] : c \in calls}
  /\ \A c \in calls : CallStep(c, h[c])
  /\ \/ writes' = writes
     \/ writes' = writes + 1 /\ \E c \in calls : Stored(c, h[c])

(* The fields that the handlers write, and those they leave.                *)
StoredAs(c, a, i, t) == [c EXCEPT !.answer = a, !.id = i, !.asOf = t]
HookedOn(c, S, b) == [c EXCEPT !.hooked = TRUE, !.awaits = S, !.awaited = S, !.missed = b]
WaitingFor(c, S, b) == [c EXCEPT !.awaits = S, !.missed = b]
HandedAs(c, S, T, b) == [c EXCEPT !.awaits = S, !.handed = T, !.missed = b]

LEMMA StoredFields ==
  ASSUME NEW c \in CallTypes, NEW a \in Answers, NEW i \in Nat, NEW t \in Nat,
         NEW d, d = StoredAs(c, a, i, t)
  PROVE  /\ d \in CallTypes /\ d.answer = a /\ d.id = i /\ d.asOf = t
         /\ d.n = c.n /\ d.well = c.well
         /\ d.hooked = c.hooked /\ d.awaits = c.awaits /\ d.awaited = c.awaited
BY DEF CallTypes, StoredAs

LEMMA HookedFields ==
  ASSUME NEW c \in CallTypes, NEW S \in SUBSET Keys, NEW b \in BOOLEAN, NEW d, d = HookedOn(c, S, b)
  PROVE  /\ d \in CallTypes /\ d.hooked /\ d.awaits = S /\ d.awaited = S /\ d.missed = b
         /\ d.n = c.n /\ d.well = c.well /\ d.answer = c.answer /\ d.id = c.id
         /\ d.asOf = c.asOf
BY DEF CallTypes, HookedOn

LEMMA WaitingFields ==
  ASSUME NEW c \in CallTypes, NEW S \in SUBSET Keys, NEW b \in BOOLEAN, NEW d, d = WaitingFor(c, S, b)
  PROVE  /\ d \in CallTypes /\ d.awaits = S /\ d.missed = b
         /\ d.n = c.n /\ d.well = c.well /\ d.answer = c.answer /\ d.id = c.id
         /\ d.asOf = c.asOf /\ d.hooked = c.hooked /\ d.awaited = c.awaited
BY DEF CallTypes, WaitingFor

LEMMA HandedFields ==
  ASSUME NEW c \in CallTypes, NEW S \in SUBSET Keys, NEW T \in SUBSET Keys, NEW b \in BOOLEAN,
         NEW d, d = HandedAs(c, S, T, b)
  PROVE  /\ d \in CallTypes /\ d.awaits = S /\ d.missed = b
         /\ d.n = c.n /\ d.well = c.well /\ d.answer = c.answer /\ d.id = c.id
         /\ d.asOf = c.asOf /\ d.hooked = c.hooked /\ d.awaited = c.awaited
BY DEF CallTypes, HandedAs

LEMMA CallStays ==
  ASSUME NEW c \in CallTypes
  PROVE  CallStep(c, c)
BY DEF CallStep, SameRun, Waited

LEMMA StepReplaces ==
  ASSUME CallTypesInv, NEW c \in calls, NEW d, CallStep(c, d),
         calls' \subseteq (calls \ {c}) \cup {d},
         writes' = writes \/ (writes' = writes + 1 /\ Stored(c, d))
  PROVE  \E h : RunsStep(h)
<1> DEFINE h == [b \in calls |-> IF b = c THEN d ELSE b]
<1>1. \A b \in calls : b \in CallTypes
  BY DEF CallTypesInv
<1>2. \A b \in calls : CallStep(b, h[b]) /\ h[b] \in CallTypes
  BY <1>1, CallStays DEF CallStep, SameRun
<1>3. h \in [calls -> CallTypes]
  BY <1>2
<1>4. h[c] = d /\ \A b \in calls \ {c} : h[b] = b
  OBVIOUS
<1>5. calls' \subseteq {h[b] : b \in calls}
  BY <1>4
<1> HIDE DEF h
<1>6. RunsStep(h)
  BY <1>2, <1>3, <1>4, <1>5 DEF RunsStep
<1> QED
  BY <1>6

LEMMA ResumedRuns ==
  ASSUME CallTypesInv, NEW x, NEW missed \in BOOLEAN, calls' = Resumed(calls, x, missed),
         missed \/ Took(cache[x], cache'[x]), writes' = writes
  PROVE  \E h : RunsStep(h)
<1> DEFINE R(c) == IF x \in c.awaits
                   THEN [c EXCEPT !.awaits = @ \ {x}, !.missed = @ \/ missed] ELSE c
           h == [c \in calls |-> R(c)]
<1>1. ASSUME NEW c \in calls PROVE CallStep(c, R(c)) /\ R(c) \in CallTypes
  <2>1. c \in CallTypes
    BY DEF CallTypesInv
  <2>2. CASE x \notin c.awaits
    BY <2>1, <2>2, CallStays DEF CallStep, SameRun
  <2>3. CASE x \in c.awaits
    <3>1. PICK b \in BOOLEAN :
             b = (c.missed \/ missed) /\ R(c) = WaitingFor(c, c.awaits \ {x}, b)
      BY <2>3 DEF WaitingFor
    <3>2. PICK S \in SUBSET Keys : S = c.awaits \ {x}
      BY <2>1 DEF CallTypes
    <3>3. PICK d : d = R(c)
      OBVIOUS
    <3>4. d = WaitingFor(c, S, b)
      BY <3>1, <3>2, <3>3
    <3>5. /\ d \in CallTypes /\ d.awaits = S /\ d.missed = b
          /\ d.n = c.n /\ d.well = c.well /\ d.answer = c.answer /\ d.id = c.id
          /\ d.asOf = c.asOf /\ d.hooked = c.hooked /\ d.awaited = c.awaited
      BY <2>1, <3>4, WaitingFields
    <3>6. c.missed \/ missed => d.missed
      BY <3>1, <3>5
    <3>7. Waited(c, d)
      BY <3>2, <3>5, <3>6 DEF Waited
    <3> QED
      BY <3>3, <3>5, <3>7 DEF CallStep, SameRun
  <2> QED
    BY <2>2, <2>3
<1>2. calls' = {R(c) : c \in calls}
  BY DEF Resumed
<1>3. \A c \in calls : h[c] = R(c)
  OBVIOUS
<1> HIDE DEF R
<1>4. h \in [calls -> CallTypes]
  BY <1>1
<1> HIDE DEF h
<1>5. RunsStep(h)
  BY <1>1, <1>2, <1>3, <1>4 DEF RunsStep
<1> QED
  BY <1>5

LEMMA CreateRuns ==
  ASSUME ServerTypes, CallTypesInv, NEW c \in calls, create_prediction(c)
  PROVE  \E h : RunsStep(h)
<1>0. c \in CallTypes
  BY DEF CallTypesInv
<1>1. c \in CallTypes /\ c.answer = NULL /\ ~ c.hooked
  <2>1. c.answer = NULL /\ NULL # 201
    BY PredictionsPageAssumption DEF create_prediction
  <2> QED
    BY <2>1 DEF CallTypesInv, CallFacts
<1>2. CASE c.input # "good" \/ c.well \notin wells
  <2> DEFINE d == [c EXCEPT !.answer = 422]
  <2>1. calls' = (calls \ {c}) \cup {d} /\ writes' = writes
    BY <1>2 DEF create_prediction, server
  <2>2. CallStep(c, d)
    BY <1>1 DEF CallStep, SameRun, Lost, CallTypes, Answers
  <2> QED
    BY <2>1, <2>2, StepReplaces
<1>3. CASE ~ (c.input # "good" \/ c.well \notin wells)
  <2> DEFINE d == [c EXCEPT !.answer = 201, !.id = next, !.asOf = writes + 1]
  <2>1. /\ calls' = (calls \ {c}) \cup {d} /\ writes' = writes + 1
        /\ predictions' = [predictions EXCEPT ![next] = c.well]
    BY <1>3 DEF create_prediction
  <2>2. PICK i \in Nat, t \in Nat, a \in Answers :
           i = next /\ t = writes + 1 /\ a = 201
    BY DEF ServerTypes, Answers
  <2>3. PICK e : e = d
    OBVIOUS
  <2>4. e = StoredAs(c, a, i, t)
    BY <2>2, <2>3 DEF StoredAs
  <2> HIDE DEF d
  <2>5. /\ e \in CallTypes /\ e.answer = a /\ e.id = i /\ e.asOf = t
        /\ e.n = c.n /\ e.well = c.well
        /\ e.hooked = c.hooked /\ e.awaits = c.awaits /\ e.awaited = c.awaited
    BY <1>0, <2>4, StoredFields
  <2>6. SameRun(c, e) /\ Stored(c, e)
    BY <1>1, <2>1, <2>2, <2>5 DEF SameRun, Stored
  <2> QED
    BY <2>1, <2>3, <2>6, StepReplaces DEF CallStep
<1> QED
  BY <1>2, <1>3

LEMMA LoseRuns ==
  ASSUME CallTypesInv, NEW c \in calls, LoseCall(c)
  PROVE  \E h : RunsStep(h)
<1> DEFINE d == [c EXCEPT !.answer = 0]
<1>1. calls' = (calls \ {c}) \cup {d} /\ writes' = writes /\ ~ c.hooked
  BY DEF LoseCall, server
<1>2. CallStep(c, d)
  BY <1>1 DEF CallTypesInv, CallStep, SameRun, Lost, CallTypes, Answers
<1> QED
  BY <1>1, <1>2, StepReplaces

LEMMA SettleRuns ==
  ASSUME CallTypesInv, NEW c \in calls, Settle(c)
  PROVE  \E h : RunsStep(h)
<1>1. calls' \subseteq (calls \ {c}) \cup {c} /\ writes' = writes
  BY DEF Settle, server
<1>2. CallStep(c, c)
  BY CallStays DEF CallTypesInv
<1> QED
  BY <1>1, <1>2, StepReplaces

(* An answer that is heard asks anew for every entry in use that has data   *)
(* or is not being fetched; the others are why it may be called missed.     *)
LEMMA MutationRuns ==
  ASSUME CacheTypes, PageTypes, CallTypesInv, NEW c \in calls, useCreatePredictionMutation(c)
  PROVE  \E h : RunsStep(h)
<1> DEFINE active == Active(place, selected)
           early == \E x \in active : IsFetching(cache[x]) /\ ~ HasData(cache[x])
           cut == {x \in active : HasData(cache[x])}
           lost(d) == d.awaits \cap d.handed \cap cut
           R(d) == [d EXCEPT !.awaits = @ \ lost(d), !.handed = @ \cup (d.awaits \cap cut),
                             !.missed = @ \/ lost(d) # {}]
           H == [c EXCEPT !.hooked = TRUE, !.awaits = active, !.awaited = active, !.missed = early]
           h == [d \in calls |-> IF d = c THEN H ELSE R(d)]
<1>1. /\ calls' = {R(d) : d \in calls \ {c}} \cup {H}
      /\ cache' = [x \in Keys |-> Invalidated(cache[x], x \in active)]
      /\ c.answer = 201 /\ writes' = writes
  BY DEF useCreatePredictionMutation, HandedOn, server
<1>2. \A d \in calls : d \in CallTypes
  BY DEF CallTypesInv
<1>3. active \subseteq Keys /\ early \in BOOLEAN
  BY ActiveEntries DEF PageTypes
<1>4. ASSUME NEW d \in calls PROVE CallStep(d, R(d)) /\ R(d) \in CallTypes
  <2>0. d \in CallTypes
    BY <1>2
  <2>1. PICK S \in SUBSET Keys, T \in SUBSET Keys :
           S = d.awaits \ lost(d) /\ T = d.handed \cup (d.awaits \cap cut)
    BY <2>0 DEF CallTypes
  <2>2. PICK b \in BOOLEAN : b = (d.missed \/ lost(d) # {})
    OBVIOUS
  <2>3. PICK e : e = R(d)
    OBVIOUS
  <2>4. e = HandedAs(d, S, T, b)
    BY <2>1, <2>2, <2>3 DEF HandedAs
  <2>5. /\ e \in CallTypes /\ e.awaits = S /\ e.missed = b
        /\ e.n = d.n /\ e.well = d.well /\ e.answer = d.answer /\ e.id = d.id
        /\ e.asOf = d.asOf /\ e.hooked = d.hooked /\ e.awaited = d.awaited
    BY <2>0, <2>4, HandedFields
  <2>6. (d.missed => e.missed) /\ \A x \in d.awaits \ S : e.missed
    <3>1. (d.missed => b) /\ \A x \in d.awaits \ S : b
      BY <2>1, <2>2
    <3> QED
      BY <2>5, <3>1
  <2>7. Waited(d, e)
    BY <2>1, <2>5, <2>6 DEF Waited
  <2> QED
    BY <2>3, <2>5, <2>7 DEF CallStep, SameRun
<1>5. CallStep(c, H) /\ H \in CallTypes
  <2>5. PICK S \in SUBSET Keys, b \in BOOLEAN : S = active /\ b = early
    BY <1>3
  <2>1. PICK e : S = active /\ b = early /\ e = H
    BY <2>5
  <2>0. e = HookedOn(c, S, b)
    BY <2>1 DEF HookedOn
  <2> HIDE DEF active, early, H
  <2>2. /\ e \in CallTypes /\ e.n = c.n /\ e.well = c.well /\ e.answer = c.answer
        /\ e.id = c.id /\ e.asOf = c.asOf
        /\ e.hooked /\ e.awaits = S /\ e.awaited = S /\ e.missed = b
    BY <1>2, <2>0, HookedFields
  <2>3. early \/ \A x \in active : cache'[x].fetch = Asked
    <3>1. ASSUME ~ early, NEW x \in active PROVE cache'[x].fetch = Asked
      <4>0. x \in Keys /\ x \in active
        BY <1>3, <3>1
      <4>1. cache'[x] = Invalidated(cache[x], TRUE) /\ IsEntry(cache[x])
        <5>1. cache' = [y \in Keys |-> Invalidated(cache[y], y \in active)]
          BY <1>1
        <5>2. (x \in active) = TRUE
          BY <4>0
        <5> QED
          BY <4>0, <5>1, <5>2 DEF CacheTypes
      <4>2. ~ IsFetching(cache[x]) \/ HasData(cache[x])
        BY <3>1 DEF early
      <4> QED
        BY <4>1, <4>2, InvalidatedFields
    <3> QED
      BY <3>1
  <2>4. Hooked(c, e)
    <3>1. c.answer = 201
      BY <1>1
    <3>2. b \/ \A x \in S : cache'[x].fetch = Asked
      BY <2>1, <2>3
    <3> QED
      BY <2>2, <3>1, <3>2 DEF Hooked
  <2> QED
    BY <2>1, <2>2, <2>4 DEF CallStep, SameRun
<1> HIDE DEF R, H
<1>6. \A d \in calls : CallStep(d, h[d]) /\ h[d] \in CallTypes
  BY <1>4, <1>5
<1>7. h \in [calls -> CallTypes]
  BY <1>6
<1>8. h[c] = H /\ \A d \in calls \ {c} : h[d] = R(d)
  OBVIOUS
<1> HIDE DEF h
<1>9. RunsStep(h)
  BY <1>1, <1>6, <1>7, <1>8 DEF RunsStep
<1> QED
  BY <1>9

(* Every step but the form's.                                               *)
LEMMA StepRuns ==
  ASSUME ServerTypes, CacheTypes, PageTypes, CallTypesInv, [Next]_vars,
         \A input \in Inputs : ~ PredictionForm(input)
  PROVE  \E h : RunsStep(h)
<1>1. ASSUME UNCHANGED <<calls, writes>> PROVE \E h : RunsStep(h)
  <2> DEFINE h == [c \in calls |-> c]
  <2>1. h \in [calls -> CallTypes]
    BY DEF CallTypesInv
  <2>2. \A c \in calls : h[c] = c /\ CallStep(c, c)
    BY CallStays DEF CallTypesInv
  <2> HIDE DEF h
  <2>3. RunsStep(h)
    BY <1>1, <2>1, <2>2 DEF RunsStep
  <2> QED
    BY <2>3
<1>2. ASSUME NEW p \in Places, selectWell(p) \/ NavBar(p) \/ BackOrForward(p)
      PROVE  UNCHANGED <<calls, writes>>
  BY <1>2 DEF selectWell, NavBar, BackOrForward, Went, server
<1>3. ASSUME NEW i \in PredictionIds, onSelect(i) PROVE UNCHANGED <<calls, writes>>
  BY <1>3 DEF onSelect, server
<1>4. ASSUME NEW x \in Keys, ServeGet(x) \/ Refetch(x) PROVE UNCHANGED <<calls, writes>>
  BY <1>4 DEF ServeGet, Refetch, server
<1>5. ASSUME NEW x \in Keys, ReceiveGet(x) PROVE \E h : RunsStep(h)
  <2> DEFINE gone == cache[x].fetch.answer.got = NULL
  <2>1. calls' = Resumed(calls, x, gone) /\ writes' = writes /\ gone \in BOOLEAN
    BY <1>5 DEF ReceiveGet, server
  <2>2. gone \/ Took(cache[x], cache'[x])
    BY <1>5, ReceivedTakes DEF ReceiveGet, CacheTypes
  <2> HIDE DEF gone
  <2> QED
    BY <2>1, <2>2, ResumedRuns
<1>6. ASSUME NEW x \in Keys, FailGet(x) PROVE \E h : RunsStep(h)
  BY <1>6, ResumedRuns DEF FailGet, server
<1>7. ASSUME NEW w \in WellIds, OtherDeletes(w) PROVE UNCHANGED <<calls, writes>>
  BY <1>7 DEF OtherDeletes
<1>8. CASE UNCHANGED vars
  BY <1>1, <1>8 DEF vars, server
<1> QED
  BY <1>1, <1>2, <1>3, <1>4, <1>5, <1>6, <1>7, <1>8, CreateRuns, LoseRuns, SettleRuns,
     MutationRuns DEF Next, Operator, Network
-----------------------------------------------------------------------------
(* The types are kept.                                                      *)

LEMMA ImageOfFinite ==
  ASSUME NEW S, IsFiniteSet(S), NEW h, NEW T, T \subseteq {h[c] : c \in S}
  PROVE  IsFiniteSet(T) /\ Cardinality(T) <= Cardinality(S)
<1> DEFINE U == {h[c] : c \in S}
           f == [c \in S |-> h[c]]
<1>1. f \in Surjection(S, U)
  BY DEF Surjection
<1> HIDE DEF U, f
<1>2. IsFiniteSet(U) /\ Cardinality(U) <= Cardinality(S)
  BY <1>1, FS_Surjection
<1>3. IsFiniteSet(T) /\ Cardinality(T) <= Cardinality(U)
  <2>1. T \in SUBSET U
    BY DEF U
  <2> QED
    BY <1>2, <2>1, FS_Subset
<1>4. Cardinality(S) \in Nat /\ Cardinality(T) \in Nat /\ Cardinality(U) \in Nat
  BY <1>2, <1>3, FS_CardinalityType
<1> QED
  BY <1>2, <1>3, <1>4

TypeInv == ServerTypes /\ CacheTypes /\ PageTypes /\ CallTypesInv /\ IdsAreLeft

(* A run is stored only while an id is left for it.                         *)
LEMMA NextIsAnId ==
  ASSUME TypeInv, NEW c \in calls, c.answer = NULL
  PROVE  next \in PredictionIds
<1>1. c \in Unanswered /\ IsFiniteSet(Unanswered)
  <2>1. Unanswered \in SUBSET calls /\ IsFiniteSet(calls)
    BY DEF TypeInv, CallTypesInv, Unanswered
  <2> QED
    BY <2>1, FS_Subset DEF Unanswered
<1>2. Cardinality(Unanswered) \in Nat /\ Cardinality(Unanswered) # 0
  BY <1>1, FS_CardinalityType, FS_EmptySet
<1>3. Cardinality(PredictionIds) \in Nat /\ PredictionIds = 1..Cardinality(PredictionIds)
  BY PredictionsPageAssumption, FS_CardinalityType
<1> QED
  BY <1>2, <1>3 DEF TypeInv, ServerTypes, IdsAreLeft

LEMMA CountersType ==
  ASSUME count \in [Counters -> Nat], [Next]_vars
  PROVE  count' \in [Counters -> Nat] /\ count["runs"] <= count'["runs"]
<1>1. ASSUME NEW b \in Counters, Counted(b)
      PROVE  count' \in [Counters -> Nat] /\ count["runs"] <= count'["runs"]
  <2>1. count[b] \in Nat /\ count' = [count EXCEPT ![b] = count[b] + 1]
    BY <1>1 DEF Counted
  <2> QED
    BY <2>1 DEF Counters
<1>2. Counted("visits") \/ Counted("picks") \/ Counted("runs") \/ Counted("events") \/ UNCHANGED count
  BY DEF Next, Operator, Network, selectWell, NavBar, BackOrForward, Went, onSelect,
     PredictionForm, ServeGet, ReceiveGet, FailGet, Refetch, create_prediction,
     useCreatePredictionMutation, Settle, LoseCall, OtherDeletes, vars
<1> QED
  BY <1>1, <1>2 DEF Counters

LEMMA ServerTypesStep ==
  ASSUME TypeInv, [Next]_vars
  PROVE  ServerTypes'
<1> USE DEF TypeInv
<1>1. ASSUME NEW c \in calls, create_prediction(c) PROVE ServerTypes'
  <2>1. CASE UNCHANGED server
    BY <2>1 DEF ServerTypes, server
  <2>2. CASE ~ UNCHANGED server
    <3>1. /\ predictions' = [predictions EXCEPT ![next] = c.well] /\ c.well \in wells
          /\ next' = next + 1 /\ writes' = writes + 1 /\ wells' = wells /\ c.answer = NULL
      BY <1>1, <2>2 DEF create_prediction
    <3>2. next \in PredictionIds
      BY <3>1, NextIsAnId
    <3>3. c.well \in WellIds
      BY DEF CallTypesInv, CallTypes
    <3>4. PredictionIds \subseteq Int
      BY PredictionsPageAssumption, FS_CardinalityType
    <3>5. PICK n \in PredictionIds, w \in WellIds, f \in [PredictionIds -> WellIds \cup {NULL}] :
             n = next /\ w = c.well /\ f = predictions
      BY <3>2, <3>3 DEF ServerTypes
    <3>6. predictions' = [f EXCEPT ![n] = w]
      BY <3>1, <3>5
    <3>7. \A i \in PredictionIds : predictions'[i] = IF i = n THEN w ELSE f[i]
      BY <3>6
    <3>8. \A i \in PredictionIds : predictions'[i] # NULL => predictions'[i] \in wells /\ i < n + 1
      <4>1. \A i \in PredictionIds : f[i] # NULL => f[i] \in wells /\ i < n
        BY <3>5 DEF ServerTypes
      <4>2. w \in wells /\ n \in Int
        BY <3>1, <3>4, <3>5
      <4> QED
        BY <3>4, <3>7, <4>1, <4>2
    <3>9. predictions' \in [PredictionIds -> WellIds \cup {NULL}]
      BY <3>5, <3>6
    <3> QED
      BY <3>1, <3>5, <3>8, <3>9 DEF ServerTypes
  <2> QED
    BY <2>1, <2>2
<1>2. ASSUME NEW w \in WellIds, OtherDeletes(w) PROVE ServerTypes'
  <2>1. \A i \in PredictionIds : predictions'[i] # NULL
          => predictions'[i] = predictions[i] /\ predictions[i] # w
    BY <1>2 DEF OtherDeletes
  <2> QED
    BY <1>2, <2>1 DEF OtherDeletes, ServerTypes
<1>3. CASE UNCHANGED server
  BY <1>3 DEF ServerTypes, server
<1> QED
  BY <1>1, <1>2, <1>3 DEF Next, Operator, Network, selectWell, NavBar, BackOrForward, Went, onSelect,
     PredictionForm, ServeGet, ReceiveGet, FailGet, Refetch, useCreatePredictionMutation, Settle,
     LoseCall, vars

LEMMA PageTypesStep ==
  ASSUME TypeInv, [Next]_vars
  PROVE  PageTypes'
<1> USE DEF TypeInv
<1>1. writes <= writes' /\ writes' \in Nat
  <2>1. writes' \in {writes, writes + 1}
    BY DEF Next, Operator, Network, selectWell, NavBar, BackOrForward, Went, onSelect,
       PredictionForm, ServeGet, ReceiveGet, FailGet, Refetch, useCreatePredictionMutation, Settle,
       LoseCall, OtherDeletes, create_prediction, vars, server
  <2> QED
    BY <2>1 DEF ServerTypes
<1>2. ASSUME NEW p \in Places, selectWell(p) \/ NavBar(p) \/ BackOrForward(p) PROVE PageTypes'
  <2>1. /\ place' = p /\ selected' \in {0, selected} /\ stray' \in BOOLEAN
        /\ past' = past \cup {place} /\ run' \in {NoRun, run} /\ told' = told
    BY <1>2 DEF selectWell, NavBar, BackOrForward, Show, Went
  <2>2. NoRun \in [call : Nat, error : {NULL, 0, 422}]
    BY DEF NoRun
  <2> QED
    BY <1>1, <2>1, <2>2 DEF PageTypes, ServerTypes
<1>3. ASSUME NEW i \in PredictionIds, onSelect(i) PROVE PageTypes'
  <2>1. /\ place' = place /\ selected' = i /\ past' = past /\ run' = run /\ told' = told
        /\ stray' \in BOOLEAN
    BY <1>3 DEF onSelect, Show
  <2> QED
    BY <1>1, <2>1 DEF PageTypes, ServerTypes
<1>4. ASSUME NEW input \in Inputs, PredictionForm(input) PROVE PageTypes'
  <2>1. count["runs"] + 1 \in Nat
    BY DEF CallTypesInv, Counters
  <2> QED
    BY <1>1, <1>4, <2>1 DEF PredictionForm, PageTypes, page, ServerTypes
<1>5. ASSUME NEW c \in calls, useCreatePredictionMutation(c) PROVE PageTypes'
  <2>1. c.asOf \in Nat /\ c.asOf <= writes
    BY DEF CallTypesInv, CallFacts, CallTypes
  <2> QED
    <3>1. told' \in {c.asOf, told}
      BY <1>5 DEF useCreatePredictionMutation
    <3>2. told' \in 0..writes'
      BY <1>1, <2>1, <3>1 DEF PageTypes, ServerTypes
    <3>3. UNCHANGED <<place, past, selected, stray, run>>
      BY <1>5 DEF useCreatePredictionMutation, page
    <3> QED
      BY <3>2, <3>3 DEF PageTypes
<1>6. ASSUME NEW c \in calls, Settle(c) PROVE PageTypes'
  <2>1. c.answer \in Answers /\ CallFacts(c)
    BY DEF CallTypesInv, CallTypes
  <2>2. told' = told /\ past' = past
    BY <1>6 DEF Settle
  <2>3. CASE UNCHANGED <<place, selected, stray, run>>
    BY <1>1, <2>2, <2>3 DEF PageTypes, ServerTypes
  <2>4. CASE c.answer = 201 /\ Show(place, c.id, cache) /\ run' = NoRun /\ stray' = (c.well # place)
    <3>1. c.id \in PredictionIds
      BY <2>1, <2>4 DEF CallFacts
    <3>2. NoRun \in [call : Nat, error : {NULL, 0, 422}]
      BY DEF NoRun
    <3> QED
      BY <1>1, <2>2, <2>4, <3>1, <3>2 DEF PageTypes, ServerTypes, Show
  <2>5. CASE /\ c.answer # 201 /\ run' = [call |-> 0, error |-> c.answer]
             /\ UNCHANGED <<place, selected, stray>>
    <3>1. c.answer \in {NULL, 0, 422}
      BY <2>1, <2>5 DEF Answers
    <3> QED
      BY <1>1, <2>2, <2>5, <3>1 DEF PageTypes, ServerTypes
  <2> QED
    BY <1>6, <2>3, <2>4, <2>5 DEF Settle
<1>7. CASE UNCHANGED <<page, run, told>>
  BY <1>1, <1>7 DEF PageTypes, page, ServerTypes
<1> QED
  BY <1>2, <1>3, <1>4, <1>5, <1>6, <1>7 DEF Next, Operator, Network, ServeGet, ReceiveGet, FailGet,
     Refetch, create_prediction, LoseCall, OtherDeletes, vars

(* The run that the form starts.                                            *)
Asking(n, w, input) ==
  [n |-> n, well |-> w, input |-> input, answer |-> NULL, id |-> 0, asOf |-> 0, hooked |-> FALSE,
   awaits |-> {}, awaited |-> {}, handed |-> {}, missed |-> FALSE]

LEMMA FormAsks ==
  ASSUME TypeInv, NEW input \in Inputs, PredictionForm(input)
  PROVE  \E d \in CallTypes :
           /\ calls' = calls \cup {d} /\ count'["runs"] = count["runs"] + 1
           /\ d.n = count'["runs"] /\ d.answer = NULL /\ d.id = 0 /\ d.asOf = 0
           /\ ~ d.hooked /\ d.awaits = {} /\ d.awaited = {}
<1> USE DEF TypeInv
<1>1. PICK n \in Nat : n = count["runs"] + 1
  BY DEF CallTypesInv, Counters
<1>2. PICK w \in WellIds : w = place
  BY DEF PredictionForm
<1>3. calls' = calls \cup {Asking(n, w, input)}
  BY <1>1, <1>2 DEF PredictionForm, Asking
<1>4. count'["runs"] = n
  BY <1>1 DEF PredictionForm, Counted, CallTypesInv, Counters
<1>5. /\ Asking(n, w, input) \in CallTypes
      /\ Asking(n, w, input).n = n /\ Asking(n, w, input).answer = NULL
      /\ Asking(n, w, input).id = 0 /\ Asking(n, w, input).asOf = 0
      /\ ~ Asking(n, w, input).hooked /\ Asking(n, w, input).awaits = {}
      /\ Asking(n, w, input).awaited = {}
  BY DEF Asking, CallTypes, Answers
<1> QED
  BY <1>1, <1>3, <1>4, <1>5

LEMMA CallTypesStep ==
  ASSUME TypeInv, [Next]_vars
  PROVE  CallTypesInv'
<1> USE DEF TypeInv
<1>1. /\ count' \in [Counters -> Nat]
      /\ count["runs"] \in Nat /\ count'["runs"] \in Nat /\ count["runs"] <= count'["runs"]
  BY CountersType DEF CallTypesInv, Counters
<1>2. ASSUME NEW input \in Inputs, PredictionForm(input) PROVE CallTypesInv'
  <2>1. PICK d \in CallTypes :
           /\ calls' = calls \cup {d} /\ count'["runs"] = count["runs"] + 1
           /\ d.n = count'["runs"] /\ d.answer = NULL /\ d.id = 0 /\ d.asOf = 0
           /\ ~ d.hooked /\ d.awaits = {} /\ d.awaited = {}
    BY <1>2, FormAsks
  <2>2. calls' \subseteq CallTypes /\ IsFiniteSet(calls')
    BY <2>1, FS_AddElement DEF CallTypesInv
  <2>3. writes' = writes /\ writes \in Nat
    BY <1>2 DEF PredictionForm, server, ServerTypes
  <2>4. d.answer # 201
    BY <2>1, PredictionsPageAssumption
  <2>5. CallFacts(d)'
    BY <1>1, <2>1, <2>3, <2>4 DEF CallFacts
  <2>6. ASSUME NEW c \in calls PROVE CallFacts(c)' /\ c.n # d.n
    <3>1. c.n \in Nat /\ CallFacts(c)
      BY DEF CallTypesInv, CallTypes
    <3>2. c.n <= count'["runs"] /\ c.n # d.n
      BY <1>1, <2>1, <3>1 DEF CallFacts
    <3> QED
      BY <2>3, <3>1, <3>2 DEF CallFacts
  <2>7. \A b, c \in calls : b.n = c.n => b = c
    BY DEF CallTypesInv
  <2>8. \A b, c \in calls' : b.n = c.n => b = c
    BY <2>1, <2>6, <2>7
  <2>9. \A c \in calls' : CallFacts(c)'
    BY <2>1, <2>5, <2>6
  <2> QED
    BY <1>1, <2>2, <2>8, <2>9 DEF CallTypesInv
<1>3. CASE \A input \in Inputs : ~ PredictionForm(input)
  <2>1. PICK h : RunsStep(h)
    BY <1>3, StepRuns
  <2>2. calls' \subseteq CallTypes
    BY <2>1 DEF RunsStep
  <2>3. IsFiniteSet(calls')
    BY <2>1, ImageOfFinite DEF CallTypesInv, RunsStep
  <2>4. \A c, d \in calls : h[c].n = h[d].n => h[c] = h[d]
    BY <2>1 DEF RunsStep, CallStep, SameRun, CallTypesInv
  <2>5. \A c, d \in calls' : c.n = d.n => c = d
    BY <2>1, <2>4 DEF RunsStep
  <2>6. ASSUME NEW c \in calls, NEW d, d = h[c] PROVE CallFacts(d)'
    <3>1. CallStep(c, d) /\ c \in CallTypes /\ d \in CallTypes /\ CallFacts(c)
      BY <2>1, <2>6 DEF RunsStep, CallStep, SameRun, CallTypesInv
    <3>2. writes \in Nat /\ writes' \in Nat /\ writes <= writes' /\ next = writes + 1
      BY <2>1 DEF RunsStep, ServerTypes
    <3>3. c.n \in Nat /\ c.id \in Nat /\ c.asOf \in Nat
      BY <3>1 DEF CallTypes
    <3>4. d.n <= count'["runs"]
      BY <1>1, <3>1, <3>3 DEF CallStep, SameRun, CallFacts
    <3>5. CASE Waited(c, d)
      BY <3>1, <3>2, <3>3, <3>4, <3>5 DEF Waited, CallFacts
    <3>6. CASE Stored(c, d)
      <4>1. next \in PredictionIds
        BY <3>6, NextIsAnId DEF Stored
      <4>2. d.id = writes' /\ d.asOf = writes' /\ d.id # 0 /\ d.id \in PredictionIds
        BY <3>2, <3>6, <4>1 DEF Stored
      <4>3. ~ c.hooked
        <5>1. c.answer # 201
          BY <3>6, PredictionsPageAssumption DEF Stored
        <5> QED
          BY <3>1, <5>1 DEF CallFacts
      <4>4. ~ d.hooked /\ d.awaits \subseteq d.awaited /\ d.awaited = {}
        BY <3>1, <3>6, <4>3 DEF Stored, CallFacts
      <4> QED
        BY <3>2, <3>4, <4>2, <4>4 DEF CallFacts
    <3>7. CASE Lost(c, d)
      <4>1. d.answer # 201 /\ ~ d.hooked /\ d.awaited = {} /\ d.awaits \subseteq d.awaited
        BY <3>1, <3>7 DEF Lost, CallFacts
      <4>2. d.id <= writes' /\ d.asOf <= writes'
        BY <3>1, <3>2, <3>3, <3>7 DEF Lost, CallFacts
      <4> QED
        BY <3>4, <4>1, <4>2 DEF CallFacts
    <3>8. CASE Hooked(c, d)
      BY <3>1, <3>2, <3>3, <3>4, <3>8 DEF Hooked, CallFacts
    <3> QED
      BY <3>1, <3>5, <3>6, <3>7, <3>8 DEF CallStep
  <2>7. \A c \in calls' : CallFacts(c)'
    BY <2>1, <2>6 DEF RunsStep
  <2> QED
    BY <1>1, <2>2, <2>3, <2>5, <2>7 DEF CallTypesInv
<1> QED
  BY <1>2, <1>3

LEMMA IdsAreLeftStep ==
  ASSUME TypeInv, [Next]_vars
  PROVE  IdsAreLeft'
<1> USE DEF TypeInv
<1> DEFINE N == Cardinality(PredictionIds)
<1>1. writes \in Nat /\ N \in Nat /\ PredictionIds = 1..N
  BY PredictionsPageAssumption, FS_CardinalityType DEF ServerTypes
<1>2. IsFiniteSet(calls) /\ IsFiniteSet(calls') /\ IsFiniteSet(Unanswered) /\ IsFiniteSet(Unanswered')
  <2>1. IsFiniteSet(calls) /\ IsFiniteSet(calls')
    BY CallTypesStep DEF CallTypesInv
  <2>2. Unanswered \in SUBSET calls /\ Unanswered' \in SUBSET calls'
    BY DEF Unanswered
  <2> QED
    BY <2>1, <2>2, FS_Subset
<1>3. /\ Cardinality(calls) \in Nat /\ Cardinality(Unanswered) \in Nat
      /\ Cardinality(Unanswered') \in Nat
  BY <1>2, FS_CardinalityType
<1>4. ASSUME NEW input \in Inputs, PredictionForm(input) PROVE IdsAreLeft'
  <2>1. PICK d : calls' = calls \cup {d}
    BY <1>4, FormAsks
  <2>2. Cardinality(Unanswered') <= Cardinality(calls')
    <3>1. Unanswered' \in SUBSET calls'
      BY DEF Unanswered
    <3> QED
      BY <1>2, <3>1, FS_Subset
  <2>3. Cardinality(calls') <= Cardinality(calls) + 1
    BY <1>2, <1>3, <2>1, FS_AddElement
  <2>4. writes' = writes /\ next + Cardinality(calls) <= N /\ next = writes + 1
    BY <1>1, <1>4 DEF PredictionForm, server, ServerTypes
  <2>5. Cardinality(calls') \in Nat
    BY <1>2, FS_CardinalityType
  <2> HIDE DEF N
  <2>6. writes' + Cardinality(Unanswered') <= N
    BY <1>1, <1>3, <2>2, <2>3, <2>4, <2>5
  <2> QED
    BY <2>6 DEF IdsAreLeft, N
<1>5. CASE \A input \in Inputs : ~ PredictionForm(input)
  <2>1. PICK h : RunsStep(h)
    BY <1>5, StepRuns
  <2>2. \A c \in calls : h[c].answer = NULL => c.answer = NULL
    BY <2>1, PredictionsPageAssumption DEF RunsStep, CallStep, Waited, Stored, Lost, Hooked
  <2>3. Unanswered' \subseteq {h[c] : c \in Unanswered}
    BY <2>1, <2>2 DEF Unanswered, RunsStep
  <2>4. Cardinality(Unanswered') <= Cardinality(Unanswered)
    BY <1>2, <2>3, ImageOfFinite
  <2>5. CASE writes' = writes
    BY <1>1, <1>3, <2>4, <2>5 DEF IdsAreLeft
  <2>6. CASE writes' # writes
    <3>1. PICK c \in calls : Stored(c, h[c]) /\ writes' = writes + 1
      BY <2>1, <2>6 DEF RunsStep
    <3>2. c \in Unanswered /\ h[c].answer # NULL
      BY <3>1, PredictionsPageAssumption DEF Stored, Unanswered
    <3>3. Unanswered' \subseteq {h[d] : d \in Unanswered \ {c}}
      <4>1. \A d \in Unanswered' : d.answer = NULL
        BY DEF Unanswered
      <4> QED
        BY <2>3, <3>2, <4>1
    <3>4. IsFiniteSet(Unanswered \ {c}) /\ Cardinality(Unanswered \ {c}) = Cardinality(Unanswered) - 1
      BY <1>2, <3>2, FS_RemoveElement
    <3>5. Cardinality(Unanswered') <= Cardinality(Unanswered \ {c})
      BY <3>3, <3>4, ImageOfFinite
    <3> QED
      BY <1>1, <1>3, <3>1, <3>4, <3>5 DEF IdsAreLeft
  <2> QED
    BY <2>5, <2>6
<1> QED
  BY <1>4, <1>5

LEMMA CacheTypesStep ==
  ASSUME TypeInv, [Next]_vars
  PROVE  CacheTypes'
BY StepCache DEF TypeInv, CacheTypes, CacheStep, Kept, Took, Brought

LEMMA TypeInvInit ==
  ASSUME Init
  PROVE  TypeInv
<1> USE DEF Init
<1>1. ServerTypes
  BY DEF ServerTypes
<1>2. CacheTypes
  BY DEF CacheTypes, IsEntry, EmptyEntry, Entry, Idle
<1>3. PageTypes
  <2>1. place \in Places /\ past \subseteq Places
    BY PredictionsPageAssumption DEF Places
  <2>2. told \in 0..writes
    OBVIOUS
  <2>3. run \in [call : Nat, error : {NULL, 0, 422}]
    BY DEF NoRun
  <2> QED
    BY <2>1, <2>2, <2>3 DEF PageTypes
<1>4. count \in [Counters -> Nat]
  BY DEF Counters, Bounds
<1>5. CallTypesInv
  BY <1>4, FS_EmptySet DEF CallTypesInv
<1>6. IdsAreLeft
  <2>1. Unanswered = {}
    BY DEF Unanswered
  <2> QED
    BY <2>1, PredictionsPageAssumption, FS_EmptySet, FS_CardinalityType DEF IdsAreLeft
<1> QED
  BY <1>1, <1>2, <1>3, <1>5, <1>6 DEF TypeInv

LEMMA TypeInvStep ==
  ASSUME TypeInv, [Next]_vars
  PROVE  TypeInv'
BY ServerTypesStep, CacheTypesStep, PageTypesStep, CallTypesStep, IdsAreLeftStep DEF TypeInv

-----------------------------------------------------------------------------
(* What the cache holds are answers the server gave: of runs stored by      *)
(* then, and a list has every run of its well stored by then that is still  *)
(* there.                                                                   *)

Responses == [got : (SUBSET PredictionIds) \cup WellIds \cup {NULL}, asOf : Nat]

ResponseFacts(x, d) ==
  /\ d \in Responses /\ d.asOf <= writes
  /\ x[1] = "list" => d.got \subseteq 1..writes
  /\ x[1] = "detail" /\ d.got # NULL => x[2] <= writes
  /\ \A w \in WellIds : x = ListKey(w) =>
       \A i \in PredictionIds : predictions[i] = w /\ i <= d.asOf => i \in d.got

DataInv == \A x \in Keys : \A d \in Holds(cache[x]) : ResponseFacts(x, d)

LEMMA ServesFacts ==
  ASSUME ServerTypes, NEW x \in Keys
  PROVE  ResponseFacts(x, Serve(x))
<1> DEFINE d == Serve(x)
<1>1. \A i \in PredictionIds : predictions[i] # NULL => i \in 1..writes
  BY PredictionsPageAssumption, FS_CardinalityType DEF ServerTypes
<1>2. \A i \in PredictionIds : predictions[i] \in WellIds \cup {NULL}
  BY DEF ServerTypes
<1>3. x[1] = "list" => d.got = list_predictions(x[2])
  BY DEF Serve
<1>4. x[1] # "list" => d.got = predictions[x[2]]
  BY DEF Serve, get_prediction
<1>5. \A y : list_predictions(y) \subseteq 1..writes /\ list_predictions(y) \subseteq PredictionIds
  BY <1>1 DEF list_predictions
<1>6. x[1] = "detail" => x[2] \in PredictionIds
  BY DEF Keys, ListKey, AllKey, DetailKey
<1>7. x[1] \in {"list", "detail"}
  BY DEF Keys, ListKey, AllKey, DetailKey
<1>8. d.got \in (SUBSET PredictionIds) \cup WellIds \cup {NULL}
  BY <1>2, <1>3, <1>4, <1>5, <1>6, <1>7
<1>9. d \in Responses /\ d.asOf <= writes
  <2>1. d.asOf = writes /\ writes \in Nat
    BY DEF Serve, ServerTypes
  <2>2. d = [got |-> d.got, asOf |-> d.asOf]
    BY DEF Serve
  <2> HIDE DEF d
  <2> QED
    BY <1>8, <2>1, <2>2 DEF Responses
<1>10. ASSUME NEW w \in WellIds, x = ListKey(w), NEW i \in PredictionIds, predictions[i] = w
       PROVE  i \in d.got
  <2>1. x[1] = "list" /\ x[2] = w
    BY <1>10 DEF ListKey
  <2>2. w # NULL
    BY PredictionsPageAssumption
  <2>3. i \in list_predictions(w)
    BY <1>10, <2>2 DEF list_predictions
  <2> QED
    BY <1>3, <2>1, <2>3
<1>11. x[1] = "list" => d.got \subseteq 1..writes
  BY <1>3, <1>5
<1>12. x[1] = "detail" /\ d.got # NULL => x[2] <= writes
  BY <1>1, <1>4, <1>6 DEF ServerTypes
<1> HIDE DEF d
<1>13. ResponseFacts(x, d)
  BY <1>9, <1>10, <1>11, <1>12 DEF ResponseFacts
<1> QED
  BY <1>13 DEF d

(* What the server does later does not make a response wrong.               *)
LEMMA FactsStay ==
  ASSUME TypeInv, [Next]_vars, NEW x \in Keys, NEW d, ResponseFacts(x, d)
  PROVE  ResponseFacts(x, d)'
<1> USE DEF TypeInv
<1>1. ASSUME writes' \in {writes, writes + 1},
             \A i \in PredictionIds : i <= d.asOf =>
               \A w \in WellIds : predictions'[i] = w => predictions[i] = w
      PROVE  ResponseFacts(x, d)'
  <2>1. writes \in Nat /\ writes' \in Nat /\ writes <= writes'
    BY <1>1 DEF ServerTypes
  <2>2. d.asOf \in Nat
    BY DEF ResponseFacts, Responses
  <2>3. d.asOf <= writes'
    BY <2>1, <2>2 DEF ResponseFacts
  <2>4. x[1] = "list" => d.got \subseteq 1..writes'
    BY <2>1 DEF ResponseFacts
  <2>5. x[1] = "detail" /\ d.got # NULL => x[2] <= writes'
    <3>1. x[1] = "detail" => x[2] \in Int
      BY PredictionsPageAssumption, FS_CardinalityType DEF Keys, ListKey, AllKey, DetailKey
    <3> QED
      BY <2>1, <3>1 DEF ResponseFacts
  <2> QED
    BY <1>1, <2>3, <2>4, <2>5 DEF ResponseFacts
<1>2. ASSUME NEW c \in calls, create_prediction(c) PROVE ResponseFacts(x, d)'
  <2>1. CASE UNCHANGED server
    BY <1>1, <2>1 DEF server
  <2>2. CASE predictions' = [predictions EXCEPT ![next] = c.well] /\ writes' = writes + 1
    <3>1. d.asOf < next
      BY DEF ServerTypes, ResponseFacts, Responses
    <3>2. \A i \in PredictionIds : i <= d.asOf => predictions'[i] = predictions[i]
      BY <2>2, <3>1, PredictionsPageAssumption, FS_CardinalityType DEF ServerTypes, ResponseFacts, Responses
    <3> QED
      BY <1>1, <2>2, <3>2
  <2> QED
    BY <1>2, <2>1, <2>2 DEF create_prediction
<1>3. ASSUME NEW w \in WellIds, OtherDeletes(w) PROVE ResponseFacts(x, d)'
  <2>1. \A i \in PredictionIds, v \in WellIds : predictions'[i] = v => predictions[i] = v
    BY <1>3, PredictionsPageAssumption DEF OtherDeletes
  <2> QED
    BY <1>1, <1>3, <2>1 DEF OtherDeletes
<1>4. CASE UNCHANGED server
  BY <1>1, <1>4 DEF server
<1> QED
  BY <1>2, <1>3, <1>4 DEF Next, Operator, Network, selectWell, NavBar, BackOrForward, Went, onSelect,
     PredictionForm, ServeGet, ReceiveGet, FailGet, Refetch, useCreatePredictionMutation, Settle,
     LoseCall, vars

LEMMA HoldsStep ==
  ASSUME CacheTypes, [Next]_vars, NEW x \in Keys, NEW d \in Holds(cache'[x])
  PROVE  d \in Holds(cache[x]) \/ (d = Serve(x) /\ UNCHANGED server)
<1>1. PICK e, f, s : e = cache[x] /\ f = cache'[x] /\ s = Serve(x)
  OBVIOUS
<1>2. Kept(e, f) \/ Took(e, f) \/ (Brought(e, f, s) /\ UNCHANGED server)
  BY <1>1, StepCache DEF CacheStep
<1>3. d \in Holds(f)
  BY <1>1
<1> QED
  BY <1>1, <1>2, <1>3, HoldsOnlyResponses

LEMMA DataInvStep ==
  ASSUME TypeInv, DataInv, [Next]_vars
  PROVE  DataInv'
<1>1. ASSUME NEW x \in Keys, NEW d \in Holds(cache'[x]) PROVE ResponseFacts(x, d)'
  <2>1. CASE d \in Holds(cache[x])
    BY <2>1, FactsStay DEF DataInv
  <2>2. CASE d = Serve(x)
    <3>1. ResponseFacts(x, d)
      BY <2>2, ServesFacts DEF TypeInv
    <3> QED
      BY <3>1, FactsStay
  <2> QED
    BY <1>1, <2>1, <2>2, HoldsStep DEF TypeInv
<1> QED
  BY <1>1 DEF DataInv

(* Data that is there is a response.                                        *)
LEMMA ResponsesAreData ==
  ASSUME NEW x \in Keys, DataInv
  PROVE  /\ HasData(cache[x]) => ResponseFacts(x, cache[x].data)
         /\ cache[x].fetch.state = "answered" =>
              ResponseFacts(x, cache[x].fetch.answer) /\ cache[x].fetch.answer # NoData
<1>1. HasData(cache[x]) => cache[x].data \in Holds(cache[x])
  BY DEF Holds
<1>2. cache[x].fetch.state = "answered" => cache[x].fetch.answer \in Holds(cache[x])
  BY DEF Holds
<1>3. NoData \notin Responses
  BY PredictionsPageAssumption DEF Responses
<1> QED
  BY <1>1, <1>2, <1>3 DEF DataInv, ResponseFacts

LEMMA DataInvInit ==
  ASSUME Init
  PROVE  DataInv
BY DEF Init, DataInv, Holds, HasData, EmptyEntry, Entry, Idle

(* Only a run that is stored is selected.                                   *)
SelectedInv == selected <= writes

(* What a click on the history selects is in the list of the well shown.    *)
LEMMA SelectsFromTheList ==
  ASSUME DataInv, NEW i \in PredictionHistoryList
  PROVE  /\ place \in WellIds /\ HasData(cache[ListKey(place)])
         /\ cache[ListKey(place)].data.got = PredictionHistoryList
         /\ i <= writes
<1>1. place \in WellIds /\ HasData(cache[ListKey(place)])
  BY DEF PredictionHistoryList
<1>2. cache[ListKey(place)].data.got = PredictionHistoryList
  BY <1>1 DEF PredictionHistoryList
<1>3. ListKey(place) \in Keys /\ ListKey(place)[1] = "list"
  BY <1>1 DEF Keys, ListKey
<1>4. PredictionHistoryList \subseteq 1..writes
  BY <1>1, <1>2, <1>3, ResponsesAreData DEF ResponseFacts
<1> QED
  BY <1>1, <1>2, <1>4

LEMMA SelectedStep ==
  ASSUME TypeInv, DataInv, SelectedInv, [Next]_vars
  PROVE  SelectedInv'
<1> USE DEF TypeInv
<1>1. writes' \in {writes, writes + 1} /\ writes \in Nat
  BY DEF Next, Operator, Network, selectWell, NavBar, BackOrForward, Went, onSelect,
     PredictionForm, ServeGet, ReceiveGet, FailGet, Refetch, useCreatePredictionMutation, Settle,
     LoseCall, OtherDeletes, create_prediction, vars, server, ServerTypes
<1>2. selected \in Int
  BY PredictionsPageAssumption, FS_CardinalityType DEF PageTypes
<1>3. CASE selected' \in {selected, 0}
  BY <1>1, <1>2, <1>3 DEF SelectedInv
<1>4. ASSUME NEW i \in PredictionIds, onSelect(i) PROVE SelectedInv'
  <2>1. selected' = i /\ i <= writes /\ writes' = writes
    BY <1>4, SelectsFromTheList DEF onSelect, Show, server
  <2> QED
    BY <2>1 DEF SelectedInv
<1>5. ASSUME NEW c \in calls, Settle(c), selected' # selected PROVE SelectedInv'
  <2>1. selected' = c.id /\ c.id <= writes /\ writes' = writes
    BY <1>5 DEF Settle, Show, server, CallTypesInv, CallFacts
  <2> QED
    BY <2>1 DEF SelectedInv
<1> QED
  BY <1>3, <1>4, <1>5 DEF Next, Operator, Network, selectWell, NavBar, BackOrForward, Show,
     PredictionForm, ServeGet, ReceiveGet, FailGet, Refetch, useCreatePredictionMutation,
     LoseCall, OtherDeletes, create_prediction, vars, page

PageInv == TypeInv /\ DataInv /\ SelectedInv

LEMMA PageInvStep ==
  ASSUME PageInv, [Next]_vars
  PROVE  PageInv'
BY TypeInvStep, DataInvStep, SelectedStep DEF PageInv

LEMMA PageInvInit ==
  ASSUME Init
  PROVE  PageInv
<1>1. SelectedInv
  BY DEF SelectedInv, Init
<1> QED
  BY <1>1, TypeInvInit, DataInvInit DEF PageInv

(* The page's state has its types, and a prediction on it or in the table   *)
(* has an id that was given out, of a well that is there                    *)
(* (services/predictions.py, PredictionsPage.tsx).                          *)
THEOREM PredictionsPageTypeCorrect == Spec => []TypeOK
<1>1. Init => PageInv
  BY PageInvInit
<1>2. PageInv /\ [Next]_vars => PageInv'
  BY PageInvStep
<1>3. PageInv => TypeOK
  <2> SUFFICES ASSUME PageInv PROVE TypeOK
    OBVIOUS
  <2>1. selected \in 0..(next - 1)
    BY PredictionsPageAssumption, FS_CardinalityType
       DEF PageInv, TypeInv, SelectedInv, PageTypes, ServerTypes
  <2>2. told \in 0..writes /\ writes < next
    BY DEF PageInv, TypeInv, PageTypes, ServerTypes
  <2>3. run.error \in {NULL, 0, 422} /\ \A c \in calls : c.awaits \subseteq c.awaited
    BY DEF PageInv, TypeInv, PageTypes, CallTypesInv, CallFacts
  <2> QED
    BY <2>1, <2>2, <2>3 DEF TypeOK, PageInv, TypeInv, ServerTypes, PageTypes
<1> QED
  BY <1>1, <1>2, <1>3, PTL DEF Spec

-----------------------------------------------------------------------------
(* A tab reads its writes: an entry at rest shows the runs the tab was told *)
(* of, and so will the response on its way, or the entry says why not.      *)

InUse(x) == x \in Active(place, selected)

ReadsInv == \A x \in Keys : UpToDate(cache[x], told, InUse(x))

LEMMA ShowReads ==
  ASSUME ReadsInv, NEW p, NEW s, Show(p, s, cache), told' = told
  PROVE  ReadsInv'
<1>1. ASSUME NEW x \in Keys PROVE UpToDate(cache'[x], told', InUse(x)')
  <2>0. InUse(x) \in BOOLEAN /\ InUse(x)' \in BOOLEAN
    BY DEF InUse
  <2>1. PICK a \in BOOLEAN, b \in BOOLEAN, e \in {cache[x]}, f \in {cache'[x]}, T \in {told} :
           b = InUse(x) /\ a = InUse(x)'
    BY <2>0
  <2>2. UpToDate(e, T, b) /\ UpToDate(e, T, FALSE)
    BY <2>1, UnusedUpToDate DEF ReadsInv
  <2>3. IF a /\ ~ b THEN f = Observed(e) ELSE f = e
    BY <2>1 DEF Show, InUse
  <2>4. UpToDate(f, T, a)
    <3>1. CASE a /\ ~ b
      BY <2>2, <2>3, <3>1, ObservedUpToDate
    <3>2. CASE a /\ b
      <4>1. a = b
        BY <3>2
      <4> QED
        BY <2>2, <2>3, <3>2, <4>1
    <3>3. CASE ~ a
      <4>1. a = FALSE
        BY <3>3
      <4> QED
        BY <2>2, <2>3, <3>3, <4>1
    <3> QED
      BY <3>1, <3>2, <3>3
  <2> QED
    BY <2>1, <2>4
<1> QED
  BY <1>1 DEF ReadsInv

LEMMA ReadsStep ==
  ASSUME PageInv, ReadsInv, [Next]_vars
  PROVE  ReadsInv'
<1> USE DEF PageInv, TypeInv
<1>1. ASSUME NEW p \in Places, selectWell(p) \/ NavBar(p) \/ BackOrForward(p) PROVE ReadsInv'
  BY <1>1, ShowReads DEF selectWell, NavBar, BackOrForward, Went
<1>2. ASSUME NEW i \in PredictionIds, onSelect(i) PROVE ReadsInv'
  BY <1>2, ShowReads DEF onSelect
<1>3. ASSUME UNCHANGED <<page, told>>, NEW x \in Keys,
             \A y \in Keys \ {x} : cache'[y] = cache[y],
             \A T \in {told}, b \in BOOLEAN : UpToDate(cache[x], T, b) => UpToDate(cache'[x], T, b)
      PROVE  ReadsInv'
  <2>1. ASSUME NEW y \in Keys PROVE UpToDate(cache'[y], told', InUse(y)')
    <3>0. InUse(y) \in BOOLEAN
      BY DEF InUse
    <3>1. PICK T \in {told}, b \in BOOLEAN : b = InUse(y)
      BY <3>0
    <3>2. UpToDate(cache[y], T, b)
      BY <3>1 DEF ReadsInv
    <3>3. told' = T /\ InUse(y)' = b
      BY <1>3, <3>1 DEF InUse, page
    <3> QED
      BY <1>3, <3>1, <3>2, <3>3
  <2> QED
    BY <2>1 DEF ReadsInv
<1>4. ASSUME NEW x \in Keys, ServeGet(x) PROVE ReadsInv'
  <2>1. PICK e, f, s : e = cache[x] /\ f = cache'[x] /\ s = Serve(x)
    OBVIOUS
  <2>2. f = [e EXCEPT !.fetch = Answered(s)] /\ IsEntry(e)
    BY <1>4, <2>1 DEF ServeGet, CacheTypes
  <2>3. s.asOf >= told
    BY <2>1 DEF Serve, PageTypes, ServerTypes
  <2>4. ASSUME NEW T, T = told, NEW b \in BOOLEAN PROVE UpToDate(f, T, b)
    BY <2>2, <2>3, <2>4, AnsweredUpToDate
  <2>5. UNCHANGED <<page, told>> /\ \A y \in Keys \ {x} : cache'[y] = cache[y]
    BY <1>4 DEF ServeGet
  <2> QED
    BY <1>3, <2>1, <2>4, <2>5
<1>5. ASSUME NEW x \in Keys, ReceiveGet(x) PROVE ReadsInv'
  <2>1. PICK e : e = cache[x]
    OBVIOUS
  <2>2. cache'[x] \in {Failed(e), Received(e)} /\ IsEntry(e) /\ e.fetch.state = "answered"
    BY <1>5, <2>1 DEF ReceiveGet, CacheTypes
  <2>3. ASSUME NEW T, NEW b \in BOOLEAN, UpToDate(e, T, b) PROVE UpToDate(cache'[x], T, b)
    <3>1. UpToDate(e, T, FALSE)
      BY <2>3, UnusedUpToDate
    <3>2. UpToDate(Received(e), T, b)
      BY <2>2, <3>1, ReceivedUpToDate
    <3>3. UpToDate(Failed(e), T, b)
      BY <2>2, FailedUpToDate
    <3> QED
      BY <2>2, <3>2, <3>3
  <2>4. UNCHANGED <<page, told>> /\ \A y \in Keys \ {x} : cache'[y] = cache[y]
    BY <1>5 DEF ReceiveGet
  <2> QED
    BY <1>3, <2>1, <2>3, <2>4
<1>6. ASSUME NEW x \in Keys, FailGet(x) \/ Refetch(x) PROVE ReadsInv'
  <2>1. PICK e : e = cache[x]
    OBVIOUS
  <2>2. cache'[x] \in {Failed(e), Ask(e)} /\ IsEntry(e)
    BY <1>6, <2>1 DEF FailGet, Refetch, CacheTypes
  <2>3. ASSUME NEW T, NEW b \in BOOLEAN PROVE UpToDate(cache'[x], T, b)
    BY <2>2, FailedUpToDate, AskUpToDate
  <2>4. UNCHANGED <<page, told>> /\ \A y \in Keys \ {x} : cache'[y] = cache[y]
    <3>1. ASSUME FailGet(x) PROVE UNCHANGED <<page, told>> /\ \A y \in Keys \ {x} : cache'[y] = cache[y]
      BY <3>1 DEF FailGet
    <3>2. ASSUME Refetch(x) PROVE UNCHANGED <<page, told>> /\ \A y \in Keys \ {x} : cache'[y] = cache[y]
      BY <3>2 DEF Refetch
    <3> QED
      BY <1>6, <3>1, <3>2
  <2> QED
    BY <1>3, <2>1, <2>3, <2>4
<1>7. ASSUME NEW c \in calls, useCreatePredictionMutation(c) PROVE ReadsInv'
  <2>1. ASSUME NEW x \in Keys PROVE UpToDate(cache'[x], told', InUse(x)')
    <3>0. InUse(x) \in BOOLEAN
      BY DEF InUse
    <3>1. PICK e \in {cache[x]}, T \in {told'}, b \in BOOLEAN : b = InUse(x)
      BY <3>0
    <3>5. cache' = [y \in Keys |-> Invalidated(cache[y], InUse(y))]
      BY <1>7 DEF useCreatePredictionMutation, InUse
    <3>2. cache'[x] = Invalidated(cache[x], InUse(x)) /\ IsEntry(e)
      BY <3>5 DEF CacheTypes
    <3>3. InUse(x)' = InUse(x)
      BY <1>7 DEF useCreatePredictionMutation, InUse, page
    <3>4. UpToDate(Invalidated(e, b), T, b)
      BY <3>2, InvalidatedUpToDate
    <3> QED
      BY <3>1, <3>2, <3>3, <3>4
  <2> QED
    BY <2>1 DEF ReadsInv
<1>8. CASE UNCHANGED <<cache, place, selected, told>>
  BY <1>8 DEF ReadsInv, InUse
<1>9. ASSUME NEW c \in calls, Settle(c) PROVE ReadsInv'
  <2>1. told' = told /\ (UNCHANGED <<cache, place, selected>> \/ Show(place, c.id, cache))
    BY <1>9 DEF Settle
  <2> QED
    BY <1>8, <2>1, ShowReads
<1> QED
  BY <1>1, <1>2, <1>4, <1>5, <1>6, <1>7, <1>8, <1>9 DEF Next, Operator, Network, PredictionForm,
     create_prediction, LoseCall, OtherDeletes, page, vars

(* After a run of this tab was answered, every list and every prediction at *)
(* rest in the cache is as new as that run, or marked to be fetched when it *)
(* is used, or was overtaken while its first fetch was under way            *)
(* (useCreatePredictionMutation in api/predictions.ts).                     *)
THEOREM PredictionsReadTheirWrites == Spec => []ReadsItsWrites
<1>1. Init => PageInv /\ ReadsInv
  <2> SUFFICES ASSUME Init PROVE ReadsInv
    BY PageInvInit
  <2>1. \A x \in Keys : cache[x] = EmptyEntry
    BY DEF Init
  <2>2. \A T : \A b \in BOOLEAN : UpToDate(EmptyEntry, T, b)
    BY DEF UpToDate, IsEntry, Fresh, BringsFresh, HasData, EmptyEntry, Entry, Idle
  <2>3. \A x \in Keys : InUse(x) \in BOOLEAN
    BY DEF InUse
  <2> QED
    BY <2>1, <2>2, <2>3 DEF ReadsInv
<1>2. PageInv /\ ReadsInv /\ [Next]_vars => (PageInv /\ ReadsInv)'
  BY PageInvStep, ReadsStep
<1>3. ReadsInv => ReadsItsWrites
  BY DEF ReadsInv, ReadsItsWrites, UpToDate, Fresh, InUse
<1> QED
  BY <1>1, <1>2, <1>3, PTL DEF Spec

-----------------------------------------------------------------------------
(* A prediction is of one well, whoever says so: the table, a response with *)
(* it, a list it is in, the run that stored it, and the URL it was selected *)
(* under.  The well may be gone, and an id not given out may be of any.     *)

IsOf(i, w) ==
  /\ predictions[i] \in {w, NULL}
  /\ \A d \in Holds(cache[DetailKey(i)]) : d.got \in {w, NULL}
  /\ \A v \in WellIds : \A d \in Holds(cache[ListKey(v)]) : i \in d.got => v = w
  /\ \A c \in calls : c.id = i => c.well = w
  /\ selected = i /\ place \in WellIds /\ ~ stray => place = w

WellInv == \A i \in PredictionIds : \E w \in WellIds \cup {NULL} : IsOf(i, w)

LEMMA KeysOfData ==
  ASSUME NEW i \in PredictionIds, NEW v \in WellIds
  PROVE  /\ DetailKey(i) \in Keys /\ DetailKey(i)[1] = "detail" /\ DetailKey(i)[2] = i
         /\ ListKey(v) \in Keys /\ ListKey(v)[1] = "list" /\ ListKey(v)[2] = v
BY DEF Keys, DetailKey, ListKey

(* An id that is still to be given out is nowhere.                          *)
LEMMA NextIsOfAny ==
  ASSUME PageInv, next \in PredictionIds, NEW w \in WellIds
  PROVE  IsOf(next, w)
<1> USE DEF PageInv, TypeInv
<1>1. PICK i \in PredictionIds : i = next
  OBVIOUS
<1>2. writes \in Nat /\ i = writes + 1
  BY <1>1 DEF ServerTypes
<1>3. predictions[i] = NULL
  BY <1>1 DEF ServerTypes
<1>4. ASSUME NEW d \in Holds(cache[DetailKey(i)]) PROVE d.got = NULL
  <2>1. ResponseFacts(DetailKey(i), d) /\ DetailKey(i)[1] = "detail" /\ DetailKey(i)[2] = i
    BY <1>4, KeysOfData DEF DataInv, Keys
  <2> QED
    BY <1>2, <2>1 DEF ResponseFacts
<1>5. ASSUME NEW v \in WellIds, NEW d \in Holds(cache[ListKey(v)]) PROVE i \notin d.got
  <2>1. ResponseFacts(ListKey(v), d) /\ ListKey(v)[1] = "list"
    BY <1>5, KeysOfData DEF DataInv, Keys
  <2> QED
    BY <1>2, <2>1 DEF ResponseFacts
<1>6. \A c \in calls : c.id # i
  BY <1>2 DEF CallTypesInv, CallFacts, CallTypes
<1>7. selected # i
  BY <1>2 DEF SelectedInv
<1>8. IsOf(i, w)
  BY <1>3, <1>4, <1>5, <1>6, <1>7 DEF IsOf
<1> QED
  BY <1>1, <1>8

(* What the server answers agrees with the table.                           *)
LEMMA ServesItsWell ==
  ASSUME NEW i \in PredictionIds, NEW w, IsOf(i, w)
  PROVE  /\ Serve(DetailKey(i)).got \in {w, NULL}
         /\ \A v \in WellIds : i \in Serve(ListKey(v)).got => v = w
<1>1. Serve(DetailKey(i)).got = predictions[i]
  BY DEF Serve, DetailKey, get_prediction
<1>2. ASSUME NEW v \in WellIds, i \in Serve(ListKey(v)).got PROVE v = w
  <2>1. Serve(ListKey(v)).got = list_predictions(v)
    BY DEF Serve, ListKey
  <2>2. predictions[i] # NULL /\ v \in {"all", predictions[i]}
    BY <1>2, <2>1 DEF list_predictions
  <2>3. v # "all"
    BY PredictionsPageAssumption
  <2> QED
    BY <2>2, <2>3 DEF IsOf
<1> QED
  BY <1>1, <1>2 DEF IsOf

LEMMA CacheIsOfItsWell ==
  ASSUME PageInv, [Next]_vars, NEW i \in PredictionIds, NEW w, IsOf(i, w)
  PROVE  /\ \A d \in Holds(cache'[DetailKey(i)]) : d.got \in {w, NULL}
         /\ \A v \in WellIds : \A d \in Holds(cache'[ListKey(v)]) : i \in d.got => v = w
<1>1. ASSUME NEW d \in Holds(cache'[DetailKey(i)]) PROVE d.got \in {w, NULL}
  <2>1. DetailKey(i) \in Keys
    BY DEF Keys
  <2>2. d \in Holds(cache[DetailKey(i)]) \/ d = Serve(DetailKey(i))
    BY <1>1, <2>1, HoldsStep DEF PageInv, TypeInv
  <2> QED
    BY <2>2, ServesItsWell DEF IsOf
<1>2. ASSUME NEW v \in WellIds, NEW d \in Holds(cache'[ListKey(v)]), i \in d.got PROVE v = w
  <2>1. ListKey(v) \in Keys
    BY DEF Keys
  <2>2. d \in Holds(cache[ListKey(v)]) \/ d = Serve(ListKey(v))
    BY <1>2, <2>1, HoldsStep DEF PageInv, TypeInv
  <2> QED
    BY <1>2, <2>2, ServesItsWell DEF IsOf
<1> QED
  BY <1>1, <1>2

(* A selection is made from the list of the well shown or by a run of it.   *)
LEMMA SelectionIsOfItsWell ==
  ASSUME PageInv, [Next]_vars, NEW i \in PredictionIds, NEW w, IsOf(i, w),
         selected' = i, place' \in WellIds, ~ stray'
  PROVE  place' = w
<1> USE DEF PageInv, TypeInv
<1>1. i # 0
  BY PredictionsPageAssumption, FS_CardinalityType
<1>2. CASE UNCHANGED <<place, selected, stray>>
  BY <1>2 DEF IsOf
<1>3. ASSUME NEW p \in Places, selectWell(p) PROVE FALSE
  BY <1>1, <1>3 DEF selectWell, Show
<1>4. ASSUME NEW p \in Places, NavBar(p) PROVE FALSE
  BY <1>4, PredictionsPageAssumption DEF NavBar, Show
<1>5. ASSUME NEW p \in Places, BackOrForward(p) PROVE FALSE
  BY <1>1, <1>5 DEF BackOrForward, Show
<1>6. ASSUME NEW j \in PredictionIds, onSelect(j) PROVE place' = w
  <2>1. j = i /\ place' = place /\ i \in PredictionHistoryList
    BY <1>6 DEF onSelect, Show
  <2>2. /\ HasData(cache[ListKey(place)]) /\ cache[ListKey(place)].data.got = PredictionHistoryList
    BY <2>1, SelectsFromTheList
  <2>3. cache[ListKey(place)].data \in Holds(cache[ListKey(place)])
    BY <2>2 DEF Holds
  <2> QED
    BY <2>1, <2>2, <2>3 DEF IsOf
<1>7. ASSUME NEW c \in calls, Settle(c) PROVE place' = w
  <2>1. CASE Show(place, c.id, cache) /\ stray' = (c.well # place)
    <3>1. selected' = c.id /\ place' = place /\ c.well = place
      BY <2>1 DEF Show
    <3> QED
      BY <3>1 DEF IsOf
  <2> QED
    BY <1>2, <1>7, <2>1 DEF Settle
<1> QED
  BY <1>2, <1>3, <1>4, <1>5, <1>6, <1>7 DEF Next, Operator, Network, PredictionForm, ServeGet,
     ReceiveGet, FailGet, Refetch, useCreatePredictionMutation, LoseCall, OtherDeletes,
     create_prediction, vars, page

LEMMA WellStep ==
  ASSUME PageInv, WellInv, [Next]_vars
  PROVE  WellInv'
<1> USE DEF PageInv, TypeInv
<1>1. ASSUME NEW i \in PredictionIds, NEW w \in WellIds \cup {NULL}, IsOf(i, w),
             predictions'[i] \in {w, NULL}, \A c \in calls' : c.id = i => c.well = w
      PROVE  IsOf(i, w)'
  <2>1. selected' = i /\ place' \in WellIds /\ ~ stray' => place' = w
    BY <1>1, SelectionIsOfItsWell
  <2> QED
    BY <1>1, <2>1, CacheIsOfItsWell DEF IsOf
<1>2. ASSUME NEW c \in calls, create_prediction(c), ~ UNCHANGED server PROVE WellInv'
  <2>1. /\ predictions' = [predictions EXCEPT ![next] = c.well] /\ c.answer = NULL
        /\ calls' = (calls \ {c}) \cup {[c EXCEPT !.answer = 201, !.id = next, !.asOf = writes + 1]}
    BY <1>2 DEF create_prediction
  <2>2. next \in PredictionIds /\ c.well \in WellIds /\ c \in CallTypes
    BY <2>1, NextIsAnId DEF CallTypesInv, CallTypes
  <2>3. PICK d : calls' = (calls \ {c}) \cup {d} /\ d.id = next /\ d.well = c.well
    <3>1. PICK i \in Nat, t \in Nat, a \in Answers : i = next /\ t = writes + 1 /\ a = 201
      BY DEF ServerTypes, Answers
    <3>2. PICK d : d = StoredAs(c, a, i, t) /\ calls' = (calls \ {c}) \cup {d}
      BY <2>1, <3>1 DEF StoredAs
    <3>3. d.id = i /\ d.well = c.well
      BY <2>2, <3>2, StoredFields
    <3> QED
      BY <3>1, <3>2, <3>3
  <2>4. \A b \in calls : b.id # next
    BY DEF CallTypesInv, CallFacts, CallTypes, ServerTypes
  <2>5. IsOf(next, c.well) /\ predictions'[next] = c.well
    BY <2>1, <2>2, NextIsOfAny DEF ServerTypes
  <2>6. ASSUME NEW i \in PredictionIds, i = next PROVE \E w \in WellIds \cup {NULL} : IsOf(i, w)'
    BY <1>1, <2>2, <2>3, <2>4, <2>5, <2>6
  <2>7. ASSUME NEW i \in PredictionIds, i # next PROVE \E w \in WellIds \cup {NULL} : IsOf(i, w)'
    <3>1. PICK w \in WellIds \cup {NULL} : IsOf(i, w)
      BY DEF WellInv
    <3>2. predictions'[i] = predictions[i]
      BY <2>1, <2>7 DEF ServerTypes
    <3> QED
      BY <1>1, <2>3, <2>7, <3>1, <3>2 DEF IsOf
  <2> QED
    BY <2>6, <2>7 DEF WellInv
<1>3. ASSUME \A i \in PredictionIds : predictions'[i] \in {predictions[i], NULL},
             \A c \in calls' : c.id \in PredictionIds => \E b \in calls : b.id = c.id /\ b.well = c.well
      PROVE  WellInv'
  <2>1. ASSUME NEW i \in PredictionIds PROVE \E w \in WellIds \cup {NULL} : IsOf(i, w)'
    <3>1. PICK w \in WellIds \cup {NULL} : IsOf(i, w)
      BY DEF WellInv
    <3> QED
      BY <1>1, <1>3, <3>1 DEF IsOf
  <2> QED
    BY <2>1 DEF WellInv
<1>4. ASSUME NEW input \in Inputs, PredictionForm(input) PROVE WellInv'
  <2>1. PICK d : calls' = calls \cup {d} /\ d.id = 0
    BY <1>4, FormAsks
  <2>2. 0 \notin PredictionIds
    BY PredictionsPageAssumption, FS_CardinalityType
  <2> QED
    BY <1>3, <1>4, <2>1, <2>2 DEF PredictionForm, server
<1>5. CASE /\ \A input \in Inputs : ~ PredictionForm(input)
           /\ \A c \in calls : create_prediction(c) => UNCHANGED server
  <2>1. PICK h : RunsStep(h)
    BY <1>5, StepRuns
  <2>2. \A i \in PredictionIds : predictions'[i] \in {predictions[i], NULL}
    <3>1. CASE UNCHANGED server
      BY <3>1 DEF server
    <3>2. ASSUME NEW w \in WellIds, OtherDeletes(w)
          PROVE  \A i \in PredictionIds : predictions'[i] \in {predictions[i], NULL}
      BY <3>2 DEF OtherDeletes
    <3> QED
      BY <1>5, <3>1, <3>2 DEF Next, Operator, Network, selectWell, NavBar, BackOrForward, Went,
         onSelect, ServeGet, ReceiveGet, FailGet, Refetch, useCreatePredictionMutation, Settle,
         LoseCall, vars
  <2>3. writes' # writes + 1
    <3>1. CASE UNCHANGED server
      BY <3>1 DEF server, ServerTypes
    <3>2. ASSUME NEW w \in WellIds, OtherDeletes(w) PROVE writes' # writes + 1
      BY <3>2 DEF OtherDeletes, ServerTypes
    <3> QED
      BY <1>5, <3>1, <3>2 DEF Next, Operator, Network, selectWell, NavBar, BackOrForward, Went,
         onSelect, ServeGet, ReceiveGet, FailGet, Refetch, useCreatePredictionMutation, Settle,
         LoseCall, vars
  <2>4. ASSUME NEW b \in calls PROVE h[b].id = b.id /\ h[b].well = b.well
    <3>1. CallStep(b, h[b]) /\ ~ Stored(b, h[b])
      BY <2>1, <2>3 DEF RunsStep, Stored
    <3> QED
      BY <3>1 DEF CallStep, SameRun, Waited, Lost, Hooked
  <2>5. \A c \in calls' : \E b \in calls : b.id = c.id /\ b.well = c.well
    BY <2>1, <2>4 DEF RunsStep
  <2> QED
    BY <1>3, <2>2, <2>5
<1> QED
  BY <1>2, <1>4, <1>5

(* Whatever is charted beside the selector is a prediction of the well in   *)
(* the URL, unless Back, Forward or a link changed the URL after the        *)
(* selection, or the run that selected it is of a well left meanwhile       *)
(* (PredictionsPage.tsx).                                                   *)
THEOREM PredictionsChartTheirWell == Spec => []ChartIsOfItsWell
<1>1. Init => PageInv /\ WellInv
  <2> SUFFICES ASSUME Init PROVE WellInv
    BY PageInvInit
  <2>1. \A x \in Keys : Holds(cache[x]) = {}
    BY DEF Init, Holds, HasData, EmptyEntry, Entry, Idle
  <2>2. ASSUME NEW i \in PredictionIds PROVE IsOf(i, NULL)
    <3>1. Holds(cache[DetailKey(i)]) = {} /\ \A v \in WellIds : Holds(cache[ListKey(v)]) = {}
      BY <2>1 DEF Keys
    <3>2. 0 \notin PredictionIds
      BY PredictionsPageAssumption, FS_CardinalityType
    <3> QED
      BY <3>1, <3>2 DEF IsOf, Init
  <2> QED
    BY <2>2 DEF WellInv
<1>2. PageInv /\ WellInv /\ [Next]_vars => (PageInv /\ WellInv)'
  BY PageInvStep, WellStep
<1>3. PageInv /\ WellInv => ChartIsOfItsWell
  <2> SUFFICES ASSUME PageInv, WellInv, PredictionChart # NULL, place \in WellIds, ~ stray
               PROVE  PredictionChart = place
    BY DEF ChartIsOfItsWell
  <2>1. /\ selected \in PredictionIds /\ HasData(cache[DetailKey(selected)])
        /\ PredictionChart = cache[DetailKey(selected)].data.got
    BY DEF PredictionChart, PageInv, TypeInv, PageTypes
  <2>2. PICK i \in PredictionIds, w \in WellIds \cup {NULL} : i = selected /\ IsOf(i, w)
    BY <2>1 DEF WellInv
  <2>3. cache[DetailKey(i)].data \in Holds(cache[DetailKey(i)])
    BY <2>1, <2>2 DEF Holds
  <2> QED
    BY <2>1, <2>2, <2>3 DEF IsOf
<1> QED
  BY <1>1, <1>2, <1>3, PTL DEF Spec

-----------------------------------------------------------------------------
(* A run that missed nothing waits for fetches that the server evaluates    *)
(* after it stored the run, and what it no longer waits for has arrived.    *)

WaitsFor(c, x) ==
  /\ cache[x].fetch.state = "answered" => cache[x].fetch.answer.asOf >= c.asOf
  /\ x \notin c.awaits => HasData(cache[x]) /\ cache[x].data.asOf >= c.asOf

WaitInv == \A c \in calls : ~ c.missed => \A x \in c.awaited : WaitsFor(c, x)

LEMMA WaitsForStep ==
  ASSUME PageInv, [Next]_vars, NEW c \in calls, NEW d, SameRun(c, d), Waited(c, d), ~ d.missed,
         NEW x \in c.awaited, WaitsFor(c, x)
  PROVE  WaitsFor(d, x)'
<1> USE DEF PageInv, TypeInv
<1>1. x \in Keys /\ c.asOf \in Nat /\ c.asOf <= writes /\ d.asOf = c.asOf
  BY DEF CallTypesInv, CallTypes, CallFacts, Waited
<1>2. x \notin d.awaits /\ x \in c.awaits => Took(cache[x], cache'[x])
  BY DEF Waited
<1>3. CASE Kept(cache[x], cache'[x])
  <2>1. cache'[x].fetch \in {cache[x].fetch, Asked, Idle} /\ cache'[x].data = cache[x].data
    BY <1>3 DEF Kept
  <2>2. cache'[x].fetch.state = "answered" => cache'[x].fetch.answer.asOf >= c.asOf
    BY <2>1 DEF WaitsFor, Asked, Idle
  <2>3. ASSUME x \notin d.awaits PROVE HasData(cache'[x]) /\ cache'[x].data.asOf >= c.asOf
    <3>1. CASE x \notin c.awaits
      BY <2>1, <3>1 DEF WaitsFor, HasData
    <3>2. CASE Took(cache[x], cache'[x])
      BY <1>1, <3>2, ResponsesAreData DEF WaitsFor, HasData, Took
    <3> QED
      BY <1>2, <2>3, <3>1, <3>2
  <2> QED
    BY <1>1, <2>2, <2>3 DEF WaitsFor
<1>4. CASE Took(cache[x], cache'[x])
  BY <1>1, <1>4, ResponsesAreData DEF WaitsFor, HasData, Took, Idle
<1>5. CASE Brought(cache[x], cache'[x], Serve(x)) /\ UNCHANGED server
  <2>1. /\ cache'[x].data = cache[x].data /\ cache'[x].fetch.answer = Serve(x)
    BY <1>5 DEF Brought, Answered
  <2>2. Serve(x).asOf = writes /\ writes >= c.asOf
    BY <1>1 DEF Serve, ServerTypes
  <2>3. x \notin d.awaits => HasData(cache'[x]) /\ cache'[x].data.asOf >= c.asOf
    <3>1. ASSUME Took(cache[x], cache'[x]) PROVE FALSE
      BY <1>5, <3>1 DEF Took, Brought, Idle, Answered
    <3> QED
      BY <1>2, <2>1, <3>1 DEF WaitsFor, HasData
  <2> QED
    BY <1>1, <2>1, <2>2, <2>3 DEF WaitsFor
<1> QED
  BY <1>1, <1>3, <1>4, <1>5, StepCache DEF CacheStep

LEMMA WaitStep ==
  ASSUME PageInv, WaitInv, [Next]_vars
  PROVE  WaitInv'
<1> USE DEF PageInv, TypeInv
<1>1. ASSUME NEW input \in Inputs, PredictionForm(input) PROVE WaitInv'
  <2>1. PICK d : calls' = calls \cup {d} /\ d.awaited = {}
    BY <1>1, FormAsks
  <2>2. cache' = cache
    BY <1>1 DEF PredictionForm
  <2> QED
    BY <2>1, <2>2 DEF WaitInv, WaitsFor
<1>2. CASE \A input \in Inputs : ~ PredictionForm(input)
  <2>1. PICK h : RunsStep(h)
    BY <1>2, StepRuns
  <2>2. ASSUME NEW c \in calls, NEW d, d = h[c], ~ d.missed, NEW x \in d.awaited
        PROVE  WaitsFor(d, x)'
    <3>1. CallStep(c, d) /\ CallFacts(c)
      BY <2>1, <2>2 DEF RunsStep, CallTypesInv
    <3>2. CASE Waited(c, d)
      <4>1. ~ c.missed /\ x \in c.awaited
        BY <2>2, <3>2 DEF Waited
      <4>2. WaitsFor(c, x)
        BY <4>1 DEF WaitInv
      <4> QED
        BY <2>2, <3>1, <3>2, <4>1, <4>2, WaitsForStep DEF CallStep
    <3>3. CASE Stored(c, d)
      <4>1. c.answer # 201
        BY <3>3, PredictionsPageAssumption DEF Stored
      <4> QED
        BY <2>2, <3>1, <3>3, <4>1 DEF Stored, CallFacts
    <3>4. CASE Lost(c, d)
      BY <2>2, <3>1, <3>4 DEF Lost, CallFacts
    <3>5. CASE Hooked(c, d)
      <4>1. x \in d.awaits /\ cache'[x].fetch = Asked
        BY <2>2, <3>5 DEF Hooked
      <4> QED
        BY <4>1 DEF WaitsFor, Asked
    <3> QED
      BY <3>1, <3>2, <3>3, <3>4, <3>5 DEF CallStep
  <2>3. \A c \in calls' : ~ c.missed => \A x \in c.awaited : WaitsFor(c, x)'
    BY <2>1, <2>2 DEF RunsStep
  <2> QED
    BY <2>3 DEF WaitInv
<1> QED
  BY <1>1, <1>2

(* The list that a run waited for has the run, if it is of that well.       *)
LEMMA DoneIsListed ==
  ASSUME PageInv, WaitInv, NEW c \in calls, ~ c.missed, c.awaits = {},
         ListKey(place) \in c.awaited, predictions[c.id] = place
  PROVE  c.id \in PredictionHistoryList
<1> USE DEF PageInv, TypeInv
<1>1. PICK x : x = ListKey(place)
  OBVIOUS
<1>2. c.id \in PredictionIds /\ c.asOf = c.id
  BY DEF CallTypesInv, CallFacts
<1>3. place \in WellIds
  BY <1>2, PredictionsPageAssumption DEF ServerTypes, PageTypes, Places
<1>4. x \in Keys
  BY <1>1, <1>3 DEF Keys
<1>5. HasData(cache[x]) /\ cache[x].data.asOf >= c.id
  BY <1>1, <1>2 DEF WaitInv, WaitsFor
<1>6. ResponseFacts(x, cache[x].data)
  BY <1>4, <1>5, ResponsesAreData
<1>7. c.id \in Nat /\ cache[x].data.asOf \in Nat
  BY <1>6 DEF ResponseFacts, Responses, CallTypesInv, CallTypes
<1>8. c.id \in cache[x].data.got
  BY <1>1, <1>2, <1>3, <1>5, <1>6, <1>7 DEF ResponseFacts
<1> QED
  BY <1>1, <1>3, <1>5, <1>8 DEF PredictionHistoryList

LEMMA SelectedRunIsListed ==
  ASSUME PageInv, WaitInv, [Next]_vars, NEW c \in calls, selected' = c.id, selected' # selected,
         c.n = run.call, ListKey(place) \in c.awaited, ~ c.missed, predictions[c.id] = place
  PROVE  c.id \in PredictionHistoryList
<1> USE DEF PageInv, TypeInv
<1>1. c.id # 0 /\ c.answer = 201 /\ c.hooked
  BY DEF CallTypesInv, CallFacts
<1>2. ASSUME NEW p \in Places, selectWell(p) \/ NavBar(p) \/ BackOrForward(p) PROVE FALSE
  BY <1>1, <1>2 DEF selectWell, NavBar, BackOrForward, Show
<1>3. ASSUME NEW i \in PredictionIds, onSelect(i) PROVE c.id \in PredictionHistoryList
  BY <1>3 DEF onSelect, Show
<1>4. ASSUME NEW d \in calls, Settle(d) PROVE c.id \in PredictionHistoryList
  <2>1. run.call = d.n
    BY <1>4 DEF Settle
  <2>2. d = c
    BY <2>1 DEF CallTypesInv
  <2>3. c.awaits = {}
    BY <1>1, <1>4, <2>2 DEF Settle
  <2> QED
    BY <2>3, DoneIsListed
<1>5. CASE selected' = selected
  BY <1>5
<1> QED
  BY <1>2, <1>3, <1>4, <1>5 DEF Next, Operator, Network, PredictionForm, ServeGet, ReceiveGet,
     FailGet, Refetch, useCreatePredictionMutation, LoseCall, OtherDeletes, create_prediction,
     vars, page

(* A run that the page selects when it is done is in the history beside the *)
(* chart, unless it missed the fetch it waited for or is deleted by then:   *)
(* what it awaited was evaluated after the run was stored                   *)
(* (useCreatePredictionMutation returns invalidateQueries' promise).        *)
THEOREM PredictionsListTheirRun == Spec => RunIsInHistory
<1> DEFINE Listed ==
      \A c \in calls : /\ selected' = c.id /\ selected' # selected /\ c.n = run.call
                       /\ ListKey(place) \in c.awaited /\ ~ c.missed
                       /\ predictions[c.id] = place
        => c.id \in PredictionHistoryList
<1>1. Init => PageInv /\ WaitInv
  BY PageInvInit DEF Init, WaitInv
<1>2. PageInv /\ WaitInv /\ [Next]_vars => (PageInv /\ WaitInv)'
  BY PageInvStep, WaitStep
<1>3. PageInv /\ WaitInv /\ [Next]_vars => [Listed]_vars
  BY SelectedRunIsListed
<1> QED
  BY <1>1, <1>2, <1>3, PTL DEF Spec, RunIsInHistory
=============================================================================
