----------------------- MODULE OperationsForms_proofs -----------------------
(***************************************************************************)
(* Proofs about OperationsForms: its types; an entry at rest shows the     *)
(* writes this tab knows of; rows and readings on screen are of the well   *)
(* in the URL; an editor is not done before the panel shows what it saved; *)
(* a save changes no band that was not typed in.                           *)
(***************************************************************************)
EXTENDS OperationsForms, QueryCache_proofs, FiniteSetTheorems, SequenceTheorems

-----------------------------------------------------------------------------
(* Numbers and text.                                                        *)

TextValues == {"", " ", "x"} \cup {String(n) : n \in 0..9}

LEMMA NumberOfText ==
  ASSUME NEW n \in 0..9
  PROVE  Number(String(n)) = n
BY OperationsFormsAssumption, TextAssumption DEF Number

LEMMA ZeroIsADigit == 0 \in 0..9
OBVIOUS

LEMMA NumbersHaveOneDigit ==
  ASSUME NEW t \in TextValues, t # "", t # "x"
  PROVE  Number(t) \in 0..9
<1>1. CASE t = " "
  <2>1. Number(t) = 0
    BY <1>1, Zenon DEF Number
  <2> QED
    BY <2>1, ZeroIsADigit, Zenon
<1>2. CASE t # " "
  BY <1>2, NumberOfText DEF TextValues
<1> QED
  BY <1>1, <1>2

LEMMA NullIsItself == NULL \notin Int /\ NULL \notin WellIds /\ NULL \notin Keys
BY OperationsFormsAssumption DEF Keys, ThresholdsKey, ReadingsKey, AlertsKey

(* A field that is left as the form filled it in is converted back.         *)
LEMMA BandsAreConvertedBack ==
  ASSUME NEW v \in (0..9) \cup {NULL}
  PROVE  toBand(Text(v)) = v /\ Text(v) \in TextValues
<1>1. CASE v = NULL
  BY <1>1 DEF toBand, Text, TextValues
<1>2. CASE v # NULL
  <2>1. v \in 0..9 /\ Text(v) = String(v) /\ String(v) # ""
    BY <1>2, OperationsFormsAssumption, TextAssumption DEF Text
  <2> QED
    BY <2>1, NumberOfText DEF toBand, TextValues
<1> QED
  BY <1>1, <1>2

-----------------------------------------------------------------------------
(* Types.                                                                   *)

Counters == {"visits", "inputs", "saves", "events"}
Tables == {"configs", "readings"}
Rows == [well : WellIds, band : Bands]
Forms == [values : [BandNames -> TextValues], typed : SUBSET BandNames, from : Bands \cup {NULL}]
MaybeForm == Forms \cup {NULL}
EditorRows == [form : MaybeForm, call : Nat, del : Nat]
MaybeKey == Keys \cup {NULL}

(* Not answered, lost, done, gone, taken.                                   *)
Answers == {NULL, 0, 200, 404, 409}
Sent == Bands \cup (0..9) \cup {NULL}

CallTypes ==
  [n : Nat, op : {"create", "update", "delete", "reading"}, well : WellIds, i : ConfigIds \cup {0},
   row : Sent, form : MaybeForm, answer : Answers, asOf : Nat,
   hooked : BOOLEAN, awaits : MaybeKey, awaited : MaybeKey, handed : BOOLEAN, missed : BOOLEAN]

ServerTypes ==
  /\ configs \in [ConfigIds -> Rows \cup {NULL}]
  /\ \A i \in ConfigIds : configs[i] # NULL => i < next
  /\ next \in Nat
  /\ readings \in [WellIds -> Seq(0..9)]
  /\ writes \in [Tables -> Nat]

CacheTypes == DOMAIN cache = Keys /\ \A x \in Keys : IsEntry(cache[x])

(* The fields of an editor that were not typed in are as it found them.     *)
Untouched(f) ==
  /\ f.from \in Bands /\ f.from # NULL
  /\ \A b \in BandNames \ f.typed : f.values[b] = Text(f.from[b])

PageTypes ==
  /\ well \in WellIds \cup {NULL}
  /\ rows \in [ConfigIds -> EditorRows \cup {NULL}]
  /\ \A i \in ConfigIds : rows[i] # NULL /\ rows[i].form # NULL => Untouched(rows[i].form)
  /\ adding \in [form : MaybeForm, call : Nat]
  /\ record \in [value : TextValues, call : Nat]
  /\ told \in [Tables -> Nat] /\ \A t \in Tables : told[t] <= writes[t]
  /\ count \in [Counters -> Nat]

TableOfOp(op) == IF op = "reading" THEN "readings" ELSE "configs"

(* What a request sends, by what it is for.                                 *)
SentFacts(c) ==
  /\ c.op = "update" =>
       /\ c.i \in ConfigIds /\ c.form \in Forms /\ Untouched(c.form)
       /\ c.row = onValid(c.form) /\ c.row \in Bands
  /\ c.op = "create" => c.row \in Bands
  /\ c.op = "reading" => c.row \in 0..9

(* Only the hooks for thresholds wait, and for entries of thresholds.       *)
ForThresholds(c) == c.op # "reading" /\ \E w \in WellIds : c.awaited = ThresholdsKey(w)

(* A mutation whose callback ran was done.                                  *)
AnswerFacts(c) ==
  /\ c.answer = 200 => c.asOf <= writes[TableOfOp(c.op)]
  /\ c.hooked => c.answer = 200
  /\ ~ c.hooked => c.awaits = NULL /\ c.awaited = NULL
  /\ c.awaits \in {c.awaited, NULL}
  /\ c.awaited # NULL => ForThresholds(c)

CallsInv == calls \subseteq CallTypes /\ \A c \in calls : SentFacts(c) /\ AnswerFacts(c)

(* A row on screen is listed.                                               *)
RowsInv == \A i \in ConfigIds : rows[i] # NULL => i \in Listed(well, cache)

-----------------------------------------------------------------------------
(* The cache.  Every step does to an entry one of the things of QueryCache. *)

CacheStep(x) ==
  \/ Kept(cache[x], cache'[x])
  \/ Took(cache[x], cache'[x])
  \/ Brought(cache[x], cache'[x], Serve(x)) /\ UNCHANGED server

LEMMA InvalidatesKeep ==
  ASSUME CacheTypes, NEW kinds, cache' = InvalidateQueries(kinds)
  PROVE  DOMAIN cache' = Keys /\ \A x \in Keys : CacheStep(x) /\ Kept(cache[x], cache'[x])
<1>1. ASSUME NEW x \in Keys PROVE Kept(cache[x], cache'[x])
  <2>1. (x \in Active(well)) \in BOOLEAN /\ IsEntry(cache[x])
    BY DEF CacheTypes
  <2>2. Kept(cache[x], Invalidated(cache[x], x \in Active(well))) /\ Kept(cache[x], cache[x])
    BY <2>1, OperationsKeep
  <2>3. cache'[x] \in {Invalidated(cache[x], x \in Active(well)), cache[x]}
    BY DEF InvalidateQueries
  <2> QED
    BY <2>2, <2>3
<1> QED
  BY <1>1 DEF InvalidateQueries, CacheStep

LEMMA StepCache ==
  ASSUME CacheTypes, [Next]_vars
  PROVE  DOMAIN cache' = Keys /\ \A x \in Keys : CacheStep(x)
<1> USE DEF CacheTypes
<1>1. ASSUME NEW w, OperationsPage(w)
      PROVE  DOMAIN cache' = Keys /\ \A x \in Keys : CacheStep(x)
  BY <1>1, OperationsKeep DEF OperationsPage, Show, CacheStep
<1>2. ASSUME NEW x \in Keys, ServeGet(x)
      PROVE  DOMAIN cache' = Keys /\ \A y \in Keys : CacheStep(y)
  <2>1. cache'[x] = [cache[x] EXCEPT !.fetch = Answered(Serve(x))]
    BY <1>2 DEF ServeGet
  <2>2. Brought(cache[x], cache'[x], Serve(x))
    BY <2>1, AnswerBrings
  <2>3. UNCHANGED server /\ \A y \in Keys \ {x} : cache'[y] = cache[y]
    BY <1>2 DEF ServeGet
  <2> QED
    BY <1>2, <2>2, <2>3, OperationsKeep DEF ServeGet, CacheStep
<1>3. ASSUME NEW x \in Keys, ReceiveGet(x)
      PROVE  DOMAIN cache' = Keys /\ \A y \in Keys : CacheStep(y)
  <2>1. /\ DOMAIN cache' = Keys /\ cache[x].fetch.state = "answered"
        /\ cache'[x] = Received(cache[x]) /\ \A y \in Keys \ {x} : cache'[y] = cache[y]
    BY <1>3 DEF ReceiveGet, Show
  <2> QED
    BY <2>1, OperationsKeep, ReceivedTakes DEF CacheStep
<1>4. ASSUME NEW x \in Keys, FailGet(x) \/ Refetch(x)
      PROVE  DOMAIN cache' = Keys /\ \A y \in Keys : CacheStep(y)
  BY <1>4, OperationsKeep DEF FailGet, Refetch, CacheStep
<1>5. ASSUME NEW c \in calls, useThresholdMutation(c) \/ useCreateReadingMutation(c)
      PROVE  DOMAIN cache' = Keys /\ \A x \in Keys : CacheStep(x)
  BY <1>5, InvalidatesKeep DEF useThresholdMutation, useCreateReadingMutation
<1>6. CASE UNCHANGED cache
  BY <1>6, OperationsKeep DEF CacheStep
<1> QED
  BY <1>1, <1>2, <1>3, <1>4, <1>5, <1>6 DEF Next, Operator, Network, EditableRow, ThresholdsPanel,
     RecordReadingForm, ServeCall, Settle, LoseCall, OtherWrite, vars

-----------------------------------------------------------------------------
(* The requests under way.  A step sends one, or does one of four things to *)
(* each that it does not end.                                               *)

SameRequest(c, d) ==
  /\ d \in CallTypes /\ d.n = c.n /\ d.op = c.op /\ d.well = c.well /\ d.i = c.i
  /\ d.row = c.row /\ d.form = c.form

SameWait(c, d) ==
  d.hooked = c.hooked /\ d.awaits = c.awaits /\ d.awaited = c.awaited /\ d.missed = c.missed

SameAnswer(c, d) == d.answer = c.answer /\ d.asOf = c.asOf

(* It still waits for the entry, or that arrived, or it missed it.          *)
Waited(c, d) ==
  /\ SameAnswer(c, d) /\ d.hooked = c.hooked /\ d.awaited = c.awaited
  /\ c.missed => d.missed
  /\ \/ d.awaits = c.awaits
     \/ d.awaits = NULL /\ (d.missed \/ Took(cache[c.awaits], cache'[c.awaits]))

(* The server does it or refuses.                                           *)
Served(c, d) ==
  /\ SameWait(c, d) /\ c.answer = NULL
  /\ d.answer = 200 => d.asOf <= writes'[TableOfOp(c.op)]

Lost(c, d) == SameWait(c, d) /\ ~ c.hooked /\ d.answer = 0

(* Its callback invalidates entries, and waits for the one that is shown.   *)
Hooked(c, d) ==
  /\ SameAnswer(c, d) /\ c.answer = 200 /\ d.hooked /\ d.awaits = d.awaited
  /\ d.awaited # NULL => ForThresholds(d) /\ (d.missed \/ cache'[d.awaited].fetch = Asked)

CallStep(c, d) ==
  SameRequest(c, d) /\ (Waited(c, d) \/ Served(c, d) \/ Lost(c, d) \/ Hooked(c, d))

(* What the handlers write.                                                 *)
ServedAs(c, a, t) == [c EXCEPT !.answer = a, !.asOf = t]
HookedOn(c, x, b) == [c EXCEPT !.hooked = TRUE, !.awaits = x, !.awaited = x, !.missed = b]
HookedAlone(c) == [c EXCEPT !.hooked = TRUE]
ResumedAs(c, b) == [c EXCEPT !.awaits = NULL, !.missed = b]
HandedAs(c) == [c EXCEPT !.handed = TRUE]

LEMMA ServedFields ==
  ASSUME NEW c \in CallTypes, NEW a \in Answers, NEW t \in Nat, NEW d, d = ServedAs(c, a, t)
  PROVE  SameRequest(c, d) /\ SameWait(c, d) /\ d.answer = a /\ d.asOf = t
BY DEF CallTypes, ServedAs, SameRequest, SameWait

LEMMA HookedFields ==
  ASSUME NEW c \in CallTypes, NEW x \in MaybeKey, NEW b \in BOOLEAN, NEW d, d = HookedOn(c, x, b)
  PROVE  /\ SameRequest(c, d) /\ SameAnswer(c, d)
         /\ d.hooked /\ d.awaits = x /\ d.awaited = x /\ d.missed = b
BY DEF CallTypes, HookedOn, SameRequest, SameAnswer

LEMMA HookedAloneFields ==
  ASSUME NEW c \in CallTypes, NEW d, d = HookedAlone(c)
  PROVE  /\ SameRequest(c, d) /\ SameAnswer(c, d)
         /\ d.hooked /\ d.awaits = c.awaits /\ d.awaited = c.awaited
BY DEF CallTypes, HookedAlone, SameRequest, SameAnswer

LEMMA ResumedFields ==
  ASSUME NEW c \in CallTypes, NEW b \in BOOLEAN, NEW d, d = ResumedAs(c, b)
  PROVE  /\ SameRequest(c, d) /\ SameAnswer(c, d) /\ d.hooked = c.hooked
         /\ d.awaits = NULL /\ d.awaited = c.awaited /\ d.missed = b
BY DEF CallTypes, ResumedAs, SameRequest, SameAnswer, MaybeKey

LEMMA HandedFields ==
  ASSUME NEW c \in CallTypes, NEW d, d = HandedAs(c)
  PROVE  SameRequest(c, d) /\ SameAnswer(c, d) /\ SameWait(c, d)
BY DEF CallTypes, HandedAs, SameRequest, SameAnswer, SameWait

LEMMA CallStays ==
  ASSUME NEW c \in CallTypes
  PROVE  CallStep(c, c)
BY DEF CallStep, SameRequest, Waited, SameAnswer

(* One step of all that are under way.                                      *)
CallsStep == \A d \in calls' : \E c \in calls : CallStep(c, d)

LEMMA StepReplaces ==
  ASSUME CallsInv, NEW c \in calls, NEW d, CallStep(c, d), calls' \subseteq (calls \ {c}) \cup {d}
  PROVE  CallsStep
<1>1. \A b \in calls : CallStep(b, b)
  BY CallStays DEF CallsInv
<1> QED
  BY <1>1 DEF CallsStep

(* The promises that waited for x.                                          *)
LEMMA ResumedSteps ==
  ASSUME CallsInv, NEW S \in SUBSET calls, NEW x \in Keys, NEW missed \in BOOLEAN,
         missed \/ Took(cache[x], cache'[x]), NEW d \in Resumed(S, x, missed)
  PROVE  \E c \in S : CallStep(c, d)
<1>1. PICK c \in S :
         d = IF c.awaits = x THEN [c EXCEPT !.awaits = NULL, !.missed = @ \/ missed] ELSE c
  BY DEF Resumed
<1>2. c \in CallTypes
  BY DEF CallsInv
<1>3. CASE c.awaits # x
  BY <1>1, <1>2, <1>3, CallStays
<1>4. CASE c.awaits = x
  <2>1. PICK b \in BOOLEAN : b = (c.missed \/ missed) /\ d = ResumedAs(c, b)
    BY <1>1, <1>4 DEF ResumedAs
  <2>2. /\ SameRequest(c, d) /\ SameAnswer(c, d) /\ d.hooked = c.hooked
        /\ d.awaits = NULL /\ d.awaited = c.awaited /\ d.missed = b
    BY <1>2, <2>1, ResumedFields
  <2>3. c.missed \/ missed => d.missed
    BY <2>1, <2>2
  <2>4. Waited(c, d)
    BY <1>4, <2>2, <2>3 DEF Waited
  <2> QED
    BY <2>2, <2>4 DEF CallStep
<1> QED
  BY <1>3, <1>4

(* A fetch of x that is cancelled: a promise waits on with the one after it.*)
LEMMA HandedSteps ==
  ASSUME CallsInv, NEW S \in SUBSET calls, NEW x \in Keys, NEW d \in HandedOn(S, x)
  PROVE  \E c \in S : CallStep(c, d)
<1>1. CASE d \in Resumed({c \in S : c.handed}, x, TRUE)
  <2>1. PICK T \in SUBSET calls : T = {c \in S : c.handed}
    OBVIOUS
  <2>2. \E c \in T : CallStep(c, d)
    BY <1>1, <2>1, ResumedSteps
  <2> QED
    BY <2>1, <2>2
<1>2. CASE d \notin Resumed({c \in S : c.handed}, x, TRUE)
  <2>1. PICK c \in S : d = IF c.awaits = x THEN [c EXCEPT !.handed = TRUE] ELSE c
    BY <1>2 DEF HandedOn
  <2>2. c \in CallTypes
    BY DEF CallsInv
  <2>3. CASE c.awaits # x
    BY <2>1, <2>2, <2>3, CallStays
  <2>4. CASE c.awaits = x
    <3>1. d = HandedAs(c)
      BY <2>1, <2>4 DEF HandedAs
    <3>2. SameRequest(c, d) /\ SameAnswer(c, d) /\ SameWait(c, d)
      BY <2>2, <3>1, HandedFields
    <3> QED
      BY <3>2 DEF CallStep, Waited, SameWait
  <2> QED
    BY <2>3, <2>4
<1> QED
  BY <1>1, <1>2

LEMMA ServeSteps ==
  ASSUME ServerTypes, CallsInv, NEW c \in calls, ServeCall(c)
  PROVE  CallsStep
<1>1. c \in CallTypes /\ c.answer = NULL
  BY DEF CallsInv, ServeCall
<1>2. PICK table : table = TableOfOp(c.op)
  OBVIOUS
<1>3. table \in Tables /\ (c.op = "reading" => table = "readings") /\ (c.op # "reading" => table = "configs")
  BY <1>2 DEF TableOfOp, Tables
<1>4. PICK a \in Answers, t \in Nat : a = StatusOf(c) /\ t = writes[table] + 1
  BY <1>3 DEF StatusOf, Answers, ServerTypes
<1>5. PICK d : d = ServedAs(c, a, t) /\ calls' = (calls \ {c}) \cup {d}
  BY <1>2, <1>4 DEF ServeCall, ServedAs, TableOfOp
<1>6. SameRequest(c, d) /\ SameWait(c, d) /\ d.answer = a /\ d.asOf = t
  BY <1>1, <1>5, ServedFields
<1>7. ASSUME a = 200 PROVE d.asOf <= writes'[table]
  <2>1. writes' = [writes EXCEPT ![table] = @ + 1]
    BY <1>2, <1>4, <1>7 DEF ServeCall, TableOfOp
  <2> QED
    BY <1>3, <1>4, <1>6, <2>1 DEF ServerTypes
<1>8. Served(c, d)
  BY <1>1, <1>2, <1>6, <1>7 DEF Served
<1> QED
  BY <1>5, <1>6, <1>8, StepReplaces DEF CallStep

LEMMA LoseSteps ==
  ASSUME CallsInv, NEW c \in calls, LoseCall(c)
  PROVE  CallsStep
<1> DEFINE d == [c EXCEPT !.answer = 0]
<1>1. calls' = (calls \ {c}) \cup {d} /\ ~ c.hooked /\ c \in CallTypes
  BY DEF LoseCall, CallsInv
<1>2. SameRequest(c, d) /\ SameWait(c, d) /\ d.answer = 0
  BY <1>1 DEF CallTypes, SameRequest, SameWait, Answers
<1> HIDE DEF d
<1>3. CallStep(c, d)
  BY <1>1, <1>2 DEF CallStep, Lost
<1> QED
  BY <1>1, <1>3, StepReplaces

LEMMA ThresholdMutationSteps ==
  ASSUME CacheTypes, PageTypes, CallsInv, NEW c \in calls, useThresholdMutation(c)
  PROVE  CallsStep
<1> DEFINE key == IF well = NULL THEN NULL ELSE ThresholdsKey(well)
           early == key # NULL /\ ~ HasData(cache[key]) /\ IsFetching(cache[key])
           others == IF key # NULL /\ HasData(cache[key]) THEN HandedOn(calls \ {c}, key)
                     ELSE calls \ {c}
<1>1. PICK x \in MaybeKey, b \in BOOLEAN : x = key /\ b = early
  BY DEF PageTypes, MaybeKey, Keys
<1>2. PICK d : d = HookedOn(c, x, b) /\ calls' = others \cup {d}
  BY <1>1 DEF useThresholdMutation, HookedOn
<1>3. c \in CallTypes /\ c.answer = 200 /\ cache' = InvalidateQueries({"thresholds"})
  BY DEF CallsInv, useThresholdMutation
<1>4. /\ SameRequest(c, d) /\ SameAnswer(c, d)
      /\ d.hooked /\ d.awaits = x /\ d.awaited = x /\ d.missed = b
  BY <1>2, <1>3, HookedFields
<1>5. ASSUME x # NULL, ~ b PROVE cache'[x].fetch = Asked
  <2>1. well # NULL /\ x = ThresholdsKey(well) /\ x \in Keys
    BY <1>1, <1>5 DEF MaybeKey
  <2>2. x \in Active(well) /\ x[1] = "thresholds"
    BY <2>1 DEF Active, ThresholdsKey
  <2>3. cache'[x] = Invalidated(cache[x], TRUE) /\ IsEntry(cache[x])
    BY <1>3, <2>1, <2>2 DEF InvalidateQueries, CacheTypes
  <2>4. ~ IsFetching(cache[x]) \/ HasData(cache[x])
    BY <1>1, <1>5
  <2> QED
    BY <2>3, <2>4, InvalidatedFields
<1>6. CallStep(c, d)
  <2>1. c.op # "reading"
    BY DEF useThresholdMutation
  <2>2. x # NULL => ForThresholds(d)
    BY <1>1, <1>4, <2>1 DEF ForThresholds, SameRequest, PageTypes
  <2> QED
    BY <1>3, <1>4, <1>5, <2>2 DEF CallStep, Hooked
<1>7. ASSUME NEW e \in others PROVE \E f \in calls : CallStep(f, e)
  <2>1. CASE e \in calls \ {c}
    BY <2>1, CallStays DEF CallsInv
  <2>2. CASE key # NULL /\ e \in HandedOn(calls \ {c}, key)
    <3>1. x \in Keys /\ e \in HandedOn(calls \ {c}, x)
      BY <1>1, <2>2 DEF MaybeKey
    <3> QED
      BY <3>1, HandedSteps
  <2> QED
    BY <1>7, <2>1, <2>2
<1> QED
  BY <1>2, <1>6, <1>7 DEF CallsStep

LEMMA ReadingMutationSteps ==
  ASSUME CallsInv, NEW c \in calls, useCreateReadingMutation(c)
  PROVE  CallsStep
<1>1. PICK d : d = HookedAlone(c) /\ calls' = (calls \ {c}) \cup {d}
  BY DEF useCreateReadingMutation, HookedAlone
<1>2. c \in CallTypes /\ c.answer = 200 /\ c.awaits = NULL /\ c.awaited = NULL
  BY DEF CallsInv, AnswerFacts, useCreateReadingMutation
<1>3. /\ SameRequest(c, d) /\ SameAnswer(c, d)
      /\ d.hooked /\ d.awaits = c.awaits /\ d.awaited = c.awaited
  BY <1>1, <1>2, HookedAloneFields
<1>4. CallStep(c, d)
  BY <1>2, <1>3 DEF CallStep, Hooked
<1> QED
  BY <1>1, <1>4, StepReplaces

LEMMA ResumeSteps ==
  ASSUME CallsInv, NEW x \in Keys, NEW missed \in BOOLEAN, calls' = Resumed(calls, x, missed),
         missed \/ Took(cache[x], cache'[x])
  PROVE  CallsStep
BY ResumedSteps DEF CallsStep

(* A request that a form or a row sends: it is on its own way to the server.*)
Asks(d) ==
  /\ d \in CallTypes /\ SentFacts(d) /\ d.answer # 200
  /\ ~ d.hooked /\ d.awaits = NULL /\ d.awaited = NULL

Asking(n, op, w, i, row, f) ==
  [n |-> n, op |-> op, well |-> w, i |-> i, row |-> row, form |-> f, answer |-> NULL, asOf |-> 0,
   hooked |-> FALSE, awaits |-> NULL, awaited |-> NULL, handed |-> FALSE, missed |-> FALSE]

LEMMA CallAsks ==
  ASSUME PageTypes, NEW op \in {"create", "update", "delete", "reading"}, NEW w \in WellIds,
         NEW i \in ConfigIds \cup {0}, NEW row \in Sent, NEW f \in MaybeForm,
         Call(op, w, i, row, f),
         op = "update" => /\ i \in ConfigIds /\ f \in Forms /\ Untouched(f)
                          /\ row = onValid(f) /\ row \in Bands,
         op = "create" => row \in Bands, op = "reading" => row \in 0..9
  PROVE  \E d : Asks(d) /\ calls' = calls \cup {d}
<1>1. PICK n \in Nat : n = count.saves + 1
  BY DEF PageTypes, Counters
<1>2. PICK d : d = Asking(n, op, w, i, row, f) /\ calls' = calls \cup {d}
  BY <1>1 DEF Call, Asking
<1>3. d \in CallTypes
  BY <1>2 DEF CallTypes, Asking, Answers, MaybeKey
<1>4. d.op = op /\ d.i = i /\ d.row = row /\ d.form = f
  BY <1>2 DEF Asking
<1>5. d.answer = NULL /\ ~ d.hooked /\ d.awaits = NULL /\ d.awaited = NULL
  BY <1>2 DEF Asking
<1>6. d.answer # 200
  BY <1>5, NullIsItself
<1>7. SentFacts(d)
  BY <1>4 DEF SentFacts
<1> QED
  BY <1>2, <1>3, <1>5, <1>6, <1>7 DEF Asks

-----------------------------------------------------------------------------
(* The forms.                                                               *)

LEMMA ValidBandsConvert ==
  ASSUME NEW f \in Forms, thresholdSchema(f.values)
  PROVE  onValid(f) \in Bands
<1>1. ASSUME NEW b \in BandNames PROVE toBand(f.values[b]) \in (0..9) \cup {NULL}
  <2>1. PICK t : t = f.values[b]
    OBVIOUS
  <2>2. t \in TextValues
    BY <2>1 DEF Forms
  <2>3. t = "" \/ t # "x"
    BY <2>1, Zenon DEF thresholdSchema, numberField, IsNaN
  <2>4. t # "" => Number(t) \in 0..9
    BY <2>2, <2>3, NumbersHaveOneDigit, Zenon
  <2>5. toBand(t) \in {NULL, Number(t)} /\ (t = "" => toBand(t) = NULL)
    BY Zenon DEF toBand
  <2>6. toBand(t) \in (0..9) \cup {NULL}
    BY <2>4, <2>5, Zenon
  <2> QED
    BY <2>1, <2>6
<1> QED
  BY <1>1 DEF onValid, Bands

LEMMA NewFormIsAForm ==
  ASSUME NEW band \in Bands \cup {NULL}
  PROVE  NewForm(band) \in Forms /\ (band # NULL => Untouched(NewForm(band)))
<1>1. ASSUME NEW b \in BandNames
      PROVE  Defaults(band)[b] \in TextValues /\ (band # NULL => Defaults(band)[b] = Text(band[b]))
  <2>1. CASE band = NULL
    <3>1. Defaults(band)[b] = ""
      BY <2>1, Zenon DEF Defaults
    <3> QED
      BY <2>1, <3>1, Zenon DEF TextValues
  <2>2. CASE band # NULL
    <3>1. Defaults(band)[b] = Text(band[b])
      BY <2>2, Zenon DEF Defaults
    <3>2. band[b] \in (0..9) \cup {NULL}
      BY <2>2 DEF Bands
    <3> QED
      BY <3>1, <3>2, BandsAreConvertedBack, Zenon
  <2> QED
    BY <2>1, <2>2
<1>2. Defaults(band) \in [BandNames -> TextValues]
  <2>1. DOMAIN Defaults(band) = BandNames /\ Defaults(band) = [b \in BandNames |-> Defaults(band)[b]]
    BY DEF Defaults
  <2> QED
    BY <1>1, <2>1
<1>3. NewForm(band) = [values |-> Defaults(band), typed |-> {}, from |-> band]
  BY DEF NewForm
<1> QED
  BY <1>1, <1>2, <1>3 DEF Forms, Untouched

LEMMA TypingKeepsTheRest ==
  ASSUME NEW f \in Forms, NEW g \in ThresholdForm(f)
  PROVE  g \in Forms /\ (Untouched(f) => Untouched(g))
<1>1. PICK b \in BandNames \ f.typed, t \in Texts :
         g = Typed(f, b, t)
  BY DEF ThresholdForm
<1>2. t \in TextValues
  BY TextAssumption, Zenon DEF TextValues
<1>3. g.values = [f.values EXCEPT ![b] = t] /\ g.typed = f.typed \cup {b} /\ g.from = f.from
  BY <1>1 DEF Forms, Typed
<1>4. g \in Forms
  BY <1>1, <1>2 DEF Forms, Typed
<1> QED
  BY <1>3, <1>4 DEF Forms, Untouched

(* What the cache holds: typed responses, and those of thresholds have only *)
(* configs of their well.                                                   *)

ListedBands == [got : [ConfigIds -> Bands \cup {NULL}], asOf : Nat]

ResponseFacts(x, d) ==
  /\ \A w \in WellIds : x = ThresholdsKey(w) =>
       /\ d \in ListedBands
       /\ \A i \in ConfigIds : d.got[i] # NULL =>
            i < next /\ (configs[i] # NULL => configs[i].well = w)
  /\ \A w \in WellIds : x = ReadingsKey(w) =>
       \E k \in 1..(Len(readings[w]) + 1) : d.got = SubSeq(readings[w], k, Len(readings[w]))

DataInv == \A x \in Keys : \A d \in Holds(cache[x]) : ResponseFacts(x, d)

LEMMA ListedHaveBands ==
  ASSUME DataInv, NEW w \in WellIds \cup {NULL}, NEW i \in Listed(w, cache)
  PROVE  /\ w \in WellIds /\ i \in ConfigIds
         /\ ResponseFacts(ThresholdsKey(w), cache[ThresholdsKey(w)].data)
         /\ cache[ThresholdsKey(w)].data.got[i] \in Bands
         /\ cache[ThresholdsKey(w)].data.got[i] # NULL
<1>1. /\ w \in WellIds /\ i \in ConfigIds /\ HasData(cache[ThresholdsKey(w)])
      /\ cache[ThresholdsKey(w)].data.got[i] # NULL
  BY DEF Listed
<1>2. ThresholdsKey(w) \in Keys
  BY <1>1 DEF Keys
<1>3. ResponseFacts(ThresholdsKey(w), cache[ThresholdsKey(w)].data)
  BY <1>1, <1>2 DEF DataInv, Holds
<1>4. cache[ThresholdsKey(w)].data \in ListedBands
  BY <1>1, <1>3 DEF ResponseFacts
<1> QED
  BY <1>1, <1>3, <1>4 DEF ListedBands

-----------------------------------------------------------------------------
(* What a step does to the requests.                                        *)

Sends == UNCHANGED calls \/ \E d : Asks(d) /\ calls' = calls \cup {d}

LEMMA RowSends ==
  ASSUME PageTypes, RowsInv, DataInv, NEW i \in ConfigIds, EditableRow(i)
  PROVE  Sends
<1>1. /\ well \in WellIds
      /\ rows[i] \in EditorRows
      /\ rows[i].form # NULL => rows[i].form \in Forms /\ Untouched(rows[i].form)
  <2>1. rows[i] # NULL /\ i \in Listed(well, cache)
    BY DEF EditableRow, RowsInv
  <2> QED
    BY <2>1, ListedHaveBands DEF PageTypes, EditorRows, MaybeForm
<1>2. CASE Call("delete", well, i, NULL, NULL)
  <2>1. NULL \in Sent /\ NULL \in MaybeForm
    BY DEF Sent, MaybeForm
  <2> QED
    BY <1>1, <1>2, <2>1, CallAsks DEF Sends
<1>3. CASE /\ rows[i].form # NULL /\ thresholdSchema(rows[i].form.values)
           /\ Call("update", well, i, onValid(rows[i].form), rows[i].form)
  <2>1. PICK f \in Forms : f = rows[i].form
    BY <1>1, <1>3
  <2>2. Untouched(f) /\ thresholdSchema(f.values) /\ f \in MaybeForm
    BY <1>1, <1>3, <2>1 DEF MaybeForm
  <2>3. PICK row \in Bands : row = onValid(f)
    BY <2>2, ValidBandsConvert
  <2>4. Call("update", well, i, row, f) /\ row \in Sent
    BY <1>3, <2>1, <2>3 DEF Sent
  <2> QED
    BY <1>1, <2>2, <2>3, <2>4, CallAsks DEF Sends
<1> QED
  BY <1>2, <1>3 DEF EditableRow, Sends

LEMMA PanelSends ==
  ASSUME PageTypes, ThresholdsPanel
  PROVE  Sends
<1>1. well \in WellIds
  BY DEF PageTypes, ThresholdsPanel
<1>2. CASE /\ adding.form # NULL /\ thresholdSchema(adding.form.values)
           /\ Call("create", well, 0, onValid(adding.form), adding.form)
  <2>1. PICK f \in Forms : f = adding.form
    BY <1>2 DEF PageTypes, MaybeForm
  <2>2. thresholdSchema(f.values) /\ f \in MaybeForm
    BY <1>2, <2>1 DEF MaybeForm
  <2>3. PICK row \in Bands : row = onValid(f)
    BY <2>2, ValidBandsConvert
  <2>4. Call("create", well, 0, row, f) /\ row \in Sent
    BY <1>2, <2>1, <2>3 DEF Sent
  <2> QED
    BY <1>1, <2>2, <2>3, <2>4, CallAsks DEF Sends
<1> QED
  BY <1>2 DEF ThresholdsPanel, Sends

LEMMA RecordSends ==
  ASSUME PageTypes, RecordReadingForm
  PROVE  Sends
<1>1. well \in WellIds
  BY DEF PageTypes, RecordReadingForm
<1>2. CASE /\ readingSchema(record.value)
           /\ Call("reading", well, 0, Number(record.value), NULL)
  <2>1. PICK t \in TextValues : t = record.value
    BY DEF PageTypes
  <2>2. t # "" /\ t # "x"
    BY <1>2, <2>1, Zenon DEF readingSchema, IsNaN
  <2>3. PICK v \in 0..9 : v = Number(t)
    BY <2>1, <2>2, NumbersHaveOneDigit, Zenon
  <2>4. Call("reading", well, 0, v, NULL) /\ v \in Sent /\ NULL \in MaybeForm
    BY <1>2, <2>1, <2>3 DEF Sent, MaybeForm
  <2> QED
    BY <1>1, <2>3, <2>4, CallAsks DEF Sends
<1> QED
  BY <1>2 DEF RecordReadingForm, Sends

StepOfCalls == CallsStep \/ (UNCHANGED <<server, cache, well>> /\ Sends)

LEMMA StepCalls ==
  ASSUME ServerTypes, CacheTypes, PageTypes, CallsInv, RowsInv, DataInv, [Next]_vars
  PROVE  StepOfCalls
<1>1. CASE UNCHANGED calls
  BY <1>1, CallStays DEF CallsInv, CallsStep, StepOfCalls
<1>2. ASSUME NEW i \in ConfigIds, EditableRow(i) PROVE StepOfCalls
  BY <1>2, RowSends DEF StepOfCalls, EditableRow
<1>3. CASE ThresholdsPanel
  BY <1>3, PanelSends DEF StepOfCalls, ThresholdsPanel
<1>4. CASE RecordReadingForm
  BY <1>4, RecordSends DEF StepOfCalls, RecordReadingForm
<1>5. ASSUME NEW x \in Keys, ReceiveGet(x) PROVE CallsStep
  <2>1. cache[x].fetch.state = "answered" /\ cache'[x] = Received(cache[x])
    BY <1>5 DEF ReceiveGet, Show, CacheTypes
  <2>2. Took(cache[x], cache'[x])
    BY <2>1, ReceivedTakes DEF CacheTypes
  <2> QED
    BY <1>5, <2>2, ResumeSteps DEF ReceiveGet
<1>6. ASSUME NEW x \in Keys, FailGet(x) PROVE CallsStep
  BY <1>6, ResumeSteps DEF FailGet
<1>7. ASSUME NEW c \in calls, Settle(c) PROVE CallsStep
  BY <1>7, CallStays DEF Settle, CallsInv, CallsStep
<1>8. ASSUME NEW c \in calls, ServeCall(c) \/ LoseCall(c) \/ useThresholdMutation(c)
                              \/ useCreateReadingMutation(c)
      PROVE  CallsStep
  BY <1>8, ServeSteps, LoseSteps, ThresholdMutationSteps, ReadingMutationSteps
<1>9. CASE \E w : OperationsPage(w)
  BY <1>1, <1>9 DEF OperationsPage
<1>10. CASE \E x \in Keys : ServeGet(x) \/ Refetch(x)
  BY <1>1, <1>10 DEF ServeGet, Refetch
<1> QED
  BY <1>1, <1>2, <1>3, <1>4, <1>5, <1>6, <1>7, <1>8, <1>9, <1>10
     DEF Next, Operator, Network, OtherWrite, vars, StepOfCalls

-----------------------------------------------------------------------------
(* The server.  A config keeps its well, a new one has a new id, readings   *)
(* are put before the others.                                               *)

ConfigsGrow ==
  \A i \in ConfigIds : configs'[i] # NULL =>
    i >= next \/ (configs[i] # NULL /\ configs'[i].well = configs[i].well)

ReadingsGrow ==
  \A w \in WellIds : \/ readings'[w] = readings[w]
                     \/ \E v \in 0..9 : readings'[w] = <<v>> \o readings[w]

ServerGrows ==
  /\ ConfigsGrow /\ ReadingsGrow
  /\ next' >= next
  /\ \A t \in Tables : writes'[t] >= writes[t]

LEMMA TablePut ==
  ASSUME NEW S, NEW T, NEW f \in [S -> T], NEW k, NEW v \in T, NEW g, g = [f EXCEPT ![k] = v]
  PROVE  g \in [S -> T] /\ \A i \in S : g[i] = IF i = k THEN v ELSE f[i]
OBVIOUS

LEMMA BandReplaced ==
  ASSUME NEW r \in Rows, NEW band \in Bands, NEW q, q = [r EXCEPT !.band = band]
  PROVE  q \in Rows /\ q.well = r.well
BY DEF Rows

LEMMA BandTyped ==
  ASSUME NEW band \in Bands, NEW b, NEW v \in 0..9
  PROVE  [band EXCEPT ![b] = v] \in Bands
BY DEF Bands

LEMMA ServedConfigs ==
  ASSUME ServerTypes, NEW c \in CallTypes, SentFacts(c), ServeCall(c)
  PROVE  /\ configs' \in [ConfigIds -> Rows \cup {NULL}]
         /\ \A i \in ConfigIds : configs'[i] # NULL => i < next'
         /\ ConfigsGrow /\ next' \in Nat /\ next' >= next
<1>1. PICK n \in Nat, t \in [ConfigIds -> Rows \cup {NULL}] : n = next /\ t = configs
  BY DEF ServerTypes
<1>2. \A i \in ConfigIds : i \in Nat /\ (t[i] # NULL => i < n)
  BY <1>1, OperationsFormsAssumption DEF ServerTypes
<1>3. CASE UNCHANGED <<configs, next>>
  BY <1>1, <1>2, <1>3 DEF ConfigsGrow
<1>4. CASE /\ c.op = "create" /\ next' = next + 1
           /\ configs' = [configs EXCEPT ![next] = [well |-> c.well, band |-> c.row]]
  <2>1. PICK r \in Rows : r = [well |-> c.well, band |-> c.row]
    BY <1>4 DEF Rows, SentFacts, CallTypes
  <2>2. PICK u : u = [t EXCEPT ![n] = r]
    OBVIOUS
  <2>3. u \in [ConfigIds -> Rows \cup {NULL}] /\ \A i \in ConfigIds : u[i] = IF i = n THEN r ELSE t[i]
    BY <2>2, TablePut
  <2>4. configs' = u /\ next' = n + 1
    BY <1>1, <1>4, <2>1, <2>2
  <2> QED
    BY <1>1, <1>2, <2>3, <2>4 DEF ConfigsGrow
<1>5. CASE /\ c.op = "update" /\ next' = next /\ configs[c.i] # NULL
           /\ configs' = [configs EXCEPT ![c.i].band = c.row]
  <2>1. PICK k \in ConfigIds, band \in Bands : k = c.i /\ band = c.row
    BY <1>5 DEF SentFacts
  <2>2. PICK q \in Rows : q = t[k]
    BY <1>1, <1>5, <2>1
  <2>3. PICK r \in Rows : r = [q EXCEPT !.band = band] /\ r.well = q.well
    BY BandReplaced
  <2>4. PICK u : u = [t EXCEPT ![k] = r]
    OBVIOUS
  <2>5. u \in [ConfigIds -> Rows \cup {NULL}] /\ \A i \in ConfigIds : u[i] = IF i = k THEN r ELSE t[i]
    BY <2>4, TablePut
  <2>6. configs' = u /\ next' = n
    BY <1>1, <1>5, <2>1, <2>2, <2>3, <2>4
  <2>7. t[k] # NULL
    BY <1>1, <1>5, <2>1
  <2>8. \A i \in ConfigIds : u[i] # NULL => i < n /\ t[i] # NULL /\ u[i].well = t[i].well
    BY <1>2, <2>2, <2>3, <2>5, <2>7
  <2> QED
    BY <1>1, <2>5, <2>6, <2>8 DEF ConfigsGrow
<1>6. CASE next' = next /\ configs' = [configs EXCEPT ![c.i] = NULL]
  <2>1. PICK k, u : k = c.i /\ u = [t EXCEPT ![k] = NULL]
    OBVIOUS
  <2>2. u \in [ConfigIds -> Rows \cup {NULL}] /\ \A i \in ConfigIds : u[i] = IF i = k THEN NULL ELSE t[i]
    BY <2>1, TablePut
  <2>3. configs' = u /\ next' = n
    BY <1>1, <1>6, <2>1
  <2> QED
    BY <1>1, <1>2, <2>2, <2>3 DEF ConfigsGrow
<1>7. c.op \in {"create", "update", "delete", "reading"}
  BY DEF CallTypes
<1>8. StatusOf(c) = 200 /\ c.op = "update" => configs[c.i] # NULL
  BY DEF StatusOf
<1> QED
  BY <1>3, <1>4, <1>5, <1>6, <1>7, <1>8 DEF ServeCall

LEMMA ServedReadings ==
  ASSUME ServerTypes, NEW c \in CallTypes, SentFacts(c), ServeCall(c)
  PROVE  readings' \in [WellIds -> Seq(0..9)] /\ ReadingsGrow
<1> USE DEF ServerTypes, ReadingsGrow
<1>1. CASE UNCHANGED readings
  BY <1>1
<1>2. CASE c.op = "reading" /\ readings' = [readings EXCEPT ![c.well] = <<c.row>> \o @]
  <2>1. c.well \in WellIds /\ c.row \in 0..9 /\ <<c.row>> \in Seq(0..9)
    BY <1>2 DEF SentFacts, CallTypes
  <2>2. PICK r \in Seq(0..9) : r = <<c.row>> \o readings[c.well]
    BY <2>1, ConcatProperties
  <2>3. readings' = [readings EXCEPT ![c.well] = r]
    BY <1>2, <2>1, <2>2
  <2> QED
    BY <2>1, <2>2, <2>3
<1> QED
  BY <1>1, <1>2 DEF ServeCall

LEMMA ServedWrites ==
  ASSUME ServerTypes, NEW c \in CallTypes, ServeCall(c)
  PROVE  writes' \in [Tables -> Nat] /\ \A t \in Tables : writes'[t] >= writes[t]
<1>1. PICK table \in Tables : table = TableOfOp(c.op)
  BY DEF Tables, TableOfOp
<1>2. writes' \in {writes, [writes EXCEPT ![table] = @ + 1]}
  BY <1>1 DEF ServeCall, TableOfOp
<1> QED
  BY <1>1, <1>2 DEF ServerTypes

LEMMA OthersWrite ==
  ASSUME ServerTypes, OtherWrite
  PROVE  /\ configs' \in [ConfigIds -> Rows \cup {NULL}]
         /\ \A i \in ConfigIds : configs'[i] # NULL =>
              configs[i] # NULL /\ configs'[i].well = configs[i].well
<1> USE DEF ServerTypes
<1>1. PICK i \in ConfigIds : /\ configs[i] # NULL
                            /\ \/ configs' = [configs EXCEPT ![i] = NULL]
                               \/ \E b \in BandNames : configs' = [configs EXCEPT ![i].band[b] = 9]
  BY DEF OtherWrite
<1>2. CASE configs' = [configs EXCEPT ![i] = NULL]
  BY <1>1, <1>2
<1>3. ASSUME NEW b \in BandNames, configs' = [configs EXCEPT ![i].band[b] = 9]
      PROVE  /\ configs' \in [ConfigIds -> Rows \cup {NULL}]
             /\ \A j \in ConfigIds : configs'[j] # NULL =>
                  configs[j] # NULL /\ configs'[j].well = configs[j].well
  <2>1. PICK q \in Rows : q = configs[i]
    BY <1>1
  <2>2. PICK old \in Bands : old = q.band
    BY DEF Rows
  <2>3. PICK nine \in 0..9, band \in Bands : nine = 9 /\ band = [old EXCEPT ![b] = nine]
    <3>1. PICK nine \in 0..9 : nine = 9
      OBVIOUS
    <3> QED
      BY <3>1, BandTyped
  <2>4. PICK r \in Rows : r = [q EXCEPT !.band = band] /\ r.well = q.well
    BY BandReplaced
  <2>5. configs' = [configs EXCEPT ![i] = r]
    BY <1>3, <2>1, <2>2, <2>3, <2>4
  <2> QED
    BY <1>1, <2>1, <2>4, <2>5
<1> QED
  BY <1>1, <1>2, <1>3

LEMMA StepServer ==
  ASSUME ServerTypes, CallsInv, [Next]_vars
  PROVE  ServerTypes' /\ ServerGrows
<1>1. CASE UNCHANGED server
  BY <1>1 DEF server, ServerTypes, ServerGrows, ConfigsGrow, ReadingsGrow
<1>2. ASSUME NEW c \in calls, ServeCall(c) PROVE ServerTypes' /\ ServerGrows
  <2>1. c \in CallTypes /\ SentFacts(c)
    BY DEF CallsInv
  <2> QED
    BY <1>2, <2>1, ServedConfigs, ServedReadings, ServedWrites DEF ServerTypes, ServerGrows
<1>3. CASE OtherWrite
  <2>1. UNCHANGED <<next, readings, writes>>
    BY <1>3 DEF OtherWrite
  <2> QED
    BY <1>3, <2>1, OthersWrite DEF ServerTypes, ServerGrows, ConfigsGrow, ReadingsGrow
<1> QED
  BY <1>1, <1>2, <1>3 DEF Next, Operator, Network, OperationsPage, EditableRow, ThresholdsPanel,
     RecordReadingForm, ServeGet, ReceiveGet, FailGet, Refetch, useThresholdMutation,
     useCreateReadingMutation, Settle, LoseCall, vars

-----------------------------------------------------------------------------
(* The page.                                                                *)

LEMMA StepCount ==
  ASSUME PageTypes, [Next]_vars
  PROVE  count' \in [Counters -> Nat]
<1>1. count \in [Counters -> Nat]
  BY DEF PageTypes
<1>2. CASE UNCHANGED count
  BY <1>1, <1>2
<1>3. ASSUME NEW what \in Counters, Counted(what) PROVE count' \in [Counters -> Nat]
  BY <1>1, <1>3 DEF Counted
<1>4. UNCHANGED count \/ \E what \in Counters : Counted(what)
  BY DEF Counters, Next, Operator, Network, OperationsPage, EditableRow, ThresholdsPanel,
     RecordReadingForm, ServeGet, ReceiveGet, FailGet, Refetch, useThresholdMutation,
     useCreateReadingMutation, Settle, LoseCall, ServeCall, OtherWrite, Call, vars
<1> QED
  BY <1>2, <1>3, <1>4

ToldTypes == told \in [Tables -> Nat] /\ \A t \in Tables : told[t] <= writes[t]

LEMMA StepTold ==
  ASSUME ServerTypes, ToldTypes, CallsInv, [Next]_vars
  PROVE  ToldTypes'
<1>1. PICK f \in [Tables -> Nat], g \in [Tables -> Nat] : f = writes /\ g = writes'
  BY StepServer DEF ServerTypes
<1>2. \A t \in Tables : told[t] <= f[t] /\ f[t] <= g[t]
  BY <1>1, StepServer DEF ToldTypes, ServerGrows
<1>3. CASE UNCHANGED told
  BY <1>1, <1>2, <1>3 DEF ToldTypes
<1>4. ASSUME NEW c \in calls, NEW table \in Tables, table = TableOfOp(c.op), c.answer = 200,
             Heard(c, table)
      PROVE  ToldTypes'
  <2>1. PICK a \in Nat : a = c.asOf
    BY DEF CallsInv, CallTypes
  <2>2. a <= f[table]
    BY <1>1, <1>4, <2>1 DEF CallsInv, AnswerFacts
  <2>3. PICK h \in [Tables -> Nat] : h = told
    BY DEF ToldTypes
  <2>4. PICK m \in Nat : m = (IF a > h[table] THEN a ELSE h[table]) /\ m <= f[table]
    BY <1>2, <2>2, <2>3
  <2>5. told' = [h EXCEPT ![table] = m]
    BY <1>4, <2>1, <2>3, <2>4 DEF Heard
  <2> QED
    BY <1>1, <1>2, <2>3, <2>4, <2>5 DEF ToldTypes
<1>5. \/ UNCHANGED told
      \/ \E c \in calls : \E table \in Tables :
           table = TableOfOp(c.op) /\ c.answer = 200 /\ Heard(c, table)
  BY DEF Next, Operator, Network, OperationsPage, EditableRow, ThresholdsPanel,
     RecordReadingForm, ServeGet, ReceiveGet, FailGet, Refetch, useThresholdMutation,
     useCreateReadingMutation, Settle, LoseCall, ServeCall, OtherWrite, vars, TableOfOp, Tables
<1> QED
  BY <1>3, <1>4, <1>5

LEMMA StepWell ==
  ASSUME PageTypes, [Next]_vars
  PROVE  well' \in WellIds \cup {NULL}
BY DEF PageTypes, Next, Operator, Network, OperationsPage, EditableRow, ThresholdsPanel,
   RecordReadingForm, ServeGet, ReceiveGet, FailGet, Refetch, useThresholdMutation,
   useCreateReadingMutation, Settle, LoseCall, ServeCall, OtherWrite, Show, vars

(* An editor as the page may hold it.                                       *)
Editor(r) ==
  r # NULL => r \in EditorRows /\ (r.form # NULL => r.form \in Forms /\ Untouched(r.form))

RowTypes == DOMAIN rows = ConfigIds /\ rows = [i \in ConfigIds |-> rows[i]] /\ \A i \in ConfigIds : Editor(rows[i])

LEMMA RowTypesAreTypes ==
  ASSUME RowTypes
  PROVE  /\ rows \in [ConfigIds -> EditorRows \cup {NULL}]
         /\ \A i \in ConfigIds : rows[i] # NULL /\ rows[i].form # NULL => Untouched(rows[i].form)
BY DEF RowTypes, Editor

LEMMA TypesAreRowTypes ==
  ASSUME PageTypes
  PROVE  RowTypes
BY DEF PageTypes, RowTypes, Editor, EditorRows, MaybeForm

(* What is done to a row.                                                   *)
LEMMA EditorOpens ==
  ASSUME NEW r \in EditorRows, NEW f, f = NULL \/ (f \in Forms /\ Untouched(f)),
         NEW q, q = [r EXCEPT !.form = f]
  PROVE  Editor(q)
BY DEF Editor, EditorRows, MaybeForm

LEMMA EditorCalls ==
  ASSUME NEW r \in EditorRows, Editor(r), r # NULL, NEW n \in Nat
  PROVE  Editor([r EXCEPT !.call = n]) /\ Editor([r EXCEPT !.del = n])
BY DEF Editor, EditorRows

LEMMA EditorEnds ==
  ASSUME NEW r \in EditorRows
  PROVE  Editor([r EXCEPT !.call = 0, !.form = NULL])
BY DEF Editor, EditorRows, MaybeForm

LEMMA StepRows ==
  ASSUME PageTypes, RowsInv, DataInv, [Next]_vars
  PROVE  RowTypes'
<1>1. RowTypes
  BY TypesAreRowTypes
<1>2. CASE UNCHANGED rows
  BY <1>1, <1>2 DEF RowTypes
<1>3. Editor(NewRow) /\ Editor(NULL)
  BY DEF Editor, NewRow, EditorRows, MaybeForm
<1>4. ASSUME NEW w, NEW c, Show(w, c, rows) PROVE RowTypes'
  BY <1>1, <1>3, <1>4 DEF Show, RowTypes
<1>5. ASSUME NEW i \in ConfigIds, NEW q, Editor(q), rows' = [rows EXCEPT ![i] = q] PROVE RowTypes'
  BY <1>1, <1>5 DEF RowTypes
<1>6. ASSUME NEW i \in ConfigIds, EditableRow(i) PROVE RowTypes'
  <2>1. PICK r \in EditorRows : r = rows[i] /\ r # NULL /\ Editor(r)
    BY <1>1, <1>6 DEF EditableRow, RowTypes, Editor
  <2>2. PICK n \in Nat : n = count.saves + 1
    BY DEF PageTypes, Counters
  <2>3. CASE rows' = [rows EXCEPT ![i].form = NewForm(cache[ThresholdsKey(well)].data.got[i])]
    <3>1. i \in Listed(well, cache) /\ well \in WellIds \cup {NULL}
      BY <2>1 DEF RowsInv, PageTypes
    <3>2. PICK band \in Bands : band = cache[ThresholdsKey(well)].data.got[i] /\ band # NULL
      BY <3>1, ListedHaveBands
    <3>3. PICK f, q : f = NewForm(band) /\ q = [r EXCEPT !.form = f]
      OBVIOUS
    <3>4. Editor(q)
      BY <3>2, <3>3, NewFormIsAForm, EditorOpens
    <3>5. rows' = [rows EXCEPT ![i] = q]
      BY <2>1, <2>3, <3>2, <3>3
    <3> QED
      BY <1>5, <3>4, <3>5
  <2>4. CASE \/ rows' = [rows EXCEPT ![i].del = count.saves + 1]
             \/ rows' = [rows EXCEPT ![i].call = count.saves + 1]
    <3>1. Editor([r EXCEPT !.del = n]) /\ Editor([r EXCEPT !.call = n])
      BY <2>1, EditorCalls
    <3> QED
      BY <1>5, <2>1, <2>2, <2>4, <3>1
  <2>5. ASSUME rows[i].form # NULL, NEW g \in ThresholdForm(rows[i].form) \cup {NULL},
               rows' = [rows EXCEPT ![i].form = g]
        PROVE  RowTypes'
    <3>1. PICK f \in Forms : f = rows[i].form /\ Untouched(f)
      BY <2>1, <2>5 DEF Editor
    <3>2. g = NULL \/ (g \in Forms /\ Untouched(g))
      BY <2>5, <3>1, TypingKeepsTheRest
    <3>3. PICK q : q = [r EXCEPT !.form = g] /\ Editor(q)
      BY <3>2, EditorOpens
    <3> QED
      BY <1>5, <2>1, <2>5, <3>3
  <2> QED
    BY <1>6, <2>3, <2>4, <2>5 DEF EditableRow
<1>7. ASSUME NEW c \in calls, Settle(c) PROVE RowTypes'
  <2>1. ASSUME NEW i \in ConfigIds PROVE Editor(rows'[i])
    <3>1. CASE rows[i] # NULL
      <4>1. PICK r \in EditorRows : r = rows[i] /\ r # NULL /\ Editor(r)
        BY <1>1, <3>1 DEF RowTypes, Editor
      <4>2. r.form = NULL \/ (r.form \in Forms /\ Untouched(r.form))
        BY <4>1 DEF Editor
      <4>3. /\ Editor([r EXCEPT !.call = 0]) /\ Editor([r EXCEPT !.del = 0])
            /\ Editor([r EXCEPT !.call = 0, !.form = NULL])
        BY <4>1, EditorCalls, EditorEnds
      <4>4. [r EXCEPT !.call = 0, !.form = r.form] = [r EXCEPT !.call = 0]
        BY DEF EditorRows
      <4>5. rows'[i] \in {r, [r EXCEPT !.del = 0], [r EXCEPT !.call = 0, !.form = NULL],
                          [r EXCEPT !.call = 0, !.form = r.form]}
        BY <1>7, <4>1 DEF Settle
      <4> QED
        BY <4>1, <4>3, <4>4, <4>5
    <3>2. CASE rows[i] = NULL
      BY <1>3, <1>7, <3>2 DEF Settle
    <3> QED
      BY <3>1, <3>2
  <2> DEFINE after(i) ==
        CASE rows[i] # NULL /\ rows[i].call = c.n ->
               [rows[i] EXCEPT !.call = 0, !.form = IF c.answer = 200 THEN NULL ELSE @]
          [] rows[i] # NULL /\ rows[i].del = c.n -> [rows[i] EXCEPT !.del = 0]
          [] OTHER -> rows[i]
  <2>2. rows' = [i \in ConfigIds |-> after(i)]
    BY <1>7 DEF Settle
  <2> HIDE DEF after
  <2>3. DOMAIN rows' = ConfigIds /\ rows' = [i \in ConfigIds |-> rows'[i]]
    BY <2>2
  <2> QED
    BY <2>1, <2>3 DEF RowTypes
<1> QED
  BY <1>2, <1>4, <1>6, <1>7 DEF Next, Operator, Network, OperationsPage, ThresholdsPanel,
     RecordReadingForm, ServeGet, ReceiveGet, FailGet, Refetch, useThresholdMutation,
     useCreateReadingMutation, LoseCall, ServeCall, OtherWrite, forms, vars

(* The panel's own form, and the one that records readings.                 *)
AddingForms == [form : MaybeForm, call : Nat]
RecordForms == [value : TextValues, call : Nat]

LEMMA EmptyForms ==
  NoForm \in AddingForms /\ NewRecord \in RecordForms
<1>1. NoForm \in AddingForms
  BY DEF NoForm, AddingForms, MaybeForm
<1>2. PICK t : t = ""
  OBVIOUS
<1>3. t \in TextValues
  BY <1>2, Zenon DEF TextValues
<1>4. NewRecord = [value |-> t, call |-> 0]
  BY <1>2, Zenon DEF NewRecord
<1>5. NewRecord \in RecordForms
  BY <1>3, <1>4 DEF RecordForms
<1> QED
  BY <1>1, <1>5

LEMMA StepAdding ==
  ASSUME PageTypes, [Next]_vars
  PROVE  adding' \in AddingForms
<1>1. adding \in AddingForms
  BY DEF PageTypes, AddingForms
<1>2. CASE adding' \in {adding, NoForm, [adding EXCEPT !.call = 0]}
  BY <1>1, <1>2, EmptyForms DEF AddingForms
<1>3. CASE ThresholdsPanel
  <2>1. PICK f \in Forms : f = NewForm(NULL)
    BY NewFormIsAForm
  <2>2. CASE adding' = [adding EXCEPT !.form = NewForm(NULL)]
    BY <1>1, <2>1, <2>2 DEF AddingForms, MaybeForm
  <2>3. ASSUME adding.form # NULL, NEW g \in ThresholdForm(adding.form) \cup {NULL},
               adding' = [adding EXCEPT !.form = g]
        PROVE  adding' \in AddingForms
    <3>1. PICK old \in Forms : old = adding.form
      BY <1>1, <2>3 DEF AddingForms, MaybeForm
    <3>2. g \in MaybeForm
      BY <2>3, <3>1, TypingKeepsTheRest DEF MaybeForm
    <3> QED
      BY <1>1, <2>3, <3>2 DEF AddingForms
  <2>4. CASE adding' = [adding EXCEPT !.call = count.saves + 1]
    BY <1>1, <2>4 DEF AddingForms, PageTypes, Counters
  <2> QED
    BY <1>3, <2>2, <2>3, <2>4 DEF ThresholdsPanel
<1>4. ThresholdsPanel \/ adding' \in {adding, NoForm, [adding EXCEPT !.call = 0]}
  BY DEF Next, Operator, Network, OperationsPage, EditableRow, RecordReadingForm, ServeGet,
     ReceiveGet, FailGet, Refetch, useThresholdMutation, useCreateReadingMutation, Settle,
     LoseCall, ServeCall, OtherWrite, forms, vars
<1> QED
  BY <1>2, <1>3, <1>4

LEMMA StepRecord ==
  ASSUME PageTypes, [Next]_vars
  PROVE  record' \in RecordForms
<1>1. record \in RecordForms
  BY DEF PageTypes, RecordForms
<1>2. CASE record' \in {record, NewRecord, [record EXCEPT !.call = 0]}
  BY <1>1, <1>2, EmptyForms DEF RecordForms
<1>3. CASE RecordReadingForm
  <2>1. Texts \subseteq TextValues
    BY TextAssumption, Zenon DEF TextValues
  <2>2. CASE \E t \in Texts : record' = [record EXCEPT !.value = t]
    BY <1>1, <2>1, <2>2 DEF RecordForms
  <2>3. CASE record' = [record EXCEPT !.call = count.saves + 1]
    BY <1>1, <2>3 DEF RecordForms, PageTypes, Counters
  <2> QED
    BY <1>3, <2>2, <2>3 DEF RecordReadingForm
<1>4. RecordReadingForm \/ record' \in {record, NewRecord, [record EXCEPT !.call = 0]}
  BY DEF Next, Operator, Network, OperationsPage, EditableRow, ThresholdsPanel, ServeGet,
     ReceiveGet, FailGet, Refetch, useThresholdMutation, useCreateReadingMutation, Settle,
     LoseCall, ServeCall, OtherWrite, forms, vars
<1> QED
  BY <1>2, <1>3, <1>4

LEMMA StepPage ==
  ASSUME ServerTypes, PageTypes, CallsInv, RowsInv, DataInv, [Next]_vars
  PROVE  PageTypes'
<1>1. ToldTypes
  BY DEF PageTypes, ToldTypes
<1>2. ToldTypes' /\ RowTypes'
  BY <1>1, StepTold, StepRows
<1>3. /\ rows' \in [ConfigIds -> EditorRows \cup {NULL}]
      /\ \A i \in ConfigIds : rows'[i] # NULL /\ rows'[i].form # NULL => Untouched(rows'[i].form)
  BY <1>2 DEF RowTypes, Editor
<1> QED
  BY <1>2, <1>3, StepWell, StepCount, StepAdding, StepRecord
     DEF PageTypes, ToldTypes, AddingForms, RecordForms

-----------------------------------------------------------------------------
(* What is listed.                                                          *)

LEMMA ListedKept ==
  ASSUME NEW w \in WellIds \cup {NULL}, NEW c, NEW d, \A x \in Keys : d[x].data = c[x].data
  PROVE  Listed(w, d) = Listed(w, c)
BY DEF Listed, Keys, HasData

LEMMA ShowLists ==
  ASSUME CacheTypes, NEW w \in WellIds \cup {NULL}, NEW c, \A x \in Keys : IsEntry(c[x]),
         Show(w, c, rows)
  PROVE  /\ well' = w /\ \A x \in Keys : cache'[x].data = c[x].data
         /\ RowsInv'
<1>1. \A x \in Keys : cache'[x] \in {c[x], Observed(c[x])}
  BY DEF Show
<1>2. \A x \in Keys : cache'[x].data = c[x].data
  BY <1>1, OperationsKeep DEF Kept
<1>3. Listed(w, cache') = Listed(w, c)
  BY <1>2, ListedKept
<1> QED
  BY <1>2, <1>3 DEF Show, RowsInv

LEMMA StepRowsListed ==
  ASSUME CacheTypes, PageTypes, RowsInv, [Next]_vars
  PROVE  RowsInv'
<1>1. ASSUME NEW w \in WellIds \cup {NULL}, OperationsPage(w) PROVE RowsInv'
  BY <1>1, ShowLists DEF OperationsPage, CacheTypes
<1>2. ASSUME NEW x \in Keys, ReceiveGet(x) PROVE RowsInv'
  <2>1. PICK c : c = [cache EXCEPT ![x] = Received(@)]
    OBVIOUS
  <2>2. \A y \in Keys : IsEntry(c[y])
    BY <1>2, <2>1, ReceivedTakes DEF CacheTypes, ReceiveGet, Took
  <2> QED
    BY <1>2, <2>1, <2>2, ShowLists DEF ReceiveGet, PageTypes
<1>3. CASE /\ \A x \in Keys : cache'[x].data = cache[x].data
           /\ well' = well /\ \A i \in ConfigIds : rows'[i] # NULL => rows[i] # NULL
  <2>1. Listed(well, cache') = Listed(well, cache)
    BY <1>3, ListedKept DEF PageTypes
  <2> QED
    BY <1>3, <2>1 DEF RowsInv
<1>4. \A x \in Keys : Failed(cache[x]).data = cache[x].data /\ Ask(cache[x]).data = cache[x].data
  BY OperationsKeep DEF CacheTypes, Kept
<1>5. ASSUME NEW x \in Keys, ServeGet(x) \/ FailGet(x) \/ Refetch(x)
      PROVE  /\ \A y \in Keys : cache'[y].data = cache[y].data
             /\ UNCHANGED <<well, rows>>
  <2>1. Brought(cache[x], [cache[x] EXCEPT !.fetch = Answered(Serve(x))], Serve(x))
    BY AnswerBrings DEF CacheTypes
  <2>2. UNCHANGED <<well, rows>> /\ \A y \in Keys \ {x} : cache'[y] = cache[y]
    BY <1>5 DEF ServeGet, FailGet, Refetch, CacheTypes, forms
  <2>3. cache'[x] \in {[cache[x] EXCEPT !.fetch = Answered(Serve(x))], Failed(cache[x]), Ask(cache[x])}
    BY <1>5 DEF ServeGet, FailGet, Refetch, CacheTypes
  <2> QED
    BY <1>4, <2>1, <2>2, <2>3 DEF Brought
<1>6. ASSUME NEW c \in calls, useThresholdMutation(c) \/ useCreateReadingMutation(c)
      PROVE  /\ \A y \in Keys : cache'[y].data = cache[y].data
             /\ UNCHANGED <<well, rows>>
  <2>1. PICK kinds : cache' = InvalidateQueries(kinds)
    BY <1>6 DEF useThresholdMutation, useCreateReadingMutation
  <2>2. \A y \in Keys : cache'[y].data = cache[y].data
    BY <2>1, InvalidatesKeep DEF Kept
  <2> QED
    BY <1>6, <2>2 DEF useThresholdMutation, useCreateReadingMutation, forms
<1>7. ASSUME NEW i \in ConfigIds, EditableRow(i)
      PROVE  UNCHANGED <<cache, well>> /\ \A j \in ConfigIds : rows'[j] # NULL => rows[j] # NULL
  BY <1>7 DEF EditableRow, PageTypes
<1>8. ASSUME NEW c \in calls, Settle(c)
      PROVE  UNCHANGED <<cache, well>> /\ \A j \in ConfigIds : rows'[j] # NULL => rows[j] # NULL
  BY <1>8 DEF Settle
<1>9. CASE UNCHANGED <<cache, well, rows>>
  BY <1>3, <1>9
<1>10. CASE \E i \in ConfigIds : EditableRow(i)
  BY <1>3, <1>7, <1>10
<1>11. CASE \E c \in calls : Settle(c)
  BY <1>3, <1>8, <1>11
<1> QED
  BY <1>1, <1>2, <1>3, <1>5, <1>6, <1>9, <1>10, <1>11 DEF Next, Operator, Network,
     ThresholdsPanel, RecordReadingForm, LoseCall, ServeCall, OtherWrite, forms, vars

-----------------------------------------------------------------------------
(* What the cache holds stays true of its well.                             *)

LEMMA ServesFacts ==
  ASSUME ServerTypes, NEW x \in Keys
  PROVE  ResponseFacts(x, Serve(x))
<1>1. ASSUME NEW w \in WellIds, x = ThresholdsKey(w)
      PROVE  /\ Serve(x) \in ListedBands
             /\ \A i \in ConfigIds : Serve(x).got[i] # NULL =>
                  i < next /\ (configs[i] # NULL => configs[i].well = w)
  <2>1. PICK n \in Nat : n = writes[TableOf(x)]
    BY <1>1 DEF ServerTypes, TableOf, ThresholdsKey, Tables
  <2>2. Serve(x) = [got |-> useThresholdsQuery(w), asOf |-> n]
    BY <1>1, <2>1 DEF Serve, ThresholdsKey
  <2>3. ASSUME NEW i \in ConfigIds
        PROVE  useThresholdsQuery(w)[i] = IF configs[i] # NULL /\ configs[i].well = w
                                          THEN configs[i].band ELSE NULL
    BY DEF useThresholdsQuery
  <2>4. useThresholdsQuery(w) \in [ConfigIds -> Bands \cup {NULL}]
    BY DEF useThresholdsQuery, ServerTypes, Rows
  <2>5. \A i \in ConfigIds : useThresholdsQuery(w)[i] # NULL =>
          i < next /\ (configs[i] # NULL => configs[i].well = w)
    BY <2>3 DEF ServerTypes
  <2> HIDE DEF useThresholdsQuery
  <2> QED
    BY <2>2, <2>4, <2>5 DEF ListedBands
<1>2. ASSUME NEW w \in WellIds, x = ReadingsKey(w)
      PROVE  \E k \in 1..(Len(readings[w]) + 1) : Serve(x).got = SubSeq(readings[w], k, Len(readings[w]))
  <2>1. PICK r \in Seq(0..9) : r = readings[w]
    BY DEF ServerTypes
  <2>2. Serve(x).got = r
    BY <1>2, <2>1 DEF Serve, ReadingsKey, useReadingsQuery
  <2>3. r = SubSeq(r, 1, Len(r)) /\ 1 \in 1..(Len(r) + 1)
    BY SubSeqFull
  <2> QED
    BY <2>1, <2>2, <2>3
<1> QED
  BY <1>1, <1>2 DEF ResponseFacts

(* A reading put before the others leaves the older ones behind it.         *)
LEMMA SuffixStays ==
  ASSUME NEW r \in Seq(0..9), NEW v \in 0..9, NEW k \in 1..(Len(r) + 1),
         NEW s, s = <<v>> \o r
  PROVE  /\ k + 1 \in 1..(Len(s) + 1)
         /\ SubSeq(s, k + 1, Len(s)) = SubSeq(r, k, Len(r))
<1>1. s \in Seq(0..9) /\ Len(s) = Len(r) + 1 /\ \A i \in 1..Len(r) : s[i + 1] = r[i]
  BY ConcatProperties
<1>2. Len(r) \in Nat
  OBVIOUS
<1>3. PICK n \in Nat, m \in Nat : n = Len(r) /\ m = n + 1 /\ m = Len(s)
  BY <1>1, <1>2
<1>4. PICK t : t = SubSeq(s, k + 1, m)
  OBVIOUS
<1>5. PICK u : u = SubSeq(r, k, n)
  OBVIOUS
<1>6. t = [i \in 1..(m - (k + 1) + 1) |-> s[k + i]]
  BY <1>3, <1>4
<1>7. u = [i \in 1..(n - k + 1) |-> r[k + i - 1]]
  BY <1>3, <1>5
<1>8. \A i \in 1..(n - k + 1) : s[k + i] = r[k + i - 1]
  BY <1>1, <1>3
<1>9. t = u
  BY <1>3, <1>6, <1>7, <1>8
<1> QED
  BY <1>1, <1>3, <1>4, <1>5, <1>9

LEMMA FactsStay ==
  ASSUME ServerTypes, ServerTypes', ServerGrows, NEW x, NEW d, ResponseFacts(x, d)
  PROVE  ResponseFacts(x, d)'
<1>1. ASSUME NEW w \in WellIds, x = ThresholdsKey(w), NEW i \in ConfigIds, d.got[i] # NULL
      PROVE  i < next' /\ (configs'[i] # NULL => configs'[i].well = w)
  <2>1. i \in Nat /\ next \in Nat /\ next' \in Nat /\ next' >= next
    BY OperationsFormsAssumption DEF ServerTypes, ServerGrows
  <2>2. i < next /\ (configs[i] # NULL => configs[i].well = w)
    BY <1>1 DEF ResponseFacts
  <2>3. configs'[i] # NULL => configs[i] # NULL /\ configs'[i].well = configs[i].well
    BY <2>1, <2>2 DEF ServerGrows, ConfigsGrow
  <2> QED
    BY <2>1, <2>2, <2>3
<1>2. ASSUME NEW w \in WellIds, x = ReadingsKey(w)
      PROVE  \E k \in 1..(Len(readings'[w]) + 1) : d.got = SubSeq(readings'[w], k, Len(readings'[w]))
  <2>0. PICK r \in Seq(0..9) : r = readings[w]
    BY DEF ServerTypes
  <2>1. PICK s : r = readings[w] /\ s = readings'[w]
    BY <2>0
  <2>2. PICK k \in 1..(Len(r) + 1) : d.got = SubSeq(r, k, Len(r))
    BY <1>2, <2>1 DEF ResponseFacts
  <2>3. CASE s = r
    BY <2>1, <2>2, <2>3
  <2>4. ASSUME NEW v \in 0..9, s = <<v>> \o r
        PROVE  \E m \in 1..(Len(s) + 1) : d.got = SubSeq(s, m, Len(s))
    <3>1. k + 1 \in 1..(Len(s) + 1) /\ SubSeq(s, k + 1, Len(s)) = SubSeq(r, k, Len(r))
      BY <2>4, SuffixStays
    <3> QED
      BY <2>2, <3>1
  <2>5. s = r \/ \E v \in 0..9 : s = <<v>> \o r
    BY <2>1 DEF ServerGrows, ReadingsGrow
  <2> QED
    BY <2>1, <2>3, <2>4, <2>5
<1>3. \A w \in WellIds : x = ThresholdsKey(w) => d \in ListedBands
  BY DEF ResponseFacts
<1> QED
  BY <1>1, <1>2, <1>3 DEF ResponseFacts

LEMMA StepData ==
  ASSUME ServerTypes, CacheTypes, CallsInv, DataInv, [Next]_vars
  PROVE  DataInv'
<1> SUFFICES ASSUME NEW x \in Keys, NEW d \in Holds(cache'[x])
             PROVE  ResponseFacts(x, d)'
  BY DEF DataInv
<1>1. ServerTypes' /\ ServerGrows /\ CacheStep(x)
  BY StepServer, StepCache
<1>2. d \in Holds(cache[x]) \/ (d = Serve(x) /\ UNCHANGED server)
  BY <1>1, HoldsOnlyResponses DEF CacheStep
<1>3. ResponseFacts(x, d)
  BY <1>2, ServesFacts DEF DataInv
<1> QED
  BY <1>1, <1>3, FactsStay

-----------------------------------------------------------------------------
(* The requests again.                                                      *)

LEMMA CallStepFacts ==
  ASSUME ServerTypes, ServerTypes', ServerGrows, NEW c \in CallTypes, NEW d, SentFacts(c),
         AnswerFacts(c), CallStep(c, d)
  PROVE  d \in CallTypes /\ SentFacts(d) /\ AnswerFacts(d)'
<1>1. /\ d \in CallTypes /\ d.n = c.n /\ d.op = c.op /\ d.well = c.well /\ d.i = c.i
      /\ d.row = c.row /\ d.form = c.form
  BY DEF CallStep, SameRequest
<1>2. SentFacts(d)
  BY <1>1 DEF SentFacts
<1>3. PICK t \in Tables : t = TableOfOp(c.op)
  BY DEF TableOfOp, Tables
<1>4. c.asOf \in Nat /\ writes[t] \in Nat /\ writes'[t] \in Nat /\ writes'[t] >= writes[t]
  BY DEF CallTypes, ServerTypes, ServerGrows
<1>5. c.hooked => c.answer = 200
  BY DEF AnswerFacts
<1>6. ~ c.hooked => c.awaits = NULL /\ c.awaited = NULL
  BY DEF AnswerFacts
<1>7. c.awaits \in {c.awaited, NULL}
  BY DEF AnswerFacts
<1>8. c.answer = 200 => c.asOf <= writes[t]
  BY <1>3 DEF AnswerFacts
<1>9. d.awaited = c.awaited => (d.awaited # NULL => ForThresholds(d))
  BY <1>1 DEF AnswerFacts, ForThresholds
<1>10. CASE Waited(c, d)
  BY <1>1, <1>3, <1>4, <1>5, <1>6, <1>7, <1>8, <1>10, <1>2, <1>9 DEF Waited, SameAnswer, AnswerFacts
<1>11. CASE Served(c, d)
  <2>1. ~ c.hooked
    BY <1>5, <1>11, NullIsItself DEF Served
  <2> QED
    BY <1>1, <1>2, <1>3, <1>6, <1>11, <1>9, <2>1 DEF Served, SameWait, AnswerFacts
<1>12. CASE Lost(c, d)
  BY <1>1, <1>2, <1>6, <1>12, <1>9 DEF Lost, SameWait, AnswerFacts
<1>13. CASE Hooked(c, d)
  BY <1>1, <1>2, <1>3, <1>4, <1>8, <1>13 DEF Hooked, SameAnswer, AnswerFacts
<1> QED
  BY <1>10, <1>11, <1>12, <1>13 DEF CallStep

LEMMA AsksFacts ==
  ASSUME NEW d, Asks(d)
  PROVE  d \in CallTypes /\ SentFacts(d) /\ AnswerFacts(d)'
BY DEF Asks, AnswerFacts

LEMMA StepCallsInv ==
  ASSUME ServerTypes, CacheTypes, PageTypes, CallsInv, RowsInv, DataInv, [Next]_vars
  PROVE  CallsInv'
<1>1. ServerTypes' /\ ServerGrows /\ StepOfCalls
  BY StepServer, StepCalls
<1>2. \A c \in calls : c \in CallTypes /\ SentFacts(c) /\ AnswerFacts(c)
  BY DEF CallsInv
<1>3. CASE CallsStep
  <2>1. ASSUME NEW d \in calls' PROVE d \in CallTypes /\ SentFacts(d) /\ AnswerFacts(d)'
    <3>1. PICK c \in calls : CallStep(c, d)
      BY <1>3 DEF CallsStep
    <3> QED
      BY <1>1, <1>2, <3>1, CallStepFacts
  <2> QED
    BY <2>1 DEF CallsInv, SentFacts
<1>4. CASE UNCHANGED <<server, cache, well>> /\ Sends
  <2>1. ASSUME NEW d \in calls' PROVE d \in CallTypes /\ SentFacts(d) /\ AnswerFacts(d)'
    <3>1. CASE d \in calls
      <4>1. CallStep(d, d)
        BY <1>2, <3>1, CallStays
      <4> QED
        BY <1>1, <1>2, <3>1, <4>1, CallStepFacts
    <3>2. CASE Asks(d)
      BY <3>2, AsksFacts
    <3> QED
      BY <1>4, <2>1, <3>1, <3>2 DEF Sends
  <2> QED
    BY <2>1 DEF CallsInv, SentFacts
<1> QED
  BY <1>1, <1>3, <1>4 DEF StepOfCalls

-----------------------------------------------------------------------------
(* All of it is an invariant.                                               *)

IInv == ServerTypes /\ CacheTypes /\ PageTypes /\ CallsInv /\ RowsInv /\ DataInv

LEMMA EntriesAtFirst ==
  ASSUME NEW data
  PROVE  /\ IsEntry(Entry(data)) /\ Entry(data).data = data
         /\ Holds(Entry(data)) \subseteq {data} \ {NoData}
BY DEF IsEntry, Entry, Idle, Holds, HasData

LEMMA InitServer ==
  ASSUME Init
  PROVE  ServerTypes
<1>1. PICK S : S = {i \in ConfigIds : FirstConfigs[i] # NULL} /\ IsFiniteSet(S)
  BY OperationsFormsAssumption, FS_Subset
<1>2. Cardinality(S) \in Nat
  BY <1>1, FS_CardinalityType
<1>3. next = Cardinality(S) + 1 /\ configs = FirstConfigs
  BY <1>1 DEF Init
<1>4. \A i \in ConfigIds : configs[i] # NULL => i < next
  BY <1>1, <1>2, <1>3, OperationsFormsAssumption
<1>5. configs \in [ConfigIds -> Rows \cup {NULL}]
  BY <1>3, OperationsFormsAssumption DEF Rows
<1>6. readings \in [WellIds -> Seq(0..9)]
  BY DEF Init
<1>7. writes \in [Tables -> Nat]
  BY DEF Init, Tables
<1> QED
  BY <1>2, <1>3, <1>4, <1>5, <1>6, <1>7 DEF ServerTypes

LEMMA InitPage ==
  ASSUME Init
  PROVE  PageTypes /\ RowsInv
<1>1. well \in WellIds \cup {NULL}
  BY OperationsFormsAssumption DEF Init
<1>2. NewRow \in EditorRows /\ NewRow.form = NULL
  BY DEF NewRow, EditorRows, MaybeForm
<1>3. rows = [i \in ConfigIds |-> IF i \in Listed(well, cache) THEN NewRow ELSE NULL]
  BY DEF Init
<1>4. adding = NoForm /\ record = NewRecord
  BY DEF Init
<1>5. told = [t \in Tables |-> 0] /\ writes = told /\ count = [b \in Counters |-> 0]
  BY DEF Init, Tables, Bounds, Counters
<1>6. PageTypes
  BY <1>1, <1>2, <1>3, <1>4, <1>5, EmptyForms DEF PageTypes, AddingForms, RecordForms
<1> QED
  BY <1>3, <1>6 DEF RowsInv

LEMMA InitCache ==
  ASSUME Init
  PROVE  CacheTypes /\ DataInv
<1>1. cache = [x \in Keys |-> IF x \in Active(FirstWell) THEN Entry(Serve(x)) ELSE EmptyEntry]
  BY DEF Init
<1>2. ASSUME NEW x \in Keys
      PROVE  IsEntry(cache[x]) /\ Holds(cache[x]) \subseteq {Serve(x)}
  <2>1. cache[x] \in {Entry(Serve(x)), Entry(NoData)}
    BY <1>1 DEF EmptyEntry
  <2> QED
    BY <2>1, EntriesAtFirst
<1> QED
  BY <1>1, <1>2, InitServer, ServesFacts DEF CacheTypes, DataInv

(* The invariant holds of every behaviour.                                  *)
LEMMA InvHolds == Spec => []IInv
<1>1. Init => IInv
  BY InitServer, InitPage, InitCache DEF IInv, CallsInv, Init
<1>2. IInv /\ [Next]_vars => IInv'
  <2> SUFFICES ASSUME IInv, [Next]_vars PROVE IInv'
    OBVIOUS
  <2>1. ServerTypes /\ CacheTypes /\ PageTypes /\ CallsInv /\ RowsInv /\ DataInv
    BY DEF IInv
  <2>2. ServerTypes'
    BY <2>1, StepServer
  <2>3. CacheTypes'
    BY <2>1, StepCache DEF CacheTypes, CacheStep, Kept, Took, Brought
  <2>4. PageTypes'
    BY <2>1, StepPage
  <2>5. CallsInv'
    BY <2>1, StepCallsInv
  <2>6. RowsInv'
    BY <2>1, StepRowsListed
  <2>7. DataInv'
    BY <2>1, StepData
  <2> QED
    BY <2>2, <2>3, <2>4, <2>5, <2>6, <2>7 DEF IInv
<1> QED
  BY <1>1, <1>2, PTL DEF Spec

(* Whatever requests are lost, refused or overtaken, and whoever else       *)
(* writes: ids are given out once, this tab never knows of writes it did    *)
(* not do, a row is there with its two buttons, and a mutation waits for an *)
(* entry of the cache or for nothing.                                       *)
THEOREM OperationsFormsTypeCorrect == Spec => []TypeOK
<1>1. IInv => TypeOK
  <2> SUFFICES ASSUME IInv PROVE TypeOK
    OBVIOUS
  <2>1. \A i \in ConfigIds : configs[i] # NULL => configs[i].well \in WellIds /\ i < next
    BY DEF IInv, ServerTypes, Rows
  <2>2. \A t \in DOMAIN writes : told[t] \in 0..writes[t]
    BY DEF IInv, ServerTypes, PageTypes
  <2>3. \A i \in ConfigIds : rows[i] # NULL => rows[i].call \in Nat /\ rows[i].del \in Nat
    BY DEF IInv, PageTypes, EditorRows
  <2>4. \A c \in calls : c.answer \in {NULL, 0, 200, 404, 409} /\ c.awaits \in Keys \cup {NULL}
    BY DEF IInv, CallsInv, CallTypes, Answers, MaybeKey
  <2> QED
    BY <2>1, <2>2, <2>3, <2>4 DEF IInv, PageTypes, TypeOK
<1> QED
  BY <1>1, InvHolds, PTL

-----------------------------------------------------------------------------
(* This tab reads its writes.                                               *)

InUse(x) == x \in Active(well)

ReadsInv == \A x \in Keys : UpToDate(cache[x], told[TableOf(x)], InUse(x))

(* The table an entry depends on, told apart by the entry's kind.           *)
LEMMA TableOfKey ==
  ASSUME NEW x \in Keys
  PROVE  /\ TableOf(x) \in Tables /\ Serve(x).asOf = writes[TableOf(x)]
         /\ x[1] \in {"thresholds"} <=> TableOf(x) = "configs"
         /\ x[1] \in {"readings", "alerts"} <=> TableOf(x) = "readings"
BY DEF Keys, ThresholdsKey, ReadingsKey, AlertsKey, TableOf, Tables, Serve

(* An entry that a step leaves alone, or that gave up a component.          *)
LEMMA LeftUpToDate ==
  ASSUME NEW x \in Keys, NEW e, NEW T, NEW a \in BOOLEAN, UpToDate(e, T, a),
         NEW b \in BOOLEAN, b => a
  PROVE  UpToDate(e, T, b)
BY DEF UpToDate, Fresh

LEMMA PageReads ==
  ASSUME ReadsInv, NEW w, OperationsPage(w), NEW x \in Keys
  PROVE  UpToDate(cache'[x], told'[TableOf(x)], InUse(x)')
<1> InUse(x) \in BOOLEAN /\ InUse(x)' \in BOOLEAN
  BY DEF InUse
<1>1. PICK a \in BOOLEAN, b \in BOOLEAN : a = InUse(x) /\ b = InUse(x)'
  OBVIOUS
<1>2. PICK e : e = cache[x]
  OBVIOUS
<1>3. PICK T : T = told[TableOf(x)] /\ T = told'[TableOf(x)]
  BY DEF OperationsPage
<1>4. UpToDate(e, T, a)
  BY <1>1, <1>2, <1>3 DEF ReadsInv
<1>5. CASE x \in Active(w) \ Active(well)
  <2>1. cache'[x] = Observed(e) /\ a = FALSE
    BY <1>1, <1>2, <1>5 DEF OperationsPage, Show, InUse
  <2>2. UpToDate(Observed(e), T, b)
    BY <1>4, <2>1, ObservedUpToDate
  <2> QED
    BY <1>1, <1>3, <2>1, <2>2
<1>6. CASE x \notin Active(w) \ Active(well)
  <2>1. cache'[x] = e
    BY <1>2, <1>6 DEF OperationsPage, Show
  <2>2. b => a
    BY <1>1, <1>6 DEF OperationsPage, Show, InUse
  <2>3. UpToDate(e, T, b)
    BY <1>4, <2>2, LeftUpToDate
  <2> QED
    BY <1>1, <1>3, <2>1, <2>3
<1> QED
  BY <1>5, <1>6

(* What the callbacks told the tab is behind every entry of that table.     *)
LEMMA InvalidationReads ==
  ASSUME CacheTypes, ReadsInv, NEW kinds, NEW table, cache' = InvalidateQueries(kinds),
         UNCHANGED well, NEW x \in Keys, x[1] \in kinds <=> TableOf(x) = table,
         TableOf(x) # table => told'[TableOf(x)] = told[TableOf(x)]
  PROVE  UpToDate(cache'[x], told'[TableOf(x)], InUse(x)')
<1> InUse(x) \in BOOLEAN /\ InUse(x)' = InUse(x)
  BY DEF InUse, Active
<1>1. PICK a \in BOOLEAN : a = InUse(x) /\ a = InUse(x)'
  OBVIOUS
<1>2. PICK e, T : e = cache[x] /\ T = told'[TableOf(x)]
  OBVIOUS
<1>3. IsEntry(e)
  BY <1>2 DEF CacheTypes
<1>4. CASE x[1] \in kinds
  <2>1. cache'[x] = Invalidated(e, a)
    BY <1>1, <1>2, <1>4 DEF InvalidateQueries, InUse
  <2>2. UpToDate(Invalidated(e, a), T, a)
    BY <1>3, InvalidatedUpToDate
  <2> QED
    BY <1>1, <1>2, <2>1, <2>2
<1>5. CASE x[1] \notin kinds
  BY <1>1, <1>2, <1>5 DEF InvalidateQueries, ReadsInv
<1> QED
  BY <1>4, <1>5

LEMMA FetchReads ==
  ASSUME ServerTypes, CacheTypes, PageTypes, ReadsInv, NEW x \in Keys,
         ServeGet(x) \/ ReceiveGet(x) \/ FailGet(x) \/ Refetch(x), NEW y \in Keys
  PROVE  UpToDate(cache'[y], told'[TableOf(y)], InUse(y)')
<1>1. UNCHANGED <<well, told>>
  BY DEF ServeGet, ReceiveGet, FailGet, Refetch, Show
<1> InUse(y) \in BOOLEAN /\ InUse(y)' = InUse(y)
  BY <1>1 DEF InUse, Active
<1>2. PICK a \in BOOLEAN : a = InUse(y) /\ a = InUse(y)'
  OBVIOUS
<1>3. PICK e, T : e = cache[y] /\ T = told[TableOf(y)] /\ T = told'[TableOf(y)]
  BY <1>1
<1>4. UpToDate(e, T, a) /\ IsEntry(e)
  BY <1>2, <1>3 DEF ReadsInv, CacheTypes
<1>5. CASE cache'[y] = e
  BY <1>2, <1>3, <1>4, <1>5
<1>6. CASE y = x /\ ServeGet(x)
  <2>0. TableOf(x) \in Tables /\ Serve(x).asOf = writes[TableOf(x)]
    BY TableOfKey
  <2>1. PICK answer : answer = Serve(x) /\ answer.asOf >= T
    BY <1>3, <1>6, <2>0 DEF PageTypes, ServerTypes
  <2>2. cache'[y] = [e EXCEPT !.fetch = Answered(answer)]
    BY <1>3, <1>6, <2>1 DEF ServeGet, CacheTypes
  <2>3. UpToDate([e EXCEPT !.fetch = Answered(answer)], T, a)
    BY <1>4, <2>1, AnsweredUpToDate
  <2> QED
    BY <1>2, <1>3, <2>2, <2>3
<1>7. CASE y = x /\ ReceiveGet(x)
  <2>1. cache'[y] = Received(e) /\ e.fetch.state = "answered"
    BY <1>3, <1>7 DEF ReceiveGet, Show, CacheTypes
  <2>2. UpToDate(e, T, FALSE)
    BY <1>4, UnusedUpToDate
  <2>3. UpToDate(Received(e), T, a)
    BY <2>1, <2>2, ReceivedUpToDate
  <2> QED
    BY <1>2, <1>3, <2>1, <2>3
<1>8. CASE y = x /\ (FailGet(x) \/ Refetch(x))
  <2>1. cache'[y] \in {Failed(e), Ask(e)}
    BY <1>3, <1>8 DEF FailGet, Refetch, CacheTypes
  <2>2. UpToDate(Failed(e), T, a) /\ UpToDate(Ask(e), T, a)
    BY <1>4, FailedUpToDate, AskUpToDate
  <2> QED
    BY <1>2, <1>3, <2>1, <2>2
<1>9. y # x => cache'[y] = e
  BY <1>3 DEF ServeGet, ReceiveGet, FailGet, Refetch, Show, CacheTypes
<1> QED
  BY <1>5, <1>6, <1>7, <1>8, <1>9

LEMMA StepReads ==
  ASSUME ServerTypes, CacheTypes, PageTypes, CallsInv, ReadsInv, [Next]_vars
  PROVE  ReadsInv'
<1>1. CASE \E w : OperationsPage(w)
  BY <1>1, PageReads DEF ReadsInv, TableOf
<1>2. CASE \E x \in Keys : ServeGet(x) \/ ReceiveGet(x) \/ FailGet(x) \/ Refetch(x)
  BY <1>2, FetchReads DEF ReadsInv, TableOf
<1>3. ASSUME NEW c \in calls, useThresholdMutation(c), NEW x \in Keys
      PROVE  UpToDate(cache'[x], told'[TableOf(x)], InUse(x)')
  <2>1. cache' = InvalidateQueries({"thresholds"}) /\ UNCHANGED well
    BY <1>3 DEF useThresholdMutation
  <2>2. TableOf(x) # "configs" => told'[TableOf(x)] = told[TableOf(x)]
    BY <1>3, TableOfKey DEF useThresholdMutation, Heard, PageTypes
  <2> QED
    BY <2>1, <2>2, TableOfKey, InvalidationReads
<1>4. ASSUME NEW c \in calls, useCreateReadingMutation(c), NEW x \in Keys
      PROVE  UpToDate(cache'[x], told'[TableOf(x)], InUse(x)')
  <2>1. cache' = InvalidateQueries({"readings", "alerts"}) /\ UNCHANGED well
    BY <1>4 DEF useCreateReadingMutation
  <2>2. TableOf(x) # "readings" => told'[TableOf(x)] = told[TableOf(x)]
    BY <1>4, TableOfKey DEF useCreateReadingMutation, Heard, PageTypes
  <2> QED
    BY <2>1, <2>2, TableOfKey, InvalidationReads
<1>5. CASE \E c \in calls : useThresholdMutation(c) \/ useCreateReadingMutation(c)
  BY <1>3, <1>4, <1>5 DEF ReadsInv, TableOf
<1>6. CASE UNCHANGED <<cache, told, well>>
  <2>1. \A x \in Keys : InUse(x)' = InUse(x)
    BY <1>6 DEF InUse, Active
  <2> QED
    BY <1>6, <2>1 DEF ReadsInv, TableOf
<1> QED
  BY <1>1, <1>2, <1>5, <1>6 DEF Next, Operator, Network, EditableRow, ThresholdsPanel,
     RecordReadingForm, LoseCall, ServeCall, Settle, OtherWrite, vars

(* However the responses of a well's queries race with the mutations'       *)
(* callbacks and with the selection of wells: once a save was answered, an  *)
(* entry at rest shows it, will be fetched when used, or is known as one    *)
(* whose first load was overtaken.                                          *)
THEOREM OperationsFormsReadTheirWrites == Spec => []ReadsItsWrites
<1>1. Init => ReadsInv
  <2> SUFFICES ASSUME Init, NEW x \in Keys
               PROVE  UpToDate(cache[x], told[TableOf(x)], InUse(x))
    BY DEF ReadsInv
  <2>0. InUse(x) \in BOOLEAN
    BY DEF InUse
  <2>1. PICK a \in BOOLEAN : a = InUse(x)
    BY <2>0
  <2>2. TableOf(x) \in Tables /\ Serve(x).asOf = writes[TableOf(x)]
    BY TableOfKey
  <2>3. told[TableOf(x)] = 0 /\ Serve(x).asOf = 0
    BY <2>2 DEF Init, Tables
  <2>4. PICK s : s = Serve(x) /\ s.asOf >= 0
    BY <2>3
  <2>5. cache[x] = Entry(s) \/ cache[x] = Entry(NoData)
    BY <2>4 DEF Init, EmptyEntry
  <2>6. UpToDate(Entry(s), 0, a) /\ UpToDate(Entry(NoData), 0, a)
    BY <2>4 DEF UpToDate, IsEntry, Fresh, BringsFresh, Entry, Idle, HasData, IsFetching
  <2> QED
    BY <2>1, <2>3, <2>5, <2>6
<1>2. IInv /\ ReadsInv /\ [Next]_vars => ReadsInv'
  BY StepReads DEF IInv
<1>3. ReadsInv => ReadsItsWrites
  BY DEF ReadsInv, ReadsItsWrites, UpToDate, Fresh, InUse
<1> QED
  BY <1>1, <1>2, <1>3, InvHolds, PTL DEF Spec

-----------------------------------------------------------------------------
(* What is on screen is of the well in the URL.                             *)

LEMMA NewestOfNothing == Newest(<<>>) = <<>>
BY OperationsFormsAssumption DEF Newest

LEMMA RowsAreOfTheWell ==
  ASSUME IInv, NEW i \in ConfigIds, rows[i] # NULL, configs[i] # NULL
  PROVE  configs[i].well = well
<1>1. i \in Listed(well, cache) /\ well \in WellIds \cup {NULL} /\ DataInv
  BY DEF IInv, RowsInv, PageTypes
<1>2. /\ well \in WellIds /\ cache[ThresholdsKey(well)].data.got[i] # NULL
      /\ ResponseFacts(ThresholdsKey(well), cache[ThresholdsKey(well)].data)
  BY <1>1, ListedHaveBands
<1> QED
  BY <1>2 DEF ResponseFacts

LEMMA HistoryIsOfTheWell ==
  ASSUME IInv, ReadingsHistory # <<>>
  PROVE  \E k \in 1..Len(readings[well]) :
           ReadingsHistory = Newest(SubSeq(readings[well], k, Len(readings[well])))
<1>1. /\ well # NULL /\ HasData(cache[ReadingsKey(well)])
      /\ ReadingsHistory = Newest(cache[ReadingsKey(well)].data.got)
  BY DEF ReadingsHistory
<1>2. well \in WellIds /\ ReadingsKey(well) \in Keys
  BY <1>1 DEF IInv, PageTypes, Keys
<1>3. PICK d : d = cache[ReadingsKey(well)].data
  OBVIOUS
<1>4. ResponseFacts(ReadingsKey(well), d)
  BY <1>1, <1>2, <1>3 DEF IInv, DataInv, Holds
<1>5. PICK r \in Seq(0..9) : r = readings[well]
  BY <1>2 DEF IInv, ServerTypes
<1>6. PICK k \in 1..(Len(r) + 1) : d.got = SubSeq(r, k, Len(r))
  BY <1>2, <1>4, <1>5 DEF ResponseFacts
<1>7. k # Len(r) + 1
  <2> SUFFICES ASSUME k = Len(r) + 1 PROVE FALSE
    OBVIOUS
  <2>1. SubSeq(r, k, Len(r)) = <<>>
    BY SubSeqEmpty
  <2> QED
    BY <1>1, <1>3, <1>6, <2>1, NewestOfNothing
<1>8. k \in 1..Len(r)
  BY <1>7
<1> QED
  BY <1>1, <1>3, <1>5, <1>6, <1>8

(* Whichever wells are selected while responses are on their way, and       *)
(* whatever other users delete or change: the rows that can be edited or    *)
(* deleted are configs of the well in the URL, the history shows readings   *)
(* of it, with none left out between them.                                  *)
THEOREM OperationsFormsShowTheirWell == Spec => []ShowsItsWell
<1>1. IInv => ShowsItsWell
  BY RowsAreOfTheWell, HistoryIsOfTheWell DEF ShowsItsWell
<1> QED
  BY <1>1, InvHolds, PTL

-----------------------------------------------------------------------------
(* An editor waits for what it saved.                                       *)

(* What arrives for the entry is not older than the save; once the wait is  *)
(* over, neither is what is listed.                                         *)
WaitsFor(c, e) ==
  /\ e.fetch.state = "answered" => e.fetch.answer.asOf >= c.asOf
  /\ c.awaits = NULL => HasData(e) /\ e.data.asOf >= c.asOf

Waiting(c) == c.hooked /\ ~ c.missed /\ c.awaited # NULL

WaitInv == \A c \in calls : Waiting(c) => WaitsFor(c, cache[c.awaited])

LEMMA AnsweredIsData ==
  ASSUME DataInv, NEW w \in WellIds, NEW x \in Keys, x = ThresholdsKey(w),
         cache[x].fetch.state = "answered"
  PROVE  cache[x].fetch.answer # NoData
<1>1. ResponseFacts(x, cache[x].fetch.answer)
  BY DEF DataInv, Holds
<1>2. cache[x].fetch.answer \in ListedBands
  BY <1>1 DEF ResponseFacts
<1> QED
  BY <1>2, OperationsFormsAssumption DEF ListedBands

(* Nothing that happens to the entry meanwhile takes it back.               *)
LEMMA EntryWaits ==
  ASSUME NEW c, NEW d, NEW e, NEW f, NEW s, WaitsFor(c, e), d.asOf = c.asOf,
         s.asOf >= c.asOf, e.fetch.state = "answered" => e.fetch.answer # NoData,
         Kept(e, f) \/ Took(e, f) \/ Brought(e, f, s),
         d.awaits = c.awaits \/ Took(e, f)
  PROVE  WaitsFor(d, f)
BY DEF WaitsFor, Kept, Took, Brought, HasData, Asked, Idle, Answered

LEMMA StepWaits ==
  ASSUME ServerTypes, CacheTypes, PageTypes, CallsInv, RowsInv, DataInv, WaitInv, [Next]_vars
  PROVE  WaitInv'
<1>1. StepOfCalls /\ \A x \in Keys : CacheStep(x)
  BY StepCalls, StepCache
<1>2. ASSUME NEW c \in calls, NEW d, CallStep(c, d), Waiting(d)
      PROVE  WaitsFor(d, cache'[d.awaited])
  <2>1. c \in CallTypes /\ AnswerFacts(c)
    BY DEF CallsInv
  <2>2. c.hooked => c.answer = 200
    BY <2>1 DEF AnswerFacts
  <2>3. CASE Waited(c, d)
    <3>1. Waiting(c) /\ d.awaited = c.awaited /\ d.asOf = c.asOf /\ c.answer = 200
      BY <1>2, <2>2, <2>3 DEF Waited, Waiting, SameAnswer
    <3>2. ForThresholds(c) /\ c.asOf <= writes[TableOfOp(c.op)]
      BY <2>1, <3>1 DEF Waiting, AnswerFacts
    <3>3. PICK w \in WellIds, x \in Keys : x = c.awaited /\ x = ThresholdsKey(w)
      BY <3>2 DEF ForThresholds, Keys
    <3>4. TableOf(x) = "configs" /\ Serve(x).asOf = writes[TableOf(x)]
      BY <3>3, TableOfKey DEF TableOf, ThresholdsKey
    <3>5. writes["configs"] \in Nat /\ c.asOf \in Nat /\ c.op # "reading"
      BY <2>1, <3>2 DEF ServerTypes, CallTypes, Tables, ForThresholds
    <3>6. PICK s : s = Serve(x) /\ s.asOf >= c.asOf
      BY <3>2, <3>4, <3>5 DEF TableOfOp
    <3>7. PICK e, f : e = cache[x] /\ f = cache'[x]
      OBVIOUS
    <3>8. WaitsFor(c, e)
      BY <3>1, <3>3, <3>7 DEF WaitInv
    <3>9. e.fetch.state = "answered" => e.fetch.answer # NoData
      BY <3>3, <3>7, AnsweredIsData
    <3>10. Kept(e, f) \/ Took(e, f) \/ Brought(e, f, s)
      BY <1>1, <3>6, <3>7 DEF CacheStep
    <3>11. d.awaits = c.awaits \/ Took(e, f)
      <4>1. CASE d.awaits # c.awaits
        <5>1. c.awaits = c.awaited
          BY <2>1, <2>3, <4>1 DEF AnswerFacts, Waited
        <5>2. Took(cache[c.awaits], cache'[c.awaits])
          BY <1>2, <2>3, <4>1 DEF Waited, Waiting
        <5> QED
          BY <3>3, <3>7, <5>1, <5>2
      <4> QED
        BY <4>1
    <3>12. WaitsFor(d, f)
      BY <3>1, <3>6, <3>8, <3>9, <3>10, <3>11, EntryWaits
    <3> QED
      BY <3>1, <3>3, <3>7, <3>12
  <2>4. CASE Served(c, d) \/ Lost(c, d)
    <3>1. ~ d.hooked
      BY <2>2, <2>4, NullIsItself DEF Served, Lost, SameWait
    <3> QED
      BY <1>2, <3>1 DEF Waiting
  <2>5. CASE Hooked(c, d)
    BY <1>2, <2>5 DEF Hooked, Waiting, WaitsFor, Asked
  <2> QED
    BY <1>2, <2>3, <2>4, <2>5 DEF CallStep
<1>3. CASE CallsStep
  BY <1>2, <1>3 DEF CallsStep, WaitInv, Waiting, WaitsFor, HasData
<1>4. CASE UNCHANGED <<server, cache, well>> /\ Sends
  <2>1. \A d \in calls' : d \in calls \/ ~ d.hooked
    BY <1>4 DEF Sends, Asks
  <2> QED
    BY <1>4, <2>1 DEF WaitInv, Waiting, WaitsFor, HasData
<1> QED
  BY <1>1, <1>3, <1>4 DEF StepOfCalls

(* A request ends by Settle only.                                           *)
LEMMA OnlySettledEnd ==
  ASSUME CallsInv, [Next]_vars, NEW c \in calls, \A d \in calls' : d.n # c.n
  PROVE  Settle(c)
<1> DEFINE There == \E d \in calls' : d.n = c.n
<1>1. ASSUME NEW b \in calls, NEW d, d.n = b.n, calls' = (calls \ {b}) \cup {d}
      PROVE  There
  BY <1>1
<1>2. ASSUME NEW S \in SUBSET calls, c \in S, NEW x, NEW missed, Resumed(S, x, missed) \subseteq calls'
      PROVE  There
  <2>1. PICK d : d = IF c.awaits = x THEN [c EXCEPT !.awaits = NULL, !.missed = @ \/ missed] ELSE c
    OBVIOUS
  <2>2. d \in calls'
    BY <1>2, <2>1 DEF Resumed
  <2>3. c \in CallTypes
    BY DEF CallsInv
  <2>4. d.n = c.n
    BY <2>1, <2>3 DEF CallTypes
  <2> QED
    BY <2>2, <2>4
<1>3. \A b \in calls : b \in CallTypes
  BY DEF CallsInv
<1>4. ASSUME NEW b \in calls, ServeCall(b) PROVE There
  <2>0. PICK a, t : a = StatusOf(b) /\ t = writes[TableOfOp(b.op)] + 1
    OBVIOUS
  <2>1. calls' = (calls \ {b}) \cup {ServedAs(b, a, t)}
    BY <1>4, <2>0 DEF ServeCall, ServedAs, TableOfOp
  <2>2. ServedAs(b, a, t).n = b.n
    BY <1>3 DEF ServedAs, CallTypes
  <2> QED
    BY <1>1, <2>1, <2>2
<1>5. ASSUME NEW b \in calls, LoseCall(b) PROVE There
  <2>1. [b EXCEPT !.answer = 0].n = b.n
    BY <1>3 DEF CallTypes
  <2> QED
    BY <1>1, <1>5, <2>1 DEF LoseCall
<1>6. ASSUME NEW b \in calls, useCreateReadingMutation(b) PROVE There
  <2>1. PICK d : d = HookedAlone(b) /\ calls' = (calls \ {b}) \cup {d}
    BY <1>6 DEF useCreateReadingMutation, HookedAlone
  <2>2. d.n = b.n
    BY <1>3, <2>1, HookedAloneFields DEF SameRequest
  <2> QED
    BY <1>1, <2>1, <2>2
<1>7. ASSUME NEW b \in calls, useThresholdMutation(b) PROVE There
  <2> DEFINE key == IF well = NULL THEN NULL ELSE ThresholdsKey(well)
             early == key # NULL /\ ~ HasData(cache[key]) /\ IsFetching(cache[key])
             rest == IF key # NULL /\ HasData(cache[key]) THEN HandedOn(calls \ {b}, key)
                     ELSE calls \ {b}
  <2>0. PICK x, m, others : x = key /\ m = early /\ others = rest
    OBVIOUS
  <2>1. /\ calls' = others \cup {HookedOn(b, x, m)}
        /\ others \in {HandedOn(calls \ {b}, x), calls \ {b}}
    BY <1>7, <2>0 DEF useThresholdMutation, HookedOn
  <2>2. HookedOn(b, x, m).n = b.n
    BY <1>3 DEF HookedOn, CallTypes
  <2>3. CASE c = b \/ others = calls \ {b}
    BY <2>1, <2>2, <2>3
  <2>4. CASE c \in calls \ {b} /\ others = HandedOn(calls \ {b}, x)
    <3>1. CASE c.handed
      <4>1. Resumed({d \in calls \ {b} : d.handed}, x, TRUE) \subseteq calls'
        BY <2>1, <2>4 DEF HandedOn
      <4>2. PICK T \in SUBSET calls : T = {d \in calls \ {b} : d.handed}
        OBVIOUS
      <4> QED
        BY <1>2, <2>4, <3>1, <4>1, <4>2
    <3>2. CASE ~ c.handed
      <4>1. PICK d : d = IF c.awaits = x THEN [c EXCEPT !.handed = TRUE] ELSE c
        OBVIOUS
      <4>2. d \in calls'
        BY <2>1, <2>4, <3>2, <4>1 DEF HandedOn
      <4>3. d.n = c.n
        BY <1>3, <4>1 DEF CallTypes
      <4> QED
        BY <4>2, <4>3
    <3> QED
      BY <3>1, <3>2
  <2> QED
    BY <2>1, <2>3, <2>4
<1>8. ASSUME NEW x \in Keys, ReceiveGet(x) \/ FailGet(x) PROVE There
  BY <1>2, <1>8 DEF ReceiveGet, FailGet
<1>9. CASE calls \subseteq calls'
  BY <1>9
<1>10. ASSUME NEW b \in calls, Settle(b) PROVE Settle(c)
  <2>1. CASE b = c
    BY <1>10, <2>1
  <2>2. CASE b # c
    BY <1>10, <2>2 DEF Settle
  <2> QED
    BY <2>1, <2>2
<1>11. ~ There
  OBVIOUS
<1> QED
  BY <1>4, <1>5, <1>6, <1>7, <1>8, <1>9, <1>10, <1>11 DEF Next, Operator, Network, OperationsPage,
     EditableRow, ThresholdsPanel, RecordReadingForm, ServeGet, Refetch, OtherWrite, Call, vars

(* Whatever else is fetched, invalidated or selected meanwhile, the button  *)
(* of an editor stays busy until the panel lists what was saved; only one   *)
(* that missed its fetch, or whose well is no longer shown, ends earlier.   *)
THEOREM OperationsFormsSavesAreShown == Spec => SavedIsShown
<1>1. Init => WaitInv
  BY DEF Init, WaitInv
<1>2. IInv /\ WaitInv /\ [Next]_vars => WaitInv'
  BY StepWaits DEF IInv
<1>3. ASSUME IInv, WaitInv, [Next]_vars, NEW c \in calls, c.hooked, c.op # "reading",
             c.awaited = ThresholdsKey(c.well), ~ c.missed, \A d \in calls' : d.n # c.n
      PROVE  HasData(cache[c.awaited]) /\ cache[c.awaited].data.asOf >= c.asOf
  <2>1. CallsInv /\ c \in CallTypes /\ AnswerFacts(c)
    BY <1>3 DEF IInv, CallsInv
  <2>2. c.answer = 200 /\ Settle(c)
    BY <1>3, <2>1, OnlySettledEnd DEF AnswerFacts
  <2>3. c.awaits = NULL
    BY <2>2 DEF Settle
  <2>4. c.awaited \in Keys
    BY <1>3, <2>1 DEF CallTypes, Keys
  <2>5. Waiting(c)
    BY <1>3, <2>4, NullIsItself DEF Waiting
  <2> QED
    BY <1>3, <2>3, <2>5 DEF WaitInv, WaitsFor
<1>4. IInv /\ WaitInv /\ [Next]_vars =>
        [\A c \in calls : /\ c.hooked /\ c.op # "reading" /\ c.awaited = ThresholdsKey(c.well)
                          /\ ~ c.missed /\ \A d \in calls' : d.n # c.n
           => HasData(cache[c.awaited]) /\ cache[c.awaited].data.asOf >= c.asOf]_vars
  BY <1>3
<1> QED
  BY <1>1, <1>2, <1>4, InvHolds, PTL DEF Spec, SavedIsShown

-----------------------------------------------------------------------------
(* A save changes no band that was not typed in.                            *)

(* Whatever is typed, in whatever order: a band that the operator did not   *)
(* touch is sent as the editor found it, through text and back, and the     *)
(* server writes what was sent.                                             *)
THEOREM OperationsFormsKeepUntypedBands == Spec => OnlyTypedBandsChange
<1>1. ASSUME IInv, [Next]_vars, NEW c \in calls, c.op = "update", configs' # configs, c \notin calls',
             configs[c.i] # NULL, configs[c.i].band = c.form.from, NEW b \in BandNames \ c.form.typed
      PROVE  configs'[c.i].band[b] = configs[c.i].band[b]
  <2>1. ServeCall(c)
    <3>1. PICK e \in calls : ServeCall(e)
      BY <1>1 DEF Next, Operator, Network, OperationsPage, EditableRow, ThresholdsPanel,
         RecordReadingForm, ServeGet, ReceiveGet, FailGet, Refetch, useThresholdMutation,
         useCreateReadingMutation, Settle, LoseCall, OtherWrite, server, vars
    <3>2. calls \ {e} \subseteq calls'
      BY <3>1 DEF ServeCall
    <3> QED
      BY <1>1, <3>1, <3>2
  <2>2. configs' = [configs EXCEPT ![c.i].band = c.row]
    BY <1>1, <2>1 DEF ServeCall
  <2>3. SentFacts(c) /\ configs \in [ConfigIds -> Rows \cup {NULL}]
    BY <1>1 DEF IInv, CallsInv, ServerTypes
  <2>4. /\ c.i \in ConfigIds /\ c.form \in Forms /\ Untouched(c.form)
        /\ c.row = onValid(c.form)
    BY <1>1, <2>3 DEF SentFacts
  <2>5. PICK f \in Forms : f = c.form
    BY <2>4
  <2>6. f.from \in Bands /\ f.values[b] = Text(f.from[b])
    BY <1>1, <2>4, <2>5 DEF Untouched
  <2>7. PICK v \in (0..9) \cup {NULL} : v = f.from[b]
    BY <1>1, <2>6 DEF Bands
  <2>8. onValid(f)[b] = v
    BY <1>1, <2>6, <2>7, BandsAreConvertedBack DEF onValid
  <2>9. PICK q \in Rows : q = configs[c.i]
    BY <1>1, <2>3, <2>4
  <2>10. configs'[c.i].band = c.row
    BY <2>2, <2>3, <2>4, <2>9 DEF Rows
  <2> QED
    BY <1>1, <2>4, <2>5, <2>7, <2>8, <2>10
<1>2. IInv /\ [Next]_vars =>
        [\A c \in calls : c.op = "update" /\ configs' # configs /\ c \notin calls'
           /\ configs[c.i] # NULL /\ configs[c.i].band = c.form.from
           => \A b \in BandNames \ c.form.typed : configs'[c.i].band[b] = configs[c.i].band[b]]_vars
  BY <1>1
<1> QED
  BY <1>2, InvHolds, PTL DEF Spec, OnlyTypedBandsChange
=============================================================================
