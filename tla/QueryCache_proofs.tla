-------------------------- MODULE QueryCache_proofs --------------------------
(***************************************************************************)
(* Facts about one entry of the query cache that the proofs about the      *)
(* pages share: what each operation on an entry keeps of its shape and of  *)
(* its freshness.  T is the number of this tab's writes the tab has been   *)
(* told of that the entry depends on; `active` says whether a component on *)
(* screen uses it.                                                         *)
(***************************************************************************)
EXTENDS QueryCache, Integers, TLAPS

(* The fields of an entry, whatever they hold.                              *)
IsEntry(e) ==
  /\ e \in [data : {e.data}, invalid : BOOLEAN, failed : BOOLEAN,
            fetch : {e.fetch}, overtaken : BOOLEAN]
  /\ e.fetch \in {Idle, Asked, Answered(e.fetch.answer)}

(* At rest the entry shows the writes it should, or says why not.           *)
Fresh(e, T, active) ==
  HasData(e) /\ ~ IsFetching(e) =>
    e.data.asOf >= T \/ e.overtaken \/ (e.invalid /\ (active => e.failed))

(* So will the response on its way.                                         *)
BringsFresh(e, T) ==
  e.fetch.state = "answered" => e.fetch.answer.asOf >= T \/ e.overtaken

UpToDate(e, T, active) == IsEntry(e) /\ Fresh(e, T, active) /\ BringsFresh(e, T)

(* What the operations return.                                              *)

LEMMA AskFields ==
  ASSUME NEW e, IsEntry(e)
  PROVE  /\ IsEntry(Ask(e))
         /\ Ask(e).data = e.data /\ Ask(e).fetch = Asked /\ Ask(e).overtaken = FALSE
BY DEF IsEntry, Ask, HasData

LEMMA InvalidatedFields ==
  ASSUME NEW e, IsEntry(e), NEW active \in BOOLEAN
  PROVE  LET f == Invalidated(e, active)
         IN  /\ IsEntry(f) /\ f.data = e.data
             /\ \/ f.fetch = Asked
                \/ /\ f.fetch = e.fetch /\ f.invalid = HasData(e) /\ f.overtaken = IsFetching(e)
                   /\ ~ active \/ (IsFetching(e) /\ ~ HasData(e))
<1> DEFINE marked == [e EXCEPT !.invalid = HasData(e)]
<1>1. /\ IsEntry(marked)
      /\ marked.data = e.data /\ marked.invalid = HasData(e) /\ marked.fetch = e.fetch
  BY DEF IsEntry, HasData
<1>2. CASE active /\ (~ IsFetching(e) \/ HasData(e))
  BY <1>1, <1>2, AskFields DEF Invalidated
<1>3. CASE ~ (active /\ (~ IsFetching(e) \/ HasData(e)))
  BY <1>1, <1>3 DEF Invalidated, IsEntry, IsFetching
<1> QED
  BY <1>2, <1>3

(* What they make of an entry.                                              *)

LEMMA AskUpToDate ==
  ASSUME NEW e, IsEntry(e), NEW T, NEW active \in BOOLEAN
  PROVE  UpToDate(Ask(e), T, active)
<1>1. IsEntry(Ask(e)) /\ Ask(e).fetch = Asked
  BY AskFields
<1> QED
  BY <1>1 DEF UpToDate, Fresh, BringsFresh, IsFetching, Asked

(* An entry that comes into use is fetched if it was only marked.           *)
LEMMA ObservedUpToDate ==
  ASSUME NEW e, NEW T, UpToDate(e, T, FALSE), NEW active \in BOOLEAN
  PROVE  UpToDate(Observed(e), T, active)
<1>1. CASE ~ IsFetching(e) /\ (~ HasData(e) \/ e.invalid)
  BY <1>1, AskUpToDate DEF Observed, UpToDate
<1>2. CASE ~ (~ IsFetching(e) /\ (~ HasData(e) \/ e.invalid))
  BY <1>2 DEF Observed, UpToDate, Fresh
<1> QED
  BY <1>1, <1>2

(* Whatever has been written by now, an invalidated entry is fetched again, *)
(* marked, or remembered as overtaken.                                      *)
LEMMA InvalidatedUpToDate ==
  ASSUME NEW e, IsEntry(e), NEW T, NEW active \in BOOLEAN
  PROVE  UpToDate(Invalidated(e, active), T, active)
<1> DEFINE f == Invalidated(e, active)
<1>1. /\ IsEntry(f) /\ f.data = e.data
      /\ \/ f.fetch = Asked
         \/ /\ f.fetch = e.fetch /\ f.invalid = HasData(e) /\ f.overtaken = IsFetching(e)
            /\ ~ active \/ (IsFetching(e) /\ ~ HasData(e))
  BY InvalidatedFields
<1> SUFFICES UpToDate(f, T, active)
  OBVIOUS
<1> HIDE DEF f
<1>2. CASE f.fetch = Asked
  BY <1>1, <1>2 DEF UpToDate, Fresh, BringsFresh, IsFetching, Asked
<1>3. CASE f.fetch # Asked
  <2>1. Fresh(f, T, active)
    BY <1>1, <1>3 DEF Fresh, HasData, IsFetching
  <2>2. BringsFresh(f, T)
    BY <1>1, <1>3 DEF BringsFresh, IsFetching
  <2> QED
    BY <1>1, <2>1, <2>2 DEF UpToDate
<1> QED
  BY <1>2, <1>3

LEMMA AnsweredUpToDate ==
  ASSUME NEW e, IsEntry(e), NEW T, NEW answer, answer.asOf >= T, NEW active \in BOOLEAN
  PROVE  UpToDate([e EXCEPT !.fetch = Answered(answer)], T, active)
BY DEF UpToDate, Fresh, BringsFresh, IsEntry, IsFetching, HasData, Answered

LEMMA ReceivedUpToDate ==
  ASSUME NEW e, NEW T, UpToDate(e, T, FALSE), e.fetch.state = "answered", NEW active \in BOOLEAN
  PROVE  UpToDate(Received(e), T, active)
BY DEF UpToDate, Fresh, BringsFresh, IsEntry, IsFetching, HasData, Received, Written, Idle

LEMMA FailedUpToDate ==
  ASSUME NEW e, IsEntry(e), NEW T, NEW active \in BOOLEAN
  PROVE  UpToDate(Failed(e), T, active)
BY DEF UpToDate, Fresh, BringsFresh, IsEntry, IsFetching, HasData, Failed, Idle

LEMMA UnusedUpToDate ==
  ASSUME NEW e, NEW T, NEW active \in BOOLEAN, UpToDate(e, T, active)
  PROVE  UpToDate(e, T, FALSE)
BY DEF UpToDate, Fresh

-----------------------------------------------------------------------------
(* What an entry holds: only a response brings anything new, and only what  *)
(* the server answered becomes data.                                        *)

Kept(e, f) == IsEntry(f) /\ f.data = e.data /\ f.fetch \in {e.fetch, Asked, Idle}

Took(e, f) ==
  IsEntry(f) /\ e.fetch.state = "answered" /\ f.data = e.fetch.answer /\ f.fetch = Idle

Brought(e, f, answer) == IsEntry(f) /\ f.data = e.data /\ f.fetch = Answered(answer)

(* The responses an entry shows or is about to show.                        *)
Holds(e) ==
  (IF HasData(e) THEN {e.data} ELSE {}) \cup
  (IF e.fetch.state = "answered" THEN {e.fetch.answer} ELSE {})

LEMMA OperationsKeep ==
  ASSUME NEW e, IsEntry(e), NEW active \in BOOLEAN
  PROVE  /\ Kept(e, e) /\ Kept(e, Ask(e)) /\ Kept(e, Observed(e))
         /\ Kept(e, Invalidated(e, active)) /\ Kept(e, Failed(e))
<1>1. Kept(e, Ask(e))
  BY AskFields DEF Kept
<1>2. Kept(e, Invalidated(e, active))
  BY InvalidatedFields DEF Kept
<1>3. Kept(e, Failed(e))
  BY DEF Kept, Failed, IsEntry, HasData, Idle
<1> QED
  BY <1>1, <1>2, <1>3 DEF Kept, Observed

LEMMA ReceivedTakes ==
  ASSUME NEW e, IsEntry(e), e.fetch.state = "answered"
  PROVE  Took(e, Received(e))
BY DEF Took, Received, Written, IsEntry, Idle

LEMMA AnswerBrings ==
  ASSUME NEW e, IsEntry(e), NEW answer
  PROVE  Brought(e, [e EXCEPT !.fetch = Answered(answer)], answer)
BY DEF Brought, IsEntry, Answered

LEMMA HoldsOnlyResponses ==
  ASSUME NEW e, NEW f, NEW answer
  PROVE  /\ Kept(e, f) => Holds(f) \subseteq Holds(e)
         /\ Took(e, f) => Holds(f) \subseteq Holds(e)
         /\ Brought(e, f, answer) => Holds(f) \subseteq Holds(e) \cup {answer}
BY DEF Kept, Took, Brought, Holds, HasData, Asked, Idle, Answered
=============================================================================
