------------------------- MODULE AlertsPanel_proofs -------------------------
(***************************************************************************)
(* Proofs about the alert stream and the panel that runs it.  Of           *)
(* AlertStream: type correctness, the order of delivery, what may be       *)
(* delivered at all, where the gaps of a stream come from, and that there  *)
(* are none without concurrent writers.  Of AlertsPanel: what is proved of *)
(* the stream holds of it; an entry lists no alert twice and only alerts   *)
(* of its own well; what was dismissed stays away; what was streamed is    *)
(* listed.                                                                 *)
(***************************************************************************)
EXTENDS AlertsPanel, SequenceTheorems, WellFoundedInduction, FiniteSetTheorems, TLAPS

-----------------------------------------------------------------------------
(* The stream.                                                              *)

(* The two choices of the generator and the snapshot are well defined: a    *)
(* set of numbers has a least element, a bounded one a greatest.            *)
LEMMA LowestIsLeast ==
  ASSUME NEW S \in SUBSET Nat, S # {}
  PROVE  Lowest(S) \in S /\ \A j \in S : Lowest(S) <= j
<1>1. \E x \in S : \A y \in S : ~ (<<y, x>> \in OpToRel(<, Nat))
  BY NatLessThanWellFounded, WFMin
<1>2. PICK x \in S : \A y \in S : ~ (<<y, x>> \in OpToRel(<, Nat))
  BY <1>1
<1>3. \A y \in S : ~ (y < x)
  <2> TAKE y \in S
  <2>1. ~ (<<y, x>> \in {ss \in Nat \X Nat : ss[1] < ss[2]})
    BY <1>2 DEF OpToRel
  <2> QED
    BY <2>1
<1>4. \A y \in S : x <= y
  BY <1>3
<1> QED
  BY <1>4 DEF Lowest

LEMMA HighestIsGreatest ==
  ASSUME NEW n \in Nat, NEW S \in SUBSET (0..n), S # {}
  PROVE  Highest(S) \in S /\ \A j \in S : j <= Highest(S)
<1> DEFINE T == {n - i : i \in S}
<1>0. \A i \in S : i \in 0..n /\ n - i \in Nat
  OBVIOUS
<1>1. T \in SUBSET Nat /\ T # {}
  BY <1>0
<1>2. PICK m \in T : \A j \in T : m <= j
  BY <1>1, LowestIsLeast
<1>3. PICK i \in S : m = n - i
  OBVIOUS
<1>4. \A j \in S : j <= i
  BY <1>2, <1>3
<1> QED
  BY <1>4 DEF Highest

-----------------------------------------------------------------------------
(* The table.                                                               *)

LEMMA LogInitType == LogInit => LogTypeOK
BY AlertLogAssumption DEF LogInit, LogTypeOK

LEMMA LogStepType == LogTypeOK /\ [LogNext]_logVars => LogTypeOK'
<1> SUFFICES ASSUME LogTypeOK, [LogNext]_logVars PROVE LogTypeOK'
  OBVIOUS
<1> USE AlertLogAssumption DEF LogTypeOK
<1>1. ASSUME NEW w \in Wells, Insert(w) PROVE LogTypeOK'
  BY <1>1 DEF Insert
<1>2. ASSUME NEW w \in Wells, DeleteWell(w) PROVE LogTypeOK'
  BY <1>2 DEF DeleteWell
<1>3. ASSUME NEW i \in Ids, Commit(i) PROVE LogTypeOK'
  BY <1>3 DEF Commit
<1>4. ASSUME NEW i \in Ids, Rollback(i) PROVE LogTypeOK'
  BY <1>4 DEF Rollback
<1>5. ASSUME NEW i \in Ids, Acknowledge(i) PROVE LogTypeOK'
  BY <1>5 DEF Acknowledge
<1>6. CASE UNCHANGED logVars
  BY <1>6 DEF logVars
<1> QED
  BY <1>1, <1>2, <1>3, <1>4, <1>5, <1>6 DEF LogNext

(* A step of the stream is a step of the table or leaves the table alone.   *)
LEMMA StreamStepIsLogStep == [Next]_vars => [LogNext]_logVars
<1> SUFFICES ASSUME [Next]_vars PROVE [LogNext]_logVars
  OBVIOUS
<1>1. ASSUME NEW i \in Ids, CommitAlert(i) PROVE LogNext
  BY <1>1 DEF CommitAlert, LogNext
<1>2. ASSUME OtherWrite PROVE LogNext
  BY <1>2 DEF OtherWrite, LogNext
<1>3. ASSUME Connect \/ Refuse \/ Receive \/ Drop PROVE UNCHANGED logVars
  BY <1>3 DEF Connect, Refuse, Receive, Drop
<1>4. ASSUME Serve PROVE UNCHANGED logVars
  BY <1>4 DEF Serve, Resume, PollFindsAlerts, PollFindsNothing, Emit
<1>5. CASE UNCHANGED vars
  BY <1>5 DEF vars
<1> QED
  BY <1>1, <1>2, <1>3, <1>4, <1>5 DEF Next

(* AlertLog holds of the table whatever streams do: they only read it.      *)
THEOREM StreamKeepsLog == Spec => LogSpec
<1>1. Init => LogInit
  BY DEF Init
<1> QED
  BY <1>1, StreamStepIsLogStep, PTL DEF Spec, LogSpec

(* The types of the table's columns, for any number of alerts and writers.  *)
THEOREM LogTypeCorrect == LogSpec => []LogTypeOK
BY LogInitType, LogStepType, PTL DEF LogSpec

(* An id names one alert for ever.                                          *)
THEOREM LogIdsAreNeverReused == LogSpec => IdsAreNeverReused
<1>1. LogTypeOK /\ [LogNext]_logVars =>
        [\A i \in 1..seq : i \notin live \cup pending
                            => i \notin live' \cup pending']_logVars
  <2> SUFFICES ASSUME LogTypeOK, LogNext,
                      NEW i \in 1..seq, i \notin live, i \notin pending
               PROVE  i \notin live' /\ i \notin pending'
    OBVIOUS
  <2> USE AlertLogAssumption DEF LogTypeOK
  <2>1. ASSUME NEW w \in Wells, Insert(w) PROVE i \notin live' /\ i \notin pending'
    BY <2>1 DEF Insert
  <2>2. ASSUME NEW w \in Wells, DeleteWell(w) PROVE i \notin live' /\ i \notin pending'
    BY <2>2 DEF DeleteWell
  <2>3. ASSUME NEW j \in Ids, Commit(j) \/ Rollback(j) \/ Acknowledge(j)
        PROVE  i \notin live' /\ i \notin pending'
    BY <2>3 DEF Commit, Rollback, Acknowledge
  <2> QED
    BY <2>1, <2>2, <2>3 DEF LogNext
<1> QED
  BY <1>1, LogTypeCorrect, PTL DEF LogSpec, IdsAreNeverReused

(* Acknowledging is final, and only the deletion of a well removes alerts.  *)
THEOREM LogOnlyWellsTakeAlertsAway ==
  LogSpec => AcknowledgedForGood /\ GoneOnlyWithWell
<1>1. LogTypeOK /\ [LogNext]_logVars =>
        /\ [\A i \in acked : i \in acked' \/ wellOf[i] \notin wells']_logVars
        /\ [\A i \in live : i \in live' \/ wellOf[i] \notin wells']_logVars
  <2> SUFFICES ASSUME LogTypeOK, LogNext
               PROVE  /\ \A i \in acked : i \in acked' \/ wellOf[i] \notin wells'
                      /\ \A i \in live : i \in live' \/ wellOf[i] \notin wells'
    OBVIOUS
  <2>1. ASSUME NEW w \in Wells, DeleteWell(w)
        PROVE  /\ \A i \in acked : i \in acked' \/ wellOf[i] \notin wells'
               /\ \A i \in live : i \in live' \/ wellOf[i] \notin wells'
    BY <2>1 DEF DeleteWell
  <2>2. ASSUME NEW w \in Wells, Insert(w) PROVE acked' = acked /\ live' = live
    BY <2>2 DEF Insert
  <2>3. ASSUME NEW i \in Ids, Commit(i) \/ Rollback(i) \/ Acknowledge(i)
        PROVE  acked \subseteq acked' /\ live \subseteq live'
    BY <2>3 DEF Commit, Rollback, Acknowledge
  <2> QED
    BY <2>1, <2>2, <2>3 DEF LogNext
<1> QED
  BY <1>1, LogTypeCorrect, PTL DEF LogSpec, AcknowledgedForGood, GoneOnlyWithWell

-----------------------------------------------------------------------------
(* Types of the stream.                                                     *)

StreamTypeOK ==
  /\ sinceId \in SinceIds \cup {NoSince}
  /\ lastEventId \in 0..MaxAlert
  /\ got \in Seq(Ids)
  /\ connects \in 0..MaxConnects
  /\ gen \in {"off", "resume", "poll", "emit"}
  /\ cursor \in Nat
  /\ batch \subseteq 1..seq
  /\ quiet \in 0..HeartbeatEvery
  /\ wire \in Seq(Ids)
  /\ idle \in Nat
  /\ base \in Nat
  /\ joined \in Nat
  /\ late \subseteq 1..seq
  /\ gen = "emit" <=> batch # {}

LEMMA InitStreamType == Init => StreamTypeOK
BY AlertLogAssumption, StreamAssumption
   DEF Init, LogInit, StreamInit, StreamTypeOK, NotYet, Ids

LEMMA StreamStepType ==
  LogTypeOK /\ StreamTypeOK /\ [Next]_vars => StreamTypeOK'
<1> SUFFICES ASSUME LogTypeOK, StreamTypeOK, [Next]_vars PROVE StreamTypeOK'
  OBVIOUS
<1> USE AlertLogAssumption, StreamAssumption DEF LogTypeOK, StreamTypeOK
<1>1. ASSUME NEW i \in Ids, CommitAlert(i) PROVE StreamTypeOK'
  BY <1>1 DEF CommitAlert, Commit, clientVars, serverVars
<1>2. CASE OtherWrite
  <2>1. seq' \in Nat /\ seq <= seq'
    <3>1. ASSUME NEW w \in Wells, Insert(w) \/ DeleteWell(w) PROVE seq' \in Nat /\ seq <= seq'
      BY <3>1 DEF Insert, DeleteWell
    <3>2. ASSUME NEW i \in Ids, Rollback(i) \/ Acknowledge(i) PROVE seq' \in Nat /\ seq <= seq'
      BY <3>2 DEF Rollback, Acknowledge
    <3> QED
      BY <1>2, <3>1, <3>2 DEF OtherWrite
  <2> QED
    BY <1>2, <2>1 DEF OtherWrite, streamVars, clientVars, serverVars
<1>3. CASE Connect \/ Refuse
  <2>1. /\ UNCHANGED <<logVars, sinceId, lastEventId, got, cursor, batch, quiet, wire, idle, base,
                      joined, late>>
        /\ gen = "off" /\ connects < MaxConnects
        /\ connects' = connects + 1 \/ connects' = connects
        /\ gen' = "resume" \/ gen' = gen
    BY <1>3, Zenon DEF Connect, Refuse, serverVars
  <2> QED
    BY <2>1 DEF logVars
<1>4. CASE Receive
  <2>1. Head(wire) \in Ids /\ Tail(wire) \in Seq(Ids)
    BY <1>4, HeadTailProperties DEF Receive
  <2>2. Append(got, Head(wire)) \in Seq(Ids)
    BY <2>1
  <2> QED
    BY <1>4, <2>1, <2>2 DEF Receive, logVars, serverVars, Ids
<1>5. CASE Drop
  <2>1. late' \subseteq 1..seq' /\ seq' = seq
    BY <1>5 DEF Drop, logVars
  <2>2. wire' \in Seq(Ids)
    BY <1>5, EmptySeq DEF Drop
  <2>3. batch' = {} /\ gen' = "off"
    BY <1>5 DEF Drop
  <2> QED
    BY <1>5, <2>1, <2>2, <2>3 DEF Drop, clientVars
<1>6. CASE Resume
  <2>1. MaxAlertId \in Nat
    <3>1. CASE live = {}
      BY <3>1 DEF MaxAlertId
    <3>2. CASE live # {}
      <4>1. live \in SUBSET (0..seq) /\ seq \in Nat
        OBVIOUS
      <4>2. PICK top \in live : top = Highest(live)
        BY <3>2, <4>1, HighestIsGreatest
      <4> QED
        BY <3>2, <4>1, <4>2 DEF MaxAlertId
    <3> QED
      BY <3>1, <3>2
  <2>2. ResumePoint # NoSince => ResumePoint \in Nat
    BY DEF ResumePoint
  <2> QED
    BY <1>6, <2>1, <2>2 DEF Resume, logVars, clientVars
<1>7. CASE PollFindsAlerts
  <2>1. batch' # {} /\ batch' \subseteq live /\ gen' = "emit"
    BY <1>7 DEF PollFindsAlerts, AlertsSince
  <2>2. batch' \subseteq 1..seq' /\ seq' = seq
    BY <1>7, <2>1 DEF PollFindsAlerts, logVars
  <2> QED
    BY <1>7, <2>1, <2>2 DEF PollFindsAlerts, clientVars
<1>8. CASE PollFindsNothing
  BY <1>8 DEF PollFindsNothing, logVars, clientVars
<1>9. CASE Emit
  <2>1. PICK low \in batch : low = Lowest(batch)
    <3>1. batch \in SUBSET Nat /\ batch # {}
      BY <1>9 DEF Emit
    <3> QED
      BY <3>1, LowestIsLeast
  <2>2. low \in Ids
    BY DEF Ids
  <2>3. /\ wire' \in Seq(Ids)
        /\ cursor' \in Nat
        /\ batch' \subseteq batch
    BY <1>9, <2>1, <2>2 DEF Emit
  <2>4. /\ gen' \in {"poll", "emit"}
        /\ gen' = "emit" <=> batch' # {}
    BY <1>9 DEF Emit
  <2> QED
    BY <1>9, <2>3, <2>4 DEF Emit, logVars, clientVars
<1>10. CASE UNCHANGED vars
  BY <1>10 DEF vars, logVars, streamVars, clientVars, serverVars
<1> QED
  BY <1>1, <1>2, <1>3, <1>4, <1>5, <1>6, <1>7, <1>8, <1>9, <1>10 DEF Next, Serve

(* The EventSource's end is kept apart: it is a truth value, not a number.  *)
ClosedTypeOK == closed \in BOOLEAN

LEMMA ClosedType == Spec => []ClosedTypeOK
<1>1. Init => ClosedTypeOK
  BY Zenon DEF Init, StreamInit, ClosedTypeOK
<1>2. ClosedTypeOK /\ [Next]_vars => ClosedTypeOK'
  <2> SUFFICES ASSUME closed \in BOOLEAN, [Next]_vars PROVE closed' \in BOOLEAN
    BY Zenon DEF ClosedTypeOK
  <2>1. ASSUME NEW i \in Ids, CommitAlert(i) PROVE closed' \in BOOLEAN
    BY <2>1, Zenon DEF CommitAlert, clientVars
  <2>2. CASE OtherWrite
    BY <2>2, Zenon DEF OtherWrite, streamVars, clientVars
  <2>3. CASE Connect \/ Refuse \/ Receive
    BY <2>3, Zenon DEF Connect, Refuse, Receive
  <2>4. CASE Drop \/ Serve
    BY <2>4, Zenon DEF Drop, Serve, Resume, PollFindsAlerts, PollFindsNothing, Emit, clientVars
  <2>5. CASE UNCHANGED vars
    BY <2>5, Zenon DEF vars, streamVars, clientVars
  <2> QED
    BY <2>1, <2>2, <2>3, <2>4, <2>5 DEF Next
<1> QED
  BY <1>1, <1>2, PTL DEF Spec

LEMMA StreamTypes == Spec => [](LogTypeOK /\ StreamTypeOK)
<1>1. Spec => []LogTypeOK
  BY StreamKeepsLog, LogTypeCorrect
<1> QED
  BY <1>1, InitStreamType, StreamStepType, PTL DEF Spec

(* Type correctness of the stream, whatever the bounds.                     *)
THEOREM StreamTypeCorrect == Spec => []TypeOK
<1>1. LogTypeOK /\ StreamTypeOK /\ ClosedTypeOK => TypeOK
  BY Zenon DEF StreamTypeOK, ClosedTypeOK, TypeOK
<1> QED
  BY <1>1, StreamTypes, ClosedType, PTL

-----------------------------------------------------------------------------
(* Order of delivery.  What the client has is below what is on the wire,    *)
(* the wire is below the cursor, and the cursor is below the batch; each of *)
(* them increases, so appending the least of the batch keeps it that way.   *)

OrderInv ==
  /\ \A k \in DOMAIN got : got[k] <= lastEventId
  /\ \A k, l \in DOMAIN got : k < l => got[k] < got[l]
  /\ \A k \in DOMAIN wire : lastEventId < wire[k] /\ wire[k] <= cursor
  /\ \A k, l \in DOMAIN wire : k < l => wire[k] < wire[l]
  /\ \A i \in batch : cursor < i
  /\ gen \in {"poll", "emit"} => lastEventId <= cursor
  /\ gen \in {"off", "resume"} => wire = <<>>

LEMMA InitOrder == Init => OrderInv
BY DEF Init, StreamInit, OrderInv

LEMMA ReceiveOrder ==
  ASSUME StreamTypeOK, OrderInv, Receive
  PROVE  OrderInv'
<1> USE DEF StreamTypeOK
<1> DEFINE h == Head(wire)
<1>1. /\ Len(wire) \in Nat \ {0} /\ DOMAIN wire = 1..Len(wire)
      /\ h = wire[1] /\ h \in Nat
      /\ lastEventId < h /\ h <= cursor
  <2>1. Len(wire) \in Nat /\ DOMAIN wire = 1..Len(wire)
    BY LenProperties
  <2>2. wire # <<>> /\ Len(wire) # 0
    BY EmptySeq DEF Receive
  <2>3. h = wire[1] /\ h \in Ids
    BY <2>2, HeadTailProperties
  <2> QED
    BY <2>1, <2>2, <2>3 DEF OrderInv, Ids
<1>2. /\ DOMAIN wire' = 1..(Len(wire) - 1)
      /\ \A k \in DOMAIN wire' : wire'[k] = wire[k + 1]
  BY <1>1, HeadTailProperties, LenProperties DEF Receive
<1>3. /\ DOMAIN got = 1..Len(got) /\ Len(got) \in Nat
      /\ DOMAIN got' = 1..(Len(got) + 1)
      /\ \A k \in DOMAIN got' : got'[k] = IF k <= Len(got) THEN got[k] ELSE h
  BY <1>1, AppendProperties, LenProperties DEF Receive
<1>4. /\ \A k \in DOMAIN got : got[k] \in Nat
      /\ \A k \in DOMAIN wire : wire[k] \in Nat
  <2>1. /\ \A k \in DOMAIN got : got[k] \in Ids
        /\ \A k \in DOMAIN wire : wire[k] \in Ids
    BY <1>1, <1>3, ElementOfSeq
  <2> QED
    BY <2>1 DEF Ids
<1>5. \A k \in DOMAIN got' : got'[k] <= lastEventId'
  BY <1>1, <1>3, <1>4 DEF OrderInv, Receive
<1>6. \A k, l \in DOMAIN got' : k < l => got'[k] < got'[l]
  BY <1>1, <1>3, <1>4 DEF OrderInv
<1>7. /\ \A k \in DOMAIN wire' : lastEventId' < wire'[k] /\ wire'[k] <= cursor'
      /\ \A k, l \in DOMAIN wire' : k < l => wire'[k] < wire'[l]
  <2>1. \A k \in DOMAIN wire' : 1 \in DOMAIN wire /\ k + 1 \in DOMAIN wire /\ 1 < k + 1
    BY <1>1, <1>2
  <2>2. lastEventId' = h /\ cursor' = cursor
    BY DEF Receive, serverVars
  <2>3. \A k \in DOMAIN wire' : h < wire'[k] /\ wire'[k] <= cursor
    BY <1>1, <1>2, <2>1 DEF OrderInv
  <2>4. \A k, l \in DOMAIN wire' : k < l => wire'[k] < wire'[l]
    BY <1>1, <1>2, <2>1 DEF OrderInv
  <2> QED
    BY <2>2, <2>3, <2>4
<1>8. gen \notin {"off", "resume"}
  BY DEF OrderInv, Receive
<1> QED
  BY <1>1, <1>5, <1>6, <1>7, <1>8 DEF OrderInv, Receive, serverVars

LEMMA EmitOrder ==
  ASSUME StreamTypeOK, OrderInv, Emit
  PROVE  OrderInv'
<1> USE DEF StreamTypeOK
<1>1. PICK low \in batch : low = Lowest(batch) /\ \A i \in batch : low <= i
  <2>1. batch \in SUBSET Nat /\ batch # {}
    BY DEF Emit
  <2> QED
    BY <2>1, LowestIsLeast
<1>2. low \in Nat /\ cursor < low /\ cursor' = low
  BY <1>1 DEF Emit, OrderInv
<1>3. /\ DOMAIN wire = 1..Len(wire) /\ Len(wire) \in Nat
      /\ DOMAIN wire' = 1..(Len(wire) + 1)
      /\ \A k \in DOMAIN wire' : wire'[k] = IF k <= Len(wire) THEN wire[k] ELSE low
  BY <1>1, AppendProperties, LenProperties DEF Emit
<1>4. \A k \in DOMAIN wire : wire[k] \in Nat
  <2>1. \A k \in DOMAIN wire : wire[k] \in Ids
    BY <1>3, ElementOfSeq
  <2> QED
    BY <2>1 DEF Ids
<1>5. /\ \A k \in DOMAIN wire' : lastEventId' < wire'[k] /\ wire'[k] <= cursor'
      /\ \A k, l \in DOMAIN wire' : k < l => wire'[k] < wire'[l]
  BY <1>2, <1>3, <1>4 DEF OrderInv, Emit, clientVars
<1>6. \A i \in batch' : cursor' < i
  BY <1>1, <1>2 DEF Emit
<1> QED
  BY <1>2, <1>5, <1>6 DEF OrderInv, Emit, clientVars

LEMMA StepOrder ==
  LogTypeOK /\ StreamTypeOK /\ OrderInv /\ [Next]_vars => OrderInv'
<1> SUFFICES ASSUME LogTypeOK, StreamTypeOK, OrderInv, [Next]_vars PROVE OrderInv'
  OBVIOUS
<1>1. ASSUME NEW i \in Ids, CommitAlert(i) PROVE OrderInv'
  BY <1>1 DEF CommitAlert, clientVars, serverVars, OrderInv
<1>2. CASE OtherWrite
  BY <1>2 DEF OtherWrite, streamVars, clientVars, serverVars, OrderInv
<1>3. CASE Connect \/ Refuse
  BY <1>3 DEF Connect, Refuse, serverVars, OrderInv
<1>4. CASE Receive
  BY <1>4, ReceiveOrder
<1>5. CASE Drop
  BY <1>5 DEF Drop, clientVars, OrderInv
<1>6. CASE Resume
  <2>1. lastEventId' <= cursor'
    <3>1. CASE lastEventId # 0
      BY <1>6, <3>1, AlertLogAssumption, StreamAssumption
         DEF Resume, ResumePoint, clientVars, StreamTypeOK
    <3>2. CASE lastEventId = 0
      BY <1>6, <3>2, StreamStepType DEF Resume, clientVars, StreamTypeOK
    <3> QED
      BY <3>1, <3>2
  <2> QED
    BY <1>6, <2>1 DEF Resume, clientVars, OrderInv
<1>7. CASE PollFindsAlerts
  BY <1>7 DEF PollFindsAlerts, AlertsSince, clientVars, OrderInv
<1>8. CASE PollFindsNothing
  BY <1>8 DEF PollFindsNothing, clientVars, OrderInv
<1>9. CASE Emit
  BY <1>9, EmitOrder
<1>10. CASE UNCHANGED vars
  BY <1>10 DEF vars, streamVars, clientVars, serverVars, OrderInv
<1> QED
  BY <1>1, <1>2, <1>3, <1>4, <1>5, <1>6, <1>7, <1>8, <1>9, <1>10 DEF Next, Serve

LEMMA StreamOrder == Spec => []OrderInv
BY StreamTypes, InitOrder, StepOrder, PTL DEF Spec

(* A client never sees an alert twice or out of order, over any number of   *)
(* reconnects, for any table and any since_id.                              *)
THEOREM DeliveryInOrder == Spec => []InOrderNoDuplicates
<1>1. OrderInv => InOrderNoDuplicates
  BY DEF OrderInv, InOrderNoDuplicates
<1> QED
  BY <1>1, StreamOrder, PTL

-----------------------------------------------------------------------------
(* What is sent.  An id that the client has, or is on its way there, is a   *)
(* committed alert, or was one until its well was deleted.                  *)

OnWire == {wire[k] : k \in DOMAIN wire}
Sent == Delivered \cup OnWire \cup batch
WasCommitted(i) == i \in 1..seq /\ (i \in live \/ wellOf[i] \notin wells)
SentInv == \A i \in Sent : WasCommitted(i)

(* How delivery and emission move ids between the three sets.               *)
LEMMA ReceiveMoves ==
  ASSUME StreamTypeOK, Receive
  PROVE  /\ Delivered' = Delivered \cup {Head(wire)}
         /\ OnWire = OnWire' \cup {Head(wire)}
<1>1. /\ Len(wire) \in Nat /\ Len(wire) # 0 /\ DOMAIN wire = 1..Len(wire)
      /\ Head(wire) = wire[1] /\ Head(wire) \in Ids
  <2>1. wire \in Seq(Ids) /\ wire # <<>>
    BY DEF StreamTypeOK, Receive
  <2>2. Len(wire) \in Nat /\ DOMAIN wire = 1..Len(wire)
    BY <2>1, LenProperties
  <2>3. Len(wire) # 0
    BY <2>1, EmptySeq
  <2> QED
    BY <2>1, <2>2, <2>3, HeadTailProperties
<1>2. /\ DOMAIN wire' = 1..(Len(wire) - 1)
      /\ \A k \in DOMAIN wire' : wire'[k] = wire[k + 1]
  BY <1>1, HeadTailProperties, LenProperties DEF Receive, StreamTypeOK
<1>3. /\ DOMAIN got = 1..Len(got) /\ Len(got) \in Nat
      /\ DOMAIN got' = 1..(Len(got) + 1)
      /\ \A k \in DOMAIN got' : got'[k] = IF k <= Len(got) THEN got[k] ELSE Head(wire)
  BY <1>1, AppendProperties, LenProperties DEF Receive, StreamTypeOK
<1>4. \A x : x \in Delivered' <=> x \in Delivered \/ x = Head(wire)
  BY <1>3 DEF Delivered
<1>5. \A x : x \in OnWire <=> x \in OnWire' \/ x = Head(wire)
  <2>1. \A k \in DOMAIN wire : k = 1 \/ (k - 1 \in DOMAIN wire' /\ wire'[k - 1] = wire[k])
    BY <1>1, <1>2
  <2>2. \A k \in DOMAIN wire' : k + 1 \in DOMAIN wire
    BY <1>1, <1>2
  <2> QED
    BY <1>1, <1>2, <2>1, <2>2 DEF OnWire
<1> QED
  BY <1>4, <1>5

LEMMA EmitMoves ==
  ASSUME StreamTypeOK, Emit
  PROVE  /\ Lowest(batch) \in batch
         /\ \A j \in batch : Lowest(batch) <= j
         /\ OnWire' = OnWire \cup {Lowest(batch)}
<1>1. PICK low \in batch : low = Lowest(batch) /\ \A j \in batch : low <= j
  <2>1. batch \in SUBSET Nat /\ batch # {}
    BY DEF Emit, StreamTypeOK
  <2> QED
    BY <2>1, LowestIsLeast
<1>2. /\ DOMAIN wire = 1..Len(wire) /\ Len(wire) \in Nat
      /\ DOMAIN wire' = 1..(Len(wire) + 1)
      /\ \A k \in DOMAIN wire' : wire'[k] = IF k <= Len(wire) THEN wire[k] ELSE low
  BY <1>1, AppendProperties, LenProperties DEF Emit, StreamTypeOK
<1>3. \A x : x \in OnWire' <=> x \in OnWire \/ x = low
  <2>1. /\ Len(wire) + 1 \in DOMAIN wire' /\ wire'[Len(wire) + 1] = low
        /\ \A k \in DOMAIN wire : k \in DOMAIN wire' /\ wire'[k] = wire[k]
        /\ \A k \in DOMAIN wire' : k \in DOMAIN wire \/ wire'[k] = low
    BY <1>2
  <2> QED
    BY <2>1 DEF OnWire
<1> QED
  BY <1>1, <1>3

LEMMA SentComesFromLive ==
  ASSUME StreamTypeOK, [Next]_vars
  PROVE  Sent' \subseteq Sent \cup live
<1>1. ASSUME NEW i \in Ids, CommitAlert(i) PROVE Sent' = Sent
  BY <1>1 DEF CommitAlert, clientVars, serverVars, Sent, Delivered, OnWire
<1>2. CASE OtherWrite
  BY <1>2 DEF OtherWrite, streamVars, clientVars, serverVars, Sent, Delivered, OnWire
<1>3. CASE Connect \/ Refuse
  BY <1>3 DEF Connect, Refuse, serverVars, Sent, Delivered, OnWire
<1>4. CASE Receive
  BY <1>4, ReceiveMoves DEF Receive, serverVars, Sent
<1>5. CASE Drop
  BY <1>5 DEF Drop, clientVars, Sent, Delivered, OnWire
<1>6. CASE Resume
  BY <1>6 DEF Resume, clientVars, Sent, Delivered, OnWire
<1>7. CASE PollFindsAlerts
  BY <1>7 DEF PollFindsAlerts, AlertsSince, clientVars, Sent, Delivered, OnWire
<1>8. CASE PollFindsNothing
  BY <1>8 DEF PollFindsNothing, clientVars, Sent, Delivered, OnWire
<1>9. CASE Emit
  <2>1. Delivered' = Delivered /\ batch' \subseteq batch
    BY <1>9 DEF Emit, clientVars, Delivered
  <2> QED
    BY <1>9, <2>1, EmitMoves DEF Sent
<1>10. CASE UNCHANGED vars
  BY <1>10 DEF vars, streamVars, clientVars, serverVars, Sent, Delivered, OnWire
<1> QED
  BY <1>1, <1>2, <1>3, <1>4, <1>5, <1>6, <1>7, <1>8, <1>9, <1>10 DEF Next, Serve

LEMMA CommittedStaysCommitted ==
  ASSUME LogTypeOK, [LogNext]_logVars, NEW i, WasCommitted(i)
  PROVE  WasCommitted(i)'
<1> USE AlertLogAssumption DEF LogTypeOK, WasCommitted
<1>1. ASSUME NEW w \in Wells, Insert(w) PROVE WasCommitted(i)'
  BY <1>1 DEF Insert
<1>2. ASSUME NEW w \in Wells, DeleteWell(w) PROVE WasCommitted(i)'
  BY <1>2 DEF DeleteWell
<1>3. ASSUME NEW j \in Ids, Commit(j) \/ Rollback(j) \/ Acknowledge(j)
      PROVE  WasCommitted(i)'
  BY <1>3 DEF Commit, Rollback, Acknowledge
<1>4. CASE UNCHANGED logVars
  BY <1>4 DEF logVars
<1> QED
  BY <1>1, <1>2, <1>3, <1>4 DEF LogNext

LEMMA StepSent ==
  LogTypeOK /\ StreamTypeOK /\ SentInv /\ [Next]_vars => SentInv'
<1> SUFFICES ASSUME LogTypeOK, StreamTypeOK, SentInv, [Next]_vars, NEW i \in Sent'
             PROVE  WasCommitted(i)'
  BY DEF SentInv
<1>1. WasCommitted(i)
  BY SentComesFromLive DEF SentInv, WasCommitted, LogTypeOK
<1> QED
  BY <1>1, CommittedStaysCommitted, StreamStepIsLogStep

(* A client is never told of an alert that was not committed, whatever is   *)
(* rolled back, and an alert it was told of is there while its well is.     *)
THEOREM DeliveredWereCommitted == Spec => []OnlyCommittedAlerts
<1>1. Init => SentInv
  BY DEF Init, StreamInit, SentInv, Sent, Delivered, OnWire
<1>2. SentInv => OnlyCommittedAlerts
  BY DEF SentInv, Sent, WasCommitted, OnlyCommittedAlerts
<1> QED
  BY <1>1, <1>2, StepSent, StreamTypes, PTL DEF Spec

-----------------------------------------------------------------------------
(* Gaps.  Below the client's last event, between it and the cursor, and     *)
(* between the cursor and the end of the batch, a visible alert this stream *)
(* owes is delivered, on the wire or in the batch, or it was late.          *)

Streaming == gen \in {"poll", "emit"}

GapInv ==
  /\ \A i \in live : base < i /\ i <= lastEventId => i \in Delivered \/ i \in late
  /\ Streaming => \A i \in live : base < i /\ lastEventId < i /\ i <= cursor
                                  => i \in OnWire \/ i \in late
  /\ \A j \in batch : \A i \in live : cursor < i /\ i <= j => i \in batch \/ i \in late

(* A commit above everything the stream has passed is not a gap; one below  *)
(* is late by definition.                                                   *)
LEMMA PassedBounds ==
  ASSUME LogTypeOK, StreamTypeOK, OrderInv
  PROVE  /\ lastEventId <= Passed
         /\ Streaming => cursor <= Passed /\ \A j \in batch : j <= Passed
         /\ Passed \in Nat
<1> USE DEF StreamTypeOK
<1>1. CASE Streaming
  <2> DEFINE S == batch \cup {cursor}
  <2>1. seq + cursor \in Nat /\ S \in SUBSET (0..(seq + cursor)) /\ S # {}
    BY DEF LogTypeOK
  <2>2. PICK top \in S : top = Highest(S) /\ \A j \in S : j <= top
    BY <2>1, HighestIsGreatest
  <2>3. Passed = top
    BY <1>1, <2>2 DEF Passed, Streaming
  <2>4. lastEventId <= cursor /\ cursor <= top /\ top \in Nat
    BY <1>1, <2>1, <2>2 DEF OrderInv, Streaming
  <2>5. \A j \in batch : j <= top
    BY <2>2
  <2>6. lastEventId <= top
    BY <2>4
  <2> HIDE DEF S
  <2> QED
    BY <2>3, <2>4, <2>5, <2>6
<1>2. CASE ~Streaming
  BY <1>2 DEF Passed, Streaming
<1> QED
  BY <1>1, <1>2

LEMMA CommitGap ==
  ASSUME LogTypeOK, StreamTypeOK, OrderInv, GapInv, NEW c \in Ids, CommitAlert(c)
  PROVE  GapInv'
<1>1. /\ live' = live \cup {c} /\ late \subseteq late'
      /\ c \in late' \/ ~ (c <= Passed)
      /\ UNCHANGED <<lastEventId, got, gen, cursor, batch, wire, base>>
  BY DEF CommitAlert, Commit, clientVars, serverVars
<1>2. c \in late' \/ (Passed < c /\ c \in Nat)
  BY <1>1, PassedBounds DEF Ids
<1>3. c \in late' \/ /\ ~ (c <= lastEventId)
                     /\ Streaming => ~ (c <= cursor) /\ \A j \in batch : ~ (c <= j)
  BY <1>2, PassedBounds DEF StreamTypeOK, LogTypeOK
<1>4. batch # {} => Streaming
  BY DEF StreamTypeOK, Streaming
<1>5. Delivered' = Delivered /\ OnWire' = OnWire /\ (Streaming' <=> Streaming)
  BY <1>1 DEF Delivered, OnWire, Streaming
<1> QED
  BY <1>1, <1>3, <1>4, <1>5 DEF GapInv

LEMMA ReceiveGap ==
  ASSUME LogTypeOK, StreamTypeOK, OrderInv, GapInv, Receive
  PROVE  GapInv'
<1> DEFINE h == Head(wire)
<1>1. /\ UNCHANGED <<live, late, base, gen, cursor, batch>> /\ lastEventId' = h
  BY DEF Receive, logVars, serverVars
<1>2. Delivered' = Delivered \cup {h} /\ OnWire = OnWire' \cup {h}
  BY ReceiveMoves
<1>3. /\ h \in Nat /\ lastEventId < h /\ h <= cursor /\ Streaming
      /\ \A i \in OnWire : i = h \/ h < i
  <2>1. wire \in Seq(Ids) /\ wire # <<>>
    BY DEF StreamTypeOK, Receive
  <2>2. /\ Len(wire) \in Nat /\ Len(wire) # 0 /\ DOMAIN wire = 1..Len(wire)
        /\ h = wire[1] /\ h \in Ids
    BY <2>1, EmptySeq, LenProperties, HeadTailProperties
  <2>3. 1 \in DOMAIN wire /\ \A k \in DOMAIN wire : k = 1 \/ 1 < k
    BY <2>2
  <2>4. \A i \in OnWire : i = h \/ h < i
    BY <2>2, <2>3 DEF OnWire, OrderInv
  <2> QED
    BY <2>1, <2>2, <2>3, <2>4 DEF OrderInv, StreamTypeOK, Streaming, Ids
<1>4. ASSUME NEW i \in live, base < i, i <= h PROVE i \in Delivered' \/ i \in late
  <2>0. i \in Nat /\ lastEventId \in Nat /\ cursor \in Nat
    BY DEF LogTypeOK, StreamTypeOK
  <2>1. CASE i <= lastEventId
    BY <1>2, <1>4, <2>1 DEF GapInv
  <2>2. CASE lastEventId < i
    <3>1. i \in OnWire \/ i \in late
      BY <1>3, <1>4, <2>0, <2>2 DEF GapInv
    <3>2. i \in OnWire => i = h
      BY <1>3, <1>4, <2>0
    <3> QED
      BY <1>2, <3>1, <3>2
  <2> QED
    BY <2>0, <2>1, <2>2
<1>5. ASSUME NEW i \in live, base < i, h < i, i <= cursor PROVE i \in OnWire' \/ i \in late
  <2>1. i \in Nat /\ lastEventId \in Nat
    BY DEF LogTypeOK, StreamTypeOK
  <2>2. lastEventId < i /\ i # h
    BY <1>3, <1>5, <2>1
  <2> QED
    BY <1>2, <1>3, <1>5, <2>2 DEF GapInv
<1> QED
  BY <1>1, <1>4, <1>5 DEF GapInv

LEMMA EmitGap ==
  ASSUME LogTypeOK, StreamTypeOK, OrderInv, GapInv, Emit
  PROVE  GapInv'
<1>1. PICK low \in batch : /\ low = Lowest(batch) /\ \A j \in batch : low <= j
                           /\ OnWire' = OnWire \cup {low}
  BY EmitMoves
<1>2. /\ UNCHANGED <<live, late, base, lastEventId, got>>
      /\ cursor' = low /\ batch' = batch \ {low} /\ Streaming
  BY <1>1 DEF Emit, logVars, clientVars, Streaming
<1>3. low \in Nat /\ cursor < low /\ cursor \in Nat
  BY <1>1 DEF OrderInv, StreamTypeOK
<1>4. Delivered' = Delivered
  BY <1>2 DEF Delivered
<1>5. ASSUME NEW i \in live, base < i, lastEventId < i, i <= low
      PROVE  i \in OnWire' \/ i \in late
  <2>0. i \in Nat
    BY DEF LogTypeOK
  <2>1. CASE i <= cursor
    BY <1>1, <1>2, <1>5, <2>1 DEF GapInv
  <2>2. CASE cursor < i
    <3>1. i \in batch \/ i \in late
      BY <1>1, <1>5, <2>2 DEF GapInv
    <3>2. i \in batch => i = low
      BY <1>1, <1>3, <1>5, <2>0
    <3> QED
      BY <1>1, <3>1, <3>2
  <2> QED
    BY <1>3, <2>0, <2>1, <2>2
<1>6. ASSUME NEW j \in batch', NEW i \in live, low < i, i <= j
      PROVE  i \in batch' \/ i \in late
  <2>1. i \in Nat /\ cursor < i /\ i # low /\ j \in batch
    BY <1>2, <1>3, <1>6 DEF LogTypeOK
  <2> QED
    BY <1>2, <1>6, <2>1 DEF GapInv
<1> QED
  BY <1>2, <1>4, <1>5, <1>6 DEF GapInv

LEMMA StepGap ==
  LogTypeOK /\ StreamTypeOK /\ OrderInv /\ GapInv /\ [Next]_vars => GapInv'
<1> SUFFICES ASSUME LogTypeOK, StreamTypeOK, OrderInv, GapInv, [Next]_vars PROVE GapInv'
  OBVIOUS
<1>1. ASSUME NEW i \in Ids, CommitAlert(i) PROVE GapInv'
  BY <1>1, CommitGap
<1>2. CASE OtherWrite
  <2>1. live' \subseteq live
    <3>1. ASSUME NEW w \in Wells, Insert(w) \/ DeleteWell(w) PROVE live' \subseteq live
      BY <3>1 DEF Insert, DeleteWell
    <3>2. ASSUME NEW i \in Ids, Rollback(i) \/ Acknowledge(i) PROVE live' \subseteq live
      BY <3>2 DEF Rollback, Acknowledge
    <3> QED
      BY <1>2, <3>1, <3>2 DEF OtherWrite
  <2>2. UNCHANGED streamVars
    BY <1>2 DEF OtherWrite
  <2> QED
    BY <2>1, <2>2 DEF streamVars, clientVars, serverVars, GapInv, Streaming, Delivered, OnWire
<1>3. CASE Connect \/ Refuse
  BY <1>3 DEF Connect, Refuse, serverVars, logVars, GapInv, Streaming, Delivered, OnWire
<1>4. CASE Receive
  BY <1>4, ReceiveGap
<1>5. CASE Drop
  <2>1. \A i \in live : base < i /\ i <= lastEventId => i \in Delivered \/ i \in late'
    BY <1>5 DEF Drop, GapInv
  <2> QED
    BY <1>5, <2>1 DEF Drop, logVars, clientVars, GapInv, Streaming, Delivered
<1>6. CASE Resume
  <2>1. UNCHANGED <<live, late, lastEventId, got>> /\ batch' = {}
    BY <1>6 DEF Resume, logVars, clientVars
  <2>2. /\ lastEventId # 0 => cursor' = lastEventId /\ base' = base
        /\ lastEventId = 0 => base' = cursor'
    <3>1. lastEventId \in Nat /\ lastEventId # NoSince
      BY AlertLogAssumption, StreamAssumption DEF StreamTypeOK
    <3> QED
      BY <1>6, <3>1 DEF Resume, ResumePoint
  <2>3. /\ lastEventId \in Nat /\ \A i \in live : i \in Nat
        /\ base' \in Nat /\ cursor' \in Nat
    BY StreamStepType DEF StreamTypeOK, LogTypeOK
  <2>4. \A i \in live : ~ (base' < i /\ lastEventId < i /\ i <= cursor')
    BY <2>2, <2>3
  <2>5. \A i \in live : base' < i /\ i <= lastEventId => i \in Delivered \/ i \in late
    BY <2>2, <2>3 DEF GapInv
  <2> QED
    BY <2>1, <2>4, <2>5 DEF GapInv, Delivered
<1>7. CASE PollFindsAlerts
  <2>1. batch' = {i \in live : i > cursor} /\ UNCHANGED <<live, cursor, late>>
    BY <1>7 DEF PollFindsAlerts, AlertsSince, logVars
  <2>2. \A i \in live : cursor < i => i \in batch'
    BY <2>1 DEF LogTypeOK, StreamTypeOK
  <2> QED
    BY <1>7, <2>1, <2>2
       DEF PollFindsAlerts, logVars, clientVars, GapInv, Streaming, Delivered, OnWire
<1>8. CASE PollFindsNothing
  BY <1>8 DEF PollFindsNothing, logVars, clientVars, GapInv, Streaming, Delivered, OnWire
<1>9. CASE Emit
  BY <1>9, EmitGap
<1>10. CASE UNCHANGED vars
  BY <1>10 DEF vars, logVars, streamVars, clientVars, serverVars, GapInv, Streaming,
               Delivered, OnWire
<1> QED
  BY <1>1, <1>2, <1>3, <1>4, <1>5, <1>6, <1>7, <1>8, <1>9, <1>10 DEF Next, Serve

(* Every alert missing below the client's last event was committed after    *)
(* the stream had passed its id: nothing else makes a gap, whatever breaks. *)
THEOREM OnlyLateCommitsAreMissed == Spec => []GapsAreLateCommits
<1>1. Init => GapInv
  BY DEF Init, LogInit, StreamInit, GapInv, Streaming
<1>2. GapInv => GapsAreLateCommits
  BY DEF GapInv, GapsAreLateCommits
<1> QED
  BY <1>1, <1>2, StepGap, StreamOrder, StreamTypes, PTL DEF Spec

-----------------------------------------------------------------------------
(* The DELETE of a well waits for the transactions that insert its alerts.  *)
PendingHaveWells == \A i \in pending : wellOf[i] \in wells

LEMMA StepPendingHaveWells ==
  LogTypeOK /\ PendingHaveWells /\ [LogNext]_logVars => PendingHaveWells'
<1> SUFFICES ASSUME LogTypeOK, PendingHaveWells, [LogNext]_logVars PROVE PendingHaveWells'
  OBVIOUS
<1> USE AlertLogAssumption DEF LogTypeOK, PendingHaveWells
<1>1. ASSUME NEW w \in Wells, Insert(w) PROVE PendingHaveWells'
  BY <1>1 DEF Insert
<1>2. ASSUME NEW w \in Wells, DeleteWell(w) PROVE PendingHaveWells'
  BY <1>2 DEF DeleteWell
<1>3. ASSUME NEW i \in Ids, Commit(i) \/ Rollback(i) \/ Acknowledge(i)
      PROVE  PendingHaveWells'
  BY <1>3 DEF Commit, Rollback, Acknowledge
<1>4. CASE UNCHANGED logVars
  BY <1>4 DEF logVars
<1> QED
  BY <1>1, <1>2, <1>3, <1>4 DEF LogNext

-----------------------------------------------------------------------------
(* The heartbeat.  A bound on idle alone is not inductive: a poll that finds *)
(* nothing adds to it, so what it adds must be what it counts.               *)

Silent == 0..(HeartbeatEvery - 1)

IdleInv ==
  /\ quiet \in Silent
  /\ idle \in Silent
  /\ gen = "poll" => idle <= quiet

LEMMA StepIdle == IdleInv /\ [Next]_vars => IdleInv'
<1> SUFFICES ASSUME IdleInv, [Next]_vars PROVE IdleInv'
  OBVIOUS
<1>0. HeartbeatEvery \in Nat \ {0}
  BY StreamAssumption
<1>1. ASSUME NEW i \in Ids, CommitAlert(i) PROVE IdleInv'
  BY <1>1 DEF CommitAlert, serverVars, IdleInv
<1>2. CASE OtherWrite
  BY <1>2 DEF OtherWrite, streamVars, serverVars, IdleInv
<1>3. CASE Connect \/ Refuse
  BY <1>3 DEF Connect, Refuse, serverVars, IdleInv
<1>4. CASE Receive
  BY <1>4 DEF Receive, serverVars, IdleInv
<1>5. CASE Drop
  BY <1>5 DEF Drop, IdleInv
<1>6. CASE Resume
  BY <1>0, <1>6 DEF Resume, Silent, IdleInv
<1>7. CASE PollFindsAlerts
  BY <1>0, <1>7 DEF PollFindsAlerts, Silent, IdleInv
<1>8. CASE PollFindsNothing
  <2>1. quiet \in Silent /\ idle \in Silent /\ idle <= quiet
    BY <1>8 DEF PollFindsNothing, IdleInv
  <2>2. CASE quiet + 1 >= HeartbeatEvery
    BY <1>0, <1>8, <2>2 DEF PollFindsNothing, Silent, IdleInv
  <2>3. CASE ~ (quiet + 1 >= HeartbeatEvery)
    <3>1. quiet' = quiet + 1 /\ idle' = idle + 1
      BY <1>8, <2>3 DEF PollFindsNothing
    <3> QED
      BY <1>0, <2>1, <2>3, <3>1 DEF Silent, IdleInv
  <2> QED
    BY <2>2, <2>3
<1>9. CASE Emit
  BY <1>0, <1>9 DEF Emit, Silent, IdleInv
<1>10. CASE UNCHANGED vars
  BY <1>10 DEF vars, streamVars, serverVars, IdleInv
<1> QED
  BY <1>1, <1>2, <1>3, <1>4, <1>5, <1>6, <1>7, <1>8, <1>9, <1>10 DEF Next, Serve

(* The stream is never silent as long as the proxy waits, however alerts,   *)
(* polls, drops and reconnects follow each other, for every heartbeat       *)
(* interval below the proxy's timeout.                                      *)
THEOREM HeartbeatBeatsProxy == Spec => []NeverIdleTooLong
<1>1. Init => IdleInv
  BY StreamAssumption DEF Init, StreamInit, Silent, IdleInv
<1>2. IdleInv => NeverIdleTooLong
  BY StreamAssumption DEF Silent, IdleInv, NeverIdleTooLong
<1> QED
  BY <1>1, <1>2, StepIdle, PTL DEF Spec

-----------------------------------------------------------------------------
(* The panel.                                                               *)

(* A step of the panel is a step of the stream or leaves it alone:          *)
(* acknowledging is one of the other writes.                                *)
LEMMA PanelStepIsStreamStep ==
  LogTypeOK /\ [PanelNext]_allVars => [Next]_vars
<1> SUFFICES ASSUME LogTypeOK, [PanelNext]_allVars PROVE [Next]_vars
  OBVIOUS
<1>1. CASE StreamStep
  BY <1>1 DEF StreamStep, Next
<1>2. CASE ReceiveAlert
  BY <1>2 DEF ReceiveAlert, Next
<1>3. CASE AcknowledgeAlert
  <2>1. dismissing.id \in Ids /\ Acknowledge(dismissing.id) /\ UNCHANGED streamVars
    <3>1. dismissing.id \in live
      BY <1>3 DEF AcknowledgeAlert, Acknowledge
    <3> QED
      BY <1>3, <3>1, AlertLogAssumption DEF AcknowledgeAlert, LogTypeOK, Ids
  <2> QED
    BY <2>1 DEF OtherWrite, Next
<1>4. ASSUME NEW k \in Entries, ListAlerts(k) \/ FetchSucceeds(k) \/ Show(k) \/ FetchFails(k)
      PROVE  UNCHANGED vars
  BY <1>4 DEF ListAlerts, FetchSucceeds, Show, FetchFails
<1>5. CASE DismissSucceeds \/ Refetch \/ ReadingRecorded \/ DismissFails \/ DismissSettles
  BY <1>5 DEF DismissSucceeds, Refetch, ReadingRecorded, DismissFails, DismissSettles
<1>6. ASSUME NEW i \in Ids, Dismiss(i) PROVE UNCHANGED vars
  BY <1>6 DEF Dismiss
<1>7. CASE UNCHANGED allVars
  BY <1>7 DEF allVars
<1> QED
  BY <1>1, <1>2, <1>3, <1>4, <1>5, <1>6, <1>7 DEF PanelNext, Network

(* The page does not disturb the stream: every behaviour of the panel is    *)
(* one of AlertStream, whose theorems therefore hold under it.              *)
THEOREM PanelImplementsStream == PanelSpec => Spec
<1>1. PanelInit => Init
  BY DEF PanelInit
<1>2. Init => LogTypeOK
  BY LogInitType DEF Init
<1>3. LogTypeOK /\ [PanelNext]_allVars => LogTypeOK'
  BY PanelStepIsStreamStep, StreamStepIsLogStep, LogStepType
<1> QED
  BY <1>1, <1>2, <1>3, PanelStepIsStreamStep, PTL DEF PanelSpec, Spec

-----------------------------------------------------------------------------
(* What the stream and the table guarantee the panel.                       *)

StreamFacts == LogTypeOK /\ StreamTypeOK /\ OrderInv /\ SentInv /\ PendingHaveWells

(* An id that was given out keeps its well.                                 *)
LEMMA WellsAreKept ==
  ASSUME LogTypeOK, [LogNext]_logVars
  PROVE  /\ 1..seq \subseteq 1..seq'
         /\ \A i \in 1..seq : wellOf'[i] = wellOf[i]
<1> USE DEF LogTypeOK
<1>1. ASSUME NEW w \in Wells, Insert(w)
      PROVE  1..seq \subseteq 1..seq' /\ \A i \in 1..seq : wellOf'[i] = wellOf[i]
  BY <1>1 DEF Insert
<1>2. ASSUME NEW w \in Wells, DeleteWell(w) PROVE seq' = seq /\ wellOf' = wellOf
  BY <1>2 DEF DeleteWell
<1>3. ASSUME NEW i \in Ids, Commit(i) \/ Rollback(i) \/ Acknowledge(i)
      PROVE  seq' = seq /\ wellOf' = wellOf
  BY <1>3 DEF Commit, Rollback, Acknowledge
<1>4. CASE UNCHANGED logVars
  BY <1>4 DEF logVars
<1> QED
  BY <1>1, <1>2, <1>3, <1>4 DEF LogNext

LEMMA StreamFactsHold == PanelSpec => []StreamFacts
<1>1. Init => SentInv /\ PendingHaveWells
  BY DEF Init, StreamInit, LogInit, SentInv, Sent, Delivered, OnWire, PendingHaveWells
<1>2. LogTypeOK /\ PendingHaveWells /\ [Next]_vars => PendingHaveWells'
  BY StreamStepIsLogStep, StepPendingHaveWells
<1>3. LogTypeOK /\ StreamTypeOK /\ OrderInv /\ SentInv /\ PendingHaveWells => StreamFacts
  BY DEF StreamFacts
<1> QED
  BY <1>1, <1>2, <1>3, StepSent, StreamTypes, StreamOrder, PanelImplementsStream, PTL DEF Spec

-----------------------------------------------------------------------------
(* Lists of ids.                                                            *)

(* What a response puts into an entry: each of its ids once.                *)
LEMMA ResponseLists ==
  ASSUME NEW S \in SUBSET Ids
  PROVE  /\ SetToSeq(S) \in Seq(S)
         /\ IsInjective(SetToSeq(S))
         /\ Range(SetToSeq(S)) = S
<1> DEFINE n == Cardinality(S)
<1>1. IsFiniteSet(S) /\ n \in Nat /\ ExistsBijection(1..n, S)
  <2>1. IsFiniteSet(Ids)
    BY AlertLogAssumption, FS_Interval DEF Ids
  <2> QED
    BY <2>1, FS_Subset, FS_CardinalityType
<1>2. \E f \in [1..n -> S] : IsInjective(f)
  <2>1. PICK f \in Bijection(1..n, S) : TRUE
    BY <1>1 DEF ExistsBijection
  <2> QED
    BY <2>1 DEF Bijection, Injection, IsInjective
<1> DEFINE s == SetToSeq(S)
<1>3. s \in [1..n -> S] /\ IsInjective(s)
  BY <1>2 DEF SetToSeq
<1>4. s \in Seq(S)
  BY <1>1, <1>3, SeqDef
<1>5. Range(s) = S
  <2>1. s \in Injection(1..n, S)
    BY <1>3 DEF Injection, IsInjective
  <2>2. Cardinality(1..n) = n
    BY <1>1, FS_Interval
  <2>3. s \in Surjection(1..n, S)
    BY <1>1, <2>1, <2>2, FS_Injection
  <2> QED
    BY <1>3, <2>3 DEF Surjection, Range
<1> QED
  BY <1>3, <1>4, <1>5

(* What a delivery does to an entry that does not list the alert.           *)
LEMMA PrependLists ==
  ASSUME NEW s \in Seq(Ids), IsInjective(s), NEW i \in Ids, i \notin Range(s)
  PROVE  /\ <<i>> \o s \in Seq(Ids)
         /\ IsInjective(<<i>> \o s)
         /\ Range(<<i>> \o s) = {i} \cup Range(s)
<1> DEFINE t == <<i>> \o s
<1>1. Len(s) \in Nat /\ DOMAIN s = 1..Len(s)
  BY LenProperties
<1>2. t \in Seq(Ids) /\ Len(t) = Len(s) + 1 /\ DOMAIN t = 1..(Len(s) + 1)
  OBVIOUS
<1>3. t[1] = i /\ \A n \in 1..Len(s) : t[n + 1] = s[n]
  BY <1>1, <1>2
<1>4. \A n \in 2..(Len(s) + 1) : n - 1 \in 1..Len(s) /\ t[n] = s[n - 1]
  BY <1>1, <1>3
<1>5. IsInjective(t)
  <2> SUFFICES ASSUME NEW a \in 1..(Len(s) + 1), NEW b \in 1..(Len(s) + 1), t[a] = t[b]
               PROVE  a = b
    BY <1>2 DEF IsInjective
  <2>1. CASE a = 1 /\ b # 1
    BY <1>1, <1>3, <1>4, <2>1 DEF Range
  <2>2. CASE a # 1 /\ b = 1
    BY <1>1, <1>3, <1>4, <2>2 DEF Range
  <2>3. CASE a # 1 /\ b # 1
    <3>1. a - 1 \in DOMAIN s /\ b - 1 \in DOMAIN s /\ s[a - 1] = s[b - 1]
      BY <1>1, <1>4, <2>3
    <3>2. a - 1 = b - 1
      BY <3>1 DEF IsInjective
    <3> QED
      BY <1>1, <3>2
  <2> QED
    BY <2>1, <2>2, <2>3
<1>6. Range(t) = {i} \cup Range(s)
  <2>1. ASSUME NEW x \in Range(t) PROVE x \in {i} \cup Range(s)
    BY <1>1, <1>2, <1>3, <1>4, <2>1 DEF Range
  <2>2. i \in Range(t)
    BY <1>1, <1>2, <1>3 DEF Range
  <2>3. ASSUME NEW x \in Range(s) PROVE x \in Range(t)
    <3>1. PICK n \in 1..Len(s) : x = s[n]
      BY <1>1 DEF Range
    <3>2. n + 1 \in 1..(Len(s) + 1) /\ t[n + 1] = x
      BY <1>1, <1>3, <3>1
    <3> QED
      BY <1>2, <3>2 DEF Range
  <2> QED
    BY <2>1, <2>2, <2>3
<1> QED
  BY <1>2, <1>5, <1>6

-----------------------------------------------------------------------------
(* Types.  PanelTypeOK says nothing of the domains of cache and fetch, nor  *)
(* that only an answered fetch has ids.                                     *)

FetchTypes == {NoFetch, Asked} \cup [state : {"answered"}, ids : SUBSET Ids]

PanelTypeInv ==
  /\ shown \in Entries
  /\ DOMAIN cache = Entries
  /\ \A k \in Entries : cache[k] # NoData => cache[k] \in Seq(Ids) /\ IsInjective(cache[k])
  /\ fetch \in [Entries -> FetchTypes]
  /\ invalid \subseteq Entries
  /\ dismissing \in [state : {"none", "sent", "acknowledged", "refetching"},
                     id : 0..MaxAlert, entry : Entries]

(* What an invalidation does to the fetches.                                *)
LEMMA InvalidationAsks ==
  ASSUME PanelTypeInv, InvalidateAlerts
  PROVE  /\ fetch' \in [Entries -> FetchTypes]
         /\ invalid' = Entries
         /\ \A k \in Entries :
              \/ fetch'[k] = Asked
              \/ fetch'[k] = fetch[k] /\ fetch[k] # NoFetch /\ ~ Cancels(k)
              \/ fetch'[k] = fetch[k] /\ k # shown
BY DEF PanelTypeInv, InvalidateAlerts, FetchTypes, Cancels

(* The response that replaces an entry, and the delivery that adds to one.  *)
LEMMA FetchedEntry ==
  ASSUME PanelTypeInv, NEW k \in Entries, FetchSucceeds(k)
  PROVE  /\ fetch[k].ids \in SUBSET Ids
         /\ cache'[k] \in Seq(Ids) /\ IsInjective(cache'[k])
         /\ Items(k)' \subseteq fetch[k].ids
         /\ cache'[k] # NoData => Items(k)' = fetch[k].ids
         /\ DOMAIN cache' = Entries
         /\ \A j \in Entries \ {k} : cache'[j] = cache[j] /\ Items(j)' = Items(j)
         /\ fetch' = [fetch EXCEPT ![k] = NoFetch]
<1>1. fetch[k].ids \in SUBSET Ids
  BY DEF PanelTypeInv, FetchTypes, NoFetch, Asked
<1>2. /\ cache'[k] = SetToSeq(fetch[k].ids)
      /\ DOMAIN cache' = Entries
      /\ \A j \in Entries \ {k} : cache'[j] = cache[j]
      /\ fetch' = [fetch EXCEPT ![k] = NoFetch]
  BY DEF PanelTypeInv, FetchSucceeds
<1>3. cache'[k] \in Seq(Ids) /\ IsInjective(cache'[k]) /\ Range(cache'[k]) = fetch[k].ids
  <2>1. Seq(fetch[k].ids) \subseteq Seq(Ids)
    BY <1>1
  <2> QED
    BY <1>1, <1>2, <2>1, ResponseLists
<1> QED
  BY <1>1, <1>2, <1>3 DEF Items

LEMMA DeliveredEntry ==
  ASSUME PanelTypeInv, StreamTypeOK, ReceiveAlert
  PROVE  LET i == Head(wire)
         IN  /\ i \in Ids /\ i \in OnWire
             /\ DOMAIN cache' = Entries
             /\ cache'[shown] # NoData => cache'[shown] \in Seq(Ids) /\ IsInjective(cache'[shown])
             /\ cache[shown] = NoData => cache'[shown] = NoData
             /\ Items(shown)' \subseteq Items(shown) \cup {j \in {i} : Matches(shown, j)}
             /\ cache'[shown] # NoData =>
                  Items(shown)' = Items(shown) \cup {j \in {i} : Matches(shown, j)}
             /\ \A j \in Entries \ {shown} : cache'[j] = cache[j] /\ Items(j)' = Items(j)
<1> DEFINE i == Head(wire)
<1>1. i \in Ids /\ i \in OnWire
  <2>1. wire \in Seq(Ids) /\ wire # <<>>
    BY DEF StreamTypeOK, ReceiveAlert, Receive
  <2> QED
    BY <2>1, ReceiveMoves DEF ReceiveAlert
<1>2. /\ shown \in Entries /\ shown' = shown
      /\ cache'[shown] = Merge(cache[shown], i)
      /\ DOMAIN cache' = Entries
      /\ \A j \in Entries \ {shown} : cache'[j] = cache[j]
  BY DEF PanelTypeInv, ReceiveAlert
<1>3. \A j \in Entries \ {shown} : Items(j)' = Items(j)
  BY <1>2 DEF Items
<1>4. CASE cache[shown] = NoData
  BY <1>1, <1>2, <1>3, <1>4 DEF Merge, Items
<1>5. CASE cache[shown] # NoData
  <2>1. cache[shown] \in Seq(Ids) /\ IsInjective(cache[shown])
    BY <1>5 DEF PanelTypeInv
  <2>2. Items(shown) = Range(cache[shown])
    BY <1>5 DEF Items
  <2>3. CASE i \in Range(cache[shown])
    BY <1>1, <1>2, <1>3, <1>5, <2>1, <2>2, <2>3 DEF Merge, Items
  <2>4. CASE i \notin Range(cache[shown]) /\ ~ Matches(shown, i)
    BY <1>1, <1>2, <1>3, <1>5, <2>1, <2>2, <2>4 DEF Merge, Items
  <2>5. CASE i \notin Range(cache[shown]) /\ Matches(shown, i)
    <3>1. cache'[shown] = <<i>> \o cache[shown]
      BY <1>2, <1>5, <2>5 DEF Merge
    <3>2. /\ cache'[shown] \in Seq(Ids) /\ IsInjective(cache'[shown])
          /\ Range(cache'[shown]) = {i} \cup Items(shown)
      BY <1>1, <2>1, <2>2, <2>5, <3>1, PrependLists
    <3>3. Items(shown) \cup {j \in {i} : Matches(shown, j)} = {i} \cup Items(shown)
      BY <2>5
    <3>4. Items(shown)' = IF cache'[shown] = NoData THEN {} ELSE Range(cache'[shown])
      BY <1>2 DEF Items
    <3>5. Items(shown)' \subseteq Items(shown) \cup {j \in {i} : Matches(shown, j)}
      BY <3>2, <3>3, <3>4
    <3>6. cache'[shown] # NoData =>
            Items(shown)' = Items(shown) \cup {j \in {i} : Matches(shown, j)}
      BY <3>2, <3>3, <3>4
    <3> QED
      BY <1>1, <1>2, <1>3, <1>5, <3>2, <3>5, <3>6
  <2> QED
    BY <2>3, <2>4, <2>5
<1> QED
  BY <1>4, <1>5

(* The same, for the entry on screen and the others at once.                *)
LEMMA DeliveredItems ==
  ASSUME PanelTypeInv, StreamTypeOK, ReceiveAlert, NEW k \in Entries
  PROVE  LET i == Head(wire)
         IN  /\ Items(k)' \subseteq Items(k) \cup {j \in {i} : k = shown /\ Matches(k, j)}
             /\ cache'[k] # NoData =>
                  /\ cache[k] # NoData /\ Items(k) \subseteq Items(k)'
                  /\ k = shown /\ Matches(k, i) => i \in Items(k)'
<1>1. CASE k = shown
  <2>1. shown' = shown
    BY DEF ReceiveAlert
  <2>2. Items(k)' = Items(shown)' /\ Items(k) = Items(shown)
    BY <1>1, <2>1 DEF Items
  <2> QED
    BY <1>1, <2>2, DeliveredEntry
<1>2. CASE k # shown
  BY <1>2, DeliveredEntry
<1> QED
  BY <1>1, <1>2

LEMMA PanelStepType ==
  LogTypeOK /\ StreamTypeOK /\ PanelTypeInv /\ [PanelNext]_allVars => PanelTypeInv'
<1> SUFFICES ASSUME LogTypeOK, StreamTypeOK, PanelTypeInv, [PanelNext]_allVars
             PROVE  PanelTypeInv'
  OBVIOUS
<1>1. CASE StreamStep \/ UNCHANGED allVars
  BY <1>1 DEF StreamStep, allVars, panelVars, PanelTypeInv
<1>2. CASE ReceiveAlert
  <2>1. /\ DOMAIN cache' = Entries
        /\ cache'[shown] # NoData => cache'[shown] \in Seq(Ids) /\ IsInjective(cache'[shown])
        /\ \A j \in Entries \ {shown} : cache'[j] = cache[j]
    BY <1>2, DeliveredEntry
  <2>2. UNCHANGED <<shown, fetch, dismissing>> /\ invalid' \subseteq invalid
    BY <1>2 DEF ReceiveAlert
  <2> QED
    BY <2>1, <2>2 DEF PanelTypeInv
<1>3. ASSUME NEW k \in Entries, ListAlerts(k) PROVE PanelTypeInv'
  <2>1. {i \in live \ acked : Matches(k, i)} \subseteq Ids
    <3>1. live \subseteq Ids
      BY AlertLogAssumption DEF LogTypeOK, Ids
    <3> QED
      BY <3>1
  <2> QED
    BY <1>3, <2>1 DEF ListAlerts, PanelTypeInv, FetchTypes
<1>4. ASSUME NEW k \in Entries, FetchSucceeds(k) PROVE PanelTypeInv'
  <2>1. /\ cache'[k] \in Seq(Ids) /\ IsInjective(cache'[k])
        /\ DOMAIN cache' = Entries
        /\ \A j \in Entries \ {k} : cache'[j] = cache[j]
        /\ fetch' = [fetch EXCEPT ![k] = NoFetch]
    BY <1>4, FetchedEntry
  <2>2. UNCHANGED <<shown, dismissing>> /\ invalid' \subseteq invalid
    BY <1>4 DEF FetchSucceeds
  <2> QED
    BY <2>1, <2>2 DEF PanelTypeInv, FetchTypes
<1>5. ASSUME NEW k \in Entries, Show(k) \/ FetchFails(k) PROVE PanelTypeInv'
  BY <1>5 DEF Show, FetchFails, PanelTypeInv, FetchTypes
<1>6. CASE Refetch
  BY <1>6 DEF Refetch, PanelTypeInv, FetchTypes
<1>7. CASE ReadingRecorded
  BY <1>7, InvalidationAsks DEF ReadingRecorded, PanelTypeInv
<1>8. ASSUME NEW i \in Ids, Dismiss(i) PROVE PanelTypeInv'
  BY <1>8, AlertLogAssumption DEF Dismiss, PanelTypeInv, Ids
<1>9. CASE AcknowledgeAlert
  BY <1>9 DEF AcknowledgeAlert, PanelTypeInv
<1>10. CASE DismissFails \/ DismissSettles
  BY <1>10, AlertLogAssumption
     DEF DismissFails, DismissSettles, NotDismissing, Entries, PanelTypeInv
<1>11. CASE DismissSucceeds
  BY <1>11, InvalidationAsks DEF DismissSucceeds, PanelTypeInv
<1> QED
  BY <1>1, <1>2, <1>3, <1>4, <1>5, <1>6, <1>7, <1>8, <1>9, <1>10, <1>11
     DEF PanelNext, Network

LEMMA PanelTypes == PanelSpec => [](StreamFacts /\ PanelTypeInv)
<1>1. PanelInit => PanelTypeInv
  BY AlertLogAssumption
     DEF PanelInit, PanelTypeInv, FetchTypes, Entries, NotDismissing
<1>2. StreamFacts => LogTypeOK /\ StreamTypeOK
  BY DEF StreamFacts
<1> QED
  BY <1>1, <1>2, PanelStepType, StreamFactsHold, PTL DEF PanelSpec

(* Type correctness of the panel, whatever the bounds and the wells.        *)
THEOREM PanelTypeCorrect == PanelSpec => []PanelTypeOK
<1>1. PanelTypeInv => PanelTypeOK
  BY DEF PanelTypeInv, PanelTypeOK, FetchTypes, NoFetch, Asked
<1> QED
  BY <1>1, PanelTypes, PTL

(* An alert is listed once, whichever of a response and the stream brings   *)
(* it first: for any number of alerts, wells, connections and fetches.      *)
THEOREM PanelListsNoAlertTwice == PanelSpec => []NoAlertTwice
<1>1. PanelTypeInv => NoAlertTwice
  <2> SUFFICES ASSUME PanelTypeInv, NEW k \in Entries, cache[k] # NoData
               PROVE  Len(cache[k]) = Cardinality(Items(k))
    BY DEF NoAlertTwice
  <2> DEFINE s == cache[k]
             n == Len(cache[k])
  <2>1. s \in Seq(Ids) /\ IsInjective(s) /\ Items(k) = Range(s)
    BY DEF PanelTypeInv, Items
  <2>2. n \in Nat /\ s \in [1..n -> Range(s)]
    BY <2>1, LenProperties DEF Range
  <2>3. s \in Bijection(1..n, Range(s))
    BY <2>1, <2>2 DEF Bijection, Injection, Surjection, IsInjective, Range
  <2>4. Cardinality(Range(s)) = n
    BY <2>2, <2>3, FS_CountingElements DEF ExistsBijection
  <2> QED
    BY <2>1, <2>4
<1> QED
  BY <1>1, PanelTypes, PTL

-----------------------------------------------------------------------------
(* Whose alerts an entry lists.  A response is computed for one entry and   *)
(* kept for it, a delivery is matched against the entry on screen, and an   *)
(* id keeps its well, whatever else happens to the alert.                   *)

OfItsWell(k, i) == i \in 1..seq /\ Matches(k, i)

WellInv ==
  \A k \in Entries : \A i \in Items(k) \cup fetch[k].ids : OfItsWell(k, i)

LEMMA StaysOfItsWell ==
  ASSUME LogTypeOK, [Next]_vars, NEW k, NEW i, OfItsWell(k, i)
  PROVE  OfItsWell(k, i)'
<1>1. [LogNext]_logVars
  BY StreamStepIsLogStep
<1>2. i \in 1..seq' /\ wellOf'[i] = wellOf[i]
  BY <1>1, WellsAreKept DEF OfItsWell
<1> QED
  BY <1>2 DEF OfItsWell, Matches

LEMMA PanelStepWell ==
  StreamFacts /\ PanelTypeInv /\ WellInv /\ [PanelNext]_allVars => WellInv'
<1> SUFFICES ASSUME StreamFacts, PanelTypeInv, WellInv, [PanelNext]_allVars,
                    NEW k \in Entries, NEW i \in Items(k)' \cup fetch'[k].ids
             PROVE  OfItsWell(k, i)'
  BY DEF WellInv
<1> USE DEF StreamFacts
<1>1. [Next]_vars
  BY PanelStepIsStreamStep
<1>2. SUFFICES OfItsWell(k, i)
  BY <1>1, StaysOfItsWell
<1>3. CASE Items(k)' \cup fetch'[k].ids \subseteq Items(k) \cup fetch[k].ids
  BY <1>3 DEF WellInv
<1>4. CASE StreamStep \/ UNCHANGED allVars
  BY <1>3, <1>4 DEF StreamStep, allVars, panelVars, Items
<1>5. CASE ReceiveAlert
  <2>1. fetch' = fetch
    BY <1>5 DEF ReceiveAlert
  <2>2. Head(wire) \in 1..seq
    <3>1. Head(wire) \in OnWire
      BY <1>5, DeliveredEntry
    <3> QED
      BY <3>1 DEF SentInv, Sent, WasCommitted
  <2>3. Items(k)' \subseteq Items(k) \cup {j \in {Head(wire)} : Matches(k, j)}
    BY <1>5, DeliveredItems
  <2> QED
    BY <2>1, <2>2, <2>3 DEF WellInv, OfItsWell
<1>6. ASSUME NEW e \in Entries, ListAlerts(e) PROVE OfItsWell(k, i)
  <2>1. /\ cache' = cache
        /\ fetch'[e].ids = {j \in live \ acked : Matches(e, j)}
        /\ k # e => fetch'[k] = fetch[k]
    BY <1>6 DEF ListAlerts, PanelTypeInv
  <2>2. Items(k)' = Items(k)
    BY <2>1 DEF Items
  <2>3. live \subseteq 1..seq
    BY DEF LogTypeOK
  <2> QED
    BY <2>1, <2>2, <2>3 DEF WellInv, OfItsWell
<1>7. ASSUME NEW e \in Entries, FetchSucceeds(e) PROVE OfItsWell(k, i)
  <2>1. /\ Items(e)' \subseteq fetch[e].ids
        /\ k # e => Items(k)' = Items(k)
        /\ fetch' = [fetch EXCEPT ![e] = NoFetch]
    BY <1>7, FetchedEntry
  <2>2. fetch'[k].ids \subseteq fetch[k].ids
    BY <2>1 DEF NoFetch, PanelTypeInv
  <2> QED
    BY <1>3, <2>1, <2>2
<1>8. ASSUME NEW e \in Entries, Show(e) \/ FetchFails(e) PROVE OfItsWell(k, i)
  <2>1. cache' = cache /\ fetch'[k].ids \subseteq fetch[k].ids
    BY <1>8 DEF Show, FetchFails, PanelTypeInv, NoFetch, Asked
  <2> QED
    BY <1>3, <2>1 DEF Items
<1>9. CASE Refetch \/ ReadingRecorded \/ DismissSucceeds
  <2>1. cache' = cache /\ fetch'[k].ids \subseteq fetch[k].ids
    <3>1. CASE Refetch
      BY <3>1 DEF Refetch, PanelTypeInv, Asked
    <3>2. CASE InvalidateAlerts /\ UNCHANGED cache
      BY <3>2, InvalidationAsks DEF Asked
    <3> QED
      BY <1>9, <3>1, <3>2 DEF ReadingRecorded, DismissSucceeds
  <2> QED
    BY <1>3, <2>1 DEF Items
<1>10. CASE UNCHANGED <<cache, fetch>>
  BY <1>3, <1>10 DEF Items
<1>11. CASE AcknowledgeAlert \/ DismissFails \/ DismissSettles
  BY <1>10, <1>11 DEF AcknowledgeAlert, DismissFails, DismissSettles
<1>12. ASSUME NEW j \in Ids, Dismiss(j) PROVE OfItsWell(k, i)
  BY <1>10, <1>12 DEF Dismiss
<1> QED
  BY <1>4, <1>5, <1>6, <1>7, <1>8, <1>9, <1>11, <1>12 DEF PanelNext, Network

(* An entry lists alerts of its own well only, however selections, streamed *)
(* alerts and responses cross.                                              *)
THEOREM PanelListsItsWell == PanelSpec => []OnlyItsWell
<1>1. PanelInit => WellInv
  BY DEF PanelInit, WellInv, Items, NoFetch, Asked, Entries
<1>2. WellInv => OnlyItsWell
  BY DEF WellInv, OfItsWell, OnlyItsWell
<1> QED
  BY <1>1, <1>2, PanelStepWell, PanelTypes, PTL DEF PanelSpec

-----------------------------------------------------------------------------
(* What was dismissed.  DismissedStaysAway speaks of an entry at rest; on   *)
(* the way there, an acknowledged alert that is still listed must be about  *)
(* to go: its dismissal has not been heard of, or the fetch under way will  *)
(* not return it, or the entry will be fetched before it is shown.          *)

Unheard(i) == dismissing.state = "acknowledged" /\ dismissing.id = i

Clears(k, i) ==
  \/ fetch[k].state = "asked"
  \/ fetch[k].state = "answered" /\ i \notin fetch[k].ids

AboutToGo(k, i) == Unheard(i) \/ Clears(k, i) \/ (k # shown /\ k \in invalid)

ListedInv ==
  \A k \in Entries : \A i \in Items(k) \cap acked : <<k, i>> \in mayReturn \/ AboutToGo(k, i)

(* A response that still holds the alert was computed before it was         *)
(* acknowledged, and the invalidation will find it under way.               *)
ReturnInv ==
  \A k \in Entries : \A i \in fetch[k].ids \cap acked : <<k, i>> \in mayReturn \/ Unheard(i)

(* What was acknowledged before it was delivered is excused everywhere.     *)
EarlyInv ==
  \A k \in Entries : \A i \in acked : i \in Delivered \/ <<k, i>> \in mayReturn

DismissedInv == ListedInv /\ ReturnInv /\ EarlyInv

(* A stream step acknowledges nothing and delivers nothing.                 *)
LEMMA StreamStepAcked ==
  ASSUME LogTypeOK, StreamStep
  PROVE  acked' \subseteq acked /\ got' = got
<1>1. ASSUME NEW i \in Ids, CommitAlert(i) PROVE acked' = acked /\ got' = got
  BY <1>1 DEF CommitAlert, Commit, clientVars
<1>2. CASE OtherWrite /\ acked' \subseteq acked
  BY <1>2 DEF OtherWrite, streamVars, clientVars
<1>3. CASE Connect \/ Refuse \/ Drop \/ Serve
  BY <1>3 DEF Connect, Refuse, Drop, Serve, Resume, PollFindsAlerts, PollFindsNothing, Emit,
              logVars, clientVars
<1> QED
  BY <1>1, <1>2, <1>3 DEF StreamStep

(* The next alert is not one the client has.                                *)
LEMMA HeadIsNew ==
  ASSUME StreamTypeOK, OrderInv, Receive
  PROVE  Head(wire) \notin Delivered
<1>1. wire \in Seq(Ids) /\ wire # <<>>
  BY DEF StreamTypeOK, Receive
<1>2. 1 \in DOMAIN wire /\ Head(wire) = wire[1] /\ wire[1] \in Ids
  BY <1>1
<1>3. lastEventId < Head(wire) /\ lastEventId \in Nat
  BY <1>2 DEF OrderInv, StreamTypeOK
<1>4. ASSUME NEW n \in DOMAIN got PROVE got[n] # Head(wire)
  <2>1. got[n] \in Ids
    BY DEF StreamTypeOK
  <2>2. got[n] <= lastEventId
    BY DEF OrderInv
  <2> QED
    BY <1>2, <1>3, <2>1, <2>2 DEF Ids
<1> QED
  BY <1>4 DEF Delivered

LEMMA ReceiveKeepsDismissed ==
  ASSUME StreamFacts, PanelTypeInv, DismissedInv, ReceiveAlert
  PROVE  DismissedInv'
<1> USE DEF StreamFacts
<1>1. /\ Receive /\ acked' = acked /\ UNCHANGED <<shown, fetch, dismissing, mayReturn>>
      /\ invalid \ {shown} \subseteq invalid'
  BY DEF ReceiveAlert, Receive, logVars
<1>2. Delivered \subseteq Delivered'
  BY <1>1, ReceiveMoves
<1>3. \A k, i : Unheard(i)' = Unheard(i) /\ Clears(k, i)' = Clears(k, i)
  BY <1>1 DEF Unheard, Clears
<1>4. ASSUME NEW k \in Entries, NEW i, AboutToGo(k, i) PROVE AboutToGo(k, i)'
  BY <1>1, <1>3, <1>4 DEF AboutToGo
<1>5. ListedInv'
  <2> SUFFICES ASSUME NEW k \in Entries, NEW i \in Items(k)', i \in acked
               PROVE  <<k, i>> \in mayReturn \/ AboutToGo(k, i)'
    BY <1>1 DEF ListedInv
  <2>1. CASE i \in Items(k)
    BY <1>4, <2>1 DEF DismissedInv, ListedInv
  <2>2. CASE i \notin Items(k)
    <3>1. i = Head(wire)
      BY <2>2, DeliveredItems
    <3> QED
      BY <1>1, <3>1, HeadIsNew DEF DismissedInv, EarlyInv
  <2> QED
    BY <2>1, <2>2
<1>6. ReturnInv'
  BY <1>1, <1>3 DEF DismissedInv, ReturnInv
<1>7. EarlyInv'
  BY <1>1, <1>2 DEF DismissedInv, EarlyInv
<1> QED
  BY <1>5, <1>6, <1>7 DEF DismissedInv

LEMMA InvalidationKeepsDismissed ==
  ASSUME PanelTypeInv, DismissedInv, InvalidateAlerts, UNCHANGED <<vars, shown, cache>>,
         mayReturn \subseteq mayReturn',
         \A i : Unheard(i) /\ ~ Unheard(i)' =>
           \A k \in Entries : fetch[k] # NoFetch /\ ~ Cancels(k) => <<k, i>> \in mayReturn'
  PROVE  DismissedInv'
<1>1. /\ invalid' = Entries
      /\ \A k \in Entries :
           \/ fetch'[k] = Asked
           \/ fetch'[k] = fetch[k] /\ fetch[k] # NoFetch /\ ~ Cancels(k)
           \/ fetch'[k] = fetch[k] /\ k # shown
  BY InvalidationAsks
<1>2. /\ UNCHANGED <<shown, cache, acked, got>>
      /\ \A k : Items(k)' = Items(k)
  BY DEF vars, logVars, streamVars, clientVars, Items
<1>3. ListedInv'
  <2> SUFFICES ASSUME NEW k \in Entries, NEW i \in Items(k), i \in acked,
                      <<k, i>> \notin mayReturn'
               PROVE  AboutToGo(k, i)'
    BY <1>2 DEF ListedInv
  <2>1. CASE k # shown
    BY <1>1, <1>2, <2>1 DEF AboutToGo
  <2>2. CASE k = shown
    <3>1. Cancels(k)
      BY <2>2 DEF Cancels, Items
    <3>2. fetch'[k] = Asked
      BY <1>1, <2>2, <3>1
    <3> QED
      BY <3>2 DEF Asked, AboutToGo, Clears
  <2> QED
    BY <2>1, <2>2
<1>4. ReturnInv'
  <2> SUFFICES ASSUME NEW k \in Entries, NEW i \in fetch'[k].ids, i \in acked,
                      <<k, i>> \notin mayReturn'
               PROVE  Unheard(i)'
    BY <1>2 DEF ReturnInv
  <2>1. fetch'[k] # Asked /\ fetch'[k] = fetch[k] /\ fetch[k] # NoFetch
    BY <1>1 DEF Asked, NoFetch
  <2>2. ~ Cancels(k)
    BY <1>1, <2>1 DEF Cancels
  <2> QED
    BY <2>1, <2>2 DEF DismissedInv, ReturnInv
<1>5. EarlyInv'
  BY <1>2 DEF DismissedInv, EarlyInv, Delivered
<1> QED
  BY <1>3, <1>4, <1>5 DEF DismissedInv

LEMMA FetchKeepsDismissed ==
  ASSUME PanelTypeInv, DismissedInv, NEW e \in Entries,
         ListAlerts(e) \/ FetchSucceeds(e) \/ FetchFails(e) \/ Show(e)
  PROVE  DismissedInv'
<1>1. /\ UNCHANGED <<acked, got, dismissing>> /\ mayReturn \subseteq mayReturn'
      /\ \A i : Unheard(i)' = Unheard(i)
  BY DEF ListAlerts, FetchSucceeds, FetchFails, Show, vars, logVars, streamVars, clientVars,
         Unheard
<1>2. EarlyInv'
  BY <1>1 DEF DismissedInv, EarlyInv, Delivered
<1>3. ASSUME NEW k \in Entries, fetch'[k] = fetch[k], NEW i
      PROVE  Clears(k, i)' = Clears(k, i)
  BY <1>3 DEF Clears
<1>4. CASE ListAlerts(e)
  <2>1. /\ fetch[e].state = "asked"
        /\ fetch'[e] = [state |-> "answered", ids |-> {i \in live \ acked : Matches(e, i)}]
        /\ \A k \in Entries \ {e} : fetch'[k] = fetch[k]
        /\ UNCHANGED <<shown, invalid, cache>> /\ \A k : Items(k)' = Items(k)
    BY <1>4 DEF ListAlerts, PanelTypeInv, Items
  <2>2. \A i \in acked : i \notin fetch'[e].ids
    BY <2>1
  <2>3. \A k \in Entries : \A i \in acked : Clears(k, i) => Clears(k, i)'
    BY <1>1, <1>3, <2>1, <2>2 DEF Clears
  <2>4. ListedInv'
    BY <1>1, <2>1, <2>3 DEF DismissedInv, ListedInv, AboutToGo
  <2>5. ReturnInv'
    BY <1>1, <2>1, <2>2 DEF DismissedInv, ReturnInv
  <2> QED
    BY <1>2, <2>4, <2>5 DEF DismissedInv
<1>5. CASE FetchSucceeds(e)
  <2>1. /\ Items(e)' \subseteq fetch[e].ids
        /\ \A k \in Entries \ {e} : Items(k)' = Items(k)
        /\ fetch' = [fetch EXCEPT ![e] = NoFetch]
    BY <1>5, FetchedEntry
  <2>2. /\ fetch'[e].ids = {} /\ \A k \in Entries \ {e} : fetch'[k] = fetch[k]
        /\ shown' = shown /\ invalid' = invalid \ {e}
    BY <1>5, <2>1 DEF FetchSucceeds, PanelTypeInv, NoFetch
  <2>3. ListedInv'
    BY <1>1, <1>3, <2>1, <2>2 DEF DismissedInv, ListedInv, ReturnInv, AboutToGo
  <2>4. ReturnInv'
    BY <1>1, <2>2 DEF DismissedInv, ReturnInv
  <2> QED
    BY <1>2, <2>3, <2>4 DEF DismissedInv
<1>6. CASE FetchFails(e)
  <2>1. /\ fetch'[e].ids = {} /\ \A k \in Entries \ {e} : fetch'[k] = fetch[k]
        /\ UNCHANGED <<shown, cache>> /\ invalid' = invalid \cup {e}
        /\ \A i \in Items(e) \cap acked : <<e, i>> \in mayReturn'
        /\ \A k : Items(k)' = Items(k)
    BY <1>6 DEF FetchFails, PanelTypeInv, NoFetch, Items
  <2>2. ListedInv'
    BY <1>1, <1>3, <2>1 DEF DismissedInv, ListedInv, AboutToGo
  <2>3. ReturnInv'
    BY <1>1, <2>1 DEF DismissedInv, ReturnInv
  <2> QED
    BY <1>2, <2>2, <2>3 DEF DismissedInv
<1>7. CASE Show(e)
  <2>1. /\ shown' = e /\ UNCHANGED <<cache, invalid>>
        /\ \A k : Items(k)' = Items(k)
        /\ \A k \in Entries \ {e} : fetch'[k] = fetch[k]
        /\ fetch'[e] = fetch[e] \/ fetch'[e] = Asked
        /\ fetch[e] = NoFetch /\ e \in invalid => fetch'[e] = Asked
    BY <1>7 DEF Show, PanelTypeInv, Items
  <2>2. ReturnInv'
    <3>1. \A k \in Entries : fetch'[k].ids \subseteq fetch[k].ids
      BY <2>1 DEF Asked
    <3> QED
      BY <1>1, <3>1 DEF DismissedInv, ReturnInv
  <2>3. ListedInv'
    <3> SUFFICES ASSUME NEW k \in Entries, NEW i \in Items(k), i \in acked,
                        <<k, i>> \notin mayReturn'
                 PROVE  AboutToGo(k, i)'
      BY <1>1, <2>1 DEF ListedInv
    <3>1. AboutToGo(k, i)
      BY <1>1 DEF DismissedInv, ListedInv
    <3>2. CASE k # e
      BY <1>1, <1>3, <2>1, <3>1, <3>2 DEF AboutToGo
    <3>3. CASE k = e /\ fetch'[e] = Asked
      BY <3>3 DEF AboutToGo, Clears, Asked
    <3>4. CASE k = e /\ fetch'[e] # Asked
      <4>1. fetch'[e] = fetch[e] /\ ~ (fetch[e] = NoFetch /\ e \in invalid)
        BY <2>1, <3>4
      <4>2. CASE Unheard(i) \/ Clears(e, i)
        BY <1>1, <1>3, <3>4, <4>1, <4>2 DEF AboutToGo
      <4>3. CASE ~ Unheard(i) /\ ~ Clears(e, i)
        <5>1. fetch[e] # NoFetch
          BY <3>1, <3>4, <4>1, <4>3 DEF AboutToGo
        <5>2. fetch[e].state = "answered" /\ i \in fetch[e].ids
          <6>1. fetch[e] \in FetchTypes
            BY DEF PanelTypeInv
          <6>2. fetch[e].state # "asked"
            BY <4>3 DEF Clears
          <6>3. fetch[e].state = "answered"
            BY <5>1, <6>1, <6>2 DEF FetchTypes, Asked
          <6> QED
            BY <4>3, <6>3 DEF Clears
        <5> QED
          BY <1>1, <3>4, <4>3, <5>2 DEF DismissedInv, ReturnInv
      <4> QED
        BY <4>2, <4>3
    <3> QED
      BY <3>2, <3>3, <3>4
  <2> QED
    BY <1>2, <2>2, <2>3 DEF DismissedInv
<1> QED
  BY <1>4, <1>5, <1>6, <1>7

LEMMA PanelStepDismissed ==
  StreamFacts /\ PanelTypeInv /\ DismissedInv /\ [PanelNext]_allVars => DismissedInv'
<1> SUFFICES ASSUME StreamFacts, PanelTypeInv, DismissedInv, [PanelNext]_allVars
             PROVE  DismissedInv'
  OBVIOUS
<1>1. ASSUME UNCHANGED <<shown, cache, fetch, invalid>>,
             acked' \subseteq acked, got' = got, mayReturn \subseteq mayReturn',
             \A i : Unheard(i) => Unheard(i)' \/ \A k \in Entries : <<k, i>> \in mayReturn'
      PROVE  DismissedInv'
  <2>1. \A k, i : Items(k)' = Items(k) /\ Clears(k, i)' = Clears(k, i)
    BY <1>1 DEF Items, Clears
  <2>2. ListedInv'
    BY <1>1, <2>1 DEF DismissedInv, ListedInv, AboutToGo
  <2>3. ReturnInv'
    BY <1>1 DEF DismissedInv, ReturnInv
  <2>4. EarlyInv'
    BY <1>1 DEF DismissedInv, EarlyInv, Delivered
  <2> QED
    BY <2>2, <2>3, <2>4 DEF DismissedInv
<1>2. CASE StreamStep
  <2>1. acked' \subseteq acked /\ got' = got
    BY <1>2, StreamStepAcked DEF StreamFacts
  <2>2. UNCHANGED <<shown, cache, fetch, invalid, dismissing, mayReturn>>
    BY <1>2 DEF StreamStep, panelVars
  <2> QED
    BY <1>1, <2>1, <2>2 DEF Unheard
<1>3. CASE UNCHANGED allVars
  <2>1. /\ UNCHANGED <<acked, got>>
        /\ UNCHANGED <<shown, cache, fetch, invalid, dismissing, mayReturn>>
    BY <1>3 DEF allVars, panelVars, vars, logVars, streamVars, clientVars
  <2> QED
    BY <1>1, <2>1 DEF Unheard
<1>4. CASE ReceiveAlert
  BY <1>4, ReceiveKeepsDismissed
<1>5. ASSUME NEW k \in Entries, ListAlerts(k) \/ FetchSucceeds(k) \/ FetchFails(k) \/ Show(k)
      PROVE  DismissedInv'
  BY <1>5, FetchKeepsDismissed
<1>6. CASE Refetch
  <2>1. /\ UNCHANGED <<acked, got, shown, cache, invalid, dismissing, mayReturn>>
        /\ \A k : Items(k)' = Items(k)
        /\ fetch'[shown] = Asked /\ \A k \in Entries \ {shown} : fetch'[k] = fetch[k]
    BY <1>6 DEF Refetch, PanelTypeInv, Items, vars, logVars, streamVars, clientVars
  <2>2. \A k \in Entries : \A i : Clears(k, i) => Clears(k, i)'
    BY <2>1 DEF Clears, Asked
  <2>3. ListedInv'
    BY <2>1, <2>2 DEF DismissedInv, ListedInv, AboutToGo, Unheard
  <2>4. ReturnInv'
    <3>1. \A k \in Entries : fetch'[k].ids \subseteq fetch[k].ids
      BY <2>1 DEF Asked
    <3> QED
      BY <2>1, <3>1 DEF DismissedInv, ReturnInv, Unheard
  <2>5. EarlyInv'
    BY <2>1 DEF DismissedInv, EarlyInv, Delivered
  <2> QED
    BY <2>3, <2>4, <2>5 DEF DismissedInv
<1>7. CASE ReadingRecorded
  BY <1>7, InvalidationKeepsDismissed DEF ReadingRecorded, Unheard
<1>8. CASE DismissSucceeds
  BY <1>8, InvalidationKeepsDismissed DEF DismissSucceeds, Unheard
<1>9. ASSUME NEW i \in Ids, Dismiss(i) PROVE DismissedInv'
  <2>1. /\ UNCHANGED <<acked, got, shown, cache, fetch, invalid, mayReturn>>
        /\ \A j : ~ Unheard(j)
    BY <1>9 DEF Dismiss, NotDismissing, Unheard, vars, logVars, streamVars, clientVars
  <2> QED
    BY <1>1, <2>1
<1>10. CASE DismissFails \/ DismissSettles
  <2>1. UNCHANGED <<acked, got, shown, cache, fetch, invalid>> /\ mayReturn \subseteq mayReturn'
    BY <1>10 DEF DismissFails, DismissSettles, vars, logVars, streamVars, clientVars
  <2>2. \A i : Unheard(i) => \A k \in Entries : <<k, i>> \in mayReturn'
    BY <1>10 DEF DismissFails, DismissSettles, Unheard
  <2> QED
    BY <1>1, <2>1, <2>2
<1>11. CASE AcknowledgeAlert
  <2> PICK id : id = dismissing.id
    OBVIOUS
  <2>1. /\ acked' = acked \cup {id} /\ UNCHANGED <<got, shown, cache, fetch, invalid>>
        /\ mayReturn \subseteq mayReturn'
        /\ id \notin Delivered => \A k \in Entries : <<k, id>> \in mayReturn'
    BY <1>11 DEF AcknowledgeAlert, Acknowledge, streamVars, clientVars
  <2>2. Unheard(id)' /\ \A i : ~ Unheard(i)
    BY <1>11 DEF AcknowledgeAlert, Unheard, PanelTypeInv
  <2>3. \A k, i : Items(k)' = Items(k) /\ Clears(k, i)' = Clears(k, i)
    BY <2>1 DEF Items, Clears
  <2>4. ListedInv'
    BY <2>1, <2>2, <2>3 DEF DismissedInv, ListedInv, AboutToGo
  <2>5. ReturnInv'
    BY <2>1, <2>2 DEF DismissedInv, ReturnInv
  <2>6. EarlyInv'
    BY <2>1 DEF DismissedInv, EarlyInv, Delivered
  <2> QED
    BY <2>4, <2>5, <2>6 DEF DismissedInv
<1> QED
  BY <1>2, <1>3, <1>4, <1>5, <1>6, <1>7, <1>8, <1>9, <1>10, <1>11 DEF PanelNext, Network

(* A dismissed alert is gone from every entry at rest and does not come     *)
(* back, except where the history says why: whatever wells are shown,       *)
(* fetches fail and connections break on the way.                           *)
THEOREM PanelDismissalsHold == PanelSpec => []DismissedStaysAway
<1>1. PanelInit => DismissedInv
  BY DEF PanelInit, Init, LogInit, DismissedInv, ListedInv, ReturnInv, EarlyInv
<1>2. DismissedInv => DismissedStaysAway
  BY DEF DismissedInv, ListedInv, DismissedStaysAway, Settled, AboutToGo, Unheard, Clears,
         NoFetch, NotDismissing
<1> QED
  BY <1>1, <1>2, PanelStepDismissed, PanelTypes, PTL DEF PanelSpec

-----------------------------------------------------------------------------
(* What was streamed.  The alerts an entry owes are those the client was    *)
(* sent that still need attention; the response on its way replaces the     *)
(* entry, so it must hold them as well.                                     *)

Owed(k) == {i \in Delivered : i \in live /\ i \notin acked /\ Matches(k, i)}

StreamedInv ==
  \A k \in Entries :
    /\ cache[k] # NoData => \A i \in Owed(k) : i \in Items(k) \/ <<k, i>> \in missed
    /\ fetch[k].state = "answered" =>
         \A i \in Owed(k) : i \in fetch[k].ids \/ <<k, i>> \in missed

(* What the client was sent is old news to the table: a step that delivers  *)
(* nothing adds nothing to what is owed.                                    *)
LEMMA OnlyDeliveriesOwe ==
  ASSUME StreamFacts, [Next]_vars, got' = got, NEW k
  PROVE  Owed(k)' \subseteq Owed(k)
<1> USE DEF StreamFacts
<1>1. [LogNext]_logVars
  BY StreamStepIsLogStep
<1>2. SUFFICES ASSUME NEW i \in Delivered, i \in live', i \notin acked', Matches(k, i)'
               PROVE  i \in live /\ i \notin acked /\ Matches(k, i)
  BY DEF Owed, Delivered
<1>3. WasCommitted(i) /\ i \notin pending
  <2>1. WasCommitted(i)
    BY DEF SentInv, Sent
  <2> QED
    BY <2>1 DEF WasCommitted, PendingHaveWells, LogTypeOK
<1>4. Matches(k, i)
  BY <1>1, <1>2, <1>3, WellsAreKept DEF WasCommitted, Matches
<1>5. ASSUME NEW w \in Wells, Insert(w) \/ DeleteWell(w) PROVE i \in live /\ i \notin acked
  BY <1>2, <1>5 DEF Insert, DeleteWell
<1>6. ASSUME NEW j \in Ids, Commit(j) \/ Rollback(j) \/ Acknowledge(j)
      PROVE  i \in live /\ i \notin acked
  BY <1>2, <1>3, <1>6 DEF Commit, Rollback, Acknowledge
<1>7. CASE UNCHANGED logVars
  BY <1>2, <1>4, <1>7 DEF logVars
<1> QED
  BY <1>1, <1>4, <1>5, <1>6, <1>7 DEF LogNext

LEMMA ReceiveKeepsStreamed ==
  ASSUME StreamFacts, PanelTypeInv, StreamedInv, ReceiveAlert, NEW k \in Entries
  PROVE  /\ cache'[k] # NoData => \A i \in Owed(k)' : i \in Items(k)' \/ <<k, i>> \in missed'
         /\ fetch'[k].state = "answered" =>
              \A i \in Owed(k)' : i \in fetch'[k].ids \/ <<k, i>> \in missed'
<1> USE DEF StreamFacts
<1>1. /\ Receive /\ UNCHANGED <<live, acked, wellOf, fetch>> /\ missed \subseteq missed'
      /\ CannotKeep(k) => <<k, Head(wire)>> \in missed'
  BY DEF ReceiveAlert, Receive, logVars
<1>2. Delivered' = Delivered \cup {Head(wire)}
  BY <1>1, ReceiveMoves
<1>3. \A i \in Owed(k)' : i \in Owed(k) \/ (i = Head(wire) /\ Matches(k, i))
  BY <1>1, <1>2 DEF Owed, Matches
<1>4. cache'[k] # NoData =>
        /\ cache[k] # NoData /\ Items(k) \subseteq Items(k)'
        /\ k = shown /\ Matches(k, Head(wire)) => Head(wire) \in Items(k)'
  BY DeliveredItems
<1>5. ASSUME cache'[k] # NoData, NEW i \in Owed(k)'
      PROVE  i \in Items(k)' \/ <<k, i>> \in missed'
  <2>1. CASE i \in Owed(k)
    BY <1>1, <1>4, <1>5, <2>1 DEF StreamedInv
  <2>2. CASE i = Head(wire) /\ Matches(k, i)
    BY <1>1, <1>4, <1>5, <2>2 DEF CannotKeep
  <2> QED
    BY <1>3, <2>1, <2>2
<1>6. ASSUME fetch'[k].state = "answered", NEW i \in Owed(k)'
      PROVE  i \in fetch'[k].ids \/ <<k, i>> \in missed'
  BY <1>1, <1>3, <1>6 DEF StreamedInv, CannotKeep
<1> QED
  BY <1>5, <1>6

LEMMA PanelStepStreamed ==
  StreamFacts /\ PanelTypeInv /\ StreamedInv /\ [PanelNext]_allVars => StreamedInv'
<1> SUFFICES ASSUME StreamFacts, PanelTypeInv, StreamedInv, [PanelNext]_allVars,
                    NEW k \in Entries
             PROVE  /\ cache'[k] # NoData =>
                         \A i \in Owed(k)' : i \in Items(k)' \/ <<k, i>> \in missed'
                    /\ fetch'[k].state = "answered" =>
                         \A i \in Owed(k)' : i \in fetch'[k].ids \/ <<k, i>> \in missed'
  BY DEF StreamedInv
<1> DEFINE Kept == /\ cache'[k] # NoData =>
                        \A i \in Owed(k)' : i \in Items(k)' \/ <<k, i>> \in missed'
                   /\ fetch'[k].state = "answered" =>
                        \A i \in Owed(k)' : i \in fetch'[k].ids \/ <<k, i>> \in missed'
<1>0. LogTypeOK /\ [Next]_vars
  BY PanelStepIsStreamStep DEF StreamFacts
<1>1. ASSUME got' = got, missed' = missed, cache'[k] = cache[k],
             fetch'[k] = fetch[k] \/ fetch'[k].state # "answered"
      PROVE  Kept
  <2>1. Owed(k)' \subseteq Owed(k) /\ Items(k)' = Items(k)
    BY <1>0, <1>1, OnlyDeliveriesOwe DEF Items
  <2> QED
    BY <1>1, <2>1 DEF StreamedInv
<1>2. CASE ReceiveAlert
  BY <1>2, ReceiveKeepsStreamed
<1>3. CASE StreamStep
  <2>1. got' = got
    BY <1>0, <1>3, StreamStepAcked
  <2> QED
    BY <1>1, <1>3, <2>1 DEF StreamStep, panelVars
<1>4. CASE UNCHANGED allVars
  BY <1>1, <1>4 DEF allVars, panelVars, vars, streamVars, clientVars
<1>5. ASSUME NEW e \in Entries, ListAlerts(e) PROVE Kept
  <2>1. /\ UNCHANGED <<vars, cache, missed>>
        /\ fetch'[e].ids = {i \in live \ acked : Matches(e, i)}
        /\ k # e => fetch'[k] = fetch[k]
    BY <1>5 DEF ListAlerts, PanelTypeInv
  <2>2. Owed(k)' = Owed(k) /\ Items(k)' = Items(k)
    BY <2>1 DEF Owed, Matches, Delivered, Items, vars, logVars, streamVars, clientVars
  <2>3. Owed(e) \subseteq fetch'[e].ids
    BY <2>1 DEF Owed
  <2> QED
    BY <2>1, <2>2, <2>3 DEF StreamedInv
<1>6. ASSUME NEW e \in Entries, FetchSucceeds(e) PROVE Kept
  <2>1. /\ cache'[e] # NoData => Items(e)' = fetch[e].ids
        /\ k # e => cache'[k] = cache[k] /\ Items(k)' = Items(k)
        /\ fetch' = [fetch EXCEPT ![e] = NoFetch]
    BY <1>6, FetchedEntry
  <2>2. /\ fetch[e].state = "answered" /\ UNCHANGED vars
        /\ missed' = {m \in missed : m[1] # e \/ m[2] \notin fetch[e].ids}
    BY <1>6 DEF FetchSucceeds
  <2>3. Owed(k)' = Owed(k)
    BY <2>2 DEF Owed, Matches, Delivered, vars, logVars, streamVars, clientVars
  <2>4. fetch'[e].state = "none" /\ (k # e => fetch'[k] = fetch[k])
    BY <2>1 DEF PanelTypeInv, NoFetch
  <2>5. \A i : <<k, i>> \in missed /\ (k # e \/ i \notin fetch[e].ids) => <<k, i>> \in missed'
    BY <2>2
  <2>6. CASE k = e
    BY <2>1, <2>2, <2>3, <2>4, <2>5, <2>6 DEF StreamedInv
  <2>7. CASE k # e
    BY <2>1, <2>3, <2>4, <2>5, <2>7 DEF StreamedInv
  <2> QED
    BY <2>6, <2>7
<1>7. ASSUME NEW e \in Entries, Show(e) \/ FetchFails(e) PROVE Kept
  <2>1. UNCHANGED <<got, missed, cache>>
    BY <1>7 DEF Show, FetchFails, vars, streamVars, clientVars
  <2>2. fetch'[k] = fetch[k] \/ fetch'[k].state # "answered"
    BY <1>7 DEF Show, FetchFails, PanelTypeInv, NoFetch, Asked
  <2> QED
    BY <1>1, <2>1, <2>2
<1>8. CASE Refetch \/ ReadingRecorded \/ DismissSucceeds
  <2>1. UNCHANGED <<got, missed, cache>>
    BY <1>8 DEF Refetch, ReadingRecorded, DismissSucceeds, vars, streamVars, clientVars
  <2>2. fetch'[k] = fetch[k] \/ fetch'[k].state # "answered"
    <3>1. CASE Refetch
      BY <3>1 DEF Refetch, PanelTypeInv, Asked
    <3>2. CASE InvalidateAlerts
      BY <3>2, InvalidationAsks DEF Asked
    <3> QED
      BY <1>8, <3>1, <3>2 DEF ReadingRecorded, DismissSucceeds
  <2> QED
    BY <1>1, <2>1, <2>2
<1>9. CASE AcknowledgeAlert \/ DismissFails \/ DismissSettles
  <2>1. UNCHANGED <<got, missed, cache, fetch>>
    BY <1>9 DEF AcknowledgeAlert, DismissFails, DismissSettles, vars, streamVars, clientVars
  <2> QED
    BY <1>1, <2>1
<1>10. ASSUME NEW i \in Ids, Dismiss(i) PROVE Kept
  <2>1. UNCHANGED <<got, missed, cache, fetch>>
    BY <1>10 DEF Dismiss, vars, streamVars, clientVars
  <2> QED
    BY <1>1, <2>1
<1> QED
  BY <1>2, <1>3, <1>4, <1>5, <1>6, <1>7, <1>8, <1>9, <1>10 DEF PanelNext, Network

(* An alert the stream brought and nobody has acknowledged is listed in     *)
(* every entry at rest that has data, or the history says that the entry    *)
(* could not keep it: for any table, any wells and any number of failures.  *)
THEOREM PanelListsWhatWasStreamed == PanelSpec => []StreamedIsListed
<1>1. PanelInit => StreamedInv
  BY DEF PanelInit, Init, StreamInit, StreamedInv, Owed, Delivered
<1>2. StreamedInv => StreamedIsListed
  BY DEF StreamedInv, Owed, StreamedIsListed
<1> QED
  BY <1>1, <1>2, PanelStepStreamed, PanelTypes, PTL DEF PanelSpec
=============================================================================
