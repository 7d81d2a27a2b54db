----------------------------- MODULE AlertStream -----------------------------
(***************************************************************************)
(* GET /operations/alerts/stream: the generator that polls                 *)
(* threshold_alerts on one side, one browser EventSource on the other, and *)
(* the connection between them, over the table of AlertLog.                *)
(*                                                                         *)
(* Streams share nothing but the table, so one of them is enough.  Comment *)
(* frames (": connected", ": heartbeat") carry no id and reach no handler; *)
(* all they do is reset the proxy's idle timer, so "wire" holds the ids of *)
(* the event frames only.                                                  *)
(***************************************************************************)
EXTENDS AlertLog, Sequences

CONSTANTS SinceIds,          \* values of ?since_id= a client may open the stream with
          NoSince,           \* ... or none, as useAlertStream does
          HeartbeatEvery,    \* _HEARTBEAT_EVERY_N_POLLS
          ProxyReadTimeout,  \* nginx proxy_read_timeout, in polls
          MaxConnects        \* bound: connections the EventSource opens

ASSUME StreamAssumption ==
  /\ SinceIds \subseteq Nat
  /\ NoSince \notin Nat
  /\ HeartbeatEvery \in Nat \ {0}
  /\ ProxyReadTimeout \in Nat
  /\ HeartbeatEvery < ProxyReadTimeout
  /\ MaxConnects \in Nat

VARIABLES
  sinceId,      \* the since_id of the URL the EventSource holds, or NoSince
  lastEventId,  \* the EventSource's last event id; 0 before the first event
  got,          \* the ids handed to onmessage, in order
  connects,     \* connections opened so far
  closed,       \* the EventSource is CLOSED: it does not try again
  gen,          \* where event_generator is: "off", "resume", "poll" or "emit"
  cursor,       \* its last_id
  batch,        \* ids of the rows of new_alerts it has not yielded yet
  quiet,        \* its polls_since_heartbeat
  wire,         \* event frames written and not received yet
  idle,         \* polls since anything was written, as the proxy's timer sees them
  base,         \* history: the cursor this stream last started from without Last-Event-ID
  joined,       \* history: the cursor of the first connection
  late          \* history: ids committed when the stream had already passed them

clientVars == <<sinceId, lastEventId, got, connects, closed>>
serverVars == <<gen, cursor, batch, quiet>>
streamVars == <<clientVars, serverVars, wire, idle, base, joined, late>>
vars == <<logVars, streamVars>>

NotYet == MaxAlert + 1     \* base and joined before the first connection

Highest(S) == CHOOSE i \in S : \A j \in S : j <= i
Lowest(S) == CHOOSE i \in S : \A j \in S : i <= j

(* The highest id whose turn is over: what becomes visible below it is      *)
(* never returned by a later poll of this connection.                       *)
Passed == IF gen \in {"poll", "emit"} THEN Highest(batch \cup {cursor}) ELSE lastEventId

TypeOK ==
  /\ LogTypeOK
  /\ sinceId \in SinceIds \cup {NoSince}
  /\ lastEventId \in 0..MaxAlert
  /\ got \in Seq(Ids)
  /\ connects \in 0..MaxConnects
  /\ closed \in BOOLEAN
  /\ gen \in {"off", "resume", "poll", "emit"}
  /\ cursor \in Nat
  /\ batch \subseteq 1..seq
  /\ quiet \in 0..HeartbeatEvery
  /\ wire \in Seq(Ids)
  /\ idle \in Nat
  /\ base \in Nat
  /\ joined \in Nat
  /\ late \subseteq 1..seq

StreamInit ==
  /\ sinceId \in SinceIds \cup {NoSince}
  /\ lastEventId = 0
  /\ got = <<>>
  /\ connects = 0
  /\ closed = FALSE
  /\ gen = "off"
  /\ cursor = 0
  /\ batch = {}
  /\ quiet = 0
  /\ wire = <<>>
  /\ idle = 0
  /\ base = NotYet
  /\ joined = NotYet
  /\ late = {}

Init == LogInit /\ StreamInit

-----------------------------------------------------------------------------
(* The writers of the table.  Only a commit concerns the stream.            *)

CommitAlert(i) ==
  /\ Commit(i)
  /\ late' = IF i <= Passed THEN late \cup {i} ELSE late
  /\ UNCHANGED <<clientVars, serverVars, wire, idle, base, joined>>

OtherWrite ==
  /\ \/ \E w \in Wells : Insert(w) \/ DeleteWell(w)
     \/ \E i \in Ids : Rollback(i) \/ Acknowledge(i)
  /\ UNCHANGED streamVars

-----------------------------------------------------------------------------
(* The EventSource: it opens the stream, and opens it again after a break,  *)
(* with its last event id as Last-Event-ID once it has one.  An attempt     *)
(* that gets no answer at all is repeated by the browser and changes        *)
(* nothing here.                                                            *)

Connect ==
  /\ gen = "off"
  /\ ~ closed
  /\ connects < MaxConnects
  /\ connects' = connects + 1
  /\ gen' = "resume"
  /\ UNCHANGED <<logVars, sinceId, lastEventId, got, closed, cursor, batch, quiet, wire, idle,
                 base, joined, late>>

(* The attempt is answered, but not with a stream: the 401 of               *)
(* get_current_user once the session expired or was logged out, nginx's 502 *)
(* while the backend restarts.  An EventSource closes for good on that, and *)
(* the hook's onerror only sets a status.                                   *)
Refuse ==
  /\ gen = "off"
  /\ ~ closed
  /\ connects < MaxConnects
  /\ closed' = TRUE
  /\ UNCHANGED <<logVars, sinceId, lastEventId, got, connects, serverVars, wire, idle,
                 base, joined, late>>

Receive ==
  /\ wire # <<>>
  /\ lastEventId' = Head(wire)
  /\ got' = Append(got, Head(wire))
  /\ wire' = Tail(wire)
  /\ UNCHANGED <<logVars, sinceId, connects, closed, serverVars, idle, base, joined, late>>

(* The connection breaks: frames in flight are lost and the generator ends, *)
(* at its disconnect check or cancelled where it stands.  An id counted as  *)
(* late above the client's resume point will be polled again.               *)
Drop ==
  /\ gen # "off"
  /\ connects < MaxConnects
  /\ gen' = "off"
  /\ batch' = {}
  /\ wire' = <<>>
  /\ late' = {i \in late : i <= lastEventId}
  /\ UNCHANGED <<logVars, clientVars, cursor, quiet, idle, base, joined>>

-----------------------------------------------------------------------------
(* event_generator.  Its three steps run in a thread or after an await, so  *)
(* writers and the connection interleave with them.                         *)

(* max_alert_id, in a session of its own. *)
MaxAlertId == IF live = {} THEN 0 ELSE Highest(live)

(* Mutant of ResumePoint: the Last-Event-ID header is not read.             *)
ResumePoint_IgnoresHeader == sinceId

(* _resolve_resume_point: the header, else the parameter; NoSince is None. *)
ResumePoint == IF lastEventId # 0 THEN lastEventId ELSE sinceId

Resume ==
  /\ gen = "resume"
  /\ cursor' = IF ResumePoint # NoSince THEN ResumePoint ELSE MaxAlertId
  /\ base' = IF lastEventId # 0 THEN base ELSE cursor'
  /\ joined' = IF joined = NotYet THEN cursor' ELSE joined
  /\ batch' = {}
  /\ quiet' = 0
  /\ idle' = 0
  /\ gen' = "poll"
  /\ UNCHANGED <<logVars, clientVars, wire, late>>

(* Mutants of AlertsSince: ">=" for ">", and a dirty read.                  *)
AlertsSince_Inclusive(id) == {i \in live : i >= id}
AlertsSince_ReadUncommitted(id) == {i \in live \cup pending : i > id}

AlertsSince(id) == {i \in live : i > id}

PollFindsAlerts ==
  /\ gen = "poll"
  /\ AlertsSince(cursor) # {}
  /\ batch' = AlertsSince(cursor)
  /\ quiet' = 0
  /\ gen' = "emit"
  /\ UNCHANGED <<logVars, clientVars, cursor, wire, idle, base, joined, late>>

\* mutant: a poll that finds nothing is not counted
PollFindsNothing_NoCount ==
  /\ gen = "poll"
  /\ AlertsSince(cursor) = {}
  /\ idle' = idle + 1
  /\ UNCHANGED <<logVars, clientVars, serverVars, wire, base, joined, late>>

PollFindsNothing ==
  /\ gen = "poll"
  /\ AlertsSince(cursor) = {}
  /\ LET beat == quiet + 1 >= HeartbeatEvery
     IN  /\ quiet' = IF beat THEN 0 ELSE quiet + 1
         /\ idle' = IF beat THEN 0 ELSE idle + 1
  /\ UNCHANGED <<logVars, clientVars, gen, cursor, batch, wire, base, joined, late>>

(* Mutant of Emit: the cursor jumps to the end of the batch, whose rest is  *)
(* forgotten.                                                               *)
Emit_FirstOnly ==
  /\ gen = "emit"
  /\ cursor' = Highest(batch)
  /\ wire' = Append(wire, Lowest(batch))
  /\ idle' = 0
  /\ batch' = {}
  /\ gen' = "poll"
  /\ UNCHANGED <<logVars, clientVars, quiet, base, joined, late>>

(* One turn of "for alert in new_alerts", ordered by id; the last turn      *)
(* sleeps and goes back to polling.                                         *)
Emit ==
  /\ gen = "emit"
  /\ cursor' = Lowest(batch)
  /\ wire' = Append(wire, Lowest(batch))
  /\ idle' = 0
  /\ batch' = batch \ {Lowest(batch)}
  /\ gen' = IF batch' = {} THEN "poll" ELSE "emit"
  /\ UNCHANGED <<logVars, clientVars, quiet, base, joined, late>>

Serve == Resume \/ PollFindsAlerts \/ PollFindsNothing \/ Emit

Next ==
  \/ \E i \in Ids : CommitAlert(i)
  \/ OtherWrite
  \/ Connect \/ Refuse \/ Receive \/ Drop
  \/ Serve

Spec == Init /\ [][Next]_vars

(* The event loop resumes the generator after every sleep, TCP delivers     *)
(* what was written unless the connection breaks, and an EventSource tries  *)
(* again by itself until it is answered, one way or the other.  Nothing is  *)
(* assumed of the writers, nor that the answer is a stream.                 *)
FairSpec == Spec /\ WF_vars(Serve) /\ WF_vars(Receive) /\ WF_vars(Connect \/ Refuse)

-----------------------------------------------------------------------------

Delivered == {got[k] : k \in DOMAIN got}

(* The client sees ids in strictly increasing order and none twice, over    *)
(* any number of broken connections and whatever was lost in flight: the    *)
(* reconnect "resumes without ... duplicates".                              *)
InOrderNoDuplicates ==
  \A k, l \in DOMAIN got : k < l => got[k] < got[l]

(* Nothing reaches a client that was not committed: an alert of a rolled    *)
(* back reading is never announced, and one that was announced can only be  *)
(* missing from the table because its well was deleted.                     *)
OnlyCommittedAlerts ==
  \A i \in Delivered : i \in live \/ wellOf[i] \notin wells

(* The one gap the cursor leaves inside a stream: an alert below the        *)
(* client's last event that it never saw was committed after the stream had *)
(* passed its id.  Frames lost with a connection are all sent again.        *)
GapsAreLateCommits ==
  \A i \in live : base < i /\ i <= lastEventId => i \in Delivered \/ i \in late

(* The heartbeat keeps nginx from closing a quiet stream: the generator     *)
(* never stays silent for proxy_read_timeout.                               *)
NeverIdleTooLong == idle < ProxyReadTimeout

(* Every alert the stream owes its client arrives, unless its well is       *)
(* deleted, the stream started over from a later "now", or a reconnect was  *)
(* refused, which ends the EventSource.                                     *)
EventuallyDelivered ==
  \A i \in Ids :
    (i \in live /\ base < i /\ i \notin late)
      ~> (i \in Delivered \/ i \notin live \/ i <= base \/ closed)

(* useAlertStream.ts:6-8: reconnection is "handled natively by              *)
(* EventSource": a stream that broke is open again at some time.            *)
ReconnectsByItself == (gen = "off" /\ connects < MaxConnects) ~> (gen # "off")

(* stream_alerts, api/operations.py:188-190: reconnecting "resumes without  *)
(* gaps or duplicates".  Two readings of "without gaps": within a stream,   *)
(* and since the client first connected.                                    *)
StreamHasNoGaps ==
  \A i \in live : base < i /\ i <= lastEventId => i \in Delivered

ResumesWithoutGaps ==
  \A i \in live : joined < i /\ i <= lastEventId => i \in Delivered \/ i \in late
=============================================================================
