------------------------------ MODULE AlertLog ------------------------------
(***************************************************************************)
(* What the rest of the system sees of the table threshold_alerts.         *)
(*                                                                         *)
(* A transaction that stores an alert takes the next id of the table's     *)
(* sequence when its INSERT runs, and the row becomes visible to others    *)
(* only when that transaction commits, so ids can become visible out of    *)
(* order and a rolled back transaction leaves a hole.  A visible alert is  *)
(* acknowledged once, and disappears only with its well.  Operations.tla   *)
(* implements this module; AlertStream.tla and AlertsPanel.tla read it.    *)
(***************************************************************************)
EXTENDS Naturals, FiniteSets

CONSTANTS Wells,        \* ids of the wells that exist initially
          MaxAlert,     \* bound: alert ids the sequence may hand out
          MaxInFlight   \* bound: transactions holding an uncommitted alert

ASSUME AlertLogAssumption == MaxAlert \in Nat /\ MaxInFlight \in Nat

VARIABLES wells,    \* wells that still exist
          seq,      \* the last id handed out by the sequence of threshold_alerts
          pending,  \* ids of inserted rows whose transaction has not committed
          live,     \* ids of the committed rows
          acked,    \* ids of the committed rows with acknowledged = true
          wellOf    \* well_id of every row inserted so far

logVars == <<wells, seq, pending, live, acked, wellOf>>

Ids == 1..MaxAlert

LogTypeOK ==
  /\ wells \subseteq Wells
  /\ seq \in 0..MaxAlert
  /\ pending \subseteq 1..seq
  /\ live \subseteq 1..seq
  /\ pending \cap live = {}
  /\ acked \subseteq live
  /\ wellOf \in [1..seq -> Wells]

LogInit ==
  /\ wells = Wells
  /\ seq = 0
  /\ pending = {}
  /\ live = {}
  /\ acked = {}
  /\ wellOf = <<>>

(* The INSERT of create_reading's flush: the id is taken, the row is not    *)
(* visible yet.  Its foreign key needs the well.                            *)
Insert(w) ==
  /\ w \in wells
  /\ seq < MaxAlert
  /\ Cardinality(pending) < MaxInFlight
  /\ seq' = seq + 1
  /\ pending' = pending \cup {seq + 1}
  /\ wellOf' = [i \in 1..(seq + 1) |-> IF i = seq + 1 THEN w ELSE wellOf[i]]
  /\ UNCHANGED <<wells, live, acked>>

Commit(i) ==
  /\ i \in pending
  /\ pending' = pending \ {i}
  /\ live' = live \cup {i}
  /\ UNCHANGED <<wells, seq, acked, wellOf>>

(* The session is closed without commit: the id is never used again.        *)
Rollback(i) ==
  /\ i \in pending
  /\ pending' = pending \ {i}
  /\ UNCHANGED <<wells, seq, live, acked, wellOf>>

Acknowledge(i) ==
  /\ i \in live
  /\ acked' = acked \cup {i}
  /\ UNCHANGED <<wells, seq, pending, live, wellOf>>

(* ON DELETE CASCADE.  The DELETE waits for transactions that hold a key    *)
(* lock on the well, which every uncommitted alert of the well does.        *)
DeleteWell(w) ==
  /\ w \in wells
  /\ \A i \in pending : wellOf[i] # w
  /\ wells' = wells \ {w}
  /\ live' = {i \in live : wellOf[i] # w}
  /\ acked' = {i \in acked : wellOf[i] # w}
  /\ UNCHANGED <<seq, pending, wellOf>>

LogNext ==
  \/ \E w \in Wells : Insert(w) \/ DeleteWell(w)
  \/ \E i \in Ids : Commit(i) \/ Rollback(i) \/ Acknowledge(i)

LogSpec == LogInit /\ [][LogNext]_logVars

-----------------------------------------------------------------------------

(* An alert that was visible and is gone, or was rolled back, never comes   *)
(* back: an id names one alert for ever, which is what lets a client use    *)
(* the id as a resume point and as a deduplication key.                     *)
IdsAreNeverReused ==
  [][\A i \in 1..seq : i \notin live \cup pending => i \notin live' \cup pending']_logVars

(* Acknowledging is final (services/operations.py offers no way back): an   *)
(* acknowledged alert stays so until its well is deleted.                   *)
AcknowledgedForGood ==
  [][\A i \in acked : i \in acked' \/ wellOf[i] \notin wells']_logVars

(* Alerts disappear only with their well.                                   *)
GoneOnlyWithWell ==
  [][\A i \in live : i \in live' \/ wellOf[i] \notin wells']_logVars
=============================================================================
