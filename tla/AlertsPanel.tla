----------------------------- MODULE AlertsPanel -----------------------------
(***************************************************************************)
(* The Operations page's AlertsPanel over the stream and the table: the    *)
(* TanStack Query cache entries ["alerts", {wellId, acknowledged: false}]  *)
(* that REST fetches fill and streamed alerts are merged into, one entry   *)
(* per well the operator looks at, and the Dismiss button.                 *)
(*                                                                         *)
(* One operator: alerts are acknowledged by this panel only (what others   *)
(* acknowledge is seen at the next fetch).  The list endpoint's limit is   *)
(* above MaxAlert.  Entries are not garbage collected, fetches not paused. *)
(***************************************************************************)
EXTENDS AlertStream, SequencesExt

CONSTANTS AllWells,   \* wellId undefined
          ViewedWells,\* wells the operator may select
          NoData      \* a cache entry that was never filled

ASSUME PanelAssumption == ViewedWells \subseteq Wells /\ AllWells \notin Wells

VARIABLES
  shown,      \* the panel's wellId, from the URL
  cache,      \* items of each entry, a sequence of ids, or NoData
  fetch,      \* the fetch each entry has in flight: [state, ids]
  invalid,    \* entries marked isInvalidated
  dismissing, \* the acknowledge mutation: [state, id, entry whose refetch it awaits]
  missed,     \* history: <<entry, id>> streamed when the entry could not keep it, not fetched since
  mayReturn   \* history: <<entry, id>> acknowledged while something older was under
              \* way, or still listed when a fetch failed

panelVars == <<shown, cache, fetch, invalid, dismissing, missed, mayReturn>>
allVars == <<vars, panelVars>>

Entries == ViewedWells \cup {AllWells}

NoFetch == [state |-> "none", ids |-> {}]
Asked == [state |-> "asked", ids |-> {}]
NotDismissing == [state |-> "none", id |-> 0, entry |-> AllWells]

Matches(k, i) == k = AllWells \/ wellOf[i] = k
Items(k) == IF cache[k] = NoData THEN {} ELSE Range(cache[k])

PanelInit ==
  /\ Init
  /\ shown = AllWells
  /\ cache = [k \in Entries |-> NoData]
  /\ fetch = [[k \in Entries |-> NoFetch] EXCEPT ![AllWells] = Asked]
  /\ invalid = {}
  /\ dismissing = NotDismissing
  /\ missed = {}
  /\ mayReturn = {}

-----------------------------------------------------------------------------
(* useAlertsQuery.                                                          *)

(* Another well is selected.  Its entry is fetched if it has no data or is  *)
(* invalidated, and also when it is older than staleTime.                   *)
Show(k) ==
  /\ k # shown
  /\ shown' = k
  /\ LET start == fetch' = [fetch EXCEPT ![k] = Asked]
         keep == fetch' = fetch
     IN  IF fetch[k] # NoFetch THEN keep
         ELSE IF cache[k] = NoData \/ k \in invalid THEN start
         ELSE start \/ keep
  /\ UNCHANGED <<vars, cache, invalid, dismissing, missed, mayReturn>>

(* A stale entry is fetched again on focus or reconnect. *)
Refetch ==
  /\ fetch[shown] = NoFetch
  /\ fetch' = [fetch EXCEPT ![shown] = Asked]
  /\ UNCHANGED <<vars, shown, cache, invalid, dismissing, missed, mayReturn>>

(* GET /alerts?acknowledged=false is evaluated. *)
ListAlerts(k) ==
  /\ fetch[k].state = "asked"
  /\ fetch' = [fetch EXCEPT ![k] = [state |-> "answered",
                                    ids |-> {i \in live \ acked : Matches(k, i)}]]
  /\ UNCHANGED <<vars, shown, cache, invalid, dismissing, missed, mayReturn>>

(* The response replaces whatever the entry holds by now.                   *)
FetchSucceeds(k) ==
  /\ fetch[k].state = "answered"
  /\ cache' = [cache EXCEPT ![k] = SetToSeq(fetch[k].ids)]
  /\ fetch' = [fetch EXCEPT ![k] = NoFetch]
  /\ invalid' = invalid \ {k}
  /\ missed' = {m \in missed : m[1] # k \/ m[2] \notin fetch[k].ids}
  /\ UNCHANGED <<vars, shown, dismissing, mayReturn>>

(* The tries of a fetch are used up; the entry keeps its data, invalidated. *)
FetchFails(k) ==
  /\ fetch[k] # NoFetch
  /\ fetch' = [fetch EXCEPT ![k] = NoFetch]
  /\ invalid' = invalid \cup {k}
  /\ mayReturn' = mayReturn \cup ({k} \X (Items(k) \cap acked))
  /\ UNCHANGED <<vars, shown, cache, dismissing, missed>>

(* invalidateQueries(["alerts"]): every entry is marked, the shown one is   *)
(* fetched, and a fetch it has in flight is cancelled only if it has data.  *)
(* (Marking one that does not exist yet changes nothing: it has no data.)   *)
Cancels(k) == k = shown /\ cache[k] # NoData

\* mutant: the key names the entry on screen only
InvalidateAlerts_ShownOnly ==
  /\ invalid' = invalid \cup {shown}
  /\ fetch' = [fetch EXCEPT ![shown] = IF @ = NoFetch \/ Cancels(shown) THEN Asked ELSE @]

InvalidateAlerts ==
  /\ invalid' = Entries
  /\ fetch' = [fetch EXCEPT ![shown] = IF @ = NoFetch \/ Cancels(shown) THEN Asked ELSE @]

(* useCreateReadingMutation's onSuccess. *)
ReadingRecorded ==
  /\ InvalidateAlerts
  /\ UNCHANGED <<vars, shown, cache, dismissing, missed, mayReturn>>

-----------------------------------------------------------------------------
(* useAlertStream's onmessage and handleNewAlert.  setQueryData makes an    *)
(* entry that has data count as fresh, even one it leaves as it was.        *)

\* mutants: no deduplication; no well filter; "all wells" is no well
Merge_NoDedup(items, i) ==
  IF items = NoData \/ ~ Matches(shown, i) THEN items ELSE <<i>> \o items

Merge_AnyWell(items, i) ==
  IF items = NoData \/ i \in Items(shown) THEN items ELSE <<i>> \o items

Merge_SelectedOnly(items, i) ==
  IF items = NoData \/ i \in Items(shown) \/ wellOf[i] # shown THEN items ELSE <<i>> \o items

Merge(items, i) ==
  IF items = NoData THEN NoData
  ELSE IF i \in Range(items) THEN items
  ELSE IF ~ Matches(shown, i) THEN items
  ELSE <<i>> \o items

(* Where a delivery leaves nothing behind: the entry is not on screen or    *)
(* has no data, or a response that was computed before is on its way.       *)
CannotKeep(k) == k # shown \/ cache[k] = NoData \/ fetch[k].state = "answered"

ReceiveAlert ==
  /\ Receive
  /\ LET i == Head(wire)
     IN  /\ cache' = [cache EXCEPT ![shown] = Merge(@, i)]
         /\ invalid' = IF cache[shown] = NoData THEN invalid ELSE invalid \ {shown}
         /\ missed' = missed \cup {<<k, i>> : k \in {e \in Entries : CannotKeep(e)}}
  /\ UNCHANGED <<shown, fetch, dismissing, mayReturn>>

-----------------------------------------------------------------------------
(* useAcknowledgeAlertMutation.  Its buttons are disabled while it is       *)
(* pending, which includes the refetch its onSuccess returns.               *)

Dismiss(i) ==
  /\ dismissing = NotDismissing
  /\ i \in Items(shown)
  /\ dismissing' = [state |-> "sent", id |-> i, entry |-> shown]
  /\ UNCHANGED <<vars, shown, cache, fetch, invalid, missed, mayReturn>>

AcknowledgeAlert ==
  /\ dismissing.state = "sent"
  /\ Acknowledge(dismissing.id)
  /\ dismissing' = [dismissing EXCEPT !.state = "acknowledged"]
  /\ mayReturn' = IF dismissing.id \in Delivered THEN mayReturn
                  ELSE mayReturn \cup (Entries \X {dismissing.id})
  /\ UNCHANGED <<streamVars, shown, cache, fetch, invalid, missed>>

(* The alert is gone (404) or the request fails: no onError, nothing else. *)
DismissFails ==
  /\ dismissing.state \in {"sent", "acknowledged"}
  /\ dismissing' = NotDismissing
  /\ mayReturn' = mayReturn \cup (Entries \X {dismissing.id})
  /\ UNCHANGED <<vars, shown, cache, fetch, invalid, missed>>

(* onSuccess.  Fetches in flight that the invalidation does not cancel may  *)
(* hold the alert still.                                                    *)
DismissSucceeds ==
  /\ dismissing.state = "acknowledged"
  /\ InvalidateAlerts
  /\ dismissing' = [dismissing EXCEPT !.state = "refetching", !.entry = shown]
  /\ mayReturn' = mayReturn \cup
       {<<k, dismissing.id>> : k \in {e \in Entries : fetch[e] # NoFetch /\ ~ Cancels(e)}}
  /\ UNCHANGED <<vars, shown, cache, missed>>

\* mutant: the buttons wait for a refetch that succeeds
DismissSettles_OnlyFresh ==
  /\ dismissing.state = "refetching"
  /\ fetch[dismissing.entry] = NoFetch /\ dismissing.entry \notin invalid
  /\ dismissing' = NotDismissing
  /\ UNCHANGED <<vars, shown, cache, fetch, invalid, missed, mayReturn>>

DismissSettles ==
  /\ dismissing.state = "refetching"
  /\ fetch[dismissing.entry] = NoFetch
  /\ dismissing' = NotDismissing
  /\ UNCHANGED <<vars, shown, cache, fetch, invalid, missed, mayReturn>>

-----------------------------------------------------------------------------

StreamStep ==
  /\ \/ \E i \in Ids : CommitAlert(i)
     \/ OtherWrite /\ acked' \subseteq acked
     \/ Connect \/ Refuse \/ Drop \/ Serve
  /\ UNCHANGED panelVars

Network ==
  \/ \E k \in Entries : ListAlerts(k) \/ FetchSucceeds(k)
  \/ AcknowledgeAlert \/ DismissSucceeds

PanelNext ==
  \/ StreamStep
  \/ ReceiveAlert
  \/ Network
  \/ \E k \in Entries : Show(k) \/ FetchFails(k)
  \/ Refetch \/ ReadingRecorded
  \/ \E i \in Ids : Dismiss(i)
  \/ DismissFails \/ DismissSettles

PanelSpec == PanelInit /\ [][PanelNext]_allVars

(* Requests get an answer or fail.  Strong fairness: the operator does not  *)
(* for ever record readings faster than a refetch returns, and the mutation *)
(* settles in the same turn of the event loop as the refetch it awaits.     *)
FairPanelSpec ==
  /\ PanelSpec
  /\ \A k \in Entries : WF_allVars(ListAlerts(k)) /\ SF_allVars(FetchSucceeds(k))
  /\ WF_allVars(AcknowledgeAlert \/ DismissFails \/ DismissSucceeds)
  /\ SF_allVars(DismissSettles)

-----------------------------------------------------------------------------

PanelTypeOK ==
  /\ shown \in Entries
  /\ \A k \in Entries : cache[k] = NoData \/ cache[k] \in Seq(Ids)
  /\ \A k \in Entries : fetch[k] \in [state : {"none", "asked", "answered"}, ids : SUBSET Ids]
  /\ invalid \subseteq Entries
  /\ dismissing \in [state : {"none", "sent", "acknowledged", "refetching"},
                     id : 0..MaxAlert, entry : Entries]

(* No alert is listed twice, whichever of REST and the stream delivers it   *)
(* first and however often the stream connects.                             *)
NoAlertTwice ==
  \A k \in Entries : cache[k] # NoData => Len(cache[k]) = Cardinality(Items(k))

(* An entry lists alerts of its own well only, also when the operator       *)
(* switches wells while alerts and responses are on their way.              *)
OnlyItsWell ==
  \A k \in Entries : \A i \in Items(k) : Matches(k, i)

Settled(k) == fetch[k] = NoFetch /\ k \notin invalid /\ dismissing = NotDismissing

(* A dismissed alert is gone from a settled entry and stays away, unless    *)
(* the stream had not delivered it yet when it was acknowledged, a fetch    *)
(* the invalidation did not cancel was under way, or a request failed.      *)
DismissedStaysAway ==
  \A k \in Entries : Settled(k) =>
    \A i \in Items(k) : i \in acked => <<k, i>> \in mayReturn

(* A streamed alert that still needs attention is listed in a settled entry *)
(* that has data, unless the entry could not keep it when it came.          *)
StreamedIsListed ==
  \A k \in Entries : Settled(k) /\ cache[k] # NoData =>
    \A i \in Delivered : i \in live /\ i \notin acked /\ Matches(k, i) =>
      i \in Items(k) \/ <<k, i>> \in missed

(* The Dismiss buttons are enabled again.                                   *)
DismissEnds == (dismissing # NotDismissing) ~> (dismissing = NotDismissing)

(* AlertsPanel.tsx:17: "Live unacknowledged-alert feed": what is added to   *)
(* an entry needs attention.                                                *)
AddsOnlyUnacknowledged ==
  [][\A k \in Entries : (Items(k)' \ Items(k)) \cap acked' = {}]_allVars

(* AlertsPanel.tsx:18-20: "new alerts created after that arrive via SSE and *)
(* are merged into the same TanStack Query cache entry".                    *)
NewAlertsAreMerged ==
  Settled(shown) /\ cache[shown] # NoData =>
    \A i \in Delivered : i \in live \ acked /\ Matches(shown, i) => i \in Items(shown)
=============================================================================
