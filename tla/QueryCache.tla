------------------------------ MODULE QueryCache ------------------------------
(***************************************************************************)
(* One entry of the TanStack Query cache, as the pages' hooks use it       *)
(* (queryClient.ts: staleTime 30 s, retries, no cancellation of requests). *)
(* The library is not part of the repository; these operators are what its *)
(* documented options do to an entry.  Entries are never garbage collected *)
(* (gcTime) and fetches not paused (networkMode) in these modules.         *)
(***************************************************************************)
CONSTANT NoData   \* an entry that was never filled

Idle == [state |-> "idle", answer |-> NoData]   \* no request in flight
Asked == [state |-> "asked", answer |-> NoData] \* one the server has not evaluated
Answered(answer) == [state |-> "answered", answer |-> answer]

(* `overtaken` is a history: the last fetch was under way when the entry   *)
(* was invalidated, and was not restarted.                                 *)
Entry(data) == [data |-> data, invalid |-> FALSE, failed |-> FALSE,
                fetch |-> Idle, overtaken |-> FALSE]
EmptyEntry == Entry(NoData)

HasData(e) == e.data # NoData
IsFetching(e) == e.fetch.state # "idle"
IsLoading(e) == ~ HasData(e) /\ IsFetching(e)
IsError(e) == e.failed

Ask(e) == [e EXCEPT !.fetch = Asked, !.failed = @ /\ HasData(e), !.overtaken = FALSE]

(* A component that uses the entry mounts, or its key changes to it.  (An  *)
(* entry older than staleTime is fetched too: see the modules' Refetch.)   *)
Observed(e) == IF ~ IsFetching(e) /\ (~ HasData(e) \/ e.invalid) THEN Ask(e) ELSE e

(* invalidateQueries: marked; fetched if a component uses it, and then a   *)
(* fetch in flight is cancelled only if the entry has data.                *)
Invalidated(e, active) ==
  LET marked == [e EXCEPT !.invalid = HasData(e)]
  IN  IF active /\ (~ IsFetching(e) \/ HasData(e)) THEN Ask(marked)
      ELSE [marked EXCEPT !.overtaken = IsFetching(e)]

(* setQueryData: fresh, whatever is in flight.                              *)
Written(e, data) == [e EXCEPT !.data = data, !.invalid = FALSE, !.failed = FALSE]

(* The response of the fetch in flight replaces what the entry holds.       *)
Received(e) == [Written(e, e.fetch.answer) EXCEPT !.fetch = Idle]

(* The tries of a fetch are used up: the data stays, invalidated.           *)
Failed(e) == [e EXCEPT !.failed = TRUE, !.invalid = HasData(e), !.fetch = Idle]
=============================================================================
