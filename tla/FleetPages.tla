------------------------------ MODULE FleetPages ------------------------------
(***************************************************************************)
(* The rig and well pages of one browser tab: lists, details, the forms,   *)
(* and the query cache they share, over a server that other users write    *)
(* to as well.  Requests are evaluated in one step here (Fleet has their   *)
(* inside), and arrive, get lost and are answered in any order.            *)
(*                                                                         *)
(* A row is a name and one more column: a well's rig_id, a rig's status.   *)
(* The columns without a rule behave like the latter, but for the text in   *)
(* the date field of a well's form, which the form sends unread.  A list    *)
(* page's URL parameters (q, status, sort, order) are one value: which rows *)
(* it lists.                                                                *)
(***************************************************************************)
EXTENDS Integers, FiniteSets, TLC, QueryCache

CONSTANTS RigIds, WellIds, \* 1..n: the ids the sequences may give out
          FirstRows,       \* db at first
          Names, RigStatuses,
          Searches,        \* the names list pages are searched for; "" lists all
          NULL,            \* no row, no rig, no form
          Roles,           \* one of which the signed-in user has
          FirstPlaces,     \* of this page load
          History,         \* places of the tab's history, from before it
          MaxVisits,       \* bound: pages visited
          MaxSaves,        \* bound: forms submitted, deletions confirmed
          MaxEvents        \* bound: refetches, requests lost, writes of other users

(* Rows: of a well, col is its rig_id.                                      *)
RigRows == [name : Names, col : RigStatuses]
WellRows == [name : Names, col : RigIds \cup {NULL}]

(* JavaScript's String(id): the value of an option of the rig select.       *)
String(n) == ToString(n)

ASSUME FleetPagesAssumption ==
  /\ IsFiniteSet(RigIds) /\ RigIds = 1..Cardinality(RigIds)
  /\ IsFiniteSet(WellIds) /\ WellIds = 1..Cardinality(WellIds)
  /\ NULL \notin Nat /\ NULL \notin Searches
  /\ "" \in Searches /\ "active" \in RigStatuses
  /\ Roles \subseteq {"admin", "engineer", "viewer"}
  /\ {MaxVisits, MaxSaves, MaxEvents} \subseteq Nat

ASSUME FirstRowsAssumption ==
  /\ FirstRows = [k \in {"rig", "well"} |-> FirstRows[k]]
  /\ FirstRows["rig"] \in [RigIds -> RigRows \cup {NULL}]
  /\ FirstRows["well"] \in [WellIds -> WellRows \cup {NULL}]
  /\ \A w \in WellIds : FirstRows["well"][w] # NULL =>  \* a foreign key
       FirstRows["well"][w].col = NULL \/ FirstRows["rig"][FirstRows["well"][w].col] # NULL
  /\ \A k \in {"rig", "well"} : \A i \in DOMAIN FirstRows[k] : FirstRows[k][i] # NULL =>
       i <= Cardinality({j \in DOMAIN FirstRows[k] : FirstRows[k][j] # NULL}) \* given out in order

(* An empty entry is no response, and options of the rig select differ.     *)
ASSUME DataAssumption ==
  /\ NoData \notin [got : RigRows \cup WellRows \cup {NULL} \cup [RigIds -> RigRows \cup {NULL}]
                        \cup [WellIds -> WellRows \cup {NULL}],
                  asOf : Nat]
  /\ \A i, j \in RigIds : String(i) = String(j) => i = j
  /\ \A i \in RigIds : String(i) # ""

VARIABLES
  db,     \* db["rig"], db["well"]: id -> row, or NULL
  next,   \* the next id of each kind
  writes, \* history: this tab's requests applied so far, by kind
  role,   \* of the signed-in user
  cache,  \* the query cache
  page,   \* the component on screen and its state
  form,   \* the RigForm or WellForm on it
  calls,  \* requests of useMutation under way
  told,   \* history: of each kind, how many of its writes this tab knows of
  count   \* of what is bounded, so far

server == <<db, next, writes, role>>
vars == <<server, cache, page, form, calls, told, count>>

Bounds == [visits |-> MaxVisits, saves |-> MaxSaves, events |-> MaxEvents]
Counted(what) == count[what] < Bounds[what] /\ count' = [count EXCEPT ![what] = @ + 1]

Kinds == {"rig", "well"}
IdsOf(k) == IF k = "rig" THEN RigIds ELSE WellIds
Exists(k, i) == i \in IdsOf(k) /\ db[k][i] # NULL

(* Query keys <<kind, id, filters>>: a row has no filters, a list no id, and *)
(* the rig select's list has none of either.                                *)
RigOptions == <<"rig", 0, NULL>>
RigKeys == {<<"rig", i, "">> : i \in RigIds} \cup {<<"rig", 0, q>> : q \in Searches} \cup {RigOptions}
WellKeys == {<<"well", i, "">> : i \in WellIds} \cup {<<"well", 0, q>> : q \in Searches}
Keys == RigKeys \cup WellKeys

-----------------------------------------------------------------------------
(* Permissions.                                                             *)

ROLE_PERMISSIONS(r) ==
  CASE r = "admin" -> {"rig:edit", "rig:delete", "well:edit", "well:delete"}
    [] r = "engineer" -> {"rig:edit", "well:edit"}
    [] OTHER -> {}

usePermission(p) == p \in ROLE_PERMISSIONS(role)

EditOf(k) == IF k = "rig" THEN "rig:edit" ELSE "well:edit"

(* A route of which the permission is missing shows the Forbidden page.     *)
RequirePermission(p) ==
  IF p.at \in {"new", "edit"} /\ ~ usePermission(EditOf(p.k))
  THEN [p EXCEPT !.at = "forbidden"] ELSE p

-----------------------------------------------------------------------------
(* Places, what their pages show, and where these lead.                     *)

Place(at, k, i, q) == [at |-> at, k |-> k, i |-> i, q |-> q]
List(k, q) == Place("list", k, 0, q)
New(k) == Place("new", k, 0, "")
Detail(k, i) == Place("detail", k, i, "")
Edit(k, i) == Place("edit", k, i, "")

(* The URLs of those pages that there may be something to show on.          *)
Places ==
  {List(k, q) : k \in Kinds, q \in Searches} \cup {New(k) : k \in Kinds} \cup
  UNION {{Detail(k, i) : i \in IdsOf(k)} \cup {Edit(k, i) : i \in IdsOf(k)} : k \in Kinds}

ASSUME PlacesAssumption == FirstPlaces \cup History \subseteq Places

NewPage(p) == [at |-> p.at, k |-> p.k, i |-> p.i, q |-> p.q,
               confirming |-> FALSE, call |-> 0, error |-> NULL]
PlaceOf(p) == Place(p.at, p.k, p.i, p.q)
KeyOf(p) == <<p.k, p.i, p.q>>
HasEntry(p) == p.at \in {"list", "detail", "edit"}
Shown == cache[KeyOf(page)]

NAV_ITEMS == {List(k, "") : k \in Kinds}

(* The rows of a list: those the entry holds, also after a failed fetch.    *)
Rows == {i \in IdsOf(page.k) : HasData(Shown) /\ Shown.data.got[i] # NULL}

(* Search, filters and sort are the URL's; Edit and New need a permission.  *)
RigsListPage ==
  {List("rig", q) : q \in Searches} \cup {Detail("rig", i) : i \in Rows} \cup
  IF usePermission("rig:edit") THEN {New("rig")} \cup {Edit("rig", i) : i \in Rows} ELSE {}

WellsListPage ==
  {List("well", q) : q \in Searches} \cup {Detail("well", i) : i \in Rows} \cup
  IF usePermission("well:edit") THEN {New("well")} \cup {Edit("well", i) : i \in Rows} ELSE {}

RigDetailPage ==
  IF HasData(Shown) /\ usePermission("rig:edit") THEN {Edit("rig", page.i)} ELSE {}

WellDetailPage ==
  (IF HasData(Shown) /\ usePermission("well:edit") THEN {Edit("well", page.i)} ELSE {})
  \cup {Detail("rig", i) : i \in {r \in RigIds : HasData(Shown) /\ r = Shown.data.got.col}}

Links ==
  NAV_ITEMS \cup
  CASE page.at = "list" /\ page.k = "rig" -> RigsListPage
    [] page.at = "list" /\ page.k = "well" -> WellsListPage
    [] page.at = "detail" /\ page.k = "rig" -> RigDetailPage
    [] page.at = "detail" /\ page.k = "well" -> WellDetailPage
    [] OTHER -> {}

-----------------------------------------------------------------------------
(* The forms.  Fields hold text; "" is the unassigned rig.                  *)

Text(v) == IF v = NULL THEN "" ELSE String(v)

(* useForm's default values, from the row the form was mounted with.        *)
RigDefaults(row) == IF row = NULL THEN [name |-> "", col |-> "active"] ELSE row
\* mutant: the rig select starts empty.
WellDefaults_NoRig(row) == [name |-> IF row = NULL THEN "" ELSE row.name, col |-> ""]
WellDefaults(row) ==
  IF row = NULL THEN [name |-> "", col |-> ""] ELSE [name |-> row.name, col |-> Text(row.col)]

(* What may be entered: the rig select lists the rigs the cache knows.      *)
RigForm == [name |-> Names, col |-> RigStatuses]
WellForm ==
  LET e == cache[RigOptions]
  IN  [name |-> Names,
       col |-> {""} \cup {String(i) : i \in {j \in RigIds : HasData(e) /\ e.data.got[j] # NULL}}]

toInput(values) ==
  [name |-> values.name,
   col |-> IF values.col = "" THEN NULL ELSE CHOOSE i \in RigIds : String(i) = values.col]

RigFormError(status) == IF status = 409 THEN "name" ELSE "other"

\* mutant: a well that is gone is taken for a rig that is.
WellFormError_NotFound(status) ==
  CASE status = 409 -> "name" [] status \in {404, 422} -> "rig" [] OTHER -> "other"
WellFormError(status) ==
  CASE status = 409 -> "name" [] status = 422 -> "rig" [] OTHER -> "other"

(* rigSchema, wellSchema: the spud date is any string. *)
Valid(values) == values.name # ""

(* What the date field may hold: no date or one that the server reads too,  *)
(* or one that only the browser takes for a date (a year of five digits).   *)
SpudDates == {"date", "unreadable"}

(* `moved` is a history: the id in the URL has changed under the form.      *)
Mounted(k, of, row) ==
  [of |-> of, row |-> row, typed |-> {}, moved |-> FALSE, spud |-> "date",
   values |-> IF k = "rig" THEN RigDefaults(row) ELSE WellDefaults(row)]

(* The form page p shows if f was there before: it mounts when it has its  *)
(* row, keeps its fields as long as it is there, and goes with its data.   *)
FormOn(p, c, f) ==
  CASE f # NULL /\ p.at = "new" -> f
    [] f = NULL /\ p.at = "new" -> Mounted(p.k, 0, NULL)
    [] p.at = "edit" /\ HasData(c[KeyOf(p)]) ->
         IF f # NULL THEN f ELSE Mounted(p.k, p.i, c[KeyOf(p)].data.got)
    [] OTHER -> NULL

(* The entries the page's components use.                                   *)
Active(p, f) ==
  (IF HasEntry(p) THEN {KeyOf(p)} ELSE {}) \cup
  (IF f # NULL /\ p.k = "well" THEN {RigOptions} ELSE {})

SameComponent(p, q) == p.at = q.at /\ p.k = q.k

(* Render p with cache c, keeping form f if it is still the same component. *)
Show(p, c, f) ==
  LET g == FormOn(p, c, f)
      before == IF PlaceOf(p) = PlaceOf(page) THEN Active(page, form) ELSE {}
      mounting == Active(p, g) \ before
  IN  /\ page' = p
      /\ form' = g
      /\ cache' = [x \in Keys |-> IF x \in mounting THEN Observed(c[x]) ELSE c[x]]

Visit(place) ==
  /\ place \in Links \cup History
  /\ place # PlaceOf(page) /\ Counted("visits")
  /\ LET p == RequirePermission(NewPage(place))
     IN  IF SameComponent(p, page)
         THEN Show([page EXCEPT !.i = p.i, !.q = p.q], cache,
                   IF form = NULL THEN NULL ELSE [form EXCEPT !.moved = TRUE])
         ELSE Show(p, cache, NULL)
  /\ UNCHANGED <<server, calls, told>>

-----------------------------------------------------------------------------
(* useRigsQuery, useRigQuery, useWellsQuery, useWellQuery.                  *)

useRigsQuery(q) ==
  [i \in RigIds |-> IF Exists("rig", i) /\ q \in {"", NULL, db["rig"][i].name}
                    THEN db["rig"][i] ELSE NULL]
\* mutant: the URL is built without the filters.
useWellsQuery_NoFilter(q) == db["well"]
useWellsQuery(q) ==
  [i \in WellIds |-> IF Exists("well", i) /\ q \in {"", db["well"][i].name}
                     THEN db["well"][i] ELSE NULL]

useRigQuery(i) == db["rig"][i]
useWellQuery(i) == db["well"][i]

Serve(x) ==
  [got |-> CASE x[1] = "rig" /\ x[2] = 0 -> useRigsQuery(x[3])
             [] x[1] = "rig" /\ x[2] # 0 -> useRigQuery(x[2])
             [] x[1] = "well" /\ x[2] = 0 -> useWellsQuery(x[3])
             [] x[1] = "well" /\ x[2] # 0 -> useWellQuery(x[2]),
   asOf |-> writes[x[1]]]

ServeGet(x) ==
  /\ cache[x].fetch = Asked
  /\ cache' = [cache EXCEPT ![x].fetch = Answered(Serve(x))]
  /\ UNCHANGED <<server, page, form, calls, told, count>>

(* A 404 is an error like any other.                                        *)
ReceiveGet(x) ==
  /\ cache[x].fetch.state = "answered"
  /\ LET e == IF cache[x].fetch.answer.got = NULL THEN Failed(cache[x]) ELSE Received(cache[x])
     IN  Show(page, [cache EXCEPT ![x] = e], form)
  /\ UNCHANGED <<server, calls, told, count>>

FailGet(x) ==
  /\ IsFetching(cache[x]) /\ Counted("events")
  /\ cache' = [cache EXCEPT ![x] = Failed(@)]
  /\ UNCHANGED <<server, page, form, calls, told>>

(* A stale entry is fetched again on focus or reconnect. *)
Refetch(x) ==
  /\ x \in Active(page, form)
  /\ ~ IsFetching(cache[x]) /\ Counted("events")
  /\ cache' = [cache EXCEPT ![x] = Ask(@)]
  /\ UNCHANGED <<server, page, form, calls, told>>

-----------------------------------------------------------------------------
(* What the operator does on a page.                                        *)

Pending == \E c \in calls : c.n = page.call

(* Fields may be edited while a save is pending: only the button waits.     *)
Type(f) ==
  /\ form # NULL /\ count.saves < MaxSaves /\ f \notin form.typed
  /\ \E v \in (IF page.k = "rig" THEN RigForm ELSE WellForm)[f] \ {form.values[f]} :
       form' = [form EXCEPT !.values[f] = v, !.typed = @ \cup {f}]
  /\ UNCHANGED <<server, cache, page, calls, told, count>>

TypeSpudDate ==
  /\ form # NULL /\ page.k = "well" /\ count.saves < MaxSaves
  /\ \E v \in SpudDates \ {form.spud} : form' = [form EXCEPT !.spud = v]
  /\ UNCHANGED <<server, cache, page, calls, told, count>>

(* useMutation's mutate.  The request is for the row in the URL.            *)
Mutate(op, row) ==
  /\ ~ Pending /\ Counted("saves")
  /\ calls' = calls \cup {[n |-> count.saves + 1, op |-> op, k |-> page.k, i |-> page.i, row |-> row,
                           form |-> form, answer |-> NULL, asOf |-> 0]}
  /\ page' = [page EXCEPT !.call = count.saves + 1, !.error = NULL]
  /\ UNCHANGED <<server, cache, form, told>>

Submitted(at, k) == page.at = at /\ page.k = k /\ form # NULL /\ Valid(form.values)

(* Ids do not run out in the bounded table.                                 *)
IdLeft(k) == next[k] + Cardinality({c \in calls : c.op = "create"}) \in IdsOf(k)

RigCreatePage == Submitted("new", "rig") /\ IdLeft("rig") /\ Mutate("create", form.values)
RigEditPage == Submitted("edit", "rig") /\ Mutate("update", form.values)
WellCreatePage == Submitted("new", "well") /\ IdLeft("well") /\ Mutate("create", toInput(form.values))
WellEditPage == Submitted("edit", "well") /\ Mutate("update", toInput(form.values))

(* Delete, Cancel, Confirm delete.                                          *)
DeleteButtons ==
  \/ /\ page' = [page EXCEPT !.confirming = ~ @]
     /\ UNCHANGED <<server, cache, form, calls, told, count>>
  \/ page.confirming /\ Mutate("delete", NULL)

DeleteRig ==
  /\ page.at = "detail" /\ page.k = "rig" /\ HasData(Shown)
  /\ usePermission("rig:delete") /\ DeleteButtons

DeleteWell ==
  /\ page.at = "detail" /\ page.k = "well" /\ HasData(Shown)
  /\ usePermission("well:delete") /\ DeleteButtons

-----------------------------------------------------------------------------
(* The server's side.                                                       *)

require_permission(c) ==
  CASE c.k = "rig" /\ c.op = "delete" -> "rig:delete"
    [] c.k = "rig" /\ c.op # "delete" -> "rig:edit"
    [] c.k = "well" /\ c.op = "delete" -> "well:delete"
    [] c.k = "well" /\ c.op # "delete" -> "well:edit"

Taken(k, i, name) == \E j \in IdsOf(k) \ {i} : db[k][j] # NULL /\ db[k][j].name = name

(* WellCreate, WellUpdate: the body is read before the endpoint runs.       *)
Unreadable(c) == c.op # "delete" /\ c.k = "well" /\ c.form.spud = "unreadable"

StatusOf(c) ==
  CASE require_permission(c) \notin ROLE_PERMISSIONS(role) -> 403
    [] Unreadable(c) -> 422
    [] c.op # "create" /\ ~ Exists(c.k, c.i) -> 404
    [] c.op # "delete" /\ Taken(c.k, c.i, c.row.name) -> 409
    [] c.op # "delete" /\ c.k = "well" /\ c.row.col # NULL /\ ~ Exists("rig", c.row.col) -> 422
    [] OTHER -> 200

(* db.delete(rig) clears its wells' rig_id.                                 *)
Without(k, i) ==
  IF k = "well" THEN [db EXCEPT !["well"][i] = NULL]
  ELSE [db EXCEPT !["rig"][i] = NULL,
                  !["well"] = [w \in WellIds |->
                     IF Exists("well", w) /\ @[w].col = i THEN [@[w] EXCEPT !.col = NULL] ELSE @[w]]]

Applied(c) ==
  CASE c.op = "create" -> [db EXCEPT ![c.k][next[c.k]] = c.row]
    [] c.op = "update" -> [db EXCEPT ![c.k][c.i] = c.row]
    [] OTHER -> Without(c.k, c.i)

Replace(c, d) == calls' = (calls \ {c}) \cup {d}

ServeCall(c) ==
  /\ c.answer = NULL
  /\ IF StatusOf(c) # 200
     THEN Replace(c, [c EXCEPT !.answer = StatusOf(c)]) /\ UNCHANGED <<db, next, writes>>
     ELSE /\ db' = Applied(c)
          /\ next' = IF c.op = "create" THEN [next EXCEPT ![c.k] = @ + 1] ELSE next
          /\ writes' = [writes EXCEPT ![c.k] = @ + 1]
          /\ Replace(c, [c EXCEPT !.answer = 200, !.asOf = writes'[c.k],
                                  !.i = IF c.op = "create" THEN next[c.k] ELSE @])
  /\ UNCHANGED <<role, cache, page, form, told, count>>

(* The request or its answer is lost, or the server fails: 0 is no answer.  *)
LoseCall(c) ==
  /\ c.answer # 0 /\ Counted("events")
  /\ Replace(c, [c EXCEPT !.answer = 0])
  /\ UNCHANGED <<server, cache, page, form, told>>

OtherWrite ==
  /\ Counted("events")
  /\ \E k \in Kinds : \E i \in {j \in IdsOf(k) : Exists(k, j)} :
       \/ \E name \in Names : /\ ~ Taken(k, i, name)
                              /\ db' = [db EXCEPT ![k][i].name = name]
       \/ db' = Without(k, i)
  /\ UNCHANGED <<next, writes, role, cache, page, form, calls, told>>

-----------------------------------------------------------------------------
(* The mutations' callbacks.  The hooks' onSuccess invalidates the entries *)
(* of the kind and runs in any case; what mutate was given runs only while *)
(* the component that called it is still there, and navigates.             *)

Destination(c) == IF c.op = "delete" THEN List(c.k, "") ELSE Detail(c.k, c.i)

\* mutant: only the lists are invalidated.
InvalidateKind_Lists(k) ==
  [x \in Keys |-> IF x[1] = k /\ x[2] = 0
                  THEN Invalidated(cache[x], x \in Active(page, form)) ELSE cache[x]]
InvalidateKind(k) ==
  [x \in Keys |-> IF x[1] = k THEN Invalidated(cache[x], x \in Active(page, form)) ELSE cache[x]]

\* mutant: the hook's onSuccess navigates, whatever is on screen.
Succeeds_Navigates(c) ==
  /\ c.answer = 200
  /\ calls' = calls \ {c}
  /\ told' = [told EXCEPT ![c.k] = IF c.asOf > @ THEN c.asOf ELSE @]
  /\ Show(NewPage(Destination(c)), InvalidateKind(c.k), NULL)
  /\ UNCHANGED <<server, count>>

Succeeds(c) ==
  /\ c.answer = 200
  /\ calls' = calls \ {c}
  /\ told' = [told EXCEPT ![c.k] = IF c.asOf > @ THEN c.asOf ELSE @]
  /\ IF c.n = page.call THEN Show(NewPage(Destination(c)), InvalidateKind(c.k), NULL)
     ELSE Show(page, InvalidateKind(c.k), form)
  /\ UNCHANGED <<server, count>>

useRigMutation(c) == c.k = "rig" /\ Succeeds(c)
useWellMutation(c) == c.k = "well" /\ Succeeds(c)

MutationFails(c) ==
  /\ c.answer \notin {NULL, 200}
  /\ calls' = calls \ {c}
  /\ page' = IF c.n # page.call THEN page
             ELSE [page EXCEPT !.error = [status |-> c.answer, row |-> c.row, form |-> c.form]]
  /\ UNCHANGED <<server, cache, form, told, count>>

-----------------------------------------------------------------------------

Init ==
  /\ db = FirstRows
  /\ next = [k \in Kinds |-> Cardinality({i \in IdsOf(k) : FirstRows[k][i] # NULL}) + 1]
  /\ writes = [k \in Kinds |-> 0]
  /\ told = writes
  /\ calls = {}
  /\ count = [b \in DOMAIN Bounds |-> 0]
  /\ role \in Roles
  /\ \E place \in FirstPlaces : page = RequirePermission(NewPage(place))
  /\ form = FormOn(page, [x \in Keys |-> EmptyEntry], NULL)
  /\ cache = [x \in Keys |-> IF x \in Active(page, form) THEN Ask(EmptyEntry) ELSE EmptyEntry]

Operator ==
  \/ \E place \in Links \cup History : Visit(place)
  \/ \E f \in {"name", "col"} : Type(f)
  \/ TypeSpudDate
  \/ RigCreatePage \/ RigEditPage \/ DeleteRig
  \/ WellCreatePage \/ WellEditPage \/ DeleteWell

Network ==
  \/ \E x \in Keys : ServeGet(x) \/ ReceiveGet(x)
  \/ \E c \in calls : ServeCall(c) \/ useRigMutation(c) \/ useWellMutation(c) \/ MutationFails(c)

Next ==
  \/ Operator
  \/ Network
  \/ \E x \in Keys : FailGet(x) \/ Refetch(x)
  \/ \E c \in calls : LoseCall(c)
  \/ OtherWrite

Spec == Init /\ [][Next]_vars

-----------------------------------------------------------------------------

TypeOK ==
  /\ \A k \in Kinds : /\ DOMAIN db[k] = IdsOf(k)
                      /\ next[k] \in Nat /\ writes[k] \in Nat /\ told[k] \in 0..writes[k]
                      /\ \A i \in IdsOf(k) : Exists(k, i) => db[k][i].name \in Names /\ i < next[k]
  /\ role \in Roles
  /\ DOMAIN cache = Keys
  /\ \A x \in Keys : cache[x].fetch.state \in {"idle", "asked", "answered"}
  /\ page.at \in {"list", "new", "detail", "edit", "forbidden"}
  /\ HasEntry(page) => KeyOf(page) \in Keys
  /\ form # NULL => /\ page.at \in {"new", "edit"}
                    /\ form.typed \subseteq {"name", "col"} /\ form.spud \in SpudDates
  /\ \A c \in calls : c.op \in {"create", "update", "delete"}
                     /\ c.answer \in {NULL, 0, 200, 403, 404, 409, 422}

(* After a write of this tab was answered, an entry of its kind at rest     *)
(* shows it, unless the fetch it came from was under way and not restarted  *)
(* when the answer came.  One that is marked instead is not on screen, or   *)
(* fetching it failed.                                                      *)
ReadsItsWrites ==
  \A x \in Keys : HasData(cache[x]) /\ ~ IsFetching(cache[x]) =>
    \/ cache[x].data.asOf >= told[x[1]]
    \/ cache[x].overtaken
    \/ cache[x].invalid /\ (x \in Active(page, form) => cache[x].failed)

(* What a page shows is what its URL names: a list the rows its search      *)
(* matches, an edit page the form of its row, unless the operator went      *)
(* straight there from the edit page of another row, by Back or Forward.    *)
ShowsWhatItsUrlNames ==
  /\ page.at = "list" /\ page.q # "" => \A i \in Rows : Shown.data.got[i].name = page.q
  /\ page.at = "edit" /\ form # NULL => form.of = page.i \/ form.moved

(* The same without the exception, as a reader of an edit page's title takes *)
(* it to be; refuted.                                                        *)
FormIsOfItsPage == page.at = "edit" /\ form # NULL => form.of = page.i

(* A page is never blank: it shows its data, that it loads, or an error.    *)
NeverBlank == HasEntry(page) => HasData(Shown) \/ IsLoading(Shown) \/ IsError(Shown)

(* A save changes no field that was not typed in, if the row is still as    *)
(* the form found it.                                                       *)
OnlyTypedFieldsChange ==
  [][\A c \in calls \ calls' :
       /\ c.op = "update" /\ db' # db
       /\ c.form.of = c.i /\ c.form.row = db[c.k][c.i]
       => \A f \in {"name", "col"} \ c.form.typed :
            db'[c.k][c.i][f] = db[c.k][c.i][f]]_vars

(* An answer takes the operator away only from the page that asked.         *)
OnlyItsPageNavigates ==
  [][calls' \subseteq calls /\ calls' # calls /\ PlaceOf(page)' # PlaceOf(page) =>
       \E c \in calls \ calls' : c.n = page.call]_vars

(* Of a well that is saved, "That rig no longer exists" is said only when   *)
(* it does not, or when what was sent held a date the server cannot read;   *)
(* and what the pages offer is never refused for want of a permission.      *)
RefusalsAreTrue ==
  page.error # NULL =>
    /\ page.k = "well" /\ page.at # "detail" /\ WellFormError(page.error.status) = "rig"
         => \/ ~ Exists("rig", page.error.row.col)
            \/ page.error.form.spud = "unreadable"
    /\ page.error.status # 403

(* WellForm.tsx:10-12 and :70-71: a 422 is an "invalid rig_id", shown as     *)
(* "That rig no longer exists."; refuted by a date.                          *)
RigIsBlamedRightly ==
  page.error # NULL /\ page.k = "well" /\ page.at # "detail"
    => (WellFormError(page.error.status) = "rig" => ~ Exists("rig", page.error.row.col))
=============================================================================
