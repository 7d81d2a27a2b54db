-------------------------- MODULE FleetPages_proofs --------------------------
(***************************************************************************)
(* Proofs about FleetPages: its types; an entry at rest shows the writes   *)
(* this tab knows of, and a page is never blank; a page shows what its URL *)
(* names; what a refusal says is true; a save changes no field that was    *)
(* not typed in; an answer navigates only the page that asked.             *)
(***************************************************************************)
EXTENDS FleetPages, QueryCache_proofs, FiniteSetTheorems

-----------------------------------------------------------------------------
(* Types.                                                                   *)

Fields == {"name", "col"}
Answers == {NULL, 0, 200, 404, 409, 422}
Ats == {"list", "new", "detail", "edit", "forbidden"}

(* The rigs that exist or did once: their ids are not given out again.      *)
Known == {i \in RigIds : i < next["rig"]}
Gone(i) == i \in Known /\ db["rig"][i] = NULL

(* What a 422 says of what was sent: the rig is gone, or the date is not    *)
(* one the server reads.                                                    *)
RigOrDate(row, f) == Gone(row.col) \/ f.spud = "unreadable"

RowsOf(k) == [name : Names, col : IF k = "rig" THEN RigStatuses ELSE Known \cup {NULL}]
Rigs == [RigIds -> RigRows \cup {NULL}]
Wells == [WellIds -> WellRows \cup {NULL}]

IsTable(k, t) ==
  /\ DOMAIN t = IdsOf(k)
  /\ \A i \in IdsOf(k) : t[i] # NULL => t[i] \in RowsOf(k) /\ i < next[k]

ServerTypes ==
  /\ DOMAIN db = Kinds /\ \A k \in Kinds : IsTable(k, db[k])
  /\ next \in [Kinds -> Nat \ {0}] /\ writes \in [Kinds -> Nat] /\ role \in Roles
  /\ told \in [Kinds -> Nat] /\ \A k \in Kinds : told[k] <= writes[k]

CacheTypes == DOMAIN cache = Keys /\ \A x \in Keys : IsEntry(cache[x])

(* What a response says of its key: a row; or the rows with the name that   *)
(* was searched for.                                                        *)
RowFacts(k, row) == row = NULL \/ row \in RowsOf(k)

ListFacts(k, q, t) ==
  /\ t = [i \in IdsOf(k) |-> t[i]] /\ IsTable(k, t)
  /\ \A i \in IdsOf(k) : t[i] # NULL => q \in {"", NULL, t[i].name}

ResponseFacts(x, d) ==
  /\ d \in [got : {d.got}, asOf : Nat]
  /\ IF x[2] = 0 THEN ListFacts(x[1], x[3], d.got) ELSE RowFacts(x[1], d.got)

DataInv == \A x \in Keys : \A d \in Holds(cache[x]) : ResponseFacts(x, d)

(* The requests under way: what the pages may send, and the answers.        *)
IsCall(c) ==
  c \in [n : {c.n}, op : {"create", "update", "delete"}, k : Kinds, i : Nat, row : {c.row},
         form : {c.form}, answer : Answers, asOf : Nat]

SentFacts(c) ==
  /\ c.op # "create" => c.i \in IdsOf(c.k)
  /\ c.op # "delete" => c.row \in RowsOf(c.k)
  /\ require_permission(c) \in ROLE_PERMISSIONS(role)
  /\ c.op = "update" /\ c.form.row # NULL =>
       \A f \in Fields \ c.form.typed : c.row[f] = c.form.row[f]

AnswerFacts(c) ==
  /\ c.answer = 200 => c.i \in IdsOf(c.k) /\ c.asOf <= writes[c.k]
  /\ c.answer = 422 => RigOrDate(c.row, c.form)

CallsInv ==
  IsFiniteSet(calls) /\ \A c \in calls : IsCall(c) /\ SentFacts(c) /\ AnswerFacts(c)

(* A form is submitted only if an id is left for each row on its way.       *)
Creates(k) == {c \in calls : c.op = "create" /\ c.k = k /\ c.answer = NULL}
IdsAreLeft == \A k \in Kinds : next[k] + Cardinality(Creates(k)) <= Cardinality(IdsOf(k)) + 1

(* The page and its form.                                                   *)
ErrorFacts(e) == e.status \in Answers /\ (e.status = 422 => RigOrDate(e.row, e.form))

IsPage(p) ==
  /\ p \in [at : Ats, k : Kinds, i : Nat, q : Searches, confirming : BOOLEAN, call : {p.call},
            error : {p.error}]
  /\ p.at # "forbidden" => PlaceOf(p) \in Places
  /\ p.at \in {"new", "edit"} => usePermission(EditOf(p.k))
  /\ p.error # NULL => ErrorFacts(p.error)

Options(k) == IF k = "rig" THEN RigStatuses ELSE {""} \cup {String(i) : i \in Known}
Defaults(k, row) == IF k = "rig" THEN RigDefaults(row) ELSE WellDefaults(row)

(* What is not typed in is what the form was mounted with.                  *)
IsForm(k, f) ==
  /\ f \in [of : Nat, row : RowsOf(k) \cup {NULL}, typed : SUBSET Fields, moved : BOOLEAN,
            spud : SpudDates, values : [name : Names \cup {""}, col : Options(k)]]
  /\ \A x \in Fields \ f.typed : f.values[x] = Defaults(k, f.row)[x]

(* A form that is on page p, or may stay there.                             *)
Fits(p, f) ==
  f # NULL => IsForm(p.k, f) /\ (p.at = "edit" => f.of = p.i \/ f.moved)

FormInv == Fits(page, form) /\ (form # NULL => page.at \in {"new", "edit"})

IInv == /\ ServerTypes /\ CacheTypes /\ DataInv /\ CallsInv /\ IdsAreLeft
        /\ IsPage(page) /\ FormInv
-----------------------------------------------------------------------------
(* The cache.  Every step does to an entry one of the things of QueryCache, *)
(* and what it shows next may have it fetched once more.                    *)

Arrived(e, f) ==
  IsEntry(f) /\ e.fetch.state = "answered" /\ f.data = e.fetch.answer /\ f.fetch \in {Idle, Asked}

CacheStep(x) ==
  \/ Kept(cache[x], cache'[x])
  \/ Arrived(cache[x], cache'[x])
  \/ Brought(cache[x], cache'[x], Serve(x)) /\ UNCHANGED server

CacheSteps == DOMAIN cache' = Keys /\ \A x \in Keys : CacheStep(x)

LEMMA ShowCache ==
  ASSUME NEW p, NEW c, NEW f, \A x \in Keys : IsEntry(c[x]), Show(p, c, f)
  PROVE  DOMAIN cache' = Keys /\ \A x \in Keys : cache'[x] = c[x] \/ Kept(c[x], cache'[x])
BY OperationsKeep DEF Show

LEMMA InvalidatesKeep ==
  ASSUME CacheTypes, NEW k
  PROVE  \A x \in Keys : Kept(cache[x], InvalidateKind(k)[x])
<1> TAKE x \in Keys
<1>1. (x \in Active(page, form)) \in BOOLEAN /\ IsEntry(cache[x])
  BY DEF CacheTypes
<1>2. Kept(cache[x], Invalidated(cache[x], x \in Active(page, form))) /\ Kept(cache[x], cache[x])
  BY <1>1, OperationsKeep
<1> QED
  BY <1>2 DEF InvalidateKind

LEMMA StaysCached ==
  ASSUME CacheTypes, UNCHANGED cache
  PROVE  CacheSteps
BY OperationsKeep DEF CacheTypes, CacheSteps, CacheStep

LEMMA VisitCache ==
  ASSUME CacheTypes, NEW place, Visit(place)
  PROVE  CacheSteps
<1>1. PICK p, f : Show(p, cache, f)
  BY DEF Visit
<1> QED
  BY <1>1, ShowCache, OperationsKeep DEF CacheTypes, CacheSteps, CacheStep

LEMMA ReceiveCache ==
  ASSUME CacheTypes, NEW x \in Keys, ReceiveGet(x)
  PROVE  CacheSteps
<1>1. PICK e \in {Failed(cache[x]), Received(cache[x])} : Show(page, [cache EXCEPT ![x] = e], form)
  BY DEF ReceiveGet
<1> DEFINE c == [cache EXCEPT ![x] = e]
<1>2. Kept(cache[x], e) \/ Took(cache[x], e)
  BY <1>1, OperationsKeep, ReceivedTakes DEF CacheTypes, ReceiveGet
<1>3. c[x] = e /\ \A y \in Keys \ {x} : c[y] = cache[y]
  BY DEF CacheTypes
<1>4. \A y \in Keys : IsEntry(c[y])
  BY <1>2, <1>3 DEF CacheTypes, Kept, Took
<1> HIDE DEF c
<1>5. DOMAIN cache' = Keys /\ \A y \in Keys : cache'[y] = c[y] \/ Kept(c[y], cache'[y])
  BY <1>1, <1>4, ShowCache DEF c
<1>6. \A y \in Keys \ {x} : Kept(cache[y], cache'[y])
  BY <1>3, <1>5, OperationsKeep DEF CacheTypes
<1>7. Kept(cache[x], cache'[x]) \/ Arrived(cache[x], cache'[x])
  BY <1>2, <1>3, <1>5 DEF Kept, Took, Arrived, Idle, Asked
<1> QED
  BY <1>5, <1>6, <1>7 DEF CacheSteps, CacheStep
LEMMA ServeGetCache ==
  ASSUME CacheTypes, NEW x \in Keys, ServeGet(x)
  PROVE  CacheSteps
<1>1. cache' = [cache EXCEPT ![x].fetch = Answered(Serve(x))] /\ UNCHANGED server
  BY DEF ServeGet
<1>2. cache'[x] = [cache[x] EXCEPT !.fetch = Answered(Serve(x))]
  BY <1>1 DEF CacheTypes
<1>3. Brought(cache[x], cache'[x], Serve(x))
  BY <1>2, AnswerBrings DEF CacheTypes
<1> QED
  BY <1>1, <1>3, OperationsKeep DEF CacheTypes, CacheSteps, CacheStep

LEMMA AskOrFailCache ==
  ASSUME CacheTypes, NEW x \in Keys, FailGet(x) \/ Refetch(x)
  PROVE  CacheSteps
BY OperationsKeep DEF CacheTypes, CacheSteps, CacheStep, FailGet, Refetch

LEMMA SucceedsCache ==
  ASSUME CacheTypes, NEW c \in calls, Succeeds(c)
  PROVE  CacheSteps
<1>1. PICK p, f : Show(p, InvalidateKind(c.k), f)
  BY DEF Succeeds
<1>2. \A x \in Keys : Kept(cache[x], InvalidateKind(c.k)[x])
  BY InvalidatesKeep
<1>3. DOMAIN cache' = Keys /\ \A x \in Keys : \/ cache'[x] = InvalidateKind(c.k)[x]
                                            \/ Kept(InvalidateKind(c.k)[x], cache'[x])
  BY <1>1, <1>2, ShowCache DEF Kept
<1> QED
  BY <1>2, <1>3 DEF CacheSteps, CacheStep, Kept

(* The other steps touch no entry.                                          *)
LEMMA OthersKeepCache ==
  /\ (\A f \in Fields : Type(f) => UNCHANGED cache) /\ (TypeSpudDate => UNCHANGED cache)
  /\ RigCreatePage \/ RigEditPage \/ WellCreatePage \/ WellEditPage => UNCHANGED cache
  /\ DeleteRig \/ DeleteWell \/ OtherWrite => UNCHANGED cache
  /\ \A c \in calls : ServeCall(c) \/ MutationFails(c) \/ LoseCall(c) => UNCHANGED cache
BY DEF Type, TypeSpudDate, RigCreatePage, RigEditPage, WellCreatePage, WellEditPage, Mutate,
       DeleteRig, DeleteWell, DeleteButtons, OtherWrite, ServeCall, MutationFails, LoseCall

LEMMA StepCache ==
  ASSUME CacheTypes, [Next]_vars
  PROVE  CacheSteps
<1>1. ASSUME NEW place, Visit(place) PROVE CacheSteps
  BY <1>1, VisitCache
<1>2. ASSUME NEW x \in Keys, ServeGet(x) \/ ReceiveGet(x) \/ FailGet(x) \/ Refetch(x)
      PROVE  CacheSteps
  BY <1>2, ServeGetCache, ReceiveCache, AskOrFailCache
<1>3. ASSUME NEW c \in calls, useRigMutation(c) \/ useWellMutation(c) PROVE CacheSteps
  BY <1>3, SucceedsCache DEF useRigMutation, useWellMutation
<1>4. ASSUME UNCHANGED cache PROVE CacheSteps
  BY <1>4, StaysCached
<1>5. CASE UNCHANGED vars
  BY <1>4, <1>5 DEF vars
<1> QED
  BY <1>1, <1>2, <1>3, <1>4, <1>5, OthersKeepCache DEF Next, Operator, Network, Fields

LEMMA HoldsStep ==
  ASSUME CacheSteps, NEW x \in Keys
  PROVE  \/ Holds(cache'[x]) \subseteq Holds(cache[x])
         \/ Holds(cache'[x]) \subseteq Holds(cache[x]) \cup {Serve(x)} /\ UNCHANGED server
<1>1. CASE Arrived(cache[x], cache'[x])
  BY <1>1 DEF Arrived, Holds, HasData, Idle, Asked
<1> QED
  BY <1>1, HoldsOnlyResponses DEF CacheSteps, CacheStep

LEMMA CacheTypesStep ==
  ASSUME CacheTypes, [Next]_vars
  PROVE  CacheTypes'
BY StepCache DEF CacheTypes, CacheSteps, CacheStep, Kept, Arrived, Brought

-----------------------------------------------------------------------------
(* The server's tables.  A step leaves a row, deletes it, or writes one     *)
(* that exists or has the next id.                                          *)

LEMMA IdsArePositive ==
  ASSUME NEW k \in Kinds
  PROVE  /\ IdsOf(k) \subseteq Nat \ {0} /\ IsFiniteSet(IdsOf(k))
         /\ IdsOf(k) = 1..Cardinality(IdsOf(k))
<1>1. IsFiniteSet(IdsOf(k)) /\ IdsOf(k) = 1..Cardinality(IdsOf(k))
  BY FleetPagesAssumption DEF IdsOf
<1>2. Cardinality(IdsOf(k)) \in Nat
  BY <1>1, FS_CardinalityType
<1> QED
  BY <1>1, <1>2

LEMMA RigIdsArePositive ==
  "rig" \in Kinds /\ "well" \in Kinds /\ \A i \in RigIds : i \in Nat /\ i # 0
BY IdsArePositive DEF IdsOf, Kinds

RowStep(k, i) ==
  \/ db'[k][i] = NULL \/ db'[k][i] = db[k][i]
  \/ /\ db'[k][i] \in RowsOf(k) /\ i < next'[k]
     /\ db[k][i] # NULL \/ i = next[k]

ServerStep ==
  /\ role' = role
  /\ next' \in [Kinds -> Nat \ {0}] /\ \A k \in Kinds : next[k] <= next'[k]
  /\ writes' \in [Kinds -> Nat] /\ \A k \in Kinds : writes[k] <= writes'[k]
  /\ DOMAIN db' = Kinds
  /\ \A k \in Kinds : DOMAIN db'[k] = IdsOf(k) /\ \A i \in IdsOf(k) : RowStep(k, i)

(* Ids once given out stay so, and a rig that is gone does not come back.   *)
Grows ==
  /\ role' = role
  /\ \A k \in Kinds : next[k] <= next'[k] /\ writes[k] <= writes'[k]
  /\ \A k \in Kinds : next'[k] \in Nat /\ writes'[k] \in Nat
  /\ Known \subseteq Known' /\ \A i : Gone(i) => Gone(i)'
  /\ \A k : RowsOf(k) \subseteq RowsOf(k)'

LEMMA TablesGrow ==
  ASSUME ServerTypes, ServerStep
  PROVE  Grows /\ DOMAIN db' = Kinds /\ \A k \in Kinds : IsTable(k, db[k])'
<1>0. next["rig"] \in Nat /\ next'["rig"] \in Nat /\ next["rig"] <= next'["rig"]
  BY RigIdsArePositive DEF ServerTypes, ServerStep
<1>1. Known \subseteq Known'
  <2> SUFFICES ASSUME NEW i \in RigIds, i < next["rig"] PROVE i < next'["rig"]
    BY DEF Known
  <2> QED
    BY <1>0, RigIdsArePositive
<1>2. ASSUME NEW i, Gone(i) PROVE Gone(i)'
  <2>1. i \in RigIds /\ i \in IdsOf("rig") /\ "rig" \in Kinds /\ i # next["rig"]
    BY <1>2, RigIdsArePositive DEF Gone, Known, IdsOf, ServerTypes
  <2>2. RowStep("rig", i)
    BY <2>1 DEF ServerStep
  <2> QED
    BY <1>1, <1>2, <2>1, <2>2 DEF RowStep, Gone
<1>3. \A k : RowsOf(k) \subseteq RowsOf(k)'
  BY <1>1 DEF RowsOf
<1>4. ASSUME NEW k \in Kinds, NEW i \in IdsOf(k), db'[k][i] # NULL
      PROVE  db'[k][i] \in RowsOf(k) /\ i < next'[k]
  <2>1. RowStep(k, i) /\ next[k] <= next'[k] /\ next[k] \in Nat /\ next'[k] \in Nat /\ i \in Nat
    BY <1>4, IdsArePositive DEF ServerStep, ServerTypes
  <2>2. db[k][i] # NULL => db[k][i] \in RowsOf(k) /\ i < next[k]
    BY DEF ServerTypes, IsTable
  <2> QED
    BY <1>4, <2>1, <2>2 DEF RowStep
<1> QED
  BY <1>1, <1>2, <1>3, <1>4 DEF ServerStep, Grows, IsTable

Tables(t) == DOMAIN t = Kinds /\ \A k \in Kinds : DOMAIN t[k] = IdsOf(k)

LEMMA RowRenamed ==
  ASSUME NEW k, NEW r \in RowsOf(k), NEW name \in Names
  PROVE  [r EXCEPT !.name = name] \in RowsOf(k)
BY DEF RowsOf

LEMMA RowCleared ==
  ASSUME NEW r \in RowsOf("well")
  PROVE  [r EXCEPT !.col = NULL] \in RowsOf("well")
BY DEF RowsOf

(* What deleting row i does to the tables, by this tab or by others.        *)
LEMMA DeletedRows ==
  ASSUME ServerTypes, NEW k \in Kinds, NEW i \in IdsOf(k), db' = Without(k, i),
         \A l \in Kinds : next[l] <= next'[l] /\ next'[l] \in Nat
  PROVE  Tables(db') /\ \A l \in Kinds : \A j \in IdsOf(l) : RowStep(l, j)
<1>1. Tables(db)
  BY DEF ServerTypes, IsTable, Tables
<1>2. CASE k = "well"
  <2>1. db' = [db EXCEPT ![k][i] = NULL]
    BY <1>2 DEF Without
  <2>2. /\ Tables(db') /\ db'[k][i] = NULL
        /\ \A l \in Kinds : \A j \in IdsOf(l) : l # k \/ j # i => db'[l][j] = db[l][j]
    BY <1>1, <2>1 DEF Tables
  <2> QED
    BY <2>2 DEF RowStep
<1>3. CASE k = "rig"
  <2> DEFINE W == [w \in WellIds |-> IF Exists("well", w) /\ db["well"][w].col = i
                                     THEN [db["well"][w] EXCEPT !.col = NULL] ELSE db["well"][w]]
  <2>1. db' = [db EXCEPT !["rig"][i] = NULL, !["well"] = W]
    BY <1>1, <1>3 DEF Without, Tables, Kinds
  <2>2. /\ Tables(db') /\ db'["rig"][i] = NULL /\ db'["well"] = W
        /\ \A j \in RigIds \ {i} : db'["rig"][j] = db["rig"][j]
    BY <1>1, <1>3, <2>1 DEF Tables, Kinds, IdsOf
  <2>3. ASSUME NEW w \in WellIds PROVE RowStep("well", w)
    <3>1. W[w] = IF Exists("well", w) /\ db["well"][w].col = i
                 THEN [db["well"][w] EXCEPT !.col = NULL] ELSE db["well"][w]
      OBVIOUS
    <3> HIDE DEF W
    <3>2. /\ db["well"][w] # NULL => db["well"][w] \in RowsOf("well") /\ w < next["well"]
          /\ next["well"] <= next'["well"] /\ next["well"] \in Nat /\ next'["well"] \in Nat /\ w \in Nat
      BY IdsArePositive DEF ServerTypes, IsTable, Kinds, IdsOf
    <3>3. CASE Exists("well", w) /\ db["well"][w].col = i
      <4>1. db["well"][w] # NULL
        BY <3>3 DEF Exists
      <4> QED
        BY <2>2, <3>1, <3>2, <3>3, <4>1, RowCleared DEF RowStep
    <3>4. CASE ~ (Exists("well", w) /\ db["well"][w].col = i)
      BY <2>2, <3>1, <3>4 DEF RowStep
    <3> QED
      BY <3>3, <3>4
  <2>4. \A j \in RigIds : RowStep("rig", j)
    BY <2>2 DEF RowStep
  <2> QED
    BY <2>2, <2>3, <2>4 DEF Kinds, IdsOf
<1> QED
  BY <1>2, <1>3 DEF Kinds

(* What a request finds when it is evaluated.                               *)
LEMMA StatusFacts ==
  ASSUME NEW c, IsCall(c), SentFacts(c)
  PROVE  /\ StatusOf(c) \in {200, 404, 409, 422}
         /\ StatusOf(c) = 422 =>
              \/ c.form.spud = "unreadable"
              \/ /\ c.op # "delete" /\ c.k = "well" /\ c.row.col # NULL
                 /\ ~ Exists("rig", c.row.col)
         /\ StatusOf(c) = 200 /\ c.op # "create" => Exists(c.k, c.i)
BY DEF StatusOf, Unreadable, SentFacts

LEMMA RequestIsDelete ==
  ASSUME NEW c, IsCall(c), c.op # "create", c.op # "update"
  PROVE  c.op = "delete"
BY DEF IsCall

LEMMA NoRowsWritten ==
  ASSUME ServerTypes, UNCHANGED server
  PROVE  ServerStep
<1>1. UNCHANGED <<db, next, writes, role>>
  BY DEF server
<1> QED
  BY <1>1 DEF ServerTypes, IsTable, ServerStep, RowStep

LEMMA ServedRows ==
  ASSUME ServerTypes, NEW c \in calls, IsCall(c), SentFacts(c), ServeCall(c),
         c.op = "create" => next[c.k] \in IdsOf(c.k)
  PROVE  ServerStep
<1>1. CASE StatusOf(c) # 200
  BY <1>1, NoRowsWritten DEF ServeCall, server
<1>2. CASE StatusOf(c) = 200
  <2>0. PICK r : r = c.row
    OBVIOUS
  <2>1. /\ db' = Applied(c) /\ role' = role
        /\ next' = IF c.op = "create" THEN [next EXCEPT ![c.k] = @ + 1] ELSE next
        /\ writes' = [writes EXCEPT ![c.k] = @ + 1]
    BY <1>2 DEF ServeCall
  <2>2. c.k \in Kinds /\ (c.op # "create" => c.i \in IdsOf(c.k) /\ db[c.k][c.i] # NULL)
    BY <1>2, StatusFacts DEF IsCall, SentFacts, Exists
  <2>3. PICK k \in Kinds : k = c.k
    BY <2>2
  <2>4. /\ next' \in [Kinds -> Nat \ {0}] /\ \A l \in Kinds : next[l] <= next'[l]
        /\ writes' \in [Kinds -> Nat] /\ \A l \in Kinds : writes[l] <= writes'[l]
    BY <2>1, <2>3 DEF ServerTypes
  <2>5. Tables(db) /\ \A l \in Kinds : IsTable(l, db[l])
    BY DEF ServerTypes, IsTable, Tables
  <2>6. CASE c.op = "create"
    <3>1. PICK i \in IdsOf(k) : i = next[k]
      BY <2>3, <2>6
    <3>2. r \in RowsOf(k)
      BY <2>3, <2>6, <2>0 DEF SentFacts
    <3>3. db' = [db EXCEPT ![k][i] = r] /\ i < next'[k]
      BY <2>1, <2>3, <2>6, <2>0, <3>1 DEF Applied, ServerTypes
    <3>4. /\ Tables(db') /\ db'[k][i] = r
          /\ \A l \in Kinds : \A j \in IdsOf(l) : l # k \/ j # i => db'[l][j] = db[l][j]
      BY <2>5, <3>3 DEF Tables
    <3> QED
      BY <2>1, <2>4, <3>1, <3>2, <3>3, <3>4 DEF ServerStep, RowStep, Tables
  <2>7. CASE c.op = "update"
    <3>1. PICK i \in IdsOf(k) : i = c.i /\ db[k][i] # NULL
      BY <2>2, <2>3, <2>7
    <3>2. r \in RowsOf(k)
      BY <2>3, <2>7, <2>0 DEF SentFacts
    <3>3. db' = [db EXCEPT ![k][i] = r]
      BY <2>1, <2>3, <2>7, <2>0, <3>1 DEF Applied
    <3>4. i < next'[k]
      BY <2>4, <2>5, <3>1, IdsArePositive DEF IsTable, ServerTypes
    <3>5. /\ Tables(db') /\ db'[k][i] = r
          /\ \A l \in Kinds : \A j \in IdsOf(l) : l # k \/ j # i => db'[l][j] = db[l][j]
      BY <2>5, <3>3 DEF Tables
    <3> QED
      BY <2>1, <2>4, <3>1, <3>2, <3>4, <3>5 DEF ServerStep, RowStep, Tables
  <2>8. CASE c.op = "delete"
    <3>1. PICK i \in IdsOf(k) : i = c.i
      BY <2>2, <2>3, <2>8
    <3>2. db' = Without(k, i)
      BY <2>1, <2>3, <2>8, <3>1 DEF Applied
    <3>3. Tables(db') /\ \A l \in Kinds : \A j \in IdsOf(l) : RowStep(l, j)
      BY <2>4, <3>2, DeletedRows
    <3> QED
      BY <2>1, <2>4, <3>3 DEF ServerStep, Tables
  <2> QED
    BY <2>6, <2>7, <2>8, RequestIsDelete
<1> QED
  BY <1>1, <1>2

LEMMA OthersWriteRows ==
  ASSUME ServerTypes, OtherWrite
  PROVE  ServerStep
<1>1. /\ UNCHANGED <<next, writes, role>>
      /\ \E k \in Kinds : \E i \in {j \in IdsOf(k) : Exists(k, j)} :
           \/ \E name \in Names : db' = [db EXCEPT ![k][i].name = name]
           \/ db' = Without(k, i)
  BY DEF OtherWrite
<1>2. PICK k \in Kinds, i \in RigIds \cup WellIds :
         /\ i \in IdsOf(k) /\ db[k][i] # NULL
         /\ \/ \E name \in Names : db' = [db EXCEPT ![k][i].name = name]
            \/ db' = Without(k, i)
  BY <1>1 DEF Exists, IdsOf
<1>3. /\ next \in [Kinds -> Nat \ {0}] /\ writes \in [Kinds -> Nat]
      /\ \A l \in Kinds : /\ next[l] <= next'[l] /\ next'[l] \in Nat
                          /\ writes[l] <= writes'[l] /\ IsTable(l, db[l])
  BY <1>1 DEF ServerTypes
<1>4. Tables(db) /\ db[k][i] \in RowsOf(k) /\ i < next'[k]
  BY <1>1, <1>2, <1>3 DEF ServerTypes, IsTable, Tables
<1>5. ASSUME NEW name \in Names, db' = [db EXCEPT ![k][i].name = name] PROVE ServerStep
  <2>1. PICK r \in RowsOf(k), q \in RowsOf(k) : r = db[k][i] /\ q = [r EXCEPT !.name = name]
    BY <1>4, RowRenamed
  <2>2. db' = [db EXCEPT ![k][i] = q]
    BY <1>5, <2>1
  <2>3. /\ Tables(db') /\ db'[k][i] = q
        /\ \A l \in Kinds : \A j \in IdsOf(l) : l # k \/ j # i => db'[l][j] = db[l][j]
    BY <1>2, <1>4, <2>2 DEF Tables
  <2> QED
    BY <1>1, <1>2, <1>3, <1>4, <2>1, <2>3 DEF ServerStep, RowStep, Tables
<1>6. CASE db' = Without(k, i)
  <2>1. Tables(db') /\ \A l \in Kinds : \A j \in IdsOf(l) : RowStep(l, j)
    BY <1>2, <1>3, <1>6, DeletedRows
  <2> QED
    BY <1>1, <1>3, <2>1 DEF ServerStep, Tables
<1> QED
  BY <1>2, <1>5, <1>6

-----------------------------------------------------------------------------
(* Requests: what the pages send.                                           *)

LEMMA NullIsNoNumber == NULL \notin Nat /\ NULL \notin RigIds
BY FleetPagesAssumption, RigIdsArePositive

LEMMA PlaceFacts ==
  ASSUME NEW p, p \in Places
  PROVE  /\ p = Place(p.at, p.k, p.i, p.q)
         /\ p.at \in {"list", "new", "detail", "edit"} /\ p.k \in Kinds /\ p.i \in Nat
         /\ p.q \in Searches /\ (p.at # "list" => p.q = "") /\ (p.at = "list" => p.i = 0)
         /\ p.at \in {"detail", "edit"} => p.i \in IdsOf(p.k)
<1>0. "" \in Searches /\ 0 \in Nat /\ \A k \in Kinds : IdsOf(k) \subseteq Nat
  BY FleetPagesAssumption, IdsArePositive
<1>1. ASSUME NEW k \in Kinds, NEW q \in Searches, p = Place("list", k, 0, q)
      PROVE  p = Place(p.at, p.k, p.i, p.q) /\ p.at = "list" /\ p.k = k /\ p.i = 0 /\ p.q = q
  BY <1>1 DEF Place
<1>2. ASSUME NEW k \in Kinds, p = Place("new", k, 0, "")
      PROVE  p = Place(p.at, p.k, p.i, p.q) /\ p.at = "new" /\ p.k = k /\ p.i = 0 /\ p.q = ""
  BY <1>2 DEF Place
<1>3. ASSUME NEW at \in {"detail", "edit"}, NEW k \in Kinds, NEW i \in IdsOf(k),
             p = Place(at, k, i, "")
      PROVE  p = Place(p.at, p.k, p.i, p.q) /\ p.at = at /\ p.k = k /\ p.i = i /\ p.q = ""
  BY <1>3 DEF Place
<1>4. \/ \E k \in Kinds : \E q \in Searches : p = Place("list", k, 0, q)
      \/ \E k \in Kinds : p = Place("new", k, 0, "")
      \/ \E at \in {"detail", "edit"} : \E k \in Kinds : \E i \in IdsOf(k) : p = Place(at, k, i, "")
  <2>1. \/ \E k \in Kinds : \E q \in Searches : p = List(k, q)
        \/ \E k \in Kinds : p = New(k)
        \/ \E k \in Kinds : \E i \in IdsOf(k) : p = Detail(k, i) \/ p = Edit(k, i)
    BY DEF Places
  <2> QED
    BY <2>1, Zenon DEF List, New, Detail, Edit
<1>5. CASE \E k \in Kinds : \E q \in Searches : p = Place("list", k, 0, q)
  <2>1. PICK k \in Kinds, q \in Searches : p = Place("list", k, 0, q)
    BY <1>5
  <2>2. p = Place(p.at, p.k, p.i, p.q) /\ p.at = "list" /\ p.k = k /\ p.i = 0 /\ p.q = q
    BY <1>1, <2>1
  <2> QED
    BY <2>2
<1>6. CASE \E k \in Kinds : p = Place("new", k, 0, "")
  <2>1. PICK k \in Kinds : p = Place("new", k, 0, "")
    BY <1>6
  <2>2. p = Place(p.at, p.k, p.i, p.q) /\ p.at = "new" /\ p.k = k /\ p.i = 0 /\ p.q = ""
    BY <1>2, <2>1
  <2> QED
    BY <1>0, <2>2, Zenon
<1>7. CASE \E at \in {"detail", "edit"} : \E k \in Kinds : \E i \in IdsOf(k) : p = Place(at, k, i, "")
  BY <1>0, <1>3, <1>7
<1> QED
  BY <1>4, <1>5, <1>6, <1>7

LEMMA RowTyped ==
  ASSUME NEW name \in Names, NEW i \in Known
  PROVE  /\ [name |-> name, col |-> i] \in RowsOf("well")
         /\ [name |-> name, col |-> i].name = name
BY DEF RowsOf

LEMMA OptionsNameRigs ==
  ASSUME NEW values \in [name : Names \cup {""}, col : Options("well")], values.name # ""
  PROVE  toInput(values) \in RowsOf("well") /\ toInput(values).name = values.name
<1>1. CASE values.col = ""
  BY <1>1 DEF toInput, RowsOf
<1>2. CASE values.col # ""
  <2>1. PICK i \in Known : values.col = String(i)
    BY <1>2 DEF Options
  <2>2. \A j \in RigIds : String(j) = values.col => j = i
    BY <2>1, DataAssumption DEF Known
  <2>3. (CHOOSE j \in RigIds : String(j) = values.col) = i
    BY <2>1, <2>2 DEF Known
  <2>4. toInput(values) = [name |-> values.name, col |-> i] /\ values.name \in Names
    BY <1>2, <2>3 DEF toInput
  <2>5. PICK name \in Names : name = values.name
    BY <2>4
  <2>6. toInput(values) = [name |-> name, col |-> i]
    BY <2>4, <2>5
  <2>7. /\ [name |-> name, col |-> i] \in RowsOf("well")
        /\ [name |-> name, col |-> i].name = name
    BY <2>1, RowTyped
  <2> QED
    BY <2>5, <2>6, <2>7, Zenon
<1> QED
  BY <1>1, <1>2

(* What the form was filled in with is converted back.                      *)
LEMMA RowsAreConvertedBack ==
  ASSUME NEW row \in RowsOf("well"), row # NULL, NEW values, values.col = WellDefaults(row).col
  PROVE  toInput(values).col = row.col
<1>1. values.col = Text(row.col)
  BY DEF WellDefaults
<1>2. CASE row.col = NULL
  BY <1>1, <1>2 DEF Text, toInput
<1>3. CASE row.col # NULL
  <2>1. PICK i \in RigIds : row.col = i
    BY <1>3 DEF RowsOf, Known
  <2>2. values.col = String(i) /\ values.col # ""
    BY <1>1, <1>3, <2>1, DataAssumption DEF Text
  <2>3. \A j \in RigIds : String(j) = values.col => j = i
    BY <2>2, DataAssumption
  <2>4. (CHOOSE j \in RigIds : String(j) = values.col) = i
    BY <2>2, <2>3
  <2> QED
    BY <2>1, <2>2, <2>4 DEF toInput
<1> QED
  BY <1>2, <1>3

(* What a form sends for it: a row, and of the row it was mounted with all  *)
(* that was not typed over.                                                 *)
Input(k, values) == IF k = "rig" THEN values ELSE toInput(values)

LEMMA FormsSendRows ==
  ASSUME NEW k \in Kinds, NEW f, IsForm(k, f), Valid(f.values)
  PROVE  /\ Input(k, f.values) \in RowsOf(k)
         /\ f.row # NULL => \A x \in Fields \ f.typed : Input(k, f.values)[x] = f.row[x]
<1>0. /\ f.values \in [name : Names \cup {""}, col : Options(k)] /\ f.values.name # ""
      /\ f.row # NULL => f.row \in RowsOf(k)
      /\ \A x \in Fields \ f.typed : f.values[x] = Defaults(k, f.row)[x]
  BY DEF IsForm, Valid
<1>1. CASE k = "rig"
  BY <1>0, <1>1 DEF Options, RowsOf, Input, Defaults, RigDefaults
<1>2. CASE k = "well"
  <2>1. toInput(f.values) \in RowsOf(k) /\ toInput(f.values).name = f.values.name
    BY <1>0, <1>2, OptionsNameRigs
  <2>2. ASSUME f.row # NULL, "name" \notin f.typed PROVE toInput(f.values).name = f.row.name
    BY <1>0, <1>2, <2>1, <2>2 DEF Defaults, WellDefaults, Fields
  <2>3. ASSUME f.row # NULL, "col" \notin f.typed PROVE toInput(f.values).col = f.row.col
    <3>1. f.values.col = WellDefaults(f.row).col /\ f.row \in RowsOf("well")
      BY <1>0, <1>2, <2>3 DEF Defaults, Fields
    <3> QED
      BY <2>3, <3>1, RowsAreConvertedBack
  <2> QED
    BY <1>2, <2>1, <2>2, <2>3 DEF Input, Fields
<1> QED
  BY <1>1, <1>2 DEF Kinds

(* A request as it is sent, and what becomes of it.                         *)
Asks(c) ==
  IsCall(c) /\ SentFacts(c) /\ c.answer = NULL /\ (c.op = "create" => IdLeft(c.k))

SameRequest(c, d) ==
  /\ d.n = c.n /\ d.op = c.op /\ d.k = c.k /\ d.row = c.row /\ d.form = c.form
  /\ c.op # "create" => d.i = c.i

Replied(c, d) ==
  /\ IsCall(d) /\ SameRequest(c, d) /\ d.answer # NULL
  /\ d.answer = 200 => d.i \in IdsOf(c.k) /\ d.asOf <= writes'[c.k]
  /\ d.answer = 422 => RigOrDate(c.row, c.form)

(* A step sends one request, has one answered or lost, or ends one; an id   *)
(* is given out only to a request to create a row that is answered with it. *)
CallsStep ==
  \/ calls' \subseteq calls /\ UNCHANGED server
  \/ /\ UNCHANGED calls
     /\ next' = next
  \/ \E d : Asks(d) /\ calls' = calls \cup {d} /\ UNCHANGED server
  \/ \E c \in calls : \E d :
       /\ Replied(c, d) /\ calls' = (calls \ {c}) \cup {d}
       /\ \/ next' = next
          \/ c \in Creates(c.k) /\ next' = [next EXCEPT ![c.k] = @ + 1]

(* The fields that the handlers write, and those they leave.                *)
AnsweredAs(c, a) == [c EXCEPT !.answer = a]
ServedAs(c, t, i) == [c EXCEPT !.answer = 200, !.asOf = t, !.i = i]

LEMMA AnsweredFields ==
  ASSUME NEW c, IsCall(c), NEW a \in Answers, NEW d, d = AnsweredAs(c, a)
  PROVE  IsCall(d) /\ SameRequest(c, d) /\ d.answer = a
BY DEF IsCall, SameRequest, AnsweredAs

LEMMA ServedFields ==
  ASSUME NEW c, IsCall(c), NEW t \in Nat, NEW i \in Nat, c.op # "create" => i = c.i,
         NEW d, d = ServedAs(c, t, i)
  PROVE  IsCall(d) /\ SameRequest(c, d) /\ d.answer = 200 /\ d.asOf = t /\ d.i = i
<1>1. /\ d.n = c.n /\ d.op = c.op /\ d.k = c.k /\ d.row = c.row /\ d.form = c.form
      /\ d.answer = 200 /\ d.asOf = t /\ d.i = i
  BY DEF IsCall, ServedAs
<1>2. 200 \in Answers
  BY DEF Answers
<1>3. d \in [n : {d.n}, op : {"create", "update", "delete"}, k : Kinds, i : Nat, row : {d.row},
            form : {d.form}, answer : Answers, asOf : Nat]
  BY <1>1, <1>2 DEF IsCall, ServedAs
<1> QED
  BY <1>1, <1>2, <1>3 DEF SameRequest, IsCall

LEMMA NextIsAnId ==
  ASSUME ServerTypes, CallsInv, IdsAreLeft, NEW c \in calls, c.op = "create", c.answer = NULL
  PROVE  next[c.k] \in IdsOf(c.k)
<1>1. c.k \in Kinds
  BY DEF CallsInv, IsCall
<1>2. PICK k \in Kinds, S \in SUBSET calls : k = c.k /\ S = Creates(k)
  BY <1>1 DEF Creates
<1>3. c \in S /\ IsFiniteSet(S)
  BY <1>2, FS_Subset DEF Creates, CallsInv
<1>4. Cardinality(S) \in Nat /\ Cardinality(S) # 0
  BY <1>3, FS_CardinalityType, FS_EmptySet
<1>5. next[k] + Cardinality(S) <= Cardinality(IdsOf(k)) + 1 /\ next[k] \in Nat /\ next[k] # 0
  BY <1>2 DEF IdsAreLeft, ServerTypes
<1>6. IdsOf(k) = 1..Cardinality(IdsOf(k)) /\ Cardinality(IdsOf(k)) \in Nat
  BY IdsArePositive, FS_CardinalityType
<1> QED
  BY <1>2, <1>4, <1>5, <1>6

LEMMA ServeReplies ==
  ASSUME ServerTypes, CallsInv, IdsAreLeft, NEW c \in calls, ServeCall(c)
  PROVE  ServerStep /\ CallsStep
<1>0. IsCall(c) /\ SentFacts(c) /\ c.answer = NULL /\ c.k \in Kinds
  BY DEF CallsInv, ServeCall, IsCall
<1>1. c.op = "create" => next[c.k] \in IdsOf(c.k)
  BY <1>0, NextIsAnId
<1>2. ServerStep
  BY <1>0, <1>1, ServedRows
<1>3. CASE StatusOf(c) # 200
  <2>1. PICK a \in Answers : a = StatusOf(c)
    BY <1>0, StatusFacts DEF Answers
  <2>2. PICK d : d = AnsweredAs(c, a)
    OBVIOUS
  <2>3. /\ calls' = (calls \ {c}) \cup {d} /\ next' = next
        /\ a \in {404, 409, 422}
    BY <1>0, <1>3, <2>1, <2>2, StatusFacts DEF ServeCall, Replace, AnsweredAs
  <2>4. IsCall(d) /\ SameRequest(c, d) /\ d.answer = a
    BY <1>0, <2>2, AnsweredFields
  <2>5. a = 422 => RigOrDate(c.row, c.form)
    <3>1. SUFFICES ASSUME a = 422, c.form.spud # "unreadable" PROVE Gone(c.row.col)
      BY DEF RigOrDate
    <3>2. StatusOf(c) = 422
      BY <2>1, <3>1
    <3>3. c.op # "delete" /\ c.k = "well" /\ c.row.col # NULL /\ ~ Exists("rig", c.row.col)
      BY <1>0, <3>1, <3>2, StatusFacts
    <3>4. c.row.col \in Known
      BY <1>0, <3>3 DEF SentFacts, RowsOf
    <3> QED
      BY <3>3, <3>4 DEF Exists, Gone, Known, IdsOf
  <2>6. Replied(c, d)
    BY <2>3, <2>4, <2>5, NullIsNoNumber DEF Replied
  <2> QED
    BY <1>2, <2>3, <2>6 DEF CallsStep
<1>4. CASE StatusOf(c) = 200
  <2>1. PICK i \in Nat, t \in Nat :
           /\ i = (IF c.op = "create" THEN next[c.k] ELSE c.i) /\ t = writes'[c.k]
           /\ i \in IdsOf(c.k)
    BY <1>0, <1>1, <1>2, IdsArePositive DEF SentFacts, ServerStep
  <2>2. PICK d : d = ServedAs(c, t, i)
    OBVIOUS
  <2>3. /\ calls' = (calls \ {c}) \cup {d}
        /\ next' = IF c.op = "create" THEN [next EXCEPT ![c.k] = @ + 1] ELSE next
    BY <1>4, <2>1, <2>2 DEF ServeCall, Replace, ServedAs
  <2>4. IsCall(d) /\ SameRequest(c, d) /\ d.answer = 200 /\ d.asOf = t /\ d.i = i
    BY <1>0, <2>1, <2>2, ServedFields
  <2>5. Replied(c, d)
    BY <2>1, <2>4, NullIsNoNumber DEF Replied
  <2>6. c.op = "create" => c \in Creates(c.k)
    BY <1>0 DEF Creates
  <2> QED
    BY <1>2, <2>3, <2>5, <2>6 DEF CallsStep
<1> QED
  BY <1>3, <1>4

LEMMA LoseReplies ==
  ASSUME CallsInv, NEW c \in calls, LoseCall(c)
  PROVE  CallsStep
<1>1. IsCall(c) /\ 0 \in Answers
  BY DEF CallsInv, Answers
<1>2. PICK d : d = AnsweredAs(c, 0)
  OBVIOUS
<1>3. IsCall(d) /\ SameRequest(c, d) /\ d.answer = 0
  BY <1>1, <1>2, AnsweredFields
<1>4. calls' = (calls \ {c}) \cup {d} /\ next' = next
  BY <1>2 DEF LoseCall, Replace, AnsweredAs, server
<1>5. Replied(c, d)
  BY <1>3, NullIsNoNumber DEF Replied
<1> QED
  BY <1>4, <1>5 DEF CallsStep

Asking(n, op, k, i, row, f) ==
  [n |-> n, op |-> op, k |-> k, i |-> i, row |-> row, form |-> f, answer |-> NULL, asOf |-> 0]

LEMMA AskingFields ==
  ASSUME NEW n, NEW op \in {"create", "update", "delete"}, NEW k \in Kinds, NEW i \in Nat,
         NEW row, NEW f, NEW d, d = Asking(n, op, k, i, row, f)
  PROVE  /\ IsCall(d) /\ d.op = op /\ d.k = k /\ d.i = i /\ d.row = row /\ d.form = f
         /\ d.answer = NULL
         /\ require_permission(d) = IF op = "delete"
                                    THEN IF k = "rig" THEN "rig:delete" ELSE "well:delete"
                                    ELSE EditOf(k)
BY DEF IsCall, Asking, Answers, require_permission, EditOf, Kinds

(* What the operator's mutations send is what the server accepts of a page  *)
(* with these controls.                                                     *)
LEMMA MutateAsks ==
  ASSUME IsPage(page), NEW op \in {"create", "update", "delete"}, NEW row, Mutate(op, row),
         op # "create" => page.i \in IdsOf(page.k),
         op # "delete" => row \in RowsOf(page.k) /\ usePermission(EditOf(page.k)),
         op = "delete" => usePermission(IF page.k = "rig" THEN "rig:delete" ELSE "well:delete"),
         op = "update" /\ form.row # NULL =>
           \A x \in Fields \ form.typed : row[x] = form.row[x],
         op = "create" => IdLeft(page.k)
  PROVE  \E d : Asks(d) /\ calls' = calls \cup {d} /\ UNCHANGED server
<1>0. PICK n, f : n = count.saves + 1 /\ f = form
  OBVIOUS
<1>1. PICK k \in Kinds, i \in Nat : k = page.k /\ i = page.i
  BY DEF IsPage
<1>2. PICK d : d = Asking(n, op, k, i, row, f)
  OBVIOUS
<1>3. calls' = calls \cup {d} /\ UNCHANGED server
  BY <1>0, <1>1, <1>2 DEF Mutate, Asking
<1>4. /\ IsCall(d) /\ d.op = op /\ d.k = k /\ d.i = i /\ d.row = row /\ d.form = f
      /\ d.answer = NULL
      /\ require_permission(d) = IF op = "delete"
                                 THEN IF k = "rig" THEN "rig:delete" ELSE "well:delete"
                                 ELSE EditOf(k)
  BY <1>2, AskingFields
<1>5. SentFacts(d)
  BY <1>0, <1>1, <1>4 DEF SentFacts, usePermission
<1> QED
  BY <1>1, <1>3, <1>4, <1>5 DEF Asks

LEMMA SubmitsAsk ==
  ASSUME IsPage(page), FormInv, RigCreatePage \/ RigEditPage \/ WellCreatePage \/ WellEditPage
  PROVE  \E d : Asks(d) /\ calls' = calls \cup {d} /\ UNCHANGED server
<1>1. PICK k \in Kinds, op \in {"create", "update"}, at \in {"new", "edit"} :
         /\ Submitted(at, k) /\ Mutate(op, Input(k, form.values))
         /\ op = "create" => at = "new" /\ IdLeft(k)
         /\ op = "update" => at = "edit"
  BY DEF RigCreatePage, RigEditPage, WellCreatePage, WellEditPage, Input, Kinds
<1>2. page.at = at /\ page.k = k /\ form # NULL /\ IsForm(k, form) /\ Valid(form.values)
  BY <1>1 DEF Submitted, FormInv, Fits
<1>3. PICK f, row : f = form /\ row = Input(k, f.values)
  OBVIOUS
<1>4. /\ row \in RowsOf(k)
      /\ f.row # NULL => \A x \in Fields \ f.typed : row[x] = f.row[x]
  BY <1>2, <1>3, FormsSendRows
<1>5. Mutate(op, row) /\ usePermission(EditOf(page.k))
  BY <1>1, <1>2, <1>3 DEF IsPage
<1>6. at = "edit" => page.i \in IdsOf(page.k)
  <2>1. PICK p : p = PlaceOf(page)
    OBVIOUS
  <2>2. p.at = page.at /\ p.i = page.i /\ p.k = page.k
    BY <2>1 DEF PlaceOf, Place
  <2>3. at = "edit" => p \in Places
    BY <1>2, <2>1 DEF IsPage
  <2> QED
    BY <1>2, <2>2, <2>3, PlaceFacts
<1>7. op # "delete"
  OBVIOUS
<1> QED
  BY <1>1, <1>2, <1>3, <1>4, <1>5, <1>6, <1>7, MutateAsks

LEMMA DetailsOfRows ==
  ASSUME IsPage(page), page.at = "detail"
  PROVE  page.i \in IdsOf(page.k)
<1>1. PICK p : p = PlaceOf(page)
  OBVIOUS
<1>2. p.at = page.at /\ p.i = page.i /\ p.k = page.k /\ p \in Places
  BY <1>1 DEF PlaceOf, Place, IsPage
<1> QED
  BY <1>2, PlaceFacts

LEMMA DeletesAsk ==
  ASSUME IsPage(page), DeleteRig \/ DeleteWell
  PROVE  CallsStep /\ UNCHANGED server
<1>1. /\ page.at = "detail" /\ DeleteButtons
      /\ usePermission(IF page.k = "rig" THEN "rig:delete" ELSE "well:delete")
  BY DEF DeleteRig, DeleteWell
<1>2. CASE UNCHANGED <<calls, server>>
  BY <1>2 DEF CallsStep
<1>3. CASE Mutate("delete", NULL)
  BY <1>1, <1>3, DetailsOfRows, MutateAsks DEF CallsStep
<1> QED
  BY <1>1, <1>2, <1>3 DEF DeleteButtons

StepInv == ServerTypes /\ CacheTypes /\ CallsInv /\ IdsAreLeft /\ IsPage(page) /\ FormInv

LEMMA StepServer ==
  ASSUME StepInv, [Next]_vars
  PROVE  ServerStep /\ CallsStep
<1> USE DEF StepInv
<1>1. ASSUME UNCHANGED <<server, calls>> PROVE ServerStep /\ CallsStep
  BY <1>1, NoRowsWritten DEF CallsStep
<1>2. ASSUME NEW place, Visit(place) PROVE ServerStep /\ CallsStep
  BY <1>1, <1>2 DEF Visit
<1>3. ASSUME (\E f : Type(f)) \/ TypeSpudDate PROVE ServerStep /\ CallsStep
  BY <1>1, <1>3 DEF Type, TypeSpudDate
<1>4. ASSUME RigCreatePage \/ RigEditPage \/ WellCreatePage \/ WellEditPage
      PROVE  ServerStep /\ CallsStep
  BY <1>4, SubmitsAsk, NoRowsWritten DEF CallsStep
<1>5. CASE DeleteRig \/ DeleteWell
  BY <1>5, DeletesAsk, NoRowsWritten
<1>6. ASSUME NEW x, ServeGet(x) \/ ReceiveGet(x) \/ FailGet(x) \/ Refetch(x)
      PROVE  ServerStep /\ CallsStep
  BY <1>1, <1>6 DEF ServeGet, ReceiveGet, FailGet, Refetch
<1>7. ASSUME NEW c \in calls, ServeCall(c) PROVE ServerStep /\ CallsStep
  BY <1>7, ServeReplies
<1>8. ASSUME NEW c \in calls, LoseCall(c) PROVE ServerStep /\ CallsStep
  BY <1>8, LoseReplies, NoRowsWritten DEF LoseCall
<1>9. ASSUME NEW c \in calls, useRigMutation(c) \/ useWellMutation(c) \/ MutationFails(c)
      PROVE  ServerStep /\ CallsStep
  <2>1. calls' \subseteq calls /\ UNCHANGED server
    BY <1>9 DEF useRigMutation, useWellMutation, Succeeds, MutationFails
  <2> QED
    BY <2>1, NoRowsWritten DEF CallsStep
<1>10. CASE OtherWrite
  BY <1>10, OthersWriteRows DEF OtherWrite, CallsStep
<1>11. CASE UNCHANGED vars
  BY <1>1, <1>11 DEF vars
<1> QED
  BY <1>2, <1>3, <1>4, <1>5, <1>6, <1>7, <1>8, <1>9, <1>10, <1>11 DEF Next, Operator, Network

(* What a request says of the server stays true.                            *)
LEMMA CallsInvStep ==
  ASSUME ServerTypes, CallsInv, Grows, CallsStep
  PROVE  CallsInv'
<1> DEFINE Ok(c) == IsCall(c) /\ SentFacts(c)' /\ AnswerFacts(c)'
<1>1. ASSUME NEW c, IsCall(c), SentFacts(c) PROVE SentFacts(c)'
  BY <1>1 DEF SentFacts, Grows
<1>2. ASSUME NEW c \in calls PROVE Ok(c)
  <2>1. c.k \in Kinds /\ c.asOf \in Nat /\ IsCall(c) /\ SentFacts(c) /\ AnswerFacts(c)
    BY DEF CallsInv, IsCall
  <2>2. PICK k \in Kinds, m, n \in Nat : k = c.k /\ m = writes[k] /\ n = writes'[k] /\ m <= n
    BY <2>1 DEF Grows, ServerTypes
  <2>3. c.answer = 200 => c.asOf <= n
    BY <2>1, <2>2 DEF AnswerFacts
  <2>4. AnswerFacts(c)'
    BY <2>1, <2>2, <2>3 DEF AnswerFacts, RigOrDate, Grows
  <2> QED
    BY <1>1, <2>1, <2>4
<1>3. ASSUME NEW c \in calls, NEW d, Replied(c, d) PROVE Ok(d)
  <2>1. SentFacts(c) /\ SentFacts(c)' /\ IsCall(c)
    BY <1>1 DEF CallsInv
  <2>2. IsCall(d) /\ SameRequest(c, d)
    BY <1>3 DEF Replied
  <2>3. SentFacts(d)'
    BY <2>1, <2>2 DEF SentFacts, SameRequest, require_permission
  <2>4. AnswerFacts(d)'
    BY <1>3, <2>2 DEF Replied, AnswerFacts, RigOrDate, SameRequest, Grows
  <2> QED
    BY <2>2, <2>3, <2>4
<1>4. ASSUME NEW d, Asks(d) PROVE Ok(d)
  BY <1>1, <1>4, NullIsNoNumber DEF Asks, AnswerFacts
<1>5. IsFiniteSet(calls')
  <2>1. IsFiniteSet(calls) /\ \A c : IsFiniteSet({c})
    BY FS_Singleton DEF CallsInv
  <2>2. \A c, d : IsFiniteSet(calls \cup {d}) /\ IsFiniteSet((calls \ {c}) \cup {d})
    BY <2>1, FS_Difference, FS_Union
  <2> QED
    BY <2>1, <2>2, FS_Subset DEF CallsStep
<1>6. \A c \in calls' : Ok(c)
  <2> HIDE DEF Ok
  <2> QED
    BY <1>2, <1>3, <1>4 DEF CallsStep
<1> QED
  BY <1>5, <1>6 DEF CallsInv

(* The requests that will be given an id.                                   *)
LEMMA IdsAreLeftStep ==
  ASSUME ServerTypes, CallsInv, IdsAreLeft, CallsStep
  PROVE  IdsAreLeft'
<1> SUFFICES ASSUME NEW k \in Kinds
             PROVE  next'[k] + Cardinality(Creates(k)') <= Cardinality(IdsOf(k)) + 1
  BY DEF IdsAreLeft
<1>0. PICK T : T = Creates(k)'
  OBVIOUS
<1>1. PICK S \in SUBSET calls, n \in Nat : S = Creates(k) /\ T = Creates(k)' /\ n = next[k]
  BY <1>0 DEF Creates, ServerTypes
<1>2. /\ IsFiniteSet(calls) /\ IsFiniteSet(S) /\ Cardinality(S) \in Nat
      /\ n + Cardinality(S) <= Cardinality(IdsOf(k)) + 1 /\ Cardinality(IdsOf(k)) \in Nat
  BY <1>1, FS_Subset, FS_CardinalityType, IdsArePositive DEF CallsInv, IdsAreLeft
<1>3. ASSUME T \subseteq S, next'[k] = n
      PROVE  next'[k] + Cardinality(T) <= Cardinality(IdsOf(k)) + 1
  <2>1. Cardinality(T) \in Nat /\ Cardinality(T) <= Cardinality(S)
    BY <1>2, <1>3, FS_Subset, FS_CardinalityType
  <2> QED
    BY <1>2, <1>3, <2>1
<1>4. CASE calls' \subseteq calls /\ UNCHANGED server
  BY <1>1, <1>3, <1>4 DEF Creates, server
<1>5. CASE UNCHANGED calls /\ next' = next
  BY <1>1, <1>3, <1>5 DEF Creates
<1>6. ASSUME NEW d, Asks(d), calls' = calls \cup {d}, UNCHANGED server
      PROVE  next'[k] + Cardinality(T) <= Cardinality(IdsOf(k)) + 1
  <2>0. next'[k] = n
    BY <1>1, <1>6 DEF server
  <2>1. CASE d.op # "create" \/ d.k # k
    BY <1>1, <1>3, <1>6, <2>0, <2>1 DEF Creates
  <2>2. CASE d.op = "create" /\ d.k = k
    <3>1. PICK U \in SUBSET calls : U = {c \in calls : c.op = "create"}
      OBVIOUS
    <3>2. n + Cardinality(U) \in 1..Cardinality(IdsOf(k))
      BY <1>1, <1>6, <2>2, <3>1, IdsArePositive DEF Asks, IdLeft
    <3>3. S \subseteq U /\ T \subseteq U \cup {d} /\ IsFiniteSet(U)
      BY <1>1, <1>2, <1>6, <3>1, FS_Subset DEF Creates
    <3>4. /\ IsFiniteSet(U \cup {d}) /\ Cardinality(U) \in Nat
          /\ Cardinality(U \cup {d}) <= Cardinality(U) + 1 /\ Cardinality(U \cup {d}) \in Nat
      BY <3>3, FS_AddElement, FS_CardinalityType
    <3>5. Cardinality(T) <= Cardinality(U \cup {d}) /\ Cardinality(T) \in Nat
      BY <3>3, <3>4, FS_Subset, FS_CardinalityType
    <3> QED
      BY <1>2, <2>0, <3>2, <3>4, <3>5
  <2> QED
    BY <2>1, <2>2
<1>7. ASSUME NEW c \in calls, NEW d, Replied(c, d), calls' = (calls \ {c}) \cup {d},
             \/ next' = next
             \/ c \in Creates(c.k) /\ next' = [next EXCEPT ![c.k] = @ + 1]
      PROVE  next'[k] + Cardinality(T) <= Cardinality(IdsOf(k)) + 1
  <2>1. T \subseteq S \ {c} /\ T \subseteq S
    BY <1>1, <1>7 DEF Creates, Replied
  <2>2. CASE next'[k] = n
    BY <1>3, <2>1, <2>2
  <2>3. CASE next'[k] # n
    <3>1. c \in S /\ next'[k] = n + 1
      BY <1>1, <1>7, <2>3 DEF ServerTypes, Creates
    <3>2. /\ IsFiniteSet(S \ {c}) /\ Cardinality(S \ {c}) = Cardinality(S) - 1
          /\ Cardinality(S \ {c}) \in Nat
      BY <1>2, <3>1, FS_RemoveElement, FS_CardinalityType, FS_Difference
    <3>3. Cardinality(T) <= Cardinality(S \ {c}) /\ Cardinality(T) \in Nat
      BY <2>1, <3>2, FS_Subset, FS_CardinalityType
    <3> QED
      BY <1>2, <3>1, <3>2, <3>3
  <2> QED
    BY <2>2, <2>3
<1> QED
  BY <1>1, <1>4, <1>5, <1>6, <1>7 DEF CallsStep

-----------------------------------------------------------------------------
(* The page.                                                                *)

LEMMA LinksArePlaces ==
  ASSUME IsPage(page)
  PROVE  Links \cup History \subseteq Places
<1>0. "rig" \in Kinds /\ "well" \in Kinds /\ IdsOf("rig") = RigIds /\ IdsOf("well") = WellIds
  BY DEF Kinds, IdsOf
<1>1. "" \in Searches /\ History \subseteq Places
  BY FleetPagesAssumption, PlacesAssumption
<1>2. \A k \in Kinds : \A q \in Searches : List(k, q) \in Places
  BY DEF Places
<1>3. \A k \in Kinds : New(k) \in Places
  BY DEF Places
<1>4. \A k \in Kinds : \A i \in IdsOf(k) : Detail(k, i) \in Places /\ Edit(k, i) \in Places
  BY DEF Places
<1>5. NAV_ITEMS \subseteq Places
  BY <1>1, <1>2, Zenon DEF NAV_ITEMS
<1>6. Rows \subseteq IdsOf(page.k)
  BY DEF Rows
<1>7. CASE page.at = "list" /\ page.k = "rig"
  <2>1. RigsListPage \subseteq Places
    BY <1>0, <1>2, <1>3, <1>4, <1>6, <1>7 DEF RigsListPage
  <2> QED
    BY <1>1, <1>5, <1>7, <2>1 DEF Links
<1>8. CASE page.at = "list" /\ page.k = "well"
  <2>1. WellsListPage \subseteq Places
    BY <1>0, <1>2, <1>3, <1>4, <1>6, <1>8 DEF WellsListPage
  <2> QED
    BY <1>1, <1>5, <1>8, <2>1 DEF Links
<1>9. CASE page.at = "detail" /\ page.k = "rig"
  <2>1. RigDetailPage \subseteq Places
    BY <1>0, <1>4, <1>9, DetailsOfRows DEF RigDetailPage
  <2> QED
    BY <1>1, <1>5, <1>9, <2>1 DEF Links
<1>10. CASE page.at = "detail" /\ page.k = "well"
  <2>1. WellDetailPage \subseteq Places
    BY <1>0, <1>4, <1>10, DetailsOfRows DEF WellDetailPage
  <2> QED
    BY <1>1, <1>5, <1>10, <2>1 DEF Links
<1> QED
  BY <1>1, <1>5, <1>7, <1>8, <1>9, <1>10 DEF Links

LEMMA NewPageFields ==
  ASSUME NEW p \in Places, NEW r, r = NewPage(p)
  PROVE  /\ r \in [at : Ats, k : Kinds, i : Nat, q : Searches, confirming : BOOLEAN, call : {0},
                   error : {NULL}]
         /\ PlaceOf(r) = p /\ r.at = p.at /\ r.k = p.k /\ r.i = p.i /\ r.q = p.q
<1>1. /\ p = Place(p.at, p.k, p.i, p.q) /\ p.at \in Ats
      /\ p.k \in Kinds /\ p.i \in Nat /\ p.q \in Searches
  BY PlaceFacts DEF Ats
<1>2. r.at = p.at /\ r.k = p.k /\ r.i = p.i /\ r.q = p.q
  BY DEF NewPage
<1>3. r \in [at : Ats, k : Kinds, i : Nat, q : Searches, confirming : BOOLEAN, call : {0},
            error : {NULL}]
  BY <1>1 DEF NewPage
<1> QED
  BY <1>1, <1>2, <1>3 DEF PlaceOf

(* What is right for one state of the server is for a later one.            *)
LEMMA PageStays ==
  ASSUME Grows, NEW p, IsPage(p)
  PROVE  IsPage(p)'
BY DEF Grows, IsPage, usePermission, ErrorFacts, RigOrDate

LEMMA FormStays ==
  ASSUME Grows, NEW k, NEW f, IsForm(k, f)
  PROVE  IsForm(k, f)'
<1>1. RowsOf(k) \subseteq RowsOf(k)' /\ Options(k) \subseteq Options(k)'
  BY DEF Grows, Options
<1> QED
  BY <1>1 DEF IsForm, Defaults

(* The fields of the page that the handlers write, and those they leave.    *)
Changed(p, i, q) == [p EXCEPT !.i = i, !.q = q]
Reported(p, n, e) == [p EXCEPT !.call = n, !.error = e]
Confirmed(p, b) == [p EXCEPT !.confirming = b]

LEMMA ChangedFields ==
  ASSUME NEW p, IsPage(p), NEW i \in Nat, NEW q \in Searches, NEW r, r = Changed(p, i, q)
  PROVE  /\ r \in [at : Ats, k : Kinds, i : Nat, q : Searches, confirming : BOOLEAN,
                   call : {r.call}, error : {r.error}]
         /\ r.at = p.at /\ r.k = p.k /\ r.i = i /\ r.q = q /\ r.error = p.error
BY DEF IsPage, Changed

LEMMA ReportedIsPage ==
  ASSUME NEW p, IsPage(p), NEW n, NEW e, e # NULL => ErrorFacts(e), NEW r, r = Reported(p, n, e)
  PROVE  IsPage(r) /\ PlaceOf(r) = PlaceOf(p) /\ r.at = p.at /\ r.k = p.k /\ r.i = p.i
<1>1. /\ r \in [at : Ats, k : Kinds, i : Nat, q : Searches, confirming : BOOLEAN,
                call : {r.call}, error : {r.error}]
      /\ r.at = p.at /\ r.k = p.k /\ r.i = p.i /\ r.q = p.q /\ r.error = e
  BY DEF IsPage, Reported
<1> QED
  BY <1>1 DEF IsPage, PlaceOf

LEMMA ConfirmedIsPage ==
  ASSUME NEW p, IsPage(p), NEW b \in BOOLEAN, NEW r, r = Confirmed(p, b)
  PROVE  IsPage(r) /\ PlaceOf(r) = PlaceOf(p) /\ r.at = p.at /\ r.k = p.k /\ r.i = p.i
<1>1. /\ r \in [at : Ats, k : Kinds, i : Nat, q : Searches, confirming : BOOLEAN,
                call : {r.call}, error : {r.error}]
      /\ r.at = p.at /\ r.k = p.k /\ r.i = p.i /\ r.q = p.q /\ r.error = p.error
  BY DEF IsPage, Confirmed
<1> QED
  BY <1>1 DEF IsPage, PlaceOf

LEMMA PagesOfPlaces ==
  ASSUME NEW p, p \in Places, NEW r, r = RequirePermission(NewPage(p))
  PROVE  IsPage(r) /\ r.k = p.k /\ r.i = p.i /\ r.q = p.q /\ r.at \in {p.at, "forbidden"}
<1>1. PICK n : n = NewPage(p)
  OBVIOUS
<1>2. /\ n \in [at : Ats, k : Kinds, i : Nat, q : Searches, confirming : BOOLEAN, call : {0},
                error : {NULL}]
      /\ PlaceOf(n) = p /\ n.at = p.at /\ n.k = p.k /\ n.i = p.i /\ n.q = p.q
  BY <1>1, NewPageFields
<1>3. CASE n.at \in {"new", "edit"} /\ ~ usePermission(EditOf(n.k))
  <2>1. r = [n EXCEPT !.at = "forbidden"]
    BY <1>1, <1>3 DEF RequirePermission
  <2>2. /\ r \in [at : Ats, k : Kinds, i : Nat, q : Searches, confirming : BOOLEAN, call : {0},
                  error : {NULL}]
        /\ r.at = "forbidden" /\ r.k = p.k /\ r.i = p.i /\ r.q = p.q
    BY <1>2, <2>1 DEF Ats
  <2> QED
    BY <2>2 DEF IsPage
<1>4. CASE ~ (n.at \in {"new", "edit"} /\ ~ usePermission(EditOf(n.k)))
  <2>1. r = n
    BY <1>1, <1>4 DEF RequirePermission
  <2> QED
    BY <1>2, <1>4, <2>1 DEF IsPage
<1> QED
  BY <1>3, <1>4

(* The forms a page mounts.                                                 *)
DefaultsAreValues(k, row) == Defaults(k, row) \in [name : Names \cup {""}, col : Options(k)]

LEMMA ColumnsAreOptions ==
  ASSUME NEW v \in Known \cup {NULL}
  PROVE  Text(v) \in Options("well")
BY NullIsNoNumber DEF Text, Options, Known

LEMMA DefaultsHaveTypes ==
  ASSUME NEW k \in Kinds, NEW row \in RowsOf(k) \cup {NULL}
  PROVE  DefaultsAreValues(k, row)
<1>0. "" \in Options("well") /\ "active" \in Options("rig")
  BY FleetPagesAssumption DEF Options
<1>1. CASE k = "rig"
  <2>1. CASE row = NULL
    <3>1. [name |-> "", col |-> "active"] \in [name : Names \cup {""}, col : Options("rig")]
      BY <1>0
    <3> QED
      BY <1>1, <2>1, <3>1 DEF DefaultsAreValues, Defaults, RigDefaults
  <2>2. CASE row # NULL
    BY <1>1, <2>2 DEF DefaultsAreValues, Defaults, RigDefaults, RowsOf, Options
  <2> QED
    BY <2>1, <2>2
<1>2. CASE k = "well"
  <2>1. CASE row = NULL
    <3>1. [name |-> "", col |-> ""] \in [name : Names \cup {""}, col : Options("well")]
      BY <1>0
    <3> QED
      BY <1>2, <2>1, <3>1 DEF DefaultsAreValues, Defaults, WellDefaults
  <2>2. CASE row # NULL
    <3>1. row.name \in Names /\ row.col \in Known \cup {NULL}
      BY <1>2, <2>2 DEF RowsOf
    <3>2. Text(row.col) \in Options("well")
      BY <3>1, ColumnsAreOptions
    <3>3. [name |-> row.name, col |-> Text(row.col)] \in [name : Names \cup {""}, col : Options("well")]
      BY <3>1, <3>2
    <3> QED
      BY <1>2, <2>2, <3>3 DEF DefaultsAreValues, Defaults, WellDefaults
  <2> QED
    BY <2>1, <2>2
<1> QED
  BY <1>1, <1>2 DEF Kinds

LEMMA MountedFits ==
  ASSUME NEW k \in Kinds, NEW of \in Nat, NEW row \in RowsOf(k) \cup {NULL},
         NEW f, f = Mounted(k, of, row)
  PROVE  IsForm(k, f) /\ f.of = of
<1>1. PICK v : v = Defaults(k, row)
  OBVIOUS
<1>2. f = [of |-> of, row |-> row, typed |-> {}, moved |-> FALSE, spud |-> "date",
           values |-> v]
  BY <1>1 DEF Mounted, Defaults
<1>3. PICK V : V = [name : Names \cup {""}, col : Options(k)]
  OBVIOUS
<1>4. v \in V
  BY <1>1, <1>3, DefaultsHaveTypes DEF DefaultsAreValues
<1>5. /\ f \in [of : Nat, row : RowsOf(k) \cup {NULL}, typed : SUBSET Fields, moved : BOOLEAN,
                spud : SpudDates, values : V]
      /\ f.values = v /\ f.row = row /\ f.of = of
  BY <1>2, <1>4 DEF SpudDates
<1> QED
  BY <1>1, <1>3, <1>5, Zenon DEF IsForm

(* The data pages take forms and rows from.                                 *)
DataOf(c) == \A x \in Keys : HasData(c[x]) => ResponseFacts(x, c[x].data)

LEMMA EditKeys ==
  ASSUME NEW p, IsPage(p), p.at \in {"detail", "edit"}
  PROVE  KeyOf(p) \in Keys /\ KeyOf(p) = <<p.k, p.i, p.q>> /\ p.i # 0 /\ p.i \in IdsOf(p.k)
<1>1. PICK l : l = PlaceOf(p)
  OBVIOUS
<1>2. l \in Places /\ l.at = p.at /\ l.k = p.k /\ l.i = p.i /\ l.q = p.q
  BY <1>1 DEF IsPage, PlaceOf, Place
<1>3. p.k \in Kinds /\ p.i \in IdsOf(p.k) /\ p.q = ""
  BY <1>2, PlaceFacts
<1>4. p.i # 0
  BY <1>3, IdsArePositive
<1>5. <<p.k, p.i, "">> \in Keys
  BY <1>3 DEF Keys, RigKeys, WellKeys, Kinds, IdsOf
<1> QED
  BY <1>3, <1>4, <1>5, Zenon DEF KeyOf

LEMMA EntriesHaveKeys ==
  ASSUME NEW p, IsPage(p), HasEntry(p)
  PROVE  KeyOf(p) \in Keys /\ KeyOf(p)[1] = p.k
<1>1. CASE p.at \in {"detail", "edit"}
  BY <1>1, EditKeys
<1>2. CASE p.at = "list"
  <2>1. PICK l : l = PlaceOf(p)
    OBVIOUS
  <2>2. l \in Places /\ l.at = p.at /\ l.k = p.k /\ l.i = p.i /\ l.q = p.q
    BY <1>2, <2>1 DEF IsPage, PlaceOf, Place
  <2>3. p.k \in Kinds /\ p.i = 0 /\ p.q \in Searches
    BY <1>2, <2>2, PlaceFacts
  <2>4. <<p.k, 0, p.q>> \in Keys
    BY <2>3, Zenon DEF Keys, RigKeys, WellKeys, Kinds
  <2> QED
    BY <2>3, <2>4 DEF KeyOf
<1> QED
  BY <1>1, <1>2 DEF HasEntry

LEMMA FormOnFits ==
  ASSUME NEW p, IsPage(p), NEW c, DataOf(c), NEW f, Fits(p, f), NEW g, g = FormOn(p, c, f)
  PROVE  Fits(p, g) /\ (g # NULL => p.at \in {"new", "edit"})
<1>0. p.k \in Kinds /\ p.i \in Nat
  BY DEF IsPage
<1>1. CASE f # NULL /\ p.at = "new"
  BY <1>1 DEF FormOn
<1>2. CASE f = NULL /\ p.at = "new"
  <2>1. g = Mounted(p.k, 0, NULL)
    BY <1>2 DEF FormOn
  <2>2. IsForm(p.k, g)
    BY <1>0, <2>1, MountedFits
  <2> QED
    BY <1>2, <2>2 DEF Fits
<1>3. CASE p.at = "edit" /\ HasData(c[KeyOf(p)])
  <2>1. CASE f # NULL
    BY <1>3, <2>1 DEF FormOn
  <2>2. CASE f = NULL
    <3>1. PICK x \in Keys : x = KeyOf(p) /\ x = <<p.k, p.i, p.q>> /\ p.i # 0
      BY <1>3, EditKeys
    <3>2. x[1] = p.k /\ x[2] = p.i
      BY <3>1
    <3>3. PICK row : row = c[x].data.got
      OBVIOUS
    <3>4. row \in RowsOf(p.k) \cup {NULL}
      BY <1>3, <3>1, <3>2, <3>3 DEF DataOf, ResponseFacts, RowFacts
    <3>5. g = Mounted(p.k, p.i, row)
      BY <1>3, <2>2, <3>1, <3>3 DEF FormOn
    <3>6. IsForm(p.k, g) /\ g.of = p.i
      BY <1>0, <3>4, <3>5, MountedFits
    <3> QED
      BY <1>3, <3>6 DEF Fits
  <2> QED
    BY <2>1, <2>2
<1>4. CASE p.at # "new" /\ ~ (p.at = "edit" /\ HasData(c[KeyOf(p)]))
  BY <1>4 DEF FormOn, Fits
<1> QED
  BY <1>1, <1>2, <1>3, <1>4

PageFits ==
  IsPage(page') /\ Fits(page', form') /\ (form' # NULL => page'.at \in {"new", "edit"})

LEMMA ShowFits ==
  ASSUME NEW p, IsPage(p), NEW c, DataOf(c), NEW f, Fits(p, f), Show(p, c, f)
  PROVE  PageFits
<1>1. PICK g : g = FormOn(p, c, f)
  OBVIOUS
<1>2. page' = p /\ form' = g
  BY <1>1 DEF Show
<1>3. Fits(p, g) /\ (g # NULL => p.at \in {"new", "edit"})
  BY <1>1, FormOnFits
<1> QED
  BY <1>2, <1>3 DEF PageFits

LEMMA EntriesHaveData ==
  ASSUME DataInv
  PROVE  /\ DataOf(cache)
         /\ \A x \in Keys : cache[x].fetch.state = "answered" =>
              ResponseFacts(x, cache[x].fetch.answer)
BY DEF DataInv, DataOf, Holds

LEMMA VisitFits ==
  ASSUME StepInv, DataInv, NEW place, Visit(place)
  PROVE  PageFits
<1>0. place \in Places
  BY LinksArePlaces DEF Visit, StepInv
<1>1. PICK r : r = RequirePermission(NewPage(place))
  OBVIOUS
<1>2. /\ IsPage(r) /\ r.k = place.k /\ r.i = place.i /\ r.q = place.q
      /\ r.at \in {place.at, "forbidden"}
  BY <1>0, <1>1, PagesOfPlaces
<1>3. PICK c : c = cache
  OBVIOUS
<1>4. DataOf(c)
  BY <1>3, EntriesHaveData
<1>5. CASE ~ SameComponent(r, page)
  <2>1. Show(r, c, NULL) /\ Fits(r, NULL)
    BY <1>1, <1>3, <1>5 DEF Visit, Fits
  <2> QED
    BY <1>2, <1>4, <2>1, ShowFits
<1>6. CASE SameComponent(r, page)
  <2>1. PICK p, f : p = page /\ f = (IF form = NULL THEN NULL ELSE [form EXCEPT !.moved = TRUE])
    OBVIOUS
  <2>2. PICK s : s = Changed(p, r.i, r.q)
    OBVIOUS
  <2>3. Show(s, c, f)
    BY <1>1, <1>3, <1>6, <2>1, <2>2 DEF Visit, Changed
  <2>4. IsPage(p) /\ p.at = r.at /\ p.k = r.k /\ r.i \in Nat /\ r.q \in Searches
    BY <1>2, <1>6, <2>1 DEF SameComponent, StepInv, IsPage
  <2>5. /\ s \in [at : Ats, k : Kinds, i : Nat, q : Searches, confirming : BOOLEAN,
                  call : {s.call}, error : {s.error}]
        /\ s.at = p.at /\ s.k = p.k /\ s.i = r.i /\ s.q = r.q /\ s.error = p.error
    BY <2>2, <2>4, ChangedFields
  <2>6. IsPage(s)
    BY <1>2, <2>4, <2>5 DEF IsPage, PlaceOf
  <2>7. Fits(s, f)
    <3>1. CASE form = NULL
      BY <2>1, <3>1 DEF Fits
    <3>2. CASE form # NULL
      <4>1. PICK h : h = form
        OBVIOUS
      <4>2. IsForm(p.k, h) /\ f = [h EXCEPT !.moved = TRUE]
        BY <2>1, <3>2, <4>1 DEF StepInv, FormInv, Fits
      <4>3. IsForm(p.k, f) /\ f.moved
        BY <4>2 DEF IsForm
      <4> QED
        BY <2>5, <4>3 DEF Fits
    <3> QED
      BY <3>1, <3>2
  <2> QED
    BY <1>4, <2>3, <2>6, <2>7, ShowFits
<1> QED
  BY <1>5, <1>6

LEMMA ReceiveFits ==
  ASSUME StepInv, DataInv, NEW x \in Keys, ReceiveGet(x)
  PROVE  PageFits
<1>1. PICK e : /\ e \in {Failed(cache[x]), Received(cache[x])}
               /\ Show(page, [cache EXCEPT ![x] = e], form)
  BY DEF ReceiveGet
<1>2. PICK p, c : p = page /\ c = [cache EXCEPT ![x] = e]
  OBVIOUS
<1>3. PICK f : f = form
  OBVIOUS
<1>4. c[x] = e /\ \A y \in Keys \ {x} : c[y] = cache[y]
  BY <1>2 DEF StepInv, CacheTypes
<1>5. HasData(e) => ResponseFacts(x, e.data)
  <2>1. Kept(cache[x], e) \/ Took(cache[x], e)
    BY <1>1, OperationsKeep, ReceivedTakes DEF StepInv, CacheTypes, ReceiveGet
  <2>2. e.data = cache[x].data \/ e.data = cache[x].fetch.answer
    BY <2>1 DEF Kept, Took
  <2>3. cache[x].fetch.state = "answered"
    BY DEF ReceiveGet
  <2> QED
    BY <2>2, <2>3, EntriesHaveData DEF DataOf, HasData
<1>6. DataOf(c)
  BY <1>4, <1>5, EntriesHaveData DEF DataOf
<1>7. IsPage(p) /\ Fits(p, f) /\ Show(p, c, f)
  BY <1>1, <1>2, <1>3 DEF StepInv, FormInv
<1> QED
  BY <1>6, <1>7, ShowFits

LEMMA SucceedsFits ==
  ASSUME StepInv, DataInv, NEW b \in calls, Succeeds(b)
  PROVE  PageFits
<1>1. PICK c : c = InvalidateKind(b.k)
  OBVIOUS
<1>2. DataOf(c)
  <2>1. \A x \in Keys : Kept(cache[x], c[x])
    BY <1>1, InvalidatesKeep DEF StepInv
  <2> QED
    BY <2>1, EntriesHaveData DEF Kept, DataOf, HasData
<1>3. CASE b.n # page.call
  <2>1. PICK p, f : p = page /\ f = form
    OBVIOUS
  <2>2. IsPage(p) /\ Fits(p, f) /\ Show(p, c, f)
    BY <1>1, <1>3, <2>1 DEF StepInv, FormInv, Succeeds
  <2> QED
    BY <1>2, <2>2, ShowFits
<1>4. CASE b.n = page.call
  <2>1. PICK l : l = Destination(b)
    OBVIOUS
  <2>2. l \in Places /\ l.at \in {"list", "detail"}
    <3>1. b.k \in Kinds /\ b.i \in IdsOf(b.k)
      BY DEF StepInv, CallsInv, IsCall, AnswerFacts, Succeeds
    <3>2. CASE b.op = "delete"
      <4>1. l = List(b.k, "") /\ "" \in Searches
        BY <2>1, <3>2, FleetPagesAssumption DEF Destination
      <4>2. l.at = "list"
        BY <4>1 DEF List, Place
      <4>3. \A q \in Searches : List(b.k, q) \in Places
        BY <3>1 DEF Places
      <4> QED
        BY <4>1, <4>2, <4>3, Zenon
    <3>3. CASE b.op # "delete"
      <4>1. l = Detail(b.k, b.i)
        BY <2>1, <3>3 DEF Destination
      <4>2. l.at = "detail"
        BY <4>1 DEF Detail, Place
      <4> QED
        BY <3>1, <4>1, <4>2 DEF Places
    <3> QED
      BY <3>2, <3>3
  <2>3. PICK p : p = NewPage(l)
    OBVIOUS
  <2>4. /\ p \in [at : Ats, k : Kinds, i : Nat, q : Searches, confirming : BOOLEAN, call : {0},
                  error : {NULL}]
        /\ PlaceOf(p) = l /\ p.at = l.at
    BY <2>2, <2>3, NewPageFields
  <2>5. IsPage(p) /\ Fits(p, NULL)
    BY <2>2, <2>4 DEF IsPage, Fits
  <2>6. Show(p, c, NULL)
    BY <1>1, <1>4, <2>1, <2>3 DEF Succeeds
  <2> QED
    BY <1>2, <2>5, <2>6, ShowFits
<1> QED
  BY <1>3, <1>4

(* What is typed in is offered: a name, a status, a rig of the cached list. *)
LEMMA TypedAreOptions ==
  ASSUME IsPage(page), DataInv, NEW f \in Fields,
         NEW v, v \in (IF page.k = "rig" THEN RigForm ELSE WellForm)[f]
  PROVE  v \in (IF f = "name" THEN Names ELSE Options(page.k))
<1>1. CASE page.k = "rig"
  BY <1>1 DEF RigForm, Options, Fields
<1>2. CASE page.k = "well" /\ f = "name"
  <2>1. WellForm["name"] = Names
    BY DEF WellForm
  <2> QED
    BY <1>2, <2>1
<1>3. CASE page.k = "well" /\ f = "col"
  <2>1. RigOptions \in Keys /\ RigOptions[1] = "rig" /\ RigOptions[2] = 0
    BY DEF Keys, RigKeys, RigOptions
  <2>2. PICK e : e = cache[RigOptions]
    OBVIOUS
  <2>3. HasData(e) => IsTable("rig", e.data.got)
    BY <2>1, <2>2, EntriesHaveData DEF DataOf, ResponseFacts, ListFacts
  <2>4. WellForm["col"] =
          {""} \cup {String(i) : i \in {j \in RigIds : HasData(e) /\ e.data.got[j] # NULL}}
    BY <2>2 DEF WellForm
  <2>5. {j \in RigIds : HasData(e) /\ e.data.got[j] # NULL} \subseteq Known
    BY <2>3 DEF IsTable, Known, IdsOf
  <2>6. WellForm["col"] \subseteq {""} \cup {String(i) : i \in Known}
    BY <2>4, <2>5
  <2> QED
    BY <1>3, <2>6 DEF Options
<1> QED
  BY <1>1, <1>2, <1>3 DEF IsPage, Kinds, Fields

TypedIn(h, f, v) == [h EXCEPT !.values[f] = v, !.typed = @ \cup {f}]

LEMMA TypedFits ==
  ASSUME NEW k, NEW h, IsForm(k, h), NEW f \in Fields,
         NEW v \in (IF f = "name" THEN Names ELSE Options(k)), NEW g, g = TypedIn(h, f, v)
  PROVE  IsForm(k, g) /\ g.of = h.of /\ g.moved = h.moved
<1>1. PICK N, V : N = Names \cup {""} /\ V = [name : N, col : Options(k)]
  OBVIOUS
<1>2. /\ h \in [of : Nat, row : RowsOf(k) \cup {NULL}, typed : SUBSET Fields, moved : BOOLEAN,
                spud : SpudDates, values : V]
      /\ \A x \in Fields \ h.typed : h.values[x] = Defaults(k, h.row)[x]
  BY <1>1 DEF IsForm
<1>3. Names \subseteq N
  BY <1>1
<1>4. PICK w : w = [h.values EXCEPT ![f] = v]
  OBVIOUS
<1>5. h.values \in [name : N, col : Options(k)] /\ f \in {"name", "col"}
  BY <1>1, <1>2 DEF Fields
<1>6. w \in [name : N, col : Options(k)] /\ \A x \in {"name", "col"} \ {f} : w[x] = h.values[x]
  <2>1. CASE f = "name"
    BY <1>3, <1>4, <1>5, <2>1
  <2>2. CASE f = "col"
    BY <1>4, <1>5, <2>2
  <2> QED
    BY <1>5, <2>1, <2>2
<1>7. g = [h EXCEPT !.values = w, !.typed = @ \cup {f}]
  BY <1>4 DEF TypedIn
<1>8. /\ g \in [of : Nat, row : RowsOf(k) \cup {NULL}, typed : SUBSET Fields, moved : BOOLEAN,
                spud : SpudDates, values : V]
      /\ g.of = h.of /\ g.moved = h.moved /\ g.row = h.row
      /\ g.typed = h.typed \cup {f} /\ g.values = w
  <2>1. PICK R, W : R = RowsOf(k) \cup {NULL} /\ W = V
    OBVIOUS
  <2>2. h \in [of : Nat, row : R, typed : SUBSET Fields, moved : BOOLEAN, spud : SpudDates,
            values : W] /\ w \in W
    BY <1>1, <1>2, <1>6, <2>1
  <2>3. /\ g \in [of : Nat, row : R, typed : SUBSET Fields, moved : BOOLEAN, spud : SpudDates, values : W]
        /\ g.of = h.of /\ g.moved = h.moved /\ g.row = h.row
        /\ g.typed = h.typed \cup {f} /\ g.values = w
    BY <1>7, <2>2, f \in Fields
  <2> QED
    BY <2>1, <2>3
<1>9. \A x \in Fields \ g.typed : g.values[x] = Defaults(k, g.row)[x]
  BY <1>2, <1>6, <1>8 DEF Fields
<1> QED
  BY <1>1, <1>8, <1>9, Zenon DEF IsForm

LEMMA TypeFits ==
  ASSUME StepInv, DataInv, NEW f \in Fields, Type(f)
  PROVE  PageFits
<1>1. PICK v \in (IF page.k = "rig" THEN RigForm ELSE WellForm)[f] :
         form' = [form EXCEPT !.values[f] = v, !.typed = @ \cup {f}]
  BY DEF Type
<1>2. page' = page /\ form # NULL
  BY DEF Type
<1>3. PICK k, h : k = page.k /\ h = form
  OBVIOUS
<1>4. PICK g : g = form'
  OBVIOUS
<1>5. g = TypedIn(h, f, v)
  BY <1>1, <1>3, <1>4 DEF TypedIn
<1>6. v \in (IF f = "name" THEN Names ELSE Options(k))
  BY <1>1, <1>3, TypedAreOptions DEF StepInv
<1>7. /\ IsForm(k, h) /\ page.at \in {"new", "edit"}
      /\ page.at = "edit" => h.of = page.i \/ h.moved
  BY <1>2, <1>3 DEF StepInv, FormInv, Fits
<1>8. IsForm(k, g) /\ g.of = h.of /\ g.moved = h.moved
  BY <1>5, <1>6, <1>7, TypedFits
<1>9. IsPage(page')
  BY <1>2 DEF StepInv
<1> QED
  BY <1>2, <1>3, <1>4, <1>7, <1>8, <1>9 DEF PageFits, Fits

LEMMA TypeSpudDateFits ==
  ASSUME StepInv, TypeSpudDate
  PROVE  PageFits
<1>1. PICK v \in SpudDates : form' = [form EXCEPT !.spud = v]
  BY DEF TypeSpudDate
<1>2. page' = page /\ form # NULL
  BY DEF TypeSpudDate
<1>3. PICK k, h, g : k = page.k /\ h = form /\ g = [h EXCEPT !.spud = v]
  OBVIOUS
<1>4. /\ IsForm(k, h) /\ page.at \in {"new", "edit"}
      /\ page.at = "edit" => h.of = page.i \/ h.moved
  BY <1>2, <1>3 DEF StepInv, FormInv, Fits
<1>5. IsForm(k, g) /\ g.of = h.of /\ g.moved = h.moved
  <2>1. PICK R, W : R = RowsOf(k) \cup {NULL} /\ W = [name : Names \cup {""}, col : Options(k)]
    OBVIOUS
  <2>2. /\ h \in [of : Nat, row : R, typed : SUBSET Fields, moved : BOOLEAN, spud : SpudDates, values : W]
        /\ \A x \in Fields \ h.typed : h.values[x] = Defaults(k, h.row)[x]
    BY <1>4, <2>1, Zenon DEF IsForm
  <2>3. /\ g \in [of : Nat, row : R, typed : SUBSET Fields, moved : BOOLEAN, spud : SpudDates, values : W]
        /\ g.of = h.of /\ g.moved = h.moved /\ g.row = h.row /\ g.typed = h.typed /\ g.values = h.values
    BY <1>1, <1>3, <2>2
  <2> QED
    BY <2>1, <2>2, <2>3, Zenon DEF IsForm
<1>6. IsPage(page')
  BY <1>2 DEF StepInv
<1> QED
  BY <1>1, <1>2, <1>3, <1>4, <1>5, <1>6 DEF PageFits, Fits

LEMMA PageReplacedFits ==
  ASSUME StepInv, UNCHANGED form,
         \/ UNCHANGED page
         \/ \E n, e : (e # NULL => ErrorFacts(e)) /\ page' = Reported(page, n, e)
         \/ \E b \in BOOLEAN : page' = Confirmed(page, b)
  PROVE  PageFits
<1>1. PICK p, q : p = page /\ q = page'
  OBVIOUS
<1>2. PICK f : f = form
  OBVIOUS
<1>3. IsPage(p) /\ Fits(p, f) /\ (f # NULL => p.at \in {"new", "edit"})
  BY <1>1, <1>2 DEF StepInv, FormInv
<1>4. IsPage(q) /\ q.at = p.at /\ q.k = p.k /\ q.i = p.i
  <2>1. CASE q = p
    BY <1>3, <2>1
  <2>2. ASSUME NEW n, NEW e, e # NULL => ErrorFacts(e), q = Reported(p, n, e)
        PROVE  IsPage(q) /\ q.at = p.at /\ q.k = p.k /\ q.i = p.i
    BY <1>3, <2>2, ReportedIsPage
  <2>3. ASSUME NEW b \in BOOLEAN, q = Confirmed(p, b)
        PROVE  IsPage(q) /\ q.at = p.at /\ q.k = p.k /\ q.i = p.i
    BY <1>3, <2>3, ConfirmedIsPage
  <2> QED
    BY <1>1, <2>1, <2>2, <2>3
<1>5. Fits(q, f) /\ (f # NULL => q.at \in {"new", "edit"})
  BY <1>3, <1>4 DEF Fits
<1> QED
  BY <1>1, <1>2, <1>4, <1>5 DEF PageFits

LEMMA MutateFits ==
  ASSUME StepInv, NEW op, NEW row, Mutate(op, row)
  PROVE  PageFits
<1>1. page' = Reported(page, count.saves + 1, NULL) /\ UNCHANGED form
  BY DEF Mutate, Reported
<1> QED
  BY <1>1, PageReplacedFits

LEMMA FailureFits ==
  ASSUME StepInv, NEW c \in calls, MutationFails(c)
  PROVE  PageFits
<1>1. CASE c.n # page.call
  BY <1>1, PageReplacedFits DEF MutationFails
<1>2. CASE c.n = page.call
  <2>1. PICK e : e = [status |-> c.answer, row |-> c.row, form |-> c.form]
    OBVIOUS
  <2>2. PICK n : n = page.call
    OBVIOUS
  <2>3. ErrorFacts(e)
    BY <2>1 DEF StepInv, CallsInv, IsCall, AnswerFacts, ErrorFacts
  <2>4. page' = [page EXCEPT !.error = e] /\ UNCHANGED form
    BY <1>2, <2>1 DEF MutationFails
  <2>5. [page EXCEPT !.error = e] = Reported(page, n, e)
    BY <2>2 DEF StepInv, IsPage, Reported
  <2> QED
    BY <2>3, <2>4, <2>5, PageReplacedFits
<1> QED
  BY <1>1, <1>2

LEMMA StepFits ==
  ASSUME StepInv, DataInv, [Next]_vars
  PROVE  PageFits
<1>1. ASSUME UNCHANGED <<page, form>> PROVE PageFits
  BY <1>1, PageReplacedFits
<1>2. ASSUME NEW place, Visit(place) PROVE PageFits
  BY <1>2, VisitFits
<1>3. ASSUME NEW f \in {"name", "col"}, Type(f) PROVE PageFits
  BY <1>3, TypeFits DEF Fields
<1>13. CASE TypeSpudDate
  BY <1>13, TypeSpudDateFits
<1>4. ASSUME RigCreatePage \/ RigEditPage \/ WellCreatePage \/ WellEditPage PROVE PageFits
  BY <1>4, MutateFits DEF RigCreatePage, RigEditPage, WellCreatePage, WellEditPage
<1>5. CASE DeleteRig \/ DeleteWell
  <2>1. DeleteButtons
    BY <1>5 DEF DeleteRig, DeleteWell
  <2>2. CASE page' = [page EXCEPT !.confirming = ~ @] /\ UNCHANGED form
    <3>1. PICK b \in BOOLEAN : b = ~ page.confirming
      BY DEF StepInv, IsPage
    <3>2. page' = Confirmed(page, b)
      BY <2>2, <3>1 DEF StepInv, IsPage, Confirmed
    <3> QED
      BY <2>2, <3>2, PageReplacedFits
  <2>3. CASE Mutate("delete", NULL)
    BY <2>3, MutateFits
  <2> QED
    BY <2>1, <2>2, <2>3 DEF DeleteButtons
<1>6. ASSUME NEW x \in Keys, ReceiveGet(x) PROVE PageFits
  BY <1>6, ReceiveFits
<1>7. ASSUME NEW x \in Keys, ServeGet(x) \/ FailGet(x) \/ Refetch(x) PROVE PageFits
  BY <1>1, <1>7 DEF ServeGet, FailGet, Refetch
<1>8. ASSUME NEW c \in calls, ServeCall(c) \/ LoseCall(c) PROVE PageFits
  BY <1>1, <1>8 DEF ServeCall, LoseCall
<1>9. ASSUME NEW c \in calls, useRigMutation(c) \/ useWellMutation(c) PROVE PageFits
  BY <1>9, SucceedsFits DEF useRigMutation, useWellMutation
<1>10. ASSUME NEW c \in calls, MutationFails(c) PROVE PageFits
  BY <1>10, FailureFits
<1>11. CASE OtherWrite
  BY <1>1, <1>11 DEF OtherWrite
<1>12. CASE UNCHANGED vars
  BY <1>1, <1>12 DEF vars
<1> QED
  BY <1>2, <1>3, <1>4, <1>5, <1>6, <1>7, <1>8, <1>9, <1>10, <1>11, <1>12, <1>13
     DEF Next, Operator, Network

LEMMA StepPage ==
  ASSUME StepInv, DataInv, Grows, [Next]_vars
  PROVE  IsPage(page)' /\ FormInv'
<1>1. PICK p, f : p = page' /\ f = form'
  OBVIOUS
<1>2. IsPage(p) /\ Fits(p, f) /\ (f # NULL => p.at \in {"new", "edit"})
  BY <1>1, StepFits DEF PageFits
<1>3. IsPage(p)'
  BY <1>2, PageStays
<1>4. f # NULL => IsForm(p.k, f)'
  BY <1>2, FormStays DEF Fits
<1>5. IsPage(page)'
  BY <1>1, <1>3 DEF IsPage, PlaceOf, usePermission
<1>6. Fits(page, form)'
  BY <1>1, <1>2, <1>4, Zenon DEF Fits, IsForm
<1> QED
  BY <1>1, <1>2, <1>5, <1>6 DEF FormInv

-----------------------------------------------------------------------------
(* What this tab knows of is what the server has done.                      *)

ToldStep ==
  \/ told' = told
  \/ \E c \in calls : /\ c.answer = 200
                      /\ told' = [told EXCEPT ![c.k] = IF c.asOf > @ THEN c.asOf ELSE @]

LEMMA StepTold ==
  ASSUME [Next]_vars
  PROVE  ToldStep
BY DEF ToldStep, Next, Operator, Network, Visit, Type, TypeSpudDate, RigCreatePage, RigEditPage,
       WellCreatePage, WellEditPage, Mutate, DeleteRig, DeleteWell, DeleteButtons, ServeGet, ReceiveGet, FailGet,
       Refetch, ServeCall, LoseCall, OtherWrite, useRigMutation, useWellMutation, Succeeds,
       MutationFails, vars

LEMMA ToldTypes ==
  ASSUME ServerTypes, CallsInv, ToldStep
  PROVE  told' \in [Kinds -> Nat] /\ \A k \in Kinds : told[k] <= told'[k] /\ told'[k] <= writes[k]
<1>1. CASE told' = told
  BY <1>1 DEF ServerTypes
<1>2. ASSUME NEW c \in calls, c.answer = 200,
             told' = [told EXCEPT ![c.k] = IF c.asOf > @ THEN c.asOf ELSE @]
      PROVE  told' \in [Kinds -> Nat] /\ \A k \in Kinds : told[k] <= told'[k] /\ told'[k] <= writes[k]
  <2>1. PICK k \in Kinds, n \in Nat : k = c.k /\ n = c.asOf /\ n <= writes[k]
    BY <1>2 DEF CallsInv, IsCall, AnswerFacts
  <2>2. told' = [told EXCEPT ![k] = IF n > @ THEN n ELSE @]
    BY <1>2, <2>1
  <2> QED
    BY <2>1, <2>2 DEF ServerTypes
<1> QED
  BY <1>1, <1>2 DEF ToldStep

LEMMA ServerTypesStep ==
  ASSUME StepInv, [Next]_vars
  PROVE  ServerTypes' /\ Grows
<1>1. ServerStep /\ ServerTypes /\ CallsInv /\ ToldStep
  BY StepServer, StepTold DEF StepInv
<1>2. Grows /\ DOMAIN db' = Kinds /\ \A k \in Kinds : IsTable(k, db[k])'
  BY <1>1, TablesGrow
<1>3. told' \in [Kinds -> Nat] /\ \A k \in Kinds : told[k] <= told'[k] /\ told'[k] <= writes[k]
  BY <1>1, ToldTypes
<1>4. next' \in [Kinds -> Nat \ {0}] /\ writes' \in [Kinds -> Nat] /\ role' \in Roles
  BY <1>1 DEF ServerStep, ServerTypes
<1>5. \A k \in Kinds : told'[k] <= writes'[k]
  BY <1>1, <1>3, <1>4 DEF ServerStep, ServerTypes
<1> QED
  BY <1>2, <1>3, <1>4, <1>5 DEF ServerTypes

-----------------------------------------------------------------------------
(* What the cache holds are answers the server gave.                        *)

LEMMA KeyFacts ==
  ASSUME NEW x \in Keys
  PROVE  /\ x = <<x[1], x[2], x[3]>> /\ x[1] \in Kinds
         /\ x[2] # 0 => x[2] \in IdsOf(x[1])
         /\ x[2] = 0 => x[3] \in Searches \/ (x[1] = "rig" /\ x[3] = NULL)
<1>1. "rig" \in Kinds /\ "well" \in Kinds /\ IdsOf("rig") = RigIds /\ IdsOf("well") = WellIds
  BY DEF Kinds, IdsOf
<1>2. ASSUME NEW k \in Kinds, NEW i \in IdsOf(k), NEW q, x = <<k, i, q>>
      PROVE  x = <<x[1], x[2], x[3]>> /\ x[1] = k /\ x[2] = i /\ x[2] # 0
  BY <1>2, IdsArePositive
<1>3. ASSUME NEW k \in Kinds, NEW q, x = <<k, 0, q>>
      PROVE  x = <<x[1], x[2], x[3]>> /\ x[1] = k /\ x[2] = 0 /\ x[3] = q
  BY <1>3
<1>4. \/ \E k \in Kinds : \E i \in IdsOf(k) : \E q : x = <<k, i, q>>
      \/ \E k \in Kinds : \E q \in Searches : x = <<k, 0, q>>
      \/ x = <<"rig", 0, NULL>>
  BY <1>1, Zenon DEF Keys, RigKeys, WellKeys, RigOptions
<1>5. CASE \E k \in Kinds : \E i \in IdsOf(k) : \E q : x = <<k, i, q>>
  BY <1>2, <1>5
<1>6. CASE \E k \in Kinds : \E q \in Searches : x = <<k, 0, q>>
  <2>1. PICK k \in Kinds, q \in Searches : x = <<k, 0, q>>
    BY <1>6
  <2>2. x = <<x[1], x[2], x[3]>> /\ x[1] = k /\ x[2] = 0 /\ x[3] = q
    BY <1>3, <2>1
  <2> QED
    BY <2>1, <2>2
<1>7. CASE x = <<"rig", 0, NULL>>
  BY <1>1, <1>3, <1>7
<1> QED
  BY <1>4, <1>5, <1>6, <1>7

LEMMA ServesFacts ==
  ASSUME ServerTypes, NEW x \in Keys
  PROVE  ResponseFacts(x, Serve(x))
<1>0. PICK d : d = Serve(x)
  OBVIOUS
<1>1. /\ x[1] \in Kinds /\ (x[2] # 0 => x[2] \in IdsOf(x[1]))
      /\ x[2] = 0 => x[3] \in Searches \/ (x[1] = "rig" /\ x[3] = NULL)
  BY KeyFacts
<1>2. d = [got |-> d.got, asOf |-> writes[x[1]]]
  BY <1>0 DEF Serve
<1>3. d \in [got : {d.got}, asOf : Nat]
  <2>1. writes[x[1]] \in Nat
    BY <1>1 DEF ServerTypes
  <2> QED
    BY <1>2, <2>1
<1>4. ASSUME x[2] # 0 PROVE ResponseFacts(x, d)
  <2>1. d.got = db[x[1]][x[2]]
    BY <1>0, <1>1, <1>4 DEF Serve, useRigQuery, useWellQuery, Kinds
  <2>2. RowFacts(x[1], d.got)
    BY <1>1, <1>4, <2>1 DEF ServerTypes, IsTable, RowFacts
  <2> QED
    BY <1>3, <1>4, <2>2 DEF ResponseFacts
<1>5. ASSUME x[2] = 0 PROVE ResponseFacts(x, d)
  <2>1. PICK k \in Kinds, t \in {d.got} : k = x[1]
    BY <1>1
  <2>2. /\ t = [i \in IdsOf(k) |-> t[i]]
        /\ \A i \in IdsOf(k) : t[i] = db[k][i] \/ t[i] = NULL
        /\ \A i \in IdsOf(k) : t[i] # NULL => x[3] \in {"", NULL, t[i].name}
    <3>1. CASE k = "rig"
      <4>1. t = useRigsQuery(x[3])
        BY <1>0, <1>5, <2>1, <3>1 DEF Serve
      <4> QED
        BY <3>1, <4>1, Zenon DEF useRigsQuery, IdsOf
    <3>2. CASE k = "well"
      <4>1. t = useWellsQuery(x[3])
        BY <1>0, <1>5, <2>1, <3>2 DEF Serve
      <4>2. IdsOf(k) = WellIds
        BY <3>2 DEF IdsOf
      <4> QED
        BY <3>2, <4>1, <4>2, Zenon DEF useWellsQuery
    <3> QED
      BY <3>1, <3>2 DEF Kinds
  <2>3. IsTable(k, t)
    <3>1. DOMAIN t = IdsOf(k)
      BY <2>2
    <3>2. \A i \in IdsOf(k) : db[k][i] # NULL => db[k][i] \in RowsOf(k) /\ i < next[k]
      BY DEF ServerTypes, IsTable
    <3> QED
      BY <2>2, <3>1, <3>2 DEF IsTable
  <2>4. ListFacts(k, x[3], t)
    BY <2>2, <2>3, Zenon DEF ListFacts
  <2> QED
    BY <1>3, <1>5, <2>1, <2>4 DEF ResponseFacts
<1> QED
  BY <1>0, <1>4, <1>5

(* What the server does later does not make a response wrong.               *)
LEMMA FactsStay ==
  ASSUME ServerTypes, Grows, NEW x \in Keys, NEW d, ResponseFacts(x, d)
  PROVE  ResponseFacts(x, d)'
<1>0. PICK q, t : q = x[3] /\ t = d.got
  OBVIOUS
<1>1. PICK k \in Kinds : k = x[1]
  BY KeyFacts
<1>2. IsTable(k, t) => IsTable(k, t)'
  <2>1. /\ next[k] \in Nat /\ next'[k] \in Nat /\ next[k] <= next'[k]
        /\ IdsOf(k) \subseteq Nat /\ RowsOf(k) \subseteq RowsOf(k)'
    BY IdsArePositive DEF Grows, ServerTypes
  <2> QED
    BY <2>1 DEF IsTable
<1>3. ListFacts(k, q, t) => ListFacts(k, q, t)'
  BY <1>2, Zenon DEF ListFacts
<1>4. RowFacts(k, t) => RowFacts(k, t)'
  BY DEF RowFacts, Grows
<1> QED
  BY <1>0, <1>1, <1>3, <1>4 DEF ResponseFacts

LEMMA DataInvStep ==
  ASSUME StepInv, DataInv, Grows, [Next]_vars
  PROVE  DataInv'
<1>1. ASSUME NEW x \in Keys, NEW d \in Holds(cache'[x]) PROVE ResponseFacts(x, d)'
  <2>1. CacheSteps /\ ServerTypes
    BY StepCache DEF StepInv
  <2>2. ResponseFacts(x, d)
    BY <1>1, <2>1, HoldsStep, ServesFacts DEF DataInv
  <2> QED
    BY <2>1, <2>2, FactsStay
<1> QED
  BY <1>1 DEF DataInv

LEMMA IInvStep ==
  ASSUME IInv, [Next]_vars
  PROVE  IInv'
<1>1. StepInv /\ DataInv
  BY DEF IInv, StepInv
<1>2. ServerTypes' /\ Grows /\ ServerStep /\ CallsStep
  BY <1>1, ServerTypesStep, StepServer
<1> QED
  BY <1>1, <1>2, CacheTypesStep, DataInvStep, CallsInvStep, IdsAreLeftStep, StepPage
     DEF IInv, StepInv

LEMMA FirstTables ==
  ASSUME Init
  PROVE  ServerTypes /\ \A k \in Kinds : next[k] <= Cardinality(IdsOf(k)) + 1
<1>1. /\ db = FirstRows /\ role \in Roles
      /\ next = [k \in Kinds |-> Cardinality({i \in IdsOf(k) : FirstRows[k][i] # NULL}) + 1]
      /\ writes = [k \in Kinds |-> 0] /\ told = [k \in Kinds |-> 0]
  BY DEF Init
<1>2. DOMAIN db = Kinds /\ \A k \in Kinds : DOMAIN db[k] = IdsOf(k)
  BY <1>1, FirstRowsAssumption DEF Kinds, IdsOf
<1>3. ASSUME NEW k \in Kinds
      PROVE  /\ next[k] \in Nat \ {0} /\ next[k] <= Cardinality(IdsOf(k)) + 1
             /\ \A i \in IdsOf(k) : db[k][i] # NULL => i < next[k]
  <2>1. PICK S : S = {i \in IdsOf(k) : db[k][i] # NULL}
    OBVIOUS
  <2>2. /\ IsFiniteSet(S) /\ Cardinality(S) \in Nat /\ Cardinality(IdsOf(k)) \in Nat
        /\ Cardinality(S) <= Cardinality(IdsOf(k))
    BY <2>1, IdsArePositive, FS_Subset, FS_CardinalityType
  <2>3. next[k] = Cardinality(S) + 1
    BY <1>1, <2>1
  <2>4. ASSUME NEW i \in IdsOf(k), db[k][i] # NULL PROVE i < next[k]
    <3>1. i <= Cardinality(S)
      BY <1>1, <1>2, <2>1, <2>4, FirstRowsAssumption DEF Kinds
    <3> QED
      BY <2>2, <2>3, <3>1, IdsArePositive
  <2> QED
    BY <2>2, <2>3, <2>4
<1>4. ASSUME NEW k \in Kinds, NEW i \in IdsOf(k), db[k][i] # NULL PROVE db[k][i] \in RowsOf(k)
  <2>1. CASE k = "rig"
    BY <1>1, <1>4, <2>1, FirstRowsAssumption DEF RowsOf, RigRows, IdsOf
  <2>2. CASE k = "well"
    <3>1. i \in WellIds
      BY <2>2 DEF IdsOf
    <3>2. PICK r \in WellRows : r = db["well"][i] /\ r # NULL
      BY <1>1, <1>4, <2>2, <3>1, FirstRowsAssumption
    <3>3. r.col = NULL \/ (r.col \in RigIds /\ db["rig"][r.col] # NULL)
      BY <1>1, <3>1, <3>2, FirstRowsAssumption DEF WellRows
    <3>4. r.col \in Known \cup {NULL}
      BY <1>3, <3>3, RigIdsArePositive DEF Known, IdsOf, Kinds
    <3> QED
      BY <2>2, <3>2, <3>4 DEF RowsOf, WellRows
  <2> QED
    BY <2>1, <2>2 DEF Kinds
<1>5. next \in [Kinds -> Nat \ {0}]
  BY <1>1, <1>3
<1> QED
  BY <1>1, <1>2, <1>3, <1>4, <1>5 DEF ServerTypes, IsTable

LEMMA FirstCache ==
  ASSUME Init
  PROVE  CacheTypes /\ DataInv /\ \A x \in Keys : Holds(cache[x]) = {}
<1>1. IsEntry(EmptyEntry) /\ ~ HasData(EmptyEntry) /\ EmptyEntry.fetch = Idle
  BY DEF IsEntry, EmptyEntry, Entry, Idle, HasData
<1>2. PICK e : e = EmptyEntry
  OBVIOUS
<1>3. IsEntry(Ask(e)) /\ Ask(e).data = e.data /\ Ask(e).fetch = Asked
  BY <1>1, <1>2, AskFields
<1>4. DOMAIN cache = Keys /\ \A x \in Keys : cache[x] \in {e, Ask(e)}
  BY <1>2 DEF Init
<1>5. Holds(e) = {} /\ Holds(Ask(e)) = {}
  BY <1>1, <1>2, <1>3 DEF Holds, HasData, Idle, Asked
<1> QED
  BY <1>1, <1>2, <1>3, <1>4, <1>5 DEF CacheTypes, DataInv

LEMMA FirstPage ==
  ASSUME Init
  PROVE  IsPage(page) /\ FormInv
<1>0. PICK p : p = page
  OBVIOUS
<1>1. PICK place \in Places : p = RequirePermission(NewPage(place)) /\ p = page
  BY <1>0, PlacesAssumption DEF Init
<1>2. IsPage(p)
  BY <1>1, PagesOfPlaces
<1>3. PICK c : c = [x \in Keys |-> EmptyEntry]
  OBVIOUS
<1>4. DataOf(c) /\ Fits(p, NULL)
  BY <1>3 DEF DataOf, HasData, EmptyEntry, Entry, Fits
<1>5. PICK g : g = FormOn(p, c, NULL)
  OBVIOUS
<1>6. form = g
  BY <1>1, <1>3, <1>5 DEF Init
<1>7. Fits(p, g) /\ (g # NULL => p.at \in {"new", "edit"})
  BY <1>2, <1>4, <1>5, FormOnFits
<1> QED
  BY <1>1, <1>2, <1>6, <1>7 DEF FormInv

LEMMA FirstCalls ==
  ASSUME Init
  PROVE  CallsInv /\ IdsAreLeft
<1>1. calls = {}
  BY DEF Init
<1>2. IsFiniteSet(calls) /\ Cardinality({}) = 0
  BY <1>1, FS_EmptySet
<1>3. \A k \in Kinds : Creates(k) = {}
  BY <1>1 DEF Creates
<1>4. \A k \in Kinds : next[k] \in Nat
  BY FirstTables DEF ServerTypes
<1> QED
  BY <1>1, <1>2, <1>3, <1>4, FirstTables DEF CallsInv, IdsAreLeft

LEMMA IInvHolds == Spec => []IInv
<1>1. Init => IInv
  BY FirstTables, FirstCache, FirstPage, FirstCalls DEF IInv
<1> QED
  BY <1>1, IInvStep, PTL DEF Spec

(* The tables, requests, cache, page and form have their types; a row has   *)
(* an id that was given out; a page with an entry is of a key that there    *)
(* may be something under; only the pages of a form have one (app.tsx,      *)
(* RigForm.tsx, WellForm.tsx, api/rigs.ts, api/wells.ts).                   *)
THEOREM FleetPagesTypeCorrect == Spec => []TypeOK
<1>1. IInv => TypeOK
  <2> SUFFICES ASSUME IInv PROVE TypeOK
    OBVIOUS
  <2>1. ASSUME NEW k \in Kinds
        PROVE  /\ DOMAIN db[k] = IdsOf(k)
               /\ next[k] \in Nat /\ writes[k] \in Nat /\ told[k] \in 0..writes[k]
               /\ \A i \in IdsOf(k) : Exists(k, i) => db[k][i].name \in Names /\ i < next[k]
    BY DEF IInv, ServerTypes, IsTable, Exists, RowsOf
  <2>2. role \in Roles /\ DOMAIN cache = Keys
    BY DEF IInv, ServerTypes, CacheTypes
  <2>3. \A x \in Keys : cache[x].fetch.state \in {"idle", "asked", "answered"}
    BY DEF IInv, CacheTypes, IsEntry, Idle, Asked, Answered
  <2>4. page.at \in {"list", "new", "detail", "edit", "forbidden"}
    BY DEF IInv, IsPage, Ats
  <2>5. HasEntry(page) => KeyOf(page) \in Keys
    BY EntriesHaveKeys DEF IInv
  <2>6. form # NULL => page.at \in {"new", "edit"} /\ form.typed \subseteq {"name", "col"}
                      /\ form.spud \in SpudDates
    BY DEF IInv, FormInv, Fits, IsForm, Fields
  <2>7. \A c \in calls : /\ c.op \in {"create", "update", "delete"}
                         /\ c.answer \in {NULL, 0, 200, 403, 404, 409, 422}
    BY DEF IInv, CallsInv, IsCall, Answers
  <2> QED
    BY <2>1, <2>2, <2>3, <2>4, <2>5, <2>6, <2>7 DEF TypeOK
<1> QED
  BY <1>1, IInvHolds, PTL

-----------------------------------------------------------------------------
(* What pages show, what refusals say, what saves change.                   *)

(* A list page shows rows its search matches, and an edit page the form of  *)
(* its row unless the id in the URL has changed under the form              *)
(* (RigsListPage.tsx, WellsListPage.tsx, RigEditPage.tsx, WellEditPage.tsx, *)
(* and the key of useForm's values).                                        *)
THEOREM FleetPagesShowTheirUrl == Spec => []ShowsWhatItsUrlNames
<1>1. ASSUME IInv, page.at = "list", page.q # "", NEW i \in Rows
      PROVE  Shown.data.got[i].name = page.q
  <2>1. PICK p, l : p = page /\ l = PlaceOf(page)
    OBVIOUS
  <2>2. l \in Places /\ l.at = p.at /\ l.k = p.k /\ l.i = p.i /\ l.q = p.q /\ p.at = "list"
    BY <1>1, <2>1 DEF IInv, IsPage, PlaceOf, Place
  <2>3. p.k \in Kinds /\ p.i = 0 /\ p.q \in Searches
    BY <2>2, PlaceFacts
  <2>4. KeyOf(p) \in Keys
    BY <1>1, <2>1, EntriesHaveKeys DEF IInv, HasEntry
  <2>5. PICK x \in Keys : x = KeyOf(p) /\ x[1] = p.k /\ x[2] = 0 /\ x[3] = p.q
    BY <2>3, <2>4 DEF KeyOf
  <2>6. PICK t : t = cache[x].data.got
    OBVIOUS
  <2>7. HasData(cache[x]) /\ i \in IdsOf(p.k) /\ t[i] # NULL /\ Shown = cache[x]
    BY <1>1, <2>1, <2>5, <2>6 DEF Rows, Shown
  <2>8. ListFacts(p.k, p.q, t)
    BY <1>1, <2>5, <2>6, <2>7, EntriesHaveData DEF IInv, DataOf, ResponseFacts
  <2>9. p.q \in {"", NULL, t[i].name}
    BY <2>7, <2>8, Zenon DEF ListFacts
  <2>10. p.q # NULL
    BY <2>3, FleetPagesAssumption
  <2> QED
    BY <1>1, <2>1, <2>6, <2>7, <2>9, <2>10, Zenon
<1>2. IInv => (page.at = "edit" /\ form # NULL => form.of = page.i \/ form.moved)
  BY DEF IInv, FormInv, Fits
<1>3. IInv => ShowsWhatItsUrlNames
  BY <1>1, <1>2, Zenon DEF ShowsWhatItsUrlNames
<1> QED
  BY <1>3, IInvHolds, PTL

(* A form says that the rig chosen no longer exists only when it does not,  *)
(* or when the date it sent is one the server cannot read; and no request   *)
(* is refused for want of a permission (WellForm.tsx, schemas/wells.py, the *)
(* pages' usePermission, RequirePermission.tsx, require_permission).        *)
THEOREM FleetPagesRefusalsAreTrue == Spec => []RefusalsAreTrue
<1>1. IInv => RefusalsAreTrue
  <2> SUFFICES ASSUME IInv, page.error # NULL
               PROVE  /\ WellFormError(page.error.status) = "rig"
                           => \/ ~ Exists("rig", page.error.row.col)
                              \/ page.error.form.spud = "unreadable"
                      /\ page.error.status # 403
    BY DEF RefusalsAreTrue
  <2>1. ErrorFacts(page.error)
    BY DEF IInv, IsPage
  <2>2. WellFormError(page.error.status) = "rig" => page.error.status = 422
    BY DEF WellFormError
  <2>3. page.error.status # 403
    BY <2>1, NullIsNoNumber DEF ErrorFacts, Answers
  <2> QED
    BY <2>1, <2>2, <2>3 DEF ErrorFacts, RigOrDate, Gone, Exists, IdsOf
<1> QED
  BY <1>1, IInvHolds, PTL

(* What a served request writes is what its form sent: of the row the form  *)
(* was mounted with, all that was not typed over.                           *)
LEMMA UpdatesKeepUntyped ==
  ASSUME ServerTypes, CallsInv, NEW b \in calls, ServeCall(b), NEW c \in calls \ calls',
         c.op = "update", db' # db, c.form.of = c.i, c.form.row = db[c.k][c.i],
         NEW f \in Fields \ c.form.typed
  PROVE  db'[c.k][c.i][f] = db[c.k][c.i][f]
<1>1. c = b
  BY DEF ServeCall, Replace
<1>2. StatusOf(c) = 200 /\ db' = Applied(c)
  BY <1>1 DEF ServeCall
<1>3. IsCall(c) /\ SentFacts(c) /\ c.k \in Kinds
  BY DEF CallsInv, IsCall
<1>4. c.i \in IdsOf(c.k) /\ db[c.k][c.i] # NULL
  BY <1>2, <1>3, StatusFacts DEF Exists
<1>5. PICK k \in Kinds, r \in {c.row} : k = c.k /\ r = c.row
  BY <1>3
<1>6. PICK i \in IdsOf(k) : i = c.i
  BY <1>4, <1>5
<1>7. db' = [db EXCEPT ![k][i] = r]
  BY <1>2, <1>5, <1>6 DEF Applied
<1>8. db'[k][i] = r
  BY <1>7 DEF ServerTypes, IsTable
<1>9. r[f] = c.form.row[f]
  BY <1>3, <1>4, <1>5 DEF SentFacts
<1> QED
  BY <1>5, <1>6, <1>8, <1>9

(* Only serving a request changes the table and ends the request as it was. *)
LEMMA OnlyServingWrites ==
  ASSUME [Next]_vars, db' # db, NEW c \in calls \ calls'
  PROVE  \E b \in calls : ServeCall(b)
<1> USE DEF server
<1>1. CASE Operator
  <2>1. UNCHANGED db
    BY <1>1 DEF Operator, Visit, Type, TypeSpudDate, RigCreatePage, RigEditPage, WellCreatePage,
       WellEditPage, DeleteRig, DeleteWell, DeleteButtons, Mutate
  <2> QED
    BY <2>1
<1>2. CASE Network
  BY <1>2 DEF Network, ServeGet, ReceiveGet, useRigMutation, useWellMutation, Succeeds, MutationFails
<1>3. CASE \E x \in Keys : FailGet(x) \/ Refetch(x)
  BY <1>3 DEF FailGet, Refetch
<1>4. CASE \E b \in calls : LoseCall(b)
  BY <1>4 DEF LoseCall
<1>5. CASE OtherWrite
  BY <1>5 DEF OtherWrite
<1>6. CASE UNCHANGED vars
  BY <1>6 DEF vars
<1> QED
  BY <1>1, <1>2, <1>3, <1>4, <1>5, <1>6 DEF Next

(* Saving a form that found the row as it still is changes only what was    *)
(* typed in (the forms send all fields; the defaults they start from and    *)
(* toInput must therefore be inverse to each other: RigForm.tsx,            *)
(* WellForm.tsx, update_rig and update_well).                               *)
THEOREM FleetPagesKeepUntypedFields == Spec => OnlyTypedFieldsChange
<1>1. ASSUME IInv, [Next]_vars, NEW c \in calls \ calls', c.op = "update", db' # db,
             c.form.of = c.i, c.form.row = db[c.k][c.i], NEW f \in {"name", "col"} \ c.form.typed
      PROVE  db'[c.k][c.i][f] = db[c.k][c.i][f]
  <2>1. PICK b \in calls : ServeCall(b)
    BY <1>1, OnlyServingWrites
  <2> QED
    BY <1>1, <2>1, UpdatesKeepUntyped DEF IInv, Fields
<1>2. IInv /\ [Next]_vars =>
        [\A c \in calls \ calls' :
           /\ c.op = "update" /\ db' # db
           /\ c.form.of = c.i /\ c.form.row = db[c.k][c.i]
           => \A f \in {"name", "col"} \ c.form.typed :
                db'[c.k][c.i][f] = db[c.k][c.i][f]]_vars
  BY <1>1
<1> QED
  BY <1>2, IInvHolds, PTL DEF Spec, OnlyTypedFieldsChange

(* An answer that navigates ends the request of the page on screen: the     *)
(* callbacks given to mutate run only while the component that called it is *)
(* there (RigCreatePage.tsx, RigEditPage.tsx, RigDetailPage.tsx and the     *)
(* wells' pages).                                                           *)
THEOREM FleetPagesNavigateTheirOwn == Spec => OnlyItsPageNavigates
<1>1. ASSUME IInv, [Next]_vars, calls' \subseteq calls, calls' # calls,
             PlaceOf(page)' # PlaceOf(page)
      PROVE  \E c \in calls \ calls' : c.n = page.call
  <2>1. PICK c \in calls : /\ calls' = calls \ {c}
                           /\ useRigMutation(c) \/ useWellMutation(c) \/ MutationFails(c)
    <3>1. CASE Operator
      BY <1>1, <3>1 DEF Operator, Visit, Type, TypeSpudDate, RigCreatePage, RigEditPage, WellCreatePage,
         WellEditPage, DeleteRig, DeleteWell, DeleteButtons, Mutate
    <3>2. CASE Network
      <4>1. ASSUME NEW c \in calls, ServeCall(c) PROVE FALSE
        BY <1>1, <4>1 DEF ServeCall, PlaceOf
      <4>2. ASSUME NEW x, ServeGet(x) \/ ReceiveGet(x) PROVE FALSE
        BY <1>1, <4>2 DEF ServeGet, ReceiveGet
      <4> QED
        BY <3>2, <4>1, <4>2 DEF Network, useRigMutation, useWellMutation, Succeeds, MutationFails
    <3>3. CASE \E x \in Keys : FailGet(x) \/ Refetch(x)
      BY <1>1, <3>3 DEF FailGet, Refetch
    <3>4. CASE \E b \in calls : LoseCall(b)
      BY <1>1, <3>4 DEF LoseCall, PlaceOf
    <3>5. CASE OtherWrite
      BY <1>1, <3>5 DEF OtherWrite
    <3>6. CASE UNCHANGED vars
      BY <1>1, <3>6 DEF vars
    <3> QED
      BY <1>1, <3>1, <3>2, <3>3, <3>4, <3>5, <3>6 DEF Next
  <2>2. CASE c.n # page.call
    <3>1. page' = page
      BY <2>1, <2>2 DEF useRigMutation, useWellMutation, Succeeds, MutationFails, Show
    <3> QED
      BY <1>1, <3>1 DEF PlaceOf
  <2>3. CASE c.n = page.call
    BY <2>1, <2>3
  <2> QED
    BY <2>2, <2>3
<1>2. IInv /\ [Next]_vars =>
        [calls' \subseteq calls /\ calls' # calls /\ PlaceOf(page)' # PlaceOf(page) =>
           \E c \in calls \ calls' : c.n = page.call]_vars
  BY <1>1
<1> QED
  BY <1>2, IInvHolds, PTL DEF Spec, OnlyItsPageNavigates

-----------------------------------------------------------------------------
(* A tab reads its writes, and a page that uses an entry is never blank: an *)
(* entry at rest shows the writes the tab was told of or says why not, and  *)
(* one in use that has no data is being fetched or failed.                  *)

Filled(e) == HasData(e) \/ IsFetching(e) \/ IsError(e)
Sound(e, T, active) == UpToDate(e, T, active) /\ (active => Filled(e))

LEMMA AskedIsSound ==
  ASSUME NEW e, IsEntry(e), NEW T, NEW b \in BOOLEAN
  PROVE  Sound(Ask(e), T, b) /\ Sound(Failed(e), T, b)
<1>1. UpToDate(Ask(e), T, b) /\ UpToDate(Failed(e), T, b)
  BY AskUpToDate, FailedUpToDate
<1>2. Filled(Ask(e))
  <2>1. Ask(e).fetch = Asked
    BY AskFields
  <2> QED
    BY <2>1 DEF Filled, IsFetching, Asked
<1>3. Filled(Failed(e))
  BY DEF Filled, Failed, IsError, IsEntry
<1> QED
  BY <1>1, <1>2, <1>3 DEF Sound

LEMMA ObservedIsSound ==
  ASSUME NEW e, NEW T, UpToDate(e, T, FALSE), NEW b \in BOOLEAN
  PROVE  Sound(Observed(e), T, b)
<1>1. UpToDate(Observed(e), T, b)
  BY ObservedUpToDate
<1>2. CASE ~ IsFetching(e) /\ (~ HasData(e) \/ e.invalid)
  BY <1>2, AskedIsSound DEF Observed, UpToDate
<1>3. CASE ~ (~ IsFetching(e) /\ (~ HasData(e) \/ e.invalid))
  BY <1>1, <1>3 DEF Observed, Filled, Sound
<1> QED
  BY <1>2, <1>3

LEMMA InvalidatedIsSound ==
  ASSUME NEW e, IsEntry(e), NEW T, NEW b \in BOOLEAN
  PROVE  Sound(Invalidated(e, b), T, b)
<1>1. PICK f : f = Invalidated(e, b)
  OBVIOUS
<1>2. UpToDate(f, T, b)
  BY <1>1, InvalidatedUpToDate
<1>3. /\ f.data = e.data
      /\ \/ f.fetch = Asked
         \/ f.fetch = e.fetch /\ (~ b \/ (IsFetching(e) /\ ~ HasData(e)))
  BY <1>1, InvalidatedFields
<1>4. b => Filled(f)
  BY <1>3 DEF Filled, IsFetching, Asked
<1> QED
  BY <1>1, <1>2, <1>4 DEF Sound

LEMMA AnsweredIsSound ==
  ASSUME NEW e, IsEntry(e), NEW d, NEW f, f = [e EXCEPT !.fetch = Answered(d)],
         NEW T, d.asOf >= T, NEW b \in BOOLEAN
  PROVE  Sound(f, T, b)
<1>1. UpToDate(f, T, b)
  BY AnsweredUpToDate
<1>2. Filled(f)
  BY DEF Filled, IsFetching, Answered, IsEntry
<1> QED
  BY <1>1, <1>2 DEF Sound

LEMMA ReceivedIsSound ==
  ASSUME NEW e, NEW T, UpToDate(e, T, FALSE), e.fetch.state = "answered",
         e.fetch.answer # NoData, NEW b \in BOOLEAN
  PROVE  Sound(Received(e), T, b)
<1>1. UpToDate(Received(e), T, b)
  BY ReceivedUpToDate
<1>2. Took(e, Received(e))
  BY ReceivedTakes DEF UpToDate
<1>3. Filled(Received(e))
  BY <1>2 DEF Filled, HasData, Took
<1> QED
  BY <1>1, <1>3 DEF Sound

LEMMA UnusedIsSound ==
  ASSUME NEW e, NEW T, NEW b \in BOOLEAN, Sound(e, T, b)
  PROVE  UpToDate(e, T, FALSE) /\ Sound(e, T, FALSE)
BY UnusedUpToDate DEF Sound

(* A response is never taken for no data.                                   *)
LEMMA ResponsesAreData ==
  ASSUME NEW x \in Keys, NEW d, ResponseFacts(x, d)
  PROVE  d # NoData
<1>1. PICK k \in Kinds, t \in {d.got} : k = x[1] /\ t = d.got
  BY KeyFacts
<1>2. t \in RigRows \cup WellRows \cup {NULL} \cup Rigs \cup Wells
  <2>1. Known \subseteq RigIds
    BY DEF Known
  <2>2. RowsOf(k) \subseteq RigRows \cup WellRows
    BY <2>1 DEF RowsOf, RigRows, WellRows
  <2>3. CASE RowFacts(k, t)
    BY <2>2, <2>3 DEF RowFacts
  <2>4. CASE ListFacts(k, x[3], t)
    <3>1. t = [i \in IdsOf(k) |-> t[i]] /\ \A i \in IdsOf(k) : t[i] = NULL \/ t[i] \in RowsOf(k)
      BY <2>4, Zenon DEF ListFacts, IsTable
    <3>2. CASE k = "rig"
      <4>1. RowsOf(k) = RigRows /\ IdsOf(k) = RigIds
        BY <3>2 DEF RowsOf, RigRows, IdsOf
      <4> QED
        BY <3>1, <4>1 DEF Rigs
    <3>3. CASE k = "well"
      <4>1. RowsOf(k) \subseteq WellRows /\ IdsOf(k) = WellIds
        BY <2>1, <3>3 DEF RowsOf, WellRows, IdsOf
      <4> QED
        BY <3>1, <4>1 DEF Wells
    <3> QED
      BY <3>2, <3>3 DEF Kinds
  <2> QED
    BY <1>1, <2>3, <2>4 DEF ResponseFacts
<1>3. d \in [got : RigRows \cup WellRows \cup {NULL} \cup Rigs \cup Wells, asOf : Nat]
  <2>1. d \in [got : {t}, asOf : Nat]
    BY <1>1 DEF ResponseFacts
  <2> QED
    BY <1>2, <2>1
<1> QED
  BY <1>3, DataAssumption DEF Rigs, Wells

InUse(x) == x \in Active(page, form)

EntriesInv == \A x \in Keys : Sound(cache[x], told[x[1]], InUse(x))

LEMMA ShowIsSound ==
  ASSUME NEW p, NEW c, NEW f, Show(p, c, f),
         \A x \in Keys : Sound(c[x], told'[x[1]], InUse(x))
  PROVE  EntriesInv'
<1>1. ASSUME NEW x \in Keys PROVE Sound(cache'[x], told'[x[1]], InUse(x)')
  <2>0. InUse(x) \in BOOLEAN /\ InUse(x)' \in BOOLEAN
    BY DEF InUse
  <2>1. PICK a \in BOOLEAN, b \in BOOLEAN, e \in {c[x]}, g \in {cache'[x]}, T \in {told'[x[1]]} :
           b = InUse(x) /\ a = InUse(x)'
    BY <2>0
  <2>2. Sound(e, T, b) /\ UpToDate(e, T, FALSE) /\ Sound(e, T, FALSE)
    BY <2>1, UnusedIsSound
  <2>3. \/ a /\ g = Observed(e)
        \/ a /\ b /\ g = e
        \/ ~ a /\ g = e
    BY <2>1 DEF Show, InUse
  <2>4. Sound(g, T, a)
    <3>1. CASE a /\ g = Observed(e)
      BY <2>2, <3>1, ObservedIsSound
    <3>2. CASE a /\ b /\ g = e
      <4>1. a = b
        BY <3>2
      <4> QED
        BY <2>2, <3>2, <4>1
    <3>3. CASE ~ a /\ g = e
      <4>1. a = FALSE
        BY <3>3
      <4> QED
        BY <2>2, <3>3, <4>1
    <3> QED
      BY <2>3, <3>1, <3>2, <3>3
  <2> QED
    BY <2>1, <2>4
<1> QED
  BY <1>1 DEF EntriesInv

(* Steps that change an entry, but not which are in use.                    *)
LEMMA EntryIsSound ==
  ASSUME EntriesInv, UNCHANGED <<page, form, told>>, NEW x \in Keys,
         \A y \in Keys \ {x} : cache'[y] = cache[y],
         \A T \in {told[x[1]]}, b \in BOOLEAN : Sound(cache[x], T, b) => Sound(cache'[x], T, b)
  PROVE  EntriesInv'
<1>1. ASSUME NEW y \in Keys PROVE Sound(cache'[y], told'[y[1]], InUse(y)')
  <2>0. InUse(y) \in BOOLEAN
    BY DEF InUse
  <2>1. PICK T \in {told[y[1]]}, b \in BOOLEAN : b = InUse(y)
    BY <2>0
  <2>2. Sound(cache[y], T, b)
    BY <2>1 DEF EntriesInv
  <2>3. told'[y[1]] = T /\ InUse(y)' = b
    BY <2>1 DEF InUse
  <2> QED
    BY <2>1, <2>2, <2>3
<1> QED
  BY <1>1 DEF EntriesInv

(* Steps that leave the entries, and take none more into use.               *)
LEMMA UsesAreSound ==
  ASSUME EntriesInv, UNCHANGED <<cache, told>>, Active(page, form)' \subseteq Active(page, form)
  PROVE  EntriesInv'
<1>1. ASSUME NEW x \in Keys PROVE Sound(cache'[x], told'[x[1]], InUse(x)')
  <2>0. InUse(x) \in BOOLEAN /\ InUse(x)' \in BOOLEAN
    BY DEF InUse
  <2>1. PICK a \in BOOLEAN, b \in BOOLEAN, e \in {cache[x]}, T \in {told[x[1]]} :
           b = InUse(x) /\ a = InUse(x)' /\ (a => b)
    BY <2>0 DEF InUse
  <2>2. Sound(e, T, b) /\ Sound(e, T, FALSE)
    BY <2>1, UnusedIsSound DEF EntriesInv
  <2>3. a = b \/ a = FALSE
    BY <2>1
  <2>4. Sound(e, T, a)
    BY <2>2, <2>3
  <2> QED
    BY <2>1, <2>4
<1> QED
  BY <1>1 DEF EntriesInv

(* The page is another, or has moved on, only in Show.                      *)
LEMMA SamePlaceUses ==
  ASSUME page'.at = page.at, page'.k = page.k, page'.i = page.i, page'.q = page.q,
         form' # NULL => form # NULL
  PROVE  Active(page, form)' \subseteq Active(page, form)
BY DEF Active, HasEntry, KeyOf

LEMMA ReceiveIsSound ==
  ASSUME IInv, EntriesInv, NEW x \in Keys, ReceiveGet(x)
  PROVE  EntriesInv'
<1>1. PICK e : /\ e \in {Failed(cache[x]), Received(cache[x])}
               /\ Show(page, [cache EXCEPT ![x] = e], form)
  BY DEF ReceiveGet
<1>2. PICK p, c : p = page /\ c = [cache EXCEPT ![x] = e]
  OBVIOUS
<1>3. PICK f : f = form
  OBVIOUS
<1>4. /\ c[x] = e /\ \A y \in Keys \ {x} : c[y] = cache[y]
      /\ told' = told /\ Show(p, c, f)
  BY <1>1, <1>2, <1>3 DEF IInv, CacheTypes, ReceiveGet
<1>5. cache[x].fetch.state = "answered" /\ IsEntry(cache[x])
  BY DEF ReceiveGet, IInv, CacheTypes
<1>6. cache[x].fetch.answer # NoData
  BY <1>5, EntriesHaveData, ResponsesAreData DEF IInv
<1>7. \A y \in Keys : Sound(c[y], told'[y[1]], InUse(y))
  <2>1. ASSUME NEW y \in Keys \ {x} PROVE Sound(c[y], told'[y[1]], InUse(y))
    BY <1>4, <2>1 DEF EntriesInv
  <2>2. Sound(c[x], told'[x[1]], InUse(x))
    <3>0. InUse(x) \in BOOLEAN
      BY DEF InUse
    <3>1. PICK T \in {told[x[1]]}, b \in BOOLEAN, d \in {cache[x]} : b = InUse(x) /\ d = cache[x]
      BY <3>0
    <3>2. Sound(d, T, b) /\ UpToDate(d, T, FALSE)
      BY <3>1, UnusedIsSound DEF EntriesInv
    <3>3. Sound(Received(d), T, b) /\ Sound(Failed(d), T, b)
      BY <1>5, <1>6, <3>1, <3>2, ReceivedIsSound, AskedIsSound
    <3>4. Sound(e, T, b)
      BY <1>1, <3>1, <3>3
    <3> QED
      BY <1>4, <3>1, <3>4
  <2> QED
    BY <2>1, <2>2
<1> QED
  BY <1>4, <1>7, ShowIsSound

LEMMA SucceedsIsSound ==
  ASSUME IInv, EntriesInv, NEW b \in calls, Succeeds(b)
  PROVE  EntriesInv'
<1>0. PICK k \in Kinds : k = b.k
  BY DEF IInv, CallsInv, IsCall
<1>1. PICK c : c = InvalidateKind(k)
  OBVIOUS
<1>2. PICK p, f : Show(p, c, f)
  BY <1>0, <1>1 DEF Succeeds
<1>3. \A l \in Kinds \ {k} : told'[l] = told[l]
  BY <1>0 DEF Succeeds, IInv, ServerTypes
<1>4. ASSUME NEW x \in Keys PROVE Sound(c[x], told'[x[1]], InUse(x))
  <2>0. InUse(x) \in BOOLEAN
    BY DEF InUse
  <2>1. PICK T \in {told'[x[1]]}, a \in BOOLEAN, e \in {cache[x]} : a = InUse(x)
    BY <2>0
  <2>2. IsEntry(e)
    BY <2>1 DEF IInv, CacheTypes
  <2>3. CASE x[1] = k
    <3>1. c[x] = Invalidated(cache[x], InUse(x))
      BY <1>1, <2>3 DEF InvalidateKind, InUse
    <3>2. c[x] = Invalidated(e, a)
      BY <2>1, <3>1
    <3>3. Sound(Invalidated(e, a), T, a)
      BY <2>2, InvalidatedIsSound
    <3> QED
      BY <2>1, <3>2, <3>3
  <2>4. CASE x[1] # k
    <3>1. c[x] = cache[x]
      BY <1>1, <2>4 DEF InvalidateKind
    <3>2. told'[x[1]] = told[x[1]]
      BY <1>3, <2>4, KeyFacts
    <3> QED
      BY <3>1, <3>2 DEF EntriesInv
  <2> QED
    BY <2>3, <2>4
<1> QED
  BY <1>2, <1>4, ShowIsSound

LEMMA StepIsSound ==
  ASSUME IInv, EntriesInv, [Next]_vars
  PROVE  EntriesInv'
<1>1. ASSUME NEW place, Visit(place) PROVE EntriesInv'
  <2>1. PICK p, f : Show(p, cache, f) /\ told' = told
    BY <1>1 DEF Visit
  <2>2. PICK c : c = cache
    OBVIOUS
  <2>3. \A x \in Keys : Sound(c[x], told'[x[1]], InUse(x))
    BY <2>1, <2>2 DEF EntriesInv
  <2> QED
    BY <2>1, <2>2, <2>3, ShowIsSound
<1>2. ASSUME UNCHANGED <<cache, told>>, PlaceOf(page)' = PlaceOf(page), form' # NULL => form # NULL
      PROVE  EntriesInv'
  <2>1. page'.at = page.at /\ page'.k = page.k /\ page'.i = page.i /\ page'.q = page.q
    BY <1>2 DEF PlaceOf, Place
  <2> QED
    BY <1>2, <2>1, SamePlaceUses, UsesAreSound
<1>3. ASSUME (\E f : Type(f)) \/ TypeSpudDate PROVE EntriesInv'
  BY <1>2, <1>3 DEF Type, TypeSpudDate, PlaceOf
<1>4. ASSUME NEW op, NEW row, Mutate(op, row) PROVE EntriesInv'
  BY <1>2, <1>4 DEF Mutate, PlaceOf, IInv, IsPage
<1>5. CASE RigCreatePage \/ RigEditPage \/ WellCreatePage \/ WellEditPage
  BY <1>4, <1>5 DEF RigCreatePage, RigEditPage, WellCreatePage, WellEditPage
<1>6. CASE DeleteRig \/ DeleteWell
  <2>1. CASE page' = [page EXCEPT !.confirming = ~ @] /\ UNCHANGED <<cache, form, told>>
    BY <1>2, <2>1 DEF PlaceOf, IInv, IsPage
  <2> QED
    BY <1>4, <1>6, <2>1 DEF DeleteRig, DeleteWell, DeleteButtons
<1>7. ASSUME NEW x \in Keys, ServeGet(x) PROVE EntriesInv'
  <2>1. PICK e, d : e = cache[x] /\ d = Serve(x)
    OBVIOUS
  <2>2. cache'[x] = [e EXCEPT !.fetch = Answered(d)] /\ IsEntry(e)
    BY <1>7, <2>1 DEF ServeGet, IInv, CacheTypes
  <2>3. d.asOf >= told[x[1]]
    <3>1. x[1] \in Kinds
      BY KeyFacts
    <3> QED
      BY <2>1, <3>1 DEF Serve, IInv, ServerTypes
  <2>4. ASSUME NEW T, T = told[x[1]], NEW b \in BOOLEAN PROVE Sound(cache'[x], T, b)
    <3>1. d.asOf >= T
      BY <2>3, <2>4
    <3>2. PICK f : f = cache'[x]
      OBVIOUS
    <3>3. Sound(f, T, b)
      BY <2>2, <2>4, <3>1, <3>2, AnsweredIsSound
    <3> QED
      BY <3>2, <3>3
  <2>5. UNCHANGED <<page, form, told>> /\ \A y \in Keys \ {x} : cache'[y] = cache[y]
    BY <1>7 DEF ServeGet
  <2> QED
    BY <2>4, <2>5, EntryIsSound
<1>8. ASSUME NEW x \in Keys, FailGet(x) \/ Refetch(x) PROVE EntriesInv'
  <2>1. PICK e : e = cache[x]
    OBVIOUS
  <2>2. cache'[x] \in {Failed(e), Ask(e)} /\ IsEntry(e)
    BY <1>8, <2>1 DEF FailGet, Refetch, IInv, CacheTypes
  <2>3. ASSUME NEW T, NEW b \in BOOLEAN PROVE Sound(cache'[x], T, b)
    BY <2>2, AskedIsSound
  <2>4. UNCHANGED <<page, form, told>> /\ \A y \in Keys \ {x} : cache'[y] = cache[y]
    <3>1. FailGet(x) => UNCHANGED <<page, form, told>> /\ \A y \in Keys \ {x} : cache'[y] = cache[y]
      BY DEF FailGet
    <3>2. Refetch(x) => UNCHANGED <<page, form, told>> /\ \A y \in Keys \ {x} : cache'[y] = cache[y]
      BY DEF Refetch
    <3> QED
      BY <1>8, <3>1, <3>2
  <2> QED
    BY <2>3, <2>4, EntryIsSound
<1>9. ASSUME NEW x \in Keys, ReceiveGet(x) PROVE EntriesInv'
  BY <1>9, ReceiveIsSound
<1>10. ASSUME NEW c \in calls, useRigMutation(c) \/ useWellMutation(c) PROVE EntriesInv'
  BY <1>10, SucceedsIsSound DEF useRigMutation, useWellMutation
<1>11. ASSUME NEW c \in calls, MutationFails(c) PROVE EntriesInv'
  BY <1>2, <1>11 DEF MutationFails, PlaceOf, IInv, IsPage
<1>12. ASSUME NEW c \in calls, ServeCall(c) \/ LoseCall(c) PROVE EntriesInv'
  BY <1>2, <1>12 DEF ServeCall, LoseCall, PlaceOf
<1>13. CASE OtherWrite
  BY <1>2, <1>13 DEF OtherWrite, PlaceOf
<1>14. CASE UNCHANGED vars
  BY <1>2, <1>14 DEF vars, PlaceOf
<1> QED
  BY <1>1, <1>3, <1>5, <1>6, <1>7, <1>8, <1>9, <1>10, <1>11, <1>12, <1>13, <1>14
     DEF Next, Operator, Network

LEMMA EntriesInvHolds == Spec => []EntriesInv
<1>1. Init => EntriesInv
  <2> SUFFICES ASSUME Init, NEW x \in Keys PROVE Sound(cache[x], told[x[1]], InUse(x))
    BY DEF EntriesInv
  <2>0. InUse(x) \in BOOLEAN
    BY DEF InUse
  <2>1. PICK T \in {told[x[1]]}, b \in BOOLEAN, e \in {EmptyEntry} : b = InUse(x)
    BY <2>0
  <2>2. IsEntry(e) /\ Sound(e, T, FALSE)
    <3>1. IsEntry(EmptyEntry) /\ ~ HasData(EmptyEntry) /\ EmptyEntry.fetch = Idle
      BY DEF IsEntry, HasData, EmptyEntry, Entry, Idle
    <3>2. IsEntry(e) /\ ~ HasData(e) /\ e.fetch = Idle
      BY <2>1, <3>1
    <3> QED
      BY <3>2 DEF Sound, UpToDate, Fresh, BringsFresh, Idle
  <2>3. cache[x] = IF InUse(x) THEN Ask(EmptyEntry) ELSE EmptyEntry
    BY DEF Init, InUse
  <2>4. CASE b = TRUE
    <3>1. Sound(Ask(e), T, b)
      BY <2>2, AskedIsSound
    <3> QED
      BY <2>1, <2>3, <2>4, <3>1
  <2>5. CASE b = FALSE
    BY <2>1, <2>2, <2>3, <2>5
  <2> QED
    BY <2>4, <2>5
<1>2. IInv /\ EntriesInv /\ [Next]_vars => EntriesInv'
  BY StepIsSound
<1> QED
  BY <1>1, <1>2, IInvHolds, PTL DEF Spec

(* After a save or a deletion of this tab was answered, every list and row  *)
(* of its kind at rest shows it, or is marked to be fetched when it is used,*)
(* or was overtaken while its first fetch was under way (useCreateRig,      *)
(* useUpdateRig and useDeleteRig in api/rigs.ts, and those of wells.ts).    *)
THEOREM FleetPagesReadTheirWrites == Spec => []ReadsItsWrites
<1>1. EntriesInv => ReadsItsWrites
  BY DEF EntriesInv, ReadsItsWrites, Sound, UpToDate, Fresh, InUse
<1> QED
  BY <1>1, EntriesInvHolds, PTL

(* Every list, detail and edit page shows its data, that it is loading, or  *)
(* that loading failed: what it uses is asked for when it mounts, and what  *)
(* is invalidated under it is asked for again or still on its way           *)
(* (RigsListPage.tsx, RigDetailPage.tsx, RigEditPage.tsx and the wells').   *)
THEOREM FleetPagesNeverBlank == Spec => []NeverBlank
<1>1. ASSUME IInv, EntriesInv, HasEntry(page) PROVE HasData(Shown) \/ IsLoading(Shown) \/ IsError(Shown)
  <2>1. PICK x \in Keys : x = KeyOf(page)
    BY <1>1, EntriesHaveKeys DEF IInv
  <2>2. InUse(x)
    BY <1>1, <2>1 DEF InUse, Active
  <2>3. Filled(cache[x])
    BY <1>1, <2>2 DEF EntriesInv, Sound
  <2> QED
    BY <2>1, <2>3 DEF Filled, Shown, IsLoading
<1>2. IInv /\ EntriesInv => NeverBlank
  BY <1>1 DEF NeverBlank
<1> QED
  BY <1>2, IInvHolds, EntriesInvHolds, PTL
=============================================================================
