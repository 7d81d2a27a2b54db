---------------------------- MODULE Fleet_proofs ----------------------------
(***************************************************************************)
(* Proofs about Fleet, for any number of workers, names and ids: the two   *)
(* constraints of the schema hold under every interleaving, no update is   *)
(* lost, a deleted row stays deleted, and the tables keep their types.     *)
(***************************************************************************)
EXTENDS Fleet, FiniteSetTheorems, TLAPS

(* The rows have their columns and ids the sequence has handed out, one row *)
(* per id.                                                                  *)
RowsOK(table, columns, seq) ==
  /\ seq \in Nat
  /\ \A r \in table : DOMAIN r = columns \cup {"id"} /\ r.id \in 1..seq
  /\ \A r, s \in table : r.id = s.id => r = s

(* What a request holds: the body of a PATCH, the id of a row that existed. *)
Holds(r, lastRig, lastWell) ==
  /\ {"op", "pc"} \subseteq DOMAIN r
  /\ r.op = "patch_rig" => r.patch \in RigPatches
  /\ r.op = "patch_well" => r.patch \in WellPatches
  /\ r.op = "delete_rig" => r.id \in 1..lastRig
  /\ r.op = "delete_well" => r.id \in 1..lastWell

ReqOK ==
  /\ req = [w \in Workers |-> req[w]]
  /\ \A w \in Workers : Holds(req[w], rigSeq, wellSeq)

UniqueNames(table) == \A r, s \in table : r.name = s.name => r = s

(* The inductive invariant.                                                 *)
FleetInv ==
  /\ RowsOK(rigs, RigFields, rigSeq)
  /\ RowsOK(wells, WellFields, wellSeq)
  /\ ReqOK
  /\ UniqueNames(rigs) /\ UniqueNames(wells)
  /\ NoDanglingRig
  /\ DeletedStaysDeleted

-----------------------------------------------------------------------------
(* What an UPDATE does to a table: row by row, and never to an id.          *)

LEMMA PatchedIsRowwise ==
  ASSUME NEW table, NEW r, \A s \in table : "id" \in DOMAIN s,
         "id" \notin DOMAIN r.patch
  PROVE  /\ PatchedTable(table, r) = {IF s.id = r.id THEN Patched(s, r) ELSE s : s \in table}
         /\ \A s \in table : Patched(s, r).id = s.id /\ DOMAIN Patched(s, r) = DOMAIN s
BY DEF PatchedTable, Row, Patched, Dirty

LEMMA PatchKeepsIds ==
  ASSUME NEW table, NEW r, \A s \in table : "id" \in DOMAIN s,
         "id" \notin DOMAIN r.patch, NEW i
  PROVE  Exists(PatchedTable(table, r), i) <=> Exists(table, i)
BY PatchedIsRowwise DEF Exists, Row

(* An UPDATE that the unique index accepts keeps the table in order.        *)
LEMMA PatchKeepsTable ==
  ASSUME NEW table, NEW columns, NEW seq, NEW r,
         RowsOK(table, columns, seq), UniqueNames(table), "name" \in columns,
         "id" \notin DOMAIN r.patch,
         "name" \in Dirty(r.patch, r.loaded) => ~ NameTaken(table, r.id, r.patch["name"])
  PROVE  /\ RowsOK(PatchedTable(table, r), columns, seq)
         /\ UniqueNames(PatchedTable(table, r))
<1> DEFINE New(s) == IF s.id = r.id THEN Patched(s, r) ELSE s
<1>1. /\ PatchedTable(table, r) = {New(s) : s \in table}
      /\ \A s \in table : New(s).id = s.id /\ DOMAIN New(s) = DOMAIN s
  BY PatchedIsRowwise DEF RowsOK
<1>2. \A s \in table : New(s).name = IF s.id = r.id /\ "name" \in Dirty(r.patch, r.loaded)
                                      THEN r.patch["name"] ELSE s.name
  BY DEF Patched, RowsOK
<1> HIDE DEF New
<1>3. RowsOK(PatchedTable(table, r), columns, seq)
  BY <1>1 DEF RowsOK
<1>4. ASSUME NEW s \in table, NEW t \in table, New(s).name = New(t).name PROVE s = t
  BY <1>2, <1>4 DEF RowsOK, UniqueNames, NameTaken, Named
<1>5. UniqueNames(PatchedTable(table, r))
  BY <1>1, <1>4 DEF UniqueNames
<1> QED
  BY <1>3, <1>5

(* So does an INSERT.                                                       *)
LEMMA InsertKeepsTable ==
  ASSUME NEW table, NEW columns, NEW seq, NEW row,
         RowsOK(table, columns, seq), UniqueNames(table),
         DOMAIN row = columns \cup {"id"}, row.id = seq + 1, ~ NameTaken(table, seq + 1, row.name)
  PROVE  /\ RowsOK(table \cup {row}, columns, seq + 1)
         /\ UniqueNames(table \cup {row})
<1>1. \A s \in table : s.name # row.name /\ s.id # row.id
  BY DEF RowsOK, NameTaken, Named
<1> QED
  BY <1>1 DEF RowsOK, UniqueNames

(* Fewer rows, or an id that was taken without a row, break nothing.        *)
LEMMA SubsetKeepsTable ==
  ASSUME NEW table, NEW columns, NEW seq, NEW subset \in SUBSET table,
         RowsOK(table, columns, seq), UniqueNames(table)
  PROVE  /\ RowsOK(subset, columns, seq) /\ RowsOK(subset, columns, seq + 1)
         /\ UniqueNames(subset)
BY DEF RowsOK, UniqueNames

-----------------------------------------------------------------------------
(* The invariant holds at first and every request keeps it.                 *)

LEMMA FleetInitInv == Init => FleetInv
BY DEF Init, FleetInv, RowsOK, ReqOK, Holds, UniqueNames, NoDanglingRig, DeletedStaysDeleted, Idle

(* A request that is no deletion that was done.                             *)
Undone(r) == r.op \in {"delete_rig", "delete_well"} => r.pc # "done"

(* A step of one request keeps the others in order.                         *)
LEMMA StepKeepsReqs ==
  ASSUME FleetInv, NEW w \in Workers, NEW r, Become(w, r), Holds(r, rigSeq', wellSeq'),
         rigSeq' \in Nat, wellSeq' \in Nat, rigSeq' >= rigSeq, wellSeq' >= wellSeq
  PROVE  /\ ReqOK'
         /\ req'[w] = r
         /\ \A u \in Workers \ {w} : req'[u] = req[u]
<1>1. req' = [u \in Workers |-> IF u = w THEN r ELSE req[u]]
  BY DEF FleetInv, ReqOK, Become
<1>2. /\ \A i \in 1..rigSeq : i \in 1..rigSeq'
      /\ \A i \in 1..wellSeq : i \in 1..wellSeq'
  BY DEF FleetInv, RowsOK
<1>3. \A u \in Workers \ {w} : Holds(req[u], rigSeq', wellSeq')
  BY <1>2 DEF FleetInv, ReqOK, Holds
<1>4. \A u \in Workers : Holds(req'[u], rigSeq', wellSeq')
  BY <1>1, <1>3
<1>5. req' = [u \in Workers |-> req'[u]]
  BY <1>1
<1> QED
  BY <1>1, <1>4, <1>5 DEF ReqOK

(* What a step that writes has to keep; ids are not used again.             *)
LEMMA WriteStep ==
  ASSUME FleetInv, NEW w \in Workers, NEW r, Become(w, r), Holds(r, rigSeq', wellSeq'),
         RowsOK(rigs, RigFields, rigSeq)', RowsOK(wells, WellFields, wellSeq)',
         UniqueNames(rigs)', UniqueNames(wells)', NoDanglingRig',
         rigSeq' >= rigSeq, wellSeq' >= wellSeq,
         \A s \in rigs' : s.id > rigSeq \/ Exists(rigs, s.id),
         \A s \in wells' : s.id > wellSeq \/ Exists(wells, s.id),
         Undone(r) \/ (/\ r.op = "delete_rig" => ~ Exists(rigs', r.id)
                       /\ r.op = "delete_well" => ~ Exists(wells', r.id))
  PROVE  FleetInv'
<1>1. rigSeq \in Nat /\ wellSeq \in Nat /\ rigSeq' \in Nat /\ wellSeq' \in Nat
  BY DEF FleetInv, RowsOK
<1>2. /\ ReqOK'
      /\ req'[w] = r
      /\ \A u \in Workers \ {w} : req'[u] = req[u]
  BY <1>1, StepKeepsReqs
<1>3. DeletedStaysDeleted'
  <2> SUFFICES ASSUME NEW u \in Workers, req'[u].pc = "done", req'[u].code = 204
               PROVE  /\ req'[u].op = "delete_rig" => ~ Exists(rigs', req'[u].id)
                      /\ req'[u].op = "delete_well" => ~ Exists(wells', req'[u].id)
    BY DEF DeletedStaysDeleted, Exists, Row
  <2>1. CASE u = w
    BY <1>2, <2>1 DEF Undone
  <2>2. CASE u # w
    <3>1. req'[u] = req[u] /\ Holds(req[u], rigSeq, wellSeq)
      BY <1>2, <2>2 DEF FleetInv, ReqOK
    <3>2. /\ req[u].op = "delete_rig" => req[u].id \in 1..rigSeq /\ ~ Exists(rigs, req[u].id)
          /\ req[u].op = "delete_well" => req[u].id \in 1..wellSeq /\ ~ Exists(wells, req[u].id)
      BY <3>1 DEF Holds, FleetInv, DeletedStaysDeleted
    <3> QED
      BY <1>1, <3>1, <3>2 DEF Exists, Row
  <2> QED
    BY <2>1, <2>2
<1> QED
  BY <1>2, <1>3 DEF FleetInv

(* A step that leaves the tables alone and finishes no deletion.            *)
LEMMA QuietStep ==
  ASSUME FleetInv, NEW w \in Workers, NEW r, Become(w, r),
         Holds(r, rigSeq, wellSeq), Undone(r), UNCHANGED <<tables, seqs>>
  PROVE  FleetInv'
<1>1. rigs' = rigs /\ wells' = wells /\ rigSeq' = rigSeq /\ wellSeq' = wellSeq
  BY DEF tables, seqs
<1>2. /\ RowsOK(rigs, RigFields, rigSeq)' /\ RowsOK(wells, WellFields, wellSeq)'
      /\ UniqueNames(rigs)' /\ UniqueNames(wells)'
  BY <1>1 DEF FleetInv
<1>3. NoDanglingRig'
  BY <1>1 DEF FleetInv, NoDanglingRig, Exists, Row
<1>4. rigSeq' >= rigSeq /\ wellSeq' >= wellSeq
  BY <1>1 DEF FleetInv, RowsOK
<1>5. /\ \A s \in rigs' : Exists(rigs, s.id)
      /\ \A s \in wells' : Exists(wells, s.id)
  BY <1>1 DEF Exists, Row
<1> QED
  BY <1>1, <1>2, <1>3, <1>4, <1>5, WriteStep

(* What Goto, Answer and a lost connection make of a request.               *)
LEMMA GoOn ==
  ASSUME FleetInv, NEW w \in Workers, NEW pc, Goto(w, pc), pc # "done"
  PROVE  \E r : /\ Become(w, r) /\ r.op = req[w].op /\ r.pc = pc
                /\ Holds(r, rigSeq, wellSeq) /\ Undone(r)
<1> DEFINE r == [req[w] EXCEPT !.pc = pc]
<1>1. Become(w, r)
  BY DEF Goto, Become
<1>2. Holds(req[w], rigSeq, wellSeq)
  BY DEF FleetInv, ReqOK
<1>3. r.op = req[w].op /\ r.pc = pc /\ DOMAIN r = DOMAIN req[w]
      /\ r.id = req[w].id /\ r.patch = req[w].patch
  BY <1>2 DEF Holds
<1>4. Holds(r, rigSeq, wellSeq) /\ Undone(r)
  BY <1>2, <1>3 DEF Holds, Undone
<1> QED
  BY <1>1, <1>3, <1>4

LEMMA EndedHolds ==
  ASSUME NEW code, NEW m, NEW n
  PROVE  Holds([Idle EXCEPT !.code = code], m, n) /\ Undone([Idle EXCEPT !.code = code])
BY DEF Idle, Holds, Undone

(* A request that goes on, is answered or lost, but for a deletion's 204.   *)
Moves(w) == \E r : Become(w, r) /\ Holds(r, rigSeq, wellSeq) /\ Undone(r)

LEMMA AnswerMoves ==
  ASSUME FleetInv, NEW w \in Workers, NEW code, Answer(w, code),
         code # 204 \/ req[w].op \notin {"delete_rig", "delete_well"}
  PROVE  Moves(w)
BY EndedHolds DEF Answer, Moves

(* A request starts: it looks at the tables.                                *)
LEMMA StartKeepsInv ==
  ASSUME FleetInv, NEW w \in Workers, Start(w)
  PROVE  FleetInv'
<1>1. UNCHANGED <<tables, seqs>>
  BY DEF Start, StartCreateRig, StartCreateWell, StartPatchRig, StartDeleteRig,
         StartPatchWell, StartDeleteWell
<1>2. ASSUME NEW code, Refuse(w, code) PROVE Moves(w)
  BY <1>2, EndedHolds DEF Refuse, Moves
<1>3. Moves(w)
  <2>1. ASSUME NEW name \in Names, NEW d \in Details, StartCreateRig(w, name, d) PROVE Moves(w)
    BY <2>1, <1>2 DEF StartCreateRig, Holds, Undone, Moves
  <2>2. ASSUME NEW name \in Names, NEW d \in Details, NEW rig \in RigIds \cup {None},
               StartCreateWell(w, name, d, rig)
        PROVE  Moves(w)
    BY <2>2, <1>2 DEF StartCreateWell, Holds, Undone, Moves
  <2>3. ASSUME NEW id \in RigIds, NEW patch \in RigPatches, StartPatchRig(w, id, patch) PROVE Moves(w)
    <3>1. ASSUME NEW row, NEW pc, NEW r,
                 r = [op |-> "patch_rig", id |-> id, loaded |-> row, patch |-> patch, pc |-> pc]
          PROVE  Holds(r, rigSeq, wellSeq) /\ Undone(r)
      BY <3>1 DEF Holds, Undone
    <3> QED
      BY <2>3, <1>2, <3>1 DEF StartPatchRig, Moves
  <2>4. ASSUME NEW id \in RigIds, StartDeleteRig(w, id) PROVE Moves(w)
    BY <2>4, <1>2 DEF StartDeleteRig, Holds, Undone, Moves, Exists, Row, FleetInv, RowsOK
  <2>5. ASSUME NEW id \in WellIds, NEW patch \in WellPatches, StartPatchWell(w, id, patch) PROVE Moves(w)
    <3>1. ASSUME NEW row, NEW pc, NEW r,
                 r = [op |-> "patch_well", id |-> id, loaded |-> row, patch |-> patch, pc |-> pc]
          PROVE  Holds(r, rigSeq, wellSeq) /\ Undone(r)
      BY <3>1 DEF Holds, Undone
    <3> QED
      BY <2>5, <1>2, <3>1 DEF StartPatchWell, Moves
  <2>6. ASSUME NEW id \in WellIds, StartDeleteWell(w, id) PROVE Moves(w)
    BY <2>6, <1>2 DEF StartDeleteWell, Holds, Undone, Moves, Exists, Row, FleetInv, RowsOK
  <2> QED
    BY <2>1, <2>2, <2>3, <2>4, <2>5, <2>6 DEF Start
<1> QED
  BY <1>1, <1>3, QuietStep DEF Moves

(* A request looks again, or is lost.                                       *)
LEMMA LookKeepsInv ==
  ASSUME FleetInv, NEW w \in Workers,
         CheckRigName(w) \/ RefreshRig(w) \/ SelectWellsOfRig(w) \/ CheckRig(w)
           \/ CheckWellName(w) \/ RefreshWell(w) \/ Lose(w)
  PROVE  FleetInv'
<1>1. UNCHANGED <<tables, seqs>>
  BY DEF CheckRigName, RefreshRig, SelectWellsOfRig, CheckRig, CheckWellName, RefreshWell, Lose
<1>2. ASSUME NEW pc, pc # "done", Goto(w, pc) PROVE Moves(w)
  BY <1>2, GoOn DEF Moves
<1>3. Moves(w)
  <2>1. ASSUME CheckRigName(w) PROVE Moves(w)
    BY <2>1, <1>2, AnswerMoves DEF CheckRigName, At
  <2>2. ASSUME CheckWellName(w) PROVE Moves(w)
    BY <2>2, <1>2, AnswerMoves DEF CheckWellName, At, NextCheck
  <2>3. ASSUME CheckRig(w) PROVE Moves(w)
    BY <2>3, <1>2, AnswerMoves DEF CheckRig, At
  <2>4. ASSUME RefreshRig(w) PROVE Moves(w)
    BY <2>4, AnswerMoves DEF RefreshRig, At
  <2>5. ASSUME RefreshWell(w) PROVE Moves(w)
    BY <2>5, AnswerMoves DEF RefreshWell, At
  <2>6. ASSUME SelectWellsOfRig(w) PROVE Moves(w)
    <3> DEFINE ids == {v.id : v \in On(req[w].id)}
               r == [req[w] EXCEPT !.pc = "flush", !.cleared = ids]
    <3>1. Become(w, r)
      BY <2>6 DEF SelectWellsOfRig, Become
    <3>2. Holds(req[w], rigSeq, wellSeq) /\ req[w].op = "delete_rig"
      BY <2>6 DEF SelectWellsOfRig, At, FleetInv, ReqOK
    <3>3. r.op = req[w].op /\ r.pc = "flush" /\ r.id = req[w].id /\ DOMAIN r = DOMAIN req[w]
      BY <3>2 DEF Holds
    <3> QED
      BY <3>1, <3>2, <3>3 DEF Moves, Holds, Undone
  <2>7. ASSUME Lose(w) PROVE Moves(w)
    BY <2>7 DEF Lose, Idle, Holds, Undone, Moves
  <2> QED
    BY <2>1, <2>2, <2>3, <2>4, <2>5, <2>6, <2>7
<1> QED
  BY <1>1, <1>3, QuietStep DEF Moves

-----------------------------------------------------------------------------
(* The six writes.                                                          *)

(* A write that is refused: the id it took is lost.                         *)
LEMMA RefusedWrite ==
  ASSUME FleetInv, NEW w \in Workers, NEW code, code # 204, Answer(w, code), UNCHANGED tables,
         \/ rigSeq' = rigSeq /\ wellSeq' = wellSeq
         \/ rigSeq' = rigSeq + 1 /\ wellSeq' = wellSeq
         \/ rigSeq' = rigSeq /\ wellSeq' = wellSeq + 1
  PROVE  FleetInv'
<1> DEFINE r == [Idle EXCEPT !.code = code]
<1>1. Become(w, r) /\ Holds(r, rigSeq', wellSeq') /\ Undone(r)
  BY EndedHolds DEF Answer
<1>2. rigs' = rigs /\ wells' = wells
  BY DEF tables
<1>3. rigSeq' >= rigSeq /\ wellSeq' >= wellSeq
  BY DEF FleetInv, RowsOK
<1>4. /\ RowsOK(rigs, RigFields, rigSeq)' /\ RowsOK(wells, WellFields, wellSeq)'
      /\ UniqueNames(rigs)' /\ UniqueNames(wells)'
  <2>1. /\ rigSeq' \in {rigSeq, rigSeq + 1} /\ wellSeq' \in {wellSeq, wellSeq + 1}
    OBVIOUS
  <2>2. /\ RowsOK(rigs, RigFields, rigSeq') /\ RowsOK(wells, WellFields, wellSeq')
        /\ UniqueNames(rigs) /\ UniqueNames(wells)
    BY <2>1, SubsetKeepsTable DEF FleetInv
  <2> QED
    BY <1>2, <2>2
<1>5. NoDanglingRig'
  BY <1>2 DEF FleetInv, NoDanglingRig, Exists, Row
<1>6. /\ \A s \in rigs' : Exists(rigs, s.id)
      /\ \A s \in wells' : Exists(wells, s.id)
  BY <1>2 DEF Exists, Row
<1> QED
  BY <1>1, <1>3, <1>4, <1>5, <1>6, WriteStep

(* An UPDATE or INSERT leaves its request at the refresh.                   *)
LEMMA ToRefresh ==
  ASSUME FleetInv, NEW w \in Workers, NEW id,
         req[w].op \notin {"delete_rig", "delete_well"},
         \/ Goto(w, "refresh")
         \/ req' = [req EXCEPT ![w].pc = "refresh", ![w].id = id]
  PROVE  \E r : Become(w, r) /\ Undone(r) /\ \A m, n : Holds(r, m, n)
<1>1. Holds(req[w], rigSeq, wellSeq)
  BY DEF FleetInv, ReqOK
<1>2. CASE Goto(w, "refresh")
  <2> DEFINE r == [req[w] EXCEPT !.pc = "refresh"]
  <2>1. Become(w, r)
    BY <1>2 DEF Goto, Become
  <2>2. r.op = req[w].op /\ r.pc = "refresh" /\ r.patch = req[w].patch /\ DOMAIN r = DOMAIN req[w]
    BY <1>1 DEF Holds
  <2> QED
    BY <1>1, <2>1, <2>2 DEF Holds, Undone
<1>3. CASE req' = [req EXCEPT ![w].pc = "refresh", ![w].id = id]
  <2> DEFINE r == [req[w] EXCEPT !.pc = "refresh", !.id = id]
  <2>1. Become(w, r)
    BY <1>3 DEF FleetInv, ReqOK, Become
  <2>2. r.op = req[w].op /\ r.pc = "refresh" /\ r.patch = req[w].patch /\ DOMAIN r = DOMAIN req[w]
    BY <1>1 DEF Holds
  <2> QED
    BY <1>1, <2>1, <2>2 DEF Holds, Undone
<1> QED
  BY <1>2, <1>3

LEMMA InsertRigKeepsInv ==
  ASSUME FleetInv, NEW w \in Workers, InsertRig(w)
  PROVE  FleetInv'
<1> DEFINE name == req[w].row.name
           row == [id |-> rigSeq + 1, name |-> name, detail |-> req[w].row.detail]
<1>1. rigSeq' = rigSeq + 1 /\ wells' = wells /\ wellSeq' = wellSeq
  BY DEF InsertRig
<1>2. CASE NameTaken(rigs, rigSeq + 1, name)
  BY <1>1, <1>2, RefusedWrite DEF InsertRig, tables
<1>3. CASE ~ NameTaken(rigs, rigSeq + 1, name)
  <2>1. rigs' = rigs \cup {row}
    BY <1>3 DEF InsertRig
  <2>2. PICK r : Become(w, r) /\ Undone(r) /\ \A m, n : Holds(r, m, n)
    BY <1>3, ToRefresh DEF InsertRig, At
  <2>3. RowsOK(rigs, RigFields, rigSeq)' /\ UniqueNames(rigs)'
    <3>1. DOMAIN row = RigFields \cup {"id"} /\ row.id = rigSeq + 1 /\ row.name = name
      BY DEF RigFields
    <3> QED
      BY <1>1, <1>3, <2>1, <3>1, InsertKeepsTable DEF FleetInv
  <2>4. RowsOK(wells, WellFields, wellSeq)' /\ UniqueNames(wells)'
    BY <1>1 DEF FleetInv
  <2>5. NoDanglingRig'
    BY <1>1, <2>1 DEF FleetInv, NoDanglingRig, Exists, Row
  <2>6. /\ rigSeq' >= rigSeq /\ wellSeq' >= wellSeq
        /\ \A s \in rigs' : s.id > rigSeq \/ Exists(rigs, s.id)
        /\ \A s \in wells' : Exists(wells, s.id)
    BY <1>1, <2>1 DEF FleetInv, RowsOK, Exists, Row
  <2> QED
    BY <2>2, <2>3, <2>4, <2>5, <2>6, WriteStep
<1> QED
  BY <1>2, <1>3

LEMMA InsertWellKeepsInv ==
  ASSUME FleetInv, NEW w \in Workers, InsertWell(w)
  PROVE  FleetInv'
<1> DEFINE name == req[w].row.name
           rig == req[w].row.rig
           row == [id |-> wellSeq + 1, name |-> name, detail |-> req[w].row.detail, rig |-> rig]
           refused == NameTaken(wells, wellSeq + 1, name) \/ Dangling(rig)
<1>1. wellSeq' = wellSeq + 1 /\ rigs' = rigs /\ rigSeq' = rigSeq
  BY DEF InsertWell
<1>2. CASE refused
  BY <1>1, <1>2, RefusedWrite DEF InsertWell, tables
<1>3. CASE ~ refused
  <2>1. wells' = wells \cup {row}
    BY <1>3 DEF InsertWell
  <2>2. PICK r : Become(w, r) /\ Undone(r) /\ \A m, n : Holds(r, m, n)
    BY <1>3, ToRefresh DEF InsertWell, At
  <2>3. RowsOK(wells, WellFields, wellSeq)' /\ UniqueNames(wells)'
    <3>1. DOMAIN row = WellFields \cup {"id"} /\ row.id = wellSeq + 1 /\ row.name = name
      BY DEF WellFields
    <3> QED
      BY <1>1, <1>3, <2>1, <3>1, InsertKeepsTable DEF FleetInv
  <2>4. RowsOK(rigs, RigFields, rigSeq)' /\ UniqueNames(rigs)'
    BY <1>1 DEF FleetInv
  <2>5. NoDanglingRig'
    BY <1>1, <1>3, <2>1 DEF FleetInv, NoDanglingRig, Exists, Row, Dangling
  <2>6. /\ rigSeq' >= rigSeq /\ wellSeq' >= wellSeq
        /\ \A s \in wells' : s.id > wellSeq \/ Exists(wells, s.id)
        /\ \A s \in rigs' : Exists(rigs, s.id)
    BY <1>1, <2>1 DEF FleetInv, RowsOK, Exists, Row
  <2> QED
    BY <2>2, <2>3, <2>4, <2>5, <2>6, WriteStep
<1> QED
  BY <1>2, <1>3

LEMMA UpdateRigKeepsInv ==
  ASSUME FleetInv, NEW w \in Workers, UpdateRig(w)
  PROVE  FleetInv'
<1> DEFINE r == req[w]
           dirty == Dirty(r.patch, r.loaded)
           refused == dirty # {} /\ (\/ ~ Exists(rigs, r.id)
                                     \/ "name" \in dirty /\ NameTaken(rigs, r.id, r.patch["name"]))
<1>1. wells' = wells /\ wellSeq' = wellSeq /\ rigSeq' = rigSeq
  BY DEF UpdateRig, seqs
<1>2. CASE refused
  BY <1>1, <1>2, RefusedWrite DEF UpdateRig, tables
<1>3. CASE ~ refused
  <2>1. rigs' = PatchedTable(rigs, r) /\ Goto(w, "refresh")
    BY <1>3 DEF UpdateRig
  <2>2. r.op = "patch_rig" /\ "id" \notin DOMAIN r.patch
    BY FleetAssumption DEF UpdateRig, At, FleetInv, ReqOK, Holds, RigFields
  <2>3. PICK q : Become(w, q) /\ Undone(q) /\ \A m, n : Holds(q, m, n)
    BY <2>1, <2>2, ToRefresh
  <2>4. RowsOK(rigs, RigFields, rigSeq)' /\ UniqueNames(rigs)'
    <3>1. "name" \in dirty => ~ NameTaken(rigs, r.id, r.patch["name"])
      BY <1>3
    <3>2. "name" \in RigFields
      BY DEF RigFields
    <3> HIDE DEF r, dirty, refused
    <3> QED
      BY <1>1, <2>1, <2>2, <3>1, <3>2, PatchKeepsTable DEF FleetInv, r, dirty
  <2>5. RowsOK(wells, WellFields, wellSeq)' /\ UniqueNames(wells)'
    BY <1>1 DEF FleetInv
  <2>6. \A i : Exists(rigs', i) <=> Exists(rigs, i)
    BY <2>1, <2>2, PatchKeepsIds DEF FleetInv, RowsOK
  <2>7. NoDanglingRig'
    BY <1>1, <2>6 DEF FleetInv, NoDanglingRig, Exists, Row
  <2>8. rigSeq' >= rigSeq /\ wellSeq' >= wellSeq
    BY <1>1 DEF FleetInv, RowsOK
  <2>9. /\ \A s \in rigs' : Exists(rigs, s.id)
        /\ \A s \in wells' : Exists(wells, s.id)
    BY <1>1, <2>6 DEF Exists, Row
  <2> QED
    BY <2>3, <2>4, <2>5, <2>7, <2>8, <2>9, WriteStep
<1> QED
  BY <1>2, <1>3

LEMMA UpdateWellKeepsInv ==
  ASSUME FleetInv, NEW w \in Workers, UpdateWell(w)
  PROVE  FleetInv'
<1> DEFINE r == req[w]
           dirty == Dirty(r.patch, r.loaded)
           refused == dirty # {} /\ (\/ ~ Exists(wells, r.id)
                                     \/ "name" \in dirty /\ NameTaken(wells, r.id, r.patch["name"])
                                     \/ "rig" \in dirty /\ Dangling(r.patch["rig"]))
<1>1. rigs' = rigs /\ wellSeq' = wellSeq /\ rigSeq' = rigSeq
  BY DEF UpdateWell, seqs
<1>2. CASE refused
  BY <1>1, <1>2, RefusedWrite DEF UpdateWell, tables
<1>3. CASE ~ refused
  <2>1. wells' = PatchedTable(wells, r) /\ Goto(w, "refresh")
    BY <1>3 DEF UpdateWell
  <2>2. r.op = "patch_well" /\ "id" \notin DOMAIN r.patch
    BY FleetAssumption DEF UpdateWell, At, FleetInv, ReqOK, Holds, WellFields
  <2>3. PICK q : Become(w, q) /\ Undone(q) /\ \A m, n : Holds(q, m, n)
    BY <2>1, <2>2, ToRefresh
  <2>4. RowsOK(wells, WellFields, wellSeq)' /\ UniqueNames(wells)'
    <3>1. "name" \in dirty => ~ NameTaken(wells, r.id, r.patch["name"])
      BY <1>3
    <3>2. "name" \in WellFields
      BY DEF WellFields
    <3> HIDE DEF r, dirty, refused
    <3> QED
      BY <1>1, <2>1, <2>2, <3>1, <3>2, PatchKeepsTable DEF FleetInv, r, dirty
  <2>5. RowsOK(rigs, RigFields, rigSeq)' /\ UniqueNames(rigs)'
    BY <1>1 DEF FleetInv
  <2>6. \A i : Exists(wells', i) <=> Exists(wells, i)
    BY <2>1, <2>2, PatchKeepsIds DEF FleetInv, RowsOK
  <2>7. NoDanglingRig'
    <3>1. wells' = {IF v.id = r.id THEN Patched(v, r) ELSE v : v \in wells}
      BY <2>1, <2>2, PatchedIsRowwise DEF FleetInv, RowsOK
    <3>2. \A v \in wells : Patched(v, r).rig = IF "rig" \in dirty THEN r.patch["rig"] ELSE v.rig
      BY DEF Patched, FleetInv, RowsOK, WellFields
    <3>3. "rig" \in dirty => ~ Dangling(r.patch["rig"])
      BY <1>3
    <3> HIDE DEF r, dirty, refused
    <3> QED
      BY <1>1, <3>1, <3>2, <3>3 DEF FleetInv, NoDanglingRig, Exists, Row, Dangling
  <2>8. rigSeq' >= rigSeq /\ wellSeq' >= wellSeq
    BY <1>1 DEF FleetInv, RowsOK
  <2>9. /\ \A s \in rigs' : Exists(rigs, s.id)
        /\ \A s \in wells' : Exists(wells, s.id)
    BY <1>1, <2>6 DEF Exists, Row
  <2> QED
    BY <2>3, <2>4, <2>5, <2>7, <2>8, <2>9, WriteStep
<1> QED
  BY <1>2, <1>3

LEMMA DeleteWellKeepsInv ==
  ASSUME FleetInv, NEW w \in Workers, DeleteWell(w)
  PROVE  FleetInv'
<1> DEFINE id == req[w].id
           r == [op |-> "delete_well", pc |-> "done", code |-> 204, id |-> id]
<1>1. rigs' = rigs /\ wells' = wells \ Row(wells, id) /\ rigSeq' = rigSeq /\ wellSeq' = wellSeq
  BY DEF DeleteWell, seqs
<1>2. Become(w, r)
  BY DEF DeleteWell, Answer, At
<1>3. Holds(r, rigSeq', wellSeq')
  BY <1>1 DEF DeleteWell, At, FleetInv, ReqOK, Holds
<1>4. ~ Exists(wells', r.id)
  BY <1>1 DEF Exists, Row
<1>5. RowsOK(rigs, RigFields, rigSeq)' /\ UniqueNames(rigs)'
  BY <1>1 DEF FleetInv
<1>6. RowsOK(wells, WellFields, wellSeq)' /\ UniqueNames(wells)'
  BY <1>1, SubsetKeepsTable DEF FleetInv
<1>7. NoDanglingRig'
  BY <1>1 DEF FleetInv, NoDanglingRig, Exists, Row
<1>8. /\ rigSeq' >= rigSeq /\ wellSeq' >= wellSeq
      /\ \A s \in rigs' : Exists(rigs, s.id)
      /\ \A s \in wells' : Exists(wells, s.id)
  BY <1>1 DEF FleetInv, RowsOK, Exists, Row
<1> QED
  BY <1>2, <1>3, <1>4, <1>5, <1>6, <1>7, <1>8, WriteStep

(* The wells a rig's deletion found on it, and those on it by then.         *)
LEMMA DeleteRigKeepsInv ==
  ASSUME FleetInv, NEW w \in Workers, DeleteRig(w)
  PROVE  FleetInv'
<1> DEFINE q == req[w]
           stale == \E i \in q.cleared : ~ Exists(wells, i)
           New(v) == IF v.id \in Cleared(q) THEN [v EXCEPT !.rig = None] ELSE v
           r == [op |-> "delete_rig", pc |-> "done", code |-> 204, id |-> q.id]
<1>1. rigSeq' = rigSeq /\ wellSeq' = wellSeq
  BY DEF DeleteRig, seqs
<1>2. CASE stale
  BY <1>1, <1>2, RefusedWrite DEF DeleteRig
<1>3. CASE ~ stale
  <2>1. rigs' = rigs \ Row(rigs, q.id) /\ wells' = {New(v) : v \in wells}
    BY <1>3 DEF DeleteRig
  <2>2. Become(w, r)
    BY <1>3 DEF DeleteRig, Answer, At
  <2>3. Holds(r, rigSeq', wellSeq')
    BY <1>1 DEF DeleteRig, At, FleetInv, ReqOK, Holds
  <2>4. ~ Exists(rigs', r.id)
    BY <2>1 DEF Exists, Row
  <2>5. \A v \in wells : /\ New(v).id = v.id /\ New(v).name = v.name /\ DOMAIN New(v) = DOMAIN v
                         /\ New(v).rig = None \/ (New(v).rig = v.rig /\ v.rig # q.id)
    <3> SUFFICES ASSUME NEW v \in wells
                 PROVE  /\ New(v).id = v.id /\ New(v).name = v.name /\ DOMAIN New(v) = DOMAIN v
                        /\ New(v).rig = None \/ (New(v).rig = v.rig /\ v.rig # q.id)
      OBVIOUS
    <3>1. {"id", "name", "rig"} \subseteq DOMAIN v
      BY DEF FleetInv, RowsOK, WellFields
    <3>2. v.rig = q.id => v.id \in Cleared(q)
      BY DEF Cleared, On
    <3> QED
      BY <3>1, <3>2
  <2> HIDE DEF New
  <2>6. RowsOK(wells, WellFields, wellSeq)'
    BY <1>1, <2>1, <2>5 DEF FleetInv, RowsOK
  <2>7. UniqueNames(wells)'
    BY <2>1, <2>5 DEF FleetInv, UniqueNames
  <2>8. RowsOK(rigs, RigFields, rigSeq)' /\ UniqueNames(rigs)'
    BY <1>1, <2>1, SubsetKeepsTable DEF FleetInv
  <2>9. NoDanglingRig'
    BY <2>1, <2>5 DEF FleetInv, NoDanglingRig, Exists, Row
  <2>10. /\ rigSeq' >= rigSeq /\ wellSeq' >= wellSeq
         /\ \A s \in rigs' : Exists(rigs, s.id)
         /\ \A s \in wells' : Exists(wells, s.id)
    BY <1>1, <2>1, <2>5 DEF FleetInv, RowsOK, Exists, Row
  <2> QED
    BY <2>2, <2>3, <2>4, <2>6, <2>7, <2>8, <2>9, <2>10, WriteStep
<1> QED
  BY <1>2, <1>3

LEMMA FleetNextInv == FleetInv /\ [Next]_vars => FleetInv'
<1> SUFFICES ASSUME FleetInv, [Next]_vars PROVE FleetInv'
  OBVIOUS
<1>1. ASSUME NEW w \in Workers, Start(w) PROVE FleetInv'
  BY <1>1, StartKeepsInv
<1>2. ASSUME NEW w \in Workers, Step(w) PROVE FleetInv'
  BY <1>2, LookKeepsInv, InsertRigKeepsInv, UpdateRigKeepsInv, DeleteRigKeepsInv,
     InsertWellKeepsInv, UpdateWellKeepsInv, DeleteWellKeepsInv DEF Step
<1>3. ASSUME NEW w \in Workers, Lose(w) PROVE FleetInv'
  BY <1>3, LookKeepsInv
<1>4. CASE UNCHANGED vars
  <2>1. /\ rigs' = rigs /\ wells' = wells /\ rigSeq' = rigSeq /\ wellSeq' = wellSeq /\ req' = req
    BY <1>4 DEF vars, tables, seqs
  <2>2. NoDanglingRig' /\ DeletedStaysDeleted'
    BY <2>1 DEF FleetInv, NoDanglingRig, DeletedStaysDeleted, Exists, Row
  <2> QED
    BY <2>1, <2>2 DEF FleetInv, ReqOK
<1> QED
  BY <1>1, <1>2, <1>3, <1>4 DEF Next

LEMMA FleetAlwaysInv == Spec => []FleetInv
BY FleetInitInv, FleetNextInv, PTL DEF Spec

(* However many requests find a name free at the same time, one rig and one *)
(* well have it: services/rigs.py and wells.py check it in a SELECT before. *)
THEOREM FleetNamesAreUnique == Spec => []NamesAreUnique
<1>1. FleetInv => NamesAreUnique
  BY DEF FleetInv, UniqueNames, NamesAreUnique
<1> QED
  BY <1>1, FleetAlwaysInv, PTL

(* No well is left on a rig that was deleted while the well was created or  *)
(* assigned, for any number of concurrent requests.                         *)
THEOREM FleetNoDanglingRig == Spec => []NoDanglingRig
<1>1. FleetInv => NoDanglingRig
  BY DEF FleetInv
<1> QED
  BY <1>1, FleetAlwaysInv, PTL

(* A rig or well whose deletion was answered 204 does not come back.        *)
THEOREM FleetDeletedStaysDeleted == Spec => []DeletedStaysDeleted
<1>1. FleetInv => DeletedStaysDeleted
  BY DEF FleetInv
<1> QED
  BY <1>1, FleetAlwaysInv, PTL

-----------------------------------------------------------------------------
(* No lost update.                                                          *)

(* An UPDATE changes a column only to the value its PATCH has for it.       *)
LEMMA UpdateChangesWhatWasAsked ==
  ASSUME NEW table, NEW columns, NEW seq, NEW r, NEW x \in table, NEW y \in PatchedTable(table, r),
         RowsOK(table, columns, seq), "id" \notin DOMAIN r.patch, x.id = y.id,
         NEW f \in columns, x[f] # y[f]
  PROVE  r.id = x.id /\ f \in DOMAIN r.patch /\ r.patch[f] = y[f]
<1>1. PICK z \in table : y = IF z.id = r.id THEN Patched(z, r) ELSE z
  BY PatchedIsRowwise DEF RowsOK
<1>2. z = x
  BY <1>1, PatchedIsRowwise DEF RowsOK
<1>3. x.id = r.id /\ y = Patched(x, r)
  BY <1>1, <1>2
<1> QED
  BY <1>3 DEF Patched, Dirty, RowsOK

LEMMA RigChangesWereAskedFor ==
  ASSUME FleetInv, Next, NEW x \in rigs, NEW y \in rigs', x.id = y.id,
         NEW f \in RigFields, x[f] # y[f]
  PROVE  PatchedTo("patch_rig", x.id, f, y[f])
<1>0. \A s \in rigs : s.id = y.id => s = x
  BY DEF FleetInv, RowsOK
<1>1. PICK w \in Workers : Start(w) \/ Step(w) \/ Lose(w)
  BY DEF Next
<1>2. CASE UpdateRig(w)
  <2>1. /\ "id" \notin DOMAIN req[w].patch
        /\ req[w].op = "patch_rig" /\ req[w].pc = "flush"
    BY <1>2, FleetAssumption DEF UpdateRig, At, FleetInv, ReqOK, Holds, RigFields
  <2>2. rigs' = rigs \/ rigs' = PatchedTable(rigs, req[w])
    BY <1>2 DEF UpdateRig
  <2>3. y \in PatchedTable(rigs, req[w])
    BY <1>0, <2>2
  <2> QED
    BY <2>1, <2>3, UpdateChangesWhatWasAsked DEF FleetInv, PatchedTo, At
<1>3. CASE InsertRig(w)
  <2>1. y \in rigs \/ y.id = rigSeq + 1
    BY <1>3 DEF InsertRig
  <2>2. x.id # rigSeq + 1
    BY DEF FleetInv, RowsOK
  <2> QED
    BY <1>0, <2>1, <2>2
<1>4. ASSUME rigs' \subseteq rigs PROVE FALSE
  BY <1>0, <1>4
<1>5. CASE DeleteRig(w)
  BY <1>4, <1>5 DEF DeleteRig, tables
<1>6. CASE Start(w)
  BY <1>4, <1>6 DEF Start, StartCreateRig, StartCreateWell, StartPatchRig, StartDeleteRig,
                   StartPatchWell, StartDeleteWell, tables
<1>7. CASE \/ CheckRigName(w) \/ RefreshRig(w) \/ SelectWellsOfRig(w) \/ CheckRig(w)
           \/ CheckWellName(w) \/ RefreshWell(w) \/ Lose(w)
           \/ InsertWell(w) \/ UpdateWell(w) \/ DeleteWell(w)
  BY <1>4, <1>7 DEF CheckRigName, RefreshRig, SelectWellsOfRig, CheckRig, CheckWellName,
                   RefreshWell, Lose, InsertWell, UpdateWell, DeleteWell, tables
<1> QED
  BY <1>1, <1>2, <1>3, <1>5, <1>6, <1>7 DEF Step

(* What a deletion takes from a well: its rig, if it found it there.        *)
ClearedBy(w, u, v, f) ==
  /\ f = "rig" /\ v.rig = None
  /\ At(w, "delete_rig", "flush")
  /\ u.rig = req[w].id \/ u.id \in req[w].cleared

LEMMA WellChangesWereAskedFor ==
  ASSUME FleetInv, Next, NEW u \in wells, NEW v \in wells', u.id = v.id,
         NEW f \in WellFields, u[f] # v[f]
  PROVE  PatchedTo("patch_well", u.id, f, v[f]) \/ \E w \in Workers : ClearedBy(w, u, v, f)
<1>0. \A s \in wells : s.id = v.id => s = u
  BY DEF FleetInv, RowsOK
<1>1. PICK w \in Workers : Start(w) \/ Step(w) \/ Lose(w)
  BY DEF Next
<1>2. CASE UpdateWell(w)
  <2>1. /\ "id" \notin DOMAIN req[w].patch
        /\ req[w].op = "patch_well" /\ req[w].pc = "flush"
    BY <1>2, FleetAssumption DEF UpdateWell, At, FleetInv, ReqOK, Holds, WellFields
  <2>2. wells' = wells \/ wells' = PatchedTable(wells, req[w])
    BY <1>2 DEF UpdateWell
  <2>3. v \in PatchedTable(wells, req[w])
    BY <1>0, <2>2
  <2> QED
    BY <2>1, <2>3, UpdateChangesWhatWasAsked DEF FleetInv, PatchedTo, At
<1>3. CASE InsertWell(w)
  <2>1. v \in wells \/ v.id = wellSeq + 1
    BY <1>3 DEF InsertWell
  <2>2. u.id # wellSeq + 1
    BY DEF FleetInv, RowsOK
  <2> QED
    BY <1>0, <2>1, <2>2
<1>4. ASSUME wells' \subseteq wells PROVE FALSE
  BY <1>0, <1>4
<1>5. CASE DeleteRig(w)
  <2> DEFINE New(s) == IF s.id \in Cleared(req[w]) THEN [s EXCEPT !.rig = None] ELSE s
  <2>1. wells' = {New(s) : s \in wells}
    BY <1>4, <1>5 DEF DeleteRig, tables
  <2>2. \A s \in wells : New(s).id = s.id /\ DOMAIN s = WellFields \cup {"id"}
    BY DEF FleetInv, RowsOK, WellFields
  <2>3. v = New(u)
    BY <1>0, <2>1, <2>2
  <2>4. u.id \in Cleared(req[w]) /\ v = [u EXCEPT !.rig = None]
    BY <2>3
  <2>5. f = "rig" /\ v.rig = None
    BY <2>2, <2>4 DEF WellFields
  <2>6. u.rig = req[w].id \/ u.id \in req[w].cleared
    BY <1>0, <2>4 DEF Cleared, On
  <2> QED
    BY <1>5, <2>5, <2>6 DEF DeleteRig, ClearedBy
<1>6. CASE Start(w)
  BY <1>4, <1>6 DEF Start, StartCreateRig, StartCreateWell, StartPatchRig, StartDeleteRig,
                   StartPatchWell, StartDeleteWell, tables
<1>7. CASE \/ CheckRigName(w) \/ RefreshRig(w) \/ SelectWellsOfRig(w) \/ CheckRig(w)
           \/ CheckWellName(w) \/ RefreshWell(w) \/ Lose(w)
           \/ InsertRig(w) \/ UpdateRig(w) \/ DeleteWell(w)
  BY <1>4, <1>7 DEF CheckRigName, RefreshRig, SelectWellsOfRig, CheckRig, CheckWellName,
                   RefreshWell, Lose, InsertRig, UpdateRig, DeleteWell, tables
<1> QED
  BY <1>1, <1>2, <1>3, <1>5, <1>6, <1>7 DEF Step

(* Concurrent PATCHes and deletions lose no update: every change of a       *)
(* column is one that a request asked for, for any set of PATCH bodies.     *)
THEOREM FleetChangesWereAskedFor == Spec => ChangesWereAskedFor
<1> DEFINE Asked ==
      /\ \A r \in rigs, s \in rigs' : r.id = s.id =>
           \A f \in RigFields : r[f] # s[f] => PatchedTo("patch_rig", r.id, f, s[f])
      /\ \A u \in wells, v \in wells' : u.id = v.id =>
           \A f \in WellFields : u[f] # v[f] =>
             \/ PatchedTo("patch_well", u.id, f, v[f])
             \/ /\ f = "rig" /\ v.rig = None
                /\ \E w \in Workers : /\ At(w, "delete_rig", "flush")
                                      /\ u.rig = req[w].id \/ u.id \in req[w].cleared
<1>1. FleetInv /\ [Next]_vars => [Asked]_vars
  BY RigChangesWereAskedFor, WellChangesWereAskedFor DEF ClearedBy
<1> QED
  BY <1>1, FleetAlwaysInv, PTL DEF Spec, ChangesWereAskedFor

-----------------------------------------------------------------------------
(* Types.                                                                   *)

(* A request that may still take an id from the sequence.                   *)
Waits(r, op) == r.op = op /\ r.pc \in {"flush", "rig"}

(* The rows that are and that requests want to create have the columns'     *)
(* types, and there are ids left for the latter.                            *)
TypesInv ==
  /\ \A r \in rigs : r \in [id : Nat, name : Names, detail : DetailValues]
  /\ \A v \in wells : v \in [id : Nat, name : Names, detail : DetailValues, rig : RigIds \cup {None}]
  /\ \A w \in Workers :
       /\ Waits(req[w], "create_rig") => req[w].row \in [name : Names, detail : DetailValues]
       /\ Waits(req[w], "create_well") =>
            req[w].row \in [name : Names, detail : DetailValues, rig : RigIds \cup {None}]
  /\ rigSeq + Creating("create_rig") <= MaxRig
  /\ wellSeq + Creating("create_well") <= MaxWell

(* What a step does to the ids that are left: nothing, it takes one for a   *)
(* request that waited, or it lets a request wait while there is one.       *)
Counts(w, r, op, seq, next, max) ==
  \/ next = seq /\ (~ Waits(r, op) \/ Waits(req[w], op) \/ seq + Creating(op) < max)
  \/ next = seq + 1 /\ Waits(req[w], op) /\ ~ Waits(r, op)

LEMMA IdsAreLeft ==
  ASSUME FleetInv, NEW w \in Workers, NEW r, Become(w, r), NEW op,
         NEW seq \in Nat, NEW next, NEW max \in Nat,
         seq + Creating(op) <= max, Counts(w, r, op, seq, next, max)
  PROVE  next \in Nat /\ next + Creating(op)' <= max
<1> DEFINE Waiting == {u \in Workers : Waits(req[u], op)}
<1>1. /\ req'[w] = r
      /\ \A u \in Workers \ {w} : req'[u] = req[u]
  BY DEF Become, FleetInv, ReqOK
<1>2. Creating(op) = Cardinality(Waiting) /\ Creating(op)' = Cardinality(Waiting')
  <2>1. \A u \in Workers : (At(u, op, "flush") \/ At(u, op, "rig")) <=> Waits(req[u], op)
    BY DEF At, Waits
  <2>2. \A u \in Workers : (At(u, op, "flush") \/ At(u, op, "rig"))' <=> Waits(req[u], op)'
    BY DEF At, Waits
  <2> QED
    BY <2>1, <2>2 DEF Creating
<1>3. Waiting' = IF Waits(r, op) THEN Waiting \cup {w} ELSE Waiting \ {w}
  BY <1>1 DEF Waits
<1>4. w \in Waiting <=> Waits(req[w], op)
  OBVIOUS
<1>5. IsFiniteSet(Waiting) /\ Cardinality(Waiting) \in Nat
  BY FleetTypesAssumption, FS_Subset, FS_CardinalityType
<1> HIDE DEF Waiting
<1>6. CASE Waits(r, op)
  <2>1. Cardinality(Waiting') = IF w \in Waiting THEN Cardinality(Waiting) ELSE Cardinality(Waiting) + 1
    BY <1>3, <1>5, <1>6, FS_AddElement
  <2> QED
    BY <1>2, <1>4, <1>5, <1>6, <2>1 DEF Counts
<1>7. CASE ~ Waits(r, op)
  <2>1. Cardinality(Waiting') = IF w \in Waiting THEN Cardinality(Waiting) - 1 ELSE Cardinality(Waiting)
    BY <1>3, <1>5, <1>7, FS_RemoveElement
  <2> QED
    BY <1>2, <1>4, <1>5, <1>7, <2>1 DEF Counts
<1> QED
  BY <1>6, <1>7

(* What a step makes of its request.                                        *)
Counted(w, r) ==
  /\ Waits(r, "create_rig") => r.row \in [name : Names, detail : DetailValues]
  /\ Waits(r, "create_well") => r.row \in [name : Names, detail : DetailValues, rig : RigIds \cup {None}]
  /\ Counts(w, r, "create_rig", rigSeq, rigSeq', MaxRig)
  /\ Counts(w, r, "create_well", wellSeq, wellSeq', MaxWell)

LEMMA RequestsAreCounted ==
  ASSUME FleetInv, TypesInv, NEW w \in Workers, Start(w) \/ Step(w) \/ Lose(w)
  PROVE  \E r : Become(w, r) /\ Counted(w, r)
<1> DEFINE Goal == \E r : Become(w, r) /\ Counted(w, r)
<1>h. {"op", "pc"} \subseteq DOMAIN req[w]
  BY DEF FleetInv, ReqOK, Holds
<1>1. ASSUME NEW r, Become(w, r), r.op \notin {"create_rig", "create_well"} \/ r.pc \notin {"flush", "rig"},
             UNCHANGED seqs
      PROVE  Goal
  BY <1>1 DEF Counted, Counts, Waits, seqs
<1>2. ASSUME NEW code, Answer(w, code) \/ Refuse(w, code), UNCHANGED seqs PROVE Goal
  BY <1>1, <1>2 DEF Answer, Refuse, Idle
<1>3. ASSUME NEW pc, Goto(w, pc), pc = "refresh" \/ req[w].op \notin {"create_rig", "create_well"},
             UNCHANGED seqs
      PROVE  Goal
  <2> DEFINE r == [req[w] EXCEPT !.pc = pc]
  <2>1. Become(w, r) /\ r.op = req[w].op /\ r.pc = pc
    BY <1>h, <1>3 DEF Goto, Become
  <2> QED
    BY <1>1, <1>3, <2>1
<1>4. ASSUME Start(w) PROVE Goal
  <2>1. UNCHANGED seqs
    BY <1>4 DEF Start, StartCreateRig, StartCreateWell, StartPatchRig, StartDeleteRig,
           StartPatchWell, StartDeleteWell
  <2>2. ASSUME NEW name \in Names, NEW d \in Details, StartCreateRig(w, name, d) PROVE Goal
    <3> DEFINE r == [op |-> "create_rig", pc |-> "flush", id |-> 0, row |-> [name |-> name, detail |-> d]]
    <3>1. Counted(w, r)
      BY <2>1, <2>2 DEF StartCreateRig, Counted, Counts, Waits, DetailValues, seqs
    <3> QED
      BY <1>2, <2>1, <2>2, <3>1 DEF StartCreateRig
  <2>3. ASSUME NEW name \in Names, NEW d \in Details, NEW rig \in RigIds \cup {None},
               StartCreateWell(w, name, d, rig)
        PROVE  Goal
    <3> DEFINE r == [op |-> "create_well", pc |-> IF rig = None THEN "flush" ELSE "rig", id |-> 0,
                     row |-> [name |-> name, detail |-> d, rig |-> rig]]
    <3>1. Counted(w, r)
      BY <2>1, <2>3 DEF StartCreateWell, Counted, Counts, Waits, DetailValues, seqs
    <3> QED
      BY <1>2, <2>1, <2>3, <3>1 DEF StartCreateWell
  <2>4. ASSUME NEW id, NEW patch, StartPatchRig(w, id, patch) PROVE Goal
    <3>1. ASSUME NEW row, NEW pc,
                 Become(w, [op |-> "patch_rig", id |-> id, loaded |-> row, patch |-> patch, pc |-> pc])
          PROVE  Goal
      BY <1>1, <2>1, <3>1
    <3> QED
      BY <1>2, <2>1, <2>4, <3>1 DEF StartPatchRig
  <2>5. ASSUME NEW id, NEW patch, StartPatchWell(w, id, patch) PROVE Goal
    <3>1. ASSUME NEW row, NEW pc,
                 Become(w, [op |-> "patch_well", id |-> id, loaded |-> row, patch |-> patch, pc |-> pc])
          PROVE  Goal
      BY <1>1, <2>1, <3>1
    <3> QED
      BY <1>2, <2>1, <2>5, <3>1 DEF StartPatchWell
  <2>6. ASSUME NEW id, StartDeleteRig(w, id) PROVE Goal
    BY <1>1, <1>2, <2>1, <2>6 DEF StartDeleteRig
  <2>7. ASSUME NEW id, StartDeleteWell(w, id) PROVE Goal
    BY <1>1, <1>2, <2>1, <2>7 DEF StartDeleteWell
  <2> QED
    BY <1>4, <2>2, <2>3, <2>4, <2>5, <2>6, <2>7 DEF Start
<1>5. ASSUME InsertRig(w) PROVE Goal
  <2> DEFINE r == [req[w] EXCEPT !.pc = "refresh", !.id = rigSeq + 1]
  <2>1. /\ Waits(req[w], "create_rig") /\ ~ Waits(req[w], "create_well")
        /\ rigSeq' = rigSeq + 1 /\ wellSeq' = wellSeq
    BY <1>5 DEF InsertRig, At, Waits
  <2>2. ASSUME NEW q, q.pc \notin {"flush", "rig"} PROVE Counted(w, q)
    BY <2>1, <2>2 DEF Counted, Counts, Waits
  <2>3. Answer(w, 500) \/ req' = [req EXCEPT ![w].pc = "refresh", ![w].id = rigSeq + 1]
    BY <1>5 DEF InsertRig
  <2>4. CASE Answer(w, 500)
    BY <2>2, <2>4 DEF Answer, Idle
  <2>5. CASE req' = [req EXCEPT ![w].pc = "refresh", ![w].id = rigSeq + 1]
    <3>1. Become(w, r)
      BY <2>5 DEF FleetInv, ReqOK, Become
    <3>2. r.pc = "refresh"
      BY <1>h
    <3> QED
      BY <2>2, <3>1, <3>2
  <2> QED
    BY <2>3, <2>4, <2>5
<1>6. ASSUME InsertWell(w) PROVE Goal
  <2> DEFINE r == [req[w] EXCEPT !.pc = "refresh", !.id = wellSeq + 1]
  <2>1. /\ Waits(req[w], "create_well") /\ ~ Waits(req[w], "create_rig")
        /\ wellSeq' = wellSeq + 1 /\ rigSeq' = rigSeq
    BY <1>6 DEF InsertWell, At, Waits
  <2>2. ASSUME NEW q, q.pc \notin {"flush", "rig"} PROVE Counted(w, q)
    BY <2>1, <2>2 DEF Counted, Counts, Waits
  <2>3. Answer(w, 500) \/ req' = [req EXCEPT ![w].pc = "refresh", ![w].id = wellSeq + 1]
    BY <1>6 DEF InsertWell
  <2>4. CASE Answer(w, 500)
    BY <2>2, <2>4 DEF Answer, Idle
  <2>5. CASE req' = [req EXCEPT ![w].pc = "refresh", ![w].id = wellSeq + 1]
    <3>1. Become(w, r)
      BY <2>5 DEF FleetInv, ReqOK, Become
    <3>2. r.pc = "refresh"
      BY <1>h
    <3> QED
      BY <2>2, <3>1, <3>2
  <2> QED
    BY <2>3, <2>4, <2>5
<1>7. ASSUME CheckRig(w) PROVE Goal
  <2>1. UNCHANGED seqs /\ (Goto(w, "flush") \/ Answer(w, 422))
    BY <1>7 DEF CheckRig
  <2>2. CASE req[w].op = "create_well" /\ Goto(w, "flush")
    <3> DEFINE r == [req[w] EXCEPT !.pc = "flush"]
    <3>1. Become(w, r)
      BY <2>2 DEF Goto, Become
    <3>2. r.op = "create_well" /\ r.pc = "flush" /\ r.row = req[w].row
      BY <1>h, <2>2
    <3>3. Waits(req[w], "create_well")
      BY <1>7, <2>2 DEF CheckRig, At, Waits
    <3>4. Counted(w, r)
      BY <2>1, <3>2, <3>3 DEF TypesInv, Counted, Counts, Waits, seqs
    <3> QED
      BY <3>1, <3>4
  <2>3. CASE req[w].op = "patch_well" /\ Goto(w, "flush")
    BY <1>3, <2>1, <2>3
  <2> QED
    BY <1>2, <1>7, <2>1, <2>2, <2>3 DEF CheckRig, At
<1>8. ASSUME \/ CheckRigName(w) \/ CheckWellName(w) \/ UpdateRig(w) \/ UpdateWell(w)
             \/ RefreshRig(w) \/ RefreshWell(w) \/ DeleteRig(w) \/ DeleteWell(w)
      PROVE  Goal
  <2>1. UNCHANGED seqs
    BY <1>8 DEF CheckRigName, CheckWellName, UpdateRig, UpdateWell, RefreshRig, RefreshWell, DeleteRig,
                DeleteWell, seqs
  <2>2. \/ \E code : Answer(w, code)
        \/ \E pc : Goto(w, pc) /\ req[w].op \notin {"create_rig", "create_well"}
    BY <1>8 DEF CheckRigName, CheckWellName, UpdateRig, UpdateWell, RefreshRig, RefreshWell, DeleteRig,
                DeleteWell, At
  <2> QED
    BY <1>2, <1>3, <2>1, <2>2
<1>9. ASSUME SelectWellsOfRig(w) PROVE Goal
  <2> DEFINE r == [req[w] EXCEPT !.pc = "flush", !.cleared = {v.id : v \in On(req[w].id)}]
  <2>1. Become(w, r)
    BY <1>9 DEF SelectWellsOfRig, Become
  <2>2. r.op = "delete_rig"
    BY <1>h, <1>9 DEF SelectWellsOfRig, At
  <2> QED
    BY <1>1, <1>9, <2>1, <2>2 DEF SelectWellsOfRig
<1>10. ASSUME Lose(w) PROVE Goal
  BY <1>1, <1>10 DEF Lose, Idle
<1> QED
  BY <1>4, <1>5, <1>6, <1>7, <1>8, <1>9, <1>10 DEF Step

(* A column that an UPDATE writes has a value of its PATCH.                 *)
LEMMA RigsHaveTypes ==
  ASSUME FleetInv, TypesInv, NEW w \in Workers, Start(w) \/ Step(w) \/ Lose(w), NEW s \in rigs'
  PROVE  s \in [id : Nat, name : Names, detail : DetailValues]
<1>1. CASE s \in rigs
  BY <1>1 DEF TypesInv
<1>2. CASE InsertRig(w)
  <2>1. req[w].row \in [name : Names, detail : DetailValues] /\ rigSeq \in Nat
    BY <1>2 DEF InsertRig, At, Waits, TypesInv, FleetInv, RowsOK
  <2>2. s \in rigs \/ s = [id |-> rigSeq + 1, name |-> req[w].row.name, detail |-> req[w].row.detail]
    BY <1>2 DEF InsertRig
  <2> QED
    BY <1>1, <2>1, <2>2
<1>3. CASE UpdateRig(w)
  <2> DEFINE r == req[w]
  <2>1. r.patch \in RigPatches /\ DOMAIN r.patch \subseteq RigFields
    BY <1>3, FleetAssumption DEF UpdateRig, At, FleetInv, ReqOK, Holds
  <2>2. "id" \notin DOMAIN r.patch
    BY <2>1 DEF RigFields
  <2>3. \A f \in DOMAIN r.patch : /\ f = "name" => r.patch[f] \in Names
                                  /\ f = "detail" => r.patch[f] \in DetailValues
    BY <2>1, FleetTypesAssumption DEF DetailValues
  <2>4. rigs' = rigs \/ rigs' = PatchedTable(rigs, r)
    BY <1>3 DEF UpdateRig
  <2>5. s \in rigs \/ \E t \in rigs : s = Patched(t, r)
    BY <2>2, <2>4, PatchedIsRowwise DEF FleetInv, RowsOK
  <2>6. ASSUME NEW t \in rigs PROVE Patched(t, r) \in [id : Nat, name : Names, detail : DetailValues]
    <3>1. t \in [id : Nat, name : Names, detail : DetailValues]
      BY DEF TypesInv
    <3>2. "id" \notin Dirty(r.patch, r.loaded) /\ Dirty(r.patch, r.loaded) \subseteq DOMAIN r.patch
      BY <2>2 DEF Dirty
    <3> HIDE DEF r
    <3> QED
      BY <2>3, <3>1, <3>2 DEF Patched
  <2> QED
    BY <1>1, <2>5, <2>6
<1>4. CASE rigs' \subseteq rigs
  BY <1>1, <1>4
<1>5. \/ rigs' \subseteq rigs \/ InsertRig(w) \/ UpdateRig(w)
  BY DEF Start, Step, Lose, StartCreateRig, StartCreateWell, StartPatchRig, StartDeleteRig,
         StartPatchWell, StartDeleteWell, CheckRigName, RefreshRig, SelectWellsOfRig, CheckRig,
         CheckWellName, RefreshWell, InsertWell, UpdateWell, DeleteWell, DeleteRig, tables
<1> QED
  BY <1>2, <1>3, <1>4, <1>5

LEMMA WellsHaveTypes ==
  ASSUME FleetInv, TypesInv, NEW w \in Workers, Start(w) \/ Step(w) \/ Lose(w), NEW s \in wells'
  PROVE  s \in [id : Nat, name : Names, detail : DetailValues, rig : RigIds \cup {None}]
<1>1. CASE s \in wells
  BY <1>1 DEF TypesInv
<1>2. CASE InsertWell(w)
  <2>1. /\ req[w].row \in [name : Names, detail : DetailValues, rig : RigIds \cup {None}]
        /\ wellSeq \in Nat
    BY <1>2 DEF InsertWell, At, Waits, TypesInv, FleetInv, RowsOK
  <2>2. \/ s \in wells
        \/ s = [id |-> wellSeq + 1, name |-> req[w].row.name, detail |-> req[w].row.detail,
                rig |-> req[w].row.rig]
    BY <1>2 DEF InsertWell
  <2> QED
    BY <1>1, <2>1, <2>2
<1>3. CASE UpdateWell(w)
  <2> DEFINE r == req[w]
  <2>1. r.patch \in WellPatches /\ DOMAIN r.patch \subseteq WellFields
    BY <1>3, FleetAssumption DEF UpdateWell, At, FleetInv, ReqOK, Holds
  <2>2. "id" \notin DOMAIN r.patch
    BY <2>1 DEF WellFields
  <2>3. \A f \in DOMAIN r.patch : /\ f = "name" => r.patch[f] \in Names
                                  /\ f = "detail" => r.patch[f] \in DetailValues
                                  /\ f = "rig" => r.patch[f] \in RigIds \cup {None}
    BY <2>1, FleetTypesAssumption DEF DetailValues
  <2>4. wells' = wells \/ wells' = PatchedTable(wells, r)
    BY <1>3 DEF UpdateWell
  <2>5. s \in wells \/ \E t \in wells : s = Patched(t, r)
    BY <2>2, <2>4, PatchedIsRowwise DEF FleetInv, RowsOK
  <2>6. ASSUME NEW t \in wells
        PROVE  Patched(t, r) \in [id : Nat, name : Names, detail : DetailValues, rig : RigIds \cup {None}]
    <3>1. t \in [id : Nat, name : Names, detail : DetailValues, rig : RigIds \cup {None}]
      BY DEF TypesInv
    <3>2. "id" \notin Dirty(r.patch, r.loaded) /\ Dirty(r.patch, r.loaded) \subseteq DOMAIN r.patch
      BY <2>2 DEF Dirty
    <3> HIDE DEF r
    <3> QED
      BY <2>3, <3>1, <3>2 DEF Patched
  <2> QED
    BY <1>1, <2>5, <2>6
<1>4. CASE DeleteRig(w)
  <2>1. \/ s \in wells
        \/ \E v \in wells : s = [v EXCEPT !.rig = None]
    BY <1>4 DEF DeleteRig, tables
  <2> QED
    BY <1>1, <2>1 DEF TypesInv
<1>5. CASE wells' \subseteq wells
  BY <1>1, <1>5
<1>6. \/ wells' \subseteq wells \/ InsertWell(w) \/ UpdateWell(w) \/ DeleteRig(w)
  BY DEF Start, Step, Lose, StartCreateRig, StartCreateWell, StartPatchRig, StartDeleteRig,
         StartPatchWell, StartDeleteWell, CheckRigName, RefreshRig, SelectWellsOfRig, CheckRig,
         CheckWellName, RefreshWell, InsertRig, UpdateRig, DeleteWell, tables
<1> QED
  BY <1>2, <1>3, <1>4, <1>5, <1>6

LEMMA FleetInitTypes == Init => TypesInv
<1> SUFFICES ASSUME Init PROVE TypesInv
  OBVIOUS
<1>1. ASSUME NEW op \in {"create_rig", "create_well"} PROVE Creating(op) = 0
  <2>1. {w \in Workers : At(w, op, "flush") \/ At(w, op, "rig")} = {}
    BY DEF Init, Idle, At
  <2> QED
    BY <2>1, FS_EmptySet DEF Creating
<1> QED
  BY <1>1, FleetAssumption DEF Init, Idle, TypesInv, Waits

LEMMA FleetNextTypes == FleetInv /\ TypesInv /\ [Next]_vars => TypesInv'
<1> SUFFICES ASSUME FleetInv, TypesInv, [Next]_vars PROVE TypesInv'
  OBVIOUS
<1>1. CASE UNCHANGED vars
  <2>1. rigs' = rigs /\ wells' = wells /\ rigSeq' = rigSeq /\ wellSeq' = wellSeq /\ req' = req
    BY <1>1 DEF vars, tables, seqs
  <2> QED
    BY <2>1 DEF TypesInv, Creating, At
<1>2. ASSUME NEW w \in Workers, Start(w) \/ Step(w) \/ Lose(w) PROVE TypesInv'
  <2>1. PICK r : Become(w, r) /\ Counted(w, r)
    BY <1>2, RequestsAreCounted
  <2>2. /\ req'[w] = r
        /\ \A u \in Workers \ {w} : req'[u] = req[u]
    BY <2>1 DEF Become, FleetInv, ReqOK
  <2>3. \A u \in Workers :
          /\ Waits(req'[u], "create_rig") => req'[u].row \in [name : Names, detail : DetailValues]
          /\ Waits(req'[u], "create_well") =>
               req'[u].row \in [name : Names, detail : DetailValues, rig : RigIds \cup {None}]
    BY <2>1, <2>2 DEF TypesInv, Counted
  <2>4. rigSeq \in Nat /\ wellSeq \in Nat /\ MaxRig \in Nat /\ MaxWell \in Nat
    BY FleetAssumption DEF FleetInv, RowsOK
  <2>5. /\ rigSeq' + Creating("create_rig")' <= MaxRig
        /\ wellSeq' + Creating("create_well")' <= MaxWell
    BY <2>1, <2>4, IdsAreLeft DEF TypesInv, Counted
  <2>6. /\ \A s \in rigs' : s \in [id : Nat, name : Names, detail : DetailValues]
        /\ \A s \in wells' : s \in [id : Nat, name : Names, detail : DetailValues,
                                    rig : RigIds \cup {None}]
    BY <1>2, RigsHaveTypes, WellsHaveTypes
  <2> QED
    BY <2>3, <2>5, <2>6 DEF TypesInv, Waits
<1> QED
  BY <1>1, <1>2 DEF Next

LEMMA FleetAlwaysTypes == Spec => []TypesInv
BY FleetInitTypes, FleetNextTypes, FleetAlwaysInv, PTL DEF Spec

(* The types of the two tables and their sequences, for any finite number   *)
(* of threads: creations never run out of the ids they were let in for.     *)
THEOREM FleetTypeCorrect == Spec => []TypeOK
<1>1. FleetInv /\ TypesInv => TypeOK
  <2> SUFFICES ASSUME FleetInv, TypesInv PROVE TypeOK
    OBVIOUS
  <2>1. \A op : Creating(op) \in Nat
    <3> SUFFICES ASSUME NEW op PROVE Creating(op) \in Nat
      OBVIOUS
    <3>1. {w \in Workers : At(w, op, "flush") \/ At(w, op, "rig")} \in SUBSET Workers
      OBVIOUS
    <3> QED
      BY <3>1, FleetTypesAssumption, FS_Subset, FS_CardinalityType DEF Creating
  <2>2. rigSeq \in 0..MaxRig /\ wellSeq \in 0..MaxWell
    BY <2>1, FleetAssumption DEF FleetInv, RowsOK, TypesInv
  <2>3. /\ rigs \subseteq {r \in RigRow : r.id <= rigSeq}
        /\ wells \subseteq {v \in WellRow : v.id <= wellSeq}
    BY <2>2, FleetAssumption DEF FleetInv, RowsOK, TypesInv, RigRow, WellRow, RigIds, WellIds
  <2> QED
    BY <2>2, <2>3 DEF TypeOK, FleetInv, RowsOK
<1> QED
  BY <1>1, FleetAlwaysInv, FleetAlwaysTypes, PTL
=============================================================================
