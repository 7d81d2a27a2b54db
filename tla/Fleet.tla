-------------------------------- MODULE Fleet --------------------------------
(***************************************************************************)
(* services/rigs.py and services/wells.py under concurrent requests: the   *)
(* fleet's rigs, its wells, and which well is on which rig.                *)
(*                                                                         *)
(* Requests and sessions are those of Operations: a thread each, READ      *)
(* COMMITTED, no autoflush, every SELECT a step of its own, the writes of  *)
(* a commit() one step with it.  Names carry the rules (unique), "rig" the *)
(* foreign key, and "detail" stands for the columns that have no rule      *)
(* (location, status, depth_m, spud_date).  A well's readings, alerts and  *)
(* configs are in Operations.                                              *)
(***************************************************************************)
EXTENDS Naturals, FiniteSets

CONSTANTS
  Workers,        \* threads that serve requests
  Names, Details, \* values of the columns in a create
  RigPatches,     \* bodies of PATCH /rigs, functions on some of RigFields
  WellPatches,    \* bodies of PATCH /wells, functions on some of WellFields
  None,           \* no rig
  MaxRig, MaxWell \* bounds: rigs and wells ever created

RigFields == {"name", "detail"}
WellFields == {"name", "detail", "rig"}
RigIds == 1..MaxRig
WellIds == 1..MaxWell

ASSUME FleetAssumption ==
  /\ MaxRig \in Nat /\ MaxWell \in Nat
  /\ None \notin Nat
  /\ \A p \in RigPatches : DOMAIN p \subseteq RigFields
  /\ \A p \in WellPatches : DOMAIN p \subseteq WellFields

(* Threads are finitely many; a PATCH gives ids or NULL to rig_id and names *)
(* to name: update_rig and update_well ignore one that is null.             *)
ASSUME FleetTypesAssumption ==
  /\ IsFiniteSet(Workers)
  /\ \A p \in RigPatches \cup WellPatches : "name" \in DOMAIN p => p["name"] \in Names
  /\ \A p \in WellPatches : "rig" \in DOMAIN p => p["rig"] \in RigIds \cup {None}

VARIABLES
  rigs,           \* rows: [id, name, detail]
  wells,          \* rows: [id, name, detail, rig]
  rigSeq, wellSeq,\* last ids the sequences handed out
  req             \* the request each worker serves

tables == <<rigs, wells>>
seqs == <<rigSeq, wellSeq>>
vars == <<tables, seqs, req>>

Row(table, id) == {r \in table : r.id = id}
Exists(table, id) == Row(table, id) # {}
Named(table, name) == {r \in table : r.name = name}

Idle == [op |-> "none", pc |-> "done", code |-> 0]

Init ==
  /\ rigs = {}
  /\ wells = {}
  /\ rigSeq = 0
  /\ wellSeq = 0
  /\ req = [w \in Workers |-> Idle]

At(w, op, pc) == req[w].op = op /\ req[w].pc = pc
Free(w) == req[w].pc = "done"
Become(w, r) == req' = [req EXCEPT ![w] = r]
Goto(w, pc) == req' = [req EXCEPT ![w].pc = pc]

(* Of a finished request the answer and, for a deletion, the row is kept.   *)
Answer(w, code) ==
  Become(w, IF req[w].op \in {"delete_rig", "delete_well"} /\ code = 204
            THEN [op |-> req[w].op, pc |-> "done", code |-> code, id |-> req[w].id]
            ELSE [Idle EXCEPT !.code = code])
Refuse(w, code) == Become(w, [Idle EXCEPT !.code = code])

Creating(op) == Cardinality({w \in Workers : At(w, op, "flush") \/ At(w, op, "rig")})

-----------------------------------------------------------------------------
(* Rigs.                                                                    *)

StartCreateRig(w, name, detail) ==
  /\ Free(w)
  /\ rigSeq + Creating("create_rig") < MaxRig
  /\ IF Named(rigs, name) # {} THEN Refuse(w, 409)
     ELSE Become(w, [op |-> "create_rig", pc |-> "flush", id |-> 0,
                     row |-> [name |-> name, detail |-> detail]])
  /\ UNCHANGED <<tables, seqs>>

\* mutant: the column is not unique
NameTaken_Never(table, id, name) == FALSE

(* The unique index on name. *)
NameTaken(table, id, name) == \E r \in Named(table, name) : r.id # id

(* INSERT and COMMIT; nobody catches the IntegrityError. *)
InsertRig(w) ==
  /\ At(w, "create_rig", "flush")
  /\ rigSeq' = rigSeq + 1
  /\ LET row == req[w].row
         id == rigSeq + 1
     IN  IF NameTaken(rigs, id, row.name) THEN Answer(w, 500) /\ UNCHANGED rigs
         ELSE /\ rigs' = rigs \cup {[id |-> id, name |-> row.name, detail |-> row.detail]}
              /\ req' = [req EXCEPT ![w].pc = "refresh", ![w].id = id]
  /\ UNCHANGED <<wells, wellSeq>>

(* db.refresh raises when the row is gone. *)
RefreshRig(w) ==
  /\ At(w, "create_rig", "refresh") \/ At(w, "patch_rig", "refresh")
  /\ Answer(w, IF ~ Exists(rigs, req[w].id) THEN 500
               ELSE IF req[w].op = "create_rig" THEN 201 ELSE 200)
  /\ UNCHANGED <<tables, seqs>>

(* The columns a PATCH writes: those it sets to another value than loaded.  *)
Dirty(patch, loaded) == {f \in DOMAIN patch : patch[f] # loaded[f]}

\* mutant: every column of the loaded object is written back
Patched_WholeRow(row, r) ==
  [f \in DOMAIN row |-> IF f \in DOMAIN r.patch THEN r.patch[f] ELSE r.loaded[f]]

Patched(row, r) ==
  [f \in DOMAIN row |-> IF f \in Dirty(r.patch, r.loaded) THEN r.patch[f] ELSE row[f]]

PatchedTable(table, r) == (table \ Row(table, r.id)) \cup {Patched(row, r) : row \in Row(table, r.id)}

(* _get_rig_or_404, then update_rig up to its first SELECT. *)
StartPatchRig(w, id, patch) ==
  /\ Free(w)
  /\ IF ~ Exists(rigs, id) THEN Refuse(w, 404)
     ELSE \E row \in Row(rigs, id) :
            Become(w, [op |-> "patch_rig", id |-> id, loaded |-> row, patch |-> patch,
                       pc |-> IF "name" \in Dirty(patch, row) THEN "name" ELSE "flush"])
  /\ UNCHANGED <<tables, seqs>>

CheckRigName(w) ==
  /\ At(w, "patch_rig", "name")
  /\ IF Named(rigs, req[w].patch["name"]) # {} THEN Answer(w, 409) ELSE Goto(w, "flush")
  /\ UNCHANGED <<tables, seqs>>

(* UPDATE, if anything is dirty, and COMMIT.  StaleDataError and            *)
(* IntegrityError are a 500.                                                *)
UpdateRig(w) ==
  /\ At(w, "patch_rig", "flush")
  /\ LET r == req[w]
         dirty == Dirty(r.patch, r.loaded)
         gone == ~ Exists(rigs, r.id)
         taken == "name" \in dirty /\ NameTaken(rigs, r.id, r.patch["name"])
     IN  IF dirty # {} /\ (gone \/ taken) THEN Answer(w, 500) /\ UNCHANGED rigs
         ELSE rigs' = PatchedTable(rigs, r) /\ Goto(w, "refresh")
  /\ UNCHANGED <<wells, seqs>>

-----------------------------------------------------------------------------
(* delete_rig.  The flush loads Rig.wells, sets their rig_id to NULL by     *)
(* well id, and deletes the rig, where ON DELETE SET NULL does the same for *)
(* the wells that are on it by then.                                        *)

On(rig) == {v \in wells : v.rig = rig}

StartDeleteRig(w, id) ==
  /\ Free(w)
  /\ IF ~ Exists(rigs, id) THEN Refuse(w, 404)
     ELSE Become(w, [op |-> "delete_rig", pc |-> "wells", id |-> id, cleared |-> {}])
  /\ UNCHANGED <<tables, seqs>>

SelectWellsOfRig(w) ==
  /\ At(w, "delete_rig", "wells")
  /\ req' = [req EXCEPT ![w].pc = "flush", ![w].cleared = {v.id : v \in On(req[w].id)}]
  /\ UNCHANGED <<tables, seqs>>

\* mutants: no ON DELETE SET NULL; one without its WHERE
Cleared_LoadedOnly(r) == r.cleared
Cleared_AllWells(r) == r.cleared \cup {v.id : v \in wells}

Cleared(r) == r.cleared \cup {v.id : v \in On(r.id)}

(* An UPDATE that matches no well is a StaleDataError and rolls all back; a *)
(* DELETE that matches no rig only warns.                                   *)
DeleteRig(w) ==
  /\ At(w, "delete_rig", "flush")
  /\ LET r == req[w]
     IN  IF \E i \in r.cleared : ~ Exists(wells, i) THEN Answer(w, 500) /\ UNCHANGED tables
         ELSE /\ wells' = {IF v.id \in Cleared(r) THEN [v EXCEPT !.rig = None] ELSE v : v \in wells}
              /\ rigs' = rigs \ Row(rigs, r.id)
              /\ Answer(w, 204)
  /\ UNCHANGED seqs

-----------------------------------------------------------------------------
(* Wells.                                                                   *)

StartCreateWell(w, name, detail, rig) ==
  /\ Free(w)
  /\ wellSeq + Creating("create_well") < MaxWell
  /\ IF Named(wells, name) # {} THEN Refuse(w, 409)
     ELSE Become(w, [op |-> "create_well", pc |-> IF rig = None THEN "flush" ELSE "rig", id |-> 0,
                     row |-> [name |-> name, detail |-> detail, rig |-> rig]])
  /\ UNCHANGED <<tables, seqs>>

(* _assert_rig_exists. *)
CheckRig(w) ==
  /\ At(w, "create_well", "rig") \/ At(w, "patch_well", "rig")
  /\ LET rig == IF req[w].op = "create_well" THEN req[w].row.rig ELSE req[w].patch["rig"]
     IN  IF Exists(rigs, rig) THEN Goto(w, "flush") ELSE Answer(w, 422)
  /\ UNCHANGED <<tables, seqs>>

(* The foreign key on rig_id. *)
Dangling(rig) == rig # None /\ ~ Exists(rigs, rig)

InsertWell(w) ==
  /\ At(w, "create_well", "flush")
  /\ wellSeq' = wellSeq + 1
  /\ LET row == req[w].row
         id == wellSeq + 1
     IN  IF NameTaken(wells, id, row.name) \/ Dangling(row.rig)
         THEN Answer(w, 500) /\ UNCHANGED wells
         ELSE /\ wells' = wells \cup {[id |-> id, name |-> row.name,
                                       detail |-> row.detail, rig |-> row.rig]}
              /\ req' = [req EXCEPT ![w].pc = "refresh", ![w].id = id]
  /\ UNCHANGED <<rigs, rigSeq>>

(* The get_well that ends create_well and update_well; WellOut of None fails. *)
RefreshWell(w) ==
  /\ At(w, "create_well", "refresh") \/ At(w, "patch_well", "refresh")
  /\ Answer(w, IF ~ Exists(wells, req[w].id) THEN 500
               ELSE IF req[w].op = "create_well" THEN 201 ELSE 200)
  /\ UNCHANGED <<tables, seqs>>

(* A rig that came with the well (joinedload) is in the session's identity  *)
(* map and not looked up again.                                             *)
NextCheck(patch, loaded) ==
  IF "rig" \in Dirty(patch, loaded) /\ patch["rig"] # None THEN "rig" ELSE "flush"

StartPatchWell(w, id, patch) ==
  /\ Free(w)
  /\ IF ~ Exists(wells, id) THEN Refuse(w, 404)
     ELSE \E row \in Row(wells, id) :
            Become(w, [op |-> "patch_well", id |-> id, loaded |-> row, patch |-> patch,
                       pc |-> IF "name" \in Dirty(patch, row) THEN "name"
                              ELSE NextCheck(patch, row)])
  /\ UNCHANGED <<tables, seqs>>

CheckWellName(w) ==
  /\ At(w, "patch_well", "name")
  /\ IF Named(wells, req[w].patch["name"]) # {} THEN Answer(w, 409)
     ELSE Goto(w, NextCheck(req[w].patch, req[w].loaded))
  /\ UNCHANGED <<tables, seqs>>

UpdateWell(w) ==
  /\ At(w, "patch_well", "flush")
  /\ LET r == req[w]
         dirty == Dirty(r.patch, r.loaded)
         gone == ~ Exists(wells, r.id)
         taken == "name" \in dirty /\ NameTaken(wells, r.id, r.patch["name"])
         dangles == "rig" \in dirty /\ Dangling(r.patch["rig"])
     IN  IF dirty # {} /\ (gone \/ taken \/ dangles) THEN Answer(w, 500) /\ UNCHANGED wells
         ELSE wells' = PatchedTable(wells, r) /\ Goto(w, "refresh")
  /\ UNCHANGED <<rigs, seqs>>

StartDeleteWell(w, id) ==
  /\ Free(w)
  /\ IF ~ Exists(wells, id) THEN Refuse(w, 404)
     ELSE Become(w, [op |-> "delete_well", pc |-> "flush", id |-> id])
  /\ UNCHANGED <<tables, seqs>>

DeleteWell(w) ==
  /\ At(w, "delete_well", "flush")
  /\ wells' = wells \ Row(wells, req[w].id)
  /\ Answer(w, 204)
  /\ UNCHANGED <<rigs, seqs>>

-----------------------------------------------------------------------------

(* The process or its database connection dies: uncommitted work is rolled  *)
(* back and the client gets no answer.                                      *)
Lose(w) ==
  /\ ~ Free(w)
  /\ Become(w, Idle)
  /\ UNCHANGED <<tables, seqs>>

Start(w) ==
  \/ \E name \in Names, d \in Details :
       \/ StartCreateRig(w, name, d)
       \/ \E rig \in RigIds \cup {None} : StartCreateWell(w, name, d, rig)
  \/ \E id \in RigIds :
       \/ \E patch \in RigPatches : StartPatchRig(w, id, patch)
       \/ StartDeleteRig(w, id)
  \/ \E id \in WellIds :
       \/ \E patch \in WellPatches : StartPatchWell(w, id, patch)
       \/ StartDeleteWell(w, id)

Step(w) ==
  \/ InsertRig(w) \/ CheckRigName(w) \/ UpdateRig(w) \/ RefreshRig(w)
  \/ SelectWellsOfRig(w) \/ DeleteRig(w)
  \/ CheckRig(w) \/ InsertWell(w) \/ CheckWellName(w) \/ UpdateWell(w) \/ RefreshWell(w)
  \/ DeleteWell(w)

Next == \E w \in Workers : Start(w) \/ Step(w) \/ Lose(w)

Spec == Init /\ [][Next]_vars

-----------------------------------------------------------------------------

DetailValues ==
  Details \cup {p["detail"] : p \in {q \in RigPatches \cup WellPatches : "detail" \in DOMAIN q}}
RigRow == [id : RigIds, name : Names, detail : DetailValues]
WellRow == [id : WellIds, name : Names, detail : DetailValues, rig : RigIds \cup {None}]

TypeOK ==
  /\ rigSeq \in 0..MaxRig
  /\ wellSeq \in 0..MaxWell
  /\ rigs \subseteq {r \in RigRow : r.id <= rigSeq}
  /\ wells \subseteq {v \in WellRow : v.id <= wellSeq}
  /\ \A r, s \in rigs : r.id = s.id => r = s
  /\ \A u, v \in wells : u.id = v.id => u = v

(* Names stay unique however many requests find a name free at the same     *)
(* time; with two rows scalar_one_or_none would raise on every further      *)
(* create or rename to that name.                                           *)
NamesAreUnique ==
  \A table \in {rigs, wells} : \A r, s \in table : r.name = s.name => r = s

(* A well is on a rig that exists, or on none, although assigning, creating *)
(* and deleting check and write in different statements.                    *)
NoDanglingRig == \A v \in wells : v.rig # None => Exists(rigs, v.rig)

PatchedTo(op, id, f, value) ==
  \E w \in Workers : /\ At(w, op, "flush") /\ req[w].id = id
                     /\ f \in DOMAIN req[w].patch /\ req[w].patch[f] = value

(* No lost update: a column changes only to what a PATCH of that column     *)
(* asked for, never back to what a request had loaded; and a well loses its *)
(* rig otherwise only to a deletion that found it on the deleted rig.       *)
ChangesWereAskedFor ==
  [][/\ \A r \in rigs, s \in rigs' : r.id = s.id =>
          \A f \in RigFields : r[f] # s[f] => PatchedTo("patch_rig", r.id, f, s[f])
     /\ \A u \in wells, v \in wells' : u.id = v.id =>
          \A f \in WellFields : u[f] # v[f] =>
            \/ PatchedTo("patch_well", u.id, f, v[f])
            \/ /\ f = "rig" /\ v.rig = None
               /\ \E w \in Workers : /\ At(w, "delete_rig", "flush")
                                     /\ u.rig = req[w].id \/ u.id \in req[w].cleared]_vars

(* What a client was told is deleted never comes back: no write of another  *)
(* request that had loaded the row, and no new row, brings its id back.     *)
DeletedStaysDeleted ==
  \A w \in Workers : req[w].pc = "done" /\ req[w].code = 204 =>
    /\ req[w].op = "delete_rig" => ~ Exists(rigs, req[w].id)
    /\ req[w].op = "delete_well" => ~ Exists(wells, req[w].id)

(* knowledge_base.py:29-30: "Deleting a rig does not delete its wells;      *)
(* instead each well's rig assignment is cleared": of its wells, that is.   *)
OnlyItsWellsAreCleared ==
  [][\A u \in wells, v \in wells' : u.id = v.id /\ u.rig # v.rig /\ rigs' # rigs =>
       ~ Exists(rigs', u.rig)]_vars

(* WellForm.tsx:10-12: "name uniqueness -> 409, invalid rig_id -> 422": a   *)
(* create that breaks one of these rules gets that answer.                  *)
BrokenRulesAreExplained ==
  [][\A w \in Workers :
       At(w, "create_well", "flush") /\ req'[w].pc = "done" => req'[w].code # 500]_vars
=============================================================================
