------------------------------- MODULE MCFleet -------------------------------
(* Instances of Fleet for TLC. *)
EXTENDS Fleet, TLC

NoPatch == {}
OneDetail == {"as created"}

(* Renames, an edit of another column. *)
Renames == {"name" :> n : n \in Names}
Edits == {"detail" :> "edited"}

(* Assignments to every rig and to none. *)
Assignments == {"rig" :> r : r \in RigIds \cup {None}}

RenamesEditsAssignments == Renames \cup Edits \cup Assignments

WorkerSymmetry == Permutations(Workers)
=============================================================================
