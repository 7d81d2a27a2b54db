----------------------------- MODULE MCFleetPages -----------------------------
(* Instances of FleetPages for TLC. *)
EXTENDS FleetPages

(* A rig and two wells, the first of them on the rig. *)
TwoWells ==
  "rig" :> (1 :> [name |-> "a", col |-> "active"]) @@
  "well" :> (1 :> [name |-> "a", col |-> 1] @@ 2 :> [name |-> "b", col |-> NULL])

(* A rig with a well, and one of each that may be created. *)
OneWell ==
  "rig" :> (1 :> [name |-> "a", col |-> "active"] @@ 2 :> NULL) @@
  "well" :> (1 :> [name |-> "a", col |-> 1] @@ 2 :> NULL)

(* The page that creates a well. *)
NewWell == {New("well")}

(* The list of wells. *)
AllWells == {List("well", "")}

(* Entries of the browser's history from before this page load, or URLs typed *)
(* in, also by a user who may not edit.                                       *)
BothEditPages == {Edit("well", i) : i \in WellIds}
=============================================================================
