---------------------------- MODULE MCOperations ----------------------------
(* Instances of Operations for TLC. *)
EXTENDS Operations, TLC

Band(wmin, wmax, cmin, cmax) ==
  [f \in Fields |-> CASE f = "warning_min" -> wmin
                      [] f = "warning_max" -> wmax
                      [] f = "critical_min" -> cmin
                      [] f = "critical_max" -> cmax]

(* A config with both upper bounds. *)
UpperBand == {Band(None, 1, None, 2)}

(* Also one whose warning and critical bands overlap. *)
OverlappingBands == UpperBand \cup {Band(1, None, None, 1)}

(* A body that moves one bound and one that clears the other. *)
FieldPatches == {"warning_max" :> 2, "critical_max" :> None}

NoPatch == {}

WorkerSymmetry == Permutations(Workers)
=============================================================================
