--------------------------- MODULE MCOperationsForms ---------------------------
(* Instances of OperationsForms for TLC. *)
EXTENDS OperationsForms

(* A config on the first well, and an id for one more. *)
OneConfig == 1 :> [well |-> 1, band |-> [b \in BandNames |-> 1]] @@ 2 :> NULL
=============================================================================
