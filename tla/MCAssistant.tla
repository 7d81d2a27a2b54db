----------------------------- MODULE MCAssistant -----------------------------
(* Instances of Assistant for TLC. *)
EXTENDS Assistant

(* A one-word and a three-word answer. *)
SomeWords == [q \in Questions |-> IF q = "who" THEN 1 ELSE 3]
=============================================================================
