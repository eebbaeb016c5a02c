-------------------------------- MODULE MCServer -------------------------------
EXTENDS Server

CONSTANTS doc, other, shared

(* One document of the first ForKit, and one of a configuration with its own. *)
Configs == [d \in Doc |-> IF d = other THEN shared ELSE Default]
=============================================================================
