-------------------------- MODULE MCValidationQueue --------------------------
(* Two service threads, the chain, and commands. *)
EXTENDS ValidationQueue

CONSTANTS s1, s2, chain, r1, r2, staker

==============================================================================
