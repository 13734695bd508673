-------------------------- MODULE MCSessionManager --------------------------
(* SessionManager for TLC: configurations are interchangeable, and so are    *)
(* the calls; every property is an invariant that names none of them.        *)
EXTENDS SessionManager, TLC

Interchangeable == Permutations(Uid) \cup Permutations(Command)
=============================================================================
