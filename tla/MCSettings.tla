----------------------------- MODULE MCSettings -----------------------------
(***************************************************************************)
(* Instances of Settings for TLC: two clients, three models of which one   *)
(* cannot be loaded, one token.                                            *)
(***************************************************************************)
EXTENDS Settings

CONSTANTS c1, c2, l1, l2, bad, t1
=============================================================================
