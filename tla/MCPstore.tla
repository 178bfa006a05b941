------------------------------ MODULE MCPstore ------------------------------
(* Pstore for TLC: the constants are given in the configurations.  The     *)
(* layouts keep the proportions of the real one: a head shorter than a     *)
(* page, small counters, and zone statuses that straddle pages.            *)
EXTENDS Pstore
=============================================================================
