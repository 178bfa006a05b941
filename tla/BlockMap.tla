------------------------------ MODULE BlockMap ------------------------------
(***************************************************************************)
(* What the block metadata of dm-imrsim promises to the reader of a block: *)
(* a map from logical blocks (keys) to the last write of each.  A write is *)
(* named by its number; 0 stands for a block that was never written or was *)
(* discarded, and reads as zeros.  Compactions, collections and reloads do *)
(* not appear here: to a reader they are stuttering steps.                 *)
(***************************************************************************)
EXTENDS Naturals

CONSTANT Keys

VARIABLES
    val,        \* key -> number of the write it reads as
    writes      \* writes so far

Unwritten == 0

\* The device may have been written before.
Init ==
    /\ writes \in Nat
    /\ val \in [Keys -> 0 .. writes]

Put(k) ==
    /\ writes' = writes + 1
    /\ val' = [val EXCEPT ![k] = writes']

Delete(k) ==
    /\ UNCHANGED writes
    /\ val' = [val EXCEPT ![k] = Unwritten]

\* A reset of the zone configuration forgets every block.
Clear ==
    /\ UNCHANGED writes
    /\ val' = [k \in Keys |-> Unwritten]

Next ==
    \/ \E k \in Keys : Put(k) \/ Delete(k)
    \/ Clear

Spec == Init /\ [][Next]_<<val, writes>>
=============================================================================
