------------------------------- MODULE MCLSM -------------------------------
(* Model checking of LSM.                                                  *)
EXTENDS LSM

\* The first block was written by an earlier target, the second never.
MCPreloaded == {1}

MCOtherBases == {8}
=============================================================================
