------------------------------ MODULE MCUsbClient ------------------------------
(* UsbClient with two pool ids, one more than a program uses; they are           *)
(* interchangeable.                                                              *)
EXTENDS UsbClient, TLC

Symmetry == Permutations(PoolIds)
===============================================================================
