----------------------------- MODULE MCWorkLock -----------------------------
(***************************************************************************)
(* Small instances of WorkLock.                                            *)
(***************************************************************************)
EXTENDS WorkLock, TLC

PodSymmetry == Permutations(Pods)
=============================================================================
