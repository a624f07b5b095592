----------------------------- MODULE MCRunLock ------------------------------
(***************************************************************************)
(* Two attempts at one run: a holder that stalls or dies and the one that    *)
(* replaces it, whichever of them has a null lock.                           *)
(***************************************************************************)
EXTENDS RunLock

CONSTANTS l1, l2
=============================================================================
