----------------------------- MODULE RunRecord -----------------------------
(***************************************************************************)
(* What one run promises its reader, with no processes in it: a log that   *)
(* grows by one honestly graded episode at a time, until a reason to stop  *)
(* holds of the log itself, and then never again.                          *)
(***************************************************************************)
EXTENDS History

VARIABLE log

Init == log = EmptyHistory

\* One whole turn of the loop, atomically, against the whole record.
Step ==
  /\ ~Terminal(log)
  /\ \E e \in NextEpisodes(Rehydrate(log)) : log' = Extend(log, NextIdx(log), e)

Spec == Init /\ [][Step]_log
=============================================================================
