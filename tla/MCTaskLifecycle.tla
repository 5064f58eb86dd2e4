-------------------------- MODULE MCTaskLifecycle --------------------------
(***************************************************************************)
(* Instances of TaskLifecycle for TLC.                                     *)
(***************************************************************************)
EXTENDS TaskLifecycle, TLC

\* Coroutine slots are only compared, and so are workers: their names may be
\* permuted.  Not used where liveness is checked.
SlotSymmetry == Permutations(Slots)
ProcessSymmetry == Permutations(Slots) \cup Permutations(Workers)
=============================================================================
