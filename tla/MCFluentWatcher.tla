--------------------------- MODULE MCFluentWatcher ---------------------------
(* FluentWatcher with the constants TLC checks it for.                     *)
EXTENDS FluentWatcher, TLC

Symmetry == Permutations(Procs) \cup Permutations(Watchers)
=============================================================================
