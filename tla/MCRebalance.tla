----------------------------- MODULE MCRebalance -----------------------------
(* Rebalance with the constants TLC checks it for.                         *)
EXTENDS Rebalance

\* The sidecar has started before Couchbase Server makes the directory.
EarlySafety ==
  Init /\ exists = {} /\ [][Next /\ (pc \in {"stat", "watch"} => UNCHANGED exists)]_vars
=============================================================================
