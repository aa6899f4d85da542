---------------------------- MODULE ReportCopies ----------------------------
(***************************************************************************)
(* What the couchbase watcher promises about rebalance reports, whatever   *)
(* its watches and events do: a report is copied at most once; one that is *)
(* due stays due until it is copied or given up for an error, or the       *)
(* program is started again, which may ask for all copies anew; one file   *)
(* that is no report may be copied by mistake. That a report that appears  *)
(* becomes due is not promised. Rebalance implements this.                 *)
(***************************************************************************)
EXTENDS Integers

CONSTANTS
  Reports,   \* rebalance reports
  LogFiles   \* the other files of the log directory

VARIABLES
  made,     \* the reports that have been written
  due,      \* those the watcher has been told of, or has listed, and has not copied
  copies,   \* how often each file has been copied
  lost      \* the reports given up for an error since the last start

vars == <<made, due, copies, lost>>

Init ==
  /\ made \in SUBSET Reports /\ due = {}
  /\ copies = [f \in Reports \cup LogFiles |-> 0] /\ lost = {}

Make(r) ==
  /\ r \notin made
  /\ made' = made \cup {r}
  /\ due' \in {due, due \cup {r}}
  /\ UNCHANGED <<copies, lost>>

\* Everything is listed, before anything has been copied.
List ==
  /\ \A r \in Reports : copies[r] = 0
  /\ due' = made
  /\ UNCHANGED <<made, copies, lost>>

\* The first and only copy of f: a report that is due, or the one other file.
Once(f) ==
  /\ copies[f] = 0
  /\ f \in due \/ (f \in LogFiles /\ \A g \in LogFiles : copies[g] = 0)
  /\ copies' = [copies EXCEPT ![f] = 1]

Copy(f) == Once(f) /\ due' = due \ {f} /\ UNCHANGED <<made, lost>>

\* Reports that are due are given up, and one of them, or the other file, may have its
\* copy nevertheless.
Fail ==
  \E given \in SUBSET due :
    /\ lost' = lost \cup given /\ due' = due \ given
    /\ UNCHANGED copies \/ \E f \in given \cup LogFiles : Once(f)
    /\ UNCHANGED made

\* Started again, the program knows of no report and of no error.
Forget == due' = {} /\ lost' = {} /\ UNCHANGED <<made, copies>>

\* It is asked for all reports, as if it had copied none.
Again ==
  /\ due' = {} /\ lost' = {}
  /\ copies' = [f \in DOMAIN copies |-> IF f \in Reports THEN 0 ELSE copies[f]]
  /\ UNCHANGED made

Next ==
  \/ List \/ Fail \/ Forget \/ Again
  \/ \E r \in Reports : Make(r)
  \/ \E f \in Reports \cup LogFiles : Copy(f)

Spec == Init /\ [][Next]_vars
=============================================================================
