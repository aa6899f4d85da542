------------------------------ MODULE Rebalance ------------------------------
(***************************************************************************)
(* The couchbase watcher of pkg/couchbase/watcher.go: until the rebalance  *)
(* directory exists it watches the log directory; then it removes that     *)
(* watch, copies the reports that are there, watches the rebalance         *)
(* directory and copies every report that appears in it.                   *)
(* Couchbase Server makes the directory and writes reports and other log   *)
(* files at any time. What a copy looks like is left out; which copies are *)
(* kept is the subject of Retention.                                       *)
(*                                                                         *)
(* The program may crash, or end, at any point and is then started again,  *)
(* in either mode, with the copies it has made still there. Started with   *)
(* -ignoreExisting=false it copies all reports that are there, also those  *)
(* it has copied before, and exits.                                        *)
(***************************************************************************)
EXTENDS Integers, Sequences, FiniteSets

CONSTANTS
  Reports,    \* rebalance reports
  LogFiles,   \* other files created in the log directory
  Dir,        \* the rebalance directory itself, as an entry of the log directory
  MaxRestarts \* bound: how often the program is started again

Copyable == Reports \cup LogFiles

ASSUME FilesAssumption ==
  Reports \cap LogFiles = {} /\ Dir \notin Copyable /\ MaxRestarts \in Nat

VARIABLES
  pc,         \* where AddCouchbaseWatcher, then its actor, is
  found,      \* foundRebalance
  watching,   \* the watches of the fsnotify.Watcher: "log", "dir"
  queue,      \* the Create events on their way, the first one to come first
  todo,       \* the files ProcessExisting has listed and not yet processed
  exists,     \* the files and the directory that exist
  copies,     \* history: how often each file has been copied, a report since the
              \* program was last started with -ignoreExisting=false
  failed,     \* history: the files given up for an error, since the last start
  noticed,    \* history: reports created while watched, or listed, since then
  restarts    \* how often the program has been started again

vars == <<pc, found, watching, queue, todo, exists, copies, failed,
          noticed, restarts>>

copyVars == <<copies, failed>>

Event(watch, f) == [watch |-> watch, file |-> f]
Goto(from, to) == pc = from /\ pc' = to

\* A rebalance directory that is there at the start may hold reports.
Init ==
  /\ pc \in {"stat", "once"} /\ found = TRUE /\ watching = {} /\ queue = <<>> /\ todo = {}
  /\ exists \in {{}} \cup {{Dir} \cup old : old \in SUBSET Reports}
  /\ copies = [f \in Copyable |-> 0] /\ failed = {} /\ noticed = {}
  /\ restarts = 0

-----------------------------------------------------------------------------
(* The operators named Bug... are faulty variants of the definition that   *)
(* follows them: each property is checked to fail for one of them.         *)

\* The directory is never expected to be there.
BugStat ==
  /\ Goto("stat", "watch")
  /\ found' = FALSE
  /\ UNCHANGED <<watching, queue, todo, exists, copyVars, noticed, restarts>>

\* AddCouchbaseWatcher: os.Stat, and then the first watch.
Stat ==
  /\ Goto("stat", "watch")
  /\ found' = (Dir \in exists)
  /\ UNCHANGED <<watching, queue, todo, exists, copyVars, noticed, restarts>>

\* The watch can fail: then AddCouchbaseWatcher does, and main exits.
FirstWatch ==
  /\ \/ Goto("watch", "idle") /\ watching' = {IF found THEN "dir" ELSE "log"}
     \/ Goto("watch", "done") /\ UNCHANGED watching
  /\ UNCHANGED <<found, queue, todo, exists, copyVars, noticed, restarts>>

\* ProcessFile copies f; or it returns an error, which can come after the copy,
\* from RemoveOldestFiles, and its caller gives up the files given.
Copied(f) == [copies EXCEPT ![f] = @ + 1]
Copy(f) == copies' = Copied(f) /\ UNCHANGED failed
Fail(f, given) ==
  /\ failed' = failed \cup given
  /\ UNCHANGED copies \/ (f # Dir /\ copies' = Copied(f))

Received(e) == queue # <<>> /\ e = Head(queue) /\ queue' = Tail(queue)

\* rebalanceFileHandler: the error is only logged. A directory cannot be read.
HandleFile(e) ==
  /\ pc = "idle" /\ found
  /\ Received(e)
  /\ (e.file # Dir /\ Copy(e.file)) \/ Fail(e.file, {e.file})
  /\ UNCHANGED <<pc, found, watching, todo, exists, noticed, restarts>>

\* The error of os.Stat is misread.
BugHandleDirectory(e) ==
  /\ pc = "idle" /\ ~found
  /\ Received(e)
  /\ pc' = IF Dir \in exists THEN "idle" ELSE "remove"
  /\ UNCHANGED <<found, watching, todo, exists, copyVars, noticed, restarts>>

\* rebalanceDirectoryHandler: whatever the event is, look for the directory.
HandleDirectory(e) ==
  /\ pc = "idle" /\ ~found
  /\ Received(e)
  /\ pc' = IF Dir \in exists THEN "remove" ELSE "idle"
  /\ UNCHANGED <<found, watching, todo, exists, copyVars, noticed, restarts>>

\* The new watch is added before the existing files are processed.
BugWatchFirst(sending) ==
  /\ Goto("remove", "list")
  /\ watching' = {"dir"}
  /\ sending <= Len(queue) /\ queue' = SubSeq(queue, 1, sending)
  /\ UNCHANGED <<found, todo, exists, copyVars, noticed, restarts>>

\* The old watch is not removed.
BugWatchKept(sending) ==
  /\ Goto("remove", "list")
  /\ UNCHANGED <<found, watching, queue, todo, exists, copyVars, noticed, restarts>>

\* watcher.Remove. fsnotify forgets the path of the watch, so of the events it has
\* read only one it is already sending is delivered: the others have lost the
\* directory of their names, and Create events of files that do not exist are
\* dropped. An error, which is only logged, is the kernel's: it comes after that.
RemoveWatch(sending) ==
  /\ Goto("remove", "list")
  /\ watching' = watching \ {"log"}
  /\ sending <= Len(queue) /\ queue' = SubSeq(queue, 1, sending)
  /\ UNCHANGED <<found, todo, exists, copyVars, noticed, restarts>>

\* The log directory is listed.
BugListExisting ==
  /\ Goto("list", "existing")
  /\ \/ todo' = exists \ Reports /\ noticed' = noticed
     \/ UNCHANGED <<todo, noticed>>
  /\ UNCHANGED <<found, watching, queue, exists, copyVars, restarts>>

\* ProcessExisting: os.ReadDir, which can fail.
ListExisting ==
  /\ Goto("list", "existing")
  /\ \/ todo' = exists \cap Reports /\ noticed' = noticed \cup todo'
     \/ UNCHANGED <<todo, noticed>>
  /\ UNCHANGED <<found, watching, queue, exists, copyVars, restarts>>

\* -ignoreExisting=false: main calls ProcessExisting, and nothing else.
ListOnce ==
  /\ Goto("once", "copying")
  /\ \/ todo' = exists \cap Reports /\ noticed' = noticed \cup todo'
     \/ UNCHANGED <<todo, noticed>>
  /\ UNCHANGED <<found, watching, queue, exists, copyVars, restarts>>

\* ProcessExisting returns the first error: what it has not come to is given up.
CopyExisting(f) ==
  /\ pc \in {"existing", "copying"}
  /\ f \in todo
  /\ \/ Copy(f) /\ todo' = todo \ {f}
     \/ Fail(f, todo) /\ todo' = {}
  /\ UNCHANGED <<pc, found, watching, queue, exists, noticed, restarts>>

\* The handler does not return true.
BugNotFound ==
  /\ Goto("existing", "idle")
  /\ todo = {}
  /\ watching' \in {watching, watching \cup {"dir"}}
  /\ UNCHANGED <<found, queue, todo, exists, copyVars, noticed, restarts>>

\* watcher.Add: an error is only logged.
AddWatch ==
  /\ Goto("existing", "idle")
  /\ todo = {}
  /\ watching' \in {watching, watching \cup {"dir"}}
  /\ found' = TRUE
  /\ UNCHANGED <<queue, todo, exists, copyVars, noticed, restarts>>

\* case <-done, or case <-watcher.Errors: the actor returns.
Return ==
  /\ Goto("idle", "done")
  /\ UNCHANGED <<found, watching, queue, todo, exists, copyVars, noticed, restarts>>

\* os.Exit(0) after ProcessExisting.
ExitOnce ==
  /\ Goto("copying", "exit")
  /\ todo = {}
  /\ UNCHANGED <<found, watching, queue, todo, exists, copyVars, noticed, restarts>>

\* The program ends, or crashes, at any point and is started again, in either mode.
Restart ==
  /\ restarts < MaxRestarts
  /\ \/ pc' = "stat" /\ UNCHANGED copies
     \/ pc' = "once" /\ copies' = [f \in Copyable |-> IF f \in Reports THEN 0 ELSE copies[f]]
  /\ found' = TRUE
  /\ watching' = {} /\ queue' = <<>> /\ todo' = {} /\ failed' = {} /\ noticed' = {}
  /\ restarts' = restarts + 1
  /\ UNCHANGED exists

-----------------------------------------------------------------------------
(* Couchbase Server.                                                       *)

\* Create f in the directory of the watch; fsnotify queues an event if it is
\* watched. (The event IsValidEvent keeps: others are ignored.)
Create(f, watch) ==
  /\ f \notin exists
  /\ exists' = exists \cup {f}
  /\ queue' = IF watch \in watching THEN Append(queue, Event(watch, f)) ELSE queue
  /\ UNCHANGED <<pc, found, watching, todo, copyVars, restarts>>

CreateInLogs == \E f \in LogFiles \cup {Dir} : Create(f, "log") /\ UNCHANGED noticed

CreateReport(f) ==
  /\ Dir \in exists
  /\ Create(f, "dir")
  /\ noticed' = IF "dir" \in watching THEN noticed \cup {f} ELSE noticed

-----------------------------------------------------------------------------
Actor ==
  \/ Stat \/ FirstWatch \/ ListExisting \/ AddWatch \/ ListOnce \/ ExitOnce
  \/ queue # <<>> /\ (HandleFile(Head(queue)) \/ HandleDirectory(Head(queue)))
  \/ \E sending \in 0..1 : RemoveWatch(sending)
  \/ \E f \in Reports : CopyExisting(f)

Server == CreateInLogs \/ \E f \in Reports : CreateReport(f)

Next == Actor \/ Return \/ Restart \/ Server

Safety == Init /\ [][Next]_vars

\* The actor's goroutine runs; nothing is assumed of Couchbase Server.
Spec == Safety /\ WF_vars(Actor)
-----------------------------------------------------------------------------
(* Properties.                                                             *)

\* Type invariant of the watcher and of the events on their way.
TypeOK ==
  /\ pc \in {"stat", "watch", "idle", "remove", "list", "existing", "done",
            "once", "copying", "exit"}
  /\ found \in BOOLEAN
  /\ watching \subseteq {"log", "dir"}
  /\ queue \in Seq([watch : {"log", "dir"}, file : Copyable \cup {Dir}])
  /\ todo \subseteq Reports /\ noticed \subseteq Reports
  /\ exists \subseteq Copyable \cup {Dir}
  /\ copies \in [Copyable -> Nat]
  /\ failed \subseteq Copyable \cup {Dir}
  /\ restarts \in 0..MaxRestarts

Queued(f) == \E i \in 1..Len(queue) : queue[i].file = f

\* No report is copied twice, so Fluent Bit ships none twice: what
\* ProcessExisting lists and what the new watch reports do not overlap
\* (the order of Remove, ProcessExisting and Add in rebalanceDirectoryHandler),
\* and a program that is started again lists none it has copied before, unless it is
\* started with -ignoreExisting=false, which asks for all reports anew
\* (foundRebalance of AddCouchbaseWatcher, main).
CopiedOnce == \A f \in Copyable : copies[f] <= 1

\* A report the watcher was told of, or listed, is copied, still has its copy coming,
\* or was given up for an error: its own, or that of a report listed before it. No
\* event is taken by the wrong handler, and an error costs no report but these
\* (foundRebalance, the two handlers, ProcessExisting).
NoticedIsHandled ==
  \A r \in noticed : copies[r] > 0 \/ r \in todo \/ Queued(r) \/ r \in failed

\* Such a report is copied or given up in the end, whatever happens to the others,
\* unless the actor returns or the program is started again, which forgets it.
NoticedIsCopied ==
  \A r \in Reports :
    r \in noticed ~> copies[r] > 0 \/ r \in failed \/ pc = "done" \/ r \notin noticed

\* Once the directory exists, any event of the log directory makes the watcher switch,
\* also one that is older than the directory, and also if the directory appeared
\* between os.Stat and the first watch, which reports no event of it
\* (rebalanceDirectoryHandler, which looks for the directory at every event).
DirectoryIsFound == Dir \in exists /\ queue # <<>> ~> found \/ pc = "done"

\* Once the rebalance directory is watched, every report in it has been noticed:
\* "process all existing", then "watch for new ones" (comments in
\* rebalanceDirectoryHandler). To be checked from a start without reports.
NothingMissed ==
  "dir" \in watching => exists \cap Reports \subseteq noticed

\* When the watch is replaced, at most one event of the log directory, the one
\* fsnotify is sending, is taken for a report and has its file copied
\* (watcher.Remove, rebalanceFileHandler).
OneStrayAtMost == Cardinality({f \in LogFiles : copies[f] > 0}) <= 1

\* Once the second watch could not be added, the watcher is blind for good: it lists
\* no report and is told of none until the program is started again, whatever events of
\* the log directory are left (watcher.Add and "return true" in
\* rebalanceDirectoryHandler).
BlindUntilRestart ==
  [][pc = "idle" /\ watching = {} /\ UNCHANGED restarts =>
       pc' \in {"idle", "done"} /\ watching' = {} /\ noticed' = noticed]_vars

\* The reports that are still to be copied: listed, or on their way as events.
Due == {r \in Reports : r \in todo \/ Queued(r)}

Promise == INSTANCE ReportCopies WITH
  made <- exists \cap Reports, due <- Due, lost <- failed \cap Reports

\* The two watches, the listing between them and the events, in whatever order
\* Couchbase Server makes them happen, amount to ReportCopies: one copy of each
\* report that is due, and none of them forgotten but those an error gives up, until
\* the program is started again (the two handlers, ProcessExisting,
\* AddCouchbaseWatcher and main).
ImplementsReportCopies == Promise!Spec
=============================================================================
