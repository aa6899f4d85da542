# A TLA+ model of the Couchbase Fluent Bit sidecar

The sidecar is one Go program. It runs Fluent Bit as a child process, restarts it
when it ends or when its configuration or certificates change, and copies the
rebalance reports of Couchbase Server to a directory Fluent Bit tails. This
directory holds TLA+ modules of its concurrent core, the TLC configurations that
check them, and TLAPS proofs: of the safety properties of the supervisor, the run group,
the report watcher, the output directory, the backoff delay, the environment and the
memory limits, and of the refinements of two abstract specifications.

## The system

| Part | Source | State | Operations | Hard behaviour |
|---|---|---|---|---|
| Supervisor | `pkg/fluent/watcher.go` | `Config`: `cmd`, `mutex`, `cleanStop`, `restartTimes`, `timer`; a cancel channel per actor | `Start`, `Wait`, `backoff`, `Stop`, `resetTimer`, the actors' selects and interrupts | up to four goroutines on one `Config`, of which the mutex protects a part, and one timer channel received from by all |
| Backoff delay | `watcher.go` 161-180 | `restartTimes` | the power, the product, the cap | 64-bit overflow |
| Run group | `pkg/couchbase/watcher.go` 306-341, `cmd/main.go` | which actors have returned and been interrupted | `CreateWatchers`, `run.Group.Run` | one-by-one interrupts, waiting for every actor |
| Couchbase watcher | `pkg/couchbase/watcher.go` 113-304 | `foundRebalance`, the watched directories, fsnotify's events | `AddCouchbaseWatcher`, `rebalanceDirectoryHandler`, `rebalanceFileHandler`, `ProcessExisting` | a directory that appears at any time, a watch replaced while events are on their way |
| Output directory | same, 48-168 | the files in it | `ProcessFile`, `RemoveOldestFiles` | list rewriting, failed writes, equal times |
| Memory limits, parser | `pkg/common/common.go` 161-247, `parser.go` | environment variables, which every later Fluent Bit inherits | `CheckAndEnableMemoryBufLimits`, `CreateMemBufLimitConfig`, `BuildConfigFile` | state carried from one start to the next, counting, rounding, includes |
| Environment, configuration object | `common.go` 87-159, 252-292, `config.go` | environment variables, `WatcherConfig` | `LoadEnvironment`, `NewWatcherConfigFromDefaults` | precedence; a walk that fails half-way |
| Redaction | `lua/redaction.lua` | none | the filter `cb_sub_message`, run inside Fluent Bit | nested and unclosed tags |
| Logging, version, log differ | `pkg/logging`, `pkg/version`, `tools/` | none that changes | set-up, a test tool | none |

**How the parts interact.** `CreateWatchers` adds the actors to a run group in
the order signal handler, couchbase watcher, configuration watcher, Fluent Bit
loop, certificate watcher. Each runs in a goroutine. The two file watchers call
`Stop` and `resetTimer` on the `Config` of the loop; the loop's interrupt, called
by the goroutine in `Run`, does the same. The couchbase watcher shares nothing
with the supervisor but the run group and the output directory, which Fluent Bit
tails. `main` loads the environment, asks it once for the `WatcherConfig`, and then
creates the watchers. `Start` calls `CheckAndEnableMemoryBufLimits`, which changes the
environment Fluent Bit is given, and whose `log.Fatalw` ends the program.

**What makes each part correct.** Supervisor: never two Fluent Bits, never one
nobody can stop; a change leads to a restart; a backoff ends. Run group: a
return of one actor ends the program, with nothing left running. Couchbase
watcher: every report copied, once, and nothing else. Output directory: bounded,
the oldest goes first. Environment and limits: the later source wins; the limits
are those of the configuration Fluent Bit is started with, and fit into the
container. PROJECT.json lists the hazards, each at its line, with the
properties aimed at it.

## Modules

### FluentWatcher

One process slot per live or unreaped Fluent Bit, one program counter per
goroutine. An action is the code between two points where another goroutine can
come between.

| Code | Actions |
|---|---|
| `select` on `cancel` | `CheckCancel` |
| `Start` (all under the mutex) | `StartOK`, `StartFails` (exec fails), `StartFatal` (`log.Fatalw`) |
| `Wait` | `Wait` (unlocked reads of `cmd` and `cleanStop`), `Reap` (`cmd.Wait`, ten-minute reset), `Clear` |
| `backoff` | `Arm`, `Receive(Loop)`, `Load` and `Count` (the unlocked `++`) |
| `Stop` | `StopBegin`, `Kill`, with the mutex held in between |
| `resetTimer` | `HaltTimer`, `Receive(r)`, `Rearm`, `ZeroRestarts` |
| watchers | `Notice`, `ReturnWatcher`, `InterruptWatcher` |
| the loop's interrupt | `InterruptLoop`, then `Stop` and `resetTimer` by `Interrupter` |
| the runtime's timer, the child, the file system | `Fire`, `ProcEnds`, `Change` |

The timer follows the Go version of `go.mod` (1.24): `Stop` and `Reset` discard a
value nobody has received, and `Stop` returns false only when the value has been
received or the timer was stopped. Receivers queue in order of arrival.
`announced` is a history variable: per watcher, the version its last Create event
brought. The actor code of the two watchers is the same, so they share actions;
`WatcherStep` is mapped to the certificate watcher.

Reads of `cmd` and `cleanStop` in `Wait` are one atomic read: only the loop
writes `cmd`, and `cleanStop` is read once.

### Reload

What a user of the supervisor is promised, without its goroutines: at most one Fluent
Bit runs, it starts with the files of that moment, an announced change makes a stop
pending, and a stop is done with only when nothing runs. FluentWatcher implements it
(`ImplementsReload`): `running` is the version the live process has read, `pending` the
watchers that have a Create event unread, are about to stop, or hold the mutex to kill;
`closed` those that are shut down. `Kill`, or a `StopBegin` that finds nothing to kill, is
`Serve`. The promise says nothing of when: a watcher that waits in `resetTimer` keeps its
stop pending for ever, which `reload_happens` shows.

### Sidecar

The run group around FluentWatcher (EXTENDS it). `Order` is the order of
`CreateWatchers`; `turn` is the interrupt `Run` calls next. The signal handler and
the couchbase watcher are reduced to when they return. `MayEnd = FALSE` switches
off signals and fsnotify errors, for liveness that would otherwise be about
programs that are shutting down. Its actions are those of FluentWatcher, which takes
the interrupts in any order; Sidecar takes them in the order of the code, and no step
after the end of the program.

### Backoff

`delayTime` for a number of restarts, in 64-bit arithmetic: four 16-bit limbs,
as TLC's integers have 32 bits. `Saturates` selects what a float64 out of range
becomes on arm64 or amd64. `Documented` is the reference without overflow.

### Rebalance

`AddCouchbaseWatcher` up to the watch (`Stat`, `FirstWatch`), the two handlers
(`HandleFile`; `HandleDirectory`, `RemoveWatch`, `ListExisting`, `CopyExisting`,
`AddWatch`), the return. Couchbase Server's `CreateInLogs` and `CreateReport` come
at any point in between. When a watch is removed, fsnotify 1.5.1 forgets its path first:
of the events it has read it still delivers one it is already sending, and drops the
others, which without the directory are the Create events of files that do not exist
(`RemoveWatch(sending)`). An error of `watcher.Remove` comes after that, from the kernel,
and is only logged, so it has no outcome of its own. Every other step that can fail has
both outcomes: the two watches, the listings, and each `ProcessFile`, whose error can come
before its copy or after it. `failed` holds the files given up for an error; for
`ProcessExisting` these are all it had not come to.

`noticed` and `copies` are history variables. `ListOnce`, `CopyExisting` and `ExitOnce` are
`-ignoreExisting=false`, where `main` copies what is there and exits. `Restart` is the end
of the program at any point, crash or not, and its next start in either mode: the files
stay, the rest is lost. A start with `-ignoreExisting=false` copies every report again, as
it is asked to; `copies` counts those of a report since the last such start.

### ReportCopies

What the couchbase watcher promises about reports, without its watches and events: a
report is copied once at most; one that is due stays due until it is copied or given up
for an error (`lost`), or the program is started again; all reports are listed only before
the first copy; and one other file may be copied by mistake. Rebalance implements
it (`ImplementsReportCopies`): a report is due while it is listed in `todo` or has an event
in `queue`, and `lost` is the reports in `failed`. `HandleFile` and `CopyExisting`
are `Copy` or `Fail`, the two listings `List`, `Restart` is `Forget` or, into the one-shot
mode, `Again`, and `CreateReport` is `Make`, with the report due only if the directory is
watched: that every report becomes due is not promised, as `nothing_missed` shows.

### Retention

The output directory with names as numbers, in the order `ReadDir` lists them,
and modification times as ranks. `Listed` translates the loop that is meant to
skip directories, `FilesToDelete` the sort and the cut, `RemoveOldestFiles` the
removals up to the first error. `os.Remove` fails for a name it has removed (`Twice`), for
a directory that is not empty (`Full`), and for reasons of the file system, after any
number of removals. `leftovers` counts, since the last call that succeeded, the calls that
failed (all but those of a second removal, which cost no output) and the directories
removed in place of outputs; `MaxFailures` bounds the former. A whole `ProcessFile` is one
action, because one goroutine calls it and nothing else writes there.

### Environment, ConfigParser, MemLimits

One sequential program, in three modules that extend each other, with the steps of
other processes (files that are edited) in between.

`Environment` is `LoadEnvironment` and `NewWatcherConfigFromDefaults`, one action per
step: `Walk` for each file of the Kubernetes directory, `OverloadConfigEnv`,
`SetBufferDirectory`, `ProcessCouchbaseAnnotations`, and then the configuration. An
environment is a function from names to values; a file is the set of pairs godotenv
reads from it. `order` is the order of the annotations in `os.Environ`, which depends on
Go's map order: within one file it is any; `FromAnnotations` is what the annotations
set. `sources` and `loaded` are history.

`ConfigParser` is `parser.go` as operators. A line is its prefix, the variable in it, and
the end of its path. `BuildConfigFile` follows includes to a depth of `MaxOpen`, the number
of files a process can have open; a cycle ends there, with the error of `os.Open`.
`BuildFile` is what one file is put together to, from what the files it includes are.
`InputCount` keeps the quirk of the loop in `CreateMemBufLimitConfig`: an input without a
limit counts once per line.

`MemLimits` composes the two: each `StartLimits` is the beginning of a `Start`, reads the
files as they are then, and leaves its variables in the environment of all later starts.
`Edit` replaces or removes a file in between. `12 n \div 10` is what Go makes of
`int(float32(n) * 1.2)`; the two agree for every n below a million.

`EnvironmentAssumption` says what names there are: an annotation has a "/" in it and the
variable made of it has none, no variable has the empty name, a directory of Kubernetes
is walked in a sequence. `MemLimitsAssumption` says that there are fewer configuration
files than a process can have open, that a container's memory is not negative, and that
the variables of limits (`LimitVariables`) are used for nothing else: none of them is an
annotation, one of the sidecar's own settings, part of the path of an include, or what an
output matches. The configuration of the image is written so, and no code checks it. Of a
configuration that breaks this rule the limits can depend on earlier starts.

### MC modules, proofs, faulty variants

`MCFluentWatcher` adds symmetry (of process slots, which no property tells apart),
`MCRebalance` a start before the directory exists, for `NothingMissed`, `MCMemLimits` the
environments and files. `FluentWatcherProofs`, `SidecarProofs`, `ReloadProofs`,
`RebalanceProofs`, `RetentionProofs`, `BackoffProofs` and `MemLimitsProofs` hold the
theorems, each about the module it is named after, and `Induction` the lemmas the last
two share. The operators
`Bug...` are faulty variants of the definition after them: for each property of a
passing run one of them makes the property fail, so no property holds by the shape
of the model.

## Runs

| Run | Configuration | What holds |
|---|---|---|
| supervisor | `MCFluentWatcher` | `TypeOK`, `RunningIsCurrent`, `KillHasTarget`, `StaleIsPending`, `BackoffIsServed`, `ImplementsReload` |
| sidecar_reload | `MCSidecarReload` | `BackoffEnds`, `ReloadUnlessDraining`, `DrainEndsWithProcess` |
| sidecar_shutdown | `MCSidecarShutdown` | `SidecarTypeOK`, `ReturnIsClean`, `ShutdownUnlessCaught` |
| backoff | `MCBackoff` | `TypeOK`, `DocumentedAtFirst`, `NoDelayAtLast` |
| rebalance | `MCRebalance` | `TypeOK`, `CopiedOnce`, `OneStrayAtMost`, `NoticedIsHandled`, `NoticedIsCopied`, `DirectoryIsFound`, `BlindUntilRestart`, `ImplementsReportCopies` |
| retention | `MCRetention` | `TypeOK`, `OutputBounded`, `LatestKept`, `TwiceAfterLeftovers`, `RecentKept` |
| settings | `MCMemLimits` | `TypeOK`, `PrecedenceKept`, `NoWatchOfCurrentDir`, `LimitsSeeWhatRuns`, `LimitsFollowConfig`, `BuffersFit`, `IncludesFollowed` |

Runs that find a disagreement between the code and what a comment or test says
(the quotes are under "findings" in PROJECT.json):

| Run | Configuration | What TLC finds |
|---|---|---|
| reload_happens | `MCReloadHappens` | a watcher waits in `resetTimer` while Fluent Bit runs with old files |
| shutdown_returns | `MCShutdownReturns` | `Run` does not return after a signal |
| delay_is_documented | `MCDelayIsDocumented` | the delay overflows at the 35th restart in a row |
| nothing_missed | `MCNothingMissed` | a report created between listing and watch is never copied |
| oldest_removed | `MCOldestRemoved` | `files[0] = f`: a younger output goes first |

The passing properties around them say how far the damage goes: `ReloadUnlessDraining`
and `DrainEndsWithProcess` that a deaf watcher is the only reason for a missed reload
and that it hears again after the process has ended, whatever the loop starts next,
`ShutdownUnlessCaught` which two situations
keep `Run` from returning, `DocumentedAtFirst` which delays are
right, `NoDelayAtLast` where the overflows end, in restarts without a pause,
`BlindUntilRestart` that a second watch which could not be added is never tried again,
`OutputBounded`, `LatestKept` and `RecentKept` what the retention still guarantees: the
output just written stays, and an entry goes only if at least `MaxCBFiles` - 1 others
that are as new stay.

`OutputBounded` also says where the bound ends. A call that fails costs one output, and
the first that succeeds pays for all of them. But a directory that is not empty is not
skipped by the loop, and once it is the oldest entry of the list every call fails at it:
then each report adds an output, and nothing bounds them.

The settings run also shows what the code gives and does not document. An input without
`Mem_Buf_Limit` counts once per line, so limits get smaller than they need to be, never
larger (`BuffersFit`); of a memory that is small enough the limit is 0MB, which fits as a
number, though Fluent Bit takes 0 for no limit. Of two annotations that become one
variable, the one later in `os.Environ` wins (`PrecedenceKept` allows either). A value with "=" in it is skipped.
A circular include ends the program when it has no more files to open
(`IncludesFollowed` and `Exit`). When no input and no output counts, the code leaves the
limits alone, and a variable that is not one of `memoryBufLimits` keeps the limit of an
earlier start; `LimitsFollowConfig` excepts exactly that.

### Bounds

* `Procs`: with `{p1, p2}` a killed, unreaped process can exist beside a new one;
  more than one such leftover adds no new relation, as nothing refers to them. A
  slot whose process is a zombie can be taken again, which is how a leftover is
  forgotten. The runs of the run group use `{p1}`.
* `Watchers`: one beside the shutdown in the runs of the supervisor and of the
  shutdown, where the two compete for the mutex and the timer; both in the run about
  reloads. The theorems hold for any number.
* `MaxVersion`: two changes are needed for a change that is not seen because the
  watcher is busy with the one before; the shutdown needs one, which is enough for a
  watcher to be in `Stop` or `resetTimer` when it comes.
* `MaxRestartTimes`: a count saturates; 1 tells a reset count from another, and no
  guard reads it.
* Backoff: 80 restarts pass the first overflow (34), the first zero (55) and the
  end of int64 (63).
* Rebalance: three reports, so that a listing has several and one more can come
  before, during and after it; two log files for an event that is being sent and
  one queued behind it; two restarts (`MaxRestarts`) at any point, so that the program
  goes from one mode to the other and back.
* Settings: seven environments, four walks (one that fails half-way), two places and
  contents of `config.env`, three roots, three includes (one closes a cycle) and a second
  directory. Each source overwrites a variable of each earlier one in some start. The
  files are edited any number of times; `MaxOpen` is over the number of files, so only a
  cycle reaches it (`MemLimitsAssumption`).
* Retention: a limit of 3 with up to eight names, two of them of directories, one of
  which is not empty, lets a repeated name take every position relative to the cut. With
  `MaxFailures` at 2, no call fails once there are two leftovers: enough for one that
  succeeds to meet several files too many. The run that disagrees with a comment uses the
  limit of the code, 5. The names bound how many outputs exist at a time, not how many
  are written.

Deadlock is not checked where the system does stop: main returns, an actor returns,
the files of an instance run out. `Backoff` never stops and is checked for it.

### Fairness

Weak fairness only. `Run`, the loop and each watcher is a goroutine: the scheduler
runs one that can run. The timer fires once armed. A process that has been sent
SIGKILL ends. An actor that has been interrupted returns: of a watcher's return only
this part is fair, never an fsnotify error. Nothing is assumed of file changes, of
signals, or of a Fluent Bit that is left alone. The mutex is released within two
steps by a goroutine that can always take them, so weak fairness is enough for the
goroutines that wait for it: in the checked instances nobody takes it for ever. For
Rebalance, the actor's goroutine runs, and the server does as it likes.

## Proofs

`FluentWatcherProofs` proves for any finite or infinite number of watchers, slots
and changes, from the one assumption `ConstantsAssumption`:

* `TypeCorrect`: `Spec => []TypeOK`, by one lemma per action group.
* `Inductive`: `Spec => []IInv`. None of the invariants below is inductive on its own.
  `IInv` adds what the argument needs. `LoopInv`: `cmd` holds a process from `Start`
  to the end of `Wait` and at no other time. `MutexInv`: between two steps the mutex is
  held by exactly the goroutine that is about to kill, so `Start` and `Clear` wait for
  it. `MarkedInv`: once the mutex is free, a process that is marked by `cleanStop`, or
  that the loop has waited for, no longer runs; this is why `Wait` may skip `cmd.Wait`
  and set `cmd` to nil without losing a live process. `WaitersInv`: the queue of
  receivers holds blocked goroutines, each once. `AnnouncedInv`: no watcher has
  announced a version that was not made, so a process just started is never stale.
* `RunningCurrent`, `KillTargeted`, `StalePending`: from `Inductive`.
* `BackoffServed`: a resetter that stops the timer, or takes its value, is at `rearm`
  afterwards; a value sent to a blocked resetter takes it there too.

`SidecarProofs` takes `IInv` over to the run group, whose steps are the supervisor's (lemma
`SidecarImplements`), and with it and the order of the turns (`RunInv`) proves
`ReturnClean`: when `Run` has returned every actor is done; a fatal error leaves the loop
where it starts Fluent Bit; in neither place does the loop hold a process, and
`RunningIsCurrent` then leaves none running. `SidecarTypeCorrect` bounds the turns. `SidecarInvariants`
carries `RunningIsCurrent`, `KillHasTarget`, `StaleIsPending` and `BackoffIsServed` over. It
assumes `ConstantsAssumption` and
`ActorsAssumption`.

`ReloadProofs` proves `ReloadImplemented`: under `IInv` every step of the supervisor is a
step of Reload or leaves its variables alone. The steps that matter are `StartOK` (no
live process, as `RunningIsCurrent` and `LoopInv` say), `Notice` (the event read is the one
that keeps the stop pending), `StopBegin` (without a process in `cmd` nothing runs) and
`Kill`. `SidecarKeepsPromise` follows with `SidecarImplements`.

`RebalanceProofs` proves of Rebalance, for any files and any number of restarts, from
`FilesAssumption`: `TypeCorrect`, `OnceOnly`, `NothingLost`, `OneStray`, `StaysBlind` and
`CopiesPromised`. The invariant
`IInv` follows each file on its way: what is queued or listed exists and has not been
copied, and is in the queue once (`QueueInv`, `TodoInv`); events of reports come from the
watch of the directory, and that watch exists only after the last listing (`PhaseInv`),
so a report is never both listed and announced; and once the first watch is
gone, all log files that were or will be taken for reports are one (`StrayInv`).
`StaysBlind` needs that a watcher without a watch has `foundRebalance` set (`BlindInv`): so
the handler that lists and watches is not called again. `CopiesPromised` is the refinement
of ReportCopies, under `IInv`: an event that is handled takes its file off the queue and
no other (`Popped`), a created file puts itself there and no other (`Pushed`), nothing is
due when the directory is listed, and what `ProcessFile` copies was due or is the first
file of the log directory to be taken for a report (`StepOfFile`).

`RetentionProofs` proves of the output directory, for any names, limit, directories and
number of failed calls, from `RetentionAssumption`: `TypeCorrect`, `DirectoryBounded`,
`TwiceNeedsLeftovers`, `NewestStays` and `RecentStay`. The list `RemoveOldestFiles` cuts
lacks its first file, and can hold its last one twice; the lemmas say what such a list,
sorted and cut, removes. `IInv` adds to the two bounds that times are ranks without a gap
(`Dense`) and that the directories still there can be removed within the bound on leftovers
(`LeftoversCounted`). `NewestStays` needs `MaxCBFiles > 1`, the code has 5: with a limit of
1 the last file, listed twice, is removed by the call that wrote it.

`BackoffProofs` proves of the delay, for any number of restarts and both processors:
`TypeCorrect`, `FirstDocumented` and `NoDelay`. The limbs multiply modulo
2^64 with every carry accounted for (`TimesValue`), and exactly as long as the product
fits (`TimesExact`); the product doubles without an overflow for the first 34 restarts,
and `AtLeast` compares the numbers the limbs stand for. So the model of 64-bit
arithmetic that TLC computes with is shown to be arithmetic. For `NoDelay`, a second is
a multiple of 2^9 nanoseconds and each doubling adds a factor of 2 whatever overflows
(`DoublingClears`, as 2^64 is a multiple of it too), so after 54 doublings the product
is 0 or 2^63, and after 55 it is 0 (`Cleared`, `Emptied`).

`Induction` is what replaces the library's induction theorems, which take an operator:
it speaks of the set of the numbers for which something holds. Such a set has a least
element (`Least`), grows to all of a range (`Upwards`), and a recursive function over it
unfolds (`Iterates`). `BackoffProofs` uses it for powers and doublings,
`MemLimitsProofs` for the sums and for the depth of includes.

`MemLimitsProofs` proves of the environment, the parser and the limits, for any files,
environments, walks, annotations and number of starts and edits, from
`EnvironmentAssumption` and `MemLimitsAssumption`:

* `LimitsFit`: whatever the counts, the limit times the inputs is within the memory.
* `TypeCorrect`, `PrecedenceHolds`: from `EnvInv`, which says for each stage what the
  environment is in terms of its sources. During the walk each name has the value of the
  last file read that sets it (`WalkOK`); then it is what `config.env` or the walk says
  (`ReadOK`); `order` lists the annotations that are set, each once, so the last one to
  set a variable exists.
* `SeesWhatRuns`, `FollowsConfig`: from `LimitsInv`. After any number of starts the
  environment agrees with the loaded one outside `LimitVariables` (`LoadedKept`), and on
  them it is what the files of the last start make of the loaded one (`StartKept`). The
  parser reads only variables on which the two agree, so it returns the same.
* `BuffersAlwaysFit`: the parser counts at least once each enabled input that has a
  variable for a limit (`SectionCounts`, `CountsCover`: sums over the lines and over the
  sections), all of these get the same limit, and `LimitsFit` does the rest.
* `IncludesAreFollowed`: a file's rank is the first depth at which it is built. A file
  includes only files of a smaller rank, so the used files sorted by rank are the order
  that is claimed; and along an order each file is built by the depth of its place, which
  is below `MaxOpen`.
* `CurrentDirUnwatched`: no directory that is watched is the current one, under the
  hypothesis `NoneIsCurrent` that no value of any source is a path of it. The hypothesis is
  needed, as a user can set a directory to ".", and stands for what the provers do not know
  of `path.Clean`: to them strings have no characters. The theorem says that the program
  never makes such a path of nothing: `loaded` has only values of the sources
  (`LoadedValue`), `GetDirectory` replaces an empty one before it is cleaned, and
  `Optional` leaves it out. TLC evaluates the hypothesis for the settings run
  (`NobodyAsked`).

`IInv` was checked by TLC on the settings instance before it was proved.

Only model-checked is liveness, which needs fairness and ENABLED: `BackoffEnds`,
`ReloadUnlessDraining`, `DrainEndsWithProcess`, `ShutdownUnlessCaught`, `NoticedIsCopied`,
`DirectoryIsFound`. Every other property of a passing run is stated by a theorem.

## Not modelled

* The redaction filter: Fluent Bit runs it, one record at a time and without state; what
  it does is the meaning of two Lua patterns over characters, which a model could only
  restate. The SHA-1 library is third-party.
* The contents of reports, and a report still being written when it is read.
* A panic in `RemoveOldestFiles` when an entry vanishes between `ReadDir` and
  `Info`: nothing else removes files there.
* A write that a file watcher is not told of: `IsValidEvent` ignores it, and
  `StaleIsPending` speaks of Create events only.
* What Fluent Bit does with its input, configuration and output.
* How godotenv parses a file; lines longer than the scanner of `BuildConfigFile` takes,
  where it stops without an error; memory limits below zero.
* The setters of `config.go` (for tests) and a `CreateRebalanceDir` that fails: it is
  logged, and then every `ProcessFile` fails, which Rebalance allows.
* Logging and version (strings), and the log differ, a tool of the tests that compares two
  files line by line.

## Plan

1. FluentWatcher, Sidecar, Backoff, Rebalance, Retention with their runs; the
   supervisor's invariants and the refinement proved. (Present.)
2. Rebalance with restarts and the one-shot mode; its invariants proved. (Present.)
3. Reload as the abstract specification, its refinement checked and proved. (Present.)
4. Environment, ConfigParser, MemLimits, and all their safety properties proved.
   (Present.)
5. Retention and Backoff proved. (Present.)
6. ReportCopies as the abstract specification of Rebalance, its refinement checked and
   proved; the watcher whose second watch fails. (Present.)
7. Left: reports that grow while they are read, composed with Retention: which copies are
   whole, and for how long.
