------------------------------ MODULE MemLimits ------------------------------
(***************************************************************************)
(* The memory buffer limits of pkg/common/common.go. Each Start of Fluent  *)
(* Bit (FluentWatcher) first works them out again, from the environment    *)
(* and from the configuration file as it is then, and sets a variable per  *)
(* input, which that Fluent Bit and all later ones inherit.                *)
(***************************************************************************)
EXTENDS ConfigParser

CONSTANTS
  Texts,      \* what each configuration file can hold
  MemoryOf,   \* the number in each value that is one
  Known       \* the variables of memoryBufLimits

\* The lines that can be written, and the variables that limit memory in one of them.
Written == UNION {Range(text) : text \in UNION Range(Texts)}
LimitVariables ==
  Known \cup ({line.var : line \in {l \in Written : l.kind = "MEM_BUF_LIMIT"}} \ {""})

\* A configuration has fewer files than a process can have open, and no container less
\* than no memory. The variables of limits are not used for anything else: they are
\* neither annotations, whose names are not words of capitals, nor settings of the
\* sidecar, nor what an include or a match of an output depends on.
ASSUME MemLimitsAssumption ==
  /\ IsFiniteSet(DOMAIN Texts)
  /\ MaxOpen \in Nat /\ MaxOpen > Cardinality(DOMAIN Texts)
  /\ \A value \in DOMAIN MemoryOf : value # "" /\ MemoryOf[value] \in Nat
  /\ \A path \in DOMAIN Texts : \A text \in Texts[path] : text \in Seq(Range(text))
  /\ LimitVariables \cap Annotations = {}
  /\ LimitVariables \cap {"COUCHBASE_LOGS_CONFIG_FILE", "COUCHBASE_LOGS_DYNAMIC_CONFIG",
                         "MEM_BUF_LIMITS_ENABLED", "CONTAINER_LIMITS_MEMORY_MEGABYTES",
                         "AUDIT_ENABLED"} = {}
  /\ \A line \in Written : line.kind \in {"@include", "MATCH"} => line.var \notin LimitVariables

VARIABLES
  files,      \* the configuration files that exist, with their lines
  given       \* history: the files of the last Start; empty before it

vars == <<envVars, files, given>>

MemInit ==
  /\ Init
  /\ files \in {f \in [DOMAIN Texts -> UNION Range(Texts)] : \A p \in DOMAIN f : f[p] \in Texts[p]}
  /\ given = <<>>

-----------------------------------------------------------------------------
\* A variable that a configuration no longer names keeps its limit.
BugSetMemoryBufLimitDefaults(e) == Over(e, [k \in Known |-> "false"])

SetMemoryBufLimitDefaults(e) == Over([k \in Known |-> "false"], e)

\* Outputs count once.
BugPerInput(memory, inputs, outputs) == memory \div ((12 * outputs) \div 10 + 1)

\* The product is a float32, the divisor its integer part. (For fewer than a million
\* inputs and outputs that part is 12 n \div 10.)
CalculatePerInputMemoryLimit(memory, inputs, outputs) ==
  memory \div ((12 * (inputs + 2 * outputs)) \div 10)

Exit(e) == [exit |-> TRUE, env |-> e]
Keep(e) == [exit |-> FALSE, env |-> e]

\* The last part of updateMemoryBufLimits: the same limit for every variable.
SetLimits(e, memory, found) ==
  IF found.inputs + found.outputs = 0 \/ found.names = {} THEN e
  ELSE LET limit == CalculatePerInputMemoryLimit(memory, found.inputs, found.outputs)
       IN  Over([name \in found.names \ {""} |-> ToString(limit) \o "MB"], e)

UpdateMemoryBufLimits(e, texts) ==
  LET memory == Getenv(e, "CONTAINER_LIMITS_MEMORY_MEGABYTES")
      built  == BuildConfigFile(e, texts, GetConfigFile(e))
  IN  CASE memory = "" -> Keep(SetMemoryBufLimitDefaults(e))
        [] memory \notin DOMAIN MemoryOf \cup {""} -> Exit(e)
        [] memory \in DOMAIN MemoryOf /\ ~built.ok -> Exit(e)
        [] memory \in DOMAIN MemoryOf /\ built.ok ->
             Keep(SetLimits(e, MemoryOf[memory], CreateMemBufLimitConfig(e, built.lines)))

\* A value that strconv.ParseBool refuses ends the program.
CheckAndEnableMemoryBufLimits(e, texts) ==
  LET reset   == SetMemoryBufLimitDefaults(e)
      enabled == Getenv(e, "MEM_BUF_LIMITS_ENABLED")
  IN  CASE enabled \in Truths -> UpdateMemoryBufLimits(reset, texts)
        [] enabled \in Falsehoods \cup {""} -> Keep(reset)
        [] OTHER -> Exit(reset)

\* What Start does before it starts Fluent Bit.
StartLimits ==
  /\ stage = "run"
  /\ LET result == CheckAndEnableMemoryBufLimits(env, files)
     IN  /\ env' = result.env
         /\ stage' = IF result.exit THEN "exit" ELSE "run"
  /\ given' = files
  /\ UNCHANGED <<order, config, sources, loaded, files>>

\* A configuration file is replaced, or removed.
Edit(path) ==
  /\ stage = "run"
  /\ \/ \E text \in Texts[path] : files' = Over([p \in {path} |-> text], files)
     \/ files' = Restrict(files, DOMAIN files \ {path})
  /\ UNCHANGED <<envVars, given>>

Next ==
  \/ LoadStep /\ UNCHANGED <<files, given>>
  \/ StartLimits
  \/ \E path \in DOMAIN Texts : Edit(path)

Spec == MemInit /\ [][Next]_vars

-----------------------------------------------------------------------------
(* Properties.                                                             *)

\* Type invariant of the environment's order and of the files.
TypeOK ==
  /\ stage \in {"walk", "buffer", "annotations", "loaded", "run", "exit"}
  /\ {order[i] : i \in DOMAIN order} = DOMAIN env \cap Annotations
  /\ IsInjective(order)
  /\ \A p \in DOMAIN files : files[p] \in Texts[p]

Root == GetConfigFile(env)
Started == given # <<>> /\ stage = "run"
On == Getenv(env, "MEM_BUF_LIMITS_ENABLED") \in Truths
Memory == Getenv(env, "CONTAINER_LIMITS_MEMORY_MEGABYTES")
Lines == BuildConfigFile(env, given, Root).lines

\* The limits are worked out from the file Fluent Bit is then started with, and that
\* was fixed when the program started: none of the variables set since then, and
\* no Start, has changed which file it is (GetConfigFile, read at each Start, and
\* Config.cfgPath, set once).
LimitsSeeWhatRuns == config # <<>> => Root = config.file

\* Each Fluent Bit gets the limits the first one would have got from the same files:
\* no limit of an earlier configuration, and none the user has set for a known
\* variable, survives a Start (setMemoryBufLimitDefaults, updateMemoryBufLimits). The
\* exception is a variable that is not known, in a configuration of which no input and
\* no output counts. And no Start changes a variable that limits nothing.
LimitsFollowConfig ==
  /\ Started =>
       LET first == CheckAndEnableMemoryBufLimits(loaded, given).env
           found == CreateMemBufLimitConfig(env, Lines)
           named == {LimitName(s) : s \in {t \in Range(BuildSections(Lines, "[INPUT]")) :
                                             FindNextPrefix(t, "MEM_BUF_LIMIT", 2) # 0}}
       IN  \A name \in Known \cup (IF On /\ found.inputs + found.outputs # 0
                                   THEN named ELSE {}) :
             Getenv(env, name) = Getenv(first, name)
  /\ loaded # <<>> =>
       \A name \in (DOMAIN env \cup DOMAIN loaded) \ LimitVariables :
         Getenv(env, name) = Getenv(loaded, name)

\* The buffers of the enabled inputs that have a variable for a limit fit into the
\* container's memory together, although inputs are counted wrongly, and the divisor is
\* cut off (CreateMemBufLimitConfig, calculatePerInputMemoryLimit).
BuffersFit ==
  Started /\ On /\ Memory \in DOMAIN MemoryOf =>
    LET inputs == BuildSections(Lines, "[INPUT]")
        limited == {s \in DOMAIN inputs :
                      /\ \E line \in Range(inputs[s]) : line.kind = "MEM_BUF_LIMIT"
                      /\ \A line \in Range(inputs[s]) : line.kind = "MEM_BUF_LIMIT" => line.var # ""
                      /\ GetAuditEnabled(env) \/
                         \A line \in Range(inputs[s]) : line.text # "AUDIT.LOG"}
    IN  \E n \in 0..MemoryOf[Memory] :
          /\ \A s \in limited :
               Getenv(env, LimitName(inputs[s])) = ToString(n) \o "MB"
          /\ n * Cardinality(limited) <= MemoryOf[Memory]

\* The files path includes, whether they are there or not.
Includes(path) ==
  {HandleIncludeFilePaths(env, path, line) :
     line \in {l \in Range(files[path]) : l.kind = "@include"}}

\* A configuration is taken as a whole, or not at all: building it succeeds if, and
\* only if, files that are there can be put in an order, the root first, in which
\* each includes only later ones: none is missing, and none includes itself, through
\* others or not (BuildConfigFile, handleIncludeFilePaths).
IncludesFollowed ==
  stage = "run" =>
    (BuildConfigFile(env, files, Root).ok <=>
       \E used \in SUBSET DOMAIN files : \E s \in SetToSeqs(used \ {Root}) :
         LET list == <<Root>> \o s
         IN  /\ Root \in used
             /\ \A i \in DOMAIN list :
                  Includes(list[i]) \subseteq {list[j] : j \in i + 1..Len(list)})
=============================================================================
