----------------------------- MODULE Environment -----------------------------
(***************************************************************************)
(* How the program gets its environment, LoadEnvironment of                *)
(* pkg/common/common.go, and what it makes of it: the WatcherConfig of     *)
(* pkg/couchbase/config.go. Files overwrite each other's variables, then   *)
(* the annotations among the variables become variables of their own.      *)
(*                                                                         *)
(* An environment is a function from the names that are set to their       *)
(* values: an empty variable is set. A file stands for the pairs godotenv  *)
(* reads from it; one it cannot parse for none.                            *)
(***************************************************************************)
EXTENDS Integers, SequencesExt

CONSTANTS
  Initials,      \* the environments the program can be started in
  Walks,         \* what the walk of the Kubernetes directory can meet, in its order
  Unreadable,    \* an entry at which the walk fails
  ConfigEnvs,    \* what config.env can hold, per directory it can be in
  VariableOf,    \* for each annotation, the key that processing makes of it
  Unsplittable,  \* the values with an "=" in them
  CleanOf        \* path.Clean, for the directories it changes

Annotations == DOMAIN VariableOf

\* An annotation has a prefix with a "/" in its name, and becomes a variable of letters,
\* digits and underscores; no variable has the empty name.
ASSUME EnvironmentAssumption ==
  /\ IsFiniteSet(Annotations)
  /\ \A a \in Annotations : VariableOf[a] \notin Annotations
  /\ "STORAGE_BUFFER_PATH" \notin Annotations
  /\ \A e \in Initials : "" \notin DOMAIN e
  /\ \A walk \in Walks :
       /\ walk \in Seq(Range(walk))
       /\ \A entry \in Range(walk) \ {Unreadable} : "" \notin DOMAIN entry
  /\ \A files \in ConfigEnvs : \A dir \in DOMAIN files : "" \notin DOMAIN files[dir]

VARIABLES
  stage,      \* how far main has come
  env,        \* the environment
  order,      \* the annotations in it, in the order of os.Environ
  config,     \* the WatcherConfig; empty before there is one
  sources,    \* history: the initial environment, the walk and config.env
  loaded      \* history: the environment LoadEnvironment left behind

envVars == <<stage, env, order, config, sources, loaded>>

Getenv(e, name) == IF name \in DOMAIN e THEN e[name] ELSE ""

\* The function f, and g where f is not defined.
Over(f, g) ==
  [x \in DOMAIN f \cup DOMAIN g |-> IF x \in DOMAIN f THEN f[x] ELSE g[x]]
Setenv(e, name, value) == IF name = "" THEN e ELSE Over([n \in {name} |-> value], e)

Init ==
  \E e \in Initials, walk \in Walks, files \in ConfigEnvs :
    /\ stage = "walk" /\ env = e /\ config = <<>> /\ loaded = <<>>
    /\ order \in SetToSeqs(DOMAIN e \cap Annotations)
    /\ sources = [initial |-> e, walk |-> walk, left |-> walk, files |-> files]

-----------------------------------------------------------------------------
(* The operators named Bug... are faulty variants of the definition that   *)
(* follows them: each property is checked to fail for one of them.         *)

\* path.Clean, which makes "." of the empty string.
Clean(dir) == IF dir \in DOMAIN CleanOf THEN CleanOf[dir] ELSE dir
GetDirectory(e, default, name) ==
  Clean(IF Getenv(e, name) = "" THEN default ELSE Getenv(e, name))

GetDynamicConfigDir(e) ==
  GetDirectory(e, "/fluent-bit/config", "COUCHBASE_LOGS_DYNAMIC_CONFIG")
GetConfigFile(e) ==
  GetDirectory(e, GetDynamicConfigDir(e) \o "/fluent-bit.conf", "COUCHBASE_LOGS_CONFIG_FILE")
GetLogsDir(e) ==
  GetDirectory(e, "/opt/couchbase/var/lib/couchbase/logs/", "COUCHBASE_LOGS")
GetRebalanceReportDir(e) == GetLogsDir(e) \o "/rebalance"
GetTLSCertsDir(e) == Getenv(e, "COUCHBASE_LOGS_TLS_CERTS")
GetStorageBufferDir(e) == GetDirectory(e, "/tmp/buffer", "STORAGE_BUFFER_PATH")

-----------------------------------------------------------------------------
\* godotenv.Overload: os.Setenv for each pair, in the order of a Go map. A name
\* that was not set goes to the end of os.Environ.
Overload(pairs) ==
  /\ env' = Over(pairs, env)
  /\ \E new \in SetToSeqs((DOMAIN pairs \cap Annotations) \ DOMAIN env) :
       order' = order \o new

\* filepath.Walk: the next file, or an error that ends the walk.
Walk ==
  /\ stage = "walk"
  /\ sources.left # <<>>
  /\ \/ /\ Head(sources.left) # Unreadable
        /\ Overload(Head(sources.left))
        /\ sources' = [sources EXCEPT !.left = Tail(@)]
     \/ /\ Head(sources.left) = Unreadable
        /\ sources' = [sources EXCEPT !.left = <<>>]
        /\ UNCHANGED <<env, order>>
  /\ UNCHANGED <<stage, config, loaded>>

\* config.env of the directory that is configured by now, if it is there.
OverloadConfigEnv ==
  /\ stage = "walk" /\ stage' = "buffer"
  /\ sources.left = <<>>
  /\ LET dir == GetDynamicConfigDir(env)
     IN  IF dir \in DOMAIN sources.files
         THEN Overload(sources.files[dir])
         ELSE UNCHANGED <<env, order>>
  /\ UNCHANGED <<config, sources, loaded>>

SetBufferDirectory ==
  /\ stage = "buffer" /\ stage' = "annotations"
  /\ env' = Setenv(env, "STORAGE_BUFFER_PATH", GetStorageBufferDir(env))
  /\ UNCHANGED <<order, config, sources, loaded>>

\* What the annotations set: of those that become the same variable, the last one in
\* os.Environ counts. The empty name cannot be set.
FromAnnotations(e) ==
  LET split == {i \in DOMAIN order : e[order[i]] \notin Unsplittable}
      Setter(name) == Max({i \in split : VariableOf[order[i]] = name})
  IN  [name \in {VariableOf[order[i]] : i \in split} \ {""} |-> e[order[Setter(name)]]]

\* The annotation is renamed, and its old name is gone.
BugRenamed(e) == Over(FromAnnotations(e), Restrict(e, DOMAIN e \ Annotations))

\* A variable that is set stays as it is.
BugWeak(e) == Over(e, FromAnnotations(e))

Annotated(e) == Over(FromAnnotations(e), e)

ProcessCouchbaseAnnotations ==
  /\ stage = "annotations" /\ stage' = "loaded"
  /\ env' = Annotated(env)
  /\ loaded' = env'
  /\ UNCHANGED <<order, config, sources>>

\* A directory that is not configured is cleaned too, to ".".
BugOptional(dir) == IF dir = "" THEN "." ELSE Clean(dir)

\* GetTLSCertsDir of the WatcherConfig.
Optional(dir) == IF dir = "" THEN "" ELSE Clean(dir)

\* main asks for the configuration before it has loaded the environment.
BugNewWatcherConfig ==
  /\ stage = "loaded" /\ stage' = "run"
  /\ config' = [file    |-> GetConfigFile(sources.initial),
                configs |-> GetDynamicConfigDir(sources.initial),
                logs    |-> GetLogsDir(sources.initial),
                reports |-> GetRebalanceReportDir(sources.initial),
                certs   |-> Optional(GetTLSCertsDir(sources.initial))]
  /\ UNCHANGED <<env, order, sources, loaded>>

\* The getters are called once, here, for what CreateWatchers is given.
NewWatcherConfigFromDefaults ==
  /\ stage = "loaded" /\ stage' = "run"
  /\ config' = [file    |-> GetConfigFile(env),
                configs |-> GetDynamicConfigDir(env),
                logs    |-> GetLogsDir(env),
                reports |-> GetRebalanceReportDir(env),
                certs   |-> Optional(GetTLSCertsDir(env))]
  /\ UNCHANGED <<env, order, sources, loaded>>

LoadStep ==
  \/ Walk \/ OverloadConfigEnv \/ SetBufferDirectory \/ ProcessCouchbaseAnnotations
  \/ NewWatcherConfigFromDefaults

-----------------------------------------------------------------------------
(* Properties.                                                             *)

\* The files that were read, each overwriting the ones before it.
Readable == LET bad == {i \in DOMAIN sources.walk : sources.walk[i] = Unreadable}
            IN  {i \in DOMAIN sources.walk : \A b \in bad : i < b}
Walked(name) ==
  LET from == {i \in Readable : name \in DOMAIN sources.walk[i]}
  IN  IF from = {} THEN Getenv(sources.initial, name)
      ELSE sources.walk[CHOOSE i \in from : \A j \in from : j <= i][name]
ConfigEnv ==
  LET set == Walked("COUCHBASE_LOGS_DYNAMIC_CONFIG")
      dir == Clean(IF set = "" THEN "/fluent-bit/config" ELSE set)
  IN  IF dir \in DOMAIN sources.files THEN sources.files[dir] ELSE <<>>
Names ==
  DOMAIN loaded \cup DOMAIN sources.initial \cup DOMAIN ConfigEnv
    \cup UNION {DOMAIN sources.walk[i] : i \in Readable}
Filed(name) == IF name \in DOMAIN ConfigEnv THEN ConfigEnv[name] ELSE Walked(name)

\* An annotation overrides every file, config.env every file of the walk, a later
\* file of the walk an earlier one, and all of them the environment the program
\* was started with; nothing is lost on the way (LoadEnvironment,
\* processCouchbaseAnnotations: the order of its steps, and of os.Environ).
PrecedenceKept ==
  loaded # <<>> =>
    \A name \in Names :
      LET annotated == {Filed(a) : a \in {b \in Annotations \cap DOMAIN loaded :
                          VariableOf[b] = name /\ Filed(b) \notin Unsplittable}}
      IN  IF annotated # {} THEN Getenv(loaded, name) \in annotated
          ELSE IF name = "STORAGE_BUFFER_PATH"
               THEN Getenv(loaded, name) = Clean(IF Filed(name) = ""
                                                 THEN "/tmp/buffer" ELSE Filed(name))
               ELSE Getenv(loaded, name) = Filed(name)

\* Where values come from, and all of them, with those the program sets by default.
Sources ==
  Initials \cup (UNION {Range(walk) \ {Unreadable} : walk \in Walks})
           \cup (UNION {Range(files) : files \in ConfigEnvs})
Defaults == {"/fluent-bit/config", "/opt/couchbase/var/lib/couchbase/logs/"}
Values == Defaults \cup (UNION {Range(e) : e \in Sources})

\* Nobody has asked for the directory of the process itself.
NoneIsCurrent ==
  \A v \in Values \ {""} : Clean(v) # "." /\ Clean(v) \o "/rebalance" # "."

\* The directory of the process itself is never among those that are watched: a
\* path that is not configured is replaced by its default, or left out
\* (GetDirectory, and GetTLSCertsDir of the WatcherConfig).
NoWatchOfCurrentDir ==
  config # <<>> => "." \notin {config.configs, config.logs, config.reports, config.certs}
=============================================================================
