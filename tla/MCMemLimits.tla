----------------------------- MODULE MCMemLimits -----------------------------
(* MemLimits with the constants TLC checks it for.                         *)
EXTENDS MemLimits

CONSTANT Bad  \* an entry of the Kubernetes directory that cannot be read

\* Names of variables.
Audit   == "AUDIT_ENABLED"
Buffer  == "STORAGE_BUFFER_PATH"
Configs == "COUCHBASE_LOGS_DYNAMIC_CONFIG"
Certs   == "COUCHBASE_LOGS_TLS_CERTS"
Enabled == "MEM_BUF_LIMITS_ENABLED"
Limit   == "CONTAINER_LIMITS_MEMORY_MEGABYTES"
Stdout  == "STDOUT_MATCH"

\* Two annotations that become the same variable, and one that becomes another.
MCVariableOf == "stdout.match" :> Stdout @@ "stdout-match" :> Stdout
                @@ "couchbase.logs.dynamic.config" :> Configs
MCUnsplittable == {"a=b"}
MCCleanOf == "" :> "." @@ "/buf/" :> "/buf" @@ "/other/" :> "/other"

\* Limits off, on, and what cannot be parsed.
MCInitials ==
  {Enabled :> "maybe",
   Enabled :> "true" @@ Limit :> "lots",
   Enabled :> "false" @@ "MBL_A" :> "5MB" @@ Configs :> "" @@ Certs :> "",
   Enabled :> "true" @@ Stdout :> "no-match" @@ Audit :> "true" @@ Buffer :> "/buf/",
   Enabled :> "true" @@ Limit :> "10" @@ "MBL_A" :> "5MB" @@ Certs :> "/certs",
   Enabled :> "true" @@ Limit :> "10" @@ Audit :> "true" @@ Configs :> "/fluent-bit/config",
   Enabled :> "true" @@ Limit :> "10" @@ Configs :> "/fluent-bit/config"}

\* Files that overwrite each other's variables, and a walk that fails half-way.
MCWalks ==
  {<<>>,
   <<"stdout.match" :> "*" @@ "stdout-match" :> "no-match", Stdout :> "a.*" @@ Buffer :> "">>,
   <<Stdout :> "b.*" @@ Configs :> "/other/" @@ "stdout-match" :> "e.*", Bad, Stdout :> "c.*">>,
   <<"stdout.match" :> "a=b" @@ Buffer :> "/buf/", "couchbase.logs.dynamic.config" :> "/other">>}

MCConfigEnvs ==
  {"/fluent-bit/config" :> (Stdout :> "d.*") @@ "/other" :> (Limit :> "7" @@ Buffer :> "/buf/"),
   "/other" :> ("stdout-match" :> "no-match" @@ "MBL_X" :> "9MB")}

-----------------------------------------------------------------------------
Line(kind) == [kind |-> kind, var |-> "", text |-> ""]
Named(kind, var) == [kind |-> kind, var |-> var, text |-> ""]
Path(kind, var, text) == [kind |-> kind, var |-> var, text |-> text]

\* A root that includes a file of its directory, one that counts an input without a
\* limit line by line, one that takes the directory of the include from a variable.
Roots ==
  {<<Line("[INPUT]"), Path("PATH", "LOGS", ".LOG"), Named("MEM_BUF_LIMIT", "MBL_A"),
     Path("@include", "", "in.conf"), Line("[OUTPUT]"), Named("MATCH", Stdout)>>,
   <<Line("#"), Line("[INPUT]"), Path("PATH", "LOGS", "AUDIT.LOG"), Line("other"),
     Line("["), Line("MATCH"), Path("@include", "", "in.conf")>>,
   <<Line("[INPUT]"), Named("MEM_BUF_LIMIT", "MBL_X"), Path("PATH", "LOGS", "AUDIT.LOG"),
     Line("[OUTPUT]"), Line("MATCH"), Path("@include", Configs, "/in.conf")>>}

\* An include that adds an input, one that adds an output, and one that closes a cycle.
Parts ==
  {<<Line("[INPUT]"), Path("PATH", "LOGS", "AUDIT.LOG"), Named("MEM_BUF_LIMIT", "MBL_A")>>,
   <<Line("[OUTPUT]"), Line("MATCH"), Named("MATCH", Stdout)>>,
   <<Path("@include", "", "fluent-bit.conf")>>}

MCTexts ==
  "/fluent-bit/config/fluent-bit.conf" :> Roots @@ "/fluent-bit/config/in.conf" :> Parts
  @@ "/other/fluent-bit.conf" :> {<<Path("@include", "", "/fluent-bit/config/in.conf")>>}
MCDirOf ==
  "/fluent-bit/config/fluent-bit.conf" :> "/fluent-bit/config"
  @@ "/fluent-bit/config/in.conf" :> "/fluent-bit/config"
  @@ "/other/fluent-bit.conf" :> "/other"
MCAbsolute == DOMAIN MCTexts \cup {"/other/in.conf"}
MCMemoryOf == "7" :> 7 @@ "10" :> 10

\* The hypothesis of the theorem about the current directory, for these constants.
ASSUME NobodyAsked == NoneIsCurrent
=============================================================================
