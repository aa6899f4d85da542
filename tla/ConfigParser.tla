----------------------------- MODULE ConfigParser -----------------------------
(***************************************************************************)
(* The parser of pkg/common/parser.go: it puts a Fluent Bit configuration  *)
(* together from its @include files, and counts the inputs and outputs     *)
(* whose memory is to be limited.                                          *)
(*                                                                         *)
(* A file is a sequence of lines. Of a line the parser tells apart the     *)
(* prefix (kind), the ${VARIABLE} in it ("" if there is none) and, of a    *)
(* path, the text after the variable.                                      *)
(***************************************************************************)
EXTENDS Environment

CONSTANTS
  DirOf,      \* filepath.Dir, for the paths that occur
  Absolute,   \* the paths that start with "/"
  MaxOpen     \* how many files the process can have open

\* What BuildConfigFile returns.
Whole(lines) == [ok |-> TRUE, lines |-> lines]

\* The error of an include is not handed on.
BugFailed == Whole(<<>>)

Failed == [ok |-> FALSE, lines |-> <<>>]

Headers == {"[INPUT]", "[OUTPUT]", "["}

\* The path an @include line of the file base names.
HandleIncludeFilePaths(e, base, line) ==
  LET set  == Getenv(e, line.var)
      path == IF line.var = "" THEN line.text
              ELSE (IF set = "" THEN "${" \o line.var \o "}" ELSE set) \o line.text
  IN  IF path \in Absolute THEN path ELSE DirOf[base] \o "/" \o path

\* What a file is put together to, from what other files are.
BuildFile(e, files, path, built) ==
  LET Include(named) == IF named \in DOMAIN files THEN built[named] ELSE Failed
      Part(line) ==
        CASE line.kind = "@include" -> Include(HandleIncludeFilePaths(e, path, line))
          [] line.kind = "#" -> Whole(<<>>)
          [] OTHER -> Whole(<<line>>)
      parts == [i \in DOMAIN files[path] |-> Part(files[path][i])]
  IN  IF \E i \in DOMAIN parts : ~parts[i].ok THEN Failed
      ELSE Whole(FlattenSeq([i \in DOMAIN parts |-> parts[i].lines]))

\* BuildConfigFile. It does not know which files it is in: a cycle of includes ends
\* when no more files can be opened.
BuildConfigFile(e, files, root) ==
  LET build[left \in 0..MaxOpen] ==
        [path \in DOMAIN files |->
           IF left = 0 THEN Failed ELSE BuildFile(e, files, path, build[left - 1])]
  IN  IF root \in DOMAIN files THEN build[MaxOpen][root] ELSE Failed

-----------------------------------------------------------------------------
\* The first line with the prefix, from a line on, before the next section; or 0.
FindNextPrefix(lines, prefix, from) ==
  LET stops == {j \in from..Len(lines) : lines[j].kind \in Headers \cup {prefix}}
  IN  IF stops # {} /\ lines[Min(stops)].kind = prefix THEN Min(stops) ELSE 0

\* The sections with a header, each up to the next section: by their first line.
ExtractSection(lines, start) ==
  LET next == {j \in start + 1..Len(lines) : lines[j].kind \in Headers}
  IN  SubSeq(lines, start, IF next = {} THEN Len(lines) ELSE Min(next) - 1)
BuildSections(lines, header) ==
  [start \in {i \in DOMAIN lines : lines[i].kind = header} |-> ExtractSection(lines, start)]

\* What strconv.ParseBool understands.
Truths == {"1", "t", "T", "true", "TRUE", "True"}
Falsehoods == {"0", "f", "F", "false", "FALSE", "False"}

GetAuditEnabled(e) == Getenv(e, "AUDIT_ENABLED") \in Truths

\* An input with a path below the line i that is the audit log's counts if audit is on.
HandleAuditInputs(audit, section, i) ==
  LET path == FindNextPrefix(section, "PATH", i + 1)
  IN  IF path # 0 /\ section[path].text = "AUDIT.LOG" /\ ~audit THEN 0 ELSE 1

\* The loop over the lines of a section ends at the first one, the header, if a
\* Mem_Buf_Limit follows; otherwise each line adds to the count.
InputCount(audit, section) ==
  IF FindNextPrefix(section, "MEM_BUF_LIMIT", 2) # 0
  THEN HandleAuditInputs(audit, section, 1)
  ELSE SumFunction([i \in DOMAIN section |-> HandleAuditInputs(audit, section, i)])
CountInputs(audit, inputs) ==
  SumFunction([s \in DOMAIN inputs |-> InputCount(audit, inputs[s])])

\* An output counts if a variable that is set says what it matches.
OutputCounts(e, section) ==
  \E i \in DOMAIN section :
    LET match == FindNextPrefix(section, "MATCH", i + 1)
    IN  match # 0 /\ Getenv(e, section[match].var) \notin {"", "no-match"}

\* The variable of the Mem_Buf_Limit of a section.
LimitName(section) == section[FindNextPrefix(section, "MEM_BUF_LIMIT", 2)].var

CreateMemBufLimitConfig(e, lines) ==
  LET inputs  == BuildSections(lines, "[INPUT]")
      outputs == BuildSections(lines, "[OUTPUT]")
      limited == {s \in DOMAIN inputs : FindNextPrefix(inputs[s], "MEM_BUF_LIMIT", 2) # 0}
  IN  [inputs  |-> CountInputs(GetAuditEnabled(e), inputs),
       outputs |-> Cardinality({s \in DOMAIN outputs : OutputCounts(e, outputs[s])}),
       names   |-> {LimitName(inputs[s]) : s \in limited}]
=============================================================================
