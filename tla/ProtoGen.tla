------------------------------ MODULE ProtoGen ------------------------------
(***************************************************************************)
(* The commands "gen" and "clean" (src/internal/command/gen.go, clean.go): *)
(* gen runs protoc and then wraps the response schemas of every            *)
(* *.swagger.json under docs/swagger, in place; clean removes pb and       *)
(* docs/swagger.  A swagger file is the number of wrappers around its      *)
(* schemas.  protoc is external.                                           *)
(***************************************************************************)
EXTENDS Integers, Sequences

CONSTANTS
  Options,   \* combinations of the flags of gen
  MaxLevel   \* bound: how often a file is wrapped

VARIABLES
  cmd,      \* the step the running command is at, shared with the others
  opts,     \* the flags of the running gen
  files,    \* swaggerFiles that are still to be wrapped
  pb,       \* what each output directory holds
  swagger   \* docs/swagger/*.swagger.json

vars == <<cmd, opts, files, pb, swagger>>

Absent == -2
Torn   == -1   \* no longer JSON

\* service.swagger.json comes with the template.
SwaggerFiles == {"doc", "service"}
Dirs == {"pb", "other"}
Flags == [lang : STRING, dir : Dirs, gw : BOOLEAN, swagger : BOOLEAN, wrap : BOOLEAN]
NoOpts == [lang |-> "none", dir |-> "pb", gw |-> FALSE, swagger |-> FALSE, wrap |-> FALSE]

TypeOK ==
  /\ opts \in Options \cup {NoOpts} /\ files \in Seq(SwaggerFiles)
  /\ pb \in [Dirs -> SUBSET {"messages", "grpc", "gateway", "validate", "php"}]
  /\ swagger \in [SwaggerFiles -> Absent..MaxLevel]

Init ==
  /\ opts = NoOpts /\ files = <<>>
  /\ pb = [d \in Dirs |-> {}]
  /\ swagger = [f \in SwaggerFiles |-> Absent]

\* "new" writes the template's swagger file.
TemplateDocs ==
  /\ swagger' = [swagger EXCEPT !["service"] = 0]
  /\ UNCHANGED <<opts, files, pb>>

\* "new" is killed while it writes it.
DocsCutOff ==
  /\ swagger' = [swagger EXCEPT !["service"] = Torn]
  /\ UNCHANGED <<opts, files, pb>>

----------------------------------------------------------------------------
(* gen *)

\* The language is compared in lower case here and as it is below.
ApplyLanguages == {"go", "php", "GO"}

CallGen(o) ==
  /\ cmd = "idle"
  /\ o.lang \in ApplyLanguages
  /\ \A f \in DOMAIN swagger : swagger[f] < MaxLevel
  /\ cmd' = "third party"
  /\ opts' = o
  /\ UNCHANGED <<files, pb, swagger>>

genAndRunThirdParty ==
  /\ cmd = "third party"
  /\ pb' = IF opts.lang = "php" THEN [pb EXCEPT ![opts.dir] = @ \cup {"php"}] ELSE pb
  /\ cmd' = "protoc"
  /\ UNCHANGED <<opts, files, swagger>>

genArgsGo ==
  {"messages", "grpc", "validate"} \cup (IF opts.gw THEN {"gateway"} ELSE {})

genArgsPhp == {"php", "grpc"}

\* What protoc is asked to write; nothing for a language in capitals.
genArgsByLang ==
  CASE opts.lang = "go" -> genArgsGo
    [] opts.lang = "php" -> genArgsPhp
    [] OTHER -> {}

\* Mutant: the wrapper is applied whether or not the docs were generated.
WrapsAlways == opts.wrap

Wraps == opts.swagger /\ opts.wrap

\* The files that are wrapped, in the order of WalkDir; there may be none.
processSwaggerFiles(docs) ==
  LET first == IF docs["doc"] # Absent THEN <<"doc">> ELSE <<>>
  IN  IF docs["service"] # Absent THEN Append(first, "service") ELSE first

\* protoc writes the code and, merged into one file, the docs.
Protoc ==
  /\ cmd = "protoc"
  /\ genArgsByLang # {}
  /\ pb' = [pb EXCEPT ![opts.dir] = @ \cup genArgsByLang]
  /\ swagger' = IF opts.swagger THEN [swagger EXCEPT !["doc"] = 0] ELSE swagger
  /\ files' = IF Wraps THEN processSwaggerFiles(swagger') ELSE <<>>
  /\ cmd' = IF files' # <<>> THEN "wrap" ELSE "idle"
  /\ opts' = IF files' # <<>> THEN opts ELSE NoOpts

\* A file that is no JSON ends the command before the files after it.
processSwaggerFile ==
  /\ cmd = "wrap" /\ files # <<>>
  /\ LET f == Head(files)
         ok == swagger[f] # Torn IN
     /\ swagger' = [swagger EXCEPT ![f] = IF ok THEN @ + 1 ELSE @]
     /\ files' = IF ok THEN Tail(files) ELSE <<>>
     /\ cmd' = IF ok /\ Len(files) > 1 THEN "wrap" ELSE "idle"
     /\ opts' = IF ok /\ Len(files) > 1 THEN opts ELSE NoOpts
  /\ UNCHANGED pb

----------------------------------------------------------------------------
(* clean *)

CallClean ==
  /\ cmd = "idle"
  /\ pb' = [pb EXCEPT !["pb"] = {}]
  /\ cmd' = "clean"
  /\ UNCHANGED <<opts, files, swagger>>

RemoveSwagger ==
  /\ cmd = "clean"
  /\ swagger' = [f \in DOMAIN swagger |-> Absent]
  /\ cmd' = "idle"
  /\ UNCHANGED <<opts, files, pb>>

\* The file that is being written is cut off, or all that was written.
CutOff ==
  IF cmd = "wrap" THEN {[swagger EXCEPT ![Head(files)] = Torn]}
  ELSE IF cmd = "protoc" /\ opts.swagger /\ genArgsByLang # {}
    THEN {[swagger EXCEPT !["doc"] = level] : level \in {Torn, 0}}
  ELSE {}

\* protoc or a write fails, or the process is killed.
Interrupt ==
  /\ cmd \in {"third party", "protoc", "wrap", "clean"}
  /\ swagger' \in {swagger} \cup CutOff
  /\ cmd' = "idle" /\ opts' = NoOpts /\ files' = <<>>
  /\ UNCHANGED pb

----------------------------------------------------------------------------
(* Properties *)

\* Whatever runs, interruptions and options came before, the schemas of the
\* merged document are wrapped at most once: it is wrapped only by a gen that
\* has just written it.
DocWrappedOnce == swagger["doc"] <= 1
=============================================================================
