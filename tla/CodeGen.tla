------------------------------ MODULE CodeGen ------------------------------
(***************************************************************************)
(* The code generator as a whole: the commands new, implement, gen, clean  *)
(* and model, one at a time, on the files of one service, with the edits   *)
(* of its developer between them.  Scaffold, ProtoGen and ModelGen keep    *)
(* their own files; "new" overwrites files of all three.                   *)
(*                                                                         *)
(* The commands touch disjoint files otherwise, so a behaviour follows one *)
(* of them beside "new": task says which.  Names matter to the first only. *)
(***************************************************************************)
EXTENDS Integers, Sequences

CONSTANTS
  Rpc, Health, TemplateRpc, MaxCopies,   \* see Scaffold
  Options, MaxLevel,                     \* see ProtoGen
  Tables, NoName, Columns,               \* see ModelGen
  Schemas,                               \* the SQL files "model" is run on
  MaxLines                               \* bound: the lines of a SQL file

VARIABLES
  cmd, task,
  walk, name, proto, iface, handler, gomod, imports, own, asked, lost,
  opts, files, pb, swagger,
  sql, todo, parsed, models, stores, main, faulty, doubt

scaffoldVars == <<walk, name, proto, iface, handler, gomod, imports, own, asked, lost>>
protoVars    == <<opts, files, pb, swagger>>
modelVars    == <<sql, todo, parsed, models, stores, main, faulty, doubt>>
vars == <<cmd, task, scaffoldVars, protoVars, modelVars>>

S == INSTANCE Scaffold WITH todo <- walk
G == INSTANCE ProtoGen
M == INSTANCE ModelGen

ASSUME CodeGenAssumption ==
  /\ Health \in TemplateRpc /\ TemplateRpc \subseteq Rpc
  /\ MaxCopies \in Nat \ {0} /\ MaxLevel \in Nat \ {0}
  /\ Options \subseteq G!Flags
  /\ Tables \subseteq [words : Seq(M!Words), ending : STRING] /\ NoName \notin Tables
  /\ Schemas \subseteq Seq(M!Lines)

Tasks == {"implement", "gen", "model", "parse"}

\* The steps of the commands: those of Scaffold, ProtoGen and ModelGen.
Commands ==
  {"idle", "walk", "interface", "handler", "third party", "protoc", "wrap", "clean", "model", "store"}

TypeOK == S!TypeOK /\ G!TypeOK /\ M!TypeOK /\ cmd \in Commands /\ task \in Tasks

Init ==
  /\ S!Init /\ G!Init /\ M!Init
  /\ task \in Tasks
  /\ task # "implement" => name = <<"orders">>

----------------------------------------------------------------------------

OnScaffold(A) == A /\ UNCHANGED <<task, protoVars, modelVars>>
OnProto(A)    == A /\ UNCHANGED <<task, scaffoldVars, modelVars>>
OnModel(A)    == A /\ UNCHANGED <<task, scaffoldVars, protoVars>>

\* The walk of "new" passes through the files of all three modules.
WalkTemplates(f) ==
  /\ S!WriteTemplate(f)
  /\ IF f = "docs" THEN G!TemplateDocs ELSE UNCHANGED protoVars
  /\ IF f = "internal/stores" THEN M!TemplateMain ELSE UNCHANGED modelVars
  /\ UNCHANGED task

\* "new" ends early; the file it was writing may be one of the others' too.
\* model reads none of Scaffold's files, so its behaviours keep them whole.
InterruptNew ==
  /\ S!Interrupt
  /\ task = "model" => UNCHANGED <<proto, iface, handler, gomod, imports>>
  /\ UNCHANGED protoVars \/ (S!Writing("docs") /\ G!DocsCutOff)
  /\ UNCHANGED modelVars \/ (S!Writing("internal/stores") /\ M!TemplateMain)
  /\ UNCHANGED task

New ==
  \/ OnScaffold(S!CallNew) \/ OnScaffold(S!AfterWalk)
  \/ \E k \in DOMAIN S!TemplateFiles : WalkTemplates(S!TemplateFiles[k])
  \/ OnScaffold(S!WriteInterface) \/ OnScaffold(S!WriteHandler)
  \/ InterruptNew

Implement ==
  /\ task = "implement"
  /\ \/ OnScaffold(S!CallImplement) \/ OnScaffold(S!EditProto)
     \/ \E m \in Rpc : OnScaffold(S!EditHandler(m))

\* gen is refused where there are no protos.
Gen ==
  /\ task = "gen"
  /\ \/ \E o \in Options : S!HasProtos /\ OnProto(G!CallGen(o))
     \/ OnProto(G!genAndRunThirdParty) \/ OnProto(G!Protoc) \/ OnProto(G!processSwaggerFile)
     \/ OnProto(G!CallClean) \/ OnProto(G!RemoveSwagger) \/ OnProto(G!Interrupt)

Model ==
  /\ task = "model"
  /\ \/ \E s \in Schemas : OnModel(M!CallModel(s))
     \/ OnModel(M!WriteMain) \/ OnModel(M!Interrupt)
     \/ \E r \in M!WriteResults : OnModel(M!WriteModel(r)) \/ OnModel(M!WriteStore(r))
     \/ \E t \in Tables : OnModel(M!EditModel(t)) \/ OnModel(M!EditStore(t))

\* Every SQL file up to the bound is written, line by line.
Parse ==
  /\ task = "parse"
  /\ Len(sql) < MaxLines
  /\ \E l \in M!Lines : OnModel(M!AppendLine(l))

Next == (task # "parse" /\ New) \/ Implement \/ Gen \/ Model \/ Parse

Spec == Init /\ [][Next]_vars

----------------------------------------------------------------------------
(* Properties *)

\* new and implement leave a handler for every RPC they were run for.
HandlersComplete == S!HandlersComplete

\* What new writes imports the module that go.mod declares.
ImportsResolve == S!ImportsResolve

\* gen never wraps the merged swagger document a second time.
DocWrappedOnce == G!DocWrappedOnce

\* parseSQLToModels finds the complete statements of a file, and only those.
ParseMatchesReference == M!ParseMatchesReference

\* The stores/main.go that model writes wires stores and models that exist.
MainIsBacked == M!MainIsBacked

\* What the developer wrote by hand is never removed or overwritten by a
\* command: handler methods (see HandwrittenKept for the one exception),
\* models and stores.
EditsSurvive ==
  /\ []S!HandwrittenKept
  /\ [][\A t \in Tables : /\ models[t] = "edited" => models'[t] = "edited"
                          /\ stores[t] = "edited" => stores'[t] = "edited"]_vars
=============================================================================
