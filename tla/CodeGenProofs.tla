--------------------------- MODULE CodeGenProofs ---------------------------
(***************************************************************************)
(* Proofs about the code generator.                                        *)
(***************************************************************************)
EXTENDS CodeGen, SequenceTheorems, WellFoundedInduction, TLAPS

\* The files of new and implement: what was asked for has a handler unless
\* the handler file was cut off, also while a command runs.
ScaffoldInv ==
  /\ name \in S!Names
  /\ proto \subseteq Rpc /\ iface \subseteq Rpc /\ own \subseteq Rpc /\ asked \subseteq Rpc
  /\ handler \in [Rpc -> 0..MaxCopies]
  /\ cmd \in {"walk", "interface", "handler"} => \A m \in Rpc : handler[m] < MaxCopies
  /\ lost \/ asked \subseteq S!Handled
  /\ lost \/ own \subseteq S!Handled

LEMMA ScaffoldInit == Init => ScaffoldInv
BY CodeGenAssumption DEF Init, S!Init, ScaffoldInv

\* Steps that leave the files of new and implement alone.
LEMMA ScaffoldFrame ==
  ASSUME ScaffoldInv, UNCHANGED scaffoldVars, cmd' \in {"walk", "interface", "handler"} => cmd' = cmd
  PROVE  ScaffoldInv'
BY DEF ScaffoldInv, scaffoldVars, S!Handled

LEMMA ScaffoldStep ==
  ASSUME ScaffoldInv,
         \/ S!CallNew \/ S!AfterWalk \/ S!CallImplement \/ S!EditProto
         \/ S!WriteInterface
         \/ \E f : S!WriteTemplate(f)
  PROVE  ScaffoldInv'
<1> USE CodeGenAssumption DEF ScaffoldInv, S!Handled
<1>1. CASE S!CallNew
  BY <1>1 DEF S!CallNew
<1>2. CASE S!AfterWalk \/ S!CallImplement
  BY <1>2 DEF S!AfterWalk, S!CallImplement, S!CallGenerate
<1>3. CASE S!EditProto
  BY <1>3 DEF S!EditProto
<1>4. CASE S!WriteInterface
  BY <1>4 DEF S!WriteInterface, S!extractRPCs
<1>5. ASSUME NEW f, S!WriteTemplate(f) PROVE ScaffoldInv'
  BY <1>5 DEF S!WriteTemplate
<1> QED
  BY <1>1, <1>2, <1>3, <1>4, <1>5

\* A method is appended for everything that is asked for, and nothing else
\* of the file changes.
LEMMA WriteHandlerStep ==
  ASSUME ScaffoldInv, S!WriteHandler
  PROVE  ScaffoldInv'
<1> USE CodeGenAssumption DEF ScaffoldInv, S!WriteHandler, S!HandlerText, S!newHandlerRPCs, S!extractRPCs,
                              S!existingHandlerMethods
<1>1. handler' \in [Rpc -> 0..MaxCopies]
  OBVIOUS
<1>2. \A m \in Rpc : handler[m] > 0 \/ m \in asked' => handler'[m] > 0
  OBVIOUS
<1>3. lost' = lost /\ own' = own
  OBVIOUS
<1> QED
  BY <1>1, <1>2, <1>3 DEF S!Handled

LEMMA InterruptStep ==
  ASSUME ScaffoldInv, S!Interrupt
  PROVE  ScaffoldInv'
<1> USE CodeGenAssumption DEF ScaffoldInv, S!Interrupt
<1>1. handler' \in [Rpc -> 0..MaxCopies]
  OBVIOUS
<1>2. lost' \/ (handler' = handler /\ ~lost) \/ (lost /\ handler' = handler)
  OBVIOUS
<1>3. proto' \subseteq Rpc
  BY DEF S!CutOffProtos
<1> QED
  BY <1>1, <1>2, <1>3 DEF S!Handled

LEMMA EditHandlerStep ==
  ASSUME ScaffoldInv, NEW m \in Rpc, S!EditHandler(m)
  PROVE  ScaffoldInv'
BY CodeGenAssumption DEF ScaffoldInv, S!EditHandler, S!Handled

----------------------------------------------------------------------------
(* gen and clean *)

\* The files that are still to be wrapped.
Wrappable ==
  /\ files \in Seq(G!SwaggerFiles) /\ Len(files) \in 1..2
  /\ Len(files) = 2 => files[1] = "doc" /\ files[2] = "service"
  /\ files[1] = "doc" => swagger["doc"] = 0
  /\ swagger["service"] < MaxLevel

\* The merged document is wrapped only while it is as protoc wrote it, and
\* no file is wrapped beyond the bound.
ProtoInv ==
  /\ opts \in Options \cup {G!NoOpts}
  /\ pb \in [G!Dirs -> SUBSET {"messages", "grpc", "gateway", "validate", "php"}]
  /\ swagger \in [G!SwaggerFiles -> G!Absent..MaxLevel]
  /\ swagger["doc"] <= 1
  /\ cmd \in {"third party", "protoc"} => \A f \in G!SwaggerFiles : swagger[f] < MaxLevel
  /\ IF cmd = "wrap" THEN Wrappable ELSE files = <<>>

LEMMA ProtoInit == Init => ProtoInv
BY CodeGenAssumption DEF Init, S!Init, G!Init, ProtoInv, G!Absent, G!SwaggerFiles, G!Dirs

\* Steps that leave the files of gen and clean alone.
LEMMA ProtoFrame ==
  ASSUME ProtoInv, UNCHANGED protoVars, cmd' \in {"third party", "protoc", "wrap"} => cmd' = cmd,
         cmd = "wrap" => cmd' = "wrap"
  PROVE  ProtoInv'
BY DEF ProtoInv, Wrappable, protoVars

LEMMA LevelBounds ==
  MaxLevel \in Nat \ {0} /\ {G!Absent, G!Torn, 0} \subseteq G!Absent..MaxLevel /\ G!Torn <= 1
BY CodeGenAssumption DEF G!Absent, G!Torn

\* "new" writes a file that nothing is wrapped around.
LEMMA TemplateDocsStep ==
  ASSUME ProtoInv, cmd = "walk", cmd' \in {"walk", "idle"}, G!TemplateDocs \/ G!DocsCutOff
  PROVE  ProtoInv'
<1>1. /\ swagger' \in {[swagger EXCEPT !["service"] = level] : level \in {G!Torn, 0}}
      /\ UNCHANGED <<opts, files, pb>>
  BY DEF G!TemplateDocs, G!DocsCutOff
<1>2. swagger' \in [G!SwaggerFiles -> G!Absent..MaxLevel] /\ swagger'["doc"] <= 1
  BY <1>1, LevelBounds DEF ProtoInv, G!SwaggerFiles
<1> QED
  BY <1>1, <1>2 DEF ProtoInv

LEMMA GenStep ==
  ASSUME ProtoInv,
         (\E o \in Options : G!CallGen(o)) \/ G!genAndRunThirdParty \/ G!CallClean \/ G!RemoveSwagger
  PROVE  ProtoInv'
<1> USE CodeGenAssumption DEF ProtoInv, G!SwaggerFiles
<1>1. CASE \E o \in Options : G!CallGen(o)
  BY <1>1 DEF G!CallGen
<1>2. CASE G!genAndRunThirdParty
  BY <1>2 DEF G!genAndRunThirdParty
<1>3. CASE G!CallClean
  BY <1>3 DEF G!CallClean
<1>4. CASE G!RemoveSwagger
  BY <1>4 DEF G!RemoveSwagger, G!Absent
<1> QED
  BY <1>1, <1>2, <1>3, <1>4

\* What protoc is asked for.
LEMMA GenArgs == G!genArgsByLang \subseteq {"messages", "grpc", "gateway", "validate", "php"}
BY DEF G!genArgsByLang, G!genArgsGo, G!genArgsPhp

\* The list of both files, or of the document only.
LEMMA Listed ==
  /\ <<"doc">> \in Seq(G!SwaggerFiles) /\ Len(<<"doc">>) = 1 /\ <<"doc">>[1] = "doc"
  /\ Append(<<"doc">>, "service") \in Seq(G!SwaggerFiles) /\ Len(Append(<<"doc">>, "service")) = 2
  /\ Append(<<"doc">>, "service")[1] = "doc" /\ Append(<<"doc">>, "service")[2] = "service"
<1>1. <<"doc">> \in Seq(G!SwaggerFiles) /\ Len(<<"doc">>) = 1 /\ <<"doc">>[1] = "doc"
  BY DEF G!SwaggerFiles
<1> QED
  BY <1>1 DEF G!SwaggerFiles

\* The document is written anew before it is wrapped.
LEMMA ProtocStep ==
  ASSUME ProtoInv, G!Protoc
  PROVE  ProtoInv'
<1>1. /\ cmd = "protoc" /\ opts' \in {opts, G!NoOpts}
      /\ pb' = [pb EXCEPT ![opts.dir] = @ \cup G!genArgsByLang]
      /\ swagger' \in {swagger, [swagger EXCEPT !["doc"] = 0]}
      /\ cmd' = IF files' # <<>> THEN "wrap" ELSE "idle"
  BY DEF G!Protoc
<1>2. /\ swagger' \in [G!SwaggerFiles -> G!Absent..MaxLevel]
      /\ swagger'["doc"] <= 1 /\ swagger'["service"] < MaxLevel
  BY <1>1, LevelBounds DEF G!SwaggerFiles, ProtoInv
<1>3. files' = <<>> \/ Wrappable'
  <2>1. CASE ~G!Wraps
    BY <2>1 DEF G!Protoc
  <2>2. CASE G!Wraps
    <3>1. swagger'["doc"] = 0
      BY <2>2 DEF G!Protoc, G!Wraps, G!SwaggerFiles, ProtoInv
    <3>2. files' = G!processSwaggerFiles(swagger')
      BY <2>2 DEF G!Protoc
    <3>3. swagger'["doc"] # G!Absent
      BY <3>1 DEF G!Absent
    <3>4. files' = Append(<<"doc">>, "service") \/ files' = <<"doc">>
      BY <3>2, <3>3, Zenon DEF G!processSwaggerFiles
    <3>5. files' \in Seq(G!SwaggerFiles) /\ Len(files') \in 1..2 /\ files'[1] = "doc"
      <4>1. CASE files' = <<"doc">>
        BY <4>1, Listed
      <4>2. CASE files' = Append(<<"doc">>, "service")
        <5> DEFINE both == Append(<<"doc">>, "service")
        <5>1. both \in Seq(G!SwaggerFiles) /\ Len(both) = 2 /\ both[1] = "doc"
          BY Listed
        <5> HIDE DEF both
        <5> QED
          BY <4>2, <5>1 DEF both
      <4> QED
        BY <3>4, <4>1, <4>2
    <3>6. Len(files') = 2 => files'[2] = "service"
      BY <3>4, Listed
    <3> QED
      BY <1>2, <3>1, <3>5, <3>6 DEF Wrappable
  <2> QED
    BY <2>1, <2>2
<1>4. opts' \in Options \cup {G!NoOpts} /\ pb' \in [G!Dirs -> SUBSET {"messages", "grpc", "gateway", "validate", "php"}]
  BY <1>1, GenArgs DEF ProtoInv
<1>5. (cmd' = "wrap" /\ Wrappable') \/ (cmd' = "idle" /\ files' = <<>>)
  <2>1. Wrappable' => files' # <<>>
    BY DEF Wrappable
  <2> QED
    BY <1>1, <1>3, <2>1
<1> QED
  BY <1>2, <1>4, <1>5 DEF ProtoInv

\* Each file is wrapped once; the document's turn comes while it has no
\* wrapper.
LEMMA WrapStep ==
  ASSUME ProtoInv, G!processSwaggerFile
  PROVE  ProtoInv'
<1> DEFINE f == Head(files)
<1>1. /\ cmd = "wrap" /\ Wrappable /\ opts' \in Options \cup {G!NoOpts} /\ pb' = pb
      /\ pb \in [G!Dirs -> SUBSET {"messages", "grpc", "gateway", "validate", "php"}]
      /\ swagger \in [G!SwaggerFiles -> G!Absent..MaxLevel] /\ swagger["doc"] <= 1
  BY DEF G!processSwaggerFile, ProtoInv
<1>2. f \in G!SwaggerFiles /\ f = files[1] /\ Len(files) \in 1..2
  BY <1>1 DEF Wrappable
<1>3. CASE swagger[f] = G!Torn
  <2>1. swagger' = swagger /\ files' = <<>> /\ cmd' = "idle"
    BY <1>1, <1>2, <1>3 DEF G!processSwaggerFile
  <2> QED
    BY <1>1, <2>1 DEF ProtoInv
<1>4. CASE swagger[f] # G!Torn
  <2>1. /\ swagger' = [swagger EXCEPT ![f] = @ + 1] /\ files' = Tail(files)
        /\ cmd' = IF Len(files) > 1 THEN "wrap" ELSE "idle"
    BY <1>4 DEF G!processSwaggerFile
  <2>2. (f = "doc" /\ swagger["doc"] = 0) \/ (f = "service" /\ Len(files) = 1)
    BY <1>1, <1>2 DEF Wrappable, G!SwaggerFiles
  <2>3. swagger[f] < MaxLevel /\ swagger["service"] < MaxLevel
    BY <1>1, <2>2, LevelBounds DEF Wrappable
  <2> HIDE DEF f
  <2>4. /\ swagger' \in [G!SwaggerFiles -> G!Absent..MaxLevel] /\ swagger'["doc"] <= 1
        /\ f = "doc" => swagger'["service"] < MaxLevel
    <3>1. swagger[f] \in G!Absent..MaxLevel /\ swagger[f] + 1 \in G!Absent..MaxLevel
      BY <1>1, <1>2, <2>3, LevelBounds DEF G!Absent
    <3> QED
      BY <1>1, <2>1, <2>2, <2>3, <3>1 DEF G!SwaggerFiles
  <2>5. CASE Len(files) = 1
    <3>1. files' = <<>> /\ cmd' = "idle"
      <4>1. Tail(files) \in Seq(G!SwaggerFiles) /\ Len(Tail(files)) = 0
        BY <1>1, <2>5, HeadTailProperties DEF Wrappable
      <4> QED
        BY <2>1, <2>5, <4>1
    <3> QED
      BY <1>1, <2>4, <3>1 DEF ProtoInv
  <2>6. CASE Len(files) = 2
    <3>1. /\ files' \in Seq(G!SwaggerFiles) /\ Len(files') = 1 /\ files'[1] = "service"
          /\ cmd' = "wrap"
      <4>1. files \in Seq(G!SwaggerFiles) /\ files # <<>> /\ files[2] = "service"
        <5>1. files # <<>>
          BY <2>6
        <5>2. files \in Seq(G!SwaggerFiles) /\ files[2] = "service"
          BY <1>1, <2>6, Zenon DEF Wrappable
        <5> QED
          BY <5>1, <5>2
      <4> QED
        <5>1. Tail(files) \in Seq(G!SwaggerFiles) /\ Len(Tail(files)) = 1
          BY <2>6, <4>1, HeadTailProperties
        <5>2. Tail(files)[1] = files[2]
          BY <2>6, <4>1
        <5> QED
          BY <2>1, <2>6, <4>1, <5>1, <5>2
    <3>2. Wrappable'
      BY <2>2, <2>4, <2>6, <3>1 DEF Wrappable
    <3> QED
      BY <1>1, <2>4, <3>1, <3>2 DEF ProtoInv
  <2> QED
    BY <1>2, <2>5, <2>6
<1> QED
  BY <1>3, <1>4

LEMMA ProtoInterruptStep ==
  ASSUME ProtoInv, G!Interrupt
  PROVE  ProtoInv'
<1>1. \/ swagger' = swagger
      \/ \E f \in G!SwaggerFiles : swagger' = [swagger EXCEPT ![f] = G!Torn]
      \/ \E f \in G!SwaggerFiles : swagger' = [swagger EXCEPT ![f] = 0]
  <2>1. cmd = "wrap" => Head(files) \in G!SwaggerFiles
    BY DEF Wrappable, ProtoInv
  <2> QED
    BY <2>1 DEF G!Interrupt, G!CutOff, G!SwaggerFiles
<1>2. swagger' \in [G!SwaggerFiles -> G!Absent..MaxLevel]
  BY <1>1, LevelBounds DEF ProtoInv
<1>3. swagger'["doc"] <= 1
  <2>1. swagger["doc"] <= 1 /\ swagger \in [G!SwaggerFiles -> G!Absent..MaxLevel] /\ "doc" \in G!SwaggerFiles
    BY DEF ProtoInv, G!SwaggerFiles
  <2>2. \A f \in G!SwaggerFiles, level \in {G!Torn, 0} : [swagger EXCEPT ![f] = level]["doc"] \in {swagger["doc"], level}
    BY <2>1
  <2>3. swagger'["doc"] \in {swagger["doc"], G!Torn, 0}
    BY <1>1, <2>2
  <2> QED
    BY <2>1, <2>3, LevelBounds
<1> QED
  BY <1>2, <1>3 DEF G!Interrupt, ProtoInv

----------------------------------------------------------------------------
(* parseSQLToModels *)

LessThan == {p \in Nat \X Nat : p[1] < p[2]}

\* Every nonempty set of natural numbers has a least element.
LEMMA Least ==
  ASSUME NEW T \in SUBSET Nat, T # {}
  PROVE  \E n \in T : \A k \in T : n <= k
<1>0. IsWellFoundedOn(LessThan, Nat)
  BY NatLessThanWellFounded, Zenon DEF OpToRel, LessThan
<1>1. PICK n \in T : \A k \in T : ~(<<k, n>> \in LessThan)
  BY <1>0, WFMin, Zenon
<1>2. ASSUME NEW k \in T PROVE n <= k
  <2>1. k \in Nat /\ n \in Nat
    OBVIOUS
  <2>2. k < n => <<k, n>> \in LessThan
    BY <2>1 DEF LessThan
  <2>3. ~(k < n)
    BY <2>2, <1>1, Zenon
  <2> QED
    BY <2>1, <2>3
<1> QED
  BY <1>2

\* Induction up to a bound, for a set instead of a predicate.
LEMMA Induction ==
  ASSUME NEW N \in Nat, NEW T, 0 \in T, \A n \in 0..(N - 1) : n \in T => n + 1 \in T
  PROVE  0..N \subseteq T
<1> SUFFICES ASSUME (0..N) \ T # {} PROVE FALSE
  BY Zenon
<1>1. PICK n \in (0..N) \ T : \A k \in (0..N) \ T : n <= k
  <2>1. (0..N) \ T \in SUBSET Nat
    OBVIOUS
  <2> QED
    BY <2>1, Least
<1>2. n - 1 \in 0..(N - 1) /\ n - 1 \in T
  BY <1>1
<1>3. (n - 1) + 1 \in T
  BY <1>2
<1>4. (n - 1) + 1 = n
  BY <1>1
<1> QED
  BY <1>1, <1>3, <1>4

\* One line, with the state before it.
Step(lines, f, n) == IF n = 0 THEN M!NothingParsed ELSE M!ParseLine(f[n - 1], lines[n])

\* The states the recursive definition of the parser describes exist.
LEMMA StatesExist ==
  ASSUME NEW lines, NEW N \in Nat
  PROVE  \E f : f = [n \in 0..N |-> Step(lines, f, n)]
<1> DEFINE T == {k \in 0..N : \E f : f = [n \in 0..k |-> Step(lines, f, n)]}
<1>1. 0 \in T
  <2> DEFINE f == [n \in 0..0 |-> M!NothingParsed]
  <2>1. f = [n \in 0..0 |-> Step(lines, f, n)]
    BY DEF Step
  <2> QED
    BY <2>1
<1>2. ASSUME NEW k \in 0..(N - 1), k \in T
      PROVE  k + 1 \in T
  <2>1. PICK f : f = [n \in 0..k |-> Step(lines, f, n)]
    BY <1>2
  <2> DEFINE g == [n \in 0..(k + 1) |-> IF n = k + 1 THEN M!ParseLine(f[k], lines[k + 1]) ELSE f[n]]
  <2>2. ASSUME NEW n \in 0..(k + 1)
        PROVE  g[n] = Step(lines, g, n)
    <3>1. CASE n = k + 1
      <4>1. g[n] = M!ParseLine(f[k], lines[k + 1]) /\ g[k] = f[k] /\ n - 1 = k /\ n # 0
        BY <3>1
      <4> QED
        BY <3>1, <4>1 DEF Step
    <3>2. CASE n \in 1..k
      <4>1. g[n] = f[n] /\ g[n - 1] = f[n - 1] /\ n # 0
        BY <3>2
      <4>2. f[n] = Step(lines, f, n)
        <5>1. n \in 0..k
          BY <3>2
        <5> QED
          BY <2>1, <5>1, Zenon
      <4> QED
        BY <4>1, <4>2 DEF Step
    <3>3. CASE n = 0
      <4>1. g[n] = f[n] /\ 0 \in 0..k
        BY <3>3
      <4>2. f[n] = Step(lines, f, n)
        <5>1. n \in 0..k
          BY <3>3
        <5> QED
          BY <2>1, <5>1, Zenon
      <4> QED
        BY <3>3, <4>1, <4>2 DEF Step
    <3> QED
      BY <3>1, <3>2, <3>3
  <2>3. g = [n \in 0..(k + 1) |-> Step(lines, g, n)]
    <3> HIDE DEF g
    <3>1. g = [n \in 0..(k + 1) |-> g[n]]
      BY DEF g
    <3> QED
      BY <2>2, <3>1
  <2>4. k + 1 \in 0..N
    OBVIOUS
  <2>5. \E h : h = [n \in 0..(k + 1) |-> Step(lines, h, n)]
    <3> HIDE DEF g
    <3> QED
      BY <2>3, Zenon
  <2> QED
    BY <2>4, <2>5, Zenon
<1>3. N \in T
  <2> HIDE DEF T
  <2>1. \A k \in 0..(N - 1) : k \in T => k + 1 \in T
    BY <1>2
  <2>2. 0..N \subseteq T
    BY <1>1, <2>1, Induction, Zenon
  <2>3. N \in 0..N
    OBVIOUS
  <2> QED
    BY <2>2, <2>3
<1> QED
  BY <1>3

LEMMA StatesDef ==
  ASSUME NEW lines, Len(lines) \in Nat
  PROVE  LET f == M!ParseStates(lines) IN
         /\ f[0] = M!NothingParsed
         /\ \A n \in 1..Len(lines) : f[n] = M!ParseLine(f[n - 1], lines[n])
<1> DEFINE f == M!ParseStates(lines)
<1>1. f = CHOOSE g : g = [n \in 0..Len(lines) |-> Step(lines, g, n)]
  BY DEF M!ParseStates, Step
<1>2. f = [n \in 0..Len(lines) |-> Step(lines, f, n)]
  BY <1>1, StatesExist
<1> QED
  BY <1>2 DEF Step

Table == [name : Tables, fields : Seq(M!Fields)]
State == [tables : Seq(Table), in : BOOLEAN, name : Tables \cup {NoName}, fields : Seq(M!Fields)]

\* What a line does to the parser.
LEMMA ParseLineCases ==
  ASSUME NEW s, NEW line
  PROVE  /\ line.kind = "create" =>
              M!ParseLine(s, line) = [tables |-> IF s.in THEN M!Pushed(s) ELSE s.tables,
                                      in |-> TRUE, name |-> line.name, fields |-> <<>>]
         /\ line.kind = "close" /\ s.in =>
              M!ParseLine(s, line) = [s EXCEPT !.tables = M!Pushed(s), !.in = FALSE]
         /\ line.kind = "column" /\ s.in =>
              M!ParseLine(s, line) = [s EXCEPT !.fields = Append(@, M!FieldOf(line))]
         /\ line.kind \notin {"create", "close", "column"} \/ (line.kind # "create" /\ ~s.in) =>
              M!ParseLine(s, line) = s
<1>1. "create" # "close" /\ "create" # "column" /\ "close" # "column"
  OBVIOUS
<1> QED
  BY <1>1, Zenon DEF M!ParseLine

\* What the lines of a SQL file are.
LEMMA LineKinds ==
  ASSUME NEW line \in M!Lines
  PROVE  /\ line.kind \in {"create", "close", "column", "noise"}
         /\ line.kind = "create" => line.name \in Tables \cup {NoName}
         /\ line.kind = "column" => M!FieldOf(line) \in M!Fields
<1>1. CASE line \in [kind : {"create"}, name : Tables \cup {NoName}]
  BY <1>1
<1>2. CASE line \in [kind : {"column"}, column : Columns]
  <2>1. M!FieldOf(line) \in M!Fields
    BY <1>2, Zenon DEF M!Fields
  <2> QED
    BY <1>2, <2>1
<1>3. CASE line \in [kind : {"close", "noise"}]
  BY <1>3
<1> QED
  BY <1>1, <1>2, <1>3 DEF M!Lines

LEMMA PushedType ==
  ASSUME NEW s \in State
  PROVE  M!Pushed(s) \in Seq(Table)
<1>1. s.name # NoName => [name |-> s.name, fields |-> s.fields] \in Table
  BY DEF State, Table
<1>2. s.tables \in Seq(Table)
  BY DEF State
<1> HIDE DEF Table
<1>3. CASE s.name # NoName /\ s.fields # <<>>
  BY <1>1, <1>2, <1>3, AppendProperties DEF M!Pushed
<1>4. CASE ~(s.name # NoName /\ s.fields # <<>>)
  BY <1>2, <1>4 DEF M!Pushed
<1> QED
  BY <1>3, <1>4

LEMMA ParseLineType ==
  ASSUME NEW s \in State, NEW line \in M!Lines
  PROVE  M!ParseLine(s, line) \in State
<1>1. CASE line.kind = "create"
  <2>1. <<>> \in Seq(M!Fields)
    OBVIOUS
  <2>2. M!ParseLine(s, line) = [tables |-> IF s.in THEN M!Pushed(s) ELSE s.tables,
                                in |-> TRUE, name |-> line.name, fields |-> <<>>]
    BY <1>1, ParseLineCases
  <2>3. (IF s.in THEN M!Pushed(s) ELSE s.tables) \in Seq(Table)
    BY PushedType DEF State
  <2>4. line.name \in Tables \cup {NoName}
    BY <1>1, LineKinds
  <2> QED
    BY <2>1, <2>2, <2>3, <2>4 DEF State
<1>2. CASE line.kind = "close" /\ s.in
  <2>1. M!ParseLine(s, line) = [s EXCEPT !.tables = M!Pushed(s), !.in = FALSE]
    BY <1>2, ParseLineCases
  <2> QED
    BY <2>1, PushedType DEF State
<1>3. CASE line.kind = "column" /\ s.in
  <2>1. Append(s.fields, M!FieldOf(line)) \in Seq(M!Fields)
    BY <1>3, LineKinds DEF State
  <2> QED
    BY <1>3, <2>1, ParseLineCases DEF State
<1>4. CASE line.kind \notin {"create", "close", "column"} \/ (line.kind # "create" /\ ~s.in)
  BY <1>4, ParseLineCases
<1> QED
  BY <1>1, <1>2, <1>3, <1>4, LineKinds

\* The parser keeps its types on every file.
LEMMA StatesType ==
  ASSUME NEW lines \in Seq(M!Lines)
  PROVE  \A n \in 0..Len(lines) : M!ParseStates(lines)[n] \in State
<1> DEFINE f == M!ParseStates(lines)
           T == {n \in 0..Len(lines) : f[n] \in State}
<1>1. Len(lines) \in Nat /\ \A n \in 1..Len(lines) : lines[n] \in M!Lines
  OBVIOUS
<1>2. f[0] = M!NothingParsed /\ \A n \in 1..Len(lines) : f[n] = M!ParseLine(f[n - 1], lines[n])
  BY <1>1, StatesDef
<1> HIDE DEF f
<1>3. 0 \in T
  <2>1. M!NothingParsed \in State
    BY DEF M!NothingParsed, State
  <2> QED
    BY <1>1, <1>2, <2>1
<1>4. ASSUME NEW n \in 0..(Len(lines) - 1), n \in T
      PROVE  n + 1 \in T
  <2>1. n + 1 \in 1..Len(lines) /\ (n + 1) - 1 = n
    BY <1>1
  <2>2. f[n + 1] = M!ParseLine(f[n], lines[n + 1])
    BY <1>2, <2>1
  <2>3. f[n] \in State
    BY <1>4
  <2>4. f[n + 1] \in State
    BY <1>1, <2>1, <2>2, <2>3, ParseLineType
  <2> QED
    BY <1>1, <2>1, <2>4
<1>5. 0..Len(lines) \subseteq T
  <2> HIDE DEF T
  <2> QED
    BY <1>1, <1>3, <1>4, Induction, Zenon
<1> QED
  BY <1>5 DEF f

\* Statement p of the file is not ended by the first n lines.
Open(p, n) == sql[p].kind = "create" /\ M!Ends(p, n) = {}

\* What one more line adds to a statement's ends and columns.
LEMMA EndsNext ==
  ASSUME NEW n \in Nat, NEW p \in 1..n
  PROVE  M!Ends(p, n + 1) = M!Ends(p, n) \cup (IF sql[n + 1].kind \in {"create", "close"} THEN {n + 1} ELSE {})
<1>1. (p + 1)..(n + 1) = ((p + 1)..n) \cup {n + 1}
  OBVIOUS
<1> QED
  BY <1>1 DEF M!Ends

LEMMA ColumnsNext ==
  ASSUME NEW n \in Nat, NEW p \in 1..n
  PROVE  M!ColumnsOf(p, n + 1) =
           M!ColumnsOf(p, n) \cup (IF sql[n + 1].kind = "column" /\ M!Ends(p, n) = {} THEN {n + 1} ELSE {})
<1>1. (p + 1)..(n + 1) = ((p + 1)..n) \cup {n + 1}
  OBVIOUS
<1>2. sql[n + 1].kind = "column" => M!Ends(p, n + 1) = M!Ends(p, n)
  BY EndsNext
<1> QED
  BY <1>1, <1>2 DEF M!ColumnsOf

LEMMA LastStatement ==
  ASSUME NEW n \in Nat
  PROVE  M!Ends(n + 1, n + 1) = {} /\ M!ColumnsOf(n + 1, n + 1) = {} /\ n + 1 \notin M!Completes(n + 1)
<1>1. M!Ends(n + 1, n + 1) = {}
  BY DEF M!Ends
<1> QED
  BY <1>1 DEF M!ColumnsOf, M!Completes

\* A line that ends no statement completes none.
LEMMA CompletesSame ==
  ASSUME NEW n \in Nat, sql[n + 1].kind \notin {"create", "close"}
  PROVE  /\ M!Completes(n + 1) = M!Completes(n)
         /\ \A p \in M!Completes(n) : M!ColumnsOf(p, n + 1) = M!ColumnsOf(p, n)
<1>1. \A p \in 1..n : M!Ends(p, n + 1) = M!Ends(p, n)
  BY EndsNext
<1>2. \A p \in 1..n : M!Ends(p, n) # {} => M!ColumnsOf(p, n + 1) = M!ColumnsOf(p, n)
  BY ColumnsNext
<1>3. 1..(n + 1) = (1..n) \cup {n + 1}
  OBVIOUS
<1> QED
  BY <1>1, <1>2, <1>3, LastStatement DEF M!Completes

\* A line that ends statements completes the open ones with a column.
LEMMA CompletesEnd ==
  ASSUME NEW n \in Nat, sql[n + 1].kind \in {"create", "close"}
  PROVE  /\ M!Completes(n + 1) = M!Completes(n) \cup
              {p \in 1..n : Open(p, n) /\ sql[p].name # NoName /\ M!ColumnsOf(p, n) # {}}
         /\ \A p \in 1..n : M!ColumnsOf(p, n + 1) = M!ColumnsOf(p, n) /\ ~Open(p, n + 1)
<1>1. \A p \in 1..n : M!Ends(p, n + 1) # {}
  BY EndsNext
<1>2. \A p \in 1..n : M!ColumnsOf(p, n + 1) = M!ColumnsOf(p, n)
  BY ColumnsNext
<1>3. 1..(n + 1) = (1..n) \cup {n + 1}
  OBVIOUS
<1> QED
  BY <1>1, <1>2, <1>3, LastStatement DEF M!Completes, Open

\* The open statement is the last one.
LEMMA OpenIsLast ==
  ASSUME NEW n \in Nat, NEW p \in 1..n, Open(p, n), NEW q \in 1..n, sql[q].kind = "create"
  PROVE  q <= p /\ (q \in M!Completes(n) => q < p)
<1>1. q \in (p + 1)..n => q \in M!Ends(p, n)
  BY DEF M!Ends
<1>2. q <= p
  BY <1>1 DEF Open
<1>3. q \in M!Completes(n) => M!Ends(q, n) # {}
  BY DEF M!Completes
<1> QED
  BY <1>2, <1>3 DEF Open

\* Sequences that list a set of lines, extended by a later one.
LEMMA ListsNext ==
  ASSUME NEW k \in Nat, NEW C \in SUBSET Nat, NEW f \in [1..k -> C], M!Lists(f, C),
         NEW q \in Nat, \A c \in C : c < q
  PROVE  LET g == [i \in 1..(k + 1) |-> IF i = k + 1 THEN q ELSE f[i]]
         IN  g \in [1..(k + 1) -> C \cup {q}] /\ M!Lists(g, C \cup {q})
<1> DEFINE g == [i \in 1..(k + 1) |-> IF i = k + 1 THEN q ELSE f[i]]
<1>1. g \in [1..(k + 1) -> C \cup {q}] /\ g[k + 1] = q /\ \A i \in 1..k : g[i] = f[i]
  OBVIOUS
<1> HIDE DEF g
<1>2. \A i, j \in 1..(k + 1) : i < j => g[i] < g[j]
  <2> SUFFICES ASSUME NEW i \in 1..(k + 1), NEW j \in 1..(k + 1), i < j PROVE g[i] < g[j]
    OBVIOUS
  <2>1. i \in 1..k /\ g[i] = f[i] /\ f[i] \in C
    BY <1>1
  <2>2. CASE j = k + 1
    BY <1>1, <2>1, <2>2
  <2>3. CASE j \in 1..k
    BY <1>1, <2>1, <2>3 DEF M!Lists
  <2> QED
    BY <2>2, <2>3
<1>3. \A c \in C \cup {q} : \E i \in 1..(k + 1) : g[i] = c
  <2> SUFFICES ASSUME NEW c \in C \cup {q} PROVE \E i \in 1..(k + 1) : g[i] = c
    OBVIOUS
  <2>1. CASE c = q
    BY <1>1, <2>1
  <2>2. CASE c \in C
    <3>1. PICK i \in 1..k : f[i] = c
      BY <2>2 DEF M!Lists
    <3> QED
      BY <1>1, <3>1
  <2> QED
    BY <2>1, <2>2
<1>4. M!Lists(g, C \cup {q})
  BY <1>1, <1>2, <1>3 DEF M!Lists
<1> QED
  BY <1>1, <1>4 DEF g

\* Fields that list columns, extended by the next column.
LEMMA HasColumnsNext ==
  ASSUME NEW fields \in Seq(M!Fields), NEW C \in SUBSET Nat, M!HasColumns(fields, C),
         NEW q \in Nat, \A c \in C : c < q, M!FieldOf(sql[q]) \in M!Fields
  PROVE  M!HasColumns(Append(fields, M!FieldOf(sql[q])), C \cup {q})
<1> DEFINE k == Len(fields)
           new == Append(fields, M!FieldOf(sql[q]))
<1>1. k \in Nat /\ DOMAIN fields = 1..k
  BY LenProperties
<1>2. /\ DOMAIN new = 1..(k + 1) /\ new[k + 1] = M!FieldOf(sql[q])
      /\ \A i \in 1..k : new[i] = fields[i]
  BY AppendProperties, LenProperties
<1> HIDE DEF k, new
<1>3. PICK cs \in [1..k -> C] : M!Lists(cs, C) /\ \A i \in 1..k : fields[i] = M!FieldOf(sql[cs[i]])
  BY <1>1 DEF M!HasColumns
<1> DEFINE ds == [i \in 1..(k + 1) |-> IF i = k + 1 THEN q ELSE cs[i]]
<1>4. ds \in [1..(k + 1) -> C \cup {q}] /\ M!Lists(ds, C \cup {q})
  BY <1>1, <1>3, ListsNext
<1>5. ASSUME NEW i \in 1..(k + 1) PROVE new[i] = M!FieldOf(sql[ds[i]])
  <2>1. CASE i = k + 1
    BY <1>1, <1>2, <2>1
  <2>2. CASE i \in 1..k
    <3>1. ds[i] = cs[i]
      BY <1>1, <2>2
    <3> QED
      BY <1>2, <1>3, <2>2, <3>1
  <2> QED
    BY <1>1, <2>1, <2>2
<1> HIDE DEF ds
<1>6. \E es \in [DOMAIN new -> C \cup {q}] :
         M!Lists(es, C \cup {q}) /\ \A i \in DOMAIN new : new[i] = M!FieldOf(sql[es[i]])
  BY <1>2, <1>4, <1>5
<1> QED
  BY <1>6 DEF M!HasColumns, new

LEMMA HasColumnsEmpty ==
  ASSUME NEW fields \in Seq(M!Fields), NEW C, M!HasColumns(fields, C)
  PROVE  fields = <<>> <=> C = {}
<1>1. PICK cs \in [DOMAIN fields -> C] : M!Lists(cs, C)
  BY DEF M!HasColumns
<1>2. ASSUME fields = <<>> PROVE C = {}
  <2>1. DOMAIN fields = {}
    BY <1>2
  <2> QED
    BY <1>1, <2>1 DEF M!Lists
<1>3. ASSUME fields # <<>> PROVE C # {}
  <2>1. 1 \in DOMAIN fields
    BY <1>3
  <2> QED
    BY <1>1, <2>1
<1> QED
  BY <1>2, <1>3

LEMMA NoColumns == M!HasColumns(<<>>, {})
<1> DEFINE cs == [i \in DOMAIN <<>> |-> 0]
<1>1. DOMAIN <<>> = {} /\ DOMAIN cs = {}
  OBVIOUS
<1>2. cs \in [DOMAIN <<>> -> {}]
  BY <1>1
<1> HIDE DEF cs
<1> QED
  BY <1>1, <1>2 DEF M!HasColumns, M!Lists

\* The tables that are listed stay as they are while nothing is completed.
LEMMA StatementsSame ==
  ASSUME NEW tables, NEW n, NEW m, M!HasStatements(tables, n), M!Completes(m) = M!Completes(n),
         \A p \in M!Completes(n) : M!ColumnsOf(p, m) = M!ColumnsOf(p, n)
  PROVE  M!HasStatements(tables, m)
<1>1. PICK ps \in [DOMAIN tables -> M!Completes(n)] :
         /\ M!Lists(ps, M!Completes(n))
         /\ \A i \in DOMAIN tables : /\ tables[i].name = sql[ps[i]].name
                                     /\ M!HasColumns(tables[i].fields, M!ColumnsOf(ps[i], n))
  BY DEF M!HasStatements
<1>2. \A i \in DOMAIN tables : M!ColumnsOf(ps[i], m) = M!ColumnsOf(ps[i], n)
  BY <1>1
<1> QED
  BY <1>1, <1>2 DEF M!HasStatements

\* The statement that is completed is listed after them.
LEMMA StatementsNext ==
  ASSUME NEW tables \in Seq(Table), NEW n \in Nat, NEW m \in Nat, NEW p \in Nat, NEW t \in Table,
         M!HasStatements(tables, n),
         M!Completes(m) = M!Completes(n) \cup {p}, \A q \in M!Completes(n) : q < p,
         \A q \in M!Completes(n) : M!ColumnsOf(q, m) = M!ColumnsOf(q, n),
         t.name = sql[p].name, M!HasColumns(t.fields, M!ColumnsOf(p, m))
  PROVE  M!HasStatements(Append(tables, t), m)
<1> DEFINE k == Len(tables)
           new == Append(tables, t)
           C == M!Completes(n)
<1>1. k \in Nat /\ DOMAIN tables = 1..k
  BY LenProperties
<1>2. DOMAIN new = 1..(k + 1) /\ new[k + 1] = t /\ \A i \in 1..k : new[i] = tables[i]
  BY AppendProperties, LenProperties
<1>3. C \in SUBSET Nat
  BY DEF M!Completes
<1>4. M!Completes(m) = C \cup {p} /\ \A q \in C : q < p
  OBVIOUS
<1> HIDE DEF k, new
<1>5. PICK ps \in [1..k -> C] :
         /\ M!Lists(ps, C)
         /\ \A i \in 1..k : /\ tables[i].name = sql[ps[i]].name
                            /\ M!HasColumns(tables[i].fields, M!ColumnsOf(ps[i], n))
  BY <1>1 DEF M!HasStatements
<1>6. \A i \in 1..k : M!ColumnsOf(ps[i], m) = M!ColumnsOf(ps[i], n)
  BY <1>5
<1> HIDE DEF C
<1> DEFINE qs == [i \in 1..(k + 1) |-> IF i = k + 1 THEN p ELSE ps[i]]
<1>7. qs \in [1..(k + 1) -> C \cup {p}] /\ M!Lists(qs, C \cup {p})
  <2>1. k \in Nat /\ p \in Nat /\ C \in SUBSET Nat /\ ps \in [1..k -> C] /\ M!Lists(ps, C) /\ \A q \in C : q < p
    BY <1>1, <1>3, <1>4, <1>5, Zenon
  <2> QED
    BY <2>1, ListsNext, ZenonT(60)
<1>8. ASSUME NEW i \in 1..(k + 1)
      PROVE  new[i].name = sql[qs[i]].name /\ M!HasColumns(new[i].fields, M!ColumnsOf(qs[i], m))
  <2>1. CASE i = k + 1
    <3>1. qs[i] = p
      BY <1>1, <2>1
    <3> QED
      BY <1>2, <2>1, <3>1
  <2>2. CASE i \in 1..k
    <3>1. qs[i] = ps[i]
      BY <1>1, <2>2
    <3> QED
      BY <1>2, <1>5, <1>6, <2>2, <3>1
  <2> QED
    BY <1>1, <2>1, <2>2
<1> HIDE DEF qs
<1>9. \E rs \in [DOMAIN new -> M!Completes(m)] :
        /\ M!Lists(rs, M!Completes(m))
        /\ \A i \in DOMAIN new : /\ new[i].name = sql[rs[i]].name
                                 /\ M!HasColumns(new[i].fields, M!ColumnsOf(rs[i], m))
  <2>1. qs \in [DOMAIN new -> M!Completes(m)] /\ M!Lists(qs, M!Completes(m))
    BY <1>2, <1>4, <1>7
  <2> QED
    BY <1>2, <1>8, <2>1, Zenon
<1> QED
  BY <1>9 DEF M!HasStatements, new

\* What the parser knows after n lines, in the state s: it has listed the
\* complete statements, and its current table is the open one.
Agrees(s, n) ==
  /\ M!HasStatements(s.tables, n)
  /\ s.in => \E p \in 1..n : Open(p, n) /\ s.name = sql[p].name /\ M!HasColumns(s.fields, M!ColumnsOf(p, n))
  /\ ~s.in => \A p \in 1..n : ~Open(p, n)

LEMMA ColumnsAreLines ==
  ASSUME NEW n \in Nat, NEW p \in 1..n
  PROVE  M!ColumnsOf(p, n) \in SUBSET Nat /\ \A c \in M!ColumnsOf(p, n) : c < n + 1
BY DEF M!ColumnsOf

\* A line that ends a statement: the current table is listed if it has a name
\* and a field, which is when its statement is complete.
LEMMA PushedAgrees ==
  ASSUME NEW n \in Nat, NEW s \in State, Agrees(s, n), sql[n + 1].kind \in {"create", "close"}
  PROVE  M!HasStatements(IF s.in THEN M!Pushed(s) ELSE s.tables, n + 1)
<1>1. /\ M!Completes(n + 1) = M!Completes(n) \cup
              {p \in 1..n : Open(p, n) /\ sql[p].name # NoName /\ M!ColumnsOf(p, n) # {}}
      /\ \A p \in 1..n : M!ColumnsOf(p, n + 1) = M!ColumnsOf(p, n)
  BY CompletesEnd
<1>2. M!Completes(n) \subseteq 1..n /\ \A p \in M!Completes(n) : M!ColumnsOf(p, n + 1) = M!ColumnsOf(p, n)
  BY <1>1 DEF M!Completes
<1>3. CASE ~s.in
  <2>1. M!Completes(n + 1) = M!Completes(n)
    BY <1>1, <1>3 DEF Agrees
  <2> QED
    BY <1>2, <1>3, <2>1, StatementsSame DEF Agrees
<1>4. CASE s.in
  <2>1. PICK p \in 1..n : Open(p, n) /\ s.name = sql[p].name /\ M!HasColumns(s.fields, M!ColumnsOf(p, n))
    BY <1>4 DEF Agrees
  <2>2. s.fields \in Seq(M!Fields) /\ s.name \in Tables \cup {NoName} /\ s.tables \in Seq(Table)
    BY DEF State
  <2>3. s.fields = <<>> <=> M!ColumnsOf(p, n) = {}
    BY <2>1, <2>2, HasColumnsEmpty
  <2>4. \A q \in 1..n : Open(q, n) => q = p
    BY <2>1, OpenIsLast DEF Open
  <2>5. \A q \in M!Completes(n) : q < p
    BY <2>1, OpenIsLast DEF M!Completes
  <2>6. CASE s.name # NoName /\ s.fields # <<>>
    <3> DEFINE t == [name |-> s.name, fields |-> s.fields]
    <3>1. M!Completes(n + 1) = M!Completes(n) \cup {p}
      BY <1>1, <2>1, <2>3, <2>4, <2>6
    <3>2. t \in Table /\ t.name = sql[p].name /\ M!HasColumns(t.fields, M!ColumnsOf(p, n + 1))
      BY <1>1, <2>1, <2>2, <2>6 DEF Table
    <3>3. M!Pushed(s) = Append(s.tables, t)
      BY <2>6 DEF M!Pushed
    <3> HIDE DEF t
    <3>4. M!HasStatements(s.tables, n) /\ n + 1 \in Nat /\ p \in Nat
      BY DEF Agrees
    <3>5. M!HasStatements(Append(s.tables, t), n + 1)
      BY <1>2, <2>2, <2>5, <3>1, <3>2, <3>4, StatementsNext
    <3> QED
      BY <1>4, <3>3, <3>5
  <2>7. CASE ~(s.name # NoName /\ s.fields # <<>>)
    <3>1. M!Completes(n + 1) = M!Completes(n)
      BY <1>1, <2>1, <2>3, <2>4, <2>7
    <3>2. M!Pushed(s) = s.tables
      BY <2>7 DEF M!Pushed
    <3>3. M!HasStatements(s.tables, n + 1)
      BY <1>2, <3>1, StatementsSame DEF Agrees
    <3> QED
      BY <1>4, <3>2, <3>3
  <2> QED
    BY <2>6, <2>7
<1> QED
  BY <1>3, <1>4

\* Every line keeps the parser and the file in agreement.
LEMMA LineAgrees ==
  ASSUME NEW n \in Nat, sql[n + 1] \in M!Lines, NEW s \in State, Agrees(s, n)
  PROVE  Agrees(M!ParseLine(s, sql[n + 1]), n + 1)
<1> DEFINE line == sql[n + 1]
           new == M!ParseLine(s, line)
<1>0. 1..(n + 1) = (1..n) \cup {n + 1} /\ n + 1 \in 1..(n + 1) /\ 1..n \subseteq 1..(n + 1)
  OBVIOUS
<1>1. CASE line.kind = "create"
  <2>1. new = [tables |-> IF s.in THEN M!Pushed(s) ELSE s.tables,
               in |-> TRUE, name |-> line.name, fields |-> <<>>]
    BY <1>1, ParseLineCases
  <2>2. /\ new.tables = (IF s.in THEN M!Pushed(s) ELSE s.tables)
        /\ new.in = TRUE /\ new.name = line.name /\ new.fields = <<>>
    BY <2>1
  <2> HIDE DEF new
  <2>3. M!HasStatements(new.tables, n + 1)
    BY <1>1, <2>2, PushedAgrees
  <2>4. Open(n + 1, n + 1) /\ M!ColumnsOf(n + 1, n + 1) = {}
    BY <1>1, LastStatement DEF Open
  <2>5. M!HasColumns(new.fields, M!ColumnsOf(n + 1, n + 1))
    BY <2>2, <2>4, NoColumns
  <2> QED
    BY <1>0, <2>2, <2>3, <2>4, <2>5 DEF Agrees, new
<1>2. CASE line.kind = "close" /\ s.in
  <2>1. new = [s EXCEPT !.tables = M!Pushed(s), !.in = FALSE]
    BY <1>2, ParseLineCases
  <2>2. new.tables = M!Pushed(s) /\ ~new.in
    BY <2>1 DEF State
  <2> HIDE DEF new
  <2>3. M!HasStatements(new.tables, n + 1)
    BY <1>2, <2>2, PushedAgrees
  <2>4. \A p \in 1..(n + 1) : ~Open(p, n + 1)
    BY <1>0, <1>2, CompletesEnd DEF Open
  <2> QED
    BY <2>2, <2>3, <2>4 DEF Agrees, new
<1>3. CASE line.kind = "column" /\ s.in
  <2>1. new = [s EXCEPT !.fields = Append(@, M!FieldOf(line))]
    BY <1>3, ParseLineCases
  <2>2. /\ new.tables = s.tables /\ new.in /\ new.name = s.name
        /\ new.fields = Append(s.fields, M!FieldOf(line))
    BY <1>3, <2>1 DEF State
  <2> HIDE DEF new
  <2>3. M!HasStatements(new.tables, n + 1)
    <3>1. line.kind \notin {"create", "close"}
      BY <1>3
    <3> QED
      BY <2>2, <3>1, CompletesSame, StatementsSame DEF Agrees
  <2>4. PICK p \in 1..n : Open(p, n) /\ s.name = sql[p].name /\ M!HasColumns(s.fields, M!ColumnsOf(p, n))
    BY <1>3 DEF Agrees
  <2>5. Open(p, n + 1)
    BY <1>3, <2>4, EndsNext DEF Open
  <2>6. M!ColumnsOf(p, n + 1) = M!ColumnsOf(p, n) \cup {n + 1}
    BY <1>3, <2>4, ColumnsNext DEF Open
  <2>7. M!HasColumns(new.fields, M!ColumnsOf(p, n + 1))
    <3>1. s.fields \in Seq(M!Fields) /\ M!FieldOf(line) \in M!Fields
      BY <1>3, LineKinds DEF State
    <3>2. n + 1 \in Nat
      OBVIOUS
    <3> QED
      BY <2>2, <2>4, <2>6, <3>1, <3>2, ColumnsAreLines, HasColumnsNext
  <2> QED
    BY <1>0, <2>2, <2>3, <2>4, <2>5, <2>7 DEF Agrees, new
<1>4. CASE line.kind = "close" /\ ~s.in
  <2>1. new = s
    BY <1>4, ParseLineCases
  <2>2. M!HasStatements(s.tables, n + 1)
    BY <1>4, PushedAgrees
  <2>3. \A p \in 1..(n + 1) : ~Open(p, n + 1)
    BY <1>0, <1>4, CompletesEnd DEF Open
  <2> QED
    BY <1>4, <2>1, <2>2, <2>3 DEF Agrees
<1>5. CASE line.kind = "noise" \/ (line.kind = "column" /\ ~s.in)
  <2>1. new = s /\ line.kind \notin {"create", "close"}
    BY <1>5, ParseLineCases
  <2>2. M!HasStatements(s.tables, n + 1)
    BY <2>1, CompletesSame, StatementsSame DEF Agrees
  <2>3. \A p \in 1..n : Open(p, n + 1) <=> Open(p, n)
    BY <2>1, EndsNext DEF Open
  <2>4. ~Open(n + 1, n + 1)
    BY <2>1 DEF Open
  <2>5. CASE s.in
    <3>1. PICK p \in 1..n : Open(p, n) /\ s.name = sql[p].name /\ M!HasColumns(s.fields, M!ColumnsOf(p, n))
      BY <2>5 DEF Agrees
    <3>2. M!ColumnsOf(p, n + 1) = M!ColumnsOf(p, n)
      BY <1>5, <2>5, ColumnsNext
    <3> QED
      BY <1>0, <2>1, <2>2, <2>3, <2>5, <3>1, <3>2 DEF Agrees
  <2>6. CASE ~s.in
    BY <1>0, <2>1, <2>2, <2>3, <2>4, <2>6 DEF Agrees
  <2> QED
    BY <2>5, <2>6
<1> QED
  BY <1>1, <1>2, <1>3, <1>4, <1>5, LineKinds

\* The parser agrees with the reference on every file.
LEMMA ParserCorrect ==
  ASSUME sql \in Seq(M!Lines)
  PROVE  M!ParseMatchesReference
<1> DEFINE f == M!ParseStates(sql)
           N == Len(sql)
           T == {n \in 0..N : Agrees(f[n], n)}
<1>1. N \in Nat /\ \A n \in 1..N : sql[n] \in M!Lines
  OBVIOUS
<1>2. f[0] = M!NothingParsed /\ \A n \in 1..N : f[n] = M!ParseLine(f[n - 1], sql[n])
  BY <1>1, StatesDef
<1>3. \A n \in 0..N : f[n] \in State
  BY StatesType
<1>4. M!parseSQLToModels(sql) = f[N].tables
  BY DEF M!parseSQLToModels
<1> HIDE DEF f, N
<1>5. Agrees(f[0], 0)
  <2>1. f[0].tables = <<>> /\ ~f[0].in
    BY <1>2 DEF M!NothingParsed
  <2>2. M!Completes(0) = {} /\ 1..0 = {} /\ DOMAIN <<>> = {}
    BY DEF M!Completes
  <2> DEFINE ps == [i \in DOMAIN <<>> |-> 0]
  <2>3. ps \in [DOMAIN <<>> -> M!Completes(0)] /\ DOMAIN ps = {}
    BY <2>2
  <2> HIDE DEF ps
  <2>4. M!HasStatements(<<>>, 0)
    BY <2>2, <2>3 DEF M!HasStatements, M!Lists
  <2> QED
    BY <2>1, <2>2, <2>4 DEF Agrees
<1>6. ASSUME NEW n \in 0..(N - 1), n \in T
      PROVE  n + 1 \in T
  <2>1. n \in Nat /\ n \in 0..N /\ n + 1 \in 0..N /\ n + 1 \in 1..N /\ (n + 1) - 1 = n
    BY <1>1
  <2>2. f[n + 1] = M!ParseLine(f[n], sql[n + 1])
    BY <1>2, <2>1
  <2>3. Agrees(f[n + 1], n + 1)
    BY <1>1, <1>3, <1>6, <2>1, <2>2, LineAgrees
  <2> QED
    BY <2>1, <2>3
<1>7. 0..N \subseteq T
  <2>1. 0 \in T
    BY <1>1, <1>5
  <2> HIDE DEF T
  <2>2. \A n \in 0..(N - 1) : n \in T => n + 1 \in T
    BY <1>6
  <2> QED
    BY <1>1, <2>1, <2>2, Induction, Zenon
<1>8. Agrees(f[N], N)
  BY <1>1, <1>7
<1> QED
  BY <1>4, <1>8 DEF Agrees, M!ParseMatchesReference, N

----------------------------------------------------------------------------
(* model *)

\* The tables that have their files.
Backed == {t \in Tables : models[t] # "none" /\ stores[t] # "none"}

\* What stores/main.go wires has its files unless the command that wrote it
\* ignored a failed write.  While none has failed, every table of the running
\* command that is not still to do has its files.
ModelInv ==
  /\ M!TypeOK
  /\ cmd = "store" => todo # <<>>
  /\ doubt \/ \A k \in 1..Len(main) : main[k] \in Backed
  /\ faulty \/ \A k \in 1..Len(parsed) :
                 parsed[k] \in Backed \/ \E j \in 1..Len(todo) : todo[j].name = parsed[k]
  /\ faulty \/ (cmd = "store" => models[Head(todo).name] # "none")

LEMMA ModelInit == Init => ModelInv
<1> SUFFICES ASSUME Init PROVE ModelInv
  OBVIOUS
<1>1. M!Init /\ cmd = "idle"
  BY DEF Init, S!Init
<1>2. faulty \in BOOLEAN /\ doubt \in BOOLEAN
  BY <1>1, Zenon DEF M!Init
<1>3. \A A : <<>> \in Seq(A)
  OBVIOUS
<1>4. M!TypeOK /\ main = <<>> /\ parsed = <<>>
  BY <1>1, <1>2, <1>3 DEF M!Init, M!TypeOK, M!File
<1> QED
  BY <1>1, <1>4 DEF ModelInv

\* Steps that leave the files of model alone.
LEMMA ModelFrame ==
  ASSUME ModelInv, UNCHANGED modelVars, cmd' = "store" => cmd' = cmd
  PROVE  ModelInv'
BY DEF ModelInv, modelVars, M!TypeOK, Backed

\* "new" unwires all stores.
LEMMA TemplateMainStep ==
  ASSUME ModelInv, cmd' # "store", M!TemplateMain
  PROVE  ModelInv'
<1>1. doubt' \in BOOLEAN
  BY Zenon DEF M!TemplateMain
<1>2. M!TypeOK'
  BY <1>1 DEF ModelInv, M!TypeOK, M!TemplateMain
<1> QED
  BY <1>2 DEF ModelInv, M!TemplateMain, Backed

\* The names the parser gives are those of main.go.
LEMMA CallModelStep ==
  ASSUME ModelInv, NEW lines \in Schemas, M!CallModel(lines)
  PROVE  ModelInv'
<1>1. lines \in Seq(M!Lines)
  BY CodeGenAssumption
<1>2. Len(lines) \in 0..Len(lines)
  BY <1>1
<1>3. M!ParseStates(lines)[Len(lines)] \in State
  BY <1>1, <1>2, StatesType
<1>4. todo' \in Seq(Table)
  BY <1>3 DEF M!CallModel, M!parseSQLToModels, State
<1>5. DOMAIN todo' = 1..Len(todo') /\ Len(todo') \in Nat /\ \A k \in 1..Len(todo') : todo'[k].name \in Tables
  <2>1. DOMAIN todo' = 1..Len(todo') /\ Len(todo') \in Nat /\ \A k \in 1..Len(todo') : todo'[k] \in Table
    BY <1>4
  <2> QED
    BY <2>1 DEF Table
<1>6. parsed' = [k \in 1..Len(todo') |-> todo'[k].name]
  BY <1>5 DEF M!CallModel, M!generateMainCode
<1>7. parsed' \in Seq(Tables) /\ Len(parsed') = Len(todo')
  BY <1>5, <1>6
<1>8. cmd' = "model" /\ UNCHANGED <<sql, models, stores, main, faulty, doubt>>
  BY DEF M!CallModel
<1>9. M!TypeOK'
  BY <1>4, <1>7, <1>8 DEF ModelInv, M!TypeOK, Table
<1>10. \A k \in 1..Len(parsed') : \E j \in 1..Len(todo') : todo'[j].name = parsed'[k]
  BY <1>5, <1>6, <1>7
<1> QED
  BY <1>8, <1>9, <1>10 DEF ModelInv, Backed

\* The files of a table are written once and never become none.
LEMMA WriteModelStep ==
  ASSUME ModelInv, NEW r \in M!WriteResults, M!WriteModel(r)
  PROVE  ModelInv'
<1> DEFINE t == Head(todo).name
<1>1. /\ cmd = "model" /\ todo # <<>> /\ cmd' = "store"
      /\ UNCHANGED <<sql, todo, parsed, stores, main, doubt>>
      /\ models' = [models EXCEPT ![t] = M!Written(@, @, r)]
  BY DEF M!WriteModel
<1>2. todo \in Seq(Table) /\ t \in Tables
  <2>1. todo \in Seq(Table)
    BY DEF ModelInv, M!TypeOK, Table
  <2>2. Head(todo) \in Table
    BY <1>1, <2>1, HeadTailProperties
  <2> QED
    BY <2>1, <2>2 DEF Table
<1>3. faulty' \in BOOLEAN /\ (faulty \/ (models[t] = "none" /\ r # "full") <=> faulty')
  BY Zenon DEF M!WriteModel, ModelInv, M!TypeOK
<1>4. models \in [Tables -> M!File]
  BY DEF ModelInv, M!TypeOK
<1> HIDE DEF t
<1>5. models' \in [Tables -> M!File]
  BY <1>1, <1>2, <1>4 DEF M!Written, M!WriteResults, M!File
<1>6. /\ \A u \in Tables : models[u] # "none" => models'[u] = models[u]
      /\ r = "full" \/ models[t] # "none" => models'[t] # "none"
  BY <1>1, <1>2, <1>4 DEF M!Written
<1>7. M!TypeOK'
  BY <1>1, <1>3, <1>5 DEF ModelInv, M!TypeOK
<1>8. Backed \subseteq Backed'
  BY <1>1, <1>6 DEF Backed
<1>9. (\A k \in 1..Len(main) : main[k] \in Tables) /\ \A k \in 1..Len(parsed) : parsed[k] \in Tables
  BY DEF ModelInv, M!TypeOK
<1>10. doubt' \/ \A k \in 1..Len(main') : main'[k] \in Backed'
  BY <1>1, <1>8, <1>9 DEF ModelInv
<1>11. faulty' \/ \A k \in 1..Len(parsed') : parsed'[k] \in Backed' \/ \E j \in 1..Len(todo') : todo'[j].name = parsed'[k]
  BY <1>1, <1>3, <1>8, <1>9 DEF ModelInv
<1>12. faulty' \/ models'[Head(todo').name] # "none"
  BY <1>1, <1>3, <1>6 DEF t
<1> QED
  BY <1>1, <1>7, <1>10, <1>11, <1>12 DEF ModelInv, Backed

LEMMA WriteStoreStep ==
  ASSUME ModelInv, NEW r \in M!WriteResults, M!WriteStore(r)
  PROVE  ModelInv'
<1> DEFINE t == Head(todo).name
<1>1. /\ cmd = "store" /\ todo # <<>> /\ cmd' = "model" /\ todo' = Tail(todo)
      /\ UNCHANGED <<sql, parsed, models, main, doubt>>
      /\ stores' = [stores EXCEPT ![t] = M!Written(@, models[t], r)]
  BY DEF M!WriteStore, ModelInv
<1>2. todo \in Seq(Table) /\ t \in Tables /\ todo' \in Seq(Table)
  <2>1. todo \in Seq(Table)
    BY DEF ModelInv, M!TypeOK, Table
  <2>2. Head(todo) \in Table /\ Tail(todo) \in Seq(Table)
    BY <1>1, <2>1, HeadTailProperties
  <2> QED
    BY <1>1, <2>1, <2>2 DEF Table
<1>3. faulty' \in BOOLEAN /\ (faulty \/ (stores[t] = "none" /\ r # "full") <=> faulty')
  BY Zenon DEF M!WriteStore, ModelInv, M!TypeOK
<1>4. stores \in [Tables -> M!File]
  BY DEF ModelInv, M!TypeOK
<1> HIDE DEF t
<1>5. stores' \in [Tables -> M!File]
  BY <1>1, <1>2, <1>4 DEF M!Written, M!WriteResults, M!File
<1>6. /\ \A u \in Tables : stores[u] # "none" => stores'[u] = stores[u]
      /\ r = "full" \/ stores[t] # "none" => stores'[t] # "none"
  BY <1>1, <1>2, <1>4 DEF M!Written
<1>7. M!TypeOK'
  BY <1>1, <1>2, <1>3, <1>5 DEF ModelInv, M!TypeOK, Table
<1>8. Backed \subseteq Backed' /\ (faulty' \/ t \in Backed')
  <2>1. faulty \/ models[t] # "none"
    BY <1>1 DEF ModelInv, t
  <2> QED
    BY <1>1, <1>2, <1>3, <1>6, <2>1 DEF Backed
<1>9. (\A k \in 1..Len(main) : main[k] \in Tables) /\ \A k \in 1..Len(parsed) : parsed[k] \in Tables
  BY DEF ModelInv, M!TypeOK
<1>10. doubt' \/ \A k \in 1..Len(main') : main'[k] \in Backed'
  BY <1>1, <1>8, <1>9 DEF ModelInv
<1>11. ASSUME ~faulty', NEW k \in 1..Len(parsed)
       PROVE  parsed[k] \in Backed' \/ \E j \in 1..Len(todo') : todo'[j].name = parsed[k]
  <2>1. parsed[k] \in Backed \/ \E j \in 1..Len(todo) : todo[j].name = parsed[k]
    BY <1>3, <1>11 DEF ModelInv
  <2>2. CASE parsed[k] \in Backed
    BY <1>8, <1>9, <2>2
  <2>3. ASSUME NEW j \in 1..Len(todo), todo[j].name = parsed[k]
        PROVE  parsed[k] \in Backed' \/ \E i \in 1..Len(todo') : todo'[i].name = parsed[k]
    <3>1. CASE j = 1
      <4>1. t = parsed[k]
        BY <1>1, <1>2, <2>3, <3>1 DEF t
      <4> QED
        BY <1>8, <1>11, <4>1
    <3>2. CASE j # 1
      <4>1. j - 1 \in 1..Len(Tail(todo)) /\ Tail(todo)[j - 1] = todo[j]
        BY <1>1, <1>2, <3>2, HeadTailProperties
      <4> QED
        BY <1>1, <2>3, <4>1
    <3> QED
      BY <3>1, <3>2
  <2> QED
    BY <2>1, <2>2, <2>3
<1>12. faulty' \/ \A k \in 1..Len(parsed') : parsed'[k] \in Backed' \/ \E j \in 1..Len(todo') : todo'[j].name = parsed'[k]
  BY <1>1, <1>11
<1> QED
  BY <1>1, <1>7, <1>10, <1>12 DEF ModelInv, Backed

LEMMA WriteMainStep ==
  ASSUME ModelInv, M!WriteMain
  PROVE  ModelInv'
<1>1. /\ todo = <<>> /\ cmd' = "idle" /\ parsed' = <<>>
      /\ UNCHANGED <<sql, todo, models, stores>>
  BY DEF M!WriteMain
<1>2. \/ main' = parsed /\ doubt' = faulty
      \/ main' = main /\ doubt' = doubt
      \/ main' = <<>> /\ doubt' = FALSE
  BY Zenon DEF M!WriteMain
<1>3. faulty' \in BOOLEAN /\ doubt' \in BOOLEAN
  BY <1>2, Zenon DEF ModelInv, M!TypeOK, M!WriteMain
<1>4. M!TypeOK'
  <2>1. <<>> \in Seq(Tables) /\ parsed \in Seq(Tables) /\ main \in Seq(Tables)
    BY DEF ModelInv, M!TypeOK
  <2>2. main' \in Seq(Tables)
    BY <1>2, <2>1, Zenon
  <2> QED
    BY <1>1, <1>3, <2>2 DEF ModelInv, M!TypeOK
<1>5. ASSUME ~doubt' PROVE \A k \in 1..Len(main') : main'[k] \in Backed'
  <2>1. CASE main' = parsed /\ ~faulty
    BY <1>1, <2>1 DEF ModelInv, Backed
  <2>2. CASE main' = main /\ ~doubt
    BY <1>1, <2>2 DEF ModelInv, Backed
  <2>3. CASE main' = <<>>
    BY <2>3
  <2>4. (main' = parsed /\ ~faulty) \/ (main' = main /\ ~doubt) \/ main' = <<>>
    BY <1>2, <1>5, Zenon
  <2> QED
    BY <2>1, <2>2, <2>3, <2>4
<1> QED
  BY <1>1, <1>4, <1>5 DEF ModelInv, Backed

\* A killed command forgets what it had still to do; the developer adds a
\* line, or edits a file that is there.
LEMMA ModelEditStep ==
  ASSUME ModelInv,
         \/ M!Interrupt
         \/ \E l \in M!Lines : M!AppendLine(l)
         \/ \E t \in Tables : M!EditModel(t) \/ M!EditStore(t)
  PROVE  ModelInv'
<1>1. CASE M!Interrupt
  <2>1. faulty' \in BOOLEAN
    BY <1>1, Zenon DEF M!Interrupt
  <2>2. M!TypeOK'
    BY <1>1, <2>1 DEF ModelInv, M!TypeOK, M!Interrupt
  <2> QED
    BY <1>1, <2>2 DEF ModelInv, M!Interrupt, Backed
<1>2. ASSUME NEW l \in M!Lines, M!AppendLine(l) PROVE ModelInv'
  <2>1. sql' \in Seq(M!Lines)
    BY <1>2, AppendProperties DEF ModelInv, M!TypeOK, M!AppendLine
  <2>2. M!TypeOK'
    BY <1>2, <2>1 DEF ModelInv, M!TypeOK, M!AppendLine
  <2> QED
    BY <1>2, <2>2 DEF ModelInv, M!AppendLine, Backed
<1>3. ASSUME NEW t \in Tables, M!EditModel(t) \/ M!EditStore(t) PROVE ModelInv'
  <2>1. /\ models' \in {models, [models EXCEPT ![t] = "edited"]}
        /\ stores' \in {stores, [stores EXCEPT ![t] = "edited"]}
        /\ UNCHANGED <<cmd, sql, todo, parsed, main>> /\ cmd = "idle"
    BY <1>3 DEF M!EditModel, M!EditStore
  <2>2. faulty' = faulty /\ doubt' = doubt
    BY <1>3 DEF M!EditModel, M!EditStore
  <2>3. models' \in [Tables -> M!File] /\ stores' \in [Tables -> M!File]
    BY <2>1 DEF ModelInv, M!TypeOK, M!File
  <2>4. M!TypeOK'
    BY <2>1, <2>2, <2>3 DEF ModelInv, M!TypeOK
  <2>5. Backed \subseteq Backed'
    BY <2>1 DEF Backed, ModelInv, M!TypeOK, M!File
  <2>6. (\A k \in 1..Len(main) : main[k] \in Tables) /\ \A k \in 1..Len(parsed) : parsed[k] \in Tables
    BY DEF ModelInv, M!TypeOK
  <2>7. doubt' \/ \A k \in 1..Len(main') : main'[k] \in Backed'
    BY <2>1, <2>2, <2>5, <2>6 DEF ModelInv
  <2>8. faulty' \/ \A k \in 1..Len(parsed') : parsed'[k] \in Backed' \/ \E j \in 1..Len(todo') : todo'[j].name = parsed'[k]
    BY <2>1, <2>2, <2>5, <2>6 DEF ModelInv
  <2> QED
    BY <2>1, <2>4, <2>7, <2>8 DEF ModelInv, Backed
<1> QED
  BY <1>1, <1>2, <1>3

\* The struct a store refers to is the one its table's model declares, when
\* no word of the name begins with an abbreviation.
LEMMA SameStruct ==
  ASSUME NEW t \in Tables, \A k \in DOMAIN t.words : ~(t.words[k].abbr # "")
  PROVE  M!generateModelCode(t) = M!generateStoreCode(t)
<1> DEFINE u == M!toSingular(t)
           P == [k \in DOMAIN t.words |-> [word |-> t.words[k], capitals |-> t.words[k].abbr # ""]]
           C == [k \in DOMAIN t.words |-> [word |-> t.words[k], capitals |-> FALSE]]
<1>1. u.words = t.words
  <2>1. t \in [words : Seq(M!Words), ending : STRING]
    BY CodeGenAssumption
  <2>2. \A e : [t EXCEPT !.ending = e].words = t.words
    BY <2>1
  <2> QED
    BY <2>2, Zenon DEF M!toSingular
<1>2. P = C
  <2>1. \A k \in DOMAIN t.words : (t.words[k].abbr # "") = FALSE
    OBVIOUS
  <2> QED
    BY <2>1, Zenon
<1>3. M!toPascalCaseModel(u) = [words |-> P, ending |-> u.ending]
  BY <1>1, Zenon DEF M!toPascalCaseModel
<1>4. M!toCamel(t) = [words |-> C, ending |-> u.ending]
  BY Zenon DEF M!toCamel
<1> QED
  BY <1>2, <1>3, <1>4, Zenon DEF M!generateModelCode, M!generateStoreCode

LEMMA WiredIsBacked == ModelInv => M!MainIsBacked
<1> SUFFICES ASSUME ModelInv, ~doubt, NEW t \in M!ToSet(main)
             PROVE  /\ stores[t] # "none"
                    /\ \/ \E u \in Tables : models[u] # "none" /\ M!generateModelCode(u) = M!generateStoreCode(t)
                       \/ \E k \in DOMAIN t.words : t.words[k].abbr # ""
  BY Zenon DEF M!MainIsBacked
<1>1. t \in Tables /\ models[t] # "none" /\ stores[t] # "none"
  <2>1. main \in Seq(Tables) /\ \A k \in 1..Len(main) : main[k] \in Backed
    BY DEF ModelInv, M!TypeOK
  <2>2. t \in Backed
    BY <2>1 DEF M!ToSet
  <2> QED
    BY <2>2 DEF Backed
<1> QED
  BY <1>1, SameStruct, Zenon

----------------------------------------------------------------------------
(* The commands together *)

ScaffoldCmds == {"idle", "walk", "interface", "handler"}
ProtoCmds    == {"idle", "third party", "protoc", "wrap", "clean"}
ModelCmds    == {"idle", "model", "store"}

\* CodeGen's inductive invariant: one command runs at a time, and each keeps
\* the invariant of its files.
CodeGenInv ==
  /\ task \in Tasks /\ cmd \in ScaffoldCmds \cup ProtoCmds \cup ModelCmds /\ lost \in BOOLEAN
  /\ ScaffoldInv /\ ProtoInv /\ ModelInv

ScaffoldAction ==
  \/ S!CallNew \/ S!AfterWalk \/ S!WriteInterface \/ S!WriteHandler
  \/ S!CallImplement \/ S!EditProto \/ \E m \in Rpc : S!EditHandler(m)

ProtoAction ==
  \/ \E o \in Options : G!CallGen(o)
  \/ G!genAndRunThirdParty \/ G!Protoc \/ G!processSwaggerFile
  \/ G!CallClean \/ G!RemoveSwagger \/ G!Interrupt

ModelAction ==
  \/ \E s \in Schemas : M!CallModel(s)
  \/ M!WriteMain \/ M!Interrupt
  \/ \E r \in M!WriteResults : M!WriteModel(r) \/ M!WriteStore(r)
  \/ \E t \in Tables : M!EditModel(t) \/ M!EditStore(t)
  \/ \E l \in M!Lines : M!AppendLine(l)

\* A step runs one command, or the developer edits files between two, or
\* "new" writes a file of the template or ends early.
LEMMA NextCases ==
  Next => \/ ScaffoldAction /\ UNCHANGED <<task, protoVars, modelVars>>
          \/ ProtoAction /\ UNCHANGED <<task, scaffoldVars, modelVars>>
          \/ ModelAction /\ UNCHANGED <<task, scaffoldVars, protoVars>>
          \/ (\E f : WalkTemplates(f)) \/ InterruptNew
<1> SUFFICES ASSUME Next
             PROVE  \/ ScaffoldAction /\ UNCHANGED <<task, protoVars, modelVars>>
                    \/ ProtoAction /\ UNCHANGED <<task, scaffoldVars, modelVars>>
                    \/ ModelAction /\ UNCHANGED <<task, scaffoldVars, protoVars>>
                    \/ (\E f : WalkTemplates(f)) \/ InterruptNew
  OBVIOUS
<1>1. CASE New
  BY <1>1, Zenon DEF New, OnScaffold, ScaffoldAction
<1>2. CASE Implement
  BY <1>2, Zenon DEF Implement, OnScaffold, ScaffoldAction
<1>3. CASE Gen
  BY <1>3, Zenon DEF Gen, OnProto, ProtoAction
<1>4. CASE Model
  BY <1>4, Zenon DEF Model, OnModel, ModelAction
<1>5. CASE Parse
  BY <1>5, Zenon DEF Parse, OnModel, ModelAction
<1> QED
  BY <1>1, <1>2, <1>3, <1>4, <1>5, Zenon DEF Next

LEMMA ScaffoldActionInv ==
  ASSUME CodeGenInv, ScaffoldAction, UNCHANGED <<task, protoVars, modelVars>>
  PROVE  CodeGenInv'
<1>1. cmd \in ScaffoldCmds /\ cmd' \in ScaffoldCmds
  BY DEF ScaffoldAction, ScaffoldCmds, S!CallNew, S!AfterWalk, S!WriteInterface, S!WriteHandler,
         S!CallImplement, S!CallGenerate, S!EditProto, S!EditHandler
<1>2. lost' \in BOOLEAN
  BY Zenon DEF CodeGenInv, ScaffoldAction, S!CallNew, S!AfterWalk, S!WriteInterface, S!WriteHandler,
               S!CallImplement, S!EditProto, S!EditHandler
<1>3. ScaffoldInv'
  BY ScaffoldStep, WriteHandlerStep, EditHandlerStep DEF CodeGenInv, ScaffoldAction
<1>4. ProtoInv'
  BY <1>1, ProtoFrame DEF CodeGenInv, ScaffoldCmds
<1>5. ModelInv'
  BY <1>1, ModelFrame DEF CodeGenInv, ScaffoldCmds
<1> QED
  BY <1>1, <1>2, <1>3, <1>4, <1>5 DEF CodeGenInv

LEMMA ProtoActionInv ==
  ASSUME CodeGenInv, ProtoAction, UNCHANGED <<task, scaffoldVars, modelVars>>
  PROVE  CodeGenInv'
<1>1. cmd \in ProtoCmds /\ cmd' \in ProtoCmds
  BY DEF ProtoAction, ProtoCmds, G!CallGen, G!genAndRunThirdParty, G!Protoc, G!processSwaggerFile, G!CallClean,
         G!RemoveSwagger, G!Interrupt
<1>2. lost' \in BOOLEAN
  BY Zenon DEF CodeGenInv, scaffoldVars
<1>3. ProtoInv'
  BY GenStep, ProtocStep, WrapStep, ProtoInterruptStep DEF CodeGenInv, ProtoAction
<1>4. ScaffoldInv'
  BY <1>1, ScaffoldFrame DEF CodeGenInv, ProtoCmds
<1>5. ModelInv'
  BY <1>1, ModelFrame DEF CodeGenInv, ProtoCmds
<1> QED
  BY <1>1, <1>2, <1>3, <1>4, <1>5 DEF CodeGenInv

LEMMA ModelActionInv ==
  ASSUME CodeGenInv, ModelAction, UNCHANGED <<task, scaffoldVars, protoVars>>
  PROVE  CodeGenInv'
<1>1. cmd \in ModelCmds /\ cmd' \in ModelCmds
  BY DEF ModelAction, ModelCmds, M!CallModel, M!WriteMain, M!Interrupt, M!WriteModel, M!WriteStore, M!EditModel,
         M!EditStore, M!AppendLine
<1>2. lost' \in BOOLEAN
  BY Zenon DEF CodeGenInv, scaffoldVars
<1>3. ModelInv'
  BY CallModelStep, WriteMainStep, WriteModelStep, WriteStoreStep, ModelEditStep DEF CodeGenInv, ModelAction
<1>4. ScaffoldInv'
  BY <1>1, ScaffoldFrame DEF CodeGenInv, ModelCmds
<1>5. ProtoInv'
  BY <1>1, ProtoFrame DEF CodeGenInv, ModelCmds
<1> QED
  BY <1>1, <1>2, <1>3, <1>4, <1>5 DEF CodeGenInv

LEMMA WalkInv ==
  ASSUME CodeGenInv, NEW f, WalkTemplates(f)
  PROVE  CodeGenInv'
<1>1. cmd = "walk" /\ cmd' = "walk" /\ task' = task
  BY DEF WalkTemplates, S!WriteTemplate
<1>2. lost' \in BOOLEAN
  BY Zenon DEF CodeGenInv, WalkTemplates, S!WriteTemplate
<1>3. ScaffoldInv'
  BY ScaffoldStep DEF CodeGenInv, WalkTemplates
<1>4. ProtoInv'
  BY <1>1, ProtoFrame, TemplateDocsStep DEF CodeGenInv, WalkTemplates
<1>5. ModelInv'
  BY <1>1, ModelFrame, TemplateMainStep DEF CodeGenInv, WalkTemplates
<1> QED
  BY <1>1, <1>2, <1>3, <1>4, <1>5 DEF CodeGenInv

LEMMA InterruptInv ==
  ASSUME CodeGenInv, InterruptNew
  PROVE  CodeGenInv'
<1>1. cmd \in {"walk", "interface", "handler"} /\ cmd' = "idle" /\ task' = task
  BY DEF InterruptNew, S!Interrupt
<1>2. lost' \in BOOLEAN
  BY Zenon DEF CodeGenInv, InterruptNew, S!Interrupt
<1>3. ScaffoldInv'
  BY InterruptStep DEF CodeGenInv, InterruptNew
<1>4. ProtoInv'
  BY <1>1, ProtoFrame, TemplateDocsStep DEF CodeGenInv, InterruptNew, S!Writing
<1>5. ModelInv'
  BY <1>1, ModelFrame, TemplateMainStep DEF CodeGenInv, InterruptNew
<1> QED
  BY <1>1, <1>2, <1>3, <1>4, <1>5 DEF CodeGenInv, ScaffoldCmds

\* Every command and every edit keeps CodeGen's invariant.
THEOREM CodeGenInvariance == Spec => []CodeGenInv
<1>1. Init => CodeGenInv
  <2> SUFFICES ASSUME Init PROVE CodeGenInv
    OBVIOUS
  <2>1. task \in Tasks /\ cmd \in ScaffoldCmds
    BY DEF Init, S!Init, ScaffoldCmds
  <2>2. lost \in BOOLEAN
    BY Zenon DEF Init, S!Init
  <2> QED
    BY <2>1, <2>2, ScaffoldInit, ProtoInit, ModelInit DEF CodeGenInv
<1>2. ASSUME CodeGenInv, [Next]_vars
      PROVE  CodeGenInv'
  <2>1. CASE Next
    BY <1>2, <2>1, NextCases, ScaffoldActionInv, ProtoActionInv, ModelActionInv, WalkInv, InterruptInv
  <2>2. CASE UNCHANGED vars
    <3>1. UNCHANGED <<task, cmd, scaffoldVars, protoVars, modelVars>> /\ cmd' = cmd /\ task' = task
      BY <2>2 DEF vars
    <3>2. lost' \in BOOLEAN
      BY <1>2, <3>1, Zenon DEF CodeGenInv, scaffoldVars
    <3> QED
      BY <1>2, <3>1, <3>2, ScaffoldFrame, ProtoFrame, ModelFrame DEF CodeGenInv
  <2> QED
    BY <1>2, <2>1, <2>2
<1> QED
  BY <1>1, <1>2, PTL DEF Spec

\* The files and the commands keep their types.
THEOREM TypeCorrect == Spec => []TypeOK
<1>1. CodeGenInv => TypeOK
  <2> SUFFICES ASSUME CodeGenInv PROVE TypeOK
    OBVIOUS
  <2>1. S!TypeOK
    <3>1. lost \in BOOLEAN
      BY Zenon DEF CodeGenInv
    <3> QED
      BY <3>1 DEF CodeGenInv, ScaffoldInv, S!TypeOK
  <2>2. G!TypeOK
    <3>1. files \in Seq(G!SwaggerFiles)
      <4>1. Wrappable \/ files = <<>>
        BY DEF CodeGenInv, ProtoInv
      <4>2. <<>> \in Seq(G!SwaggerFiles)
        OBVIOUS
      <4> QED
        BY <4>1, <4>2, Zenon DEF Wrappable
    <3> QED
      BY <3>1 DEF CodeGenInv, ProtoInv, G!TypeOK
  <2>3. cmd \in Commands
    BY DEF CodeGenInv, ScaffoldCmds, ProtoCmds, ModelCmds, Commands
  <2> QED
    BY <2>1, <2>2, <2>3 DEF CodeGenInv, ModelInv, TypeOK
<1> QED
  BY <1>1, CodeGenInvariance, PTL

\* new and implement leave a handler for every RPC they were run for, after
\* any commands, interruptions and edits, for any RPCs.
THEOREM HandlersCorrect == Spec => []HandlersComplete
<1>1. CodeGenInv => HandlersComplete
  BY DEF CodeGenInv, ScaffoldInv, HandlersComplete, S!HandlersComplete
<1> QED
  BY <1>1, CodeGenInvariance, PTL

\* gen never wraps the merged swagger document a second time, whatever was
\* generated, cleaned or cut off before, with any flags.
THEOREM WrapCorrect == Spec => []DocWrappedOnce
<1>1. CodeGenInv => DocWrappedOnce
  BY DEF CodeGenInv, ProtoInv, DocWrappedOnce, G!DocWrappedOnce
<1> QED
  BY <1>1, CodeGenInvariance, PTL

\* parseSQLToModels finds exactly the complete statements of a SQL file, in
\* order and each with its columns, for files of any length over any tables
\* and columns.
THEOREM ParseCorrect == Spec => []ParseMatchesReference
<1>1. CodeGenInv => ParseMatchesReference
  BY ParserCorrect DEF CodeGenInv, ModelInv, M!TypeOK, ParseMatchesReference
<1> QED
  BY <1>1, CodeGenInvariance, PTL

\* The stores/main.go that model writes wires stores and models that exist,
\* for any SQL files, also after commands in which writes failed.
THEOREM MainCorrect == Spec => []MainIsBacked
<1>1. CodeGenInv => MainIsBacked
  BY WiredIsBacked DEF CodeGenInv, MainIsBacked
<1> QED
  BY <1>1, CodeGenInvariance, PTL

\* No command removes or overwrites what the developer wrote by hand.
THEOREM EditsCorrect == Spec => EditsSurvive
<1> DEFINE Kept == \A t \in Tables : /\ models[t] = "edited" => models'[t] = "edited"
                                     /\ stores[t] = "edited" => stores'[t] = "edited"
<1>1. CodeGenInv => S!HandwrittenKept
  BY DEF CodeGenInv, ScaffoldInv, S!HandwrittenKept
<1>2. ASSUME CodeGenInv, [Next]_vars
      PROVE  Kept
  <2>1. models \in [Tables -> M!File] /\ stores \in [Tables -> M!File]
    BY <1>2 DEF CodeGenInv, ModelInv, M!TypeOK
  <2>2. CASE models' = models /\ stores' = stores
    BY <2>2
  <2>3. CASE \E r \in M!WriteResults : M!WriteModel(r) \/ M!WriteStore(r)
    BY <2>1, <2>3 DEF M!WriteModel, M!WriteStore, M!Written
  <2>4. CASE \E t \in Tables : M!EditModel(t) \/ M!EditStore(t)
    BY <2>1, <2>4 DEF M!EditModel, M!EditStore
  <2>5. CASE ModelAction
    BY <2>2, <2>3, <2>4, <2>5 DEF ModelAction, M!CallModel, M!WriteMain, M!Interrupt, M!AppendLine
  <2>6. CASE UNCHANGED modelVars
    BY <2>2, <2>6 DEF modelVars
  <2>7. ASSUME NEW f, WalkTemplates(f) PROVE models' = models /\ stores' = stores
    BY <2>7 DEF WalkTemplates, M!TemplateMain, modelVars
  <2>8. CASE InterruptNew
    BY <2>2, <2>8 DEF InterruptNew, M!TemplateMain, modelVars
  <2> QED
    BY <1>2, <2>2, <2>5, <2>6, <2>7, <2>8, NextCases DEF vars
<1>3. CodeGenInv /\ [Next]_vars => [Kept]_vars
  BY <1>2
<1> HIDE DEF Kept
<1>4. Spec => []S!HandwrittenKept /\ [][Kept]_vars
  BY <1>1, <1>3, CodeGenInvariance, PTL DEF Spec
<1> QED
  BY <1>4 DEF EditsSurvive, Kept
=============================================================================
