------------------------------ MODULE Scaffold ------------------------------
(***************************************************************************)
(* The commands "new" and "implement" of the code generator                *)
(* (src/internal/command/new.go, implement.go, utils.go) on the files of   *)
(* one service.  "new" writes every template file in lexical order, then   *)
(* both generate the interface and the handler file from the protos.  A    *)
(* command is a sequence of steps; it may be killed, or a write may fail,  *)
(* at any of them, and os.WriteFile truncates before it writes.            *)
(***************************************************************************)
EXTENDS Integers, SequencesExt

CONSTANTS
  Rpc,          \* the RPCs the protos may declare
  Health,       \* the one that is never generated
  TemplateRpc,  \* those of the template's service.proto
  MaxCopies     \* bound: how often one handler method is appended

VARIABLES
  cmd,      \* the step the running command is at, "idle" if none runs
  todo,     \* the template files "new" has not written yet
  name,     \* the service's name, as pieces of its text
  proto,    \* the RPCs in proto/*.proto
  iface,    \* the methods of <name>_interface.go
  handler,  \* how many times <name>_handler.go declares each method
  gomod,    \* the module path in go.mod
  imports,  \* the path under which the sources import it
  own,      \* the methods whose body the developer wrote
  asked,    \* the RPCs the last completed generation was for
  lost      \* the handler file was cut off while it was written

vars == <<cmd, todo, name, proto, iface, handler, gomod, imports, own, asked, lost>>

\* The pieces of a service name; "service-kit" and "ServiceKit" are what the
\* template has in its place, "my_svc" has a character that is not allowed.
Names ==
  {<<"orders">>, <<"order", "-", "svc">>, <<"my", "-", "service-kit">>, <<"my", "ServiceKit">>,
   <<"-", "orders">>, <<"my_svc">>}

isValidServiceName == name[1] # "-" /\ name[Len(name)] # "-" /\ ~Contains(name, "my_svc")

Handled == {m \in Rpc : handler[m] > 0}

TypeOK ==
  /\ name \in Names
  /\ proto \subseteq Rpc /\ iface \subseteq Rpc /\ own \subseteq Rpc /\ asked \subseteq Rpc
  /\ handler \in [Rpc -> 0..MaxCopies]
  /\ lost \in BOOLEAN

Init ==
  /\ cmd = "idle" /\ todo = <<>> /\ name \in Names
  /\ proto = {} /\ iface = {} /\ handler = [m \in Rpc |-> 0]
  /\ gomod = <<>> /\ imports = <<>>
  /\ own = {} /\ asked = {} /\ lost = FALSE

----------------------------------------------------------------------------
(* new *)

\* The hyphens go; a part begins with a capital and goes on in lower case, so
\* that only "service-kit" at the beginning of a part gives "ServiceKit".
toPascalCase ==
  LET part(k) ==
        CASE name[k] = "-" -> "-"
          [] name[k] = "service-kit" /\ (k = 1 \/ name[k - 1] = "-") -> "ServiceKit"
          [] OTHER -> "Word"
  IN  SelectSeq([k \in DOMAIN name |-> part(k)], LAMBDA p : p # "-")

\* Mutant: the short name is replaced by the whole module path.
RulesPath ==
  {[old |-> <<"host", "service-kit">>, new |-> <<"host">> \o name],
   [old |-> <<"ServiceKit">>, new |-> toPascalCase],
   [old |-> <<"service-kit">>, new |-> <<"host">> \o name]}

\* The map of replacements; "host" is github.com/minhgiang16983/.
Rules ==
  {[old |-> <<"host", "service-kit">>, new |-> <<"host">> \o name],
   [old |-> <<"ServiceKit">>, new |-> toPascalCase],
   [old |-> <<"service-kit">>, new |-> name]}

\* The rules are applied in the order of a range over a map, which is any.
\* The contents below hold each placeholder at most once.
replacePlaceholders(content) ==
  {FoldLeft(LAMBDA text, r : ReplaceFirstSubSeq(r.new, r.old, text), content, order)
    : order \in SetToSeqs(Rules)}

\* The template's files that matter here, in the order of WalkDir.
TemplateFiles == <<"cmd", "docs", "go.mod", "internal/stores", "proto">>

CallNew ==
  /\ cmd = "idle"
  /\ isValidServiceName
  /\ \A m \in Rpc : handler[m] < MaxCopies
  /\ cmd' = "walk" /\ todo' = TemplateFiles
  /\ UNCHANGED <<name, proto, iface, handler, gomod, imports, own, asked, lost>>

\* One file of the walk, written over whatever is there.  What is in docs and
\* internal/stores belongs to the other commands' modules.
WriteTemplate(f) ==
  /\ cmd = "walk" /\ todo # <<>> /\ f = Head(todo)
  /\ todo' = Tail(todo)
  /\ imports' \in IF f = "cmd" THEN replacePlaceholders(<<"host", "service-kit">>) ELSE {imports}
  /\ gomod' \in IF f = "go.mod" THEN replacePlaceholders(<<"host", "service-kit">>) ELSE {gomod}
  /\ proto' = IF f = "proto" THEN TemplateRpc ELSE proto
  /\ UNCHANGED <<cmd, name, iface, handler, own, asked, lost>>

----------------------------------------------------------------------------
(* generateInterfaceAndHandler *)

\* What extractRPCsFromProto finds in all the files.
extractRPCs == proto \ {Health}

\* "no RPCs found" ends the command.
CallGenerate == extractRPCs # {} /\ cmd' = "interface"

AfterWalk ==
  /\ cmd = "walk" /\ todo = <<>>
  /\ CallGenerate
  /\ UNCHANGED <<todo, name, proto, iface, handler, gomod, imports, own, asked, lost>>

CallImplement ==
  /\ cmd = "idle"
  /\ isValidServiceName
  /\ \A m \in Rpc : handler[m] < MaxCopies
  /\ CallGenerate
  /\ UNCHANGED <<todo, name, proto, iface, handler, gomod, imports, own, asked, lost>>

\* extractExistingRPCs: what the interface file lists, nothing without one.
existingRPCs == iface

\* The interface file is replaced by one with the methods it did not have.
WriteInterface ==
  /\ cmd = "interface"
  /\ iface' = extractRPCs \ existingRPCs
  /\ cmd' = "handler"
  /\ UNCHANGED <<todo, name, proto, handler, gomod, imports, own, asked, lost>>

\* The regular expression begins with "func $", which nothing matches.
existingHandlerMethods == {}

\* Mutant: the handlers are made for the new methods of the interface.
NewHandlersOfInterface == iface

newHandlerRPCs == extractRPCs \ existingHandlerMethods

\* The handler file's text is kept and the new methods are appended.
HandlerText == [m \in Rpc |-> handler[m] + (IF m \in newHandlerRPCs THEN 1 ELSE 0)]

WriteHandler ==
  /\ cmd = "handler"
  /\ handler' = HandlerText
  /\ asked' = extractRPCs
  /\ cmd' = "idle"
  /\ UNCHANGED <<todo, name, proto, iface, gomod, imports, own, lost>>

\* The template file that is being written.
Writing(f) == cmd = "walk" /\ todo # <<>> /\ Head(todo) = f

\* The two files in proto are written one after the other, Health's first.
CutOffProtos == {proto \cup {Health}, proto \ {Health}, {Health}}

\* A write fails or the process is killed: the walk, or the generation, ends
\* here, and the file being written is as it was or empty.
Interrupt ==
  /\ cmd \in {"walk", "interface", "handler"}
  /\ imports' \in {imports} \cup (IF Writing("cmd") THEN {<<>>} ELSE {})
  /\ gomod' \in {gomod} \cup (IF Writing("go.mod") THEN {<<>>} ELSE {})
  /\ proto' \in {proto} \cup (IF Writing("proto") THEN CutOffProtos ELSE {})
  /\ iface' \in IF cmd = "interface" THEN {iface, {}} ELSE {iface}
  /\ handler' \in IF cmd = "handler" THEN {handler, [m \in Rpc |-> 0]} ELSE {handler}
  /\ lost' = (lost \/ handler' # handler)
  /\ cmd' = "idle" /\ todo' = <<>>
  /\ UNCHANGED <<name, own, asked>>

----------------------------------------------------------------------------
(* The developer, between two commands *)

HasProtos == Health \in proto

EditProto ==
  /\ cmd = "idle" /\ HasProtos
  /\ \E m \in Rpc \ {Health} : proto' = IF m \in proto THEN proto \ {m} ELSE proto \cup {m}
  /\ UNCHANGED <<cmd, todo, name, iface, handler, gomod, imports, own, asked, lost>>

\* The developer implements a method and removes its other copies.
EditHandler(m) ==
  /\ cmd = "idle"
  /\ handler[m] > 0
  /\ handler' = [handler EXCEPT ![m] = 1]
  /\ own' = own \cup {m}
  /\ UNCHANGED <<cmd, todo, name, proto, iface, gomod, imports, asked, lost>>

----------------------------------------------------------------------------
(* Properties *)

\* A generation that completes leaves a handler for every RPC of the protos,
\* also when an earlier one was killed between its two files: what is missing
\* is derived from the protos, not from what the interface already lists.
HandlersComplete == (cmd = "idle" /\ ~lost) => asked \subseteq Handled

\* No command removes a method whose body was written by hand, "new" over an
\* existing service included, unless the handler file is cut off in a write.
HandwrittenKept == lost \/ own \subseteq Handled

\* The sources import the module under the path go.mod declares, although
\* each file is processed in an order of its own, unless the service's name
\* contains one of the placeholders, which is then replaced a second time.
ImportsResolve ==
  (gomod # <<>> /\ imports # <<>> /\ ToSet(name) \cap {"service-kit", "ServiceKit"} = {}) =>
    gomod = <<"host">> \o name /\ imports = gomod
=============================================================================
