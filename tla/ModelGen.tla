------------------------------ MODULE ModelGen ------------------------------
(***************************************************************************)
(* The command "model" (src/internal/command/model.go): it parses a SQL    *)
(* file line by line and writes one model and one store per table, unless  *)
(* the file exists, and stores/main.go, whatever it holds.  A file is what *)
(* is known of it; the text of a line is what the parser tells apart.      *)
(***************************************************************************)
EXTENDS Integers, SequencesExt

CONSTANTS
  Tables,    \* the names CREATE TABLE may give, as [words, ending], a word as [abbr, rest]
  NoName,    \* what a CREATE TABLE without a plain name gives
  Columns    \* column lines, as [name, type]

VARIABLES
  cmd,      \* the step the running command is at, shared with the others
  sql,      \* the lines of the SQL file that is being written
  todo,     \* the parsed tables whose files are not written yet
  parsed,   \* the names of the tables of the running command
  models,   \* internal/models/<table>.go
  stores,   \* internal/stores/<table>_store.go
  main,     \* the stores that internal/stores/main.go wires
  faulty,   \* a write of the running command failed, which it ignores
  doubt     \* main.go was written by a command with such a failure

vars == <<cmd, sql, todo, parsed, models, stores, main, faulty, doubt>>

File == {"none", "torn", "full", "edited"}

Init ==
  /\ sql = <<>> /\ todo = <<>> /\ parsed = <<>> /\ main = <<>>
  /\ models = [t \in Tables |-> "none"] /\ stores = [t \in Tables |-> "none"]
  /\ faulty = FALSE /\ doubt = FALSE

----------------------------------------------------------------------------
(* parseSQLToModels *)

\* Blank lines, comments, indexes and lines the patterns do not match are
\* "noise".  A column pattern also matches PRIMARY KEY and the like.
Lines ==
  [kind : {"create"}, name : Tables \cup {NoName}] \cup
  [kind : {"column"}, column : Columns] \cup [kind : {"close", "noise"}]

\* The pattern takes the first word of the type, so that an unsigned bigint
\* is never seen.
sqlTypeToGo(type) ==
  CASE type \in {"bigint", "int"} -> "int64"
    [] type \in {"datetime", "timestamp"} -> "time.Time"
    [] type = "bool" -> "bool"
    [] type = "json" -> "datatypes.JSON"
    [] OTHER -> "string"

FieldOf(line) == [name |-> line.column.name, type |-> sqlTypeToGo(line.column.type)]

Fields == {FieldOf(line) : line \in [kind : {"column"}, column : Columns]}

TypeOK ==
  /\ sql \in Seq(Lines)
  /\ todo \in Seq([name : Tables, fields : Seq(Fields)])
  /\ parsed \in Seq(Tables) /\ main \in Seq(Tables)
  /\ models \in [Tables -> File] /\ stores \in [Tables -> File]
  /\ faulty \in BOOLEAN /\ doubt \in BOOLEAN

\* The tables once the current one is complete: without a name or a field it
\* is dropped.
Pushed(s) ==
  IF s.name # NoName /\ s.fields # <<>>
    THEN Append(s.tables, [name |-> s.name, fields |-> s.fields])
    ELSE s.tables

\* Mutant: a CREATE TABLE does not look whether one is open.
ParseLineAlways(s, line) ==
  CASE line.kind = "create" ->
         [tables |-> Pushed(s), in |-> TRUE, name |-> line.name, fields |-> <<>>]
    [] line.kind = "close" /\ s.in -> [s EXCEPT !.tables = Pushed(s), !.in = FALSE]
    [] line.kind = "column" /\ s.in -> [s EXCEPT !.fields = Append(@, FieldOf(line))]
    [] OTHER -> s

\* current stays as it is when its statement is closed; only inCreate changes.
ParseLine(s, line) ==
  CASE line.kind = "create" ->
         [tables |-> IF s.in THEN Pushed(s) ELSE s.tables,
          in |-> TRUE, name |-> line.name, fields |-> <<>>]
    [] line.kind = "close" /\ s.in -> [s EXCEPT !.tables = Pushed(s), !.in = FALSE]
    [] line.kind = "column" /\ s.in -> [s EXCEPT !.fields = Append(@, FieldOf(line))]
    [] OTHER -> s

NothingParsed == [tables |-> <<>>, in |-> FALSE, name |-> NoName, fields |-> <<>>]

\* The parser after each line of the file, and what it returns.
ParseStates(lines) ==
  LET state[n \in 0..Len(lines)] ==
        IF n = 0 THEN NothingParsed ELSE ParseLine(state[n - 1], lines[n])
  IN  state

parseSQLToModels(lines) == ParseStates(lines)[Len(lines)].tables

----------------------------------------------------------------------------
(* The names in the generated code.  A table's name is its words and the   *)
(* ending of the last one; a word is the abbreviation it begins with and   *)
(* the rest.  A Go name has the words in title case; the replacer puts     *)
(* every Id, Url, Uri and Json in it in capitals, and as title case has    *)
(* capitals only where a word begins, it meets those that words begin with.*)

toSingular(t) ==
  [t EXCEPT !.ending = CASE @ = "ies" -> "y" [] @ \in {"es", "s"} -> "" [] OTHER -> @]

Words == [abbr : {"", "id", "url", "uri", "json"}, rest : STRING]

toPascalCaseModel(t) ==
  [words |-> [k \in DOMAIN t.words |-> [word |-> t.words[k], capitals |-> t.words[k].abbr # ""]],
   ending |-> t.ending]

toCamel(t) ==
  [words |-> [k \in DOMAIN t.words |-> [word |-> t.words[k], capitals |-> FALSE]],
   ending |-> toSingular(t).ending]

\* The struct a model file declares, and the one its store file refers to.
generateModelCode(t) == toPascalCaseModel(toSingular(t))
generateStoreCode(t) == toCamel(t)

generateMainCode(tables) == [k \in DOMAIN tables |-> tables[k].name]

----------------------------------------------------------------------------
(* generateModelAndStoreFromSQL *)

CallModel(lines) ==
  /\ cmd = "idle"
  /\ cmd' = "model"
  /\ todo' = parseSQLToModels(lines)
  /\ parsed' = generateMainCode(todo')
  /\ UNCHANGED <<sql, models, stores, main, faulty, doubt>>

\* Mutants: the file is written whether or not it exists; the store is
\* skipped when its model exists.
WrittenAnew(file, guard, r) == r
WrittenUnlessModel(file, guard, r) == IF guard = "none" THEN r ELSE file

\* A file that exists is kept; the result r of writing another is ignored.
Written(file, guard, r) == IF file = "none" THEN r ELSE file

WriteResults == {"none", "torn", "full"}

WriteModel(r) ==
  /\ cmd = "model" /\ todo # <<>>
  /\ models' = [models EXCEPT ![Head(todo).name] = Written(@, @, r)]
  /\ faulty' = (faulty \/ (models[Head(todo).name] = "none" /\ r # "full"))
  /\ cmd' = "store"
  /\ UNCHANGED <<sql, todo, parsed, stores, main, doubt>>

WriteStore(r) ==
  /\ cmd = "store"
  /\ stores' = [stores EXCEPT ![Head(todo).name] = Written(@, models[Head(todo).name], r)]
  /\ faulty' = (faulty \/ (stores[Head(todo).name] = "none" /\ r # "full"))
  /\ todo' = Tail(todo)
  /\ cmd' = "model"
  /\ UNCHANGED <<sql, parsed, models, main, doubt>>

\* main.go is overwritten with the stores of this file's tables only, or the
\* write fails and leaves the file as it was or empty.
WriteMain ==
  /\ cmd = "model" /\ todo = <<>>
  /\ \/ main' = parsed /\ doubt' = faulty
     \/ main' = main /\ doubt' = doubt
     \/ main' = <<>> /\ doubt' = FALSE
  /\ cmd' = "idle" /\ parsed' = <<>> /\ faulty' = FALSE
  /\ UNCHANGED <<sql, todo, models, stores>>

\* "new" writes the template's main.go, which wires no store.
TemplateMain ==
  /\ main' = <<>> /\ doubt' = FALSE
  /\ UNCHANGED <<sql, todo, parsed, models, stores, faulty>>

\* The process is killed between two files.
Interrupt ==
  /\ cmd \in {"model", "store"}
  /\ cmd' = "idle" /\ todo' = <<>> /\ parsed' = <<>> /\ faulty' = FALSE
  /\ UNCHANGED <<sql, models, stores, main, doubt>>

----------------------------------------------------------------------------
(* The developer, between two commands *)

AppendLine(line) ==
  /\ cmd = "idle"
  /\ sql' = Append(sql, line)
  /\ UNCHANGED <<cmd, todo, parsed, models, stores, main, faulty, doubt>>

EditModel(t) ==
  /\ cmd = "idle" /\ models[t] # "none"
  /\ models' = [models EXCEPT ![t] = "edited"]
  /\ UNCHANGED <<cmd, sql, todo, parsed, stores, main, faulty, doubt>>

EditStore(t) ==
  /\ cmd = "idle" /\ stores[t] # "none"
  /\ stores' = [stores EXCEPT ![t] = "edited"]
  /\ UNCHANGED <<cmd, sql, todo, parsed, models, main, faulty, doubt>>

----------------------------------------------------------------------------
(* Properties *)

\* Of the first n lines: those that end the statement that begins at line p,
\* and those that give it a column.
Ends(p, n) == {q \in (p + 1)..n : sql[q].kind \in {"create", "close"}}
ColumnsOf(p, n) == {q \in (p + 1)..n : sql[q].kind = "column" /\ Ends(p, q) = {}}

\* The statements that are named, ended and have a column.
Completes(n) ==
  {p \in 1..n : /\ sql[p].kind = "create" /\ sql[p].name # NoName
                /\ Ends(p, n) # {} /\ ColumnsOf(p, n) # {}}

\* The sequence f lists the set of line numbers S, from first to last.
Lists(f, S) ==
  /\ \A i, j \in DOMAIN f : i < j => f[i] < f[j]
  /\ \A q \in S : \E i \in DOMAIN f : f[i] = q

HasColumns(fields, S) ==
  \E cs \in [DOMAIN fields -> S] :
    Lists(cs, S) /\ \A i \in DOMAIN fields : fields[i] = FieldOf(sql[cs[i]])

HasStatements(tables, n) ==
  \E ps \in [DOMAIN tables -> Completes(n)] :
    /\ Lists(ps, Completes(n))
    /\ \A i \in DOMAIN tables : /\ tables[i].name = sql[ps[i]].name
                                /\ HasColumns(tables[i].fields, ColumnsOf(ps[i], n))

\* The line-by-line parser finds exactly the named statements that are ended
\* and have a column, once each, in order and with their columns: nothing of
\* a statement leaks into the next one.
ParseMatchesReference == HasStatements(parseSQLToModels(sql), Len(sql))

\* stores/main.go wires only stores whose file is there and whose model is
\* declared by a file, over any sequence of schemas, edits, interrupted runs
\* and runs with failed writes: only the main.go of a run that itself ignored
\* a failure may name what is missing, and the next run repairs it.  Names in
\* which a word begins with an abbreviation are excepted: only the model has
\* it in capitals.
MainIsBacked ==
  doubt \/ \A t \in ToSet(main) :
    /\ stores[t] # "none"
    /\ \/ \E u \in Tables : models[u] # "none" /\ generateModelCode(u) = generateStoreCode(t)
       \/ \E k \in DOMAIN t.words : t.words[k].abbr # ""
=============================================================================
