----------------------------- MODULE MCCodeGen -----------------------------
(***************************************************************************)
(* A service with one RPC more than the template's, the flags of gen one   *)
(* at a time, two tables, one with a word that begins with an abbreviation,*)
(* and the SQL files that declare one or two of them.                      *)
(***************************************************************************)
EXTENDS CodeGen

Flagged(lang, dir, gw, sw, wrap) ==
  [lang |-> lang, dir |-> dir, gw |-> gw, swagger |-> sw, wrap |-> wrap]

\* The default, each flag on its own, and both languages.
MCOptions ==
  {Flagged("go", "pb", TRUE, TRUE, TRUE), Flagged("go", "pb", FALSE, TRUE, TRUE),
   Flagged("go", "pb", TRUE, FALSE, TRUE), Flagged("go", "pb", TRUE, TRUE, FALSE),
   Flagged("go", "other", TRUE, TRUE, TRUE), Flagged("php", "pb", TRUE, TRUE, TRUE),
   Flagged("GO", "pb", TRUE, TRUE, TRUE)}

\* categories and user_identities.
Word(abbr, rest) == [abbr |-> abbr, rest |-> rest]
MCTables ==
  {[words |-> <<Word("", "categor")>>, ending |-> "ies"],
   [words |-> <<Word("", "user"), Word("id", "entit")>>, ending |-> "ies"]}

\* A column, and a constraint that the column pattern takes for one.
MCColumns == {[name |-> "id", type |-> "bigint"], [name |-> "primary", type |-> "key"]}

\* SQL files with the given tables.
Create(t) ==
  <<[kind |-> "create", name |-> t], [kind |-> "column", column |-> CHOOSE c \in MCColumns : TRUE], [kind |-> "close"]>>
MCSchemas == {Create(t) : t \in MCTables} \cup {Create(p[1]) \o Create(p[2]) : p \in MCTables \X MCTables}
=============================================================================
