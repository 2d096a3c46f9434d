------------------------------ MODULE AcParser ------------------------------
(***************************************************************************)
(* From a file to its tree: the lexer's steps over the lines, then         *)
(* Parser::parse, one step for every statement of the outermost level.     *)
(***************************************************************************)
EXTENDS AcGrammar

VARIABLES cursor,   \* the Parser object: position, errors, open tags
          program   \* children of the Program node

vars == <<layoutVars, cursor, program>>

Init ==
  /\ LayoutInit
  /\ cursor = Cursor0
  /\ program = <<>>

Lex == LayoutNext /\ UNCHANGED <<cursor, program>>

AtEnd == At(SkipAll(cursor), {"EOF"})

\* Too many errors end the parse with the tree that there is.
Statement ==
  /\ phase = "parse" /\ ~AtEnd
  /\ \E s \in {Round(SkipAll(cursor), ParseStatement(SkipAll(cursor)))} :
       /\ cursor' = s
       /\ program' = program \o Kept(s.node)
       /\ phase' = CASE s.up = "many" -> "done"
                     [] s.up = "spins" -> "spins"
                     [] OTHER -> "parse"
  /\ UNCHANGED <<source, read, indentStack, tokens>>

Finish ==
  /\ phase = "parse" /\ AtEnd
  /\ phase' = "done"
  /\ UNCHANGED <<source, read, indentStack, tokens, cursor, program>>

Next == Lex \/ Statement \/ Finish

Spec == Init /\ [][Next]_vars
=============================================================================
