------------------------------ MODULE AcLayout ------------------------------
(***************************************************************************)
(* How the lexer turns lines into tokens (lexer.cpp): the words of a line  *)
(* are taken over, and the widths of the lines become INDENT and DEDENT    *)
(* tokens with a stack of widths, as Lexer::tokenize does it at every line *)
(* feed.  A line is measured unless it is empty; one that holds only a     *)
(* comment or a carriage return has no words and is measured all the same. *)
(* A word stands for the token that Lexer::tokenize makes of it.           *)
(***************************************************************************)
EXTENDS Naturals, Sequences, FiniteSets

CONSTANTS Sources,  \* the files: sequences of lines
          Words     \* the tokens that come from the text of a line

Line == [w : Nat, kind : {"blank", "silent", "code"}, words : Seq(Words)]

Structure == {"NEWLINE", "INDENT", "DEDENT", "EOF"}

ASSUME WordsAssumption == Words \cap Structure = {}

ASSUME SourcesAssumption == \A file \in Sources : file \in Seq(Line) \ {<<>>}

VARIABLES source,       \* the file
          read,         \* how many lines of it are tokens
          indentStack,  \* widths of the open blocks, the innermost last
          tokens,
          phase         \* "lex", "failed": IndentError, "parse"

layoutVars == <<source, read, indentStack, tokens, phase>>

Token(t, line) == [t |-> t, line |-> line]

WordsOf(n) == [i \in 1..Len(source[n].words) |-> Token(source[n].words[i], n)]

\* A plausible fault: a line closes one block at most.
Bug_Dedents(k, n) == IF k = 0 THEN <<>> ELSE <<Token("DEDENT", n)>>

Dedents(k, n) == [i \in 1..k |-> Token("DEDENT", n)]

NewLine == Token("NEWLINE", read)

LayoutInit ==
  /\ source \in Sources
  /\ read = 0
  /\ indentStack = <<0>>
  /\ tokens = <<>>
  /\ phase = "lex"

\* No line feed comes before the first line: its width is not measured.
FirstLine ==
  /\ phase = "lex" /\ read = 0
  /\ read' = 1
  /\ tokens' = WordsOf(1)
  /\ UNCHANGED <<source, indentStack, phase>>

More(kinds) ==
  /\ phase = "lex" /\ read \in 1..(Len(source) - 1)
  /\ source[read + 1].kind \in kinds
  /\ read' = read + 1

Width == source[read + 1].w

Top == indentStack[Len(indentStack)]

BlankLine ==
  /\ More({"blank"})
  /\ tokens' = Append(tokens, NewLine)
  /\ UNCHANGED <<source, indentStack, phase>>

Deeper ==
  /\ More({"silent", "code"})
  /\ Width > Top
  /\ indentStack' = Append(indentStack, Width)
  /\ tokens' = tokens \o <<NewLine, Token("INDENT", read + 1)>>
                      \o WordsOf(read + 1)
  /\ UNCHANGED <<source, phase>>

\* The widths above that of the line are popped, one DEDENT each.  What is
\* left on top has to be the line's width.
Reached(k) ==
  /\ k \in 1..Len(indentStack)
  /\ indentStack[k] <= Width
  /\ \A i \in (k + 1)..Len(indentStack) : indentStack[i] > Width

\* A plausible fault: a line need not come back to the width of a block.
Bug_LevelOrShallower ==
  /\ More({"silent", "code"})
  /\ \E k \in 1..Len(indentStack) :
        /\ Reached(k)
        /\ Width <= Top
        /\ indentStack' = SubSeq(indentStack, 1, k)
        /\ tokens' = tokens \o <<NewLine>>
                       \o Dedents(Len(indentStack) - k, read + 1)
                       \o WordsOf(read + 1)
  /\ UNCHANGED <<source, phase>>

LevelOrShallower ==
  /\ More({"silent", "code"})
  /\ \E k \in 1..Len(indentStack) :
        /\ Reached(k)
        /\ indentStack[k] = Width
        /\ indentStack' = SubSeq(indentStack, 1, k)
        /\ tokens' = tokens \o <<NewLine>>
                       \o Dedents(Len(indentStack) - k, read + 1)
                       \o WordsOf(read + 1)
  /\ UNCHANGED <<source, phase>>

IndentError ==
  /\ More({"silent", "code"})
  /\ Width < Top
  /\ \A k \in 1..Len(indentStack) : Reached(k) => indentStack[k] # Width
  /\ phase' = "failed"
  /\ UNCHANGED <<source, indentStack, tokens>>

\* With a line feed at the end of the file or without: an unfinished last
\* line that is blank would be measured, so it is not one of these.
EndOfFile ==
  /\ phase = "lex" /\ read = Len(source)
  /\ \E feed \in BOOLEAN :
        /\ source[read].kind = "blank" => feed
        /\ LET line == IF feed THEN read + 1 ELSE read
           IN  tokens' = tokens \o (IF feed THEN <<NewLine>> ELSE <<>>)
                                \o Dedents(Len(indentStack) - 1, line)
                                \o <<Token("EOF", line)>>
  /\ indentStack' = <<0>>
  /\ phase' = "parse"
  /\ UNCHANGED <<source, read>>

LayoutNext ==
  \/ FirstLine
  \/ BlankLine
  \/ Deeper
  \/ LevelOrShallower
  \/ IndentError
  \/ EndOfFile

LayoutSpec == LayoutInit /\ [][LayoutNext]_layoutVars

\* Tokens t among the first k.
Count(t, k) == Cardinality({i \in 1..k : tokens[i].t = t})

\* Where the parser looks for the end of a block it finds one: no prefix of
\* the tokens closes more blocks than it opens, and a finished file closes
\* all of them, however its last line ends.
Balanced ==
  /\ \A k \in 0..Len(tokens) : Count("DEDENT", k) <= Count("INDENT", k)
  /\ phase = "parse" =>
       Count("DEDENT", Len(tokens)) = Count("INDENT", Len(tokens))
=============================================================================
