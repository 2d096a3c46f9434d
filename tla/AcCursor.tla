------------------------------- MODULE AcCursor -------------------------------
(***************************************************************************)
(* The parser's cursor: its tokens, errors and tags (class Parser).        *)
(* Every function of the class is an operator from a cursor to a cursor;   *)
(* its node is the value that the function returns.  A cursor that is not  *)
(* up = "no" is an exception on its way up, and goes through every         *)
(* operator unchanged; "spins" stands for a loop that goes round without   *)
(* taking a token or reporting an error, so that it never ends.            *)
(***************************************************************************)
EXTENDS AcLayout, SequencesExt

CONSTANT MaxErrors   \* Parser::maxErrors

ASSUME MaxErrorsAssumption == MaxErrors \in Nat \ {0}

Node(is, at, kids) == [is |-> is, at |-> at, kids |-> kids]

Nothing == Node("null", 0, <<>>)

Cursor0 == [at |-> 1, errors |-> <<>>, tags |-> <<>>, custom |-> {},
            up |-> "no", node |-> Nothing]

\* What the function returns: a node of these children, or no node.
Made(c, node) == [c EXCEPT !.node = IF c.up = "no" THEN node ELSE Nothing]

Kept(node) == IF node = Nothing THEN <<>> ELSE <<node>>

PeekAhead(c, k) ==
  IF c.at + k <= Len(tokens) THEN tokens[c.at + k] ELSE tokens[Len(tokens)]

Peek(c) == PeekAhead(c, 0).t

At(c, kinds) == Peek(c) \in kinds

Advance(c) ==
  IF c.up = "no" /\ c.at <= Len(tokens) THEN [c EXCEPT !.at = @ + 1] ELSE c

Optional(c, kinds) == IF At(c, kinds) THEN Advance(c) ELSE c

Throw(c) == IF c.up = "no" THEN [c EXCEPT !.up = "thrown"] ELSE c

ReportError(c) ==
  IF c.up # "no" THEN c
  ELSE [c EXCEPT !.errors = Append(@, PeekAhead(c, 0).line),
                 !.up = IF Len(c.errors) + 1 >= MaxErrors THEN "many" ELSE "no"]

\* while (!at(kinds) && !at(END_OF_FILE)) advance();
SkipTo(c, kinds) ==
  IF c.up # "no" \/ c.at > Len(tokens) THEN c
  ELSE [c EXCEPT !.at = SelectInSubSeq(tokens, @, Len(tokens),
                           LAMBDA token : token.t \in kinds \cup {"EOF"})]

\* while (at(kinds)) advance();
SkipWhile(c, kinds) ==
  IF c.up # "no" \/ c.at > Len(tokens) THEN c
  ELSE [c EXCEPT !.at = SelectInSubSeq(tokens, @, Len(tokens),
                           LAMBDA token : token.t \notin kinds)]

SkipNewlines(c) == SkipWhile(c, {"NEWLINE"})

SkipAll(c) == SkipWhile(c, {"NEWLINE", "INDENT", "DEDENT"})

Tags == {"<mainloop>", "<StartHere>", "<EndHere>", "<mine>", "<foo>"}

\* "+" is no token of its own but an identifier, and "value" a soft keyword.
Identifiers == {"x", "+", "-", "display", "cond", "default", "header", "math",
                "GoodDec", "dict", "config", "any"}

Names == Identifiers \cup {"value", "after"}

\* A plausible fault: recovery goes past the end of the line.
Bug_Synchronize(c) ==
  SkipTo(c, {"DEDENT", "IF", "FOR", "WHILST", "Make", "bundle", "return", "yield"}
              \cup Tags)

\* A safe token to go on at: the end of the line or block, or a statement.
Synchronize(c) ==
  SkipTo(c, {"NEWLINE", "DEDENT", "IF", "FOR", "WHILST", "Make", "bundle",
             "return", "yield"} \cup Tags)

Expect(c, t) ==
  IF At(c, {t}) THEN Advance(c) ELSE Synchronize(ReportError(c))

ExpectName(c) ==
  IF At(c, Identifiers) THEN Advance(c) ELSE Synchronize(ReportError(c))

\* value is a name in a declaration.
ExpectSoftName(c) == IF At(c, {"value"}) THEN Advance(c) ELSE ExpectName(c)

ExpectIndent(c) ==
  LET s == SkipNewlines(c)
  IN  IF At(s, {"INDENT"}) THEN Advance(s) ELSE Throw(s)

ExpectDedent(c) ==
  LET s == SkipNewlines(c)
  IN  IF At(s, {"DEDENT"}) THEN Advance(s) ELSE Throw(s)

\* The next round of a loop whose condition looks at the token alone.
Round(c, next) ==
  IF next.up = "no" /\ next.at = c.at /\ next.errors = c.errors
  THEN [next EXCEPT !.up = "spins"] ELSE next

\* To the first stop that no bracket encloses, or to the end of the file.
SkipNested(c, open, close, stops) ==
  LET Depth(i) == Cardinality({j \in c.at..(i - 1) : tokens[j].t = open})
                - Cardinality({j \in c.at..(i - 1) : tokens[j].t = close})
      ends == {i \in c.at..Len(tokens) : \/ tokens[i].t = "EOF"
                                         \/ tokens[i].t \in stops /\ Depth(i) = 0}
  IN  IF c.up # "no" \/ ends = {} THEN c
      ELSE [c EXCEPT !.at = CHOOSE i \in ends : \A j \in ends : i <= j]
=============================================================================
