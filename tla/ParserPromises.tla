--------------------------- MODULE ParserPromises ---------------------------
(***************************************************************************)
(* What the tree and the errors of a file promise, told from its lines     *)
(* alone: the line that a line belongs to from their widths, and the       *)
(* operator that takes an operand from the table of the language, neither  *)
(* of them from the way the parser goes.                                   *)
(***************************************************************************)
EXTENDS AcParser

CONSTANTS Broken,   \* lines that are no statement, and harm nothing else
          Garbled,  \* lines whose damage goes past their end
          Greedy    \* statements that take the rest of their line, whatever it is

CodeLines == {n \in DOMAIN source : source[n].kind = "code"}

Word(n) == source[n].words[1]

IsBroken(n) == source[n].words \in Broken

Highest(S) == IF S = {} THEN 0 ELSE Max(S)

\* The line above whose block this one is in, and the one above it there.
Enclosing(n) == Highest({m \in CodeLines : m < n /\ source[m].w < source[n].w})

Siblings(n) == {m \in CodeLines : /\ m < n /\ source[m].w = source[n].w
                                  /\ Enclosing(m) = Enclosing(n)}

Sibling(n) == Highest(Siblings(n))

IsOne(n, words) == n # 0 /\ Word(n) \in words

Closes[n \in 0..Len(source)] ==
  /\ n \in CodeLines /\ IsOne(n, Tags)
  /\ IsOne(Sibling(n), Tags) /\ ~Closes[Sibling(n)]
  /\ Word(n) = CloseWith(Word(Sibling(n)))

InCond(n) == IsOne(Enclosing(n), {"cond"})

Branches == {"ELSEIF", "OTHER", "catch", "after"}

IsBranch(n) == Word(n) \in Branches /\ ~InCond(n)

Opens(n) ==
  \/ Word(n) \in Branches \cup {"IF", "FOR", "WHILST", "try", "cond", "is",
                                "bundle", "def"}
  \/ Word(n) \in Tags /\ ~Closes[n]
  \/ "func" \in Range(source[n].words)

\* The lines that n is within: their blocks hold it.
Around(n) == {m \in CodeLines : /\ m < n /\ source[m].w < source[n].w
                                /\ \A k \in CodeLines : k \in m..n =>
                                     k = m \/ source[k].w > source[m].w}

\* The line whose node has that of n among its children: the head of the
\* branch, or the header of the block; the block of a broken header falls to
\* the block that the header stands in.
Owner(n) ==
  IF IsBranch(n) THEN Max({m \in Siblings(n) : Word(m) \notin Branches})
  ELSE Highest({m \in Around(n) : ~IsBroken(m)})

Follows == [word \in Branches |->
  CASE word = "catch" -> {"try", "catch"}
    [] word = "after" -> {"catch"}
    [] OTHER -> {"IF", "ELSEIF", "WHILST"}]

\* A line in its place: what is deeper than the line above it is the block
\* of that line, a branch comes behind the block of its head, and a tag is
\* neither in its own block nor unknown.
InPlace(n) ==
  LET above == Highest({m \in CodeLines : m < n})
      head  == Sibling(n)
  IN  /\ source[n].words \notin Garbled
      /\ IF above = 0 THEN source[n].w = 0
         ELSE Opens(above) <=> source[above].w < source[n].w
      /\ IsBranch(n) => /\ IsOne(head, Follows[Word(n)])
                        /\ "many" \notin Range(source[head].words)
                        /\ ~IsBroken(n) /\ ~IsBroken(head)
      /\ InCond(n) => Word(n) \in {"is", "OTHER"}
      /\ Word(n) = "is" => InCond(n)
      /\ Word(n) = "try" => \E m \in CodeLines : Sibling(m) = n /\ Word(m) = "catch"
      /\ Word(n) = "<EndHere>" => Closes[n]
      /\ Word(n) \in Tags => \A m \in Around(n) : Word(n) # Word(m)
      /\ Word(n) = "<mine>" => \E m \in CodeLines : m < n /\ Word(m) = "def"

\* A comment is as deep as the line above or the line below.
Aside(n) ==
  LET above == Highest({m \in CodeLines : m < n})
      below == {m \in CodeLines : m > n}
  IN  \/ n = 1
      \/ above # 0 /\ source[n].w = source[above].w
      \/ below # {} /\ source[n].w = source[Min(below)].w

\* A file as its author means it, broken lines aside.
Intended ==
  /\ \A n \in CodeLines : InPlace(n)
  /\ CodeLines # {} => ~Opens(Max(CodeLines))
  /\ \A n \in DOMAIN source : source[n].kind = "silent" => Aside(n)

\* The file ends without a line feed in a statement that takes the rest of its
\* line, and with it the DEDENTs that the lexer adds for the blocks it is in:
\* the parser then misses them, whatever lexer.cpp:629 says of such a file.
EndTaken ==
  LET last == Len(source)
  IN  /\ Last(tokens).line = last
      /\ source[last].words \in Greedy
      /\ Enclosing(last) # 0

Orderly == Intended /\ ~EndTaken

-----------------------------------------------------------------------------
\* The lines of the tree, each with the line whose node it is under.
RECURSIVE Outline(_, _)
Outline(nodes, owner) ==
  LET Under(node) ==
        LET line  == IF node.at = 0 THEN owner ELSE tokens[node.at].line
            quiet == node.is = "Block" \/ line = owner \/ IsBroken(line)
        IN  IF quiet THEN Outline(node.kids, owner)
            ELSE <<<<line, owner>>>> \o Outline(node.kids, line)
  IN  FlattenSeq([i \in DOMAIN nodes |-> Under(nodes[i])])

InOrder(lines) == SetToSortSeq(lines, LAMBDA m, n : m < n)

\* Every statement of the file is in the tree once, in the file's order, and
\* under the statement whose block or branch it is in by its indentation
\* (parseBlock, parseIf, parseTry, parseTagBlock, ...); broken lines above,
\* below and around it change nothing of that, and no tag stays open for
\* what follows.  When the parser gives up, the tree is that of the lines so
\* far.
OutlineKept ==
  phase = "done" /\ Orderly =>
    LET shown == InOrder({n \in CodeLines : /\ ~IsBroken(n) /\ ~Closes[n]
                                            /\ Word(n) # "report"})
        whole == [i \in DOMAIN shown |-> <<shown[i], Owner(shown[i])>>]
    IN  IF cursor.up = "many" THEN IsPrefix(Outline(program, 0), whole)
        ELSE Outline(program, 0) = whole /\ cursor.tags = <<>>

\* Recovery (synchronize) neither blames a good line for a broken one nor
\* passes over a broken one: the errors name the broken lines, in order, up
\* to the number of errors at which the parser gives up.
ErrorsExact ==
  phase = "done" /\ Orderly =>
    LET broken == InOrder({n \in CodeLines : IsBroken(n)})
        named  == InOrder(Range(cursor.errors))
    IN  /\ \A i, j \in DOMAIN cursor.errors : i <= j => cursor.errors[i] <= cursor.errors[j]
        /\ IF cursor.up = "many"
           THEN Len(cursor.errors) = MaxErrors /\ IsPrefix(named, broken)
           ELSE named = broken

\* The parser comes to an end, unless a list of arguments is garbled: an
\* argument that is no expression keeps the loop over the arguments going
\* without an end.
SpinsOnOpen ==
  phase = "spins" =>
    \E n \in CodeLines : source[n].words \in Garbled /\ "(" \in Range(source[n].words)

-----------------------------------------------------------------------------
\* From the loosest to the tightest (the table above getPrecedence).
Levels == <<{"or"}, {"xor"}, {"and"}, {"bor"}, {"bxor"}, {"band"},
            {"is", "in", "<", ">"}, {"+", "-", "xsub"}, {"*", "/", "@"}, {"^"}>>

Binary == UNION Range(Levels)

Level(op) == CHOOSE i \in DOMAIN Levels : op \in Levels[i]

\* How tight an operator holds what is right of it: an operator of this
\* level or a looser one does not get there.
Hold(node) ==
  LET op == tokens[node.at].t
  IN  CASE node.is = "BinaryExpr" -> IF op = "^" THEN Level("^") - 1 ELSE Level(op)
        [] op = "not" -> Level("and")
        [] op = "range" -> 0
        [] OTHER -> Level("*")

RECURSIVE Within(_), LeftEdge(_, _), RightEdge(_, _)

Within(node) == {node} \cup UNION {Within(kid) : kid \in Range(node.kids)}

\* Brackets that are open at a token: what is deeper than its operator is in
\* parentheses.
Nested(i) ==
  Cardinality({j \in 1..(i - 1) : tokens[j].t \in {"(", "["}})
    - Cardinality({j \in 1..(i - 1) : tokens[j].t \in {")", "]"}})

Operands(node) ==
  LET kids == node.kids
      left == CHOOSE i \in DOMAIN kids : kids[i].at < node.at
  IN  CASE node.is = "BinaryExpr" -> IF left = 1 THEN kids ELSE <<kids[2], kids[1]>>
        [] tokens[node.at].t \in {"-", "not", "bnot", "range", "length"} -> <<Nothing, kids[1]>>
        [] OTHER -> <<>>

Joins(node) == Operands(node) # <<>>

LeftEdge(node, depth) ==
  IF ~Joins(node) \/ Nested(node.at) # depth THEN {}
  ELSE IF node.is # "BinaryExpr" THEN {}
  ELSE {node} \cup LeftEdge(Operands(node)[1], depth)

RightEdge(node, depth) ==
  IF ~Joins(node) \/ Nested(node.at) # depth THEN {}
  ELSE {node} \cup RightEdge(Operands(node)[2], depth)

\* No operand goes to the looser of the two operators next to it.
Binds(node) ==
  LET depth == Nested(node.at)
  IN  /\ node.is = "BinaryExpr" =>
           \A inner \in RightEdge(Operands(node)[1], depth) :
             Hold(inner) >= Level(tokens[node.at].t)
      /\ \A inner \in LeftEdge(Operands(node)[2], depth) :
           Level(tokens[inner.at].t) > Hold(node)

\* Operands stand left and right of their operator.
Placed(node) ==
  /\ \A inner \in Within(Operands(node)[2]) : inner.at > node.at
  /\ node.is = "BinaryExpr" =>
       \A inner \in Within(Operands(node)[1]) : inner.at < node.at

\* Every operator of an assigned expression is in the tree, with operands of
\* its own, and takes them as the table says, ^ from the right and the rest
\* from the left, whatever is grouped, called or indexed in between.
OperatorsBind ==
  phase = "done" /\ Orderly /\ cursor.errors = <<>> =>
    LET nodes == UNION {Within(program[i]) : i \in DOMAIN program}
        lines == {n \in CodeLines : /\ IsPrefix(<<"x", "=">>, source[n].words)
                                    /\ source[n].words[3] \notin {"[", "dict"}
                                    /\ "|" \notin Range(source[n].words)}
        ops   == {i \in DOMAIN tokens :
                    /\ tokens[i].line \in lines
                    /\ tokens[i].t \in Binary \cup {"not", "bnot", "range", "length"}}
    IN  \A i \in ops : \E node \in nodes :
          node.at = i /\ Joins(node) /\ Placed(node) /\ Binds(node)
=============================================================================
