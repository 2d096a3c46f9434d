------------------------------ MODULE AcGrammar ------------------------------
(***************************************************************************)
(* The parser's expressions, statements and blocks (class Parser,          *)
(* parser.cpp).  A node stands for the ASTNode of the same type, at for    *)
(* the token it is made from, kids for its children; names, values and     *)
(* attributes are left out.                                                *)
(***************************************************************************)
EXTENDS AcCursor

Literals == {"1", "$s$", "True"}

\* What the lexer makes of a slash and letters is a division sign to the parser.
Commands == {"/end", "/halt"}

Terminators == {"NEWLINE", "DEDENT", "EOF", ")", "]", "}", ",", ":"}

Precedence(t) ==
  CASE t = "or" -> 1
    [] t = "xor" -> 2
    [] t = "and" -> 3
    [] t = "bor" -> 4
    [] t \in {"bxor", "#|"} -> 5
    [] t = "band" -> 6
    [] t \in {"is", "in", "<", ">"} -> 7
    [] t \in {"+", "-", "xsub"} -> 8
    [] t \in {"*", "/", "@"} \cup Commands -> 9
    [] t = "^" -> 10
    [] OTHER -> 0

\* A plausible fault: powers are taken from the left too.
Bug_RightAssociative(t) == FALSE

RightAssociative(t) == t = "^"

RECURSIVE Parse(_, _, _), Arguments(_, _), Commas(_, _), TupleRest(_, _),
          Fields(_), Infix(_, _), Entries(_), ParseStatementInner(_), Body(_, _),
          Chain(_, _, _, _), Catches(_, _), TagBody(_, _, _, _), CondBody(_, _, _),
          LineUpBody(_, _, _), Members(_, _, _), Bindings(_, _), NameList(_, _),
          Symbols(_), OneByOne(_), ArgumentNames(_), Attempt(_, _),
          KeywordArguments(_), Targets(_), PropertyFields(_)

\* Statements are made of expressions, and of statements: every call of one
\* of the two comes back here.
ParseExpression(c, precedence) == Parse("expression", c, precedence)

ParseStatement(c) == Parse("statement", c, 0)

\* func(a, b): the loop waits for ")" or the end of the file.
Arguments(c, args) ==
  IF c.up # "no" \/ At(c, {")", "EOF"}) THEN Made(c, Node("args", c.at, args))
  ELSE LET arg == ParseExpression(c, 0)
       IN  Arguments(Round(c, Optional(arg, {","})), Append(args, arg.node))

\* x, y behind return, fn and a destructuring "=": a tuple.
Commas(c, kids) ==
  IF c.up # "no" \/ ~At(c, {","}) THEN Made(c, Node("TupleLiteral", c.at, kids))
  ELSE LET next == ParseExpression(Advance(c), 0)
       IN  Commas(next, kids \o Kept(next.node))

Tupled(c) ==
  IF c.up = "no" /\ c.node # Nothing /\ At(c, {","})
  THEN Commas(c, <<c.node>>) ELSE c

Required(c) == IF c.node = Nothing THEN Throw(c) ELSE c

Unary(c, binds) ==
  LET arg == ParseExpression(Advance(c), binds)
  IN  Made(arg, Node("UnaryExpr", c.at, <<arg.node>>))

\* A node over an operand that may be missing.
Over(c, is, operand) == Made(operand, Node(is, c.at, Kept(operand.node)))

\* length, range, iota, sure, alert
Prefixed(c, is, binds) == Over(c, is, ParseExpression(Advance(c), binds))

Conversion(c) ==
  Expect(Over(c, "UnaryExpr", ParseExpression(Advance(Advance(c)), 0)), ")")

Eval(c) ==
  Optional(Over(c, "EvalExpr", ParseExpression(Expect(Advance(c), "("), 0)), {")"})

SequenceOf(c) ==
  LET from == ParseExpression(Expect(Advance(c), "("), 0)
      to   == ParseExpression(Expect(from, ","), 0)
      step == IF At(to, {","}) THEN ParseExpression(Advance(to), 0)
              ELSE Made(to, Nothing)
  IN  Made(Expect(step, ")"), Node("SequenceExpr", c.at,
             Kept(from.node) \o Kept(to.node) \o Kept(step.node)))

TupleRest(c, kids) ==
  LET taken == Advance(c)
      next  == ParseExpression(taken, 0)
      typed == IF ~At(c, {";"}) THEN c
               ELSE IF At(taken, {"any"}) THEN Advance(taken) ELSE Throw(taken)
  IN  IF c.up # "no" \/ ~At(c, {","})
      THEN Made(Expect(typed, ")"), Node("TupleLiteral", c.at, kids))
      ELSE IF At(taken, {")"})
           THEN Made(Expect(taken, ")"), Node("TupleLiteral", c.at, kids))
           ELSE TupleRest(next, kids \o Kept(next.node))

\* (expr) is grouping and leaves no node, (a, b) is a tuple.
Parenthesis(c) ==
  LET first == ParseExpression(Advance(c), 0)
  IN  IF At(first, {","}) THEN TupleRest(first, Kept(first.node))
      ELSE Made(Expect(first, ")"), first.node)

\* The text to the "]" of the list, or to the end of the file, silently.
ListLiteral(c) ==
  Made(Optional(SkipNested(Advance(c), "[", "]", {"]"}), {"]"}),
       Node("ListLiteral", c.at, <<>>))

\* key: value entries; a DEDENT ends them like "}" does.
Entries(c) ==
  LET s     == SkipWhile(c, {"NEWLINE", "INDENT"})
      key   == SkipTo(s, {":", "NEWLINE", "}", "DEDENT"})
      value == SkipTo(Advance(key), {"NEWLINE", ",", "}", "DEDENT"})
  IN  CASE c.up # "no" \/ At(c, {"}", "DEDENT", "EOF"}) -> c
        [] At(s, {"}", "DEDENT"}) -> s
        [] ~At(key, {":"}) -> Throw(key)
        [] OTHER -> Entries(SkipNewlines(Optional(value, {","})))

\* { }: a dictionary when a ":" comes before the "}", a set otherwise.
Braces(c) ==
  LET body   == Advance(c)
      isDict == At(SkipTo(body, {":", "}"}), {":"})
      dict   == Entries(SkipAll(body))
  IN  IF isDict
      THEN Made(Optional(Optional(dict, {"DEDENT"}), {"}"}),
                Node("DictLiteral", c.at, <<>>))
      ELSE Made(Optional(SkipTo(body, {"}"}), {"}"}),
                Node("ListLiteral", c.at, <<>>))

-----------------------------------------------------------------------------
\* .a.b.c behind a name
Fields(c) ==
  LET field == Advance(c)
  IN  IF c.up # "no" \/ ~At(c, {"."}) THEN c
      ELSE Fields(IF At(field, {"NEWLINE", "EOF", "("}) THEN field
                  ELSE Advance(field))

Index(c) ==
  LET index == ParseExpression(Advance(c), 0)
  IN  Made(Expect(index, "]"), Node("IndexExpr", c.at,
             <<Node("Identifier", c.at, <<>>), index.node>>))

\* obj.method in an expression: an index, arguments in parentheses, or one
\* argument without them.
Method(c) ==
  LET name  == Advance(c)
      first == IF At(name, {"NEWLINE", "EOF"}) THEN name ELSE Advance(name)
      s     == Fields(first)
      args  == Arguments(Advance(s), <<>>)
  IN  CASE At(s, {"["}) -> Index(s)
        [] At(s, {"("}) -> Made(Optional(args, {")"}),
                                Node("MethodCall", c.at, args.node.kids))
        [] At(s, {"$s$"}) -> Made(Advance(s), Node("MethodCall", c.at,
                                    <<Node("LiteralExpr", s.at, <<>>)>>))
        [] /\ ~At(s, {"NEWLINE", "EOF", ")", "]"})
           /\ Precedence(Peek(s)) = 0
             -> Over(c, "MethodCall", ParseExpression(s, 0))
        [] OTHER -> Made(s, Node("MethodCall", c.at, <<>>))

Call(c) ==
  LET args == Arguments(Advance(c), <<>>)
  IN  Made(Expect(args, ")"), Node("CallExpr", c.at, args.node.kids))

\* x[i](a): the element is what is called.
Element(c) ==
  LET element == Index(c)
      args    == Arguments(Advance(element), <<>>)
  IN  IF element.up = "no" /\ At(element, {"("})
      THEN Made(Expect(args, ")"),
                Node("CallExpr", c.at, <<element.node>> \o args.node.kids))
      ELSE element

Named(c) ==
  LET s == Advance(c)
  IN  CASE At(s, {"."}) -> Method(s)
        [] At(s, {"("}) -> Call(s)
        [] At(s, {"["}) -> Element(s)
        [] OTHER -> Made(s, Node("Identifier", c.at, <<>>))

ParsePrefix(c) ==
  CASE c.up # "no" -> c
    [] At(c, {"-", "bnot"}) -> Unary(c, 9)
    [] At(c, {"not", "#"}) -> Unary(c, 3)
    [] At(c, {"to_int"}) /\ PeekAhead(c, 1).t = "(" -> Conversion(c)
    [] At(c, {"("}) -> Parenthesis(c)
    [] At(c, Literals) -> Made(Advance(c), Node("LiteralExpr", c.at, <<>>))
    [] At(c, {"dquote"}) -> Throw(c)
    [] At(c, Names) -> Named(c)
    [] At(c, {"["}) -> ListLiteral(c)
    [] At(c, {"{"}) -> Braces(c)
    [] At(c, {"eval"}) -> Eval(c)
    [] At(c, {"range"}) -> Prefixed(c, "RangeExpr", 0)
    [] At(c, {"iota"}) -> Prefixed(c, "IotaExpr", 0)
    [] At(c, {"sure"}) -> Prefixed(c, "MethodCall", 0)
    [] At(c, {"sequence"}) -> SequenceOf(c)
    [] At(c, {"length"}) -> Prefixed(c, "CallExpr", 9)
    [] At(c, Terminators) -> Made(c, Nothing)
    [] OTHER -> Made(ReportError(c), Nothing)

ParseInfix(c) ==
  LET op    == Peek(c)
      right == ParseExpression(Advance(c), Precedence(op)
                                 - IF RightAssociative(op) THEN 1 ELSE 0)
      built == Required(right)
  IN  IF op = "#|" THEN Throw(c)
      ELSE IF op = "is" /\ At(Advance(c), {"not"}) THEN Throw(Advance(c))
      ELSE Made(built, Node("BinaryExpr", c.at,
                  IF op = "in" THEN <<right.node, c.node>>
                  ELSE <<c.node, right.node>>))

Infix(c, precedence) ==
  IF c.up # "no" \/ Precedence(Peek(c)) <= precedence THEN c
  ELSE Infix(ParseInfix(c), precedence)

\* condition | a, # b
Ternary(c) ==
  LET yes == ParseExpression(Advance(c), 0)
      no  == ParseExpression(Expect(Expect(yes, ","), "#"), 0)
  IN  Made(no, Node("TernaryExpr", c.at, <<c.node, yes.node, no.node>>))

Pratt(c, precedence) ==
  LET left  == ParsePrefix(c)
      whole == Infix(left, precedence)
  IN  IF left.node = Nothing THEN left
      ELSE IF whole.up = "no" /\ precedence = 0 /\ At(whole, {"|"})
           THEN Ternary(whole) ELSE whole

-----------------------------------------------------------------------------
\* A syntax error ends the statement: it is recorded at the token the parser
\* has come to, and parsing goes on at the next safe token.
Caught(c) ==
  IF c.up # "thrown" THEN c
  ELSE Made(Synchronize(ReportError([c EXCEPT !.up = "no"])), Nothing)

Recovering(c) ==
  LET s == SkipNewlines(c)
  IN  IF s.up # "no" \/ At(s, {"EOF"}) THEN Made(s, Nothing)
      ELSE Caught(ParseStatementInner(s))

\* Statements to the end of the block.
Body(c, kids) ==
  IF c.up # "no" \/ At(c, {"DEDENT", "EOF"}) THEN Made(c, Node("Block", c.at, kids))
  ELSE LET s == ParseStatement(c)
       IN  Body(Round(c, SkipNewlines(s)), kids \o Kept(s.node))

ParseBlock(c) ==
  LET body == Body(ExpectIndent(c), <<>>)
  IN  Made(ExpectDedent(body), body.node)

\* A block that no header announces.
NestedBlock(c) ==
  LET body == Body(Advance(c), <<>>)
  IN  Made(Optional(body, {"DEDENT"}), body.node)

RestOfLine(c, is) == Made(SkipTo(c, {"NEWLINE"}), Node(is, c.at, <<>>))

Condition(c) == Required(ParseExpression(Advance(c), 0))

\* ELSEIF and OTHER behind IF and WHILST.
Chain(c, is, at, kids) ==
  LET s     == SkipNewlines(c)
      cond  == Condition(s)
      block == ParseBlock(IF At(s, {"ELSEIF"}) THEN cond ELSE Advance(s))
  IN  CASE s.up # "no" -> s
        [] At(s, {"ELSEIF"}) -> Chain(block, is, at,
             Append(kids, Node("ElseIfStmt", s.at, <<cond.node, block.node>>)))
        [] At(s, {"OTHER"}) -> Chain(block, is, at,
             Append(kids, Node("IfStmt", s.at, <<block.node>>)))
        [] OTHER -> Made(s, Node(is, at, kids))

ParseIf(c) ==
  LET cond  == Condition(c)
      block == ParseBlock(cond)
  IN  Chain(block, "IfStmt", c.at, <<cond.node, block.node>>)

ParseFor(c) ==
  LET list  == Required(ParseExpression(
                 Optional(Optional(Advance(c), Identifiers), {"in"}), 0))
      block == ParseBlock(list)
  IN  Made(block, Node("ForLoop", c.at, <<list.node, block.node>>))

\* WHILST many hitbox overlap has no condition to parse, and no branches.
ParseWhilst(c) ==
  LET many  == Advance(c)
      cond  == Condition(c)
      block == ParseBlock(IF At(many, {"many"}) THEN SkipTo(many, {"NEWLINE"})
                          ELSE cond)
  IN  IF At(many, {"many"})
      THEN Made(block, Node("WhilstLoop", c.at,
                  <<Node("FunctionCall", many.at, <<>>), block.node>>))
      ELSE Chain(block, "WhilstLoop", c.at, <<cond.node, block.node>>)

\* catch [type], with report [name] on the first line of its block.
Catches(c, kids) ==
  LET typed == SkipNewlines(Optional(SkipNewlines(Advance(c)), Identifiers))
      s     == SkipNewlines(ExpectIndent(typed))
      told  == IF At(s, {"report"})
               THEN SkipNewlines(Optional(Advance(s), Identifiers)) ELSE s
      body  == Body(told, <<>>)
  IN  IF c.up # "no" \/ ~At(c, {"catch"}) THEN Made(c, Node("clauses", c.at, kids))
      ELSE Catches(SkipNewlines(ExpectDedent(body)),
                   Append(kids, Node("CatchClause", c.at, <<body.node>>)))

ParseTry(c) ==
  LET try     == ParseBlock(Advance(c))
      catches == Catches(SkipNewlines(try), <<>>)
      clauses == catches.node.kids
      after   == ParseBlock(Advance(catches))
      whole   == <<try.node>> \o clauses
  IN  IF clauses = <<>> THEN Throw(catches)
      ELSE IF At(catches, {"after"})
           THEN Made(after, Node("TryCatchStmt", c.at, Append(whole,
                       Node("AfterClause", catches.at, <<after.node>>))))
           ELSE Made(catches, Node("TryCatchStmt", c.at, whole))

-----------------------------------------------------------------------------
CoreTags == {"<mainloop>", "<StartHere>", "<EndHere>"}

IsRecognizedTag(c, name) == name \in CoreTags \cup c.custom

\* StartHere is closed by EndHere, every other tag by itself.
CloseWith(name) == IF name = "<StartHere>" THEN "<EndHere>" ELSE name

PopTag(c, name) ==
  IF c.up = "no" /\ c.tags # <<>> /\ Last(c.tags) = name
  THEN [c EXCEPT !.tags = Front(@)] ELSE c

\* The body of a tag, and behind its DEDENT the closing tag, if it is there.
TagBody(c, name, at, kids) ==
  LET s      == ParseStatement(c)
      closes == s.node.is = "__close__"
      out    == SkipNewlines(Optional(c, {"DEDENT"}))
      block  == Node("TagBlock", at, kids)
  IN  CASE c.up # "no" -> c
        [] At(c, {"DEDENT", "EOF"}) ->
             Made(PopTag(Optional(out, {CloseWith(name)}), name), block)
        [] closes /\ tokens[s.node.at].t = name ->
             Made(Optional(s, {"DEDENT"}), block)
        [] closes -> TagBody(s, name, at, kids)
        [] OTHER -> TagBody(Round(c, SkipNewlines(s)), name, at,
                            kids \o Kept(s.node))

ParseTagBlock(c) ==
  LET name == Peek(c)
      s    == Advance(c)
  IN  IF c.tags # <<>> /\ name = CloseWith(Last(c.tags))
      THEN Made([s EXCEPT !.tags = Front(@)], Node("__close__", c.at, <<>>))
      ELSE TagBody(ExpectIndent([s EXCEPT !.tags = Append(@, name)]),
                   name, c.at, <<>>)

Tagged(c) ==
  IF IsRecognizedTag(c, Peek(c)) THEN ParseTagBlock(c) ELSE Throw(c)

\* def tag <name>
DefineTag(c) ==
  LET s     == Expect(Advance(c), "tag")
      named == IF At(s, Tags)
               THEN [Advance(s) EXCEPT !.custom = @ \cup {Peek(s)}]
               ELSE Synchronize(ReportError(s))
      block == ParseBlock(named)
  IN  Made(block, Node("CustomTagDef", c.at, <<block.node>>))

-----------------------------------------------------------------------------
\* cond x, with is and OTHER branches one level deeper.
CondBody(c, at, kids) ==
  LET value == ParseExpression(Advance(c), 0)
      case  == ParseBlock(value)
      other == ParseBlock(Advance(c))
      s     == ParseStatement(c)
  IN  CASE c.up # "no" -> c
        [] At(c, {"DEDENT", "EOF"}) ->
             Made(ExpectDedent(c), Node("CondStmt", at, kids))
        [] At(c, {"is"}) -> CondBody(SkipNewlines(case), at, Append(kids,
             Node("CondCase", c.at, Kept(value.node) \o <<case.node>>)))
        [] At(c, {"OTHER"}) -> CondBody(SkipNewlines(other), at, Append(kids,
             Node("CondOther", c.at, <<other.node>>)))
        [] OTHER -> CondBody(Round(c, SkipNewlines(s)), at, kids \o Kept(s.node))

ParseCond(c) ==
  LET value == ParseExpression(Advance(c), 0)
  IN  CondBody(SkipNewlines(ExpectIndent(value)), c.at, Kept(value.node))

\* LineUp x { case: statement, default: statement }
LineUpBody(c, at, kids) ==
  LET default == At(c, {"default"})
      value   == IF default THEN Advance(c) ELSE Required(ParseExpression(c, 0))
      s       == ParseStatementInner(SkipAll(Expect(value, ":")))
      branch  == IF default THEN Node("CondOther", c.at, Kept(s.node))
                 ELSE Node("CondCase", c.at, <<value.node>> \o Kept(s.node))
      next    == SkipAll(s)
  IN  CASE c.up # "no" -> c
        [] At(c, {"}", "EOF"}) ->
             Made(Expect(c, "}"), Node("CondStmt", at, kids))
        [] OTHER -> LineUpBody(
             Round(c, IF At(next, {","}) THEN SkipAll(Advance(next)) ELSE next),
             at, Append(kids, branch))

ParseLineUp(c) ==
  LET value == ParseExpression(Advance(c), 0)
  IN  LineUpBody(SkipAll(Expect(SkipNewlines(value), "{")), c.at,
                 Kept(value.node))

-----------------------------------------------------------------------------
\* A plausible fault: a parameter that is called value is not taken.
Bug_ArgumentNames(c) ==
  CASE c.up # "no" \/ At(c, {")", "EOF"}) -> c
    [] At(c, Identifiers \cup {","}) -> ArgumentNames(Round(c, Advance(c)))
    [] OTHER -> ArgumentNames(Round(c, c))

\* Parameters of func: everything else than a name or a comma is an error.
ArgumentNames(c) ==
  CASE c.up # "no" \/ At(c, {")", "EOF"}) -> c
    [] At(c, Identifiers \cup {"value", ","}) -> ArgumentNames(Round(c, Advance(c)))
    [] OTHER -> Throw(c)

ParseMake(c) ==
  LET name  == ExpectSoftName(Advance(c))
      block == ParseBlock(Expect(ArgumentNames(Expect(Advance(name), "(")), ")"))
  IN  IF At(name, {"func"})
      THEN Made(block, Node("FuncDef", c.at, <<block.node>>))
      ELSE RestOfLine(name, "ObjDecl")

\* fn name(args)=expr
ParseFnDecl(c) ==
  LET s     == Advance(c)
      name  == IF At(s, Identifiers \cup {"value"}) THEN Advance(s) ELSE Throw(s)
      args  == SkipWhile(Expect(name, "("), Identifiers \cup {"value", ","})
      ends  == IF At(args, {")", "EOF", "NEWLINE"}) THEN Expect(args, ")")
               ELSE Throw(args)
      value == Tupled(Required(ParseExpression(
                 IF At(ends, {"="}) THEN Advance(ends) ELSE Throw(ends), 0)))
      body  == Node("Block", c.at, <<Node("ReturnStmt", c.at, <<value.node>>)>>)
  IN  Made(value, Node("FuncDef", c.at, <<body>>))

\* Members with or without private and public; marked: one has been seen.
Members(c, kids, marked) ==
  LET s      == SkipNewlines(c)
      mark   == At(s, {"private", "public"})
      member == ParseStatement(Optional(s, {"private", "public"}))
      kid    == IF member.node = Nothing THEN <<>>
                ELSE <<Node("BundleMember", IF mark THEN s.at ELSE 0,
                            <<member.node>>)>>
  IN  IF s.up # "no" \/ At(s, {"DEDENT", "EOF"})
      THEN Made(s, Node(IF marked THEN "marked" ELSE "plain", s.at, kids))
      ELSE Members(Round(s, SkipNewlines(member)), kids \o kid, marked \/ mark)

\* All members are marked or none is.
ParseBundle(c) ==
  LET members == Members(ExpectIndent(ExpectName(Advance(c))), <<>>, FALSE)
      kids    == members.node.kids
      ends    == ExpectDedent(members)
  IN  IF members.node.is = "marked" /\ \E i \in DOMAIN kids : kids[i].at = 0
      THEN Throw(ends)
      ELSE Made(ends, Node("BundleDef", c.at, kids))

-----------------------------------------------------------------------------
NameList(c, names) ==
  IF c.up = "no" /\ At(c, names)
  THEN IF At(Advance(c), {","}) THEN NameList(Advance(Advance(c)), names)
       ELSE Advance(c)
  ELSE c

\* Names that may have hyphens in them, as those of libraries have.
Symbols(c) ==
  CASE c.up # "no" \/ ~At(c, Identifiers) -> c
    [] At(Advance(c), {"-"}) /\ PeekAhead(c, 2).t \in Identifiers ->
         Symbols(Advance(Advance(c)))
    [] At(Advance(c), {","}) -> Symbols(Advance(Advance(c)))
    [] OTHER -> Advance(c)

\* export a, b or export in front of a definition
Export(c) ==
  IF At(Advance(c), Identifiers)
  THEN Made(NameList(Advance(c), Identifiers), Node("ExportStmt", c.at, <<>>))
  ELSE ParseStatementInner(Advance(c))

\* /end, /stop, /kill; the rest of a /halt line is its duration.
Command(c) ==
  LET s == Advance(c)
  IN  IF At(c, {"/end"}) THEN Made(s, Node("EndStmt", c.at, <<>>))
      ELSE Made(SkipTo(s, {"NEWLINE"}),
                Node(IF At(s, {"NEWLINE", "DEDENT", "EOF"}) THEN "PassStmt" ELSE "HaltStmt",
                     c.at, <<>>))

Destroy(c) ==
  Made(NameList(Advance(c), Identifiers \cup {"value"}),
       Node("DestroyStmt", c.at, <<>>))

Library(c) == Node("UseLibStmt", c.at, <<>>)

\* use and the kind of the library; the name of a data file ends at as.
Use(c) ==
  LET s    == Advance(c)
      file == IF At(Advance(s), {"$s$"}) THEN Advance(Advance(s))
              ELSE SkipTo(Advance(s), {"as", "NEWLINE"})
  IN  CASE At(s, {"datac"}) ->
             Made(Optional(Optional(file, {"as"}), Identifiers), Library(c))
        [] At(s, {"header", "ilib"}) -> RestOfLine(s, "UseLibStmt")
        [] OTHER -> RestOfLine(s, "UseStmt")

\* conglomer <header>
Conglomer(c) ==
  Made(Optional(SkipTo(Optional(Advance(c), {"<"}), {"NEWLINE", ">"}), {">"}),
       Library(c))

\* math.sin, math.cos behind the first of them
OneByOne(c) ==
  LET s == Advance(c)
  IN  CASE c.up # "no" \/ At(c, {"NEWLINE", "EOF"}) -> c
        [] ~At(c, Identifiers) -> OneByOne(s)
        [] ~At(s, {"."}) -> s
        [] ~At(Advance(s), Identifiers) -> Advance(s)
        [] OTHER -> OneByOne(Advance(Advance(s)))

\* using [header] math, or using math.sin for one name of a library
Using(c) ==
  LET s      == Optional(Advance(c), {"header"})
      dotted == Advance(Advance(s))
      more   == IF At(dotted, Identifiers) THEN OneByOne(Advance(dotted))
                ELSE SkipTo(dotted, {"NEWLINE"})
  IN  CASE ~At(s, Identifiers) -> Made(s, Library(c))
        [] At(Advance(s), {"."}) ->
             Made(more, Node("MethodChain", c.at, <<Library(c), Library(c)>>))
        [] OTHER -> RestOfLine(s, "UseLibStmt")

\* from ilib math use sin, cos
From(c) ==
  LET s == Optional(Optional(Advance(c), {"ilib"}), Identifiers)
  IN  Made(IF At(s, {"use"}) THEN Symbols(Advance(s)) ELSE s, Library(c))

\* fetch math.sin
Fetch(c) ==
  Made(ExpectName(Expect(ExpectName(Advance(c)), ".")), Library(c))

\* save as name.ext
Save(c) ==
  LET name == ExpectName(Expect(Advance(c), "as"))
  IN  Made(IF At(name, {"."}) THEN Advance(Advance(name)) ELSE name,
           Node("SaveStmt", c.at, <<>>))

\* bind key to function
Bind(c) ==
  Made(ExpectName(Expect(ExpectName(Advance(c)), "to")),
       Node("BindStmt", c.at, <<>>))

\* const x = expr; compfold and cp take the same way.
Const(c) ==
  Over(c, "ConstDecl", ParseExpression(Expect(ExpectSoftName(Advance(c)), "="), 0))

\* alias x = y
Alias(c) ==
  Made(ExpectName(Expect(ExpectSoftName(Advance(c)), "=")),
       Node("AliasDecl", c.at, <<>>))

\* math.GoodDec x = expr, where a set of numbers is an error
GoodDec(c) ==
  LET s     == ExpectName(Advance(Advance(Advance(c))))
      value == ParseExpression(Advance(s), 0)
  IN  CASE ~At(s, {"="}) -> Made(s, Node("TypeCoerceStmt", c.at, <<>>))
        [] value.node.is \in {"TupleLiteral", "ListLiteral"} -> Throw(value)
        [] OTHER -> Over(c, "TypeCoerceStmt", value)

\* to_int x = expr
Coerce(c) ==
  LET s == Optional(Advance(c), Identifiers)
  IN  IF At(s, {"="}) THEN Over(c, "TypeCoerceStmt", ParseExpression(Advance(s), 0))
      ELSE Made(s, Node("TypeCoerceStmt", c.at, <<>>))

Return(c) == Over(c, "ReturnStmt", Tupled(ParseExpression(Advance(c), 0)))

Yield(c) == Prefixed(c, "YieldStmt", 0)

\* raise ERR($msg$), raise ERR, and raise of a clause
Raise(c) ==
  LET s      == Advance(c)
      fatal  == Expect(Optional(Expect(Advance(s), "("), {"$s$"}), ")")
      clause == Optional(s, Identifiers)
  IN  CASE At(s, {"ERR"}) /\ PeekAhead(s, 1).t = "(" ->
             Made(fatal, Node("RaiseStmt", c.at, <<>>))
        [] At(s, {"ERR"}) -> Made(Advance(s), Node("RaiseStmt", c.at, <<>>))
        [] At(clause, {"("}) ->
             Made(Optional(Optional(Advance(clause), {"$s$"}), {")"}),
                  Node("RaiseClauseStmt", c.at, <<>>))
        [] OTHER -> Made(clause, Node("RaiseClauseStmt", c.at, <<>>))

\* on value is key, each with a block of its own or none
Bindings(c, kids) ==
  LET key   == SkipNewlines(ExpectName(Expect(Expect(Advance(c), "value"), "is")))
      block == ParseBlock(key)
      bound == IF At(key, {"INDENT"}) THEN block ELSE Made(key, Nothing)
  IN  IF c.up # "no" \/ ~At(c, {"on"}) THEN Made(c, Node("", c.at, kids))
      ELSE Bindings(SkipNewlines(bound),
                    Append(kids, Node("KeyBinding", c.at, bound.node.kids)))

Strictly(c, t) == IF At(c, {t}) THEN Advance(c) ELSE Throw(c)

\* configure event-listener: two levels of blocks, opened and closed by hand.
Configure(c) ==
  LET opened == Strictly(SkipNewlines(Expect(Advance(c), "event-listener")), "INDENT")
      named  == ExpectName(Expect(Expect(Expect(opened, "establish"), "listener"), "of"))
      keys   == Bindings(Strictly(SkipNewlines(named), "INDENT"), <<>>)
      some   == IF keys.node.kids = <<>> THEN Throw(keys) ELSE keys
  IN  Made(Strictly(Strictly(some, "DEDENT"), "DEDENT"),
           Node("EventListener", c.at, keys.node.kids))

-----------------------------------------------------------------------------
Compound == {"+=", "@="}

\* An expression parsed on trial: what it throws is swallowed, what it has
\* reported stays.
Tried(c, trial) ==
  [c EXCEPT !.errors = trial.errors,
            !.up = IF trial.up = "spins" THEN "spins" ELSE c.up]

\* The arguments of a method as expressions, as far as they are such.
Attempt(c, args) ==
  LET arg == ParseExpression(c, 0)
  IN  CASE c.up # "no" \/ At(c, {")", "EOF"}) -> Made(c, Node("args", c.at, args))
        [] arg.node = Nothing -> Made(arg, Nothing)
        [] At(arg, {","}) -> Attempt(Advance(arg), Append(args, arg.node))
        [] OTHER -> Made(arg, Node("args", c.at, Append(args, arg.node)))

\* How many of the texts between the commas from i to j are not empty.
Pieces(i, j) ==
  LET Deep(k) == Cardinality({m \in i..(k - 1) : tokens[m].t = "("})
                 > Cardinality({m \in i..(k - 1) : tokens[m].t = ")"})
      commas  == {k \in i..(j - 1) : tokens[k].t = "," /\ ~Deep(k)}
      ends    == commas \cup {j}
  IN  Cardinality({k \in ends : k - 1 >= i /\ k - 1 \notin commas})

MethodStatement(c) ==
  LET args  == Advance(c)
      trial == Attempt(args, <<>>)
      ends  == SkipNested(args, "(", ")", {")"})
      whole == Optional(Tried(ends, trial), {")"})
      kids  == IF /\ trial.up = "no" /\ trial.node # Nothing
                  /\ At(trial, {")"})
                  /\ Len(trial.node.kids) = Pieces(args.at, ends.at)
               THEN trial.node.kids ELSE <<>>
  IN  Made(whole, Node("MethodCall", c.at, kids))

\* x[i] = v, x[i] += v, x[i](a) and x[i] alone.  The text to the first "]" is
\* the index; a compound assignment goes back and reads it again.
IndexStatement(c) ==
  LET index  == Advance(c)
      s      == Optional(SkipTo(index, {"]"}), {"]"})
      again  == Expect(ParseExpression(index, 0), "]")
      value  == Required(ParseExpression(
                  [again EXCEPT !.at = IF again.up = "no" THEN Advance(s).at ELSE @], 0))
      load   == Node("IndexExpr", c.at,
                  <<Node("Identifier", c.at, <<>>), ParseExpression(index, 0).node>>)
      stored == Advance(s)
      trial  == ParseExpression(stored, 0)
      whole  == trial.up = "no" /\ trial.node # Nothing /\ At(trial, {"NEWLINE", "EOF"})
      called == Arguments(stored, <<>>)
      callee == Node("IndexExpr", c.at, <<Node("Identifier", c.at, <<>>),
                                          Node("Identifier", c.at, <<>>)>>)
  IN  CASE At(s, Compound) -> Made(value, Node("IndexExpr", c.at,
             <<Node("BinaryExpr", s.at, <<load, value.node>>)>>))
        [] At(s, {"="}) /\ At(stored, {"$s$", "True"}) ->
             Made(Advance(stored), Node("IndexExpr", c.at, <<>>))
        [] At(s, {"="}) /\ whole -> Made(trial, Node("IndexExpr", c.at, <<trial.node>>))
        [] At(s, {"="}) -> Made(SkipTo(Tried(stored, trial), {"NEWLINE"}),
                                Node("IndexExpr", c.at, <<>>))
        [] At(s, {"("}) -> Made(Expect(called, ")"), Node("CallExpr", c.at,
                                  <<callee>> \o called.node.kids))
        [] OTHER -> Made(s, Node("IndexExpr", c.at, <<>>))

PropertyFields(c) ==
  IF At(c, {"."}) THEN PropertyFields(Advance(Advance(c))) ELSE c

\* Name.prop and what may follow it
DottedStatement(c) ==
  LET prop  == Advance(c)
      s     == PropertyFields(Advance(prop))
      value == ParseExpression(s, 0)
  IN  CASE At(s, {"["}) -> IndexStatement(s)
        [] At(prop, {"display"}) /\ s.at = prop.at + 1 ->
             Made(Required(value), Node("MethodCall", c.at, <<value.node>>))
        [] At(s, {"("}) -> MethodStatement(s)
        [] At(prop, {"config"}) /\ s.at = prop.at + 1 /\ ~At(s, {"$s$"}) ->
             RestOfLine(s, "ConfigCall")
        [] At(s, {"="}) -> RestOfLine(s, "PropAssign")
        [] At(s, Compound) ->
             Over(c, "PropAssign", ParseExpression(Advance(s), 0))
        [] OTHER -> RestOfLine(s, "MethodCall")

\* f(a) as a statement: text to the parenthesis that closes it, or to the end
\* of the file, silently.
CallStatement(c) ==
  Made(Optional(SkipNested(Advance(c), "(", ")", {")"}), {")"}),
       Node("MethodCall", c.at, <<>>))

\* quickthread f(a)
QuickThread(c) ==
  LET name == ExpectName(Advance(c))
  IN  IF At(name, {"("}) THEN CallStatement(name)
      ELSE Made(name, Node("MethodCall", c.at, <<>>))

\* x = f(a, key=b): the text of a keyword argument ends at the first ")".
KeywordArguments(c) ==
  LET keyed == At(c, Identifiers) /\ At(Advance(c), {"="})
      value == IF keyed THEN SkipTo(Advance(Advance(c)), {",", ")"})
               ELSE SkipNested(c, "(", ")", {",", ")"})
  IN  IF At(c, {")", "EOF"}) THEN c ELSE KeywordArguments(Optional(value, {","}))

ListAssignment(c) ==
  LET list  == ListLiteral(c)
      count == ParseExpression(Advance(list), 0)
  IN  IF At(list, {"@", "*"})
      THEN Made(count, Node("AssignStmt", c.at,
                  <<Node("BinaryExpr", list.at, <<list.node, count.node>>)>>))
      ELSE Made(list, Node("AssignStmt", c.at, <<>>))

Assignment(c) ==
  LET s     == Advance(c)
      value == Required(ParseExpression(s, 0))
  IN  CASE At(s, {"["}) -> ListAssignment(s)
        [] At(s, {"{"}) -> Made(Braces(s), Node("AssignStmt", c.at, <<>>))
        [] At(s, Identifiers) /\ PeekAhead(s, 1).t = "(" ->
             Made(Optional(KeywordArguments(Advance(Advance(s))), {")"}),
                  Node("AssignStmt", c.at, <<Node("FunctionCall", s.at, <<>>)>>))
        [] At(s, {"dict"}) /\ PeekAhead(s, 1).t = "-" /\ PeekAhead(s, 2).t = "{" ->
             Made(Braces(Advance(Advance(s))), Node("AssignStmt", c.at, <<>>))
        [] OTHER -> Made(value, Node("AssignStmt", c.at, <<value.node>>))

\* a, b = x, y
Targets(c) ==
  IF c.up = "no" /\ At(c, {","}) THEN Targets(Advance(Advance(c))) ELSE c

Destructure(c) ==
  LET value == Tupled(Required(ParseExpression(Strictly(Targets(c), "="), 0)))
  IN  Made(value, Node("DestructureAssignStmt", c.at, <<value.node>>))

Compounded(c) == IF At(c, {"+="}) THEN "PlusEqualStmt" ELSE "AtEqualStmt"

ParseIdentifierStatement(c) ==
  LET s     == Advance(c)
      value == Required(ParseExpression(Advance(s), 0))
  IN  CASE At(s, {"("}) -> CallStatement(s)
        [] At(s, {"."}) -> DottedStatement(s)
        [] At(s, {","}) -> Destructure(s)
        [] At(s, {"["}) -> IndexStatement(s)
        [] At(s, Compound) -> Made(value, Node(Compounded(s), c.at, <<value.node>>))
        [] At(s, {"="}) -> Assignment(s)
        [] OTHER -> Throw(s)

\* free x = expr, bound x += expr
Assigns(c) ==
  /\ At(Advance(c), Identifiers)
  /\ \/ At(c, {"free"}) /\ PeekAhead(c, 2).t \in Compound \cup {"="}
     \/ At(c, {"bound"}) /\ PeekAhead(c, 2).t \notin {",", "NEWLINE", "EOF"}

\* free a, b declares names.
FreeDecl(c) ==
  IF Assigns(c) THEN Over(c, "FreeDecl", ParseIdentifierStatement(Advance(c)))
  ELSE Made(SkipWhile(Advance(c), Identifiers \cup {","}),
            Node("FreeDecl", c.at, <<>>))

SoftCond(c) ==
  At(c, {"cond"}) /\ PeekAhead(c, 1).t \notin Compound \cup {"=", "[", "."}

\* Everything else is skipped without a word: a stray OTHER, for example.
ParseStatementInner(c) ==
  CASE c.up # "no" \/ At(c, {"EOF"}) -> Made(c, Nothing)
    [] At(c, {"export"}) -> Export(c)
    [] At(c, {"DEG"}) -> ParseStatementInner(Advance(c))
    [] At(c, {"catch", "after"}) -> Throw(c)
    [] At(c, {"INDENT"}) -> NestedBlock(c)
    [] At(c, Tags) -> Tagged(c)
    [] At(c, Commands) -> Command(c)
    [] At(c, {"pass"}) -> Made(Advance(c), Node("PassStmt", c.at, <<>>))
    [] At(c, {"skip"}) -> Made(Advance(c), Node("SkipStmt", c.at, <<>>))
    [] At(c, {"destroy"}) -> Destroy(c)
    [] At(c, {"input"}) -> Made(Optional(Advance(c), Identifiers),
                                Node("InputStmt", c.at, <<>>))
    [] At(c, {"bind"}) -> Bind(c)
    [] At(c, {"use"}) -> Use(c)
    [] At(c, {"conglomer"}) -> Conglomer(c)
    [] At(c, {"using"}) -> Using(c)
    [] At(c, {"from"}) -> From(c)
    [] At(c, {"fetch"}) -> Fetch(c)
    [] At(c, {"save"}) -> Save(c)
    [] At(c, {"IF"}) -> ParseIf(c)
    [] At(c, {"try"}) -> ParseTry(c)
    [] SoftCond(c) -> ParseCond(c)
    [] At(c, {"LineUp"}) -> ParseLineUp(c)
    [] At(c, {"FOR"}) -> ParseFor(c)
    [] At(c, {"WHILST"}) -> ParseWhilst(c)
    [] At(c, {"raise"}) -> Raise(c)
    [] At(c, {"def"}) -> DefineTag(c)
    [] At(c, {"Make"}) -> ParseMake(c)
    [] At(c, {"bundle"}) -> ParseBundle(c)
    [] At(c, {"configure"}) -> Configure(c)
    [] At(c, {"range", "sequence"}) -> ParseExpression(c, 0)
    [] At(c, {"eval"}) -> Eval(c)
    [] /\ At(c, {"math"}) /\ PeekAhead(c, 1).t = "."
       /\ PeekAhead(c, 2).t = "GoodDec" -> GoodDec(c)
    [] At(c, {"to_int"}) -> Coerce(c)
    [] At(c, {"alias"}) -> Alias(c)
    [] At(c, {"const"}) -> Const(c)
    [] At(c, {"quickthread"}) -> QuickThread(c)
    [] At(c, {"free", "bound"}) -> FreeDecl(c)
    [] At(c, {"alert", "sure"}) -> Prefixed(c, "MethodCall", 0)
    [] At(c, {"return"}) -> Return(c)
    [] At(c, {"yield"}) -> Yield(c)
    [] At(c, {"True"}) -> Made(Advance(c), Node("BinaryExpr", c.at, <<>>))
    [] At(c, {"fn"}) -> ParseFnDecl(c)
    [] At(c, {"["}) -> ListLiteral(c)
    [] At(c, {"{"}) -> Braces(c)
    [] At(c, Identifiers \cup {"value"}) -> ParseIdentifierStatement(c)
    [] OTHER -> Made(Advance(c), Nothing)

Parse(what, c, precedence) ==
  IF what = "expression" THEN Pratt(c, precedence) ELSE Recovering(c)
=============================================================================
