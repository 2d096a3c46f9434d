------------------------------ MODULE MCOptPasses ------------------------------
(***************************************************************************)
(* Programs of a few statements between a beginning that gives x and y a   *)
(* value and an end that displays them.                                    *)
(***************************************************************************)
EXTENDS OptPasses

x == Var("x")
y == Var("y")

Assign(v, a)        == [do |-> "assign", x |-> v, a |-> a]
Compute(v, op, a, b) == [do |-> "compute", x |-> v, op |-> op, a |-> a, b |-> b]
Nested(v, a, b, c)  == [do |-> "nested", x |-> v, a |-> a, b |-> b, c |-> c]
Compound(v, a)      == [do |-> "compound", x |-> v, a |-> a]
Ask(v)              == [do |-> "ask", x |-> v]
Show(a)             == [do |-> "show", a |-> a]
Call1(f, a)         == [do |-> "run", f |-> f, a |-> a]
Let(v, f, a)        == [do |-> "let", x |-> v, f |-> f, a |-> a]
Alias(v, w)         == [do |-> "alias", x |-> v, y |-> w]
Return(a)           == [do |-> "return", a |-> a]
If(a, b, then, other) == [do |-> "if", a |-> a, b |-> b, then |-> then, other |-> other]
Whilst(a, b, body)  == [do |-> "whilst", a |-> a, b |-> b, body |-> body]
Try(body, handler)  == [do |-> "try", body |-> body, handler |-> handler]
Pair(op, a, b, op2, c, d) ==
  [do |-> "both", x |-> "x", y |-> "y", op |-> op, a |-> a, b |-> b,
   op2 |-> op2, c |-> c, d |-> d]

(* Functions that are pure, write x, fail on 0, and call themselves.       *)
MCLibrary ==
  [inc   |-> [param |-> "n",
              body |-> <<Compute("r", "ADD", Var("n"), Const(1)), Return(Var("r"))>>],
   bump  |-> [param |-> "n",
              body |-> <<[do |-> "free", x |-> "x"], Assign("x", Const(7)),
                         Compute("r", "ADD", Var("n"), Const(1)), Return(Var("r"))>>],
   check |-> [param |-> "n",
              body |-> <<Compute("r", "IDIV", Const(6), Var("n")), Return(Var("n"))>>],
   steps |-> [param |-> "n",
              body |-> <<If(Var("n"), Const(0),
                            <<Compute("r", "ADD", Var("n"), Const(-1)),
                              Let("q", "steps", Var("r")),
                              Compute("r", "ADD", Var("q"), Const(2)), Return(Var("r"))>>,
                            <<Return(Const(0))>>)>>]]

Simple ==
  {Assign("x", Const(2)), Assign("y", x), Compute("x", "ADD", x, Const(1)),
   Compute("y", "ADD", x, Const(3)), Compute("y", "IDIV", Const(6), x),
   Nested("y", x, y, Const(1)), Compound("x", y), Show(x)}
Compounded ==
  {Ask("x"), Alias("x", "y"), Alias("z", "x"), Call1("bump", x),
   Let("y", "bump", Const(1)), Let("y", "inc", Const(1)), Let("x", "inc", y),
   Let("y", "check", Const(0)), Let("y", "steps", Const(2)),
   [do |-> "swap", x |-> "x", y |-> "y"],
   Pair("ADD", y, Const(1), "ADD", x, Const(1)),
   Pair("ADD", y, Const(1), "ADD", y, Const(2)),
   Pair("ADD", y, Const(1), "IDIV", Const(6), x),
   If(y, x, <<Assign("x", Const(2))>>, <<Compute("y", "ADD", x, Const(1))>>),
   Whilst(Const(4), x, <<Compute("x", "ADD", x, Const(1)), Show(x)>>),
   Try(<<Assign("x", Const(0)), Compute("y", "IDIV", Const(6), x), Assign("x", Const(5))>>,
       <<Compute("y", "ADD", x, Const(1))>>)}

Whole(first, body) == <<Assign("x", Const(1)), first>> \o body \o <<Show(x), Show(y)>>

(* Two statements, and one more that reads x, or none.                     *)
Statements == Simple \cup Compounded
Mixtures ==
  {Whole(Ask("y"), <<s[1], s[2]>> \o s[3]) :
     s \in Statements \X Statements \X {<<>>, <<Compute("y", "ADD", x, Const(3))>>}}

(* free x; x = 7 in a function that is called between two uses of x.       *)
Freed ==
  {Whole(Assign("y", Const(0)),
         <<Call1("bump", Const(0)), Compute("y", "ADD", x, Const(1))>>)}
AllModes == DOMAIN Rounds
=============================================================================
