------------------------------- MODULE IrMachine -------------------------------
(***************************************************************************)
(* The intermediate representation of a program, how statements are        *)
(* lowered to it, and what a program in it displays.                       *)
(*                                                                         *)
(* Backends differ in their text and not in this: an instruction reads its *)
(* operands, writes its result, and control goes to the next one, to a     *)
(* label or to a catch clause.  Expressions are lowered with labels and    *)
(* jumps, as for the native backends; the block markers that the text      *)
(* backends get instead are at the same places.                            *)
(***************************************************************************)
EXTENDS Integers, Sequences, SequencesExt

CONSTANTS
  Globals,   \* names of the program's variables, as a function sees them
  Answer,    \* what Term.ask returns
  MaxSteps   \* how many instructions a run may take

(* References (IRRef).                                                     *)
Const(n) == [kind |-> "CONST", const |-> n]
Var(x)   == [kind |-> "VAR", var |-> x]
Temp(n)  == [kind |-> "TEMP", temp |-> n]
NoRef    == [kind |-> "NONE"]

(* Instructions: the last two forms carry a label and a callee.            *)
Ins(op, res, args)       == [op |-> op, res |-> res, args |-> args]
Jump(op, args, l)        == [op |-> op, res |-> NoRef, args |-> args, label |-> l]
Calling(op, res, f, args) == [op |-> op, res |-> res, args |-> args, callee |-> f]

BinOps == {"ADD", "IDIV", "GT"}

(* STORE_VAR has two shapes, x = stv v and stv x, v: what it writes, what  *)
(* it reads, and the operands an instruction reads.                        *)
Target(ins) == IF ins.op = "STORE_VAR" /\ Len(ins.args) = 2 THEN ins.args[1] ELSE ins.res
Source(ins) == Last(ins.args)
Operands(ins) ==
  IF ins.op = "STORE_VAR" THEN <<Source(ins)>>
  ELSE IF ins.op \in {"FREE_DECL", "ALIAS_DECL"} THEN <<>>
  ELSE ins.args

(* An empty set is no value: a division by zero has none.  Quotients are   *)
(* of numbers that are not negative, where truncating and flooring agree.  *)
Apply(op, l, r) ==
  IF op = "ADD" THEN {l + r}
  ELSE IF op = "GT" THEN {IF l > r THEN 1 ELSE 0}
  ELSE IF r = 0 THEN {} ELSE {l \div r}

The(v) == CHOOSE n \in v : TRUE

-----------------------------------------------------------------------------
(* Lowering.  `low` is the code so far and the next free temp and label.   *)

Emit(low, ins) == [low EXCEPT !.code = Append(@, ins)]

(* lowerExprNode of a binary operation: the value is in the last temp.     *)
WithOp(low, op, a, b) ==
  [Emit(low, Ins(op, Temp(low.temps), <<a, b>>)) EXCEPT !.temps = @ + 1]
Stored(low, x, ref) == Emit(low, Ins("STORE_VAR", Var(x), <<ref>>))
LastTemp(low) == Temp(low.temps - 1)

(* a, b = l + 1, r + 2: no element is a target by itself, so none is saved *)
(* first; a, b = b, a: both are.                                           *)
Both(low, s) ==
  LET one == WithOp(low, s.op, s.a, s.b)
      two == WithOp(one, s.op2, s.c, s.d)
  IN Stored(Stored(two, s.x, LastTemp(one)), s.y, LastTemp(two))
Swap(low, s) ==
  LET saved == Stored(Stored(low, "swap0", Var(s.y)), "swap1", Var(s.x))
  IN Stored(Stored(saved, s.x, Var("swap0")), s.y, Var("swap1"))

RECURSIVE LowerAll(_, _)
Lower(low, s) ==
  CASE s.do = "assign" -> Stored(low, s.x, s.a)
    [] s.do = "compute" ->
         LET c == WithOp(low, s.op, s.a, s.b) IN Stored(c, s.x, LastTemp(c))
    [] s.do = "nested" ->
         LET inner == WithOp(low, "ADD", s.b, s.c)
             outer == WithOp(inner, "ADD", s.a, LastTemp(inner))
         IN Stored(outer, s.x, LastTemp(outer))
    [] s.do = "compound" ->
         LET c == WithOp(low, "ADD", Var(s.x), s.a)
         IN Emit(c, Ins("STORE_VAR", NoRef, <<Var(s.x), LastTemp(c)>>))
    [] s.do = "both" -> Both(low, s)
    [] s.do = "swap" -> Swap(low, s)
    [] s.do = "ask" ->
         LET c == [Emit(low, Ins("INPUT", Temp(low.temps), <<>>)) EXCEPT !.temps = @ + 1]
         IN Stored(c, s.x, LastTemp(c))
    [] s.do = "show" -> Emit(low, Ins("PRINT", NoRef, <<s.a>>))
    [] s.do = "run" -> Emit(low, Calling("LIB_CALL", NoRef, s.f, <<s.a>>))
    [] s.do = "let" -> Emit(low, Calling("CALL", Var(s.x), s.f, <<s.a>>))
    [] s.do = "free" -> Emit(low, Ins("FREE_DECL", NoRef, <<Var(s.x)>>))
    [] s.do = "return" -> Emit(low, Ins("RETURN", NoRef, <<s.a>>))
    [] s.do = "alias" ->
         Stored(Emit(low, Ins("ALIAS_DECL", NoRef, <<Var(s.x), Var(s.y)>>)), s.x, Var(s.y))
    [] s.do = "if" ->
         LET cond == [WithOp(low, "GT", s.a, s.b) EXCEPT !.labels = @ + 2]
             then == LowerAll(Emit(cond, Jump("JUMP_IF_FALSE", <<LastTemp(cond)>>, low.labels)),
                              s.then)
             over == Emit(Emit(then, Jump("JUMP", <<>>, low.labels + 1)),
                          Jump("LABEL", <<>>, low.labels))
         IN Emit(LowerAll(over, s.other), Jump("LABEL", <<>>, low.labels + 1))
    [] s.do = "whilst" ->
         LET start == [Emit(low, Jump("LABEL", <<>>, low.labels)) EXCEPT !.labels = @ + 2]
             cond  == WithOp(start, "GT", s.a, s.b)
             body  == LowerAll(Emit(cond, Jump("JUMP_IF_FALSE", <<LastTemp(cond)>>,
                                               low.labels + 1)), s.body)
         IN Emit(Emit(body, Jump("JUMP", <<>>, low.labels)),
                 Jump("LABEL", <<>>, low.labels + 1))
    [] s.do = "try" ->
         LET body == LowerAll(Emit(low, Ins("TRY_BEGIN", NoRef, <<>>)), s.body)
         IN Emit(LowerAll(Emit(body, Ins("CATCH_BEGIN", NoRef, <<>>)), s.handler),
                 Ins("TRY_END", NoRef, <<>>))

LowerAll(low, stmts) == FoldLeft(Lower, low, stmts)
Lowered(stmts) == LowerAll([code |-> <<>>, temps |-> 1, labels |-> 1], stmts).code

-----------------------------------------------------------------------------
(* Running.  A machine has the functions, the code it runs and where, its  *)
(* environment, what it displayed, and how it stands.                      *)

Machine(fns, code, env, out, left) ==
  [fns |-> fns, code |-> code, pc |-> 1, env |-> env, out |-> out, left |-> left,
   status |-> "runs", ret |-> {}]

Value(m, r) ==
  IF r.kind = "CONST" THEN {r.const}
  ELSE IF r \in DOMAIN m.env THEN {m.env[r]} ELSE {}

Find(m, P(_)) == CHOOSE i \in 1..Len(m.code) : P(m.code[i])
GoTo(m, l) ==
  [m EXCEPT !.pc = Find(m, LAMBDA ins : ins.op = "LABEL" /\ ins.label = l) + 1]

(* The catch clause of the try block that pc is in; blocks are not nested. *)
Clauses(m) ==
  {j \in (m.pc + 1)..Len(m.code) :
     /\ m.code[j].op = "CATCH_BEGIN"
     /\ \E i \in 1..m.pc : /\ m.code[i].op = "TRY_BEGIN"
                           /\ \A k \in i..j : m.code[k].op # "TRY_END"}
Raise(m) ==
  IF Clauses(m) = {} THEN [m EXCEPT !.status = "raised"]
  ELSE [m EXCEPT !.pc = The(Clauses(m)) + 1]
LeaveTry(m) ==
  [m EXCEPT !.pc = The({j \in m.pc..Len(m.code) :
                          /\ m.code[j].op = "TRY_END"
                          /\ \A k \in m.pc..(j - 1) : m.code[k].op # "TRY_END"})]

GlobalPart(env) == [r \in {Var(x) : x \in Globals} \cap DOMAIN env |-> env[r]]

RECURSIVE Run(_)
(* A function sees its parameter and the program's variables.              *)
Call(m, ins, arg) ==
  LET f == m.fns[ins.callee]
      callee == Run(Machine(m.fns, f.code, (Var(f.param) :> arg) @@ GlobalPart(m.env),
                            m.out, m.left))
      back == [m EXCEPT !.env = GlobalPart(callee.env) @@ @, !.out = callee.out,
                        !.left = callee.left]
  IN IF callee.status = "cut" THEN [back EXCEPT !.status = "cut"]
     ELSE IF callee.status = "raised" THEN Raise(back)
     ELSE [back EXCEPT !.pc = @ + 1,
                       !.env = IF ins.op = "CALL" THEN (ins.res :> The(callee.ret)) @@ @
                               ELSE @]

StepOf(m) ==
  LET ins == m.code[m.pc]
      vals == [i \in 1..Len(Operands(ins)) |-> Value(m, Operands(ins)[i])]
      next == [m EXCEPT !.pc = @ + 1]
      Put(v) == [next EXCEPT !.env = (Target(ins) :> v) @@ @]
  IN IF \E i \in DOMAIN vals : vals[i] = {} THEN Raise(m)
     ELSE CASE ins.op \in {"LOAD_CONST", "STORE_VAR"} -> Put(The(vals[1]))
            [] ins.op = "INPUT" -> Put(Answer)
            [] ins.op \in BinOps ->
                 LET v == Apply(ins.op, The(vals[1]), The(vals[2]))
                 IN IF v = {} THEN Raise(m) ELSE Put(The(v))
            [] ins.op = "PRINT" -> [next EXCEPT !.out = Append(@, The(vals[1]))]
            [] ins.op \in {"CALL", "LIB_CALL"} -> Call(m, ins, The(vals[1]))
            [] ins.op = "RETURN" -> [m EXCEPT !.status = "returned", !.ret = vals[1]]
            [] ins.op = "JUMP" -> GoTo(m, ins.label)
            [] ins.op = "JUMP_IF_FALSE" ->
                 IF vals[1] = {0} THEN GoTo(m, ins.label) ELSE next
            [] ins.op = "CATCH_BEGIN" -> LeaveTry(m)
            [] OTHER -> next

Run(m) ==
  IF m.status # "runs" THEN m
  ELSE IF m.pc > Len(m.code) THEN [m EXCEPT !.status = "returned"]
  ELSE IF m.left = 0 THEN [m EXCEPT !.status = "cut"]
  ELSE Run(StepOf([m EXCEPT !.left = @ - 1]))

(* What a user sees of a program: what it displays and whether it dies.    *)
Shown(fns, code) ==
  LET m == Run(Machine(fns, code, [r \in {} |-> 0], <<>>, MaxSteps))
  IN [out |-> m.out, status |-> m.status]
=============================================================================
