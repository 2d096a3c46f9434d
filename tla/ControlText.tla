----------------------------- MODULE ControlText -----------------------------
(***************************************************************************)
(* How ir_codegen.cpp writes a program's control structure as text for     *)
(* Python, C++, C and Java: the loop of genInstr over the functions and    *)
(* the mainloop, with what it remembers from one instruction to the next   *)
(* (dead code, defined variables, saved variables of the open loops, names *)
(* declared), and what a compiler of the language says of the result.      *)
(*                                                                         *)
(* An instruction is [op, v, n]: the opcode, a variable, a number.  A line *)
(* of text is [k, a, n, d]: its kind, the name it is about, a number and   *)
(* whether it declares the name.  The name of a variable is <<v, 0>>, that *)
(* of the slot _ac_s<k>_v is <<v, k + 1>>.                                 *)
(***************************************************************************)
EXTENDS Integers, FiniteSets, SequencesExt

CONSTANTS
  Dialects,   \* a subset of {"PY", "CPP", "C", "Java"}
  Programs,   \* records [f, main, free]: the code of the function and of
              \* the mainloop, and what the function declares `free`
  Variables

Unset == -1   \* what a variable without a value holds
Ins(op, v, n) == [op |-> op, v |-> v, n |-> n]
Ops == {"set", "show", "say", "div", "call", "return", "break", "if", "else", "endif",
        "loop", "endloop", "lock", "unlock", "try", "catch", "after", "endtry"}
Instructions == [op : Ops, v : Variables \cup {""}, n : Nat]

ASSUME DialectsAssumption == Dialects \subseteq {"PY", "CPP", "C", "Java"}
ASSUME VariablesAssumption == "" \notin Variables
(* How many loops are open after the first k instructions.                 *)
OpenLoops(c, k) ==
  Cardinality({i \in 1..k : c[i].op = "loop"}) - Cardinality({i \in 1..k : c[i].op = "endloop"})
LoopsClose(c) == OpenLoops(c, Len(c)) = 0 /\ \A k \in 0..Len(c) : OpenLoops(c, k) >= 0

ASSUME ProgramsAssumption ==
  \A p \in Programs : /\ p.f \in Seq(Instructions) /\ LoopsClose(p.f)
                      /\ p.main \in Seq(Instructions) /\ LoopsClose(p.main)
                      /\ p.free \subseteq Variables

VARIABLES
  prog, dialect,
  unit,        \* "f", then "main", then "done"
  at,          \* the next instruction of the unit
  text,        \* the lines written of each unit
  loopDepth,   \* loopDepth_
  saveStack,   \* scopeSaveStack_: the variables saved by each open loop
  defined,     \* definedSoFar_
  dead,        \* javaDeadCode_
  declared     \* the strategy's declared

genVars == <<prog, dialect, unit, at, text, loopDepth, saveStack, defined, dead, declared>>

-----------------------------------------------------------------------------
(* What the generator finds out before it writes.                          *)

(* What is open at each instruction: the stack of openers before it; an    *)
(* operation may both end a block and open one.                            *)
Paths(c, opens, ends) ==
  LET path[i \in 1..Len(c)] ==
        IF i = 1 THEN <<>>
        ELSE LET left == IF c[i - 1].op \in ends THEN Front(path[i - 1]) ELSE path[i - 1]
             IN IF c[i - 1].op \in opens THEN Append(left, i - 1) ELSE left
  IN path

Mentions(c, v) == {i \in 1..Len(c) : c[i].v = v}
Stores(c, v) == {i \in Mentions(c, v) : c[i].op = "set"}

Bug_FreeVars(p) ==          \* variables that a loop changes on purpose are not excepted
  LET loops == Paths(p.main, {"loop"}, {"endloop"})
  IN {v \in Variables : \E i \in Stores(p.main, v) : loops[i] = <<>>}
(* freeVarNames_: stored outside the mainloop's loops and never in one.    *)
FreeVars(p) ==
  LET loops == Paths(p.main, {"loop"}, {"endloop"})
  IN {v \in Variables : Stores(p.main, v) # {} /\ \A i \in Stores(p.main, v) : loops[i] = <<>>}

(* hoistVars_: mentioned first on a path that is no prefix of a later one; *)
(* a path goes through `if` and loops, not through `try`.                  *)
Escaping(c) ==
  LET paths == Paths(c, {"if", "else", "loop"}, {"else", "endif", "endloop"})
  IN {v \in Variables :
        \E first, later \in Mentions(c, v) :
          /\ \A i \in Mentions(c, v) : first <= i
          /\ ~ IsPrefix(paths[first], paths[later])}
Bug_Hoisted(p, u) == Escaping(p[u])          \* the mainloop is looked at once
(* The mainloop is in globalInit and again in mainSection.                 *)
Hoisted(p, u) == IF u = "main" THEN Escaping(p.main \o p.main) ELSE Escaping(p.f)

-----------------------------------------------------------------------------
(* The lines of the strategies.                                            *)

None == <<"", 0>>
Var(v) == <<v, 0>>
Slot(v, depth) == <<v, depth + 1>>
Line(k, a, n, d) == [k |-> k, a |-> a, n |-> n, d |-> d]
Word(k) == Line(k, None, 0, FALSE)
Open(kind) == Line(kind, None, 0, FALSE)
Close == Word("close")
Depth(n) == Line("depth", None, n, FALSE)

Openers == {"if", "otherwise", "loop", "block", "try", "catch", "finally", "setjmp", "else", "with"}

PyClause(op) ==
  CASE op = "try" -> <<Open("try")>>
    [] op = "catch" -> <<Close, Open("catch")>>
    [] op = "after" -> <<Close, Open("finally")>>
    [] op = "endtry" -> <<Close>>
JavaClause(op) ==
  CASE op = "try" -> <<Open("try")>>
    [] op = "catch" -> <<Close, Open("catch")>>
    [] op = "after" -> <<Close, Open("finally")>>
    [] op = "endtry" -> <<Close>>
CppClause(op) ==
  CASE op = "try" -> <<Open("try")>>
    [] op = "catch" -> <<Close, Open("catch")>>
    [] op = "after" -> <<Close, Open("block")>>
    [] op = "endtry" -> <<Close>>
Bug_CClause(op) ==          \* a body that ends does not give its jmp_buf back
  CASE op = "try" -> <<Open("block"), Depth(1), Open("setjmp")>>
    [] op = "catch" -> <<Close, Open("else"), Depth(-1)>>
    [] op = "after" -> <<Close, Open("block")>>
    [] op = "endtry" -> <<Close, Close>>
CClause(op) ==
  CASE op = "try" -> <<Open("block"), Depth(1), Open("setjmp")>>
    [] op = "catch" -> <<Depth(-1), Close, Open("else"), Depth(-1)>>
    [] op = "after" -> <<Close, Open("block")>>
    [] op = "endtry" -> <<Close, Close>>
Clause(lang, op) ==
  CASE lang = "PY" -> PyClause(op)
    [] lang = "Java" -> JavaClause(op)
    [] lang = "CPP" -> CppClause(op)
    [] lang = "C" -> CClause(op)

(* Python's `with` and Java's `synchronized` are blocks; C and C++ call    *)
(* the mutex.                                                              *)
Bracket(lang, op) ==
  IF lang \in {"PY", "Java"}
  THEN IF op = "lock" THEN <<Open("with")>> ELSE <<Close>>
  ELSE <<Word(op)>>

(* emitScopeEnter: Python assigns, the others declare a slot they have not *)
(* declared before.  emitScopeExit puts the values back.                   *)
PySaves(slots) == [i \in 1..Len(slots) |-> Line("save", slots[i], 0, FALSE)]
DeclaredSaves(slots, names) ==
  [i \in 1..Len(slots) |-> Line("save", slots[i], 0, slots[i] \notin names)]
Saves(lang, slots, names) == IF lang = "PY" THEN PySaves(slots) ELSE DeclaredSaves(slots, names)
Restores(slots) == [i \in 1..Len(slots) |-> Line("restore", slots[i], 0, FALSE)]

-----------------------------------------------------------------------------
(* The loop over the instructions.                                         *)

Code == prog[unit]
Now == Code[at]
Prunes == dialect \in {"Java"}
(* isBlockBoundaryOp.                                                      *)
Boundary == {"if", "else", "endif", "loop", "endloop", "try", "catch"}

Writing == unit # "done" /\ at <= Len(Code)
Alive == Writing /\ (Prunes /\ dead => Now.op \in Boundary)
Emit(lines) ==
  /\ at' = at + 1
  /\ text' = [text EXCEPT ![unit] = @ \o lines]
  /\ UNCHANGED <<prog, dialect, unit>>
Reached == dead' = FALSE

(* An unreachable instruction of Java is dropped, whatever it is.          *)
Suppress ==
  /\ Writing /\ ~ Alive
  /\ at' = at + 1
  /\ UNCHANGED <<prog, dialect, unit, text, loopDepth, saveStack, defined, dead, declared>>

(* STORE_VAR.  A promoted variable was declared for the file; FUNC and     *)
(* emitMainBegin declared the hoisted ones.                                *)
Assign ==
  /\ Alive /\ Now.op = "set"
  /\ Emit(<<Line("set", Var(Now.v), Now.n, dialect # "PY" /\ Var(Now.v) \notin declared)>>)
  /\ declared' = declared \cup {Var(Now.v)}
  /\ defined' = IF unit = "main" THEN defined \cup {Now.v} ELSE defined
  /\ UNCHANGED <<loopDepth, saveStack, dead>>

Slots(saved, depth) == {Slot(v, depth) : v \in saved}

(* WHILE_BEGIN, FOR_BEGIN: the mainloop's loops save.                      *)
LoopBegin ==
  LET saved == IF unit = "main" THEN FreeVars(prog) \cap defined ELSE {}
      slots == Slots(saved, loopDepth)
  IN /\ Alive /\ Now.op = "loop"
     /\ Emit(Saves(dialect, SetToSeq(slots), declared) \o <<Line("loop", None, Now.n, FALSE)>>)
     /\ saveStack' = IF unit = "main" THEN Append(saveStack, saved) ELSE saveStack
     /\ declared' = IF dialect = "PY" THEN declared ELSE declared \cup slots
     /\ loopDepth' = loopDepth + 1
     /\ Reached
     /\ UNCHANGED defined

Bug_LoopEnd ==          \* the entry is read and not popped
  LET saved == IF unit = "main" /\ saveStack # <<>> THEN Last(saveStack) ELSE {}
  IN /\ Alive /\ Now.op = "endloop"
     /\ Emit(<<Close>> \o Restores(SetToSeq(Slots(saved, loopDepth - 1))))
     /\ loopDepth' = loopDepth - 1
     /\ Reached
     /\ UNCHANGED <<saveStack, defined, declared>>
(* WHILE_END, FOR_END: the depth goes down first, then they restore.       *)
LoopEnd ==
  LET pops == unit = "main" /\ saveStack # <<>>
      saved == IF pops THEN Last(saveStack) ELSE {}
  IN /\ Alive /\ Now.op = "endloop"
     /\ Emit(<<Close>> \o Restores(SetToSeq(Slots(saved, loopDepth - 1))))
     /\ saveStack' = IF pops THEN Front(saveStack) ELSE saveStack
     /\ loopDepth' = loopDepth - 1
     /\ Reached
     /\ UNCHANGED <<defined, declared>>

TryClause ==
  /\ Alive /\ Now.op \in {"try", "catch", "after", "endtry"}
  /\ Emit(Clause(dialect, Now.op))
  /\ Reached
  /\ UNCHANGED <<loopDepth, saveStack, defined, declared>>

Lock ==
  /\ Alive /\ Now.op \in {"lock", "unlock"}
  /\ Emit(Bracket(dialect, Now.op))
  /\ UNCHANGED <<loopDepth, saveStack, defined, dead, declared>>

Return ==
  /\ Alive /\ Now.op = "return"
  /\ Emit(<<Word("return")>>)
  /\ dead' = (dead \/ Prunes)
  /\ UNCHANGED <<loopDepth, saveStack, defined, declared>>

IfBranch ==
  /\ Alive
  /\ \/ Now.op = "if" /\ Emit(<<Line("if", Var(Now.v), 0, FALSE)>>)
     \/ Now.op = "else" /\ Emit(<<Close, Open("otherwise")>>)
     \/ Now.op = "endif" /\ Emit(<<Close>>)
  /\ Reached
  /\ UNCHANGED <<loopDepth, saveStack, defined, declared>>

Plain ==
  /\ Alive /\ Now.op \in {"show", "say", "div", "call", "break"}
  /\ Emit(<<Line(Now.op, IF Now.op = "show" THEN Var(Now.v) ELSE None, Now.n, FALSE)>>)
  /\ UNCHANGED <<loopDepth, saveStack, defined, dead, declared>>

(* emitFunctionBegin and emitMainBegin: what is in scope from the start.   *)
FromStart(u) == {Var(v) : v \in prog.free \cup Hoisted(prog, u)}
(* FUNC_END and the first instruction of the mainloop find the flag down.  *)
NextUnit ==
  /\ unit # "done" /\ at > Len(Code)
  /\ unit' = IF unit = "f" THEN "main" ELSE "done"
  /\ at' = 1
  /\ declared' = IF unit = "f" /\ dialect # "PY" THEN FromStart("main") ELSE declared
  /\ dead' = FALSE
  /\ UNCHANGED <<prog, dialect, text, loopDepth, saveStack, defined>>

GenInit ==
  /\ prog \in Programs /\ dialect \in Dialects
  /\ unit = "f" /\ at = 1
  /\ text = [u \in {"f", "main"} |-> <<>>]
  /\ loopDepth = 0 /\ saveStack = <<>>
  /\ defined = {} /\ dead = FALSE
  /\ declared = IF dialect = "PY" THEN {} ELSE FromStart("f")

Instr == \/ Suppress \/ Assign \/ LoopBegin \/ LoopEnd \/ TryClause
         \/ Lock \/ Return \/ IfBranch \/ Plain
Generate == Instr \/ NextUnit

-----------------------------------------------------------------------------
(* Properties.                                                             *)

(* scopeSaveStack_ has an entry for each open loop of the mainloop, none   *)
(* is left over, and what it names is a free variable that had a value in  *)
(* the text before the loop ("Stack keeps enter/exit paired").             *)
SavesPair ==
  /\ unit = "f" => saveStack = <<>>
  /\ unit = "main" => Len(saveStack) = loopDepth
  /\ unit = "done" => saveStack = <<>> /\ loopDepth = 0
  /\ \A i \in 1..Len(saveStack) : saveStack[i] \subseteq FreeVars(prog) \cap defined
=============================================================================
