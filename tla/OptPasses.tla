------------------------------- MODULE OptPasses -------------------------------
(***************************************************************************)
(* The optimiser (runOptPasses, and what generateIR does around it): what  *)
(* each level does to the main code and the functions of a program, pass   *)
(* by pass.  O4 is for BNY alone; every other backend stops at O3.         *)
(*                                                                         *)
(* Left out: the types of values and what depends on them (the smart       *)
(* division, widths, floats, strings), the constants and functions of the  *)
(* math library, warnings, and fields of bundles.                          *)
(***************************************************************************)
EXTENDS IrMachine

CONSTANTS
  Programs,   \* sequences of statements
  Library,    \* the functions programs call: their parameter and statements
  Modes,      \* a subset of DOMAIN Rounds
  MaxDepth    \* how deep calls nest in an evaluation by the compiler

(* How often runOptPasses goes round, by -O level.                         *)
Rounds == [O0 |-> 0, O1 |-> 1, O2 |-> 2, O3 |-> 3, O4 |-> 8, runtime |-> 0]

VARIABLES
  prog,   \* the statements
  mode,   \* the -O level, or "runtime" for --runtime
  main,   \* prog.globalInit
  fns,    \* prog.functions
  stage,  \* the pass that is next
  round   \* rounds of the loop so far

vars == <<prog, mode, main, fns, stage, round>>

Compiled == [f \in DOMAIN Library |->
               [param |-> Library[f].param, code |-> Lowered(Library[f].body)]]

Init ==
  /\ prog \in Programs
  /\ mode \in Modes
  /\ main = Lowered(prog)
  /\ fns = Compiled
  /\ stage = "rounds"
  /\ round = 0

EveryFn(Pass(_)) == [f \in DOMAIN fns |-> [fns[f] EXCEPT !.code = Pass(@)]]

-----------------------------------------------------------------------------
(* runLocalConstFolding.  `facts` is tempConst and varConst.               *)

\* A plausible fault: a loop's head is no obstacle.
Bug_ControlFlow == {"JUMP", "JUMP_IF_FALSE"}
ControlFlow == {"LABEL", "JUMP", "JUMP_IF_FALSE"}
NoFacts == [r \in {} |-> 0]
Forget(facts, r) == [q \in DOMAIN facts \ {r} |-> facts[q]]
Known(facts, r) ==
  IF r.kind = "CONST" THEN {r.const}
  ELSE IF r \in DOMAIN facts THEN {facts[r]} ELSE {}

(* What folds of one instruction: a copy or an operation of known values.  *)
Folds(facts, ins) ==
  IF ins.op \in {"LOAD_CONST", "STORE_VAR"} THEN Known(facts, Source(ins))
  ELSE IF ins.op \in BinOps
       THEN UNION {Apply(ins.op, l, r) : l \in Known(facts, ins.args[1]),
                                         r \in Known(facts, ins.args[2])}
       ELSE {}

Folded(ins, v) ==
  IF ins.op \in BinOps THEN Ins("LOAD_CONST", ins.res, <<Const(v)>>)
  ELSE [ins EXCEPT !.args[Len(ins.args)] = Const(v)]


FoldOne(acc, ins) ==
  IF ins.op \in ControlFlow
  THEN [code |-> Append(acc.code, ins), facts |-> NoFacts]
  ELSE LET v == Folds(acc.facts, ins) IN
       [code  |-> Append(acc.code, IF v = {} THEN ins ELSE Folded(ins, The(v))),
        facts |-> IF v = {} THEN Forget(acc.facts, Target(ins))
                  ELSE (Target(ins) :> The(v)) @@ acc.facts]

LocalFold(code) == FoldLeft(FoldOne, [code |-> <<>>, facts |-> NoFacts], code).code

-----------------------------------------------------------------------------
(* runConstexprFolding: a call whose arguments are constants is run by the *)
(* compiler, if no instruction of the function is one of SideEffects.      *)

SideEffects == {"PRINT", "INPUT", "LIB_CALL", "ALIAS_DECL"}

(* The state of tryConstexprEval; a variable maps to {} if it is VOID.     *)
Evaluation(fs, code, env, depth) ==
  [fs |-> fs, code |-> code, pc |-> 1, env |-> env, depth |-> depth, left |-> MaxSteps]

EvalValue(e, r) ==
  IF r.kind = "CONST" THEN {r.const}
  ELSE IF r \in DOMAIN e.env THEN e.env[r] ELSE {}

RECURSIVE Evaluate(_)
Evaluated(fs, f, arg, depth) ==
  IF \/ depth > MaxDepth
     \/ \E i \in DOMAIN fs[f].code : fs[f].code[i].op \in SideEffects
  THEN {}
  ELSE Evaluate(Evaluation(fs, fs[f].code, Var(fs[f].param) :> {arg}, depth))

Evaluate(e) ==
  IF e.pc > Len(e.code) \/ e.left = 0 THEN {}
  ELSE
    LET ins == e.code[e.pc]
        next == [e EXCEPT !.pc = @ + 1, !.left = @ - 1]
        vals == [i \in 1..Len(Operands(ins)) |-> EvalValue(e, Operands(ins)[i])]
        Put(v) == Evaluate([next EXCEPT !.env = (Target(ins) :> v) @@ @])
        To(l) == Evaluate([next EXCEPT !.pc = Find(e, LAMBDA i : i.op = "LABEL" /\ i.label = l)])
    IN CASE ins.op \in {"FREE_DECL", "LABEL"} -> Evaluate(next)
         [] ins.op = "JUMP" -> To(ins.label)
         [] ins.op = "LOAD_CONST" -> Put(vals[1])
         [] ins.op = "RETURN" -> vals[1]
         [] ins.op \in {"STORE_VAR", "JUMP_IF_FALSE", "CALL"} \cup BinOps ->
              IF \E i \in DOMAIN vals : vals[i] = {} THEN {}
              ELSE IF ins.op = "STORE_VAR" THEN Put(vals[1])
              ELSE IF ins.op = "JUMP_IF_FALSE"
                   THEN IF vals[1] = {0} THEN To(ins.label) ELSE Evaluate(next)
              ELSE IF ins.op = "CALL"
                   THEN LET v == Evaluated(e.fs, ins.callee, The(vals[1]), e.depth + 1)
                        IN IF v = {} THEN {} ELSE Put(v)
              ELSE Put(Apply(ins.op, The(vals[1]), The(vals[2])))
         [] OTHER -> {}

ConstexprOne(ins, fs) ==
  IF ins.op = "CALL" /\ ins.args[1].kind = "CONST"
  THEN LET v == Evaluated(fs, ins.callee, ins.args[1].const, 0)
       IN IF v = {} THEN ins ELSE Ins("LOAD_CONST", ins.res, <<Const(The(v))>>)
  ELSE ins
ConstexprFold(code, fs) == [i \in DOMAIN code |-> ConstexprOne(code[i], fs)]

-----------------------------------------------------------------------------
(* runCopyProp: a temp that is stored into a variable, and used nowhere    *)
(* else, is never made: what defines it writes to the variable.            *)

\* A plausible fault: second operands are not looked at.
Bug_Uses(code, t) ==
  Cardinality({i \in 1..Len(code) : code[i].args # <<>> /\ Head(code[i].args) = t})
Uses(code, t) ==
  Cardinality({<<i, j>> \in (1..Len(code)) \X {1, 2} :
                 j <= Len(code[i].args) /\ code[i].args[j] = t})
Defs(code, t) == {i \in 1..Len(code) : code[i].res = t}

Movable(code, i) ==
  /\ code[i].op = "STORE_VAR"
  /\ Source(code[i]).kind = "TEMP"
  /\ Uses(code, Source(code[i])) = 1
  /\ Defs(code, Source(code[i])) # {}

CopyProp(code) ==
  LET moved == {i \in 1..Len(code) : Movable(code, i)}
      Into(i) == {s \in moved : i = Max(Defs(code, Source(code[s])))}
      Moved(i) == IF Into(i) = {} THEN code[i]
                  ELSE [code[i] EXCEPT !.res = Target(code[The(Into(i))])]
      kept == SelectSeq([i \in 1..Len(code) |-> i], LAMBDA i : i \notin moved)
  IN [n \in 1..Len(kept) |-> Moved(kept[n])]

(* runDCE: temps that nothing uses, where making them does nothing else.   *)
Removable == {"LOAD_CONST"} \cup BinOps
DCE(code) ==
  SelectSeq(code, LAMBDA ins :
    ~(ins.op \in Removable /\ ins.res.kind = "TEMP" /\ Uses(code, ins.res) = 0))

(* The stores of constants into variables that nothing in the program reads. *)
ReadsOf(code) ==
  UNION {ToSet(IF code[i].op = "STORE_VAR" THEN <<Source(code[i])>> ELSE code[i].args)
         : i \in 1..Len(code)}
ProgramReads == ReadsOf(main) \cup UNION {ReadsOf(fns[f].code) : f \in DOMAIN fns}

DropDead(code, reads) ==
  SelectSeq(code, LAMBDA ins :
    ~(/\ ins.op \in {"STORE_VAR", "LOAD_CONST"}
      /\ Target(ins).kind = "VAR"
      /\ Source(ins).kind = "CONST"
      /\ Target(ins) \notin reads))

(* expandAliasWrites: from the declaration on, in the order of the text, a *)
(* store into a variable is followed by one into each of its aliases.      *)
Group(groups, r) == UNION {g \in groups : r \in g} \cup {r}
Store(ins, r) ==
  IF Len(ins.args) = 2 THEN [ins EXCEPT !.args[1] = r] ELSE [ins EXCEPT !.res = r]

\* A plausible fault: the second shape of a store is forgotten.
Bug_ExpandOne(acc, ins) ==
  IF ins.op = "ALIAS_DECL"
  THEN [acc EXCEPT !.groups = @ \cup {{ins.args[1], ins.args[2]}}]
  ELSE LET others == SetToSeq(IF ins.op = "STORE_VAR" /\ ins.res.kind = "VAR"
                              THEN Group(acc.groups, ins.res) \ {ins.res} ELSE {})
       IN [acc EXCEPT !.code = Append(@, ins)
                               \o [i \in 1..Len(others) |-> Store(ins, others[i])]]
ExpandOne(acc, ins) ==
  IF ins.op = "ALIAS_DECL"
  THEN LET both == Group(acc.groups, ins.args[1]) \cup Group(acc.groups, ins.args[2])
       IN [acc EXCEPT !.groups = {g \in @ : g \cap both = {}} \cup {both}]
  ELSE LET others == SetToSeq(IF ins.op = "STORE_VAR" /\ Target(ins).kind = "VAR"
                              THEN Group(acc.groups, Target(ins)) \ {Target(ins)} ELSE {})
       IN [acc EXCEPT !.code = Append(@, ins)
                               \o [i \in 1..Len(others) |-> Store(ins, others[i])]]

ExpandAliases(code) == FoldLeft(ExpandOne, [code |-> <<>>, groups |-> {}], code).code

-----------------------------------------------------------------------------
(* generateIR after lowering.                                              *)

Levels == Modes \ {"runtime"}

(* One round of the loop in runOptPasses: every function, then the main    *)
(* code; at O4 with the evaluation of calls, copy propagation and DCE.  No *)
(* function calls another one, so all are done at once.                    *)
Round ==
  /\ stage = "rounds" /\ mode \in Levels /\ round < Rounds[mode]
  /\ LET folded == EveryFn(LocalFold)
         inlined == EveryFn(LAMBDA code : ConstexprFold(LocalFold(code), folded))
         Tidy(code) == DCE(CopyProp(code))
     IN IF mode = "O4"
        THEN /\ fns' = [f \in DOMAIN fns |-> [inlined[f] EXCEPT !.code = Tidy(@)]]
             /\ main' = Tidy(ConstexprFold(LocalFold(main), inlined))
        ELSE fns' = folded /\ main' = LocalFold(main)
  /\ round' = round + 1
  /\ UNCHANGED <<prog, mode, stage>>

(* After the loop: DCE at every level.                                     *)
Clean ==
  /\ stage = "rounds" /\ mode \in Levels /\ round = Rounds[mode]
  /\ main' = DCE(main)
  /\ fns' = EveryFn(DCE)
  /\ stage' = "stores"
  /\ UNCHANGED <<prog, mode, round>>

DropDeadStores ==
  /\ stage = "stores"
  /\ main' = DropDead(main, ProgramReads)
  /\ fns' = EveryFn(LAMBDA code : DropDead(code, ProgramReads))
  /\ stage' = "aliases"
  /\ UNCHANGED <<prog, mode, round>>

(* --runtime: copy propagation and DCE instead of runOptPasses.            *)
Runtime ==
  /\ stage = "rounds" /\ mode = "runtime"
  /\ main' = DCE(CopyProp(main))
  /\ fns' = EveryFn(LAMBDA code : DCE(CopyProp(code)))
  /\ stage' = "aliases"
  /\ UNCHANGED <<prog, mode, round>>

Expand ==
  /\ stage = "aliases"
  /\ main' = ExpandAliases(main)
  /\ fns' = EveryFn(ExpandAliases)
  /\ stage' = "done"
  /\ UNCHANGED <<prog, mode, round>>

Next == Round \/ Clean \/ DropDeadStores \/ Runtime \/ Expand

Spec == Init /\ [][Next]_vars

-----------------------------------------------------------------------------
(* What the passes assume of a program without checking it.                *)

Codes == {Lowered(prog)} \cup {Compiled[f].code : f \in DOMAIN Compiled}
InstructionsOf(codes) == UNION {ToSet(c) : c \in codes}
Called == {f \in DOMAIN Library :
             \E ins \in ToSet(Lowered(prog)) :
               ins.op \in {"CALL", "LIB_CALL"} /\ ins.callee = f}
Callees == {Compiled[f].code : f \in Called}

(* Variables that are written where folding does not look: by a function   *)
(* that is called, through an alias, or in a try block that was left.      *)
WrittenElsewhere ==
  {ins.args[1] : ins \in {i \in InstructionsOf(Callees) : i.op = "FREE_DECL"}}
    \cup UNION {ToSet(ins.args) :
                  ins \in {i \in ToSet(Lowered(prog)) : i.op = "ALIAS_DECL"}}
    \cup LET code == Lowered(prog) IN
         {Target(code[k]) : k \in {j \in DOMAIN code :
           \E b \in 1..j : /\ code[b].op = "TRY_BEGIN"
                          /\ \A c \in b..j : code[c].op # "CATCH_BEGIN"}}
FoldingSees ==
  \A ins \in ToSet(Lowered(prog)) :
    ins.op \in {"STORE_VAR"} \cup BinOps => ToSet(Operands(ins)) \cap WrittenElsewhere = {}

(* Copy propagation moves a store up to where its temp is made: nothing in *)
(* between may use the variable or leave.                                  *)
StoresFollow ==
  /\ \A code \in Codes : \A i \in DOMAIN code :
       code[i].op = "STORE_VAR" /\ Source(code[i]).kind = "TEMP" =>
         \A k \in (Max(Defs(code, Source(code[i]))) + 1)..(i - 1) :
           /\ Target(code[i]) \notin ToSet(code[k].args) \cup {code[k].res}
           /\ code[k].op \in {"ADD", "GT", "STORE_VAR"}
  /\ \A ins \in ToSet(Lowered(prog)) : ins.op # "ALIAS_DECL"

(* A call that the compiler runs may neither write a variable of the       *)
(* program nor fail.                                                       *)
CallsArePure == \A ins \in InstructionsOf(Callees) : ins.op \notin {"FREE_DECL", "IDIV"}

Tame ==
  /\ mode \notin {"O0", "runtime"} => FoldingSees
  /\ mode \in {"O4", "runtime"} => StoresFollow
  /\ mode = "O4" => CallsArePure

-----------------------------------------------------------------------------
(* Properties.                                                             *)

ExpandedFns(fs) == [f \in DOMAIN fs |-> [fs[f] EXCEPT !.code = ExpandAliases(@)]]
AsWritten == Shown(ExpandedFns(Compiled), ExpandAliases(Lowered(prog)))
AsCompiled == Shown(ExpandedFns(fns), ExpandAliases(main))
SameShown ==
  \/ main = Lowered(prog) /\ fns = Compiled
  \/ AsWritten.status # "cut" => AsCompiled = AsWritten

(* After every pass a program displays what it displays when no pass has   *)
(* run, and fails or ends as it does then, if nothing is written behind    *)
(* the back of the folding, stores follow their temps (O4 and --runtime)   *)
(* and the calls that the compiler runs are pure (O4).                     *)
TameSame == Tame => SameShown

(* The same of every program at the levels that ir.cpp calls the fast and  *)
(* correct ones.                                                           *)
LevelsSame == mode \in {"O1", "O2", "O3"} => SameShown

(* A pass never takes away the instruction that makes a temp and leaves    *)
(* one that reads it.                                                      *)
TempsDefined ==
  \A c \in {main} \cup {fns[f].code : f \in DOMAIN fns} :
    \A i \in DOMAIN c : \A r \in ToSet(Operands(c[i])) :
      r.kind = "TEMP" => \E k \in 1..(i - 1) : c[k].res = r

(* However aliases are declared and however passes rewrite stores, below   *)
(* O4 names that are aliases at the end of a program have the same value,  *)
(* if none of them is assigned from a call or written by a function.       *)
AliasPairs ==
  {<<s.x, s.y>> : s \in {t \in ToSet(prog) : t.do = "alias"}}
AliasesTogether ==
  stage = "done" /\ mode \in {"O0", "O1", "O2", "O3"} =>
    LET m == Run(Machine(fns, main, NoFacts, <<>>, MaxSteps))
        byCall == {ins.res : ins \in {i \in ToSet(Lowered(prog)) : i.op = "CALL"}}
        byFunction == {ins.args[1] : ins \in {i \in InstructionsOf(Callees) :
                                                i.op = "FREE_DECL"}}
    IN m.status = "returned" =>
         \A p \in AliasPairs :
           {Var(p[1]), Var(p[2])} \cap (byCall \cup byFunction) = {} =>
             Value(m, Var(p[1])) = Value(m, Var(p[2]))
=============================================================================
