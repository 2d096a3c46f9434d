---------------------------- MODULE ControlPromise ----------------------------
(***************************************************************************)
(* What the texts of ControlText owe to the programs of AcSource, for the  *)
(* programs that a language carries, and which ones it does not.           *)
(***************************************************************************)
EXTENDS AcSource, ControlRun

-----------------------------------------------------------------------------
(* Shapes of programs that a language does not carry.                      *)

Source == prog.src
All == Within(Source.main) \cup Within(Source.f)
Tries == {s \in All : s.op = "try"}
Bodies(t) == {t.body} \cup Range(t.catches)

Throws(block) == {Fail, Call} \cap Within(block) # {}

(* A loop calls what writes a variable that the loop saves.                *)
FreeLost ==
  \E s \in Within(Source.main) : /\ s.op = "loop" /\ Call \in Within(s.body)
                                 /\ \E w \in Within(Source.f) : w.op = "set" /\ w.v \in FreeVars(prog)
(* Control leaves a try that has `after` other than by its end.            *)
AfterSkipped ==
  \E t \in Tries : t.after # <<>> /\ (\/ \E b \in Bodies(t) : Leaves(b)
                                      \/ \E b \in Range(t.catches) : Throws(b))
(* `return` or /end leaves the body of a try.                              *)
LeavesTry == \E t \in Tries : Leaves(t.body)
(* A local variable changes in the body of a try.                          *)
Clobbered ==
  \E t \in Tries : \E s \in Within(t.body) : s.op = "set" /\ s.v \notin prog.free
(* A division fails in an atomic assignment.                               *)
LockKept == \E s \in All : s.op = "atomic" /\ Fail \in Within(s.body)
SeveralCatches == \E t \in Tries : Len(t.catches) > 1
(* `return` is the last statement of the last catch.                       *)
CatchReturns == \E t \in Tries : Last(t.catches) # <<>> /\ Last(Last(t.catches)) = Leave
(* A variable is new in a clause of a try, or in a block before a loop.    *)
Known(i) == {Source.main[j].v : j \in {k \in 1..(i - 1) : Source.main[k].op = "set"}}
NewIn(kinds) ==
  {i \in 1..Len(Source.main) :
     \E t \in Within(<<Source.main[i]>>) : /\ t.op \in kinds
       /\ \E s \in Within(<<t>>) : s.op = "set" /\ s.v \notin Known(i)}
LoopsIn(i) == {s \in Within(<<Source.main[i]>>) : s.op = "loop"}
NewInTry == NewIn({"try"}) # {}
NewBeforeLoop == \E i \in NewIn({"try", "if"}) : \E j \in i..Len(Source.main) : LoopsIn(j) # {}
(* The first loop at its depth is in a block, and a later one is not.      *)
SlotReused ==
  LET c == prog.main
      blocks == Paths(c, {"if", "else", "loop", "try", "catch", "after"},
                         {"else", "endif", "endloop", "catch", "after", "endtry"})
      loops == Paths(c, {"loop"}, {"endloop"})
      Level(i) == {j \in 1..Len(c) : c[j].op = "loop" /\ Len(loops[j]) = Len(loops[i])}
  IN \E i, j \in 1..Len(c) : /\ c[i].op = "loop" /\ j \in Level(i)
                             /\ \A k \in Level(i) : i <= k
                             /\ ~ IsPrefix(blocks[i], blocks[j])

Compiles ==
  CASE dialect = "PY" -> TRUE
    [] dialect = "CPP" -> ~ (NewInTry \/ SlotReused)
    [] dialect = "C" -> ~ (NewInTry \/ SlotReused \/ SeveralCatches)
    [] dialect = "Java" -> ~ (NewInTry \/ SlotReused \/ CatchReturns \/ SeveralCatches)
Carries ==
  CASE dialect = "PY" -> ~ (FreeLost \/ NewBeforeLoop)
    [] dialect = "CPP" -> ~ (FreeLost \/ AfterSkipped \/ LockKept)
    [] dialect = "C" -> ~ (FreeLost \/ AfterSkipped \/ LockKept \/ LeavesTry \/ Clobbered)
    [] dialect = "Java" -> ~ FreeLost
Fits == Compiles /\ Carries

-----------------------------------------------------------------------------
(* Properties.                                                             *)

Promise == Meaning(Source.main, Source.f)
Final == mode \in {"rejected", "ended", "died", "hangs", "wild"}
Says == /\ mode = IF Promise.how = "throw" THEN "died" ELSE "ended"
        /\ out = Promise.out

(* The compiler of the language refuses exactly the texts of the shapes    *)
(* that Compiles names: block-scoped names that hoisting and the reuse of  *)
(* slots leave out, a second `else`, a second catch of the same type, a    *)
(* catch whose end was dropped.                                            *)
TextAccepted == unit = "done" /\ mode = "gen" => (Accepts <=> Compiles)

(* A text that fits its language ends as the program does, having printed  *)
(* what the program promises, through every way out of its blocks.         *)
DoesAsAc == Final /\ Fits => Says

(* In C, _ac_try_depth is the number of try bodies that control is in, in  *)
(* all frames, and no longjmp goes to a frame that has returned ("must     *)
(* each run exactly once"), unless `return` or /end leaves a try body.     *)
InBodies(f) == Cardinality({i \in Around(closers[f.unit], f.pc) : text[f.unit][i].k = "setjmp"})
AtStatement == mode = "run" /\ ~ AtEnd /\ L.k \in {"set", "show", "say", "div", "call"}
HandlersMatch ==
  dialect = "C" =>
    \/ /\ mode # "wild"
       /\ AtStatement => depth = MapThenSumSet(LAMBDA i : InBodies(frames[i]), 1..Len(frames))
    \/ LeavesTry
=============================================================================
