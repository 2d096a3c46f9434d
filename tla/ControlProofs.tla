---------------------------- MODULE ControlProofs ----------------------------
(***************************************************************************)
(* The saves and restores of the mainloop's loops pair, in every text that *)
(* is generated: SavesPair is an invariant, for all programs whose loops   *)
(* are nested, all languages, and whatever Java's dead code drops.         *)
(*                                                                         *)
(* SavesPair alone is not inductive.  That an end of a loop finds an entry *)
(* needs loopDepth_ to be the number of loops open before the instruction, *)
(* and that it is 0 between two units: the function's loops leave it so.   *)
(***************************************************************************)
EXTENDS ControlRun, TLAPS, FiniteSetTheorems

Typed ==
  /\ prog \in Programs
  /\ unit \in {"f", "main", "done"}
  /\ at \in Nat \ {0}
  /\ loopDepth \in Int
  /\ saveStack \in Seq(SUBSET Variables)

(* loopDepth_ counts the loops that are open.                              *)
DepthCounts ==
  /\ unit # "done" => at - 1 <= Len(prog[unit]) /\ loopDepth = OpenLoops(prog[unit], at - 1)
  /\ unit = "done" => loopDepth = 0

IInv == Typed /\ DepthCounts /\ SavesPair

-----------------------------------------------------------------------------
(* How many of the first k instructions satisfy an operation.              *)
Number(c, k, op) == Cardinality({i \in 1..k : c[i].op = op})

(* One more instruction: the count grows by one if it is of the kind.      *)
LEMMA NumberStep ==
  ASSUME NEW c, NEW k \in Nat \ {0}, NEW op
  PROVE  /\ Number(c, k - 1, op) \in Nat
         /\ Number(c, k, op) = Number(c, k - 1, op) + (IF c[k].op = op THEN 1 ELSE 0)
<1> DEFINE S(n) == {i \in 1..n : c[i].op = op}
<1>1. k - 1 \in Nat /\ 1..k = (1..(k - 1)) \cup {k} /\ k \notin 1..(k - 1)
  OBVIOUS
<1>2. IsFiniteSet(1..(k - 1)) /\ S(k - 1) \subseteq 1..(k - 1)
  BY <1>1, FS_Interval
<1>3. IsFiniteSet(S(k - 1)) /\ Cardinality(S(k - 1)) \in Nat
  BY <1>2, FS_Subset, FS_CardinalityType
<1>4. Number(c, k, op) = Cardinality(S(k)) /\ Number(c, k - 1, op) = Cardinality(S(k - 1))
  BY DEF Number
<1>5. CASE c[k].op = op
  <2>1. S(k) = S(k - 1) \cup {k} /\ k \notin S(k - 1)
    BY <1>1, <1>5
  <2>2. Cardinality(S(k)) = Cardinality(S(k - 1)) + 1
    <3> HIDE DEF S
    <3> QED
      BY <1>3, <2>1, FS_AddElement
  <2> QED
    BY <1>3, <1>4, <1>5, <2>2
<1>6. CASE c[k].op # op
  <2>1. S(k) = S(k - 1)
    BY <1>1, <1>6
  <2>2. Number(c, k, op) = Number(c, k - 1, op)
    <3> HIDE DEF S
    <3> QED
      BY <1>4, <2>1
  <2> QED
    BY <1>3, <1>4, <1>6, <2>2
<1> QED
  BY <1>5, <1>6

(* OpenLoops goes up at a loop, down at its end, and stays otherwise.      *)
LEMMA OpenStep ==
  ASSUME NEW c, NEW k \in Nat \ {0}
  PROVE  /\ OpenLoops(c, k - 1) \in Int
         /\ c[k].op = "loop" => OpenLoops(c, k) = OpenLoops(c, k - 1) + 1
         /\ c[k].op = "endloop" => OpenLoops(c, k) = OpenLoops(c, k - 1) - 1
         /\ c[k].op \notin {"loop", "endloop"} => OpenLoops(c, k) = OpenLoops(c, k - 1)
<1>1. /\ Number(c, k - 1, "loop") \in Nat
      /\ Number(c, k, "loop") = Number(c, k - 1, "loop") + (IF c[k].op = "loop" THEN 1 ELSE 0)
  BY NumberStep
<1>2. /\ Number(c, k - 1, "endloop") \in Nat
      /\ Number(c, k, "endloop")
           = Number(c, k - 1, "endloop") + (IF c[k].op = "endloop" THEN 1 ELSE 0)
  BY NumberStep
<1>3. \A n : OpenLoops(c, n) = Number(c, n, "loop") - Number(c, n, "endloop")
  BY DEF OpenLoops, Number
<1> QED
  BY <1>1, <1>2, <1>3

(* Nothing is open before the first instruction.                           *)
LEMMA OpenNone == ASSUME NEW c PROVE OpenLoops(c, 0) = 0
<1>1. \A op : {i \in 1..0 : c[i].op = op} = {}
  OBVIOUS
<1> QED
  BY <1>1, FS_EmptySet DEF OpenLoops

(* The loops of the code are nested and closed at its end.                 *)
LEMMA CodeNested ==
  ASSUME NEW p \in Programs, NEW u \in {"f", "main"}
  PROVE  /\ Len(p[u]) \in Nat
         /\ OpenLoops(p[u], Len(p[u])) = 0
         /\ \A k \in 0..Len(p[u]) : OpenLoops(p[u], k) >= 0
<1>1. CASE u = "f"
  BY <1>1, ProgramsAssumption DEF LoopsClose
<1>2. CASE u = "main"
  BY <1>2, ProgramsAssumption DEF LoopsClose
<1> QED
  BY <1>1, <1>2

(* What a generator keeps are variables of the program.                    *)
LEMMA FreeAreVariables == ASSUME NEW p PROVE FreeVars(p) \subseteq Variables
  BY DEF FreeVars

-----------------------------------------------------------------------------
(* The invariant holds before the first instruction.                       *)
LEMMA InitIInv == Init => IInv
<1> SUFFICES ASSUME Init PROVE IInv
  OBVIOUS
<1>1. Typed
  BY DEF Init, GenInit, Typed
<1>2. DepthCounts
  <2>1. Len(prog["f"]) \in Nat
    BY CodeNested DEF Init, GenInit
  <2> QED
    BY <2>1, OpenNone DEF Init, GenInit, DepthCounts
<1>3. SavesPair
  BY DEF Init, GenInit, SavesPair
<1> QED
  BY <1>1, <1>2, <1>3 DEF IInv

-----------------------------------------------------------------------------
(* An instruction that is written or dropped stands in a unit.             *)
LEMMA Standing ==
  ASSUME IInv, Writing
  PROVE  /\ unit \in {"f", "main"} /\ at \in Nat \ {0} /\ at <= Len(prog[unit])
         /\ Len(prog[unit]) \in Nat
         /\ OpenLoops(prog[unit], at - 1) = loopDepth
         /\ OpenLoops(prog[unit], at) >= 0
<1>1. unit \in {"f", "main"} /\ at \in Nat \ {0} /\ prog \in Programs
  BY DEF IInv, Typed, Writing
<1>2. at <= Len(prog[unit]) /\ OpenLoops(prog[unit], at - 1) = loopDepth
  BY <1>1 DEF IInv, DepthCounts, Writing, Code
<1>3. Len(prog[unit]) \in Nat /\ \A k \in 0..Len(prog[unit]) : OpenLoops(prog[unit], k) >= 0
  BY <1>1, CodeNested
<1>4. at \in 0..Len(prog[unit])
  BY <1>1, <1>2, <1>3
<1> QED
  BY <1>1, <1>2, <1>3, <1>4

(* An instruction that is no loop: the depth and the stack stay.           *)
LEMMA OtherKeeps ==
  ASSUME IInv, Writing, prog[unit][at].op \notin {"loop", "endloop"},
         at' = at + 1, prog' = prog, unit' = unit, loopDepth' = loopDepth,
         saveStack' = saveStack, defined \subseteq defined'
  PROVE  IInv'
<1>1. unit \in {"f", "main"} /\ at \in Nat \ {0} /\ at <= Len(prog[unit])
      /\ OpenLoops(prog[unit], at - 1) = loopDepth
  BY Standing
<1>2. Typed'
  BY <1>1 DEF IInv, Typed
<1>3. OpenLoops(prog[unit], at) = loopDepth
  BY <1>1, OpenStep
<1>4. DepthCounts'
  <2>1. at' - 1 = at
    BY <1>1
  <2> QED
    BY <1>1, <1>3, <2>1 DEF DepthCounts
<1>5. SavesPair'
  BY DEF IInv, SavesPair
<1> QED
  BY <1>2, <1>4, <1>5 DEF IInv

(* A loop begins: one more is open, and the mainloop's has its entry.      *)
LEMMA BeginKeeps == ASSUME IInv, LoopBegin PROVE IInv'
<1> DEFINE saved == IF unit = "main" THEN FreeVars(prog) \cap defined ELSE {}
<1>1. Writing /\ prog[unit][at].op = "loop"
  BY DEF LoopBegin, Alive, Now, Code
<1>2. unit \in {"f", "main"} /\ at \in Nat \ {0} /\ at <= Len(prog[unit])
      /\ OpenLoops(prog[unit], at - 1) = loopDepth
  BY <1>1, Standing
<1>3. at' = at + 1 /\ prog' = prog /\ unit' = unit /\ defined' = defined
      /\ loopDepth' = loopDepth + 1
      /\ saveStack' = IF unit = "main" THEN Append(saveStack, saved) ELSE saveStack
  BY DEF LoopBegin, Emit
<1>4. loopDepth \in Int /\ saveStack \in Seq(SUBSET Variables) /\ prog \in Programs
  BY DEF IInv, Typed
<1>5. saved \in SUBSET Variables
  BY FreeAreVariables
<1>6. Typed'
  <2>1. saveStack' \in Seq(SUBSET Variables)
    BY <1>3, <1>4, <1>5
  <2> QED
    BY <1>2, <1>3, <1>4, <2>1 DEF Typed
<1>7. DepthCounts'
  <2>1. OpenLoops(prog[unit], at) = loopDepth + 1
    BY <1>1, <1>2, OpenStep
  <2>2. at' - 1 = at
    BY <1>2, <1>3
  <2> QED
    BY <1>2, <1>3, <2>1, <2>2 DEF DepthCounts
<1>8. SavesPair'
  <2>1. CASE unit = "f"
    BY <1>3, <2>1 DEF IInv, SavesPair
  <2>2. CASE unit = "main"
    <3>1. saved = FreeVars(prog) \cap defined /\ saveStack' = Append(saveStack, saved)
      BY <1>3, <2>2
    <3>2. Len(saveStack) = loopDepth
          /\ \A i \in 1..Len(saveStack) : saveStack[i] \subseteq FreeVars(prog) \cap defined
      BY <2>2 DEF IInv, SavesPair
    <3> HIDE DEF saved
    <3>3. Len(saveStack') = loopDepth'
      BY <1>3, <1>4, <1>5, <3>1, <3>2
    <3>4. \A i \in 1..Len(saveStack') : saveStack'[i] \subseteq FreeVars(prog) \cap defined
      <4> TAKE i \in 1..Len(saveStack')
      <4>1. CASE i \in 1..Len(saveStack)
        BY <1>4, <1>5, <3>1, <3>2, <4>1
      <4>2. CASE i = Len(saveStack) + 1
        BY <1>4, <1>5, <3>1, <4>2
      <4> QED
        BY <1>4, <1>5, <3>1, <4>1, <4>2
    <3> QED
      BY <1>3, <2>2, <3>3, <3>4 DEF SavesPair
  <2> QED
    BY <1>2, <2>1, <2>2
<1> QED
  BY <1>6, <1>7, <1>8 DEF IInv

(* A loop ends: as one was open, the mainloop's stack has an entry to pop. *)
LEMMA EndKeeps == ASSUME IInv, LoopEnd PROVE IInv'
<1>1. Writing /\ prog[unit][at].op = "endloop"
  BY DEF LoopEnd, Alive, Now, Code
<1>2. unit \in {"f", "main"} /\ at \in Nat \ {0} /\ at <= Len(prog[unit])
      /\ OpenLoops(prog[unit], at - 1) = loopDepth /\ OpenLoops(prog[unit], at) >= 0
  BY <1>1, Standing
<1>3. at' = at + 1 /\ prog' = prog /\ unit' = unit /\ defined' = defined
      /\ loopDepth' = loopDepth - 1
      /\ saveStack' = IF unit = "main" /\ saveStack # <<>> THEN Front(saveStack) ELSE saveStack
  BY DEF LoopEnd, Emit
<1>4. loopDepth \in Int /\ saveStack \in Seq(SUBSET Variables) /\ prog \in Programs
  BY DEF IInv, Typed
<1>5. OpenLoops(prog[unit], at) = loopDepth - 1
  BY <1>1, <1>2, OpenStep
<1>6. unit = "main" => /\ saveStack' = Front(saveStack)
                       /\ Len(saveStack) = loopDepth /\ Len(saveStack) >= 1
  <2> SUFFICES ASSUME unit = "main" PROVE /\ saveStack' = Front(saveStack)
                                          /\ Len(saveStack) = loopDepth
                                          /\ Len(saveStack) >= 1
    OBVIOUS
  <2>1. Len(saveStack) = loopDepth
    BY DEF IInv, SavesPair
  <2>2. loopDepth >= 1
    BY <1>2, <1>4, <1>5
  <2>3. saveStack # <<>>
    BY <1>4, <2>1, <2>2
  <2> QED
    BY <1>3, <2>1, <2>2, <2>3
<1>7. Typed'
  <2>1. saveStack' \in Seq(SUBSET Variables)
    <3>1. CASE unit = "main"
      BY <1>4, <1>6, <3>1 DEF Front
    <3>2. CASE unit # "main"
      BY <1>3, <1>4, <3>2
    <3> QED
      BY <3>1, <3>2
  <2> QED
    BY <1>2, <1>3, <1>4, <2>1 DEF Typed
<1>8. DepthCounts'
  <2>1. at' - 1 = at
    BY <1>2, <1>3
  <2> QED
    BY <1>2, <1>3, <1>5, <2>1 DEF DepthCounts
<1>9. SavesPair'
  <2>1. CASE unit = "f"
    BY <1>3, <2>1 DEF IInv, SavesPair
  <2>2. CASE unit = "main"
    <3>1. \A i \in 1..Len(saveStack) : saveStack[i] \subseteq FreeVars(prog) \cap defined
      BY DEF IInv, SavesPair
    <3>2. Len(saveStack') = Len(saveStack) - 1
          /\ \A i \in 1..(Len(saveStack) - 1) : saveStack'[i] = saveStack[i]
      BY <1>4, <1>6, <2>2 DEF Front
    <3>3. \A i \in 1..Len(saveStack') : saveStack'[i] \subseteq FreeVars(prog) \cap defined
      BY <1>4, <1>6, <2>2, <3>1, <3>2
    <3> QED
      BY <1>3, <1>6, <2>2, <3>2, <3>3 DEF SavesPair
  <2> QED
    BY <1>2, <2>1, <2>2
<1> QED
  BY <1>7, <1>8, <1>9 DEF IInv

(* A unit ends with its loops: the next one starts at depth 0 with no      *)
(* entry.                                                                  *)
LEMMA NextUnitKeeps == ASSUME IInv, NextUnit PROVE IInv'
<1>1. unit \in {"f", "main"} /\ at \in Nat \ {0} /\ prog \in Programs
      /\ saveStack \in Seq(SUBSET Variables) /\ loopDepth \in Int
  BY DEF IInv, Typed, NextUnit
<1>2. Len(prog[unit]) \in Nat /\ OpenLoops(prog[unit], Len(prog[unit])) = 0
  BY <1>1, CodeNested
<1>3. loopDepth = 0
  <2>1. at - 1 <= Len(prog[unit]) /\ loopDepth = OpenLoops(prog[unit], at - 1)
    BY <1>1 DEF IInv, DepthCounts
  <2>2. at > Len(prog[unit])
    BY DEF NextUnit, Code
  <2>3. at - 1 = Len(prog[unit])
    BY <1>1, <1>2, <2>1, <2>2
  <2> QED
    BY <1>2, <2>1, <2>3
<1>4. saveStack = <<>>
  <2>1. CASE unit = "f"
    BY <2>1 DEF IInv, SavesPair
  <2>2. CASE unit = "main"
    BY <1>1, <1>3, <2>2 DEF IInv, SavesPair
  <2> QED
    BY <1>1, <2>1, <2>2
<1>5. /\ unit' = IF unit = "f" THEN "main" ELSE "done"
      /\ at' = 1 /\ prog' = prog /\ loopDepth' = 0 /\ saveStack' = <<>>
  BY <1>3, <1>4 DEF NextUnit
<1>6. Typed'
  BY <1>1, <1>5 DEF Typed
<1>7. DepthCounts'
  <2>1. Len(prog["main"]) \in Nat /\ OpenLoops(prog["main"], 0) = 0
    BY <1>1, CodeNested, OpenNone
  <2> QED
    BY <1>1, <1>5, <2>1 DEF DepthCounts
<1>8. SavesPair'
  BY <1>1, <1>5 DEF SavesPair
<1> QED
  BY <1>6, <1>7, <1>8 DEF IInv

(* Every step of the text generator keeps the invariant.                   *)
LEMMA StepKeeps == ASSUME IInv, [Next]_vars PROVE IInv'
<1> USE DEF Alive, Now, Code, Emit
<1>1. CASE Suppress
  <2>1. prog[unit][at].op \notin {"loop", "endloop"}
    BY <1>1 DEF Suppress, Boundary
  <2> QED
    BY <1>1, <2>1, OtherKeeps DEF Suppress
<1>2. CASE Assign
  <2>1. defined \subseteq defined'
    BY <1>2 DEF Assign
  <2> QED
    BY <1>2, <2>1, OtherKeeps DEF Assign
<1>3. CASE LoopBegin
  BY <1>3, BeginKeeps
<1>4. CASE LoopEnd
  BY <1>4, EndKeeps
<1>5. CASE TryClause
  BY <1>5, OtherKeeps DEF TryClause
<1>6. CASE Lock
  BY <1>6, OtherKeeps DEF Lock
<1>7. CASE Return
  BY <1>7, OtherKeeps DEF Return
<1>8. CASE IfBranch
  BY <1>8, OtherKeeps DEF IfBranch
<1>9. CASE Plain
  BY <1>9, OtherKeeps DEF Plain
<1>10. CASE NextUnit
  BY <1>10, NextUnitKeeps
<1>11. CASE Step \/ UNCHANGED vars
  <2>1. UNCHANGED genVars
    BY <1>11 DEF Step, Start, SetLine, CopyLine, Output, Go, CallLine, FallOff, DepthLine,
                 TakeLock, Unlock, OpenBlock, CloseBlock, LeaveBlock, LeaveUnit, LongJump, vars
  <2> QED
    BY <2>1 DEF genVars, IInv, Typed, DepthCounts, SavesPair
<1> QED
  BY <1>1, <1>2, <1>3, <1>4, <1>5, <1>6, <1>7, <1>8, <1>9, <1>10, <1>11
     DEF Next, Generate, Instr

(* The saves and restores of the mainloop's loops pair in every text.      *)
THEOREM SavesAlwaysPair == Spec => []SavesPair
<1>1. Init => IInv
  BY InitIInv
<1>2. IInv /\ [Next]_vars => IInv'
  BY StepKeeps
<1>3. IInv => SavesPair
  BY DEF IInv
<1> QED
  BY <1>1, <1>2, <1>3, PTL DEF Spec
=============================================================================
