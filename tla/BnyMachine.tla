------------------------------ MODULE BnyMachine ------------------------------
(***************************************************************************)
(* What exp_bny.cpp makes of functions, `try`, generators and `atomic`: a  *)
(* processor with callee-saved registers, fibers and a stack of handlers,  *)
(* running code whose temporaries RegAlloc has placed.                     *)
(*                                                                         *)
(* First the functions of a program go through the allocator, one after    *)
(* the other; then the program runs.  Every value is new (the clock), so   *)
(* that one temporary's value is never mistaken for another's.  A frame    *)
(* also has `want`, what the IR says its temporaries hold, which the       *)
(* processor never reads.                                                  *)
(***************************************************************************)
EXTENDS RegAlloc, SequencesExt, TLC

CONSTANTS
  Programs,      \* records of the code of "main" (the global part), "f" and
                 \* the generator "g"
  TrySlots,      \* how many handlers the block at __try_stack_ptr holds
  RangeScratch,  \* the registers that inline code of `range` writes
  NewScratch,    \* and those that inline code of an object's construction does
  LoopBound      \* how many jumps a run takes

Start == 0      \* the processor's own stack; a generator's is its handle
Junk == 0

ASSUME SlotsAssumption == TrySlots \in Nat /\ LoopBound \in Nat
ASSUME ScratchAssumption == RangeScratch \subseteq Registers /\ NewScratch \subseteq Registers
ASSUME ProgramsAssumption ==
  \A p \in Programs :
    /\ DOMAIN p = {"main", "f", "g"}
    /\ p["main"] \in Codes /\ p["f"] \in Codes /\ p["g"] \in Codes

VARIABLES
  prog,    \* the program
  mode,    \* "compile", "run", or why it stopped
  nth,     \* the function being compiled, by its place in Order
  table,   \* of the functions compiled: where temporaries are, what is pushed
  regs,    \* the callee-saved registers of POOL
  stacks,  \* the frames on each stack
  fiber,   \* the stack that RSP is on
  gens,    \* the state blocks of the generators, by handle
  genCur,  \* __ac_gen_cur
  tries,   \* the block at __try_stack_ptr
  depth,   \* __try_depth
  lock,    \* the spinlock of `atomic`
  clock, loops

machine == <<regs, stacks, fiber, gens, genCur, tries, depth, lock, clock, loops>>
compiled == <<allocVars, prog, nth, table>>
vars == <<compiled, mode, machine>>

With(f, x, v) == [y \in DOMAIN f \cup {x} |-> IF y = x THEN v ELSE f[y]]

-----------------------------------------------------------------------------
(* What the compiler knows of a function.                                  *)

Count(c, i, j, ops) == Cardinality({k \in i..j : c[k].op \in ops})

(* catchEntry_: the CATCH_BEGIN that defines the label of the try at i.    *)
CatchOf(c, i) ==
  Min({k \in i..Len(c) : Count(c, i, k, {"CATCH_BEGIN"}) = Count(c, i, k, {"TRY_BEGIN"})})
(* catchSkip_: AFTER_BEGIN and TRY_END both pop the label of a CATCH_BEGIN.*)
SkipOf(c, i) ==
  Min({k \in i..Len(c) :
         Count(c, i, k, {"AFTER_BEGIN", "TRY_END"}) = Count(c, i, k, {"CATCH_BEGIN"})})
LabelOf(c, l) == CHOOSE k \in 1..Len(c) : c[k].op = "LABEL" /\ c[k].lab = l
UsesTry == \E fn \in DOMAIN prog : \E i \in 1..Len(prog[fn]) : prog[fn][i].op = "TRY_BEGIN"

-----------------------------------------------------------------------------
(* Frames.                                                                 *)

Top == Last(stacks[fiber])
Code(fr) == prog[fr.fn]
AtEnd(fr) == fr.pc > Len(Code(fr))
At(fr) == Code(fr)[fr.pc]
Doing(op) == mode = "run" /\ ~AtEnd(Top) /\ At(Top).op = op

Where(fr, t) == table[fr.fn].reg[t]
Find(fr, t) == IF Where(fr, t) = NoReg THEN fr.slot[t] ELSE regs[Where(fr, t)]
Operand(fr) == CHOOSE t \in At(fr).uses : TRUE

(* load and store: v goes where the result is, w is what belongs there.    *)
Stored(fr, rg, v) ==
  LET t == At(fr).res
  IN IF t = NoTemp \/ Where(fr, t) = NoReg THEN rg ELSE [rg EXCEPT ![Where(fr, t)] = v]
Stepped(fr, v, w) ==
  LET t == At(fr).res
      on == [fr EXCEPT !.pc = @ + 1]
  IN IF t = NoTemp THEN on
     ELSE [on EXCEPT !.want[t] = w, !.slot[t] = IF Where(fr, t) = NoReg THEN v ELSE @]
WithTop(fib, fr) == [stacks EXCEPT ![fib] = Append(Front(@), fr)]

Finish(rg, v) ==
  /\ regs' = Stored(Top, rg, v)
  /\ stacks' = WithTop(fiber, Stepped(Top, v, v))
GoTo(pc) == stacks' = WithTop(fiber, [Top EXCEPT !.pc = pc])

(* The prologue pushes the registers of the function's temporaries.        *)
Entered(fn, rg) ==
  LET none == [t \in TempsOf(prog[fn]) |-> Junk]
  IN [fn |-> fn, id |-> clock, pc |-> 1, slot |-> none, want |-> none, caught |-> {},
      saved |-> [r \in table[fn].saves |-> rg[r]]]
(* The epilogue pops them.                                                 *)
Popped(fr, rg) == [r \in Registers |-> IF r \in DOMAIN fr.saved THEN fr.saved[r] ELSE rg[r]]

(* A place that a jump may go to later: RSP, RBP, the registers and RIP.   *)
Place(pc) == [fiber |-> fiber, id |-> Top.id, pc |-> pc, regs |-> regs]
Standing(place) == \E k \in 1..Len(stacks[place.fiber]) : stacks[place.fiber][k].id = place.id
(* The stack as it is when RSP has gone there.                             *)
Unwound(place) ==
  LET stack == stacks[place.fiber]
      level == CHOOSE k \in 1..Len(stack) : stack[k].id = place.id
  IN Append(SubSeq(stack, 1, level - 1), [stack[level] EXCEPT !.pc = place.pc])

Tick == clock' = clock + 1
Stop(why) ==
  /\ mode' = why
  /\ UNCHANGED <<compiled, regs, stacks, fiber, gens, genCur, tries, depth, lock, loops>>

-----------------------------------------------------------------------------
(* Compilation.                                                            *)

Order == <<"main", "f", "g">>

CompileInit ==
  /\ prog \in Programs
  /\ AllocInit /\ code = prog["main"]
  /\ mode = "compile" /\ nth = 1 /\ table = <<>>
  /\ regs = [r \in Registers |-> Junk]
  /\ stacks = [h \in {Start} |-> <<>>] /\ fiber = Start
  /\ gens = <<>> /\ genCur = Junk
  /\ tries = <<>> /\ depth = 0 /\ lock = 0
  /\ clock = 1 /\ loops = 0

PlaceTemps ==
  /\ mode = "compile" /\ AllocStep
  /\ UNCHANGED <<prog, mode, nth, table, machine>>

FinishFunction ==
  /\ mode = "compile" /\ nth <= Len(Order) /\ Allocated
  /\ table' = With(table, Order[nth], [reg |-> tempReg, saves |-> saved,
                                       begins |-> begins, ends |-> ends])
  /\ nth' = nth + 1
  /\ IF nth = Len(Order) THEN UNCHANGED allocVars ELSE Allocate(prog[Order[nth + 1]])
  /\ UNCHANGED <<prog, mode, machine>>

StartProgram ==
  /\ mode = "compile" /\ nth > Len(Order)
  /\ mode' = "run"
  /\ stacks' = [h \in {Start} |-> <<Entered("main", regs)>>]
  /\ Tick
  /\ UNCHANGED <<compiled, regs, fiber, gens, genCur, tries, depth, lock, loops>>

-----------------------------------------------------------------------------
(* Instructions.                                                           *)

(* Everything that only makes a value.                                     *)
Make ==
  /\ Doing("MAKE")
  /\ Finish(regs, clock)
  /\ Tick /\ UNCHANGED <<compiled, mode, fiber, gens, genCur, tries, depth, lock, loops>>

(* Inline code that works in registers of the pool.                        *)
Scratch(op, used) ==
  /\ Doing(op)
  /\ Finish([r \in Registers |-> IF r \in used THEN Junk ELSE regs[r]], clock)
  /\ Tick /\ UNCHANGED <<compiled, mode, fiber, gens, genCur, tries, depth, lock, loops>>
Range_ == Scratch("RANGE", RangeScratch)
Construct == Scratch("CONSTRUCT", NewScratch)

Label ==
  /\ Doing("LABEL")
  /\ GoTo(Top.pc + 1)
  /\ UNCHANGED <<compiled, mode, regs, fiber, gens, genCur, tries, depth, lock, clock, loops>>

JumpTo ==
  /\ Doing("JUMP_IF_TRUE") /\ loops < LoopBound
  /\ GoTo(LabelOf(Code(Top), At(Top).lab))
  /\ loops' = loops + 1
  /\ UNCHANGED <<compiled, mode, regs, fiber, gens, genCur, tries, depth, lock, clock>>

GoOn ==
  /\ Doing("JUMP_IF_TRUE")
  /\ GoTo(Top.pc + 1)
  /\ UNCHANGED <<compiled, mode, regs, fiber, gens, genCur, tries, depth, lock, clock, loops>>

Call ==
  /\ Doing("CALL")
  /\ stacks' = [stacks EXCEPT ![fiber] = Append(@, Entered(At(Top).lab, regs))]
  /\ Tick /\ UNCHANGED <<compiled, mode, regs, fiber, gens, genCur, tries, depth, lock, loops>>

(* `return`, or the end of the function; the caller stores the result.     *)
Returning == mode = "run" /\ (~AtEnd(Top) => At(Top).op = "RETURN")
Return ==
  /\ Returning /\ Len(stacks[fiber]) > 1
  /\ LET rg == Popped(Top, regs)
         callers == Front(stacks[fiber])
         fr == Last(callers)
     IN /\ regs' = Stored(fr, rg, clock)
        /\ stacks' = [stacks EXCEPT ![fiber] =
                        Append(Front(callers), Stepped(fr, clock, clock))]
  /\ Tick /\ UNCHANGED <<compiled, mode, fiber, gens, genCur, tries, depth, lock, loops>>

Halt ==
  /\ Returning /\ fiber = Start /\ Len(stacks[Start]) = 1
  /\ Stop("halt") /\ UNCHANGED clock

LockBegin ==
  /\ Doing("LOCK_BEGIN")
  /\ \/ lock = 0 /\ lock' = 1 /\ GoTo(Top.pc + 1)
        /\ UNCHANGED <<compiled, mode, regs, fiber, gens, genCur, tries, depth, clock, loops>>
     \/ lock = 1 /\ Stop("spin") /\ UNCHANGED clock

Bug_LockEnd ==
  /\ Doing("LOCK_END")
  /\ GoTo(Top.pc + 1)
  /\ UNCHANGED <<compiled, mode, regs, fiber, gens, genCur, tries, depth, lock, clock, loops>>
LockEnd ==
  /\ Doing("LOCK_END")
  /\ lock' = 0 /\ GoTo(Top.pc + 1)
  /\ UNCHANGED <<compiled, mode, regs, fiber, gens, genCur, tries, depth, clock, loops>>

-----------------------------------------------------------------------------
(* try                                                                     *)

TryBegin ==
  /\ Doing("TRY_BEGIN")
  /\ \/ depth = TrySlots /\ Stop("overrun") /\ UNCHANGED clock
     \/ /\ depth < TrySlots
        /\ tries' = With(tries, depth, Place(CatchOf(Code(Top), Top.pc) + 1))
        /\ depth' = depth + 1
        /\ stacks' = WithTop(fiber, [Top EXCEPT !.pc = @ + 1,
                                               !.caught = @ \ {CatchOf(Code(Top), Top.pc)}])
        /\ UNCHANGED <<compiled, mode, regs, fiber, gens, genCur, lock, clock, loops>>

(* Reached from above, when nothing was raised.                            *)
Bug_CatchBegin ==
  /\ Doing("CATCH_BEGIN")
  /\ GoTo(SkipOf(Code(Top), Top.pc))
  /\ UNCHANGED <<compiled, mode, regs, fiber, gens, genCur, tries, depth, lock, clock, loops>>
CatchBegin ==
  /\ Doing("CATCH_BEGIN")
  /\ depth' = depth - 1
  /\ GoTo(SkipOf(Code(Top), Top.pc))
  /\ UNCHANGED <<compiled, mode, regs, fiber, gens, genCur, tries, lock, clock, loops>>

TryEnd ==
  /\ Doing("AFTER_BEGIN") \/ Doing("TRY_END")
  /\ GoTo(Top.pc + 1)
  /\ UNCHANGED <<compiled, mode, regs, fiber, gens, genCur, tries, depth, lock, clock, loops>>

Divide ==
  /\ Doing("DIVIDE")
  /\ Finish(regs, clock)
  /\ Tick /\ UNCHANGED <<compiled, mode, fiber, gens, genCur, tries, depth, lock, loops>>

(* emitDivZeroTrap: a jump to the last handler, and "lost" when the frame  *)
(* that it is in has been left.                                            *)
Caught(stack) == Append(Front(stack), [Last(stack) EXCEPT !.caught = @ \cup {Last(stack).pc - 1}])
Trap ==
  /\ Doing("DIVIDE")
  /\ \/ ~(UsesTry /\ depth > 0) /\ Stop("exit1") /\ UNCHANGED clock
     \/ /\ UsesTry /\ depth > 0
        /\ depth' = depth - 1
        /\ LET place == tries[depth']
           IN /\ regs' = place.regs
              /\ fiber' = place.fiber
              /\ IF Standing(place)
                 THEN stacks' = [stacks EXCEPT ![place.fiber] = Caught(Unwound(place))]
                      /\ mode' = mode
                 ELSE mode' = "lost" /\ UNCHANGED stacks
        /\ UNCHANGED <<compiled, gens, genCur, tries, lock, clock, loops>>

-----------------------------------------------------------------------------
(* Generators.                                                             *)

GenCreate ==
  /\ Doing("GEN_CREATE")
  /\ Finish(regs, clock)
  /\ gens' = With(gens, clock, [done |-> FALSE, value |-> Junk, fresh |-> TRUE,
                                gen |-> Place(1), caller |-> Place(1)])
  /\ Tick /\ UNCHANGED <<compiled, mode, fiber, genCur, tries, depth, lock, loops>>

Handle == Find(Top, Operand(Top))
GenSkip ==
  /\ Doing("GEN_NEXT") /\ Handle \in DOMAIN gens /\ gens[Handle].done
  /\ Finish(regs, gens[Handle].value)
  /\ UNCHANGED <<compiled, mode, fiber, gens, genCur, tries, depth, lock, clock, loops>>

Bug_ResumedBy(h) ==
  IF gens[h].fresh THEN [gens EXCEPT ![h].caller = Place(Top.pc)] ELSE gens
ResumedBy(h) == [gens EXCEPT ![h].caller = Place(Top.pc)]
(* emitFiberSwap into the generator.  RBX and R12-R15 are not initialised  *)
(* before its first yield.                                                 *)
GenNext ==
  /\ Doing("GEN_NEXT") /\ Handle \in DOMAIN gens /\ ~gens[Handle].done
  /\ genCur' = Handle
  /\ fiber' = Handle
  /\ gens' = ResumedBy(Handle)
  /\ IF gens[Handle].fresh
     THEN /\ regs' = [r \in Registers |-> Junk]
          /\ stacks' = With(stacks, Handle, <<Entered("g", regs')>>)
     ELSE /\ regs' = gens[Handle].gen.regs
          /\ stacks' = [stacks EXCEPT ![Handle] = Unwound(gens[Handle].gen)]
  /\ Tick /\ UNCHANGED <<compiled, mode, tries, depth, lock, loops>>

GenCrash ==
  /\ Doing("GEN_NEXT") /\ Handle \notin DOMAIN gens
  /\ Stop("crash") /\ UNCHANGED clock

(* emitFiberSwap out of it, and the rest of the caller's GEN_NEXT.         *)
SwapBack(v, done) ==
  LET home == gens[genCur].caller
      there == Unwound(home)
  IN /\ gens' = [gens EXCEPT ![genCur].value = v, ![genCur].done = done,
                             ![genCur].fresh = FALSE, ![genCur].gen = Place(Top.pc + 1)]
     /\ fiber' = home.fiber
     /\ IF Standing(home)
        THEN /\ regs' = Stored(Last(there), home.regs, v)
             /\ stacks' = [stacks EXCEPT ![home.fiber] =
                             Append(Front(there), Stepped(Last(there), v, v))]
             /\ mode' = mode
        ELSE mode' = "lost" /\ UNCHANGED <<regs, stacks>>
     /\ UNCHANGED <<compiled, genCur, tries, depth, lock, clock, loops>>
Yield ==
  /\ Doing("YIELD")
  /\ SwapBack(Find(Top, Operand(Top)), FALSE)
GenReturn ==
  /\ Returning /\ fiber # Start /\ Len(stacks[fiber]) = 1
  /\ SwapBack(gens[genCur].value, TRUE)

-----------------------------------------------------------------------------
Next ==
  \/ PlaceTemps \/ FinishFunction \/ StartProgram
  \/ Make \/ Range_ \/ Construct \/ Label \/ JumpTo \/ GoOn
  \/ Call \/ Return \/ Halt \/ LockBegin \/ LockEnd
  \/ TryBegin \/ CatchBegin \/ TryEnd \/ Divide \/ Trap
  \/ GenCreate \/ GenSkip \/ GenNext \/ GenCrash \/ Yield \/ GenReturn

Spec == CompileInit /\ [][Next]_vars

(* A processor runs on.                                                    *)
FairSpec == Spec /\ WF_vars(Next)

-----------------------------------------------------------------------------
(* Programs that leave no construct half way.                              *)

Anywhere(P(_, _)) == \E fn \in DOMAIN prog : \E i \in 1..Len(prog[fn]) : P(prog[fn], i)
InTry(c, i) == \E k \in 1..i-1 : c[k].op = "TRY_BEGIN" /\ i < CatchOf(c, k)
InBracket(c, i) == Count(c, 1, i, {"LOCK_BEGIN"}) > Count(c, 1, i, {"LOCK_END"})
(* Where the body of the catch at k ends.                                  *)
EndOf(c, k) ==
  Min({j \in k..Len(c) :
         LET begun == Count(c, k, j, {"TRY_BEGIN"})
             ended == Count(c, k, j, {"TRY_END"})
         IN \/ c[j].op = "AFTER_BEGIN" /\ begun = ended
            \/ c[j].op = "TRY_END" /\ ended = begun + 1})
InCatch(c, k, i) == c[k].op = "CATCH_BEGIN" /\ k < i /\ i < EndOf(c, k)

LeavesTry == Anywhere(LAMBDA c, i : c[i].op \in {"RETURN", "YIELD"} /\ InTry(c, i))
LeavesLock == Anywhere(LAMBDA c, i : c[i].op \in {"DIVIDE", "CALL"} /\ InBracket(c, i))
RecursesInTry ==
  \E fn \in DOMAIN prog : \E i \in 1..Len(prog[fn]) :
    prog[fn][i].op = "CALL" /\ prog[fn][i].lab = fn /\ InTry(prog[fn], i)
AfterIn(c) == \E i \in 1..Len(c) : c[i].op = "AFTER_BEGIN" /\ \E k \in 1..i : InCatch(c, k, i)
AfterInCatch == \E fn \in DOMAIN prog : AfterIn(prog[fn])

(* Inline code writes its scratch registers while t is live.               *)
Spoils(ins) ==
  \/ ins.op \in {"RANGE", "CONSTRUCT"}
  \/ ins.op = "CALL" /\ \E i \in 1..Len(prog[ins.lab]) : prog[ins.lab][i].op \in {"RANGE", "CONSTRUCT"}
Exposed(fn, t) ==
  \E i \in (table[fn].begins[t] + 1)..table[fn].ends[t] : Spoils(prog[fn][i])
HandlesSafe ==
  \A fn \in DOMAIN prog : \A i \in 1..Len(prog[fn]) :
    prog[fn][i].op = "GEN_NEXT" => \A t \in prog[fn][i].uses : ~Exposed(fn, t)

-----------------------------------------------------------------------------
(* Programs as the front end makes them: what the proofs suppose.          *)

(* The begins of the try clauses that are open at an instruction.          *)
OpenAt(c, i) ==
  {k \in 1..Len(c) : c[k].op = "TRY_BEGIN" /\ k < i /\ i <= CatchOf(c, k)}

Fns == {"main", "f", "g"}

(* The catch clauses that an instruction is in.                            *)
CatchAt(c, i) == {k \in 1..Len(c) : InCatch(c, k, i)}

(* A function's try clauses are nested: the clauses of an inner one end    *)
(* before those of the outer one begin, a body that ends skips its own     *)
(* catch clause and no more, and no jump goes into a try or out of it.     *)
TriesNested(c) ==
  \A i \in 1..Len(c) :
    /\ c[i].op = "TRY_BEGIN" =>
         /\ CatchOf(c, i) \in (i + 1)..Len(c) /\ c[CatchOf(c, i)].op = "CATCH_BEGIN"
         /\ \A k \in OpenAt(c, i) : CatchOf(c, i) < CatchOf(c, k)
    /\ c[i].op = "CATCH_BEGIN" =>
         /\ SkipOf(c, i) \in (i + 1)..Len(c)
         /\ \E k \in OpenAt(c, i) :
              CatchOf(c, k) = i /\ OpenAt(c, SkipOf(c, i)) = OpenAt(c, i) \ {k}
    /\ c[i].op = "JUMP_IF_TRUE" =>
         /\ LabelOf(c, c[i].lab) \in 1..Len(c)
         /\ OpenAt(c, LabelOf(c, c[i].lab)) = OpenAt(c, i)

(* No jump, and no end of a body, goes into a catch clause, and the clause *)
(* of a try is in those that the try is in.                                *)
CatchesNested(c) ==
  \A i \in 1..Len(c) :
    /\ c[i].op = "CATCH_BEGIN" =>
         EndOf(c, i) \in i..Len(c) /\ CatchAt(c, SkipOf(c, i)) \subseteq CatchAt(c, i)
    /\ c[i].op = "JUMP_IF_TRUE" => CatchAt(c, LabelOf(c, c[i].lab)) \subseteq CatchAt(c, i)
    /\ \A k \in OpenAt(c, i) :
         CatchAt(c, CatchOf(c, k) + 1) \subseteq CatchAt(c, i) \cup {CatchOf(c, k)}

Nested ==
  \A p \in Programs : \A fn \in Fns :
    TriesNested(p[fn]) /\ (AfterIn(p[fn]) \/ CatchesNested(p[fn]))

(* Functions are called and generators resumed, the one is no other: only  *)
(* the generator yields, in no catch clause, and what runs on its stack    *)
(* resumes none.                                                           *)
OneGenerator ==
  \A p \in Programs : \A fn \in Fns : \A i \in 1..Len(p[fn]) :
    /\ p[fn][i].op = "CALL" => p[fn][i].lab = "f"
    /\ p[fn][i].op = "YIELD" => fn = "g" /\ CatchAt(p[fn], i) = {}
    /\ p[fn][i].op = "GEN_NEXT" =>
         /\ p[fn][i].uses # {}
         /\ \/ fn = "main"
            \/ fn = "f" /\ \A j \in 1..Len(p["g"]) : p["g"][j].op # "CALL"

(* Instructions that store a result, and what may run after one.           *)
Producing == {"MAKE", "RANGE", "CONSTRUCT", "DIVIDE", "CALL", "GEN_CREATE", "GEN_NEXT"}
Gives(c, i, t) == c[i].op \in Producing /\ c[i].res = t
Follows(c, i, j) ==
  \/ c[i].op \notin {"RETURN", "CATCH_BEGIN"} /\ j = i + 1
  \/ c[i].op = "CATCH_BEGIN" /\ j = SkipOf(c, i)
  \/ c[i].op = "JUMP_IF_TRUE" /\ j = LabelOf(c, c[i].lab)

(* Whichever way control comes to a place of P, t has been given a value,  *)
(* and P has all the places that use it: what a try clause assigns is not  *)
(* used by the catch clause, nor after it when that is left.               *)
AssignedAt(c, t, P) ==
  /\ \A j \in P : \E k \in 1..(j - 1) : Gives(c, k, t)
  /\ \A i \in 1..Len(c) :
       /\ t \in c[i].uses => i \in P
       /\ \A j \in P : Follows(c, i, j) => i \in P \/ Gives(c, i, t)
       /\ c[i].op = "TRY_BEGIN" /\ CatchOf(c, i) + 1 \in P =>
            i \in P /\ \A k \in i..CatchOf(c, i) : ~Gives(c, k, t)

(* Temporaries are assigned before they are used, and jumps have a label.  *)
Assigned ==
  \A c \in Codes :
    /\ \A i \in 1..Len(c) :
         c[i].op = "JUMP_IF_TRUE" => \E k \in 1..Len(c) : c[k].op = "LABEL" /\ c[k].lab = c[i].lab
    /\ \A t \in TempsOf(c) : \E P \in SUBSET (1..(Len(c) + 1)) : AssignedAt(c, t, P)

(* No exception leaves the generator: what is raised in it is caught in    *)
(* it, or nobody else catches anything.                                    *)
Calm(p) ==
  LET c == p["g"]
  IN \/ \A i \in 1..Len(c) : c[i].op \in {"DIVIDE", "CALL"} => OpenAt(c, i) # {}
     \/ \A fn \in {"main", "f"} : \A i \in 1..Len(p[fn]) : p[fn][i].op # "TRY_BEGIN"

-----------------------------------------------------------------------------
(* Properties.                                                             *)

Running == mode = "run"

(* An instruction finds in its operands what the IR says they hold,        *)
(* whatever calls, loops, exceptions and switches of stacks there were     *)
(* since ("values that survive across CALL"), unless scratch code ran.     *)
UsesFind ==
  Running /\ ~LeavesTry /\ ~AtEnd(Top) =>
    \A t \in At(Top).uses : Exposed(Top.fn, t) \/ Find(Top, t) = Top.want[t]

(* The handlers installed are those of the try clauses that the program is *)
(* in now, in their order, and a catch clause runs after a trap only.      *)
HandlersIn(fib, fr) ==
  {<<fib, fr.id, CatchOf(Code(fr), k) + 1>> : k \in OpenAt(Code(fr), fr.pc)}
HandlersOf(fib) == UNION {HandlersIn(fib, fr) : fr \in ToSet(stacks[fib])}
OpenNow == HandlersOf(Start) \cup HandlersOf(fiber)
Installed(i) == <<tries[i].fiber, tries[i].id, tries[i].pc>>
(* Of a try in a later call, or a try in a try: its catch is earlier.      *)
Inside(h, g) ==
  \/ h[1] # Start /\ g[1] = Start
  \/ h[1] = g[1] /\ (g[2] < h[2] \/ (g[2] = h[2] /\ h[3] < g[3]))
HandlersLive ==
  Running /\ ~LeavesTry =>
    /\ {Installed(i) : i \in 0..(depth - 1)} = OpenNow
    /\ \A i, j \in 0..(depth - 1) : i < j => Inside(Installed(j), Installed(i))
    /\ AfterInCatch \/ \A k \in 1..Len(Code(Top)) : InCatch(Code(Top), k, Top.pc) => k \in Top.caught

(* While a generator runs, __ac_gen_cur is its block, and the block leads  *)
(* back to the GEN_NEXT that resumed it.                                   *)
SwapsHome ==
  Running /\ ~LeavesTry /\ fiber # Start =>
    /\ genCur = fiber
    /\ gens[fiber].caller.fiber = Start
    /\ LET fr == Last(stacks[Start])
       IN /\ At(fr).op = "GEN_NEXT"
          /\ \E t \in At(fr).uses : fr.want[t] = fiber
          /\ <<gens[fiber].caller.id, gens[fiber].caller.pc>> = <<fr.id, fr.pc>>

(* A program ends, by itself or with the error of an exception that nobody *)
(* catches: it never waits for a lock of its own, nor gets lost, nor       *)
(* writes a handler past the block.                                        *)
Ends ==
  Running /\ ~LeavesTry /\ ~LeavesLock /\ ~RecursesInTry /\ HandlesSafe
    ~> mode \in {"halt", "exit1"}
=============================================================================
