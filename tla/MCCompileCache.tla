--------------------------- MODULE MCCompileCache ---------------------------
(* Small instances of CompileCache for TLC. *)
EXTENDS CompileCache, TLC

Base == [tgt |-> "PY", opt |-> 2, runtime |-> FALSE, lenient |-> FALSE,
         force |-> FALSE, noCache |-> FALSE, allowForeign |-> FALSE,
         allowInfinite |-> FALSE, stopAfterIR |-> FALSE]

MCTargets == {"PY", "BNY"}
MCNative  == {"BNY"}

\* One developer: modes, backends and both ways round the cache.
SequentialRequests ==
  {Base, [Base EXCEPT !.tgt = "BNY"], [Base EXCEPT !.runtime = TRUE],
   [Base EXCEPT !.lenient = TRUE], [Base EXCEPT !.force = TRUE],
   [Base EXCEPT !.noCache = TRUE], [Base EXCEPT !.allowInfinite = TRUE],
   [Base EXCEPT !.stopAfterIR = TRUE]}

\* Two compilers at once, everything the caches get wrong included.
ConcurrentRequests ==
  {Base, [Base EXCEPT !.opt = 0],
   [Base EXCEPT !.lenient = TRUE], [Base EXCEPT !.force = TRUE]}

\* What BNY has no code for, and what has no entry point, with any imports.
CyclingInBny == InfiniteTexts \X Deps \X {"BNY"}
BadNoMainloop == BadTexts \X Deps

\* Sizes: the largest that a cache file holds whole, and larger ones.
AtLimit(n) == [t \in Programs |-> n]
IrLimit(n) == [t \in Programs |-> [d \in Deps |-> n]]
Whole16 == AtLimit(65535)
Whole8 == AtLimit(255)
IrWhole16 == IrLimit(65535)
IrWhole8 == IrLimit(255)
Long16 == AtLimit(65540)
IrLong16 == IrLimit(65540)
IrLong8 == IrLimit(300)

ProcSymmetry == Permutations(Procs)

(* Constraints: kills have left no .acc cut short (an .irc may be), and a  *)
(* kill takes the place of an edit.                                        *)
AccWhole ==
  acc.head # Missing /\ acc.tail = Missing => \E p \in Procs : pc[p] = "accFlush"
FewEvents == edits + crashes <= MaxEdits
=============================================================================
