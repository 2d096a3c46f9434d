------------------------------ MODULE ControlRun ------------------------------
(***************************************************************************)
(* What the compilers of the four languages make of the text ControlText   *)
(* writes: they refuse it, or it runs.  Blocks, exceptions, mutexes,       *)
(* setjmp and longjmp are those of the languages; what the runtime lines   *)
(* of ir_codegen.cpp do (ac_idiv, the depth of _ac_try_stack) is the code. *)
(***************************************************************************)
EXTENDS ControlText, TLC

VARIABLES
  closers,  \* of the accepted text: where each block closes
  mode,     \* "gen", "run", then how control leaves blocks, or why it stopped
  frames,   \* of main and of the function it calls: [unit, pc, left, after, id]
  store,    \* what variables and slots hold
  out,      \* what was printed
  depth,    \* _ac_try_depth
  bufs,     \* _ac_try_stack: [id, pc, kept] by depth
  lock,     \* _ac_atomic_lock is taken
  calls     \* frames so far

runVars == <<closers, mode, frames, store, out, depth, bufs, lock, calls>>
vars == <<genVars, runVars>>

-----------------------------------------------------------------------------
(* The text as blocks.                                                     *)

Opens(t, i) == t[i].k \in Openers
(* From the line that opens a block to the line that closes it, and what   *)
(* stays open or is closed without.                                        *)
Blocks(t) ==
  FoldLeft(LAMBDA b, i :
             IF Opens(t, i) THEN [b EXCEPT !.open = Append(@, i)]
             ELSE IF t[i].k # "close" THEN b
             ELSE IF b.open = <<>> THEN [b EXCEPT !.odd = TRUE]
             ELSE [b EXCEPT !.ends = (Last(b.open) :> i) @@ @, !.open = Front(@)],
           [open |-> <<>>, ends |-> <<>>, odd |-> FALSE], [i \in 1..Len(t) |-> i])
Opener(ends, j) == CHOOSE i \in DOMAIN ends : ends[i] = j
Around(ends, i) == {j \in DOMAIN ends : j < i /\ i < ends[j]}

Balanced(t) == LET b == Blocks(t) IN b.open = <<>> /\ ~ b.odd
(* A clause follows the block it belongs to.  Each catch clause names the  *)
(* same type, and Java refuses one that an earlier clause has caught.      *)
Follows ==
  [otherwise |-> {"if"}, else |-> {"setjmp"}, finally |-> {"try", "catch"},
   catch |-> IF dialect = "Java" THEN {"try"} ELSE {"try", "catch"}]
Clauses(t) ==
  LET ends == Blocks(t).ends
  IN \A i \in 1..Len(t) : t[i].k \in DOMAIN Follows =>
       i > 1 /\ t[i - 1].k = "close" /\ t[Opener(ends, i - 1)].k \in Follows[t[i].k]

(* Every name is declared in a block around its use, and before it.        *)
Names(l) == (IF l.a = None THEN {} ELSE {l.a})
              \cup (IF l.k \in {"save", "restore"} THEN {Var(l.a[1])} ELSE {})
Scoped(u) ==
  LET t == text[u]
      ends == Blocks(t).ends
      start == FromStart(u)
  IN \A i \in 1..Len(t) : \A a \in Names(t[i]) :
       \/ a \in start
       \/ \E j \in 1..i : t[j].d /\ t[j].a = a /\ Around(ends, j) \subseteq Around(ends, i)

Accepts == \A u \in {"f", "main"} :
  Balanced(text[u]) /\ Clauses(text[u]) /\ (dialect # "PY" => Scoped(u))

-----------------------------------------------------------------------------
(* The machine.                                                            *)

Frame == Last(frames)
T == text[Frame.unit]
L == T[Frame.pc]
Ends == closers[Frame.unit]
Enclosing == Around(Ends, Frame.pc)
AtEnd == Frame.pc > Len(T)
Running == mode = "run" /\ ~ AtEnd
At(pc) == [frames EXCEPT ![Len(frames)].pc = pc]
Advance == frames' = At(Frame.pc + 1)
NewFrame(u) == [unit |-> u, pc |-> 1, left |-> <<>>, after |-> <<>>, id |-> calls]

(* Hoisted names start at 0; Python has nothing that is declared.          *)
Started(a) == dialect # "PY" /\ a \in FromStart("main")
RunInit ==
  /\ closers = <<>> /\ mode = "gen" /\ frames = <<>> /\ out = <<>> /\ store = <<>>
  /\ depth = 0 /\ bufs = <<>> /\ lock = FALSE /\ calls = 0

Start ==
  /\ mode = "gen" /\ unit = "done"
  /\ IF Accepts
     THEN /\ closers' = [u \in {"f", "main"} |-> Blocks(text[u]).ends]
          /\ mode' = "run" /\ frames' = <<NewFrame("main")>> /\ calls' = 1
          /\ store' = [a \in Variables \X (0..2) |-> IF Started(a) THEN 0 ELSE Unset]
     ELSE mode' = "rejected" /\ UNCHANGED <<closers, frames, store, calls>>
  /\ UNCHANGED <<genVars, out, depth, bufs, lock>>

SetLine ==
  /\ Running /\ L.k = "set" /\ Advance
  /\ store' = [store EXCEPT ![L.a] = L.n]
  /\ UNCHANGED <<genVars, closers, mode, out, depth, bufs, lock, calls>>

(* Python finds out here that a name has no value.                         *)
CopyLine ==
  LET from == IF L.k = "save" THEN Var(L.a[1]) ELSE L.a
      to == IF L.k = "save" THEN L.a ELSE Var(L.a[1])
  IN /\ Running /\ L.k \in {"save", "restore"}
     /\ IF store[from] = Unset
        THEN mode' = "throw" /\ UNCHANGED <<frames, store>>
        ELSE Advance /\ store' = [store EXCEPT ![to] = store[from]] /\ UNCHANGED mode
     /\ UNCHANGED <<genVars, closers, out, depth, bufs, lock, calls>>

Output ==
  /\ Running /\ L.k \in {"show", "say"}
  /\ IF L.k = "show" /\ store[L.a] = Unset
     THEN mode' = "throw" /\ UNCHANGED <<frames, out>>
     ELSE /\ Advance /\ UNCHANGED mode
          /\ out' = Append(out, IF L.k = "say" THEN L.n ELSE store[L.a])
  /\ UNCHANGED <<genVars, closers, store, depth, bufs, lock, calls>>

(* ac_idiv by zero, `return` and `break` leave from where they stand.      *)
Go ==
  /\ Running /\ L.k \in {"div", "return", "break"}
  /\ mode' = IF L.k = "div" THEN "throw" ELSE L.k
  /\ UNCHANGED <<genVars, closers, frames, store, out, depth, bufs, lock, calls>>

CallLine ==
  /\ Running /\ L.k = "call"
  /\ frames' = Append(frames, NewFrame("f"))
  /\ calls' = calls + 1
  /\ UNCHANGED <<genVars, closers, mode, store, out, depth, bufs, lock>>

FallOff ==
  /\ mode = "run" /\ AtEnd
  /\ IF Frame.unit = "main"
     THEN mode' = "ended" /\ UNCHANGED frames
     ELSE mode' = "return" /\ UNCHANGED frames
  /\ UNCHANGED <<genVars, closers, store, out, depth, bufs, lock, calls>>

DepthLine ==
  /\ Running /\ L.k = "depth" /\ Advance
  /\ depth' = depth + L.n
  /\ UNCHANGED <<genVars, closers, mode, store, out, bufs, lock, calls>>

(* Neither Python's lock nor the two mutexes can be taken twice.           *)
TakeLock ==
  /\ Running /\ L.k \in {"lock", "with"}
  /\ IF lock THEN mode' = "hangs" /\ UNCHANGED <<frames, lock>>
             ELSE Advance /\ lock' = TRUE /\ UNCHANGED mode
  /\ UNCHANGED <<genVars, closers, store, out, depth, bufs, calls>>
Unlock ==
  /\ Running /\ L.k = "unlock" /\ Advance
  /\ lock' = FALSE
  /\ UNCHANGED <<genVars, closers, mode, store, out, depth, bufs, calls>>

(* The program's own variables; those the function declares `free` are     *)
(* file-scope and keep their values over a longjmp.                        *)
Locals == {Var(v) : v \in Variables \ prog.free}

OpenBlock ==
  LET past == Ends[Frame.pc] + 1
      other == past <= Len(T) /\ T[past].k = "otherwise"
      top == Len(frames)
  IN /\ Running /\ L.k \in Openers \ {"with"}
     /\ frames' =
          CASE L.k = "if" -> At(IF store[L.a] > 0 THEN Frame.pc + 1
                                ELSE IF other THEN past + 1 ELSE past)
            [] L.k \in {"otherwise", "catch", "else"} -> At(past)
            [] L.k = "loop" -> [frames EXCEPT ![top].pc = @ + 1,
                                              ![top].left = (Frame.pc :> L.n) @@ @]
            [] L.k = "finally" -> [frames EXCEPT ![top].pc = @ + 1,
                                                 ![top].after = Append(@, "run")]
            [] OTHER -> At(Frame.pc + 1)
     /\ bufs' = IF L.k = "setjmp"
                THEN (depth :> [id |-> Frame.id, pc |-> past + 1, kept |-> store]) @@ bufs
                ELSE bufs
     /\ UNCHANGED <<genVars, closers, mode, store, out, depth, lock, calls>>

CloseBlock ==
  LET opener == Opener(Ends, Frame.pc)
      kind == T[opener].k
      top == Len(frames)
      again == kind = "loop" /\ Frame.left[opener] > 1
      onward == IF kind = "finally" THEN Last(Frame.after) ELSE "run"
  IN /\ Running /\ L.k = "close"
     /\ frames' =
          CASE again -> [frames EXCEPT ![top].pc = opener + 1, ![top].left[opener] = @ - 1]
            [] kind = "finally" ->
                 [frames EXCEPT ![top].pc = IF onward = "run" THEN @ + 1 ELSE opener,
                                ![top].after = Front(@)]
            [] OTHER -> At(Frame.pc + 1)
     /\ mode' = onward
     /\ lock' = (lock /\ kind # "with")
     /\ UNCHANGED <<genVars, closers, store, out, depth, bufs, calls>>

-----------------------------------------------------------------------------
(* Leaving.                                                                *)

Leaving == mode \in {"return", "break"} \/ (mode = "throw" /\ dialect # "C")
Inner == CHOOSE j \in Enclosing : \A m \in Enclosing : m <= j
(* The `finally` of the try whose block or handler opens at i, or 0.       *)
FinallyOf(t, e, i) ==
  LET after[j \in DOMAIN e] ==
        LET next == e[j] + 1
        IN CASE next <= Len(t) /\ t[next].k = "finally" -> next
             [] next <= Len(t) /\ t[next].k = "catch" -> after[next]
             [] OTHER -> 0
  IN after[i]

LeaveBlock ==
  LET kind == T[Inner].k
      caught == kind = "try" /\ mode = "throw"
      finally == IF kind \in {"try", "catch"} THEN FinallyOf(T, Ends, Inner) ELSE 0
      top == Len(frames)
  IN /\ Leaving /\ Enclosing # {}
     /\ CASE caught -> frames' = At(Ends[Inner] + 2) /\ mode' = "run"
          [] ~ caught /\ finally # 0 ->
               /\ frames' = [frames EXCEPT ![top].pc = finally + 1, ![top].after = Append(@, mode)]
               /\ mode' = "run"
          [] kind = "loop" /\ mode = "break" ->
               frames' = At(Ends[Inner] + 1) /\ mode' = "run"
          [] kind = "finally" ->
               frames' = [frames EXCEPT ![top].pc = Inner, ![top].after = Front(@)] /\ UNCHANGED mode
          [] OTHER -> frames' = At(Inner) /\ UNCHANGED mode
     /\ lock' = (lock /\ kind # "with")
     /\ UNCHANGED <<genVars, closers, store, out, depth, bufs, calls>>

LeaveUnit ==
  LET below == Len(frames) - 1
  IN /\ Leaving /\ Enclosing = {}
     /\ IF below = 0
        THEN mode' = (IF mode = "throw" THEN "died" ELSE "ended") /\ UNCHANGED frames
        ELSE IF mode = "throw" THEN frames' = Front(frames) /\ UNCHANGED mode
        ELSE mode' = "run" /\ frames' = [Front(frames) EXCEPT ![below].pc = @ + 1]
     /\ UNCHANGED <<genVars, closers, store, out, depth, bufs, lock, calls>>

(* longjmp: the locals changed since setjmp hold either value.  A frame    *)
(* that has returned cannot be jumped into.                                *)
LongJump ==
  LET buf == bufs[depth]
      live == {i \in 1..Len(frames) : frames[i].id = buf.id}
  IN /\ mode = "throw" /\ dialect = "C"
     /\ IF depth = 0 THEN mode' = "died" /\ UNCHANGED <<frames, store>>
        ELSE IF live = {} THEN mode' = "wild" /\ UNCHANGED <<frames, store>>
        ELSE \E i \in live : \E old \in SUBSET {a \in Locals : store[a] # buf.kept[a]} :
               /\ frames' = [SubSeq(frames, 1, i) EXCEPT ![i].pc = buf.pc]
               /\ store' = [a \in DOMAIN store |-> IF a \in old THEN buf.kept[a] ELSE store[a]]
               /\ mode' = "run"
     /\ UNCHANGED <<genVars, closers, out, depth, bufs, lock, calls>>

Step == \/ Start \/ SetLine \/ CopyLine \/ Output \/ Go \/ CallLine \/ FallOff \/ DepthLine
        \/ TakeLock \/ Unlock \/ OpenBlock \/ CloseBlock \/ LeaveBlock \/ LeaveUnit \/ LongJump

Init == GenInit /\ RunInit
Next == (Generate /\ UNCHANGED runVars) \/ Step
Spec == Init /\ [][Next]_vars
=============================================================================
