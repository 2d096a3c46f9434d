------------------------------- MODULE RegAlloc -------------------------------
(***************************************************************************)
(* LinearScanAlloc of the native backend: the temporaries of one function  *)
(* get callee-saved registers for as long as they live.                    *)
(*                                                                         *)
(* A temporary lives from the first to the last instruction that mentions  *)
(* it, and to the end of every loop that it overlaps.  The intervals are   *)
(* taken in the order of their starts; one that finds no free register     *)
(* takes that of the active interval with the furthest end, if that is     *)
(* further than its own, and stays in its stack slot otherwise.            *)
(*                                                                         *)
(* A register is its index in POOL.  std::sort leaves intervals with one   *)
(* start in any order, and so does this specification.                     *)
(***************************************************************************)
EXTENDS Integers, Sequences, FiniteSets, FiniteSetsExt

CONSTANTS
  PoolSize,  \* how many registers there are, 5 in the code
  Temps,     \* the ids of temporaries
  NoTemp,    \* the result of an instruction that has none
  Codes      \* the functions: sequences of instructions, each with `op`, its
             \* result `res`, the temps `uses` it reads and a label `lab`

NoReg == 0
Registers == 1..PoolSize

ASSUME PoolAssumption == PoolSize \in Nat \ {0}
ASSUME TempsAssumption == NoTemp \notin Temps
ASSUME CodesAssumption ==
  \A c \in Codes :
    /\ DOMAIN c = 1..Len(c) /\ Len(c) \in Nat
    /\ \A i \in 1..Len(c) : c[i].res \in Temps \cup {NoTemp} /\ c[i].uses \subseteq Temps

VARIABLES
  code,     \* the function whose temporaries are allocated
  begins,   \* the starts of the live intervals
  ends,     \* their ends
  todo,     \* the temporaries that the scan has not come to
  active,   \* those that hold a register now
  free,     \* the registers nobody holds
  tempReg,  \* the register of each temporary, or NoReg for its stack slot
  saved     \* usedCalleeSaved: the registers that the prologue pushes

intervals == <<begins, ends>>
scan == <<todo, active, free, tempReg, saved>>
allocVars == <<code, intervals, scan>>

-----------------------------------------------------------------------------
(* Live intervals.                                                         *)

Mentions(c, i) == ({c[i].res} \ {NoTemp}) \cup c[i].uses
TempsOf(c) == UNION {Mentions(c, i) : i \in 1..Len(c)}
Mentioned(c, t) == {i \in 1..Len(c) : t \in Mentions(c, i)}

(* A loop is a jump back: <<where its label is, where it jumps from>>.     *)
Jumps == {"JUMP", "JUMP_IF_TRUE", "JUMP_IF_FALSE"}
Bug_LoopRegions(c) == {}
LoopRegions(c) ==
  {loop \in (1..Len(c)) \X (1..Len(c)) :
     /\ loop[1] < loop[2]
     /\ c[loop[1]].op = "LABEL" /\ c[loop[2]].op \in Jumps
     /\ c[loop[1]].lab = c[loop[2]].lab}

MustReach(t, loop) ==
  begins[t] <= loop[2] /\ ends[t] >= loop[1] /\ ends[t] < loop[2]
Reached == \A t \in DOMAIN ends, loop \in LoopRegions(code) : ~MustReach(t, loop)

(* run() up to the fixpoint of computeLiveIntervals.                       *)
Allocate(c) ==
  /\ code' = c
  /\ begins' = [t \in TempsOf(c) |-> Min(Mentioned(c, t))]
  /\ ends' = [t \in TempsOf(c) |-> Max(Mentioned(c, t))]
  /\ todo' = TempsOf(c)
  /\ active' = {}
  /\ free' = Registers
  /\ tempReg' = [t \in TempsOf(c) |-> NoReg]
  /\ saved' = {}

Extend(t, loop) ==
  /\ MustReach(t, loop)
  /\ ends' = [ends EXCEPT ![t] = loop[2]]
  /\ UNCHANGED <<code, begins, scan>>

-----------------------------------------------------------------------------
(* The scan.                                                               *)

(* The interval the scan comes to, what is still active then, and the      *)
(* registers that are free once the others have expired.                   *)
IsNext(t) == Reached /\ t \in todo /\ \A u \in todo : begins[t] <= begins[u]
Bug_Alive(t) == {u \in active : ends[u] > begins[t]}
Alive(t) == {u \in active : ends[u] >= begins[t]}
Open(t) == free \cup {tempReg[u] : u \in active \ Alive(t)}
Furthest(t) == {u \in Alive(t) : \A v \in Alive(t) : ends[v] <= ends[u]}

(* usedCalleeSaved with the register that t gets.                          *)
Using(r) == saved \cup {r}

TakeFree(t) ==
  /\ IsNext(t) /\ Open(t) # {}
  /\ LET r == Min(Open(t))
     IN /\ tempReg' = [tempReg EXCEPT ![t] = r]
        /\ free' = Open(t) \ {r}
        /\ saved' = Using(r)
  /\ active' = Alive(t) \cup {t}
  /\ todo' = todo \ {t}
  /\ UNCHANGED <<code, intervals>>

Evict(t, v) ==
  /\ IsNext(t) /\ Open(t) = {}
  /\ v \in Furthest(t) /\ ends[v] > ends[t]
  /\ tempReg' = [tempReg EXCEPT ![v] = NoReg, ![t] = tempReg[v]]
  /\ saved' = Using(tempReg[v])
  /\ active' = (Alive(t) \ {v}) \cup {t}
  /\ free' = {}
  /\ todo' = todo \ {t}
  /\ UNCHANGED <<code, intervals>>

StayOnStack(t) ==
  /\ IsNext(t) /\ Open(t) = {}
  /\ \A v \in Furthest(t) : ends[v] <= ends[t]
  /\ active' = Alive(t)
  /\ free' = {}
  /\ todo' = todo \ {t}
  /\ UNCHANGED <<code, intervals, tempReg, saved>>

AllocStep ==
  \/ \E t \in DOMAIN ends, loop \in LoopRegions(code) : Extend(t, loop)
  \/ \E t \in todo : \/ TakeFree(t)
                     \/ \E v \in active : Evict(t, v)
                     \/ StayOnStack(t)
Allocated == todo = {}

AllocInit ==
  /\ code \in Codes
  /\ begins = [t \in TempsOf(code) |-> Min(Mentioned(code, t))]
  /\ ends = [t \in TempsOf(code) |-> Max(Mentioned(code, t))]
  /\ todo = TempsOf(code)
  /\ active = {}
  /\ free = Registers
  /\ tempReg = [t \in TempsOf(code) |-> NoReg]
  /\ saved = {}
AllocNext == AllocStep \/ (Allocated /\ \E c \in Codes : Allocate(c))
AllocSpec == AllocInit /\ [][AllocNext]_allocVars

-----------------------------------------------------------------------------
(* Two temporaries that live at one instruction are never in one register. *)
Overlap(t, u) == begins[t] <= ends[u] /\ begins[u] <= ends[t]
NeverShared ==
  \A t, u \in DOMAIN tempReg :
    t # u /\ tempReg[t] = tempReg[u] /\ tempReg[t] # NoReg => ~Overlap(t, u)

(* When the registers have run out somebody can be asked for one:          *)
(* `std::prev(active.end())` is taken before `active.empty()` is looked at *)
VictimExists == \A t \in todo : IsNext(t) /\ Open(t) = {} => Furthest(t) # {}

(* The prologue saves every register that a temporary of the function is   *)
(* in, those of evicted ones too, so that callers find theirs again.       *)
PrologueCovers == {tempReg[t] : t \in DOMAIN tempReg} \subseteq saved \cup {NoReg}
=============================================================================
