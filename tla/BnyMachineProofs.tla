--------------------------- MODULE BnyMachineProofs ---------------------------
(***************************************************************************)
(* The allocator for every function and any number of registers: two       *)
(* temporaries that live at one instruction never share a register, every  *)
(* register in use is saved by the prologue, and a victim is only asked    *)
(* for when there is one.  The compiler of BnyMachine uses the allocator   *)
(* as RegAlloc specifies it, so that this holds of every compiled program. *)
(*                                                                         *)
(* Of a program that runs: the handlers installed are those of the try     *)
(* clauses it is in, stacks are never lost, and every instruction finds in *)
(* its operands what the IR says, whatever calls, exceptions and switches  *)
(* of stacks there were.                                                   *)
(***************************************************************************)
EXTENDS BnyMachine, SequenceTheorems, WellFoundedInduction, TLAPS

Held == {tempReg[t] : t \in active}
Scanned(t) == t \in DOMAIN tempReg /\ t \notin todo

TypeOK ==
  /\ code \in Codes
  /\ begins \in [TempsOf(code) -> 1..Len(code)]
  /\ ends \in [TempsOf(code) -> 1..Len(code)]
  /\ todo \subseteq TempsOf(code)
  /\ active \subseteq TempsOf(code) \ todo
  /\ free \subseteq Registers
  /\ tempReg \in [TempsOf(code) -> Registers \cup {NoReg}]
  /\ saved \subseteq Registers

(* The active intervals and `free` share out the registers.                *)
Shared_ ==
  /\ \A t \in active : tempReg[t] # NoReg /\ tempReg[t] \notin free
  /\ \A t, u \in active : t # u => tempReg[t] # tempReg[u]
  /\ Registers = free \cup Held

(* What the scan has passed starts no later than what is left; when it     *)
(* still has a register and is not active it ends before that.             *)
Swept ==
  /\ \A t \in todo : tempReg[t] = NoReg
  /\ \A t \in TempsOf(code) \ todo, u \in todo :
       /\ begins[t] <= begins[u]
       /\ t \notin active /\ tempReg[t] # NoReg => ends[t] < begins[u]
  /\ todo # TempsOf(code) => Reached

IInv == TypeOK /\ Shared_ /\ Swept /\ NeverShared /\ PrologueCovers

-----------------------------------------------------------------------------
(* Every set of positions has a first and a last one.                      *)
LEMMA FirstOne ==
  ASSUME NEW S, S \subseteq Nat, S # {}
  PROVE  \E x \in S : \A y \in S : x <= y
<1>1. IsWellFoundedOn(OpToRel(<, Nat), Nat)
  BY NatLessThanWellFounded
<1>2. \E x \in S : \A y \in S : ~(<<y, x>> \in OpToRel(<, Nat))
  BY <1>1, WFMin
<1>3. PICK x \in S : \A y \in S : ~(<<y, x>> \in OpToRel(<, Nat))
  BY <1>2
<1>4. ASSUME NEW y \in S PROVE x <= y
  <2>1. x \in Nat /\ y \in Nat
    OBVIOUS
  <2>2. ~(y < x)
    BY <1>3, <2>1 DEF OpToRel
  <2>3. QED
    BY <2>1, <2>2
<1>5. QED
  BY <1>4

(* Every bounded set of positions has a last one.                          *)
LEMMA LastOne ==
  ASSUME NEW n \in Nat, NEW S, S \subseteq 1..n, S # {}
  PROVE  \E x \in S : \A y \in S : y <= x
<1>. DEFINE T == {n - x : x \in S}
<1>1. T \subseteq Nat /\ T # {}
  OBVIOUS
<1>2. PICK m \in T : \A y \in T : m <= y
  BY <1>1, FirstOne
<1>3. PICK x \in S : m = n - x
  BY <1>2
<1>4. ASSUME NEW y \in S PROVE y <= x
  <2>1. n - x <= n - y
    BY <1>2, <1>3
  <2>2. x \in Int /\ y \in Int
    OBVIOUS
  <2>3. QED
    BY <2>1, <2>2
<1>5. QED
  BY <1>4

(* What Min and Max choose.                                                *)
LEMMA Ends_ ==
  ASSUME NEW n \in Nat, NEW S, S \subseteq 1..n, S # {}
  PROVE  Min(S) \in S /\ Max(S) \in S
<1>1. \E x \in S : \A y \in S : x <= y
  <2>1. S \subseteq Nat
    OBVIOUS
  <2>2. QED
    BY <2>1, FirstOne
<1>2. \E x \in S : \A y \in S : x >= y
  <2>1. PICK x \in S : \A y \in S : y <= x
    BY LastOne
  <2>2. \A y \in S : x >= y
    BY <2>1
  <2>3. QED
    BY <2>2
<1>3. QED
  BY <1>1, <1>2 DEF Min, Max

(* The lowest register of a set is in it.                                  *)
LEMMA MinRegister ==
  ASSUME NEW S, S \subseteq Registers, S # {}
  PROVE  Min(S) \in S
  BY Ends_, PoolAssumption DEF Registers

(* The intervals of a function lie within it.                              *)
LEMMA IntervalsTyped ==
  ASSUME NEW c \in Codes, NEW t \in TempsOf(c)
  PROVE  Min(Mentioned(c, t)) \in 1..Len(c) /\ Max(Mentioned(c, t)) \in 1..Len(c)
<1>1. Len(c) \in Nat
  BY CodesAssumption
<1>2. Mentioned(c, t) \subseteq 1..Len(c) /\ Mentioned(c, t) # {}
  BY DEF Mentioned, TempsOf
<1>3. QED
  BY <1>1, <1>2, Ends_

-----------------------------------------------------------------------------
(* The intervals that Allocate makes satisfy the invariant.                *)
LEMMA AllocateInv ==
  ASSUME NEW c \in Codes, Allocate(c)
  PROVE  IInv'
<1>1. /\ code' = c /\ todo' = TempsOf(c) /\ active' = {} /\ free' = Registers /\ saved' = {}
      /\ begins' = [t \in TempsOf(c) |-> Min(Mentioned(c, t))]
      /\ ends' = [t \in TempsOf(c) |-> Max(Mentioned(c, t))]
      /\ tempReg' = [t \in TempsOf(c) |-> NoReg]
  BY DEF Allocate
<1>2. TypeOK'
  <2>1. begins' \in [TempsOf(c) -> 1..Len(c)] /\ ends' \in [TempsOf(c) -> 1..Len(c)]
    BY <1>1, IntervalsTyped
  <2>2. QED
    BY <1>1, <2>1 DEF TypeOK
<1>3. Shared_'
  BY <1>1 DEF Shared_, Held
<1>4. Swept'
  BY <1>1 DEF Swept
<1>5. NeverShared'
  BY <1>1 DEF NeverShared
<1>6. PrologueCovers'
  BY <1>1 DEF PrologueCovers
<1>7. QED
  BY <1>2, <1>3, <1>4, <1>5, <1>6 DEF IInv

(* Before the scan every register is free and no temporary has one.        *)
LEMMA InitInv ==
  ASSUME AllocInit
  PROVE  IInv
<1>1. /\ code \in Codes /\ todo = TempsOf(code) /\ active = {} /\ free = Registers /\ saved = {}
      /\ begins = [t \in TempsOf(code) |-> Min(Mentioned(code, t))]
      /\ ends = [t \in TempsOf(code) |-> Max(Mentioned(code, t))]
      /\ tempReg = [t \in TempsOf(code) |-> NoReg]
  BY DEF AllocInit
<1>2. TypeOK
  <2>1. begins \in [TempsOf(code) -> 1..Len(code)] /\ ends \in [TempsOf(code) -> 1..Len(code)]
    BY <1>1, IntervalsTyped
  <2>2. QED
    BY <1>1, <2>1 DEF TypeOK
<1>3. Shared_
  BY <1>1 DEF Shared_, Held
<1>4. Swept
  BY <1>1 DEF Swept
<1>5. NeverShared
  BY <1>1 DEF NeverShared
<1>6. PrologueCovers
  BY <1>1 DEF PrologueCovers
<1>7. QED
  BY <1>2, <1>3, <1>4, <1>5, <1>6 DEF IInv

(* An interval is extended before the scan only.                           *)
LEMMA ExtendInv ==
  ASSUME IInv, NEW t \in DOMAIN ends, NEW loop \in LoopRegions(code), Extend(t, loop)
  PROVE  IInv'
<1>1. TypeOK /\ Shared_ /\ Swept /\ NeverShared /\ PrologueCovers
  BY DEF IInv
<1>2. /\ MustReach(t, loop) /\ ends' = [ends EXCEPT ![t] = loop[2]]
      /\ UNCHANGED <<code, begins, todo, active, free, tempReg, saved>>
  BY DEF Extend, scan
<1>3. todo = TempsOf(code)
  BY <1>1, <1>2 DEF Swept, Reached
<1>4. DOMAIN tempReg = TempsOf(code) /\ \A u \in TempsOf(code) : tempReg[u] = NoReg
  BY <1>1, <1>3 DEF TypeOK, Swept
<1>5. TypeOK'
  <2>1. loop[2] \in 1..Len(code)
    BY DEF LoopRegions
  <2>2. ends' \in [TempsOf(code) -> 1..Len(code)]
    BY <1>1, <1>2, <2>1 DEF TypeOK
  <2>3. QED
    BY <1>1, <1>2, <2>2 DEF TypeOK
<1>6. Shared_'
  BY <1>1, <1>2 DEF Shared_, Held
<1>7. Swept'
  BY <1>1, <1>2, <1>3 DEF Swept, TypeOK
<1>8. NeverShared'
  BY <1>2, <1>4 DEF NeverShared
<1>9. PrologueCovers'
  BY <1>1, <1>2 DEF PrologueCovers
<1>10. QED
  BY <1>5, <1>6, <1>7, <1>8, <1>9 DEF IInv

-----------------------------------------------------------------------------
(* What the scan finds when it comes to t and the expired are gone.        *)
LEMMA Opened ==
  ASSUME IInv, NEW t \in todo, IsNext(t)
  PROVE  /\ t \in TempsOf(code) /\ tempReg[t] = NoReg /\ t \notin active
         /\ Alive(t) \subseteq active /\ Open(t) \subseteq Registers
         /\ \A u \in Alive(t) : tempReg[u] \in Registers /\ tempReg[u] \notin Open(t)
         /\ Registers = Open(t) \cup {tempReg[u] : u \in Alive(t)}
         /\ \A u \in TempsOf(code) \ todo :
              u \notin Alive(t) /\ tempReg[u] # NoReg => ends[u] < begins[t]
         /\ \A u \in todo : begins[t] <= begins[u]
<1>1. TypeOK /\ Shared_ /\ Swept
  BY DEF IInv
<1>2. t \in TempsOf(code) /\ tempReg[t] = NoReg /\ t \notin active
  BY <1>1 DEF TypeOK, Swept
<1>3. Alive(t) \subseteq active
  BY DEF Alive
<1>4. \A u \in active : tempReg[u] \in Registers
  BY <1>1 DEF TypeOK, Shared_
<1>5. Open(t) \subseteq Registers
  BY <1>1, <1>4 DEF TypeOK, Open
<1>6. \A u \in Alive(t) : tempReg[u] \notin Open(t)
  BY <1>1, <1>3 DEF Shared_, Open
<1>7. Registers = Open(t) \cup {tempReg[u] : u \in Alive(t)}
  <2>1. ASSUME NEW r \in Registers PROVE r \in Open(t) \cup {tempReg[u] : u \in Alive(t)}
    <3>1. CASE r \in free
      BY <3>1 DEF Open
    <3>2. CASE r \in Held
      <4>1. PICK u \in active : r = tempReg[u]
        BY <3>2 DEF Held
      <4>2. QED
        BY <4>1 DEF Open
    <3>3. QED
      BY <1>1, <3>1, <3>2 DEF Shared_
  <2>2. QED
    BY <1>3, <1>4, <1>5, <2>1
<1>8. ASSUME NEW u \in TempsOf(code) \ todo, u \notin Alive(t), tempReg[u] # NoReg
      PROVE  ends[u] < begins[t]
  <2>1. CASE u \in active
    <3>1. ends[u] \in Int /\ begins[t] \in Int
      BY <1>1, <1>2 DEF TypeOK
    <3>2. ~(ends[u] >= begins[t])
      BY <1>8, <2>1 DEF Alive
    <3>3. QED
      BY <3>1, <3>2
  <2>2. CASE u \notin active
    BY <1>1, <1>8, <2>2 DEF Swept
  <2>3. QED
    BY <2>1, <2>2
<1>9. \A u \in todo : begins[t] <= begins[u]
  BY DEF IsNext
<1>10. QED
  BY <1>2, <1>3, <1>4, <1>5, <1>6, <1>7, <1>8, <1>9

(* What is passed and no longer active has ended before all that is left,  *)
(* when t is passed too.                                                   *)
LEMMA SweptOn ==
  ASSUME IInv, NEW t \in todo, IsNext(t),
         NEW A, Alive(t) \subseteq A,
         NEW f, f[t] = NoReg \/ t \in A,
         \A u \in TempsOf(code) \ todo :
           u \in A \/ f[u] = NoReg \/ (f[u] = tempReg[u] /\ u \notin Alive(t))
  PROVE  \A u \in TempsOf(code) \ (todo \ {t}), w \in todo \ {t} :
           /\ begins[u] <= begins[w]
           /\ u \notin A /\ f[u] # NoReg => ends[u] < begins[w]
<1>1. TypeOK /\ Swept
  BY DEF IInv
<1>2. ASSUME NEW u \in TempsOf(code) \ (todo \ {t}), NEW w \in todo \ {t}
      PROVE  begins[u] <= begins[w]
  BY <1>1, Opened DEF Swept
<1>3. ASSUME NEW u \in TempsOf(code) \ (todo \ {t}), NEW w \in todo \ {t},
             u \notin A, f[u] # NoReg
      PROVE  ends[u] < begins[w]
  <2>1. u # t
    BY <1>3
  <2>2. ends[u] < begins[t] /\ begins[t] <= begins[w]
    BY <1>3, <2>1, Opened
  <2>3. ends[u] \in Int /\ begins[t] \in Int /\ begins[w] \in Int
    BY <1>1 DEF TypeOK
  <2>4. QED
    BY <2>2, <2>3
<1>4. QED
  BY <1>2, <1>3

-----------------------------------------------------------------------------
(* A temporary that takes a free register keeps the invariant.             *)
LEMMA TakeFreeInv ==
  ASSUME IInv, NEW t \in todo, TakeFree(t)
  PROVE  IInv'
<1>1. TypeOK /\ Shared_ /\ Swept /\ NeverShared /\ PrologueCovers
  BY DEF IInv
<1>2. PICK r : /\ r = Min(Open(t))
               /\ tempReg' = [tempReg EXCEPT ![t] = r]
               /\ free' = Open(t) \ {r} /\ saved' = saved \cup {r}
  BY DEF TakeFree, Using
<1>3. /\ IsNext(t) /\ Open(t) # {}
      /\ active' = Alive(t) \cup {t} /\ todo' = todo \ {t}
      /\ code' = code /\ begins' = begins /\ ends' = ends
  BY DEF TakeFree, intervals
<1>4. /\ t \in TempsOf(code) /\ t \notin active
      /\ Alive(t) \subseteq active /\ Open(t) \subseteq Registers
  BY <1>3, Opened
<1>5. \A u \in Alive(t) : tempReg[u] \in Registers /\ tempReg[u] \notin Open(t)
  BY <1>3, Opened
<1>6. r \in Open(t) /\ r \in Registers /\ r # NoReg
  BY <1>2, <1>3, <1>4, MinRegister DEF Registers, NoReg
<1>7. tempReg'[t] = r /\ \A u \in TempsOf(code) \ {t} : tempReg'[u] = tempReg[u]
  BY <1>1, <1>2, <1>4 DEF TypeOK
<1>8. TypeOK'
  BY <1>1, <1>2, <1>3, <1>4, <1>6 DEF TypeOK
<1>9. Shared_'
  <2>1. \A u \in Alive(t) : tempReg'[u] = tempReg[u] /\ tempReg'[u] # r
    BY <1>1, <1>4, <1>5, <1>6, <1>7 DEF TypeOK
  <2>2. \A u \in active' : tempReg'[u] # NoReg /\ tempReg'[u] \notin free'
    BY <1>1, <1>2, <1>3, <1>4, <1>5, <1>6, <1>7, <2>1 DEF Shared_
  <2>3. \A u, w \in active' : u # w => tempReg'[u] # tempReg'[w]
    BY <1>1, <1>3, <1>4, <1>7, <2>1 DEF Shared_
  <2>4. Registers = free' \cup Held'
    <3>1. Registers = Open(t) \cup {tempReg[u] : u \in Alive(t)}
      BY <1>3, Opened
    <3>2. Held' = {tempReg'[u] : u \in Alive(t)} \cup {r}
      BY <1>3, <1>7 DEF Held
    <3>3. {tempReg'[u] : u \in Alive(t)} = {tempReg[u] : u \in Alive(t)}
      BY <2>1
    <3>4. QED
      BY <1>2, <1>6, <3>1, <3>2, <3>3
  <2>5. QED
    BY <2>2, <2>3, <2>4 DEF Shared_
<1>10. Swept'
  <2>1. \A u \in TempsOf(code) \ (todo \ {t}), w \in todo \ {t} :
          /\ begins[u] <= begins[w]
          /\ u \notin active' /\ tempReg'[u] # NoReg => ends[u] < begins[w]
    BY <1>1, <1>3, <1>4, <1>7, SweptOn DEF TypeOK
  <2>2. \A u \in todo' : tempReg'[u] = NoReg
    BY <1>1, <1>3, <1>7 DEF Swept, TypeOK
  <2>3. Reached'
    BY <1>3 DEF IsNext, Reached, MustReach
  <2>4. QED
    BY <1>3, <2>1, <2>2, <2>3 DEF Swept
<1>11. NeverShared'
  <2>1. ASSUME NEW u \in TempsOf(code) \ {t}, tempReg[u] = r
        PROVE  ends[u] < begins[t]
    <3>1. u \notin Alive(t) /\ u \notin todo
      BY <1>1, <1>5, <1>6, <2>1 DEF Swept
    <3>2. QED
      BY <1>3, <1>6, <2>1, <3>1, Opened
  <2>2. \A u \in TempsOf(code) \ {t} : tempReg[u] = r => ~Overlap(t, u) /\ ~Overlap(u, t)
    BY <1>1, <1>4, <2>1 DEF TypeOK, Overlap
  <2>3. DOMAIN tempReg = TempsOf(code) /\ DOMAIN tempReg' = TempsOf(code)
    BY <1>1, <1>2 DEF TypeOK
  <2>4. QED
    BY <1>1, <1>3, <1>7, <2>2, <2>3 DEF NeverShared, Overlap
<1>12. PrologueCovers'
  <2>1. DOMAIN tempReg = TempsOf(code) /\ DOMAIN tempReg' = TempsOf(code)
    BY <1>1, <1>2 DEF TypeOK
  <2>2. QED
    BY <1>1, <1>2, <1>7, <2>1 DEF PrologueCovers
<1>13. QED
  BY <1>8, <1>9, <1>10, <1>11, <1>12 DEF IInv

(* So does one that takes the register of an evicted temporary.            *)
LEMMA EvictInv ==
  ASSUME IInv, NEW t \in todo, NEW v \in active, Evict(t, v)
  PROVE  IInv'
<1>1. TypeOK /\ Shared_ /\ Swept /\ NeverShared /\ PrologueCovers
  BY DEF IInv
<1>2. /\ IsNext(t) /\ Open(t) = {} /\ v \in Alive(t)
      /\ tempReg' = [tempReg EXCEPT ![v] = NoReg, ![t] = tempReg[v]]
      /\ saved' = saved \cup {tempReg[v]}
      /\ active' = (Alive(t) \ {v}) \cup {t} /\ todo' = todo \ {t} /\ free' = {}
      /\ code' = code /\ begins' = begins /\ ends' = ends
  BY DEF Evict, Furthest, Using, intervals
<1>3. t \in TempsOf(code) /\ t \notin active /\ Alive(t) \subseteq active /\ t # v
  BY <1>2, Opened
<1>4. \A u \in Alive(t) : tempReg[u] \in Registers
  BY <1>2, Opened
<1>5. v \in TempsOf(code)
  BY <1>1 DEF TypeOK
<1>6. /\ tempReg'[t] = tempReg[v] /\ tempReg'[v] = NoReg
      /\ \A u \in TempsOf(code) \ {t, v} : tempReg'[u] = tempReg[u]
  BY <1>1, <1>2, <1>3, <1>5 DEF TypeOK
<1>7. tempReg[v] \in Registers /\ tempReg[v] # NoReg
  BY <1>2, <1>4 DEF Registers, NoReg
<1>8. TypeOK'
  BY <1>1, <1>2, <1>3, <1>7 DEF TypeOK
<1>9. Shared_'
  <2>1. \A u \in Alive(t) \ {v} : tempReg'[u] = tempReg[u] /\ tempReg'[u] # tempReg[v]
    BY <1>1, <1>2, <1>3, <1>6 DEF TypeOK, Shared_
  <2>2. \A u \in active' : tempReg'[u] # NoReg /\ tempReg'[u] \notin free'
    BY <1>1, <1>2, <1>3, <1>6, <1>7, <2>1 DEF Shared_
  <2>3. \A u, w \in active' : u # w => tempReg'[u] # tempReg'[w]
    <3>1. \A u, w \in Alive(t) \ {v} : u # w => tempReg'[u] # tempReg'[w]
      BY <1>1, <1>3, <2>1 DEF Shared_
    <3>2. \A u \in Alive(t) \ {v} : tempReg'[u] # tempReg'[t]
      BY <1>6, <2>1
    <3>3. QED
      BY <1>2, <3>1, <3>2
  <2>4. Registers = free' \cup Held'
    <3>1. Registers = {tempReg[u] : u \in Alive(t)}
      BY <1>2, Opened
    <3>2. Held' = {tempReg'[u] : u \in Alive(t) \ {v}} \cup {tempReg[v]}
      BY <1>2, <1>6 DEF Held
    <3>3. {tempReg'[u] : u \in Alive(t) \ {v}} = {tempReg[u] : u \in Alive(t) \ {v}}
      BY <2>1
    <3>4. {tempReg[u] : u \in Alive(t)} = {tempReg[u] : u \in Alive(t) \ {v}} \cup {tempReg[v]}
      BY <1>2
    <3>5. QED
      BY <1>2, <3>1, <3>2, <3>3, <3>4
  <2>5. QED
    BY <2>2, <2>3, <2>4 DEF Shared_
<1>10. Swept'
  <2>1. \A u \in TempsOf(code) \ (todo \ {t}), w \in todo \ {t} :
          /\ begins[u] <= begins[w]
          /\ u \notin active' \cup {v} /\ tempReg'[u] # NoReg => ends[u] < begins[w]
    <3>1. Alive(t) \subseteq active' \cup {v} /\ t \in active' \cup {v}
      BY <1>2
    <3>2. \A u \in TempsOf(code) \ todo :
            u \in active' \cup {v} \/ (tempReg'[u] = tempReg[u] /\ u \notin Alive(t))
      BY <1>2, <1>6, <3>1
    <3>3. QED
      BY <1>2, <3>1, <3>2, SweptOn
  <2>2. \A u \in todo' : tempReg'[u] = NoReg
    BY <1>1, <1>2, <1>3, <1>6 DEF Swept, TypeOK
  <2>3. Reached'
    BY <1>2 DEF IsNext, Reached, MustReach
  <2>4. QED
    BY <1>2, <1>6, <2>1, <2>2, <2>3 DEF Swept
<1>11. NeverShared'
  <2>1. ASSUME NEW u \in TempsOf(code) \ {t, v}, tempReg[u] = tempReg[v]
        PROVE  ends[u] < begins[t]
    <3>1. u \notin Alive(t) /\ u \notin todo
      BY <1>1, <1>2, <1>3, <1>7, <2>1 DEF Swept, Shared_
    <3>2. QED
      BY <1>2, <1>7, <2>1, <3>1, Opened
  <2>2. \A u \in TempsOf(code) \ {t, v} :
          tempReg[u] = tempReg[v] => ~Overlap(t, u) /\ ~Overlap(u, t)
    BY <1>1, <1>3, <2>1 DEF TypeOK, Overlap
  <2>3. DOMAIN tempReg = TempsOf(code) /\ DOMAIN tempReg' = TempsOf(code)
    BY <1>1, <1>2 DEF TypeOK
  <2>4. QED
    BY <1>1, <1>2, <1>6, <2>2, <2>3 DEF NeverShared, Overlap
<1>12. PrologueCovers'
  <2>1. DOMAIN tempReg = TempsOf(code) /\ DOMAIN tempReg' = TempsOf(code)
    BY <1>1, <1>2 DEF TypeOK
  <2>2. QED
    BY <1>1, <1>2, <1>6, <2>1 DEF PrologueCovers
<1>13. QED
  BY <1>8, <1>9, <1>10, <1>11, <1>12 DEF IInv

(* So does one that stays on the stack.                                    *)
LEMMA StayInv ==
  ASSUME IInv, NEW t \in todo, StayOnStack(t)
  PROVE  IInv'
<1>1. TypeOK /\ Shared_ /\ Swept /\ NeverShared /\ PrologueCovers
  BY DEF IInv
<1>2. /\ IsNext(t) /\ Open(t) = {}
      /\ active' = Alive(t) /\ todo' = todo \ {t} /\ free' = {}
      /\ tempReg' = tempReg /\ saved' = saved
      /\ code' = code /\ begins' = begins /\ ends' = ends
  BY DEF StayOnStack, intervals
<1>3. t \in TempsOf(code) /\ tempReg[t] = NoReg /\ t \notin active /\ Alive(t) \subseteq active
  BY <1>2, Opened
<1>4. TypeOK'
  BY <1>1, <1>2, <1>3 DEF TypeOK
<1>5. Shared_'
  <2>1. Registers = {tempReg[u] : u \in Alive(t)}
    BY <1>2, Opened
  <2>2. QED
    BY <1>1, <1>2, <1>3, <2>1 DEF Shared_, Held
<1>6. Swept'
  <2>1. \A u \in TempsOf(code) \ (todo \ {t}), w \in todo \ {t} :
          /\ begins[u] <= begins[w]
          /\ u \notin active' /\ tempReg'[u] # NoReg => ends[u] < begins[w]
    BY <1>2, <1>3, SweptOn
  <2>2. Reached'
    BY <1>2 DEF IsNext, Reached, MustReach
  <2>3. QED
    BY <1>1, <1>2, <2>1, <2>2 DEF Swept
<1>7. NeverShared' /\ PrologueCovers'
  BY <1>1, <1>2 DEF NeverShared, Overlap, PrologueCovers
<1>8. QED
  BY <1>4, <1>5, <1>6, <1>7 DEF IInv

-----------------------------------------------------------------------------
(* Every step of the scan keeps the invariant.                             *)
LEMMA StepInv ==
  ASSUME IInv, [AllocNext]_allocVars
  PROVE  IInv'
<1>1. CASE AllocStep
  BY <1>1, ExtendInv, TakeFreeInv, EvictInv, StayInv DEF AllocStep
<1>2. CASE \E c \in Codes : Allocate(c)
  BY <1>2, AllocateInv
<1>3. CASE UNCHANGED allocVars
  BY <1>3 DEF allocVars, intervals, scan, IInv, TypeOK, Shared_, Held, Swept, Reached,
    MustReach, NeverShared, Overlap, PrologueCovers
<1>4. QED
  BY <1>1, <1>2, <1>3 DEF AllocNext

(* The invariant holds of every allocation: types, registers shared out,   *)
(* the scan in order, and from them NeverShared and PrologueCovers.        *)
THEOREM Invariance == AllocSpec => []IInv
<1>1. AllocInit => IInv
  BY InitInv
<1>2. IInv /\ [AllocNext]_allocVars => IInv'
  BY StepInv
<1>3. QED
  BY <1>1, <1>2, PTL DEF AllocSpec

(* LinearScanAlloc never gives one register to two temporaries that live   *)
(* at one instruction, for any code, any pool and any order among equals.  *)
THEOREM RegistersNeverShared == AllocSpec => []NeverShared
<1>1. IInv => NeverShared
  BY DEF IInv
<1>2. QED
  BY <1>1, Invariance, PTL

(* Every register that a temporary is in is among those that the prologue  *)
(* pushes and the epilogue pops.                                           *)
THEOREM PrologueSavesAll == AllocSpec => []PrologueCovers
<1>1. IInv => PrologueCovers
  BY DEF IInv
<1>2. QED
  BY <1>1, Invariance, PTL

(* The last active interval, which the code takes without asking whether   *)
(* there is one, is there whenever no register is free.                    *)
THEOREM VictimThere == AllocSpec => []VictimExists
<1>1. IInv => VictimExists
  <2>1. SUFFICES ASSUME IInv, NEW t \in todo, IsNext(t), Open(t) = {}
                 PROVE  Furthest(t) # {}
    BY DEF VictimExists
  <2>2. TypeOK
    BY <2>1 DEF IInv
  <2>3. Registers = {tempReg[u] : u \in Alive(t)} /\ Alive(t) \subseteq active
    BY <2>1, Opened
  <2>4. Registers # {}
    BY PoolAssumption DEF Registers
  <2>5. Alive(t) # {}
    BY <2>3, <2>4
  <2>6. Len(code) \in Nat
    BY <2>2, CodesAssumption DEF TypeOK
  <2>. DEFINE E == {ends[u] : u \in Alive(t)}
  <2>7. E \subseteq 1..Len(code) /\ E # {}
    BY <2>2, <2>3, <2>5 DEF TypeOK
  <2>8. PICK e \in E : \A f \in E : f <= e
    BY <2>6, <2>7, LastOne
  <2>9. PICK u \in Alive(t) : e = ends[u]
    BY <2>8
  <2>10. \A w \in Alive(t) : ends[w] <= ends[u]
    BY <2>8, <2>9
  <2>11. QED
    BY <2>9, <2>10 DEF Furthest
<1>2. QED
  BY <1>1, Invariance, PTL

-----------------------------------------------------------------------------
(* The compiler's use of the allocator.                                    *)

(* The program is one of the instances, and a function is being compiled.  *)
Placed == prog \in Programs /\ nth \in 1..(Len(Order) + 1)

(* The functions are compiled in this order.                               *)
LEMMA OrderIs == Len(Order) = 3 /\ Order[1] = "main" /\ Order[2] = "f" /\ Order[3] = "g"
  BY DEF Order

(* The compiler keeps to the programs of the instance and the order of     *)
(* their functions.                                                        *)
LEMMA PlacedAlways == Spec => []Placed
<1>1. CompileInit => Placed
  BY OrderIs DEF CompileInit, Placed
<1>2. Placed /\ [Next]_vars => Placed'
  <2>1. SUFFICES ASSUME Placed, [Next]_vars PROVE Placed'
    OBVIOUS
  <2>2. CASE FinishFunction
    BY <2>1, <2>2, OrderIs DEF FinishFunction, Placed
  <2>3. CASE UNCHANGED <<prog, nth>>
    BY <2>1, <2>3 DEF Placed
  <2>4. FinishFunction \/ UNCHANGED <<prog, nth>>
    BY <2>1 DEF vars, compiled, Next, PlaceTemps, StartProgram, Make, Scratch, Range_, Construct,
      Label, JumpTo, GoOn, Call, Return, Halt, LockBegin, LockEnd, TryBegin, CatchBegin, TryEnd,
      Divide, Trap, GenCreate, GenSkip, GenNext, GenCrash, Yield, GenReturn, SwapBack, Stop
  <2>5. QED
    BY <2>2, <2>3, <2>4
<1>3. QED
  BY <1>1, <1>2, PTL DEF Spec

(* Compiling and running is, for the allocator's variables, one allocation *)
(* after the other, and then nothing.                                      *)
THEOREM CompilesByAllocator == Spec => AllocSpec
<1>1. CompileInit => AllocInit
  BY DEF CompileInit
<1>2. Placed /\ [Next]_vars => [AllocNext]_allocVars
  <2>1. SUFFICES ASSUME Placed, [Next]_vars PROVE [AllocNext]_allocVars
    OBVIOUS
  <2>2. CASE FinishFunction
    <3>1. CASE nth = Len(Order)
      BY <2>2, <3>1 DEF FinishFunction
    <3>2. CASE nth # Len(Order)
      <4>1. nth + 1 \in {2, 3}
        BY <2>1, <2>2, <3>2, OrderIs DEF FinishFunction, Placed
      <4>2. prog[Order[nth + 1]] \in Codes
        BY <2>1, <4>1, OrderIs, ProgramsAssumption DEF Placed
      <4>3. Allocated /\ Allocate(prog[Order[nth + 1]])
        BY <2>2, <3>2 DEF FinishFunction
      <4>4. QED
        BY <4>2, <4>3 DEF AllocNext
    <3>3. QED
      BY <3>1, <3>2
  <2>3. CASE PlaceTemps
    BY <2>3 DEF PlaceTemps, AllocNext
  <2>4. CASE UNCHANGED allocVars
    BY <2>4
  <2>5. FinishFunction \/ PlaceTemps \/ UNCHANGED allocVars
    BY <2>1 DEF vars, compiled, Next, StartProgram, Make, Scratch, Range_, Construct,
      Label, JumpTo, GoOn, Call, Return, Halt, LockBegin, LockEnd, TryBegin, CatchBegin, TryEnd,
      Divide, Trap, GenCreate, GenSkip, GenNext, GenCrash, Yield, GenReturn, SwapBack, Stop
  <2>6. QED
    BY <2>2, <2>3, <2>4, <2>5
<1>3. QED
  BY <1>1, <1>2, PlacedAlways, PTL DEF Spec, AllocSpec

(* No two temporaries that live at once share a register while any program *)
(* is compiled or runs.                                                    *)
THEOREM ProgramsNeverShare == Spec => []NeverShared
  BY CompilesByAllocator, RegistersNeverShared, PTL

(* Every function's prologue saves the registers that its temporaries use. *)
THEOREM ProgramsSaveAll == Spec => []PrologueCovers
  BY CompilesByAllocator, PrologueSavesAll, PTL

-----------------------------------------------------------------------------
(* The handlers of a running program.                                      *)

(* Lists, of whatever.                                                     *)
IsList(s) == s \in Seq(Range(s))

(* A frame of program p that was made before the time t.                   *)
Fields == {"fn", "id", "pc", "slot", "want", "caught", "saved"}
FrameOK(p, t, fr) ==
  /\ DOMAIN fr = Fields
  /\ fr.fn \in Fns /\ fr.id \in Nat /\ fr.id < t
  /\ fr.pc \in 1..(Len(p[fr.fn]) + 1)
Waits(p, fr, op) == fr.pc <= Len(p[fr.fn]) /\ p[fr.fn][fr.pc].op = op

(* The frames of a stack, each of which waits for the call above it.       *)
Base(fib) == IF fib = Start THEN "main" ELSE "g"
StackOK(p, t, fib, s) ==
  /\ IsList(s) /\ Len(s) # 0
  /\ s[1].fn = Base(fib)
  /\ \A n \in 1..Len(s) : FrameOK(p, t, s[n]) /\ (n > 1 => s[n].fn = "f")
  /\ \A m, n \in 1..Len(s) : m < n => s[m].id < s[n].id /\ Waits(p, s[m], "CALL")
StacksOK(p, t, S) ==
  /\ t \in Nat \ {0} /\ Start \in DOMAIN S
  /\ \A h \in DOMAIN S : h \in Nat /\ h < t /\ StackOK(p, t, h, S[h])

(* A generator that is suspended is resumed in its own frame, behind the   *)
(* yield; while one runs, its caller waits for it.                         *)
Block == {"done", "value", "fresh", "gen", "caller"}
Suspended(p, S, h, g) ==
  /\ h \in DOMAIN S
  /\ g.gen.fiber = h /\ g.gen.id = S[h][1].id
  /\ \E i \in 1..Len(p["g"]) : p["g"][i].op = "YIELD" /\ g.gen.pc = i + 1
GensOK(p, t, S, G) ==
  \A h \in DOMAIN G :
    /\ h \in Nat /\ 0 < h /\ h < t /\ DOMAIN G[h] = Block
    /\ G[h].fresh \/ G[h].done \/ Suspended(p, S, h, G[h])
AwayOK(p, S, fib, G, cur) ==
  /\ fib \in DOMAIN S
  /\ fib # Start =>
       /\ cur = fib /\ fib \in DOMAIN G /\ G[fib].caller.fiber = Start
       /\ LET fr == Last(S[Start])
          IN Waits(p, fr, "GEN_NEXT") /\ G[fib].caller.id = fr.id /\ G[fib].caller.pc = fr.pc

(* The handlers for the open tries of a frame, and of a stack.             *)
TriesIn(p, fib, fr) ==
  {<<fib, fr.id, CatchOf(p[fr.fn], k) + 1>> : k \in OpenAt(p[fr.fn], fr.pc)}
TriesOf(p, fib, s) == UNION {TriesIn(p, fib, s[n]) : n \in 1..Len(s)}
TriesNow(p, S, fib) == TriesOf(p, Start, S[Start]) \cup TriesOf(p, fib, S[fib])
Handler(trs, i) == <<trs[i].fiber, trs[i].id, trs[i].pc>>
(* They are those of a set, outer ones first.                              *)
Match(trs, d, A) ==
  /\ d \in Nat /\ 0..(d - 1) \subseteq DOMAIN trs
  /\ {Handler(trs, i) : i \in 0..(d - 1)} = A
  /\ \A i, j \in 0..(d - 1) : i < j => Inside(Handler(trs, j), Handler(trs, i))

(* A frame in a catch clause has caught.                                   *)
CaughtIn(p, fr) == AfterIn(p[fr.fn]) \/ CatchAt(p[fr.fn], fr.pc) \subseteq fr.caught
CaughtOK(p, s) == \A n \in 1..Len(s) : CaughtIn(p, s[n])

RunOK ==
  /\ StacksOK(prog, clock, stacks) /\ GensOK(prog, clock, stacks, gens)
  /\ AwayOK(prog, stacks, fiber, gens, genCur)
  /\ Match(tries, depth, TriesNow(prog, stacks, fiber))
  /\ CaughtOK(prog, stacks[Start]) /\ CaughtOK(prog, stacks[fiber])

HInv ==
  /\ prog \in Programs
  /\ mode = "compile" =>
       /\ stacks = [h \in {Start} |-> <<>>] /\ fiber = Start /\ gens = <<>>
       /\ depth = 0 /\ clock = 1
  /\ mode = "run" /\ ~LeavesTry => RunOK
  /\ mode = "lost" => LeavesTry

(* What a program's functions are.                                         *)
LEMMA CodeIs ==
  ASSUME prog \in Programs, NEW fn \in Fns
  PROVE  prog[fn] \in Codes /\ Len(prog[fn]) \in Nat /\ fn \in DOMAIN prog
  BY ProgramsAssumption, CodesAssumption DEF Fns

(* Nothing is open where a function begins or ends, and only the begin of  *)
(* a try and that of its clauses change what is.                           *)
LEMMA OpenNext ==
  ASSUME NEW c, TriesNested(c), Len(c) \in Nat
  PROVE  /\ OpenAt(c, 1) = {} /\ OpenAt(c, Len(c) + 1) = {}
         /\ \A i \in 1..Len(c) : c[i].op \notin {"TRY_BEGIN", "CATCH_BEGIN"} =>
              OpenAt(c, i + 1) = OpenAt(c, i)
<1>1. \A k \in 1..Len(c) : c[k].op = "TRY_BEGIN" =>
        CatchOf(c, k) \in (k + 1)..Len(c) /\ c[CatchOf(c, k)].op = "CATCH_BEGIN"
  BY DEF TriesNested
<1>2. OpenAt(c, 1) = {} /\ OpenAt(c, Len(c) + 1) = {}
  BY <1>1 DEF OpenAt
<1>3. ASSUME NEW i \in 1..Len(c), c[i].op \notin {"TRY_BEGIN", "CATCH_BEGIN"}
      PROVE  OpenAt(c, i + 1) = OpenAt(c, i)
  <2>1. ASSUME NEW k \in 1..Len(c), c[k].op = "TRY_BEGIN"
        PROVE  k < i + 1 /\ i + 1 <= CatchOf(c, k) <=> k < i /\ i <= CatchOf(c, k)
    <3>1. CatchOf(c, k) \in (k + 1)..Len(c) /\ c[CatchOf(c, k)].op = "CATCH_BEGIN"
      BY <1>1, <2>1
    <3>2. CatchOf(c, k) # i /\ k # i
      BY <1>3, <2>1, <3>1
    <3> HIDE DEF CatchOf
    <3>3. QED
      BY <3>1, <3>2
  <2>2. QED
    BY <2>1 DEF OpenAt
<1>4. QED
  BY <1>2, <1>3

(* The begin of a try opens it.                                            *)
LEMMA OpenTry ==
  ASSUME NEW c, TriesNested(c), Len(c) \in Nat, NEW i \in 1..Len(c), c[i].op = "TRY_BEGIN"
  PROVE  /\ OpenAt(c, i + 1) = OpenAt(c, i) \cup {i}
         /\ CatchOf(c, i) \in (i + 1)..Len(c)
         /\ \A k \in OpenAt(c, i) : CatchOf(c, i) < CatchOf(c, k)
<1>1. \A k \in 1..Len(c) : c[k].op = "TRY_BEGIN" =>
        CatchOf(c, k) \in (k + 1)..Len(c) /\ c[CatchOf(c, k)].op = "CATCH_BEGIN"
  BY DEF TriesNested
<1>2. ASSUME NEW k \in 1..Len(c), c[k].op = "TRY_BEGIN"
      PROVE  k < i + 1 /\ i + 1 <= CatchOf(c, k) <=> (k < i /\ i <= CatchOf(c, k)) \/ k = i
  <2>1. CatchOf(c, k) \in (k + 1)..Len(c) /\ c[CatchOf(c, k)].op = "CATCH_BEGIN"
    BY <1>1, <1>2
  <2>2. CatchOf(c, k) # i
    BY <2>1
  <2>3. QED
    BY <2>1, <2>2
<1>3. OpenAt(c, i + 1) = OpenAt(c, i) \cup {i}
  BY <1>2 DEF OpenAt
<1>4. QED
  BY <1>1, <1>3 DEF TriesNested

(* Behind its clauses a try is closed, and those around it are open.       *)
LEMMA OpenCatch ==
  ASSUME NEW c, TriesNested(c), Len(c) \in Nat, NEW i \in 1..(Len(c) + 1), NEW k \in OpenAt(c, i)
  PROVE  /\ CatchOf(c, k) \in i..Len(c) /\ k \in 1..Len(c) /\ k < i
         /\ c[CatchOf(c, k)].op = "CATCH_BEGIN"
         /\ OpenAt(c, CatchOf(c, k) + 1) = {m \in OpenAt(c, i) : CatchOf(c, k) < CatchOf(c, m)}
<1>1. \A m \in 1..Len(c) : c[m].op = "TRY_BEGIN" =>
        CatchOf(c, m) \in (m + 1)..Len(c) /\ c[CatchOf(c, m)].op = "CATCH_BEGIN"
  BY DEF TriesNested
<1>2. k \in 1..Len(c) /\ c[k].op = "TRY_BEGIN" /\ k < i /\ i <= CatchOf(c, k)
  BY DEF OpenAt
<1>3. ASSUME NEW m \in 1..Len(c), c[m].op = "TRY_BEGIN"
      PROVE  m < CatchOf(c, k) + 1 /\ CatchOf(c, k) + 1 <= CatchOf(c, m)
               <=> m < i /\ i <= CatchOf(c, m) /\ CatchOf(c, k) < CatchOf(c, m)
  <2>1. CatchOf(c, k) \in i..Len(c) /\ CatchOf(c, m) \in (m + 1)..Len(c)
    BY <1>1, <1>2, <1>3
  <2>2. ASSUME m <= CatchOf(c, k), CatchOf(c, k) < CatchOf(c, m), ~ m < i PROVE FALSE
    <3>1. k < m
      BY <1>2, <2>2
    <3>2. k \in OpenAt(c, m)
      BY <1>2, <2>2, <3>1 DEF OpenAt
    <3>3. CatchOf(c, m) < CatchOf(c, k)
      BY <1>3, <3>2 DEF TriesNested
    <3>4. QED
      BY <2>1, <2>2, <3>3
  <2>3. QED
    BY <2>1, <2>2
<1>4. QED
  BY <1>1, <1>2, <1>3 DEF OpenAt

(* At the begin of its clauses a try is the inner one of those open.       *)
LEMMA OpenLast ==
  ASSUME NEW c, TriesNested(c), Len(c) \in Nat, NEW i \in 1..Len(c), c[i].op = "CATCH_BEGIN"
  PROVE  /\ SkipOf(c, i) \in (i + 1)..Len(c)
         /\ \E k \in OpenAt(c, i) : CatchOf(c, k) = i /\ OpenAt(c, SkipOf(c, i)) = OpenAt(c, i) \ {k}
         /\ \A k, m \in OpenAt(c, i) : CatchOf(c, k) = CatchOf(c, m) => k = m
<1>1. SUFFICES ASSUME NEW k \in OpenAt(c, i), NEW m \in OpenAt(c, i), CatchOf(c, k) = CatchOf(c, m), k < m
               PROVE  FALSE
  <2>1. OpenAt(c, i) \subseteq 1..Len(c)
    BY DEF OpenAt
  <2>2. QED
    BY <1>1, <2>1 DEF TriesNested
<1>2. /\ k \in 1..Len(c) /\ c[k].op = "TRY_BEGIN" /\ CatchOf(c, k) \in (k + 1)..Len(c)
      /\ m \in 1..Len(c) /\ c[m].op = "TRY_BEGIN" /\ CatchOf(c, m) \in (m + 1)..Len(c)
  BY DEF OpenAt, TriesNested
<1>3. k \in OpenAt(c, m)
  BY <1>1, <1>2 DEF OpenAt
<1>4. CatchOf(c, m) < CatchOf(c, k)
  BY <1>2, <1>3 DEF TriesNested
<1>5. QED
  BY <1>1, <1>2, <1>4

(* A catch clause is entered at its begin.                                 *)
LEMMA CatchNext ==
  ASSUME NEW c, CatchesNested(c), Len(c) \in Nat, NEW i \in 1..Len(c), c[i].op # "CATCH_BEGIN"
  PROVE  CatchAt(c, i + 1) \subseteq CatchAt(c, i)
<1>1. SUFFICES ASSUME NEW k \in 1..Len(c), c[k].op = "CATCH_BEGIN", k < i + 1, i + 1 < EndOf(c, k)
               PROVE  k < i /\ i < EndOf(c, k)
  BY DEF CatchAt, InCatch
<1>2. EndOf(c, k) \in k..Len(c) /\ k # i
  BY <1>1 DEF CatchesNested
<1> HIDE DEF EndOf
<1>3. QED
  BY <1>1, <1>2

(* A function is in none when it begins.                                   *)
LEMMA CatchNone == ASSUME NEW c, Len(c) \in Nat PROVE CatchAt(c, 1) = {}
  BY DEF CatchAt, InCatch

(* Who returns or yields is in no try.                                     *)
LEMMA LeavesNone ==
  ASSUME prog \in Programs, ~LeavesTry, NEW fn \in Fns, TriesNested(prog[fn]),
         NEW i \in 1..Len(prog[fn]), prog[fn][i].op \in {"RETURN", "YIELD"}
  PROVE  OpenAt(prog[fn], i) = {} /\ OpenAt(prog[fn], i + 1) = {}
<1> DEFINE c == prog[fn]
<1>1. ~InTry(c, i) /\ Len(c) \in Nat
  BY CodeIs DEF LeavesTry, Anywhere
<1>2. SUFFICES ASSUME NEW k \in OpenAt(c, i) PROVE FALSE
  BY <1>1, OpenNext
<1>3. k \in 1..(i - 1) /\ c[k].op = "TRY_BEGIN" /\ i <= CatchOf(c, k)
  BY <1>1 DEF OpenAt
<1>4. CatchOf(c, k) \in (k + 1)..Len(c) /\ c[CatchOf(c, k)].op = "CATCH_BEGIN"
  BY <1>1, <1>3 DEF TriesNested
<1>5. i < CatchOf(c, k)
  BY <1>1, <1>3, <1>4
<1>6. QED
  BY <1>1, <1>3, <1>5 DEF InTry

-----------------------------------------------------------------------------
(* Stacks.                                                                 *)

(* A list is a function on its positions.                                  *)
LEMMA ListIs ==
  ASSUME NEW s, IsList(s)
  PROVE  Len(s) \in Nat /\ DOMAIN s = 1..Len(s) /\ Range(s) = {s[i] : i \in 1..Len(s)}
<1>1. Len(s) \in Nat /\ s \in [1..Len(s) -> Range(s)]
  BY LenProperties DEF IsList
<1>2. QED
  BY <1>1 DEF Range

(* A stack that is cut, with another frame on top.                         *)
Cut(s, n, fr) == Append(SubSeq(s, 1, n - 1), fr)

(* It has the frames below.                                                *)
LEMMA CutIs ==
  ASSUME NEW s, IsList(s), NEW n \in 1..(Len(s) + 1), NEW fr
  PROVE  /\ IsList(Cut(s, n, fr)) /\ Len(Cut(s, n, fr)) = n
         /\ \A m \in 1..(n - 1) : Cut(s, n, fr)[m] = s[m]
         /\ Cut(s, n, fr)[n] = fr
<1> DEFINE S == Range(s) \cup {fr}
           a == SubSeq(s, 1, n - 1)
           b == Append(a, fr)
<1>1. Len(s) \in Nat /\ \A i \in 1..(n - 1) : s[i] \in S
  BY ListIs
<1>2. s \in Seq(S) /\ fr \in S
  BY <1>1, ListIs, IsASeq DEF IsList, Range
<1> HIDE DEF S
<1>3. a \in Seq(S) /\ Len(a) = (IF 1 <= n - 1 THEN n - 1 ELSE 0) /\ \A i \in 1..(n - 1) : a[i] = s[i]
  <2>1. /\ a \in Seq(S) /\ Len(a) = IF 1 <= n - 1 THEN n - 1 - 1 + 1 ELSE 0
        /\ \A i \in 1..(n - 1) - 1 + 1 : a[i] = s[1 + i - 1]
    BY <1>1, <1>2, SubSeqProperties
  <2> HIDE DEF a
  <2>2. QED
    BY <1>1, <2>1
<1> HIDE DEF a
<1>4. Len(a) = n - 1
  BY <1>1, <1>3
<1>5. b \in Seq(S) /\ Len(b) = Len(a) + 1 /\ (\A i \in 1..Len(a) : b[i] = a[i]) /\ b[Len(a) + 1] = fr
  BY <1>2, <1>3, AppendProperties
<1>6. b = Cut(s, n, fr)
  BY DEF a, Cut
<1> HIDE DEF b
<1>7. Len(b) = n /\ (\A i \in 1..(n - 1) : b[i] = s[i]) /\ b[n] = fr
  BY <1>1, <1>3, <1>4, <1>5
<1>8. b \in [1..n -> Range(b)]
  <2>1. b \in [1..n -> S]
    BY <1>5, <1>7, LenProperties
  <2>2. QED
    BY <2>1 DEF Range
<1>9. IsList(b)
  BY <1>1, <1>8, IsASeq DEF IsList
<1>10. QED
  BY <1>6, <1>7, <1>9

(* All that happens to a stack is a cut.                                   *)
LEMMA CutsAre ==
  ASSUME NEW s, IsList(s), Len(s) # 0, NEW fr
  PROVE  /\ Append(Front(s), fr) = Cut(s, Len(s), fr)
         /\ Append(s, fr) = Cut(s, Len(s) + 1, fr)
         /\ Last(s) = s[Len(s)]
         /\ Len(s) > 1 => /\ Append(Front(Front(s)), fr) = Cut(s, Len(s) - 1, fr)
                          /\ Last(Front(s)) = s[Len(s) - 1]
<1>1. Len(s) \in Nat /\ s \in Seq(Range(s))
  BY ListIs DEF IsList
<1>2. Front(s) = SubSeq(s, 1, Len(s) - 1) /\ Last(s) = s[Len(s)]
  BY <1>1 DEF Front, Last
<1>3. SubSeq(s, 1, Len(s)) = s
  BY <1>1
<1>4. ASSUME Len(s) > 1
      PROVE  /\ Front(Front(s)) = SubSeq(s, 1, Len(s) - 1 - 1)
             /\ Last(Front(s)) = s[Len(s) - 1]
  BY <1>1, <1>2, <1>4 DEF Front, Last
<1>5. Len(s) + 1 - 1 = Len(s)
  BY <1>1
<1>6. Cut(s, Len(s) + 1, fr) = Append(s, fr)
  BY <1>3, <1>5 DEF Cut
<1>7. QED
  BY <1>2, <1>4, <1>6 DEF Cut

(* What may be put on a stack that is cut below n.                         *)
Fits(p, t, fib, s, n, fr) ==
  /\ IsList(s) /\ n \in 1..(Len(s) + 1) /\ FrameOK(p, t, fr)
  /\ fr.fn = IF n = 1 THEN Base(fib) ELSE "f"
  /\ n > 1 => StackOK(p, t, fib, s) /\ s[n - 1].id < fr.id /\ Waits(p, s[n - 1], "CALL")

(* It makes a stack again.                                                 *)
LEMMA CutStack ==
  ASSUME NEW p, NEW t, NEW fib, NEW s, NEW n, NEW fr, Fits(p, t, fib, s, n, fr)
  PROVE  StackOK(p, t, fib, Cut(s, n, fr))
<1> DEFINE u == Cut(s, n, fr)
<1>1. /\ IsList(s) /\ Len(s) \in Nat /\ n \in 1..(Len(s) + 1) /\ FrameOK(p, t, fr)
      /\ fr.fn = IF n = 1 THEN Base(fib) ELSE "f"
  BY ListIs DEF Fits
<1>2. IsList(u) /\ Len(u) = n /\ (\A m \in 1..(n - 1) : u[m] = s[m]) /\ u[n] = fr
  BY <1>1, CutIs
<1> HIDE DEF u
<1>3. CASE n = 1
  BY <1>1, <1>2, <1>3 DEF StackOK, u
<1>4. CASE n > 1
  <2>1. StackOK(p, t, fib, s) /\ s[n - 1].id < fr.id /\ Waits(p, s[n - 1], "CALL")
    BY <1>4 DEF Fits
  <2>2. u[1] = s[1] /\ s[1].fn = Base(fib)
    BY <1>1, <1>2, <1>4, <2>1 DEF StackOK
  <2>3. ASSUME NEW m \in 1..n PROVE FrameOK(p, t, u[m]) /\ (m > 1 => u[m].fn = "f")
    <3>1. CASE m = n
      BY <1>1, <1>2, <1>4, <3>1
    <3>2. CASE m # n
      <4>1. m \in 1..(n - 1) /\ m \in 1..Len(s)
        BY <1>1, <3>2
      <4>2. QED
        BY <1>2, <2>1, <4>1 DEF StackOK
    <3>3. QED
      BY <3>1, <3>2
  <2>4. ASSUME NEW m \in 1..n, NEW k \in 1..n, m < k
        PROVE  u[m].id < u[k].id /\ Waits(p, u[m], "CALL")
    <3>1. m \in 1..(n - 1) /\ m \in 1..Len(s) /\ n - 1 \in 1..Len(s) /\ u[m] = s[m]
      BY <1>1, <1>2, <1>4, <2>4
    <3>2. CASE k # n
      <4>1. k \in 1..(n - 1) /\ k \in 1..Len(s)
        BY <1>1, <3>2
      <4>2. QED
        BY <1>2, <2>1, <2>4, <3>1, <4>1 DEF StackOK
    <3>3. CASE k = n
      <4>1. u[k] = fr /\ fr.id \in Nat
        BY <1>1, <1>2, <3>3 DEF FrameOK
      <4>2. CASE m = n - 1
        BY <2>1, <3>1, <4>1, <4>2
      <4>3. CASE m # n - 1
        <5>1. m < n - 1
          BY <1>1, <3>1, <4>3
        <5>2. s[m].id < s[n - 1].id /\ Waits(p, s[m], "CALL") /\ s[m].id \in Nat /\ s[n - 1].id \in Nat
          BY <2>1, <3>1, <5>1 DEF StackOK, FrameOK
        <5>3. QED
          BY <2>1, <3>1, <4>1, <5>2
      <4>4. QED
        BY <4>2, <4>3
    <3>4. QED
      BY <3>2, <3>3
  <2>5. QED
    BY <1>1, <1>2, <2>2, <2>3, <2>4 DEF StackOK, u
<1>5. QED
  BY <1>1, <1>3, <1>4

(* Stacks stay stacks as time goes on.                                     *)
LEMMA Later ==
  ASSUME NEW p, NEW t \in Nat, NEW u \in Nat, t <= u, NEW fib, NEW s, StackOK(p, t, fib, s)
  PROVE  StackOK(p, u, fib, s)
<1>1. ASSUME NEW n \in 1..Len(s) PROVE FrameOK(p, u, s[n])
  <2>1. FrameOK(p, t, s[n])
    BY DEF StackOK
  <2>2. s[n].id \in Nat /\ s[n].id < t
    BY <2>1 DEF FrameOK
  <2>3. s[n].id < u
    BY <2>2
  <2>4. QED
    BY <2>1, <2>3 DEF FrameOK
<1>2. QED
  BY <1>1 DEF StackOK

(* The stacks when S has become R, one of them cut.                        *)
Recut(S, R, fib, n, fr) ==
  /\ fib \in DOMAIN S /\ DOMAIN R = DOMAIN S /\ R[fib] = Cut(S[fib], n, fr)
  /\ \A h \in DOMAIN S : h # fib => R[h] = S[h]

LEMMA CutStacks ==
  ASSUME NEW p, NEW t \in Nat, NEW u \in Nat, t <= u, NEW S, StacksOK(p, t, S), NEW R,
         NEW fib, NEW n, NEW fr, Recut(S, R, fib, n, fr), Fits(p, u, fib, S[fib], n, fr)
  PROVE  StacksOK(p, u, R)
<1>1. ASSUME NEW h \in DOMAIN S PROVE h \in Nat /\ h < u /\ StackOK(p, u, h, R[h])
  <2>1. h \in Nat /\ h < t /\ StackOK(p, t, h, S[h])
    BY DEF StacksOK
  <2>2. CASE h = fib
    BY <2>1, <2>2, CutStack DEF Recut
  <2>3. CASE h # fib
    BY <2>1, <2>3, Later DEF Recut
  <2>4. QED
    BY <2>1, <2>2, <2>3
<1>2. QED
  BY <1>1 DEF StacksOK, Recut

(* The tries of the frames below the nth.                                  *)
TriesBelow(p, fib, s, n) == UNION {TriesIn(p, fib, s[m]) : m \in 1..(n - 1)}

(* What the tries of a stack that is cut are.                              *)
LEMMA CutTries ==
  ASSUME NEW p, NEW fib, NEW s, IsList(s), NEW n \in 1..(Len(s) + 1), NEW fr
  PROVE  TriesOf(p, fib, Cut(s, n, fr)) = TriesBelow(p, fib, s, n) \cup TriesIn(p, fib, fr)
<1> DEFINE u == Cut(s, n, fr)
<1>1. Len(s) \in Nat
  BY ListIs
<1>2. Len(u) = n /\ (\A m \in 1..(n - 1) : u[m] = s[m]) /\ u[n] = fr
  BY CutIs
<1>3. 1..n = (1..(n - 1)) \cup {n}
  BY <1>1
<1> HIDE DEF u
<1>4. ASSUME NEW x
      PROVE  x \in TriesOf(p, fib, u) <=> x \in TriesBelow(p, fib, s, n) \cup TriesIn(p, fib, fr)
  <2>1. x \in TriesOf(p, fib, u) <=> \E m \in 1..n : x \in TriesIn(p, fib, u[m])
    BY <1>2 DEF TriesOf
  <2>2. x \in TriesBelow(p, fib, s, n) <=> \E m \in 1..(n - 1) : x \in TriesIn(p, fib, s[m])
    BY DEF TriesBelow
  <2>3. QED
    BY <1>2, <1>3, <2>1, <2>2
<1>5. TriesOf(p, fib, u) = TriesBelow(p, fib, s, n) \cup TriesIn(p, fib, fr)
  BY <1>4
<1>6. QED
  BY <1>5 DEF u

(* Another frame on top that has the tries of the last one.                *)
LEMMA SameTries ==
  ASSUME NEW p, NEW fib, NEW s, IsList(s), Len(s) # 0, NEW fr
  PROVE  /\ TriesIn(p, fib, fr) = TriesIn(p, fib, s[Len(s)]) =>
              TriesOf(p, fib, Cut(s, Len(s), fr)) = TriesOf(p, fib, s)
         /\ TriesIn(p, fib, fr) = {} =>
              TriesOf(p, fib, Cut(s, Len(s) + 1, fr)) = TriesOf(p, fib, s)
         /\ Len(s) > 1 /\ TriesIn(p, fib, fr) = TriesIn(p, fib, s[Len(s) - 1])
              /\ TriesIn(p, fib, s[Len(s)]) = {} =>
              TriesOf(p, fib, Cut(s, Len(s) - 1, fr)) = TriesOf(p, fib, s)
<1> DEFINE L == Len(s)
           In(x, n) == \E m \in 1..n : x \in TriesIn(p, fib, s[m])
<1>1. L \in Nat /\ L # 0
  BY ListIs
<1>2. \A x : x \in TriesOf(p, fib, s) <=> In(x, L)
  BY DEF TriesOf
<1>3. ASSUME NEW n \in 1..(L + 1), NEW x
      PROVE  x \in TriesOf(p, fib, Cut(s, n, fr)) <=> In(x, n - 1) \/ x \in TriesIn(p, fib, fr)
  <2>1. TriesOf(p, fib, Cut(s, n, fr))
          = TriesBelow(p, fib, s, n) \cup TriesIn(p, fib, fr)
    BY CutTries
  <2>2. x \in TriesBelow(p, fib, s, n) <=> In(x, n - 1)
    BY DEF TriesBelow
  <2> HIDE DEF In, L
  <2>3. QED
    BY <2>1, <2>2
<1>4. ASSUME NEW n \in 1..L, NEW x
      PROVE  In(x, n) <=> In(x, n - 1) \/ x \in TriesIn(p, fib, s[n])
  <2>1. 1..n = (1..(n - 1)) \cup {n}
    BY <1>1
  <2>2. QED
    BY <2>1
<1>5. L \in 1..L /\ L \in 1..(L + 1) /\ L + 1 \in 1..(L + 1) /\ L + 1 - 1 = L
  BY <1>1
<1>6. L > 1 => L - 1 \in 1..L /\ L - 1 \in 1..(L + 1)
  BY <1>1
<1> HIDE DEF In, L
<1>7. ASSUME TriesIn(p, fib, fr) = TriesIn(p, fib, s[L])
      PROVE  TriesOf(p, fib, Cut(s, L, fr)) = TriesOf(p, fib, s)
  <2>1. \A x : x \in TriesOf(p, fib, Cut(s, L, fr)) <=> x \in TriesOf(p, fib, s)
    BY <1>2, <1>3, <1>4, <1>5, <1>7
  <2>2. QED
    BY <2>1
<1>8. ASSUME TriesIn(p, fib, fr) = {}
      PROVE  TriesOf(p, fib, Cut(s, L + 1, fr)) = TriesOf(p, fib, s)
  <2>1. \A x : x \in TriesOf(p, fib, Cut(s, L + 1, fr)) <=> x \in TriesOf(p, fib, s)
    BY <1>2, <1>3, <1>5, <1>8
  <2>2. QED
    BY <2>1
<1>9. ASSUME L > 1, TriesIn(p, fib, fr) = TriesIn(p, fib, s[L - 1]), TriesIn(p, fib, s[L]) = {}
      PROVE  TriesOf(p, fib, Cut(s, L - 1, fr)) = TriesOf(p, fib, s)
  <2>1. \A x : x \in TriesOf(p, fib, Cut(s, L - 1, fr)) <=> x \in TriesOf(p, fib, s)
    BY <1>2, <1>3, <1>4, <1>5, <1>6, <1>9
  <2>2. QED
    BY <2>1
<1>10. QED
  BY <1>7, <1>8, <1>9 DEF L

(* Frames on a stack that is cut have caught what they had.                *)
LEMMA CutCaught ==
  ASSUME NEW p, NEW s, IsList(s), NEW n \in 1..(Len(s) + 1), NEW fr, CaughtOK(p, s), CaughtIn(p, fr)
  PROVE  CaughtOK(p, Cut(s, n, fr))
<1>1. Len(s) \in Nat
  BY ListIs
<1>2. Len(Cut(s, n, fr)) = n /\ (\A m \in 1..(n - 1) : Cut(s, n, fr)[m] = s[m]) /\ Cut(s, n, fr)[n] = fr
  BY CutIs
<1>3. ASSUME NEW m \in 1..n PROVE CaughtIn(p, Cut(s, n, fr)[m])
  <2>1. CASE m = n
    BY <1>2, <2>1
  <2>2. CASE m # n
    <3>1. m \in 1..(n - 1) /\ m \in 1..Len(s)
      BY <1>1, <2>2
    <3>2. QED
      BY <1>2, <3>1 DEF CaughtOK
  <2>3. QED
    BY <2>1, <2>2
<1>4. QED
  BY <1>2, <1>3 DEF CaughtOK

(* A frame that is at another instruction, and only that.                  *)
Moved(fr, old, pc) ==
  DOMAIN fr = Fields /\ fr.pc = pc /\ fr.fn = old.fn /\ fr.id = old.id
Like(fr, old, pc) == Moved(fr, old, pc) /\ fr.caught = old.caught

LEMMA SteppedIs ==
  ASSUME NEW fr, DOMAIN fr = Fields, NEW v, NEW w
  PROVE  Like(Stepped(fr, v, w), fr, fr.pc + 1)
  BY DEF Stepped, Like, Moved, Fields

LEMMA MovedIs ==
  ASSUME NEW fr, DOMAIN fr = Fields, NEW pc
  PROVE  Like([fr EXCEPT !.pc = pc], fr, pc)
  BY DEF Like, Moved, Fields

LEMMA EnteredIs ==
  ASSUME NEW fn, NEW rg
  PROVE  LET fr == Entered(fn, rg)
         IN DOMAIN fr = Fields /\ fr.fn = fn /\ fr.id = clock /\ fr.pc = 1 /\ fr.caught = {}
  BY DEF Entered, Fields

-----------------------------------------------------------------------------
(* The block of handlers.                                                  *)

Numbered(A) == \A g \in A : g[2] \in Nat /\ g[3] \in Nat

(* Nothing is inside of itself.                                            *)
LEMMA NotInside == ASSUME NEW A, Numbered(A), NEW g \in A PROVE ~ Inside(g, g)
  BY DEF Numbered, Inside

(* A handler that is inside of all is put on top.                          *)
LEMMA PushMatch ==
  ASSUME NEW trs, NEW d, NEW A, Match(trs, d, A), NEW pl, NEW T, T = <<pl.fiber, pl.id, pl.pc>>,
         \A g \in A : Inside(T, g)
  PROVE  Match(With(trs, d, pl), d + 1, A \cup {T})
<1> DEFINE new == With(trs, d, pl)
<1>1. /\ d \in Nat /\ 0..(d - 1) \subseteq DOMAIN trs
      /\ {Handler(trs, i) : i \in 0..(d - 1)} = A
      /\ \A i, j \in 0..(d - 1) : i < j => Inside(Handler(trs, j), Handler(trs, i))
  BY DEF Match
<1>2. DOMAIN new = {d} \cup DOMAIN trs /\ new[d] = pl /\ \A i \in DOMAIN trs : i # d => new[i] = trs[i]
  BY DEF With
<1> HIDE DEF new
<1>3. Handler(new, d) = T /\ \A i \in 0..(d - 1) : Handler(new, i) = Handler(trs, i)
  BY <1>1, <1>2 DEF Handler
<1>4. 0..(d + 1 - 1) = (0..(d - 1)) \cup {d}
  BY <1>1
<1>5. 0..(d + 1 - 1) \subseteq DOMAIN new
  BY <1>1, <1>2, <1>4
<1>6. {Handler(new, i) : i \in 0..(d + 1 - 1)} = A \cup {T}
  BY <1>1, <1>3, <1>4
<1>7. ASSUME NEW i \in 0..(d + 1 - 1), NEW j \in 0..(d + 1 - 1), i < j
      PROVE  Inside(Handler(new, j), Handler(new, i))
  <2>1. i \in 0..(d - 1)
    BY <1>1, <1>7
  <2>2. Handler(new, i) = Handler(trs, i) /\ Handler(trs, i) \in A
    BY <1>1, <1>3, <2>1
  <2>3. CASE j = d
    BY <1>3, <2>2, <2>3
  <2>4. CASE j # d
    BY <1>1, <1>3, <1>4, <1>7, <2>1, <2>2, <2>4
  <2>5. QED
    BY <2>3, <2>4
<1>8. QED
  BY <1>1, <1>5, <1>6, <1>7 DEF Match, new

(* The last one is inside of all others.                                   *)
LEMMA LastMatch ==
  ASSUME NEW trs, NEW d, NEW A, Match(trs, d, A), d # 0
  PROVE  LET T == Handler(trs, d - 1) IN T \in A /\ \A g \in A : g = T \/ Inside(T, g)
<1> DEFINE T == Handler(trs, d - 1)
<1>1. /\ d \in Nat /\ {Handler(trs, i) : i \in 0..(d - 1)} = A
      /\ \A i, j \in 0..(d - 1) : i < j => Inside(Handler(trs, j), Handler(trs, i))
  BY DEF Match
<1>2. d - 1 \in 0..(d - 1) /\ \A i \in 0..(d - 1) : i = d - 1 \/ i < d - 1
  BY <1>1
<1>3. QED
  BY <1>1, <1>2

(* It goes, and the others stay.                                           *)
LEMMA PopMatch ==
  ASSUME NEW trs, NEW d, NEW A, Match(trs, d, A), d # 0, Numbered(A)
  PROVE  Match(trs, d - 1, A \ {Handler(trs, d - 1)})
<1> DEFINE T == Handler(trs, d - 1)
<1>1. /\ d \in Nat /\ {Handler(trs, i) : i \in 0..(d - 1)} = A /\ 0..(d - 1) \subseteq DOMAIN trs
      /\ \A i, j \in 0..(d - 1) : i < j => Inside(Handler(trs, j), Handler(trs, i))
  BY DEF Match
<1>2. /\ d - 1 \in Nat /\ 0..(d - 1) = (0..(d - 1 - 1)) \cup {d - 1}
      /\ d - 1 \in 0..(d - 1) /\ \A i \in 0..(d - 1 - 1) : i < d - 1
  BY <1>1
<1>3. ASSUME NEW i \in 0..(d - 1 - 1) PROVE Handler(trs, i) # T
  <2>1. Inside(T, Handler(trs, i)) /\ T \in A
    BY <1>1, <1>2
  <2>2. QED
    BY <2>1, NotInside
<1>4. {Handler(trs, i) : i \in 0..(d - 1 - 1)} = A \ {T}
  BY <1>1, <1>2, <1>3
<1>5. QED
  BY <1>1, <1>2, <1>4 DEF Match

(* The one that nothing is inside of is the last.                          *)
LEMMA InnerMatch ==
  ASSUME NEW trs, NEW d, NEW A, Match(trs, d, A), Numbered(A), NEW T \in A,
         \A g \in A : g # T => ~ Inside(g, T)
  PROVE  d # 0 /\ T = Handler(trs, d - 1)
<1>1. /\ d \in Nat /\ {Handler(trs, i) : i \in 0..(d - 1)} = A
      /\ \A i, j \in 0..(d - 1) : i < j => Inside(Handler(trs, j), Handler(trs, i))
  BY DEF Match
<1>2. PICK i \in 0..(d - 1) : T = Handler(trs, i)
  BY <1>1
<1>3. d # 0 /\ d - 1 \in 0..(d - 1) /\ (i = d - 1 \/ i < d - 1)
  BY <1>1, <1>2
<1>4. ASSUME i < d - 1 PROVE FALSE
  <2>1. Handler(trs, d - 1) \in A /\ Inside(Handler(trs, d - 1), T)
    BY <1>1, <1>2, <1>3, <1>4
  <2>2. QED
    BY <2>1, NotInside
<1>5. QED
  BY <1>2, <1>3, <1>4

(* What a stack's handlers are.                                            *)
LEMMA TriesAre ==
  ASSUME prog \in Programs, Nested, NEW t, NEW fib, NEW s, StackOK(prog, t, fib, s), NEW g \in TriesOf(prog, fib, s)
  PROVE  /\ g[1] = fib /\ g[2] \in Nat /\ g[3] \in Nat
         /\ \E n \in 1..Len(s) : \E k \in OpenAt(prog[s[n].fn], s[n].pc) :
              g = <<fib, s[n].id, CatchOf(prog[s[n].fn], k) + 1>>
<1>1. PICK n \in 1..Len(s) : g \in TriesIn(prog, fib, s[n])
  BY DEF TriesOf
<1>2. PICK k \in OpenAt(prog[s[n].fn], s[n].pc) : g = <<fib, s[n].id, CatchOf(prog[s[n].fn], k) + 1>>
  BY <1>1 DEF TriesIn
<1>3. FrameOK(prog, t, s[n])
  BY DEF StackOK
<1>4. s[n].fn \in Fns /\ s[n].id \in Nat /\ s[n].pc \in 1..(Len(prog[s[n].fn]) + 1)
  BY <1>3 DEF FrameOK
<1>5. TriesNested(prog[s[n].fn]) /\ Len(prog[s[n].fn]) \in Nat
  BY <1>4, CodeIs DEF Nested
<1>6. CatchOf(prog[s[n].fn], k) \in s[n].pc..Len(prog[s[n].fn])
  BY <1>4, <1>5, OpenCatch
<1>7. CatchOf(prog[s[n].fn], k) + 1 \in Nat
  BY <1>4, <1>5, <1>6
<1>8. QED
  BY <1>2, <1>4, <1>7

(* The handlers of a program that runs have numbers.                       *)
LEMMA NowNumbered ==
  ASSUME prog \in Programs, Nested, RunOK
  PROVE  Numbered(TriesNow(prog, stacks, fiber))
<1>1. StackOK(prog, clock, Start, stacks[Start]) /\ StackOK(prog, clock, fiber, stacks[fiber])
  BY DEF RunOK, StacksOK, AwayOK
<1>2. QED
  BY <1>1, TriesAre DEF TriesNow, Numbered

-----------------------------------------------------------------------------
(* Steps of the frame on top.                                              *)

(* A program that runs is at an instruction of one of its functions.       *)
LEMMA TopIs ==
  ASSUME prog \in Programs, Nested, RunOK
  PROVE  LET s == stacks[fiber]
             c == Code(Top)
         IN /\ StackOK(prog, clock, fiber, s) /\ IsList(s) /\ Len(s) \in Nat /\ Len(s) # 0
            /\ Top = s[Len(s)] /\ FrameOK(prog, clock, Top) /\ CaughtIn(prog, Top)
            /\ c = prog[Top.fn] /\ Top.fn \in Fns /\ Len(c) \in Nat /\ Top.pc \in 1..(Len(c) + 1)
            /\ TriesNested(c) /\ (AfterIn(c) \/ CatchesNested(c))
            /\ clock \in Nat /\ fiber \in DOMAIN stacks /\ Start \in DOMAIN stacks
<1> DEFINE s == stacks[fiber]
<1>1. /\ fiber \in DOMAIN stacks /\ Start \in DOMAIN stacks /\ clock \in Nat
      /\ StackOK(prog, clock, fiber, s) /\ CaughtOK(prog, s)
  BY DEF RunOK, StacksOK, AwayOK
<1>2. IsList(s) /\ Len(s) \in Nat /\ Len(s) # 0
  BY <1>1, ListIs DEF StackOK
<1>3. Top = s[Len(s)]
  BY <1>2, CutsAre DEF Top
<1>4. Len(s) \in 1..Len(s)
  BY <1>2
<1>5. FrameOK(prog, clock, Top) /\ CaughtIn(prog, Top)
  BY <1>1, <1>3, <1>4 DEF StackOK, CaughtOK
<1>6. Top.fn \in Fns /\ Top.pc \in 1..(Len(prog[Top.fn]) + 1)
  BY <1>5 DEF FrameOK
<1> HIDE DEF s
<1>7. QED
  BY <1>1, <1>2, <1>3, <1>5, <1>6, CodeIs DEF s, Code, Nested

(* The instruction it is doing.                                            *)
LEMMA DoingIs ==
  ASSUME prog \in Programs, Nested, RunOK, NEW op, Doing(op)
  PROVE  Top.pc \in 1..Len(Code(Top)) /\ Code(Top)[Top.pc].op = op /\ Waits(prog, Top, op)
  BY TopIs DEF Doing, AtEnd, At, Waits, Code

(* A frame that has only moved fits where it was.                          *)
LEMMA LikeFits ==
  ASSUME NEW p, NEW t, NEW fib, NEW s, StackOK(p, t, fib, s), NEW n \in 1..Len(s), NEW fr, NEW pc,
         Moved(fr, s[n], pc), pc \in 1..(Len(p[s[n].fn]) + 1)
  PROVE  Fits(p, t, fib, s, n, fr)
<1>1. IsList(s) /\ Len(s) \in Nat
  BY ListIs DEF StackOK
<1>2. FrameOK(p, t, s[n])
  BY DEF StackOK
<1>3. FrameOK(p, t, fr)
  BY <1>2 DEF FrameOK, Moved
<1>4. fr.fn = IF n = 1 THEN Base(fib) ELSE "f"
  BY <1>1 DEF Moved, StackOK
<1>5. ASSUME n > 1 PROVE s[n - 1].id < fr.id /\ Waits(p, s[n - 1], "CALL")
  <2>1. n - 1 \in 1..Len(s) /\ n - 1 < n
    BY <1>1, <1>5
  <2>2. QED
    BY <2>1 DEF StackOK, Moved
<1>6. QED
  BY <1>1, <1>3, <1>4, <1>5 DEF Fits

(* A step that cuts a stack, and goes on there: the one that runs, or Start*)
(* again.                                                                  *)
Goes(fib, n, fr) ==
  /\ fib \in {Start, fiber}
  /\ stacks' = [stacks EXCEPT ![fib] = Cut(stacks[fib], n, fr)]
  /\ Fits(prog, clock', fib, stacks[fib], n, fr)
  /\ n = 1 => fr.id = stacks[fib][1].id
  /\ CaughtIn(prog, fr)
  /\ prog' = prog /\ fiber' = fib /\ genCur' = genCur
  /\ clock' \in Nat /\ clock <= clock'

(* What else is where it was.                                              *)
LEMMA GoesIs ==
  ASSUME prog \in Programs, Nested, RunOK, NEW fib, NEW n, NEW fr, Goes(fib, n, fr)
  PROVE  /\ clock \in Nat /\ Start \in DOMAIN stacks /\ fib \in DOMAIN stacks
         /\ StackOK(prog, clock, fib, stacks[fib]) /\ IsList(stacks[fib])
         /\ Len(stacks[fib]) \in Nat /\ Len(stacks[fib]) # 0 /\ n \in 1..(Len(stacks[fib]) + 1)
         /\ Recut(stacks, stacks', fib, n, fr)
         /\ \A h \in DOMAIN stacks : stacks'[h][1].id = stacks[h][1].id
<1> DEFINE s == stacks[fib]
<1>1. /\ clock \in Nat /\ fib \in DOMAIN stacks /\ Start \in DOMAIN stacks
      /\ StackOK(prog, clock, fib, s) /\ IsList(s) /\ Len(s) \in Nat /\ Len(s) # 0
      /\ n \in 1..(Len(s) + 1)
  <2>1. clock \in Nat /\ fib \in DOMAIN stacks /\ Start \in DOMAIN stacks
    BY TopIs DEF Goes
  <2>2. StackOK(prog, clock, fib, s)
    BY <2>1 DEF RunOK, StacksOK
  <2>3. QED
    BY <2>1, <2>2, ListIs DEF StackOK, Goes, Fits
<1>2. Recut(stacks, stacks', fib, n, fr)
  BY <1>1 DEF Goes, Recut
<1>3. ASSUME NEW h \in DOMAIN stacks PROVE stacks'[h][1].id = stacks[h][1].id
  <2>1. CASE h # fib
    BY <1>2, <2>1 DEF Recut
  <2>2. CASE h = fib /\ n = 1
    BY <1>1, <1>2, <2>2, CutIs DEF Goes, Recut
  <2>3. CASE h = fib /\ n # 1
    <3>1. 1 \in 1..(n - 1)
      BY <1>1, <2>3
    <3>2. QED
      BY <1>1, <1>2, <2>3, <3>1, CutIs DEF Recut
  <2>4. QED
    BY <2>1, <2>2, <2>3
<1>4. QED
  BY <1>1, <1>2, <1>3

(* Such a step keeps all, when it keeps the generators and the handlers.   *)
LEMMA GoesOK ==
  ASSUME prog \in Programs, Nested, RunOK, NEW fib, NEW n, NEW fr, Goes(fib, n, fr),
         GensOK(prog, clock', stacks', gens'),
         fib # Start => fib \in DOMAIN gens' /\ gens'[fib] = gens[fib],
         Match(tries', depth', TriesNow(prog, stacks', fib))
  PROVE  RunOK'
<1> DEFINE s == stacks[fib]
           u == Cut(s, n, fr)
<1>1. /\ clock \in Nat /\ fib \in DOMAIN stacks /\ Start \in DOMAIN stacks
      /\ IsList(s) /\ Len(s) \in Nat /\ n \in 1..(Len(s) + 1)
      /\ Recut(stacks, stacks', fib, n, fr)
  BY GoesIs
<1>2. /\ Fits(prog, clock', fib, s, n, fr) /\ fib \in {Start, fiber}
      /\ clock' \in Nat /\ clock <= clock' /\ CaughtIn(prog, fr)
      /\ prog' = prog /\ fiber' = fib /\ genCur' = genCur
  BY DEF Goes
<1>3. DOMAIN stacks' = DOMAIN stacks /\ stacks'[fib] = u /\ \A h \in DOMAIN stacks : h # fib => stacks'[h] = stacks[h]
  BY <1>1 DEF Recut
<1>4. StacksOK(prog, clock', stacks')
  BY <1>1, <1>2, CutStacks DEF RunOK
<1>5. AwayOK(prog, stacks', fib, gens', genCur)
  <2>1. AwayOK(prog, stacks, fiber, gens, genCur)
    BY DEF RunOK
  <2>2. CASE fib = Start
    BY <1>1, <1>3, <2>2 DEF AwayOK
  <2>3. CASE fib # Start
    <3>1. stacks'[Start] = stacks[Start]
      BY <1>1, <1>3, <2>3
    <3>2. fib = fiber
      BY <1>2, <2>3
    <3>3. QED
      BY <1>1, <1>3, <2>1, <2>3, <3>1, <3>2 DEF AwayOK
  <2>4. QED
    BY <2>2, <2>3
<1>6. CaughtOK(prog, stacks'[Start]) /\ CaughtOK(prog, stacks'[fib])
  <2>1. CaughtOK(prog, stacks[Start]) /\ CaughtOK(prog, s)
    BY <1>2 DEF RunOK
  <2>2. CaughtOK(prog, u)
    BY <1>1, <1>2, <2>1, CutCaught
  <2>3. QED
    BY <1>1, <1>3, <2>1, <2>2
<1>7. QED
  BY <1>2, <1>4, <1>5, <1>6 DEF RunOK

(* The generators are those of before, or there is a new one.              *)
GensGrow ==
  \/ gens' = gens
  \/ \E g : gens' = With(gens, clock, g) /\ DOMAIN g = Block /\ g.fresh /\ clock < clock'

LEMMA GrowOK ==
  ASSUME prog \in Programs, Nested, RunOK, NEW fib, NEW n, NEW fr, Goes(fib, n, fr), GensGrow
  PROVE  /\ GensOK(prog, clock', stacks', gens')
         /\ fib # Start => fib \in DOMAIN gens' /\ gens'[fib] = gens[fib]
<1>1. /\ clock \in Nat /\ clock' \in Nat /\ clock <= clock' /\ clock # 0
      /\ \A h \in DOMAIN gens : h \in Nat /\ h < clock
  BY DEF Goes, RunOK, GensOK, StacksOK
<1>2. \A h \in DOMAIN gens : h \in DOMAIN gens' /\ gens'[h] = gens[h]
  BY <1>1 DEF GensGrow, With
<1>3. SUFFICES ASSUME NEW h \in DOMAIN gens'
               PROVE  /\ h \in Nat /\ 0 < h /\ h < clock' /\ DOMAIN gens'[h] = Block
                      /\ gens'[h].fresh \/ gens'[h].done \/ Suspended(prog, stacks', h, gens'[h])
  <2>1. fib # Start => fib \in DOMAIN gens
    BY DEF RunOK, AwayOK, Goes
  <2>2. QED
    BY <1>2, <1>3, <2>1 DEF GensOK
<1>4. CASE h \in DOMAIN gens
  <2>1. /\ h \in Nat /\ 0 < h /\ h < clock /\ DOMAIN gens[h] = Block
        /\ gens[h].fresh \/ gens[h].done \/ Suspended(prog, stacks, h, gens[h])
    BY <1>4 DEF RunOK, GensOK
  <2>2. Suspended(prog, stacks, h, gens[h]) => Suspended(prog, stacks', h, gens[h])
    BY GoesIs DEF Suspended, Recut
  <2>3. QED
    BY <1>1, <1>2, <1>4, <2>1, <2>2
<1>5. CASE h \notin DOMAIN gens
  <2>1. PICK g : gens' = With(gens, clock, g) /\ DOMAIN g = Block /\ g.fresh /\ clock < clock'
    BY <1>3, <1>5 DEF GensGrow
  <2>2. h = clock /\ gens'[h] = g
    BY <1>3, <1>5, <2>1 DEF With
  <2>3. QED
    BY <1>1, <2>1, <2>2
<1>6. QED
  BY <1>4, <1>5

(* The handlers are those of Start and of the stack that the step goes to. *)
LEMMA GoesTries ==
  ASSUME prog \in Programs, Nested, RunOK, NEW fib, NEW n, NEW fr, Goes(fib, n, fr)
  PROVE  TriesNow(prog, stacks', fib)
           = TriesOf(prog, fib, Cut(stacks[fib], n, fr))
               \cup (IF fib = Start THEN {} ELSE TriesOf(prog, Start, stacks[Start]))
<1>1. Start \in DOMAIN stacks /\ Recut(stacks, stacks', fib, n, fr)
  BY GoesIs
<1>2. CASE fib = Start
  BY <1>1, <1>2 DEF TriesNow, Recut
<1>3. CASE fib # Start
  BY <1>1, <1>3 DEF TriesNow, Recut
<1>4. QED
  BY <1>2, <1>3

(* A step that opens and closes no try.                                    *)
LEMMA StaysOK ==
  ASSUME prog \in Programs, Nested, RunOK, NEW n, NEW fr, Goes(fiber, n, fr), GensGrow,
         tries' = tries, depth' = depth,
         TriesOf(prog, fiber, Cut(stacks[fiber], n, fr)) = TriesOf(prog, fiber, stacks[fiber])
  PROVE  RunOK'
<1>1. TriesNow(prog, stacks', fiber) = TriesNow(prog, stacks, fiber)
  <2>1. TriesNow(prog, stacks', fiber)
          = TriesOf(prog, fiber, stacks[fiber])
              \cup (IF fiber = Start THEN {} ELSE TriesOf(prog, Start, stacks[Start]))
    BY GoesTries
  <2>2. CASE fiber = Start
    BY <2>1, <2>2 DEF TriesNow
  <2>3. CASE fiber # Start
    BY <2>1, <2>3 DEF TriesNow
  <2>4. QED
    BY <2>2, <2>3
<1>2. Match(tries', depth', TriesNow(prog, stacks', fiber))
  BY <1>1 DEF RunOK
<1>3. /\ GensOK(prog, clock', stacks', gens')
      /\ fiber # Start => fiber \in DOMAIN gens' /\ gens'[fiber] = gens[fiber]
  BY GrowOK
<1>4. QED
  BY <1>2, <1>3, GoesOK

(* The frame on top goes to an instruction in the same tries.              *)
LEMMA MovesOK ==
  ASSUME prog \in Programs, Nested, RunOK, NEW fr, NEW pc, Like(fr, Top, pc),
         pc \in 1..(Len(Code(Top)) + 1), OpenAt(Code(Top), pc) = OpenAt(Code(Top), Top.pc),
         AfterIn(Code(Top)) \/ CatchAt(Code(Top), pc) \subseteq CatchAt(Code(Top), Top.pc),
         stacks' = WithTop(fiber, fr), GensGrow, clock' \in Nat, clock <= clock',
         prog' = prog, fiber' = fiber, genCur' = genCur, tries' = tries, depth' = depth
  PROVE  RunOK'
<1> DEFINE s == stacks[fiber]
           L == Len(s)
           c == Code(Top)
<1>1. /\ StackOK(prog, clock, fiber, s) /\ IsList(s) /\ L \in Nat /\ L # 0
      /\ Top = s[L] /\ CaughtIn(prog, Top) /\ c = prog[Top.fn] /\ clock \in Nat
  BY TopIs
<1>2. L \in 1..L
  BY <1>1
<1>3. fr.fn = Top.fn /\ fr.id = Top.id /\ fr.caught = Top.caught /\ fr.pc = pc
  BY DEF Like, Moved
<1> HIDE DEF s, L, c
<1>4. StackOK(prog, clock', fiber, s)
  BY <1>1, Later
<1>5. Fits(prog, clock', fiber, s, L, fr)
  <2>1. Moved(fr, s[L], pc) /\ pc \in 1..(Len(prog[s[L].fn]) + 1)
    BY <1>1 DEF c, Like
  <2>2. QED
    BY <1>2, <1>4, <2>1, LikeFits DEF L
<1>6. CaughtIn(prog, fr)
  BY <1>1, <1>3 DEF CaughtIn, c
<1>7. stacks' = [stacks EXCEPT ![fiber] = Cut(s, L, fr)]
  <2>1. Append(Front(s), fr) = Cut(s, L, fr)
    BY <1>1, CutsAre DEF L
  <2>2. QED
    BY <2>1 DEF WithTop, s
<1>8. Goes(fiber, L, fr)
  BY <1>1, <1>3, <1>5, <1>6, <1>7 DEF Goes, s
<1>9. TriesIn(prog, fiber, fr) = TriesIn(prog, fiber, s[L])
  BY <1>1, <1>3 DEF TriesIn, c
<1>10. TriesOf(prog, fiber, Cut(s, L, fr)) = TriesOf(prog, fiber, s)
  BY <1>1, <1>9, SameTries DEF L
<1>11. QED
  BY <1>8, <1>10, StaysOK DEF s

(* It goes to the next one, in no try or clause that it was not in.        *)
LEMMA NextPlace ==
  ASSUME prog \in Programs, Nested, RunOK, NEW op, Doing(op), op \notin {"TRY_BEGIN", "CATCH_BEGIN"}
  PROVE  LET c == Code(Top)
         IN /\ Top.pc + 1 \in 1..(Len(c) + 1) /\ OpenAt(c, Top.pc + 1) = OpenAt(c, Top.pc)
            /\ AfterIn(c) \/ CatchAt(c, Top.pc + 1) \subseteq CatchAt(c, Top.pc)
<1> DEFINE c == Code(Top)
<1>1. Top.pc \in 1..Len(c) /\ c[Top.pc].op = op
  BY DoingIs
<1>2. Len(c) \in Nat /\ TriesNested(c) /\ (AfterIn(c) \/ CatchesNested(c))
  BY TopIs
<1> HIDE DEF c
<1>3. Top.pc + 1 \in 1..(Len(c) + 1)
  BY <1>1, <1>2
<1>4. OpenAt(c, Top.pc + 1) = OpenAt(c, Top.pc)
  BY <1>1, <1>2, OpenNext
<1>5. AfterIn(c) \/ CatchAt(c, Top.pc + 1) \subseteq CatchAt(c, Top.pc)
  BY <1>1, <1>2, CatchNext
<1>6. QED
  BY <1>3, <1>4, <1>5 DEF c

(* An instruction that makes a value, or does nothing here.                *)
LEMMA PlainOK ==
  ASSUME prog \in Programs, Nested, RunOK, NEW op, Doing(op), op \notin {"TRY_BEGIN", "CATCH_BEGIN"},
         NEW fr, Like(fr, Top, Top.pc + 1),
         stacks' = WithTop(fiber, fr), GensGrow, clock' \in Nat, clock <= clock',
         prog' = prog, fiber' = fiber, genCur' = genCur, tries' = tries, depth' = depth
  PROVE  RunOK'
  BY NextPlace, MovesOK

(* The frame on top has all fields.                                        *)
LEMMA TopFields ==
  ASSUME prog \in Programs, Nested, RunOK
  PROVE  /\ DOMAIN Top = Fields /\ clock \in Nat
         /\ \A v, w : Like(Stepped(Top, v, w), Top, Top.pc + 1)
         /\ \A pc : Like([Top EXCEPT !.pc = pc], Top, pc)
  BY TopIs, SteppedIs, MovedIs DEF FrameOK

LEMMA MakeOK ==
  ASSUME prog \in Programs, Nested, RunOK, Make \/ Range_ \/ Construct \/ Divide PROVE RunOK'
<1>1. PICK op : Doing(op) /\ op \notin {"TRY_BEGIN", "CATCH_BEGIN"}
  BY DEF Make, Range_, Construct, Divide, Scratch
<1>2. /\ stacks' = WithTop(fiber, Stepped(Top, clock, clock)) /\ clock' = clock + 1
      /\ prog' = prog /\ fiber' = fiber /\ genCur' = genCur /\ tries' = tries /\ depth' = depth
      /\ gens' = gens
  BY DEF Make, Range_, Construct, Divide, Scratch, Finish, Tick, compiled
<1>3. QED
  BY <1>1, <1>2, PlainOK, TopFields DEF GensGrow

LEMMA PassOK ==
  ASSUME prog \in Programs, Nested, RunOK,
         Label \/ GoOn \/ LockEnd \/ TryEnd \/ (LockBegin /\ mode' = "run") PROVE RunOK'
<1>1. PICK op : Doing(op) /\ op \notin {"TRY_BEGIN", "CATCH_BEGIN"}
  BY DEF Label, GoOn, LockEnd, TryEnd, LockBegin
<1>2. /\ stacks' = WithTop(fiber, [Top EXCEPT !.pc = Top.pc + 1]) /\ clock' = clock
      /\ prog' = prog /\ fiber' = fiber /\ genCur' = genCur /\ tries' = tries /\ depth' = depth
      /\ gens' = gens
  BY DEF Label, GoOn, LockEnd, TryEnd, LockBegin, Stop, GoTo, compiled
<1>3. QED
  BY <1>1, <1>2, PlainOK, TopFields DEF GensGrow

LEMMA GenSkipOK == ASSUME prog \in Programs, Nested, RunOK, GenSkip PROVE RunOK'
<1>1. Doing("GEN_NEXT")
  BY DEF GenSkip
<1>2. /\ stacks' = WithTop(fiber, Stepped(Top, gens[Handle].value, gens[Handle].value)) /\ clock' = clock
      /\ prog' = prog /\ fiber' = fiber /\ genCur' = genCur /\ tries' = tries /\ depth' = depth
      /\ gens' = gens
  BY DEF GenSkip, Finish, compiled
<1>3. QED
  BY <1>1, <1>2, PlainOK, TopFields DEF GensGrow

LEMMA GenCreateOK == ASSUME prog \in Programs, Nested, RunOK, GenCreate PROVE RunOK'
<1>1. Doing("GEN_CREATE")
  BY DEF GenCreate
<1>2. /\ stacks' = WithTop(fiber, Stepped(Top, clock, clock)) /\ clock' = clock + 1
      /\ prog' = prog /\ fiber' = fiber /\ genCur' = genCur /\ tries' = tries /\ depth' = depth
  BY DEF GenCreate, Finish, Tick, compiled
<1>3. clock \in Nat
  BY TopIs
<1>4. GensGrow
  <2> DEFINE g == [done |-> FALSE, value |-> Junk, fresh |-> TRUE, gen |-> Place(1), caller |-> Place(1)]
  <2>1. gens' = With(gens, clock, g)
    BY DEF GenCreate
  <2>2. DOMAIN g = Block /\ g.fresh
    BY DEF Block
  <2>3. clock < clock'
    BY <1>2, <1>3
  <2> HIDE DEF g
  <2>4. QED
    BY <2>1, <2>2, <2>3 DEF GensGrow
<1>5. QED
  BY <1>1, <1>2, <1>3, <1>4, PlainOK, TopFields

LEMMA JumpOK == ASSUME prog \in Programs, Nested, RunOK, JumpTo PROVE RunOK'
<1> DEFINE c == Code(Top)
           pc == LabelOf(c, At(Top).lab)
<1>1. Doing("JUMP_IF_TRUE") /\ Top.pc \in 1..Len(c) /\ c[Top.pc].op = "JUMP_IF_TRUE"
  BY DoingIs DEF JumpTo
<1>2. Len(c) \in Nat /\ TriesNested(c) /\ (AfterIn(c) \/ CatchesNested(c))
  BY TopIs
<1>3. /\ stacks' = WithTop(fiber, [Top EXCEPT !.pc = pc]) /\ clock' = clock
      /\ prog' = prog /\ fiber' = fiber /\ genCur' = genCur /\ tries' = tries /\ depth' = depth
      /\ gens' = gens
  BY DEF JumpTo, GoTo, compiled
<1>4. pc \in 1..Len(c) /\ OpenAt(c, pc) = OpenAt(c, Top.pc)
  BY <1>1, <1>2 DEF TriesNested, At
<1>5. AfterIn(c) \/ CatchAt(c, pc) \subseteq CatchAt(c, Top.pc)
  BY <1>1, <1>2 DEF CatchesNested, At
<1> HIDE DEF c, pc
<1>6. pc \in 1..(Len(c) + 1)
  BY <1>2, <1>4
<1> DEFINE fr == [Top EXCEPT !.pc = pc]
<1>7. Like(fr, Top, pc) /\ clock \in Nat
  BY TopFields
<1>8. GensGrow /\ clock' \in Nat /\ clock <= clock'
  BY <1>3, <1>7 DEF GensGrow
<1>9. stacks' = WithTop(fiber, fr)
  BY <1>3
<1> HIDE DEF fr
<1>10. QED
  BY <1>3, <1>4, <1>5, <1>6, <1>7, <1>8, <1>9, MovesOK DEF c

-----------------------------------------------------------------------------
(* Calls.                                                                  *)

(* A function that is called is in no try.                                 *)
LEMMA EnteredOK ==
  ASSUME prog \in Programs, Nested, NEW fn \in Fns, NEW rg, NEW fib, clock \in Nat
  PROVE  LET fr == Entered(fn, rg)
         IN /\ FrameOK(prog, clock + 1, fr) /\ CaughtIn(prog, fr) /\ TriesIn(prog, fib, fr) = {}
            /\ fr.fn = fn /\ fr.id = clock
<1> DEFINE fr == Entered(fn, rg)
<1>1. DOMAIN fr = Fields /\ fr.fn = fn /\ fr.id = clock /\ fr.pc = 1 /\ fr.caught = {}
  BY EnteredIs
<1> HIDE DEF fr
<1>2. Len(prog[fn]) \in Nat /\ TriesNested(prog[fn])
  BY CodeIs DEF Nested
<1>3. OpenAt(prog[fn], 1) = {} /\ CatchAt(prog[fn], 1) = {}
  BY <1>2, OpenNext, CatchNone
<1>4. FrameOK(prog, clock + 1, fr)
  BY <1>1, <1>2 DEF FrameOK
<1>5. CaughtIn(prog, fr) /\ TriesIn(prog, fib, fr) = {}
  BY <1>1, <1>3 DEF CaughtIn, TriesIn
<1>6. QED
  BY <1>1, <1>4, <1>5 DEF fr

LEMMA CallOK == ASSUME prog \in Programs, Nested, OneGenerator, RunOK, Call PROVE RunOK'
<1> DEFINE s == stacks[fiber]
           fr == Entered("f", regs)
<1>1. /\ StackOK(prog, clock, fiber, s) /\ IsList(s) /\ Len(s) \in Nat /\ Len(s) # 0
      /\ Top = s[Len(s)] /\ FrameOK(prog, clock, Top) /\ clock \in Nat
      /\ Code(Top) = prog[Top.fn] /\ Top.fn \in Fns
  BY TopIs
<1>2. Top.pc \in 1..Len(Code(Top)) /\ Code(Top)[Top.pc].op = "CALL" /\ Waits(prog, Top, "CALL")
  BY DoingIs DEF Call
<1>3. At(Top).lab = "f"
  BY <1>1, <1>2 DEF OneGenerator, At
<1>4. /\ stacks' = [stacks EXCEPT ![fiber] = Append(s, fr)] /\ clock' = clock + 1
      /\ prog' = prog /\ fiber' = fiber /\ genCur' = genCur /\ tries' = tries /\ depth' = depth
      /\ gens' = gens
  BY <1>3 DEF Call, Tick, compiled
<1>5. /\ FrameOK(prog, clock + 1, fr) /\ CaughtIn(prog, fr) /\ TriesIn(prog, fiber, fr) = {}
      /\ fr.fn = "f" /\ fr.id = clock
  BY <1>1, EnteredOK DEF Fns
<1> HIDE DEF s, fr
<1>6. clock' \in Nat /\ clock <= clock' /\ StackOK(prog, clock', fiber, s)
  BY <1>1, <1>4, Later
<1>7. /\ Len(s) + 1 \in 1..(Len(s) + 1) /\ Len(s) + 1 # 1 /\ Len(s) + 1 - 1 = Len(s)
      /\ s[Len(s)].id < clock
  BY <1>1 DEF FrameOK
<1>8. Fits(prog, clock', fiber, s, Len(s) + 1, fr)
  BY <1>1, <1>2, <1>4, <1>5, <1>6, <1>7 DEF Fits
<1>9. Append(s, fr) = Cut(s, Len(s) + 1, fr)
  BY <1>1, CutsAre
<1>10. Goes(fiber, Len(s) + 1, fr)
  BY <1>4, <1>5, <1>6, <1>7, <1>8, <1>9 DEF Goes, s
<1>11. TriesOf(prog, fiber, Cut(s, Len(s) + 1, fr)) = TriesOf(prog, fiber, s)
  BY <1>1, <1>5, SameTries
<1>12. QED
  BY <1>4, <1>10, <1>11, StaysOK DEF GensGrow, s

(* Who returns is in no try.                                               *)
LEMMA ReturnsNone ==
  ASSUME prog \in Programs, Nested, RunOK, ~LeavesTry, Returning \/ Doing("YIELD"), NEW fib
  PROVE  TriesIn(prog, fib, Top) = {}
<1>1. /\ Top.fn \in Fns /\ Code(Top) = prog[Top.fn] /\ Len(Code(Top)) \in Nat
      /\ TriesNested(Code(Top)) /\ Top.pc \in 1..(Len(Code(Top)) + 1)
  BY TopIs
<1>2. CASE AtEnd(Top)
  <2>1. Top.pc = Len(Code(Top)) + 1
    BY <1>1, <1>2 DEF AtEnd
  <2>2. QED
    BY <1>1, <2>1, OpenNext DEF TriesIn
<1>3. CASE ~AtEnd(Top)
  <2>1. Top.pc \in 1..Len(Code(Top)) /\ Code(Top)[Top.pc].op \in {"RETURN", "YIELD"}
    BY <1>1, <1>3 DEF AtEnd, At, Returning, Doing
  <2>2. QED
    BY <1>1, <2>1, LeavesNone DEF TriesIn
<1>4. QED
  BY <1>2, <1>3

(* A frame that waits goes on behind the instruction.                      *)
LEMMA WaitsIs ==
  ASSUME prog \in Programs, Nested, NEW t, NEW old, FrameOK(prog, t, old), NEW op, Waits(prog, old, op),
         op \notin {"TRY_BEGIN", "CATCH_BEGIN"}, CaughtIn(prog, old),
         NEW fr, Like(fr, old, old.pc + 1), NEW fib
  PROVE  /\ old.pc + 1 \in 1..(Len(prog[old.fn]) + 1)
         /\ TriesIn(prog, fib, fr) = TriesIn(prog, fib, old) /\ CaughtIn(prog, fr)
<1> DEFINE c == prog[old.fn]
<1>1. old.fn \in Fns /\ old.pc \in 1..(Len(c) + 1)
  BY DEF FrameOK
<1>2. Len(c) \in Nat /\ TriesNested(c) /\ (AfterIn(c) \/ CatchesNested(c))
  BY <1>1, CodeIs DEF Nested
<1>3. old.pc <= Len(c) /\ c[old.pc].op = op
  BY DEF Waits
<1>4. fr.fn = old.fn /\ fr.id = old.id /\ fr.caught = old.caught /\ fr.pc = old.pc + 1
  BY DEF Like, Moved
<1> HIDE DEF c
<1>5. old.pc \in 1..Len(c) /\ old.pc + 1 \in 1..(Len(c) + 1)
  BY <1>1, <1>2, <1>3
<1>6. OpenAt(c, old.pc + 1) = OpenAt(c, old.pc)
  BY <1>2, <1>3, <1>5, OpenNext
<1>7. AfterIn(c) \/ CatchAt(c, old.pc + 1) \subseteq CatchAt(c, old.pc)
  BY <1>2, <1>3, <1>5, CatchNext
<1>8. QED
  BY <1>4, <1>5, <1>6, <1>7 DEF TriesIn, CaughtIn, c

LEMMA ReturnOK == ASSUME prog \in Programs, Nested, RunOK, ~LeavesTry, Return PROVE RunOK'
<1> DEFINE s == stacks[fiber]
           n == Len(s) - 1
           fr == Stepped(s[n], clock, clock)
<1>1. /\ StackOK(prog, clock, fiber, s) /\ IsList(s) /\ Len(s) \in Nat /\ Len(s) # 0
      /\ Top = s[Len(s)] /\ clock \in Nat
  BY TopIs
<1>2. Len(s) > 1 /\ n \in 1..Len(s) /\ n < Len(s) /\ Len(s) \in 1..Len(s)
  BY <1>1 DEF Return
<1>3. Append(Front(Front(s)), fr) = Cut(s, n, fr) /\ Last(Front(s)) = s[n]
  BY <1>1, <1>2, CutsAre
<1>4. /\ stacks' = [stacks EXCEPT ![fiber] = Cut(s, n, fr)] /\ clock' = clock + 1
      /\ prog' = prog /\ fiber' = fiber /\ genCur' = genCur /\ tries' = tries /\ depth' = depth
      /\ gens' = gens
  BY <1>3 DEF Return, Tick, compiled
<1> HIDE DEF s, n, fr
<1>5. Waits(prog, s[n], "CALL") /\ FrameOK(prog, clock, s[n]) /\ DOMAIN s[n] = Fields
  BY <1>1, <1>2 DEF StackOK, FrameOK
<1>6. CaughtIn(prog, s[n])
  BY <1>2 DEF RunOK, CaughtOK, s
<1>7. Like(fr, s[n], s[n].pc + 1)
  BY <1>5, SteppedIs DEF fr
<1>8. /\ s[n].pc + 1 \in 1..(Len(prog[s[n].fn]) + 1)
      /\ TriesIn(prog, fiber, fr) = TriesIn(prog, fiber, s[n]) /\ CaughtIn(prog, fr)
  BY <1>5, <1>6, <1>7, WaitsIs
<1>9. clock' \in Nat /\ clock <= clock' /\ StackOK(prog, clock', fiber, s)
  BY <1>1, <1>4, Later
<1>10. Fits(prog, clock', fiber, s, n, fr)
  BY <1>2, <1>7, <1>8, <1>9, LikeFits DEF Like
<1>11. Goes(fiber, n, fr)
  BY <1>4, <1>7, <1>8, <1>9, <1>10 DEF Goes, s, Like, Moved
<1>12. TriesIn(prog, fiber, s[Len(s)]) = {}
  BY <1>1, ReturnsNone DEF Return
<1>13. TriesOf(prog, fiber, Cut(s, n, fr)) = TriesOf(prog, fiber, s)
  BY <1>1, <1>2, <1>8, <1>12, SameTries DEF n
<1>14. QED
  BY <1>4, <1>11, <1>13, StaysOK DEF GensGrow, s

-----------------------------------------------------------------------------
(* try.                                                                    *)

(* The handlers of the frames below the last, and its own.                 *)
LEMMA TopTries ==
  ASSUME NEW p, NEW fib, NEW s, IsList(s), Len(s) # 0
  PROVE  TriesOf(p, fib, s) = TriesBelow(p, fib, s, Len(s)) \cup TriesIn(p, fib, s[Len(s)])
<1> DEFINE L == Len(s)
<1>1. L \in Nat
  BY ListIs
<1>2. 1..L = (1..(L - 1)) \cup {L}
  BY <1>1
<1> HIDE DEF L
<1>3. ASSUME NEW x
      PROVE  x \in TriesOf(p, fib, s) <=> x \in TriesBelow(p, fib, s, L) \cup TriesIn(p, fib, s[L])
  <2>1. x \in TriesOf(p, fib, s) <=> \E m \in 1..L : x \in TriesIn(p, fib, s[m])
    BY DEF TriesOf, L
  <2>2. x \in TriesBelow(p, fib, s, L) <=> \E m \in 1..(L - 1) : x \in TriesIn(p, fib, s[m])
    BY DEF TriesBelow
  <2>3. QED
    BY <1>2, <2>1, <2>2
<1>4. QED
  BY <1>3 DEF L

(* A handler of the frame on top is inside of those of all others.         *)
LEMMA TopInside ==
  ASSUME prog \in Programs, Nested, RunOK, NEW T, T[1] = fiber, T[2] = Top.id,
         NEW g \in TriesNow(prog, stacks, fiber)
  PROVE  \/ g \in TriesIn(prog, fiber, Top)
         \/ Inside(T, g) /\ ~ Inside(g, T) /\ g # T
<1> DEFINE s == stacks[fiber]
<1>1. /\ StackOK(prog, clock, fiber, s) /\ IsList(s) /\ Len(s) \in Nat /\ Len(s) # 0
      /\ Top = s[Len(s)] /\ Start \in DOMAIN stacks
  BY TopIs
<1>2. StackOK(prog, clock, Start, stacks[Start])
  BY <1>1 DEF RunOK, StacksOK
<1>3. CASE g \notin TriesOf(prog, fiber, s)
  <2>1. g \in TriesOf(prog, Start, stacks[Start]) /\ fiber # Start
    BY <1>3 DEF TriesNow
  <2>2. g[1] = Start
    BY <1>2, <2>1, TriesAre
  <2>3. QED
    BY <2>1, <2>2 DEF Inside
<1>4. CASE g \in TriesOf(prog, fiber, s) /\ g \notin TriesIn(prog, fiber, Top)
  <2>1. PICK n \in 1..Len(s) : g \in TriesIn(prog, fiber, s[n])
    BY <1>4 DEF TriesOf
  <2>2. n # Len(s)
    BY <1>1, <1>4, <2>1
  <2>3. n < Len(s) /\ Len(s) \in 1..Len(s)
    BY <1>1, <2>2
  <2>4. s[n].id < Top.id /\ FrameOK(prog, clock, s[n]) /\ FrameOK(prog, clock, Top)
    BY <1>1, <2>3 DEF StackOK
  <2>5. g[1] = fiber /\ g[2] = s[n].id
    BY <2>1 DEF TriesIn
  <2>6. s[n].id \in Nat /\ Top.id \in Nat
    BY <2>4 DEF FrameOK
  <2>7. QED
    BY <2>4, <2>5, <2>6 DEF Inside
<1>5. QED
  BY <1>3, <1>4

LEMMA TryBeginOK ==
  ASSUME prog \in Programs, Nested, RunOK, TryBegin, mode' = "run" PROVE RunOK'
<1> DEFINE s == stacks[fiber]
           L == Len(s)
           c == Code(Top)
           C == CatchOf(c, Top.pc)
           fr == [Top EXCEPT !.pc = @ + 1, !.caught = @ \ {C}]
           T == <<fiber, Top.id, C + 1>>
           place == Place(C + 1)
<1>1. /\ StackOK(prog, clock, fiber, s) /\ IsList(s) /\ L \in Nat /\ L # 0
      /\ Top = s[L] /\ CaughtIn(prog, Top) /\ c = prog[Top.fn] /\ clock \in Nat
      /\ FrameOK(prog, clock, Top) /\ Len(c) \in Nat /\ TriesNested(c)
      /\ (AfterIn(c) \/ CatchesNested(c))
  BY TopIs
<1>2. Doing("TRY_BEGIN") /\ Top.pc \in 1..Len(c) /\ c[Top.pc].op = "TRY_BEGIN"
  BY DoingIs DEF TryBegin
<1>3. /\ tries' = With(tries, depth, place) /\ depth' = depth + 1
      /\ stacks' = WithTop(fiber, fr) /\ clock' = clock
      /\ prog' = prog /\ fiber' = fiber /\ genCur' = genCur /\ gens' = gens
  BY DEF TryBegin, Stop, compiled
<1>4. /\ OpenAt(c, Top.pc + 1) = OpenAt(c, Top.pc) \cup {Top.pc} /\ C \in (Top.pc + 1)..Len(c)
      /\ \A k \in OpenAt(c, Top.pc) : C < CatchOf(c, k)
  <2>1. \A i \in 1..Len(c) : c[i].op = "TRY_BEGIN" =>
          /\ OpenAt(c, i + 1) = OpenAt(c, i) \cup {i} /\ CatchOf(c, i) \in (i + 1)..Len(c)
          /\ \A k \in OpenAt(c, i) : CatchOf(c, i) < CatchOf(c, k)
    BY <1>1, OpenTry
  <2>2. QED
    BY <1>2, <2>1
<1>5. Moved(fr, Top, Top.pc + 1) /\ fr.caught = Top.caught \ {C}
  BY <1>1 DEF FrameOK, Moved, Fields
<1>6. AfterIn(c) \/ CatchAt(c, Top.pc + 1) \subseteq CatchAt(c, Top.pc)
  BY <1>1, <1>2, CatchNext
<1>7. T = <<place.fiber, place.id, place.pc>>
  BY DEF Place
<1>8. L \in 1..L /\ Top.pc + 1 \in 1..(Len(c) + 1)
  BY <1>1, <1>2
<1>9. Append(Front(s), fr) = Cut(s, L, fr)
  BY <1>1, CutsAre
<1> HIDE DEF s, L, C, fr, place
<1>10. Fits(prog, clock', fiber, s, L, fr)
  <2>1. Moved(fr, s[L], Top.pc + 1) /\ Top.pc + 1 \in 1..(Len(prog[s[L].fn]) + 1)
    BY <1>1, <1>5, <1>8
  <2>2. QED
    BY <1>1, <1>3, <1>8, <2>1, LikeFits DEF L
<1>11. CaughtIn(prog, fr)
  <2>1. ASSUME ~ AfterIn(c) PROVE CatchAt(c, Top.pc + 1) \subseteq Top.caught \ {C}
    <3>1. CatchAt(c, Top.pc + 1) \subseteq Top.caught
      BY <1>1, <1>6, <2>1 DEF CaughtIn
    <3>2. C \notin CatchAt(c, Top.pc + 1)
      <4>1. ~ C < Top.pc + 1
        BY <1>1, <1>2, <1>4
      <4>2. QED
        BY <4>1 DEF CatchAt, InCatch
    <3>3. QED
      BY <3>1, <3>2
  <2>2. QED
    BY <1>1, <1>5, <2>1 DEF CaughtIn, Moved
<1>12. Goes(fiber, L, fr)
  <2>1. stacks' = [stacks EXCEPT ![fiber] = Cut(s, L, fr)]
    BY <1>3, <1>9 DEF WithTop, s
  <2>2. QED
    BY <1>1, <1>3, <1>5, <1>10, <1>11, <2>1 DEF Goes, Moved, s
<1>13. TriesIn(prog, fiber, fr) = TriesIn(prog, fiber, Top) \cup {T}
  <2>1. fr.fn = Top.fn /\ fr.id = Top.id /\ fr.pc = Top.pc + 1
    BY <1>5 DEF Moved
  <2>2. QED
    BY <1>1, <1>4, <2>1 DEF TriesIn, C
<1>14. TriesNow(prog, stacks', fiber) = TriesNow(prog, stacks, fiber) \cup {T}
  <2>1. TriesOf(prog, fiber, Cut(s, L, fr)) = TriesBelow(prog, fiber, s, L) \cup TriesIn(prog, fiber, fr)
    BY <1>1, <1>10, CutTries DEF Fits
  <2>2. TriesOf(prog, fiber, s) = TriesBelow(prog, fiber, s, L) \cup TriesIn(prog, fiber, Top)
    BY <1>1, TopTries DEF L
  <2>3. TriesOf(prog, fiber, Cut(s, L, fr)) = TriesOf(prog, fiber, s) \cup {T}
    BY <1>13, <2>1, <2>2
  <2>4. TriesNow(prog, stacks', fiber)
          = TriesOf(prog, fiber, Cut(s, L, fr))
              \cup (IF fiber = Start THEN {} ELSE TriesOf(prog, Start, stacks[Start]))
    BY <1>12, GoesTries DEF s
  <2>5. QED
    BY <2>3, <2>4 DEF TriesNow, s
<1>15. \A g \in TriesNow(prog, stacks, fiber) : Inside(T, g)
  <2>1. SUFFICES ASSUME NEW g \in TriesIn(prog, fiber, Top) PROVE Inside(T, g)
    BY TopInside
  <2>2. PICK k \in OpenAt(c, Top.pc) : g = <<fiber, Top.id, CatchOf(c, k) + 1>>
    BY <1>1 DEF TriesIn
  <2>3. C < CatchOf(c, k) /\ CatchOf(c, k) \in Nat /\ C \in Nat
    <3>1. \A i \in 1..(Len(c) + 1) : \A m \in OpenAt(c, i) : CatchOf(c, m) \in i..Len(c)
      BY <1>1, OpenCatch
    <3>2. Top.pc \in 1..(Len(c) + 1) /\ Top.pc \in Nat
      BY <1>1, <1>2
    <3>3. QED
      BY <1>1, <1>4, <3>1, <3>2
  <2>4. C + 1 < CatchOf(c, k) + 1
    BY <2>3
  <2>5. QED
    BY <2>2, <2>4 DEF Inside
<1>16. Match(tries', depth', TriesNow(prog, stacks', fiber))
  <2>1. Match(tries, depth, TriesNow(prog, stacks, fiber))
    BY DEF RunOK
  <2>2. QED
    BY <1>3, <1>7, <1>14, <1>15, <2>1, PushMatch
<1>17. /\ GensOK(prog, clock', stacks', gens')
       /\ fiber # Start => fiber \in DOMAIN gens' /\ gens'[fiber] = gens[fiber]
  BY <1>3, <1>12, GrowOK DEF GensGrow
<1>18. QED
  BY <1>12, <1>16, <1>17, GoesOK

(* The body of a try that ends removes the handler of that try.            *)
LEMMA CatchBeginOK == ASSUME prog \in Programs, Nested, RunOK, CatchBegin PROVE RunOK'
<1> DEFINE s == stacks[fiber]
           L == Len(s)
           c == Code(Top)
           skip == SkipOf(c, Top.pc)
           fr == [Top EXCEPT !.pc = skip]
           T == <<fiber, Top.id, Top.pc + 1>>
           A == TriesNow(prog, stacks, fiber)
<1>1. /\ StackOK(prog, clock, fiber, s) /\ IsList(s) /\ L \in Nat /\ L # 0
      /\ Top = s[L] /\ CaughtIn(prog, Top) /\ c = prog[Top.fn] /\ clock \in Nat
      /\ FrameOK(prog, clock, Top) /\ Len(c) \in Nat /\ TriesNested(c)
      /\ (AfterIn(c) \/ CatchesNested(c)) /\ Start \in DOMAIN stacks
  BY TopIs
<1>2. Doing("CATCH_BEGIN") /\ Top.pc \in 1..Len(c) /\ c[Top.pc].op = "CATCH_BEGIN"
  BY DoingIs DEF CatchBegin
<1>3. /\ tries' = tries /\ depth' = depth - 1
      /\ stacks' = WithTop(fiber, fr) /\ clock' = clock
      /\ prog' = prog /\ fiber' = fiber /\ genCur' = genCur /\ gens' = gens
  BY DEF CatchBegin, GoTo, compiled
<1>4. /\ skip \in (Top.pc + 1)..Len(c)
      /\ \E k \in OpenAt(c, Top.pc) :
           CatchOf(c, k) = Top.pc /\ OpenAt(c, skip) = OpenAt(c, Top.pc) \ {k}
      /\ \A k, m \in OpenAt(c, Top.pc) : CatchOf(c, k) = CatchOf(c, m) => k = m
  BY <1>1, <1>2, OpenLast
<1>5. Like(fr, Top, skip)
  BY TopFields
<1>6. AfterIn(c) \/ CatchAt(c, skip) \subseteq CatchAt(c, Top.pc)
  BY <1>1, <1>2 DEF CatchesNested
<1>7. \A k \in OpenAt(c, Top.pc) : CatchOf(c, k) \in Top.pc..Len(c)
  <2>1. Top.pc \in 1..(Len(c) + 1)
    BY <1>1, <1>2
  <2>2. QED
    BY <1>1, <2>1, OpenCatch
<1>8. L \in 1..L /\ skip \in 1..(Len(c) + 1) /\ Top.pc \in Nat
  BY <1>1, <1>2, <1>4
<1>9. Append(Front(s), fr) = Cut(s, L, fr)
  BY <1>1, CutsAre
<1> HIDE DEF s, L, skip, fr
<1>10. Fits(prog, clock', fiber, s, L, fr)
  <2>1. Moved(fr, s[L], skip) /\ skip \in 1..(Len(prog[s[L].fn]) + 1)
    BY <1>1, <1>5, <1>8 DEF Like
  <2>2. QED
    BY <1>1, <1>3, <1>8, <2>1, LikeFits DEF L
<1>11. CaughtIn(prog, fr)
  BY <1>1, <1>5, <1>6 DEF CaughtIn, Like, Moved
<1>12. Goes(fiber, L, fr)
  <2>1. stacks' = [stacks EXCEPT ![fiber] = Cut(s, L, fr)]
    BY <1>3, <1>9 DEF WithTop, s
  <2>2. QED
    BY <1>1, <1>3, <1>5, <1>10, <1>11, <2>1 DEF Goes, Like, Moved, s
<1>13. T \in TriesIn(prog, fiber, Top) /\ TriesIn(prog, fiber, fr) = TriesIn(prog, fiber, Top) \ {T}
  <2>1. fr.fn = Top.fn /\ fr.id = Top.id /\ fr.pc = skip
    BY <1>5 DEF Like, Moved
  <2>2. PICK k \in OpenAt(c, Top.pc) :
          CatchOf(c, k) = Top.pc /\ OpenAt(c, skip) = OpenAt(c, Top.pc) \ {k}
    BY <1>4
  <2>3. \A m \in OpenAt(c, Top.pc) : m # k => CatchOf(c, m) + 1 # Top.pc + 1
    BY <1>4, <1>7, <1>8, <2>2
  <2>4. T \in TriesIn(prog, fiber, Top)
    BY <1>1, <2>2 DEF TriesIn
  <2>5. TriesIn(prog, fiber, fr) = TriesIn(prog, fiber, Top) \ {T}
    BY <1>1, <2>1, <2>2, <2>3 DEF TriesIn
  <2>6. QED
    BY <2>4, <2>5
<1>14. \A g \in A : g # T => ~ Inside(g, T)
  <2>1. SUFFICES ASSUME NEW g \in TriesIn(prog, fiber, Top) PROVE ~ Inside(g, T)
    BY TopInside
  <2>2. PICK k \in OpenAt(c, Top.pc) : g = <<fiber, Top.id, CatchOf(c, k) + 1>>
    BY <1>1 DEF TriesIn
  <2>3. CatchOf(c, k) \in Nat /\ Top.pc <= CatchOf(c, k) /\ Top.id \in Nat
    BY <1>1, <1>7, <1>8 DEF FrameOK
  <2> HIDE DEF c
  <2>4. QED
    BY <1>8, <2>2, <2>3 DEF Inside
<1>15. TriesNow(prog, stacks', fiber) = A \ {T}
  <2>1. TriesOf(prog, fiber, Cut(s, L, fr)) = TriesBelow(prog, fiber, s, L) \cup TriesIn(prog, fiber, fr)
    BY <1>1, <1>10, CutTries DEF Fits
  <2>2. TriesOf(prog, fiber, s) = TriesBelow(prog, fiber, s, L) \cup TriesIn(prog, fiber, Top)
    BY <1>1, TopTries DEF L
  <2>3. T \notin TriesBelow(prog, fiber, s, L)
    <3>1. SUFFICES ASSUME NEW m \in 1..(L - 1), T \in TriesIn(prog, fiber, s[m]) PROVE FALSE
      BY DEF TriesBelow
    <3>2. m \in 1..L /\ m < L
      BY <1>1
    <3>3. s[m].id < Top.id /\ FrameOK(prog, clock, s[m])
      BY <1>1, <1>8, <3>2 DEF StackOK, L
    <3>4. Top.id = s[m].id /\ s[m].id \in Nat
      BY <3>1, <3>3 DEF TriesIn, FrameOK
    <3>5. QED
      BY <3>3, <3>4
  <2>4. TriesOf(prog, fiber, Cut(s, L, fr)) = TriesOf(prog, fiber, s) \ {T}
    BY <1>13, <2>1, <2>2, <2>3
  <2>5. TriesNow(prog, stacks', fiber)
          = TriesOf(prog, fiber, Cut(s, L, fr))
              \cup (IF fiber = Start THEN {} ELSE TriesOf(prog, Start, stacks[Start]))
    BY <1>12, GoesTries DEF s
  <2>6. fiber # Start => T \notin TriesOf(prog, Start, stacks[Start])
    <3>1. StackOK(prog, clock, Start, stacks[Start])
      BY <1>1 DEF RunOK, StacksOK
    <3>2. QED
      BY <3>1, TriesAre
  <2>7. QED
    BY <2>4, <2>5, <2>6 DEF TriesNow, s
<1>16. Match(tries', depth', TriesNow(prog, stacks', fiber))
  <2>1. Match(tries, depth, A) /\ Numbered(A)
    BY NowNumbered DEF RunOK
  <2>2. T \in A
    <3>1. T \in TriesOf(prog, fiber, s)
      BY <1>1, <1>13, TopTries DEF L
    <3>2. QED
      BY <3>1 DEF TriesNow, s
  <2> HIDE DEF A, T
  <2>3. depth # 0 /\ T = Handler(tries, depth - 1)
    BY <1>14, <2>1, <2>2, InnerMatch
  <2>4. QED
    BY <1>3, <1>15, <2>1, <2>3, PopMatch
<1>17. /\ GensOK(prog, clock', stacks', gens')
       /\ fiber # Start => fiber \in DOMAIN gens' /\ gens'[fiber] = gens[fiber]
  BY <1>3, <1>12, GrowOK DEF GensGrow
<1>18. QED
  BY <1>12, <1>16, <1>17, GoesOK

(* A frame that is put on a cut stack can be put there in another form.    *)
LEMMA CutAgain ==
  ASSUME NEW s, IsList(s), NEW n \in 1..(Len(s) + 1), NEW a, NEW b
  PROVE  Append(Front(Cut(s, n, a)), b) = Cut(s, n, b) /\ Last(Cut(s, n, a)) = a
<1> DEFINE u == Cut(s, n, a)
           w == Cut(s, n, b)
<1>1. Len(s) \in Nat
  BY ListIs
<1>2. /\ IsList(u) /\ Len(u) = n /\ (\A m \in 1..(n - 1) : u[m] = s[m]) /\ u[n] = a
      /\ IsList(w) /\ Len(w) = n /\ (\A m \in 1..(n - 1) : w[m] = s[m]) /\ w[n] = b
  BY CutIs
<1> HIDE DEF u, w
<1>3. Len(u) # 0 /\ n \in 1..(Len(u) + 1)
  BY <1>1, <1>2
<1>4. Append(Front(u), b) = Cut(u, n, b) /\ Last(u) = a
  BY <1>2, <1>3, CutsAre
<1>5. /\ IsList(Cut(u, n, b)) /\ Len(Cut(u, n, b)) = n
      /\ (\A m \in 1..(n - 1) : Cut(u, n, b)[m] = u[m]) /\ Cut(u, n, b)[n] = b
  BY <1>2, <1>3, CutIs
<1>6. DOMAIN Cut(u, n, b) = 1..n /\ DOMAIN w = 1..n
  BY <1>2, <1>5, ListIs
<1>7. \A m \in 1..n : Cut(u, n, b)[m] = w[m]
  <2>1. 1..n = (1..(n - 1)) \cup {n}
    BY <1>1
  <2>2. QED
    BY <1>2, <1>5, <2>1
<1>8. Cut(u, n, b) = w
  <2>1. /\ Cut(u, n, b) = [m \in DOMAIN Cut(u, n, b) |-> Cut(u, n, b)[m]]
        /\ w = [m \in DOMAIN w |-> w[m]]
    BY <1>2, <1>5 DEF IsList
  <2>2. QED
    BY <1>6, <1>7, <2>1
<1>9. QED
  BY <1>4, <1>8 DEF u, w

(* A jump that was prepared goes to the frame that prepared it.            *)
LEMMA UnwoundIs ==
  ASSUME NEW t, NEW place, StackOK(prog, t, place.fiber, stacks[place.fiber]),
         NEW n \in 1..Len(stacks[place.fiber]), stacks[place.fiber][n].id = place.id
  PROVE  /\ Standing(place)
         /\ Unwound(place) = Cut(stacks[place.fiber], n, [stacks[place.fiber][n] EXCEPT !.pc = place.pc])
<1> DEFINE s == stacks[place.fiber]
<1>1. Len(s) \in Nat
  BY ListIs DEF StackOK
<1>2. ASSUME NEW k \in 1..Len(s), s[k].id = place.id PROVE k = n
  <2>1. s[k].id \in Nat
    BY DEF StackOK, FrameOK
  <2>2. ~ k < n /\ ~ n < k
    BY <1>2, <2>1 DEF StackOK
  <2>3. QED
    BY <1>1, <2>2
<1>3. (CHOOSE k \in 1..Len(s) : s[k].id = place.id) = n
  BY <1>2
<1>4. QED
  BY <1>3 DEF Standing, Unwound, Cut

(* An exception goes to the last handler, which is that of an open try of  *)
(* a frame that is there still.                                            *)
LEMMA TrapOK ==
  ASSUME prog \in Programs, Nested, RunOK, Trap, mode' # "exit1" PROVE RunOK' /\ mode' = mode
<1> DEFINE A == TriesNow(prog, stacks, fiber)
           place == tries[depth - 1]
           T == Handler(tries, depth - 1)
           fib == place.fiber
           s == stacks[fib]
<1>1. /\ depth > 0 /\ depth' = depth - 1
      /\ fiber' = fib
      /\ Standing(place) => stacks' = [stacks EXCEPT ![fib] = Caught(Unwound(place))] /\ mode' = mode
      /\ prog' = prog /\ genCur' = genCur /\ gens' = gens /\ clock' = clock /\ tries' = tries
  BY DEF Trap, Stop, compiled
<1>2. /\ Match(tries, depth, A) /\ Numbered(A) /\ depth # 0 /\ clock \in Nat
      /\ StackOK(prog, clock, Start, stacks[Start]) /\ StackOK(prog, clock, fiber, stacks[fiber])
      /\ CaughtOK(prog, stacks[Start]) /\ CaughtOK(prog, stacks[fiber])
  BY <1>1, NowNumbered DEF RunOK, StacksOK, AwayOK, Match
<1> HIDE DEF A, T
<1>3. T \in A /\ \A g \in A : g = T \/ Inside(T, g)
  BY <1>2, LastMatch DEF T
<1>4. T = <<fib, place.id, place.pc>>
  BY DEF T, Handler
<1> HIDE DEF fib, s, place
<1>5. fib \in {Start, fiber} /\ T \in TriesOf(prog, fib, s)
  <2>1. T \in TriesOf(prog, Start, stacks[Start]) \/ T \in TriesOf(prog, fiber, stacks[fiber])
    BY <1>3 DEF A, TriesNow
  <2>2. CASE T \in TriesOf(prog, Start, stacks[Start])
    <3>1. T[1] = Start
      BY <1>2, <2>2, TriesAre
    <3>2. QED
      BY <1>4, <2>2, <3>1 DEF s
  <2>3. CASE T \in TriesOf(prog, fiber, stacks[fiber])
    <3>1. T[1] = fiber
      BY <1>2, <2>3, TriesAre
    <3>2. QED
      BY <1>4, <2>3, <3>1 DEF s
  <2>4. QED
    BY <2>1, <2>2, <2>3
<1>6. StackOK(prog, clock, fib, s) /\ CaughtOK(prog, s) /\ IsList(s) /\ Len(s) \in Nat
  <2>1. StackOK(prog, clock, fib, s) /\ CaughtOK(prog, s)
    BY <1>2, <1>5 DEF s
  <2>2. QED
    BY <2>1, ListIs DEF StackOK
<1>7. PICK n \in 1..Len(s) : \E k \in OpenAt(prog[s[n].fn], s[n].pc) :
        T = <<fib, s[n].id, CatchOf(prog[s[n].fn], k) + 1>>
  BY <1>5 DEF TriesOf, TriesIn
<1> DEFINE c == prog[s[n].fn]
           pc == s[n].pc
<1>8. PICK k \in OpenAt(c, pc) : T = <<fib, s[n].id, CatchOf(c, k) + 1>>
  BY <1>7
<1> DEFINE C == CatchOf(c, k)
           fr == [[s[n] EXCEPT !.pc = C + 1] EXCEPT !.caught = @ \cup {C}]
<1>9. /\ FrameOK(prog, clock, s[n]) /\ CaughtIn(prog, s[n]) /\ Len(c) \in Nat /\ TriesNested(c)
      /\ (AfterIn(c) \/ CatchesNested(c)) /\ pc \in 1..(Len(c) + 1) /\ DOMAIN s[n] = Fields
  <2>1. FrameOK(prog, clock, s[n]) /\ CaughtIn(prog, s[n])
    BY <1>6 DEF StackOK, CaughtOK
  <2>2. QED
    BY <2>1, CodeIs DEF FrameOK, Nested
<1>10. /\ C \in pc..Len(c)
       /\ OpenAt(c, C + 1) = {m \in OpenAt(c, pc) : C < CatchOf(c, m)}
       /\ \A m \in OpenAt(c, pc) : CatchOf(c, m) \in pc..Len(c)
  BY <1>9, OpenCatch
<1>11. /\ pc \in 1..Len(c) /\ C + 1 \in 1..(Len(c) + 1) /\ C \in Nat /\ C + 1 - 1 = C
       /\ n \in 1..(Len(s) + 1)
       /\ \A m \in OpenAt(c, pc) : CatchOf(c, m) \in Nat
  <2> HIDE DEF c, pc, C
  <2>1. QED
    BY <1>6, <1>9, <1>10
<1>12. place.id = s[n].id /\ place.pc = C + 1
  BY <1>4, <1>8
<1>13. Moved(fr, s[n], C + 1) /\ fr.caught = s[n].caught \cup {C}
  <2> HIDE DEF C
  <2>1. QED
    BY <1>9 DEF Moved, Fields
<1> HIDE DEF c, pc, C
<1>14. stacks' = [stacks EXCEPT ![fib] = Cut(s, n, fr)] /\ mode' = mode
  <2> DEFINE on == [s[n] EXCEPT !.pc = C + 1]
  <2>1. Standing(place) /\ Unwound(place) = Cut(s, n, on)
    BY <1>6, <1>12, UnwoundIs DEF s, fib
  <2>2. on.pc = C + 1 /\ on.pc - 1 = C /\ fr = [on EXCEPT !.caught = @ \cup {C}]
    <3>1. on.pc = C + 1
      BY <1>9 DEF Fields
    <3>2. QED
      BY <1>11, <3>1
  <2> HIDE DEF on, fr
  <2>3. Append(Front(Cut(s, n, on)), fr) = Cut(s, n, fr) /\ Last(Cut(s, n, on)) = on
    BY <1>6, <1>11, CutAgain
  <2>4. Caught(Cut(s, n, on)) = Cut(s, n, fr)
    BY <2>2, <2>3 DEF Caught
  <2>5. QED
    BY <1>1, <2>1, <2>4
<1> HIDE DEF fr
<1>15. Fits(prog, clock', fib, s, n, fr)
  BY <1>1, <1>6, <1>11, <1>13, LikeFits DEF c
<1>16. CaughtIn(prog, fr)
  <2>1. fr.fn = s[n].fn /\ fr.pc = C + 1
    BY <1>13 DEF Moved
  <2>2. AfterIn(c) \/ CatchAt(c, C + 1) \subseteq CatchAt(c, pc) \cup {C}
    BY <1>9, <1>11 DEF CatchesNested, C
  <2>3. AfterIn(c) \/ CatchAt(c, pc) \subseteq s[n].caught
    BY <1>9 DEF CaughtIn, c, pc
  <2>4. QED
    BY <1>13, <2>1, <2>2, <2>3 DEF CaughtIn, c
<1>17. Goes(fib, n, fr)
  BY <1>1, <1>2, <1>5, <1>13, <1>14, <1>15, <1>16 DEF Goes, Moved, s
<1>18. TriesIn(prog, fib, fr) = {<<fib, s[n].id, CatchOf(c, m) + 1>> : m \in {x \in OpenAt(c, pc) : C < CatchOf(c, x)}}
  BY <1>10, <1>13 DEF TriesIn, Moved, c
<1> DEFINE B == TriesBelow(prog, fib, s, n) \cup TriesIn(prog, fib, fr)
           O == IF fib = Start THEN {} ELSE TriesOf(prog, Start, stacks[Start])
<1>19. TriesNow(prog, stacks', fib) = B \cup O
  BY <1>6, <1>11, <1>17, GoesTries, CutTries DEF s
<1>20. ASSUME NEW g \in B PROVE g \in TriesOf(prog, fib, s) /\ g # T
  <2>1. CASE g \in TriesBelow(prog, fib, s, n)
    <3>1. PICK m \in 1..(n - 1) : g \in TriesIn(prog, fib, s[m])
      BY <2>1 DEF TriesBelow
    <3>2. m \in 1..Len(s) /\ m < n
      BY <1>6, <3>1
    <3>3. s[m].id < s[n].id /\ s[m].id \in Nat
      BY <1>6, <3>2 DEF StackOK, FrameOK
    <3>4. g \in TriesOf(prog, fib, s)
      BY <3>1, <3>2 DEF TriesOf
    <3>5. g[2] = s[m].id /\ T[2] = s[n].id
      BY <1>8, <3>1 DEF TriesIn
    <3>6. QED
      BY <3>3, <3>4, <3>5
  <2>2. CASE g \in TriesIn(prog, fib, fr)
    <3>1. PICK m \in OpenAt(c, pc) : C < CatchOf(c, m) /\ g = <<fib, s[n].id, CatchOf(c, m) + 1>>
      BY <1>18, <2>2
    <3>2. g \in TriesIn(prog, fib, s[n])
      BY <3>1 DEF TriesIn, c, pc
    <3>3. g \in TriesOf(prog, fib, s)
      BY <3>2 DEF TriesOf
    <3>4. g[3] = CatchOf(c, m) + 1 /\ T[3] = C + 1
      BY <1>8, <3>1 DEF C
    <3>5. CatchOf(c, m) + 1 # C + 1
      BY <1>11, <3>1
    <3>6. QED
      BY <3>3, <3>4, <3>5
  <2>3. QED
    BY <2>1, <2>2
<1>21. ASSUME NEW g \in TriesOf(prog, fib, s), g # T, Inside(T, g) PROVE g \in B
  <2>1. PICK m \in 1..Len(s) : \E j \in OpenAt(prog[s[m].fn], s[m].pc) :
          g = <<fib, s[m].id, CatchOf(prog[s[m].fn], j) + 1>>
    BY DEF TriesOf, TriesIn
  <2>2. PICK j \in OpenAt(prog[s[m].fn], s[m].pc) : g = <<fib, s[m].id, CatchOf(prog[s[m].fn], j) + 1>>
    BY <2>1
  <2>3. s[m].id < s[n].id \/ (s[m].id = s[n].id /\ C + 1 < CatchOf(prog[s[m].fn], j) + 1)
    BY <1>8, <1>21, <2>2 DEF Inside, C
  <2>4. s[m].id \in Nat /\ s[n].id \in Nat /\ m \in Nat /\ n \in Nat
    BY <1>6 DEF StackOK, FrameOK
  <2>5. ~ n < m
    BY <1>6, <2>3, <2>4 DEF StackOK
  <2>6. CASE m = n
    <3>1. j \in OpenAt(c, pc) /\ C + 1 < CatchOf(c, j) + 1 /\ CatchOf(c, j) \in Nat
      BY <1>11, <2>2, <2>3, <2>4, <2>6 DEF c, pc
    <3>2. C < CatchOf(c, j)
      BY <1>11, <3>1
    <3>3. QED
      BY <1>18, <2>2, <2>6, <3>1, <3>2 DEF c
  <2>7. CASE m # n
    <3>1. m \in 1..(n - 1)
      BY <2>4, <2>5, <2>7
    <3>2. g \in TriesIn(prog, fib, s[m])
      BY <2>2 DEF TriesIn
    <3>3. QED
      BY <3>1, <3>2 DEF TriesBelow
  <2>8. QED
    BY <2>6, <2>7
<1>22. \A g \in O : g \in A /\ g # T
  <2>1. fib # Start => \A g \in TriesOf(prog, Start, stacks[Start]) : g[1] = Start
    BY <1>2, TriesAre
  <2>2. QED
    BY <1>4, <2>1 DEF A, TriesNow
<1>23. ASSUME NEW g \in A, g # T, g \notin TriesOf(prog, fib, s) PROVE g \in O
  <2>1. Inside(T, g)
    BY <1>3, <1>23
  <2>2. CASE fib = Start
    <3>1. g \in TriesOf(prog, fiber, stacks[fiber]) /\ fiber # Start
      BY <1>23, <2>2 DEF A, TriesNow, s
    <3>2. g[1] = fiber
      BY <1>2, <3>1, TriesAre
    <3>3. QED
      BY <1>4, <2>1, <2>2, <3>1, <3>2 DEF Inside
  <2>3. CASE fib # Start
    BY <1>5, <1>23, <2>3 DEF A, TriesNow, s
  <2>4. QED
    BY <2>2, <2>3
<1>24. TriesOf(prog, fib, s) \subseteq A
  BY <1>5 DEF A, TriesNow, s
<1> HIDE DEF B, O
<1>25. TriesNow(prog, stacks', fib) = A \ {T}
  BY <1>3, <1>19, <1>20, <1>21, <1>22, <1>23, <1>24
<1>26. Match(tries', depth', TriesNow(prog, stacks', fib))
  BY <1>1, <1>2, <1>25, PopMatch DEF T
<1>27. /\ GensOK(prog, clock', stacks', gens')
       /\ fib # Start => fib \in DOMAIN gens' /\ gens'[fib] = gens[fib]
  BY <1>1, <1>17, GrowOK DEF GensGrow
<1>28. QED
  BY <1>14, <1>17, <1>26, <1>27, GoesOK

-----------------------------------------------------------------------------
(* Generators.                                                             *)

LEMMA NatIs == \A n \in Nat : n # 0 /\ n # 1 => n > 1
  OBVIOUS

(* What runs on a generator's stack resumes none, and what yields is there.*)
LEMMA WhereIs ==
  ASSUME prog \in Programs, Nested, OneGenerator, RunOK
  PROVE  /\ Doing("GEN_NEXT") => fiber = Start
         /\ Doing("YIELD") => fiber # Start /\ Len(stacks[fiber]) = 1
<1> DEFINE s == stacks[fiber]
<1>1. /\ StackOK(prog, clock, fiber, s) /\ Len(s) \in Nat /\ Len(s) # 0
      /\ Top = s[Len(s)] /\ Code(Top) = prog[Top.fn] /\ Top.fn \in Fns
      /\ Len(Code(Top)) \in Nat
  BY TopIs
<1>2. Len(s) = 1 => Top.fn = Base(fiber)
  BY <1>1 DEF StackOK
<1>3. Len(s) > 1 => Top.fn = "f" /\ Waits(prog, s[1], "CALL") /\ s[1].fn = Base(fiber)
                    /\ FrameOK(prog, clock, s[1])
  <2>1. Len(s) > 1 => 1 \in 1..Len(s) /\ Len(s) \in 1..Len(s) /\ 1 < Len(s)
    BY <1>1
  <2>2. QED
    BY <1>1, <2>1 DEF StackOK
<1> HIDE DEF s
<1>4. ASSUME Doing("GEN_NEXT"), fiber # Start PROVE FALSE
  <2>1. Top.pc \in 1..Len(Code(Top)) /\ Code(Top)[Top.pc].op = "GEN_NEXT"
    BY <1>4, DoingIs
  <2>2. Top.fn = "main" \/ (Top.fn = "f" /\ \A j \in 1..Len(prog["g"]) : prog["g"][j].op # "CALL")
    BY <1>1, <2>1 DEF OneGenerator
  <2>3. Base(fiber) = "g"
    BY <1>4 DEF Base
  <2>4. Len(s) > 1
    <3>1. Len(s) # 1
      BY <1>2, <2>2, <2>3
    <3>2. QED
      BY <1>1, <3>1, NatIs
  <2>5. s[1].pc \in 1..Len(prog["g"]) /\ prog["g"][s[1].pc].op = "CALL"
    <3>1. s[1].pc \in 1..(Len(prog["g"]) + 1) /\ s[1].pc <= Len(prog["g"])
      BY <1>3, <2>3, <2>4 DEF Waits, FrameOK
    <3>2. Len(prog["g"]) \in Nat
      BY CodeIs DEF Fns
    <3>3. QED
      BY <1>3, <2>3, <2>4, <3>1, <3>2 DEF Waits
  <2>6. QED
    BY <1>3, <2>2, <2>4, <2>5
<1>5. ASSUME Doing("YIELD") PROVE fiber # Start /\ Len(s) = 1
  <2>1. Top.pc \in 1..Len(Code(Top)) /\ Code(Top)[Top.pc].op = "YIELD"
    BY <1>5, DoingIs
  <2>2. Top.fn = "g"
    BY <1>1, <2>1 DEF OneGenerator
  <2>3. Len(s) = 1
    <3>1. ~ Len(s) > 1
      BY <1>3, <2>2
    <3>2. QED
      BY <1>1, <3>1, NatIs
  <2>4. QED
    BY <1>2, <2>2, <2>3 DEF Base
<1>6. QED
  BY <1>4, <1>5 DEF s

(* A generator that is resumed: on a new stack, or behind its last yield.  *)
Resumed(h, fr) ==
  /\ h \in Nat /\ h # Start /\ h < clock + 1
  /\ FrameOK(prog, clock + 1, fr) /\ fr.fn = "g" /\ CaughtIn(prog, fr) /\ TriesIn(prog, h, fr) = {}
  /\ DOMAIN stacks' = DOMAIN stacks \cup {h} /\ stacks'[h] = Cut(<<>>, 1, fr)
  /\ \A x \in DOMAIN stacks : x # h => stacks'[x] = stacks[x]
  /\ gens[h].fresh \/ (h \in DOMAIN stacks /\ fr.id = stacks[h][1].id)

LEMMA EmptyIs == IsList(<<>>) /\ Len(<<>>) = 0 /\ DOMAIN <<>> = {}
<1>1. <<>> \in Seq({}) /\ Len(<<>>) = 0 /\ DOMAIN <<>> = {}
  BY EmptySeq
<1>2. Range(<<>>) = {}
  BY <1>1 DEF Range
<1>3. QED
  BY <1>1, <1>2 DEF IsList

(* A stack of one frame.                                                   *)
LEMMA OneIs ==
  ASSUME NEW fr
  PROVE  IsList(Cut(<<>>, 1, fr)) /\ Len(Cut(<<>>, 1, fr)) = 1 /\ Cut(<<>>, 1, fr)[1] = fr
<1>1. \A s : IsList(s) /\ Len(s) = 0 => IsList(Cut(s, 1, fr)) /\ Len(Cut(s, 1, fr)) = 1 /\ Cut(s, 1, fr)[1] = fr
  <2>1. SUFFICES ASSUME NEW s, IsList(s), Len(s) = 0
                 PROVE  IsList(Cut(s, 1, fr)) /\ Len(Cut(s, 1, fr)) = 1 /\ Cut(s, 1, fr)[1] = fr
    OBVIOUS
  <2>2. 1 \in 1..(Len(s) + 1)
    BY <2>1
  <2>3. QED
    BY <2>1, <2>2, CutIs
<1>2. QED
  BY <1>1, EmptyIs

(* The last frame cut off and another in its place is a stack of one.      *)
LEMMA BaseCut ==
  ASSUME NEW s, IsList(s), Len(s) # 0, NEW fr
  PROVE  Cut(s, 1, fr) = Cut(<<>>, 1, fr)
<1>1. Len(s) \in Nat
  BY ListIs
<1>2. SubSeq(s, 1, 0) = <<>> /\ SubSeq(<<>>, 1, 0) = <<>>
  <2>1. s \in Seq(Range(s)) /\ <<>> \in Seq({})
    BY DEF IsList
  <2>2. QED
    BY <2>1
<1>3. QED
  BY <1>2 DEF Cut

LEMMA ResumedOK ==
  ASSUME prog \in Programs, Nested, RunOK, fiber = Start, Doing("GEN_NEXT"),
         NEW h \in DOMAIN gens, NEW fr, Resumed(h, fr), gens' = ResumedBy(h),
         fiber' = h, genCur' = h, clock' = clock + 1, prog' = prog, tries' = tries, depth' = depth
  PROVE  RunOK'
<1> DEFINE u == Cut(<<>>, 1, fr)
<1>1. /\ clock \in Nat /\ Start \in DOMAIN stacks /\ Waits(prog, Top, "GEN_NEXT")
      /\ Top = stacks[Start][Len(stacks[Start])]
      /\ StacksOK(prog, clock, stacks)
  BY TopIs, DoingIs DEF RunOK
<1>2. IsList(u) /\ Len(u) = 1 /\ u[1] = fr
  BY OneIs
<1> HIDE DEF u
<1>3. /\ h \in Nat /\ h # Start /\ h < clock + 1
      /\ FrameOK(prog, clock + 1, fr) /\ fr.fn = "g" /\ CaughtIn(prog, fr) /\ TriesIn(prog, h, fr) = {}
      /\ DOMAIN stacks' = DOMAIN stacks \cup {h} /\ stacks'[h] = u
      /\ \A x \in DOMAIN stacks : x # h => stacks'[x] = stacks[x]
      /\ gens[h].fresh \/ (h \in DOMAIN stacks /\ fr.id = stacks[h][1].id)
  BY DEF Resumed, u
<1>4. stacks'[Start] = stacks[Start]
  BY <1>1, <1>3
<1>5. StackOK(prog, clock + 1, h, u)
  BY <1>2, <1>3 DEF StackOK, Base
<1>6. StacksOK(prog, clock + 1, stacks')
  <2>1. ASSUME NEW x \in DOMAIN stacks' PROVE x \in Nat /\ x < clock + 1 /\ StackOK(prog, clock + 1, x, stacks'[x])
    <3>1. CASE x = h
      BY <1>3, <1>5, <3>1
    <3>2. CASE x # h
      <4>1. x \in DOMAIN stacks /\ stacks'[x] = stacks[x]
        BY <1>3, <3>2
      <4>2. x \in Nat /\ x < clock /\ StackOK(prog, clock, x, stacks[x])
        BY <1>1, <4>1 DEF StacksOK
      <4>3. clock + 1 \in Nat /\ clock <= clock + 1 /\ x < clock + 1
        BY <1>1, <4>2
      <4>4. QED
        BY <1>1, <4>1, <4>2, <4>3, Later
    <3>3. QED
      BY <3>1, <3>2
  <2>2. clock + 1 \in Nat \ {0}
    BY <1>1
  <2>3. QED
    BY <1>1, <1>3, <2>1, <2>2 DEF StacksOK
<1>7. /\ DOMAIN gens' = DOMAIN gens /\ \A x \in DOMAIN gens : x # h => gens'[x] = gens[x]
      /\ DOMAIN gens[h] = Block
      /\ gens'[h] = [gens[h] EXCEPT !.caller = Place(Top.pc)]
  BY DEF ResumedBy, RunOK, GensOK
<1>8. /\ DOMAIN gens'[h] = Block /\ gens'[h].fresh = gens[h].fresh /\ gens'[h].done = gens[h].done
      /\ gens'[h].gen = gens[h].gen /\ gens'[h].caller = Place(Top.pc)
  BY <1>7 DEF Block
<1>9. GensOK(prog, clock + 1, stacks', gens')
  <2>1. SUFFICES ASSUME NEW x \in DOMAIN gens
                 PROVE  /\ x \in Nat /\ 0 < x /\ x < clock + 1 /\ DOMAIN gens'[x] = Block
                        /\ gens'[x].fresh \/ gens'[x].done \/ Suspended(prog, stacks', x, gens'[x])
    BY <1>7 DEF GensOK
  <2>2. /\ x \in Nat /\ 0 < x /\ x < clock /\ DOMAIN gens[x] = Block
        /\ gens[x].fresh \/ gens[x].done \/ Suspended(prog, stacks, x, gens[x])
    BY DEF RunOK, GensOK
  <2>3. x < clock + 1
    BY <1>1, <2>2
  <2>4. CASE x = h
    <3>1. Suspended(prog, stacks, h, gens[h]) /\ ~ gens[h].fresh => Suspended(prog, stacks', h, gens'[h])
      BY <1>2, <1>3, <1>8 DEF Suspended
    <3>2. QED
      BY <1>8, <2>2, <2>3, <2>4, <3>1
  <2>5. CASE x # h
    <3>1. Suspended(prog, stacks, x, gens[x]) => Suspended(prog, stacks', x, gens'[x])
      BY <1>3, <1>7, <2>5 DEF Suspended
    <3>2. QED
      BY <1>7, <2>2, <2>3, <2>5, <3>1
  <2>6. QED
    BY <2>4, <2>5
<1>10. AwayOK(prog, stacks', h, gens', h)
  <2>1. Last(stacks'[Start]) = Top
    BY <1>4 DEF Top
  <2>2. Place(Top.pc).fiber = Start /\ Place(Top.pc).id = Top.id /\ Place(Top.pc).pc = Top.pc
    BY DEF Place
  <2>3. QED
    BY <1>1, <1>3, <1>7, <1>8, <2>1, <2>2 DEF AwayOK
<1>11. TriesNow(prog, stacks', h) = TriesNow(prog, stacks, fiber)
  <2>1. TriesOf(prog, h, u) = {}
    BY <1>2, <1>3 DEF TriesOf
  <2>2. QED
    BY <1>3, <1>4, <2>1 DEF TriesNow
<1>12. CaughtOK(prog, u)
  BY <1>2, <1>3 DEF CaughtOK
<1>13. Match(tries, depth, TriesNow(prog, stacks, fiber)) /\ CaughtOK(prog, stacks[Start])
  BY DEF RunOK
<1>14. QED
  BY <1>3, <1>4, <1>6, <1>9, <1>10, <1>11, <1>12, <1>13 DEF RunOK

LEMMA GenNextOK ==
  ASSUME prog \in Programs, Nested, OneGenerator, RunOK, ~LeavesTry, GenNext PROVE RunOK'
<1> DEFINE h == Handle
<1>1. Doing("GEN_NEXT") /\ fiber = Start /\ clock \in Nat
  BY WhereIs, TopIs DEF GenNext
<1>2. /\ h \in DOMAIN gens /\ ~ gens[h].done /\ gens' = ResumedBy(h)
      /\ fiber' = h /\ genCur' = h /\ clock' = clock + 1 /\ prog' = prog /\ tries' = tries /\ depth' = depth
      /\ IF gens[h].fresh THEN stacks' = With(stacks, h, <<Entered("g", regs')>>)
                          ELSE stacks' = [stacks EXCEPT ![h] = Unwound(gens[h].gen)]
  BY DEF GenNext, Tick, compiled
<1> HIDE DEF h
<1>3. /\ h \in Nat /\ h # Start /\ h < clock + 1
      /\ gens[h].fresh \/ Suspended(prog, stacks, h, gens[h])
  <2>1. /\ h \in Nat /\ 0 < h /\ h < clock
        /\ gens[h].fresh \/ gens[h].done \/ Suspended(prog, stacks, h, gens[h])
    BY <1>2 DEF RunOK, GensOK
  <2>2. QED
    BY <1>1, <1>2, <2>1 DEF Start
<1>4. CASE gens[h].fresh
  <2> DEFINE fr == Entered("g", regs')
  <2>1. stacks' = With(stacks, h, <<fr>>)
    BY <1>2, <1>4
  <2>2. /\ FrameOK(prog, clock + 1, fr) /\ CaughtIn(prog, fr) /\ TriesIn(prog, h, fr) = {} /\ fr.fn = "g"
    BY <1>1, EnteredOK DEF Fns
  <2> HIDE DEF fr
  <2>3. <<fr>> = Cut(<<>>, 1, fr)
    <3>1. SubSeq(<<>>, 1, 1 - 1) = <<>>
      <4>1. <<>> \in Seq({})
        OBVIOUS
      <4>2. QED
        BY <4>1
    <3>2. Append(<<>>, fr) = <<fr>>
      OBVIOUS
    <3>3. QED
      BY <3>1, <3>2 DEF Cut
  <2>4. Resumed(h, fr)
    BY <1>3, <1>4, <2>1, <2>2, <2>3 DEF Resumed, With
  <2>5. QED
    BY <1>1, <1>2, <2>4, ResumedOK
<1>5. CASE ~ gens[h].fresh
  <2> DEFINE place == gens[h].gen
             s == stacks[h]
             fr == [s[1] EXCEPT !.pc = place.pc]
             c == prog["g"]
  <2>1. /\ Suspended(prog, stacks, h, gens[h]) /\ h \in DOMAIN stacks
        /\ place.fiber = h /\ place.id = s[1].id
    BY <1>3, <1>5 DEF Suspended
  <2>2. PICK i \in 1..Len(c) : c[i].op = "YIELD" /\ place.pc = i + 1
    BY <2>1 DEF Suspended
  <2>3. StackOK(prog, clock, h, s) /\ IsList(s) /\ Len(s) \in Nat /\ Len(s) # 0
    BY <2>1, ListIs DEF RunOK, StacksOK, StackOK
  <2>4. 1 \in 1..Len(s) /\ 1 \in 1..(Len(s) + 1)
    BY <2>3
  <2>5. s[1].fn = "g" /\ FrameOK(prog, clock, s[1])
    BY <1>3, <2>3, <2>4 DEF StackOK, Base
  <2>6. Unwound(place) = Cut(s, 1, fr)
    BY <2>1, <2>3, <2>4, UnwoundIs
  <2>7. /\ DOMAIN fr = Fields /\ fr.fn = "g" /\ fr.id = s[1].id /\ fr.pc = i + 1
        /\ s[1].id \in Nat /\ s[1].id < clock
    BY <2>2, <2>5 DEF FrameOK, Fields
  <2>8. /\ Len(c) \in Nat /\ TriesNested(c) /\ (AfterIn(c) \/ CatchesNested(c))
    BY CodeIs DEF Nested, Fns
  <2> HIDE DEF place, s, fr, c
  <2>9. FrameOK(prog, clock + 1, fr)
    <3>1. i + 1 \in 1..(Len(c) + 1) /\ s[1].id < clock + 1
      BY <1>1, <2>7, <2>8
    <3>2. QED
      BY <2>7, <3>1 DEF FrameOK, Fns, c
  <2>10. OpenAt(c, i + 1) = {}
    BY <2>2, <2>8, LeavesNone DEF c, Fns
  <2>11. AfterIn(c) \/ CatchAt(c, i + 1) = {}
    <3>1. CatchAt(c, i) = {}
      BY <2>2 DEF OneGenerator, c, Fns
    <3>2. QED
      BY <2>2, <2>8, <3>1, CatchNext
  <2>12. TriesIn(prog, h, fr) = {} /\ CaughtIn(prog, fr)
    BY <2>7, <2>10, <2>11 DEF TriesIn, CaughtIn, c
  <2>13. stacks' = [stacks EXCEPT ![h] = Cut(<<>>, 1, fr)]
    BY <1>2, <1>5, <2>3, <2>6, BaseCut DEF place, s
  <2>14. Resumed(h, fr)
    BY <1>3, <2>1, <2>7, <2>9, <2>12, <2>13 DEF Resumed, s
  <2>15. QED
    BY <1>1, <1>2, <2>14, ResumedOK
<1>6. QED
  BY <1>4, <1>5

(* Who leaves a generator goes back to the frame that resumed it.          *)
LEMMA SwapBackOK ==
  ASSUME prog \in Programs, Nested, RunOK, ~LeavesTry, NEW v, NEW done, SwapBack(v, done),
         fiber # Start, Len(stacks[fiber]) = 1, Returning \/ Doing("YIELD"), done \/ Doing("YIELD")
  PROVE  RunOK' /\ mode' = mode
<1> DEFINE home == gens[genCur].caller
           s == stacks[Start]
           L == Len(s)
           old == s[L]
           same == [old EXCEPT !.pc = home.pc]
           fr == Stepped(same, v, v)
           new == [gens[fiber] EXCEPT !.value = v, !.done = done, !.fresh = FALSE, !.gen = Place(Top.pc + 1)]
<1>1. /\ StackOK(prog, clock, fiber, stacks[fiber]) /\ IsList(stacks[fiber])
      /\ Top = stacks[fiber][1] /\ Code(Top) = prog[Top.fn]
      /\ clock \in Nat /\ fiber \in DOMAIN stacks /\ Start \in DOMAIN stacks
  BY TopIs
<1>2. StackOK(prog, clock, Start, s) /\ IsList(s) /\ L \in Nat /\ L # 0 /\ Last(s) = old /\ L \in 1..L
  <2>1. StackOK(prog, clock, Start, s)
    BY <1>1 DEF RunOK, StacksOK
  <2>2. IsList(s) /\ L \in Nat /\ L # 0
    BY <2>1, ListIs DEF StackOK
  <2>3. QED
    BY <2>1, <2>2, CutsAre
<1>3. /\ genCur = fiber /\ fiber \in DOMAIN gens /\ home.fiber = Start
      /\ Waits(prog, old, "GEN_NEXT") /\ home.id = old.id /\ home.pc = old.pc
  BY <1>2 DEF RunOK, AwayOK
<1>4. FrameOK(prog, clock, old) /\ DOMAIN old = Fields /\ CaughtIn(prog, old)
  BY <1>2 DEF StackOK, FrameOK, RunOK, CaughtOK
<1>5. Like(fr, old, old.pc + 1)
  <2>1. Like(same, old, old.pc) /\ DOMAIN same = Fields
    BY <1>3, <1>4, MovedIs DEF Like, Moved
  <2> HIDE DEF same
  <2>2. Like(Stepped(same, v, v), same, same.pc + 1)
    BY <2>1, SteppedIs
  <2>3. QED
    BY <2>1, <2>2 DEF Like, Moved
<1>6. /\ old.pc + 1 \in 1..(Len(prog[old.fn]) + 1)
      /\ TriesIn(prog, Start, fr) = TriesIn(prog, Start, old) /\ CaughtIn(prog, fr)
  <2> HIDE DEF fr, old
  <2>1. QED
    BY <1>3, <1>4, <1>5, WaitsIs
<1>7. /\ gens' = [gens EXCEPT ![fiber] = new] /\ fiber' = Start /\ genCur' = genCur
      /\ prog' = prog /\ tries' = tries /\ depth' = depth /\ clock' = clock
  BY <1>3 DEF SwapBack, compiled
<1>8. stacks' = [stacks EXCEPT ![Start] = Cut(s, L, fr)] /\ mode' = mode
  <2>1. Standing(home) /\ Unwound(home) = Cut(s, L, same)
    BY <1>2, <1>3, UnwoundIs
  <2>2. Last(Unwound(home)) = same /\ Append(Front(Unwound(home)), fr) = Cut(s, L, fr)
    <3>1. L \in 1..(L + 1)
      BY <1>2
    <3> HIDE DEF fr, same
    <3>2. Append(Front(Cut(s, L, same)), fr) = Cut(s, L, fr) /\ Last(Cut(s, L, same)) = same
      BY <1>2, <3>1, CutAgain
    <3>3. QED
      BY <2>1, <3>2
  <2> HIDE DEF same
  <2>3. QED
    BY <1>3, <2>1, <2>2 DEF SwapBack
<1>9. DOMAIN gens[fiber] = Block /\ fiber \in Nat /\ 0 < fiber /\ fiber < clock
  BY <1>3 DEF RunOK, GensOK
<1>10. DOMAIN new = Block /\ new.done = done /\ new.gen = Place(Top.pc + 1)
  BY <1>9 DEF Block
<1> HIDE DEF home, fr, new, L, same
<1>11. Fits(prog, clock', Start, s, L, fr)
  BY <1>2, <1>5, <1>6, <1>7, LikeFits DEF Like, L
<1>12. Goes(Start, L, fr)
  BY <1>1, <1>2, <1>5, <1>6, <1>7, <1>8, <1>11 DEF Goes, Like, Moved
<1>13. GensOK(prog, clock', stacks', gens')
  <2>1. /\ stacks'[fiber] = stacks[fiber] /\ DOMAIN stacks' = DOMAIN stacks
        /\ \A x \in DOMAIN stacks : stacks'[x][1].id = stacks[x][1].id
    BY <1>1, <1>8, <1>12, GoesIs
  <2>2. SUFFICES ASSUME NEW x \in DOMAIN gens
                 PROVE  /\ x \in Nat /\ 0 < x /\ x < clock /\ DOMAIN gens'[x] = Block
                        /\ gens'[x].fresh \/ gens'[x].done \/ Suspended(prog, stacks', x, gens'[x])
    BY <1>7 DEF GensOK
  <2>3. /\ x \in Nat /\ 0 < x /\ x < clock /\ DOMAIN gens[x] = Block
        /\ gens[x].fresh \/ gens[x].done \/ Suspended(prog, stacks, x, gens[x])
    BY DEF RunOK, GensOK
  <2>4. CASE x # fiber
    <3>1. Suspended(prog, stacks, x, gens[x]) => Suspended(prog, stacks', x, gens[x])
      BY <2>1 DEF Suspended
    <3>2. QED
      BY <1>7, <2>3, <2>4, <3>1
  <2>5. CASE x = fiber
    <3>1. gens'[x] = new
      BY <1>3, <1>7, <2>5
    <3>2. ASSUME Doing("YIELD") PROVE Suspended(prog, stacks', fiber, new)
      <4>1. Top.pc \in 1..Len(Code(Top)) /\ Code(Top)[Top.pc].op = "YIELD"
        BY <3>2, DoingIs
      <4>2. Top.fn = "g"
        BY <1>1 DEF StackOK, Base
      <4>3. Top.pc \in 1..Len(prog["g"]) /\ prog["g"][Top.pc].op = "YIELD"
        BY <1>1, <4>1, <4>2
      <4>4. new.gen.fiber = fiber /\ new.gen.id = Top.id /\ new.gen.pc = Top.pc + 1
        BY <1>10 DEF Place
      <4>5. QED
        BY <1>1, <2>1, <4>3, <4>4 DEF Suspended
    <3>3. QED
      BY <1>10, <2>3, <2>5, <3>1, <3>2
  <2>6. QED
    BY <2>4, <2>5
<1>14. TriesNow(prog, stacks', Start) = TriesNow(prog, stacks, fiber)
  <2>1. TriesOf(prog, Start, Cut(s, L, fr)) = TriesOf(prog, Start, s)
    BY <1>2, <1>6, SameTries DEF L
  <2>2. TriesNow(prog, stacks', Start) = TriesOf(prog, Start, s)
    BY <1>12, <2>1, GoesTries
  <2>3. TriesIn(prog, fiber, Top) = {}
    BY ReturnsNone
  <2>4. TriesOf(prog, fiber, stacks[fiber]) = {}
    <3>1. 1..1 = {1}
      OBVIOUS
    <3>2. QED
      BY <1>1, <2>3, <3>1 DEF TriesOf
  <2>5. QED
    BY <2>2, <2>4 DEF TriesNow
<1>15. Match(tries', depth', TriesNow(prog, stacks', Start))
  BY <1>7, <1>14 DEF RunOK
<1>16. QED
  BY <1>8, <1>12, <1>13, <1>15, GoesOK

LEMMA LeaveOK ==
  ASSUME prog \in Programs, Nested, OneGenerator, RunOK, ~LeavesTry, Yield \/ GenReturn
  PROVE  RunOK' /\ mode' = mode
<1>1. CASE Yield
  <2>1. Doing("YIELD") /\ fiber # Start /\ Len(stacks[fiber]) = 1
    BY <1>1, WhereIs DEF Yield
  <2>2. QED
    BY <1>1, <2>1, SwapBackOK DEF Yield
<1>2. CASE GenReturn
  BY <1>2, SwapBackOK DEF GenReturn
<1>3. QED
  BY <1>1, <1>2

-----------------------------------------------------------------------------
(* The whole program.                                                      *)

(* A program does not change, nor does whether it leaves a try half way.   *)
LEMMA ProgStays ==
  ASSUME [Next]_vars PROVE prog' = prog /\ LeavesTry' = LeavesTry
<1>1. SUFFICES prog' = prog
  BY DEF LeavesTry, Anywhere
<1>2. CASE PlaceTemps \/ FinishFunction \/ StartProgram
  BY <1>2 DEF PlaceTemps, FinishFunction, StartProgram, compiled
<1>3. CASE Make \/ Range_ \/ Construct \/ Label \/ JumpTo \/ GoOn \/ Call \/ Return \/ Halt
  BY <1>3 DEF Make, Range_, Construct, Scratch, Label, JumpTo, GoOn, Call, Return, Halt, Stop, compiled
<1>4. CASE LockBegin \/ LockEnd \/ TryBegin \/ CatchBegin \/ TryEnd \/ Divide \/ Trap
  BY <1>4 DEF LockBegin, LockEnd, TryBegin, CatchBegin, TryEnd, Divide, Trap, Stop, compiled
<1>5. CASE GenCreate \/ GenSkip \/ GenNext \/ GenCrash \/ Yield \/ GenReturn
  BY <1>5 DEF GenCreate, GenSkip, GenNext, GenCrash, Yield, GenReturn, SwapBack, Stop, compiled
<1>6. CASE UNCHANGED vars
  BY <1>6 DEF vars, compiled
<1>7. QED
  BY <1>2, <1>3, <1>4, <1>5, <1>6 DEF Next

(* A program starts in its main function, in no try.                       *)
LEMMA StartOK ==
  ASSUME prog \in Programs, Nested, StartProgram, gens = <<>>, depth = 0, clock = 1, fiber = Start
  PROVE  RunOK'
<1> DEFINE fr == Entered("main", regs)
<1>1. /\ stacks' = [h \in {Start} |-> <<fr>>] /\ clock' = 2 /\ prog' = prog
      /\ fiber' = Start /\ gens' = <<>> /\ depth' = 0 /\ tries' = tries
  BY DEF StartProgram, Tick, compiled
<1>2. /\ FrameOK(prog, 2, fr) /\ CaughtIn(prog, fr) /\ TriesIn(prog, Start, fr) = {} /\ fr.fn = "main"
  <2>1. "main" \in Fns /\ clock \in Nat /\ clock + 1 = 2
    BY DEF Fns
  <2>2. QED
    BY <2>1, EnteredOK
<1> HIDE DEF fr
<1>3. /\ DOMAIN stacks' = {Start} /\ IsList(stacks'[Start])
      /\ Len(stacks'[Start]) = 1 /\ stacks'[Start][1] = fr
  <2>1. <<fr>> = Cut(<<>>, 1, fr)
    <3>1. SubSeq(<<>>, 1, 1 - 1) = <<>>
      <4>1. <<>> \in Seq({})
        OBVIOUS
      <4>2. QED
        BY <4>1
    <3>2. Append(<<>>, fr) = <<fr>>
      OBVIOUS
    <3>3. QED
      BY <3>1, <3>2 DEF Cut
  <2>2. QED
    BY <1>1, <2>1, OneIs
<1>4. StackOK(prog, 2, Start, stacks'[Start])
  <2> DEFINE s == stacks'[Start]
  <2>1. IsList(s) /\ Len(s) = 1 /\ s[1] = fr
    BY <1>3
  <2> HIDE DEF s
  <2>2. StackOK(prog, 2, Start, s)
    BY <1>2, <2>1 DEF StackOK, Base
  <2>3. QED
    BY <2>2 DEF s
<1>5. StacksOK(prog, 2, stacks')
  BY <1>3, <1>4 DEF StacksOK, Start
<1>6. TriesOf(prog, Start, stacks'[Start]) = {}
  BY <1>2, <1>3 DEF TriesOf
<1>7. Match(tries, 0, TriesNow(prog, stacks', Start))
  BY <1>6 DEF TriesNow, Match
<1>8. CaughtOK(prog, stacks'[Start])
  BY <1>2, <1>3 DEF CaughtOK
<1>9. GensOK(prog, 2, stacks', gens')
  <2>1. DOMAIN gens' = {}
    BY <1>1, EmptyIs
  <2>2. QED
    BY <2>1 DEF GensOK
<1>10. AwayOK(prog, stacks', Start, gens', genCur')
  BY <1>3 DEF AwayOK
<1>11. QED
  BY <1>1, <1>5, <1>7, <1>8, <1>9, <1>10 DEF RunOK

(* Every step of a program keeps its stacks and handlers, and none leaves  *)
(* it without a frame to go on in.                                         *)
LEMMA RunStep ==
  ASSUME prog \in Programs, Nested, OneGenerator, RunOK, ~LeavesTry, mode = "run", Next
  PROVE  mode' # "lost" /\ (mode' = "run" => RunOK')
<1>1. CASE PlaceTemps \/ FinishFunction \/ StartProgram
  BY <1>1 DEF PlaceTemps, FinishFunction, StartProgram
<1>2. CASE Make \/ Range_ \/ Construct \/ Divide
  BY <1>2, MakeOK DEF Make, Range_, Construct, Divide, Scratch
<1>3. CASE Label \/ GoOn \/ LockEnd \/ TryEnd \/ LockBegin
  BY <1>3, PassOK DEF Label, GoOn, LockEnd, TryEnd, LockBegin, Stop
<1>4. CASE JumpTo
  BY <1>4, JumpOK DEF JumpTo
<1>5. CASE Call
  BY <1>5, CallOK DEF Call
<1>6. CASE Return
  BY <1>6, ReturnOK DEF Return
<1>7. CASE TryBegin
  BY <1>7, TryBeginOK DEF TryBegin, Stop
<1>8. CASE CatchBegin
  BY <1>8, CatchBeginOK DEF CatchBegin
<1>9. CASE Trap
  BY <1>9, TrapOK
<1>10. CASE GenCreate
  BY <1>10, GenCreateOK DEF GenCreate
<1>11. CASE GenSkip
  BY <1>11, GenSkipOK DEF GenSkip
<1>12. CASE GenNext
  BY <1>12, GenNextOK DEF GenNext
<1>13. CASE Yield \/ GenReturn
  BY <1>13, LeaveOK
<1>14. CASE Halt \/ GenCrash
  BY <1>14 DEF Halt, GenCrash, Stop
<1>15. QED
  BY <1>1, <1>2, <1>3, <1>4, <1>5, <1>6, <1>7, <1>8, <1>9, <1>10, <1>11, <1>12, <1>13, <1>14 DEF Next

LEMMA StepHInv == ASSUME Nested, OneGenerator, HInv, [Next]_vars PROVE HInv'
<1>1. prog \in Programs /\ prog' \in Programs /\ LeavesTry' = LeavesTry
  BY ProgStays DEF HInv
<1>2. CASE UNCHANGED vars
  BY <1>1, <1>2 DEF HInv, RunOK, vars, machine, compiled
<1>3. CASE Next /\ mode = "compile"
  <2>1. /\ stacks = [h \in {Start} |-> <<>>] /\ fiber = Start /\ gens = <<>>
        /\ depth = 0 /\ clock = 1
    BY <1>3 DEF HInv
  <2>2. CASE PlaceTemps \/ FinishFunction
    BY <1>1, <1>3, <2>1, <2>2 DEF PlaceTemps, FinishFunction, machine, HInv
  <2>3. CASE StartProgram
    <3>1. mode' = "run" /\ RunOK'
      BY <1>1, <2>1, <2>3, StartOK DEF StartProgram
    <3>2. QED
      BY <1>1, <3>1 DEF HInv
  <2>4. CASE ~ (PlaceTemps \/ FinishFunction \/ StartProgram)
    BY <1>3, <2>4 DEF Next, Make, Range_, Construct, Scratch, Label, JumpTo, GoOn, Call, Return, Halt,
      LockBegin, LockEnd, TryBegin, CatchBegin, TryEnd, Divide, Trap, GenCreate, GenSkip, GenNext,
      GenCrash, Yield, GenReturn, Doing, Returning
  <2>5. QED
    BY <2>2, <2>3, <2>4
<1>4. CASE Next /\ mode # "compile"
  <2>1. mode' # "compile"
    BY <1>4 DEF Next, PlaceTemps, FinishFunction, StartProgram, Make, Range_, Construct, Scratch, Label,
      JumpTo, GoOn, Call, Return, Halt, LockBegin, LockEnd, TryBegin, CatchBegin, TryEnd, Divide, Trap,
      GenCreate, GenSkip, GenNext, GenCrash, Yield, GenReturn, SwapBack, Stop
  <2>2. mode = "run"
    BY <1>4 DEF Next, PlaceTemps, FinishFunction, StartProgram, Make, Range_, Construct, Scratch, Label,
      JumpTo, GoOn, Call, Return, Halt, LockBegin, LockEnd, TryBegin, CatchBegin, TryEnd, Divide, Trap,
      GenCreate, GenSkip, GenNext, GenCrash, Yield, GenReturn, Doing, Returning
  <2>3. ~LeavesTry' => mode' # "lost" /\ (mode' = "run" => RunOK')
    BY <1>1, <1>4, <2>2, RunStep DEF HInv
  <2>4. QED
    BY <1>1, <2>1, <2>3 DEF HInv
<1>5. QED
  BY <1>2, <1>3, <1>4

LEMMA InitHInv == ASSUME CompileInit PROVE HInv
  BY DEF CompileInit, HInv

(* What the handlers are, in the model's words.                            *)
LEMMA LiveIs == ASSUME prog \in Programs, Nested, RunOK, mode = "run" PROVE HandlersLive
<1>1. /\ IsList(stacks[Start]) /\ IsList(stacks[fiber])
  BY DEF RunOK, StacksOK, AwayOK, StackOK
<1>2. ASSUME NEW fib, IsList(stacks[fib]) PROVE HandlersOf(fib) = TriesOf(prog, fib, stacks[fib])
  <2>1. ToSet(stacks[fib]) = {stacks[fib][n] : n \in 1..Len(stacks[fib])}
    BY <1>2, ListIs DEF ToSet, Range
  <2>2. \A fr : HandlersIn(fib, fr) = TriesIn(prog, fib, fr)
    BY DEF HandlersIn, TriesIn, Code
  <2>3. QED
    BY <2>1, <2>2 DEF HandlersOf, TriesOf
<1>3. OpenNow = TriesNow(prog, stacks, fiber)
  BY <1>1, <1>2 DEF OpenNow, TriesNow
<1>4. \A i : Installed(i) = Handler(tries, i)
  BY DEF Installed, Handler
<1>5. Match(tries, depth, TriesNow(prog, stacks, fiber))
  BY DEF RunOK
<1>6. AfterInCatch \/ \A k \in 1..Len(Code(Top)) : InCatch(Code(Top), k, Top.pc) => k \in Top.caught
  <2>1. CaughtIn(prog, Top) /\ Top.fn \in Fns /\ Code(Top) = prog[Top.fn]
    BY TopIs
  <2>2. AfterIn(prog[Top.fn]) => AfterInCatch
    BY <2>1, CodeIs DEF AfterInCatch
  <2>3. QED
    BY <2>1, <2>2 DEF CaughtIn, CatchAt
<1>7. /\ {Installed(i) : i \in 0..(depth - 1)} = OpenNow
      /\ \A i, j \in 0..(depth - 1) : i < j => Inside(Installed(j), Installed(i))
  BY <1>3, <1>4, <1>5 DEF Match
<1>8. QED
  BY <1>6, <1>7 DEF HandlersLive

(* The block of handlers always has those of the try clauses that the      *)
(* program is in, inner ones last, and nothing runs a catch clause but an  *)
(* exception: for all programs whose clauses are nested, of any size.      *)
THEOREM HandlersAsOpen == ASSUME Nested, OneGenerator PROVE Spec => []HandlersLive
<1>1. CompileInit => HInv
  BY InitHInv
<1>2. HInv /\ [Next]_vars => HInv'
  BY StepHInv
<1>3. HInv => HandlersLive
  <2>1. SUFFICES ASSUME HInv, Running, ~LeavesTry PROVE HandlersLive
    BY DEF HandlersLive
  <2>2. QED
    BY <2>1, LiveIs DEF HInv, Running
<1>4. QED
  BY <1>1, <1>2, <1>3, PTL DEF Spec

(* While a generator runs, __ac_gen_cur is its block, and the block leads  *)
(* back to the GEN_NEXT at which the program waits: SwapsHome, but that    *)
(* this GEN_NEXT names this generator is what UsesFind says of its operand.*)
LeadsHome ==
  Running /\ ~LeavesTry /\ fiber # Start =>
    /\ genCur = fiber
    /\ gens[fiber].caller.fiber = Start
    /\ LET fr == Last(stacks[Start])
       IN /\ At(fr).op = "GEN_NEXT"
          /\ <<gens[fiber].caller.id, gens[fiber].caller.pc>> = <<fr.id, fr.pc>>

(* A generator that runs can always go back to who resumed it: with any    *)
(* number of generators, calls and exceptions between the swaps.           *)
THEOREM LeadsHomeAlways == ASSUME Nested, OneGenerator PROVE Spec => []LeadsHome
<1>1. CompileInit => HInv
  BY InitHInv
<1>2. HInv /\ [Next]_vars => HInv'
  BY StepHInv
<1>3. HInv => LeadsHome
  BY DEF HInv, LeadsHome, Running, RunOK, AwayOK, Waits, At, Code
<1>4. QED
  BY <1>1, <1>2, <1>3, PTL DEF Spec

(* No exception, and no switch of stacks, goes to a frame that has been    *)
(* left, in a program that neither returns nor yields from inside a try.   *)
THEOREM NeverLost == ASSUME Nested, OneGenerator PROVE Spec => [](mode = "lost" => LeavesTry)
<1>1. CompileInit => HInv
  BY InitHInv
<1>2. HInv /\ [Next]_vars => HInv'
  BY StepHInv
<1>3. HInv => (mode = "lost" => LeavesTry)
  BY DEF HInv
<1>4. QED
  BY <1>1, <1>2, <1>3, PTL DEF Spec

-----------------------------------------------------------------------------
(* What the temporaries of a running program hold.                         *)

(* The places of a function that count on t, when it is assigned in time.  *)
Needs(c, t) == CHOOSE P \in SUBSET (1..(Len(c) + 1)) : AssignedAt(c, t, P)

(* Exposed, of a program and what the compiler made of it.                 *)
Scratches(p, ins) ==
  \/ ins.op \in {"RANGE", "CONSTRUCT"}
  \/ ins.op = "CALL" /\ \E i \in 1..Len(p[ins.lab]) : p[ins.lab][i].op \in {"RANGE", "CONSTRUCT"}
Bare(p, tb, fn, t) ==
  \E i \in (tb[fn].begins[t] + 1)..tb[fn].ends[t] : Scratches(p, p[fn][i])
Live(p, tb, fn, i) == {t \in TempsOf(p[fn]) : i \in Needs(p[fn], t) /\ i <= tb[fn].ends[t]}

(* The value of register r that frame n of s will find when it goes on,    *)
(* where m is the frame that runs and has the registers rg.                *)
Sees(s, m, rg, n, r) ==
  IF n < m /\ r \in DOMAIN s[n + 1].saved THEN s[n + 1].saved[r] ELSE rg[r]
(* A register has what belongs in it, or junk when scratch code may run.   *)
Fine(p, tb, fn, t, v, w) == v = w \/ (v = Junk /\ Bare(p, tb, fn, t))
Right(p, tb, s, m, rg, n, pc) ==
  \A t \in Live(p, tb, s[n].fn, pc) :
    LET r == tb[s[n].fn].reg[t]
    IN IF r = NoReg THEN s[n].slot[t] = s[n].want[t]
                    ELSE Fine(p, tb, s[n].fn, t, Sees(s, m, rg, n, r), s[n].want[t])
(* Were frame m to go on at pc with the registers rg, it and those below   *)
(* it would find what the IR says their temporaries hold.                  *)
Snap(p, tb, s, m, pc, rg) ==
  /\ DOMAIN rg = Registers
  /\ \A n \in 1..m : Right(p, tb, s, m, rg, n, IF n = m THEN pc ELSE s[n].pc)

ShapeOK(p, tb, fr) ==
  /\ DOMAIN fr.slot = TempsOf(p[fr.fn]) /\ DOMAIN fr.want = TempsOf(p[fr.fn])
  /\ DOMAIN fr.saved = tb[fr.fn].saves
ShapesOK(p, tb, S) == \A h \in DOMAIN S : \A n \in 1..Len(S[h]) : ShapeOK(p, tb, S[h][n])
AwaySnap(p, tb, S, fib, G) ==
  fib # Start =>
    /\ Snap(p, tb, S[Start], Len(S[Start]), Last(S[Start]).pc, G[fib].caller.regs)
    /\ LET fr == Last(S[Start]) IN \E t \in p[fr.fn][fr.pc].uses : fr.want[t] = fib
(* A generator's registers count only when no exception leaves it.         *)
Kept(p, h) == h = Start \/ Calm(p)
TrySnap(p, tb, S, trs, d) ==
  \A i \in 0..(d - 1) : Kept(p, trs[i].fiber) =>
    \A n \in 1..Len(S[trs[i].fiber]) :
      S[trs[i].fiber][n].id = trs[i].id =>
        Snap(p, tb, S[trs[i].fiber], n, trs[i].pc, trs[i].regs)
GenSnap(p, tb, S, fib, G) ==
  \A h \in DOMAIN G :
    Kept(p, h) /\ h # fib /\ ~G[h].fresh /\ ~G[h].done => Snap(p, tb, S[h], 1, G[h].gen.pc, G[h].gen.regs)

TableOK(p, tb, fn) ==
  LET c == p[fn]
      T == tb[fn]
  IN /\ T.reg \in [TempsOf(c) -> Registers \cup {NoReg}]
     /\ T.begins \in [TempsOf(c) -> 1..Len(c)] /\ T.ends \in [TempsOf(c) -> 1..Len(c)]
     /\ \A t \in TempsOf(c) :
          /\ T.reg[t] \in T.saves \cup {NoReg}
          /\ \A i \in Mentioned(c, t) : T.begins[t] <= i /\ i <= T.ends[t]
          /\ \A loop \in LoopRegions(c) :
               T.begins[t] <= loop[2] /\ T.ends[t] >= loop[1] => T.ends[t] >= loop[2]
          /\ \A u \in TempsOf(c) : t # u /\ T.reg[t] = T.reg[u] /\ T.reg[t] # NoReg =>
               T.ends[u] < T.begins[t] \/ T.ends[t] < T.begins[u]

ValuesOK ==
  /\ ShapesOK(prog, table, stacks)
  /\ Kept(prog, fiber) => Snap(prog, table, stacks[fiber], Len(stacks[fiber]), Last(stacks[fiber]).pc, regs)
  /\ AwaySnap(prog, table, stacks, fiber, gens)
  /\ TrySnap(prog, table, stacks, tries, depth)
  /\ GenSnap(prog, table, stacks, fiber, gens)

(* Intervals have every place where their temporary is mentioned.          *)
Covers ==
  \A t \in TempsOf(code) : \A i \in Mentioned(code, t) : begins[t] <= i /\ i <= ends[t]
(* What the compiler has made of the functions.                            *)
CodeOK ==
  /\ mode = "compile" =>
       /\ DOMAIN regs = Registers
       /\ nth <= Len(Order) => code = prog[Order[nth]]
       /\ \A k \in 1..(nth - 1) : Order[k] \in DOMAIN table /\ TableOK(prog, table, Order[k])
  /\ mode = "run" => \A fn \in Fns : TableOK(prog, table, fn)

VInv == HInv /\ CodeOK /\ (mode = "run" /\ ~LeavesTry => ValuesOK)

(* The compiled functions of a program whose temporaries are assigned.     *)
AllReady(p, tb) == Assigned /\ p \in Programs /\ \A fn \in Fns : TableOK(p, tb, fn)

(* What that says of one function.                                         *)
LEMMA ReadyIs ==
  ASSUME NEW p, NEW tb, AllReady(p, tb), NEW fn \in Fns
  PROVE  /\ p[fn] \in Codes /\ Len(p[fn]) \in Nat /\ TableOK(p, tb, fn)
         /\ \A t \in TempsOf(p[fn]) :
              /\ Needs(p[fn], t) \subseteq 1..(Len(p[fn]) + 1)
              /\ AssignedAt(p[fn], t, Needs(p[fn], t))
<1>1. p[fn] \in Codes
  BY ProgramsAssumption DEF AllReady, Fns
<1>2. Len(p[fn]) \in Nat
  BY <1>1, CodesAssumption
<1>3. ASSUME NEW t \in TempsOf(p[fn])
      PROVE  /\ Needs(p[fn], t) \subseteq 1..(Len(p[fn]) + 1)
             /\ AssignedAt(p[fn], t, Needs(p[fn], t))
  <2>1. \E P \in SUBSET (1..(Len(p[fn]) + 1)) : AssignedAt(p[fn], t, P)
    BY <1>1, <1>3 DEF AllReady, Assigned
  <2>2. Needs(p[fn], t) \in SUBSET (1..(Len(p[fn]) + 1)) /\ AssignedAt(p[fn], t, Needs(p[fn], t))
    <3>. DEFINE Q(P) == AssignedAt(p[fn], t, P)
    <3>1. \E P \in SUBSET (1..(Len(p[fn]) + 1)) : Q(P)
      BY <2>1
    <3>2. Needs(p[fn], t) = CHOOSE P \in SUBSET (1..(Len(p[fn]) + 1)) : Q(P)
      BY DEF Needs
    <3>. HIDE DEF Q
    <3>3. Needs(p[fn], t) \in SUBSET (1..(Len(p[fn]) + 1)) /\ Q(Needs(p[fn], t))
      BY <3>1, <3>2
    <3>. QED
      BY <3>3 DEF Q
  <2>. QED
    BY <2>2
<1>. QED
  BY <1>1, <1>2, <1>3 DEF AllReady

(* A live temporary has been assigned, and its interval goes on.           *)
Spans(c, T, i, t) ==
  /\ t \in TempsOf(c) /\ i \in 1..Len(c)
  /\ T.begins[t] \in 1..Len(c) /\ T.ends[t] \in 1..Len(c)
  /\ T.begins[t] < i /\ i <= T.ends[t]
(* A live temporary has been mentioned before, and is mentioned again.     *)
LEMMA SpanIs ==
  ASSUME NEW p, NEW tb, AllReady(p, tb), NEW fn \in Fns, NEW i, NEW t \in Live(p, tb, fn, i)
  PROVE  Spans(p[fn], tb[fn], i, t)
<1>. DEFINE c == p[fn]
            b == tb[fn].begins[t]
<1>1. t \in TempsOf(c) /\ i \in Needs(c, t) /\ i <= tb[fn].ends[t]
  BY DEF Live
<1>2. /\ Len(c) \in Nat /\ Needs(c, t) \subseteq 1..(Len(c) + 1) /\ AssignedAt(c, t, Needs(c, t))
      /\ TableOK(p, tb, fn)
  BY <1>1, ReadyIs
<1>3. tb[fn].begins[t] \in 1..Len(c) /\ tb[fn].ends[t] \in 1..Len(c)
  BY <1>1, <1>2 DEF TableOK
<1>4. PICK k \in 1..(i - 1) : Gives(c, k, t)
  BY <1>1, <1>2 DEF AssignedAt
<1>5. i \in 1..Len(c) /\ k \in 1..Len(c) /\ k < i
  BY <1>1, <1>2, <1>3
<1>6. k \in Mentioned(c, t)
  <2>1. t # NoTemp
    <3>1. PICK j \in 1..Len(c) : t \in Mentions(c, j)
      BY <1>1 DEF TempsOf
    <3>2. c[j].uses \subseteq Temps
      BY ReadyIs, CodesAssumption
    <3>. QED
      BY <3>1, <3>2, TempsAssumption DEF Mentions
  <2>. QED
    BY <1>4, <1>5, <2>1 DEF Mentioned, Mentions, Gives
<1>7. b <= k
  BY <1>1, <1>2, <1>6 DEF TableOK
<1>8. b < i
  <2>1. b \in Int /\ k \in Int /\ i \in Int
    BY <1>2, <1>3, <1>5
  <2>. HIDE DEF b
  <2>. QED
    BY <1>5, <1>7, <2>1
<1>. QED
  BY <1>1, <1>3, <1>5, <1>8 DEF Spans

(* What an instruction uses is live there.                                 *)
LEMMA UsesLive ==
  ASSUME NEW p, NEW tb, AllReady(p, tb), NEW fn \in Fns, NEW i \in 1..Len(p[fn]), NEW t \in p[fn][i].uses
  PROVE  t \in Live(p, tb, fn, i)
<1>1. t \in TempsOf(p[fn]) /\ i \in Mentioned(p[fn], t)
  BY DEF TempsOf, Mentions, Mentioned
<1>2. i \in Needs(p[fn], t)
  BY <1>1, ReadyIs DEF AssignedAt
<1>3. i <= tb[fn].ends[t]
  BY <1>1, ReadyIs DEF TableOK
<1>. QED
  BY <1>1, <1>2, <1>3 DEF Live

(* Nothing is live where a function begins.                                *)
LEMMA FirstLive ==
  ASSUME NEW p, NEW tb, AllReady(p, tb), NEW fn \in Fns
  PROVE  Live(p, tb, fn, 1) = {}
<1>1. ASSUME NEW t \in Live(p, tb, fn, 1) PROVE FALSE
  <2>1. tb[fn].begins[t] < 1 /\ tb[fn].begins[t] \in 1..Len(p[fn])
    <3>1. Spans(p[fn], tb[fn], 1, t)
      BY SpanIs
    <3>. QED
      BY <3>1 DEF Spans
  <2>. QED
    BY <2>1
<1>. QED
  BY <1>1

(* What is live after an instruction was live before it, or is its result. *)
LEMMA EdgeLive ==
  ASSUME NEW p, NEW tb, AllReady(p, tb), NEW fn \in Fns, TriesNested(p[fn]),
         NEW i \in 1..Len(p[fn]), NEW j, Follows(p[fn], i, j), NEW t \in Live(p, tb, fn, j)
  PROVE  t \in Live(p, tb, fn, i) \/ Gives(p[fn], i, t)
<1>. DEFINE c == p[fn]
            b == tb[fn].begins[t]
            e == tb[fn].ends[t]
<1>1. t \in TempsOf(c) /\ j \in Needs(c, t) /\ j \in 1..Len(c) /\ b \in Nat /\ e \in Nat /\ j <= e /\ b < j
  <2>1. Spans(p[fn], tb[fn], j, t)
    BY SpanIs
  <2>. QED
    BY <2>1 DEF Spans, Live
<1>2. Len(c) \in Nat /\ AssignedAt(c, t, Needs(c, t)) /\ TableOK(p, tb, fn) /\ c \in Codes
  BY <1>1, ReadyIs
<1>3. SUFFICES ASSUME i \in Needs(c, t)
               PROVE  i <= e
  BY <1>1, <1>2 DEF Live, AssignedAt
<1>4. CASE i < j
  BY <1>1, <1>4
<1>5. CASE ~(i < j)
  <2>1. c[i].op = "JUMP_IF_TRUE" /\ j = LabelOf(c, c[i].lab)
    <3>1. j # i + 1
      BY <1>1, <1>5
    <3>2. c[i].op = "CATCH_BEGIN" => j # SkipOf(c, i)
      BY <1>1, <1>5 DEF TriesNested
    <3>. QED
      BY <3>1, <3>2 DEF Follows
  <2>2. c[j].op = "LABEL" /\ c[j].lab = c[i].lab
    <3>1. \E k \in 1..Len(c) : c[k].op = "LABEL" /\ c[k].lab = c[i].lab
      BY <1>2, <2>1 DEF AllReady, Assigned
    <3>. QED
      BY <2>1, <3>1 DEF LabelOf
  <2>3. j < i
    <3>1. j # i
      BY <2>1, <2>2
    <3>. QED
      BY <1>1, <1>5, <3>1
  <2>4. <<j, i>> \in LoopRegions(c)
    BY <1>1, <2>1, <2>2, <2>3 DEF LoopRegions, Jumps
  <2>5. b <= i
    BY <1>1, <2>3
  <2>6. e >= j
    BY <1>1
  <2>7. b <= <<j, i>>[2] /\ e >= <<j, i>>[1] => e >= <<j, i>>[2]
    BY <1>1, <1>2, <2>4 DEF TableOK
  <2>. QED
    BY <1>1, <2>5, <2>6, <2>7
<1>. QED
  BY <1>4, <1>5

(* What a catch clause needs was live before the try, whose clause assigns *)
(* none of it.                                                             *)
LEMMA TryLive ==
  ASSUME NEW p, NEW tb, AllReady(p, tb), NEW fn \in Fns, TriesNested(p[fn]),
         NEW k \in 1..Len(p[fn]), p[fn][k].op = "TRY_BEGIN", NEW t \in Live(p, tb, fn, CatchOf(p[fn], k) + 1)
  PROVE  t \in Live(p, tb, fn, k) /\ \A i \in k..CatchOf(p[fn], k) : ~Gives(p[fn], i, t)
<1>. DEFINE c == p[fn]
            e == tb[fn].ends[t]
<1>1. t \in TempsOf(c) /\ CatchOf(c, k) + 1 \in Needs(c, t) /\ CatchOf(c, k) + 1 <= e /\ e \in Nat
  <2>1. Spans(c, tb[fn], CatchOf(c, k) + 1, t)
    BY SpanIs
  <2>. QED
    BY <2>1 DEF Spans, Live
<1>2. CatchOf(c, k) \in Nat /\ k < CatchOf(c, k)
  BY DEF TriesNested
<1>3. AssignedAt(c, t, Needs(c, t))
  BY <1>1, ReadyIs
<1>4. k \in Needs(c, t) /\ \A i \in k..CatchOf(c, k) : ~Gives(c, i, t)
  BY <1>1, <1>3 DEF AssignedAt
<1>5. k <= e
  BY <1>1, <1>2
<1>. QED
  BY <1>1, <1>4, <1>5 DEF Live

(* An instruction's result is in no register of a live temporary.          *)
LEMMA SpareLive ==
  ASSUME NEW p, NEW tb, AllReady(p, tb), NEW fn \in Fns, NEW i \in 1..Len(p[fn]), NEW t \in Live(p, tb, fn, i),
         NEW u \in TempsOf(p[fn]), p[fn][i].res = u, t # u, tb[fn].reg[u] # NoReg
  PROVE  tb[fn].reg[t] # tb[fn].reg[u]
<1>. DEFINE T == tb[fn]
<1>1. Spans(p[fn], T, i, t)
  BY SpanIs
<1>2. i \in Mentioned(p[fn], u)
  <2>1. u # NoTemp
    <3>1. PICK j \in 1..Len(p[fn]) : u \in Mentions(p[fn], j)
      BY DEF TempsOf
    <3>2. p[fn][j].uses \subseteq Temps
      BY ReadyIs, CodesAssumption
    <3>. QED
      BY <3>1, <3>2, TempsAssumption DEF Mentions
  <2>. QED
    BY <2>1 DEF Mentioned, Mentions
<1>3. T.begins[u] <= i /\ i <= T.ends[u] /\ T.begins[u] \in Nat /\ T.ends[u] \in Nat
  BY <1>2, ReadyIs DEF TableOK
<1>4. t \in TempsOf(p[fn]) /\ T.begins[t] \in Nat /\ T.ends[t] \in Nat /\ T.begins[t] < i /\ i <= T.ends[t]
  BY <1>1 DEF Spans
<1>5. T.reg[t] = T.reg[u] => T.ends[u] < T.begins[t] \/ T.ends[t] < T.begins[u]
  BY <1>4, ReadyIs DEF TableOK
<1>6. ~(T.ends[u] < T.begins[t]) /\ ~(T.ends[t] < T.begins[u])
  <2>. DEFINE bt == T.begins[t]
              et == T.ends[t]
              bu == T.begins[u]
              eu == T.ends[u]
  <2>1. bt \in Nat /\ et \in Nat /\ bu \in Nat /\ eu \in Nat /\ bt < i /\ i <= et /\ bu <= i /\ i <= eu
    BY <1>3, <1>4
  <2>. HIDE DEF bt, et, bu, eu
  <2>2. ~(eu < bt) /\ ~(et < bu)
    BY <2>1
  <2>. QED
    BY <2>2 DEF bt, et, bu, eu
<1>. QED
  BY <1>5, <1>6

(* What is live where scratch code runs is bare.                           *)
LEMMA LiveBare ==
  ASSUME NEW p, NEW tb, AllReady(p, tb), NEW fn \in Fns, NEW i, NEW t \in Live(p, tb, fn, i),
         Scratches(p, p[fn][i])
  PROVE  Bare(p, tb, fn, t)
<1>1. Spans(p[fn], tb[fn], i, t)
  BY SpanIs
<1>2. i \in (tb[fn].begins[t] + 1)..tb[fn].ends[t]
  BY <1>1 DEF Spans
<1>. QED
  BY <1>2 DEF Bare

(* The register of a temporary is one that the prologue pushes.            *)
LEMMA RegIs ==
  ASSUME NEW p, NEW tb, AllReady(p, tb), NEW fn \in Fns, NEW t \in TempsOf(p[fn])
  PROVE  /\ tb[fn].reg[t] \in Registers \cup {NoReg}
         /\ tb[fn].reg[t] # NoReg => tb[fn].reg[t] \in tb[fn].saves
  BY ReadyIs DEF TableOK

-----------------------------------------------------------------------------
(* What the frames of a stack find.                                        *)

(* Frames as they are on a stack: whatever is above another is f's.        *)
Framed(p, tb, s, m) ==
  \A n \in 1..m : s[n].fn \in Fns /\ ShapeOK(p, tb, s[n]) /\ (n > 1 => s[n].fn = "f")

(* It depends on what is live, and on no more.                             *)
LEMMA SnapLike ==
  ASSUME NEW p, NEW tb, NEW s, NEW m \in Nat, NEW pc, NEW rg, Snap(p, tb, s, m, pc, rg), NEW z, NEW to,
         \A n \in 1..m : z[n].fn = s[n].fn /\ z[n].saved = s[n].saved,
         \A n \in 1..m : n # m => z[n] = s[n],
         \A t \in Live(p, tb, s[m].fn, to) :
           t \in Live(p, tb, s[m].fn, pc) /\ z[m].slot[t] = s[m].slot[t] /\ z[m].want[t] = s[m].want[t]
  PROVE  Snap(p, tb, z, m, to, rg)
<1>1. ASSUME NEW n \in 1..m PROVE Right(p, tb, z, m, rg, n, IF n = m THEN to ELSE z[n].pc)
  <2>1. Right(p, tb, s, m, rg, n, IF n = m THEN pc ELSE s[n].pc)
    BY DEF Snap
  <2>2. \A r : Sees(z, m, rg, n, r) = Sees(s, m, rg, n, r)
    <3>1. n < m => n + 1 \in 1..m
      BY <1>1
    <3>2. n < m => z[n + 1].saved = s[n + 1].saved
      BY <3>1
    <3>. QED
      BY <3>2 DEF Sees
  <2>3. CASE n = m
    BY <2>1, <2>2, <2>3 DEF Right
  <2>4. CASE n # m
    BY <2>1, <2>2, <2>4 DEF Right
  <2>. QED
    BY <2>3, <2>4
<1>. QED
  BY <1>1 DEF Snap

(* Junk in a register only reaches what scratch code may have spoilt.      *)
LEMMA SnapScratch ==
  ASSUME NEW p, NEW tb, AllReady(p, tb), NEW s, NEW m \in Nat, NEW pc, NEW rg, Snap(p, tb, s, m, pc, rg),
         Framed(p, tb, s, m),
         \A n \in 1..m : Scratches(p, p[s[n].fn][IF n = m THEN pc ELSE s[n].pc]),
         NEW rh, DOMAIN rh = Registers, \A r \in Registers : rh[r] = rg[r] \/ rh[r] = Junk
  PROVE  Snap(p, tb, s, m, pc, rh)
<1>1. ASSUME NEW n \in 1..m PROVE Right(p, tb, s, m, rh, n, IF n = m THEN pc ELSE s[n].pc)
  <2>. DEFINE at == IF n = m THEN pc ELSE s[n].pc
              fn == s[n].fn
  <2>1. Right(p, tb, s, m, rg, n, at)
    BY DEF Snap
  <2>2. fn \in Fns /\ Scratches(p, p[fn][at])
    BY DEF Framed
  <2>. HIDE DEF at, fn
  <2>3. ASSUME NEW t \in Live(p, tb, fn, at), tb[fn].reg[t] # NoReg
        PROVE  Fine(p, tb, fn, t, Sees(s, m, rh, n, tb[fn].reg[t]), s[n].want[t])
    <3>1. Bare(p, tb, fn, t) /\ t \in TempsOf(p[fn])
      BY <2>2, LiveBare DEF Live
    <3>2. tb[fn].reg[t] \in Registers
      BY <2>2, <2>3, <3>1, RegIs
    <3>3. Fine(p, tb, fn, t, Sees(s, m, rg, n, tb[fn].reg[t]), s[n].want[t])
      BY <2>1, <2>3 DEF Right, fn
    <3>4. \/ Sees(s, m, rh, n, tb[fn].reg[t]) = Sees(s, m, rg, n, tb[fn].reg[t])
          \/ Sees(s, m, rh, n, tb[fn].reg[t]) = Junk
      BY <3>2 DEF Sees
    <3>. QED
      BY <3>1, <3>3, <3>4 DEF Fine
  <2>4. \A t \in Live(p, tb, fn, at) : tb[fn].reg[t] = NoReg => s[n].slot[t] = s[n].want[t]
    BY <2>1 DEF Right, fn
  <2>5. Right(p, tb, s, m, rh, n, at)
    BY <2>3, <2>4 DEF Right, fn
  <2>. QED
    BY <2>5 DEF at
<1>. QED
  BY <1>1 DEF Snap

(* A call leaves everything as it was, in registers or pushed.             *)
LEMMA SnapPush ==
  ASSUME NEW p, NEW tb, AllReady(p, tb), NEW s, NEW m \in Nat, NEW rg, Snap(p, tb, s, m, s[m].pc, rg),
         NEW z, \A n \in 1..m : z[n] = s[n],
         z[m + 1].fn \in Fns, \A r \in DOMAIN z[m + 1].saved : z[m + 1].saved[r] = rg[r]
  PROVE  Snap(p, tb, z, m + 1, 1, rg)
<1>1. ASSUME NEW n \in 1..(m + 1) PROVE Right(p, tb, z, m + 1, rg, n, IF n = m + 1 THEN 1 ELSE z[n].pc)
  <2>1. CASE n = m + 1
    <3>1. Live(p, tb, z[n].fn, 1) = {}
      BY <2>1, FirstLive
    <3>. QED
      BY <2>1, <3>1 DEF Right
  <2>2. CASE n # m + 1
    <3>1. n \in 1..m /\ z[n] = s[n]
      BY <2>2
    <3>2. Right(p, tb, s, m, rg, n, s[n].pc)
      <4>1. (IF n = m THEN s[m].pc ELSE s[n].pc) = s[n].pc
        OBVIOUS
      <4>2. Right(p, tb, s, m, rg, n, IF n = m THEN s[m].pc ELSE s[n].pc)
        BY <3>1 DEF Snap
      <4>. QED
        BY <4>1, <4>2
    <3>3. \A r : Sees(z, m + 1, rg, n, r) = Sees(s, m, rg, n, r)
      <4>1. CASE n = m
        <5>1. \A r : Sees(s, m, rg, n, r) = rg[r]
          BY <4>1 DEF Sees
        <5>2. n < m + 1
          BY <4>1
        <5>3. \A r : Sees(z, m + 1, rg, n, r) = IF r \in DOMAIN z[m + 1].saved THEN z[m + 1].saved[r] ELSE rg[r]
          BY <4>1, <5>2 DEF Sees
        <5>. QED
          BY <5>1, <5>3
      <4>2. CASE n # m
        <5>1. n < m /\ n < m + 1 /\ n + 1 \in 1..m /\ z[n + 1] = s[n + 1]
          BY <3>1, <4>2
        <5>. QED
          BY <5>1 DEF Sees
      <4>. QED
        BY <4>1, <4>2
    <3>. QED
      BY <2>2, <3>1, <3>2, <3>3 DEF Right
  <2>. QED
    BY <2>1, <2>2
<1>. QED
  BY <1>1 DEF Snap

(* A return pops what the function has pushed: whatever a later frame of   *)
(* the same function saved, it is restored.                                *)
LEMMA SnapPop ==
  ASSUME NEW p, NEW tb, AllReady(p, tb), NEW s, NEW m \in Nat, m > 1, NEW pc, NEW rg,
         Snap(p, tb, s, m, pc, rg), Framed(p, tb, s, m)
  PROVE  Snap(p, tb, s, m - 1, s[m - 1].pc, Popped(s[m], rg))
<1>. DEFINE rh == Popped(s[m], rg)
            l == m - 1
<1>1. DOMAIN rh = Registers /\ \A r \in Registers : rh[r] = IF r \in DOMAIN s[m].saved THEN s[m].saved[r] ELSE rg[r]
  BY DEF Popped
<1>2. l \in Nat /\ l < m /\ l + 1 = m
  OBVIOUS
<1>. HIDE DEF rh
<1>3. ASSUME NEW n \in 1..l PROVE Right(p, tb, s, l, rh, n, s[n].pc)
  <2>1. n \in 1..m /\ n < m /\ n + 1 \in 1..m /\ n + 1 > 1
    BY <1>2
  <2>2. Right(p, tb, s, m, rg, n, s[n].pc)
    <3>1. Right(p, tb, s, m, rg, n, IF n = m THEN pc ELSE s[n].pc)
      BY <2>1 DEF Snap
    <3>. QED
      BY <2>1, <3>1
  <2>3. ASSUME NEW r \in Registers PROVE Sees(s, l, rh, n, r) = Sees(s, m, rg, n, r)
    <3>1. CASE n = l
      <4>1. n + 1 = m /\ ~(n < l)
        BY <1>2, <3>1
      <4>2. Sees(s, l, rh, n, r) = rh[r]
        BY <4>1 DEF Sees
      <4>3. Sees(s, m, rg, n, r) = IF r \in DOMAIN s[m].saved THEN s[m].saved[r] ELSE rg[r]
        BY <2>1, <4>1 DEF Sees
      <4>. QED
        BY <1>1, <4>2, <4>3
    <3>2. CASE n # l
      <4>1. n < l
        BY <1>2, <3>2
      <4>2. DOMAIN s[n + 1].saved = DOMAIN s[m].saved
        <5>1. s[n + 1].fn = "f" /\ ShapeOK(p, tb, s[n + 1])
          BY <2>1 DEF Framed
        <5>2. s[m].fn = "f" /\ ShapeOK(p, tb, s[m])
          <6>1. m \in 1..m
            OBVIOUS
          <6>. QED
            BY <6>1 DEF Framed
        <5>. QED
          BY <5>1, <5>2 DEF ShapeOK
      <4>. QED
        BY <1>1, <2>1, <4>1, <4>2 DEF Sees
    <3>. QED
      BY <3>1, <3>2
  <2>4. s[n].fn \in Fns
    BY <2>1 DEF Framed
  <2>5. \A t \in Live(p, tb, s[n].fn, s[n].pc) : tb[s[n].fn].reg[t] \in Registers \cup {NoReg}
    BY <2>4, RegIs DEF Live
  <2>. QED
    BY <2>2, <2>3, <2>5 DEF Right
<1>4. \A n \in 1..l : (IF n = l THEN s[l].pc ELSE s[n].pc) = s[n].pc
  OBVIOUS
<1>5. Snap(p, tb, s, l, s[l].pc, rh)
  BY <1>1, <1>3, <1>4 DEF Snap
<1>. QED
  BY <1>5 DEF rh

(* An instruction at i of the frame fr stores v, and the frame is then to. *)
Stores(p, tb, fr, i, rg, v, to, rh) ==
  LET u == p[fr.fn][i].res
      r == tb[fr.fn].reg[u]
  IN /\ to.fn = fr.fn /\ to.saved = fr.saved
     /\ u = NoTemp => to.slot = fr.slot /\ to.want = fr.want /\ rh = rg
     /\ u # NoTemp =>
          /\ u \in TempsOf(p[fr.fn])
          /\ to.want = [fr.want EXCEPT ![u] = v]
          /\ to.slot = [fr.slot EXCEPT ![u] = IF r = NoReg THEN v ELSE @]
          /\ rh = IF r = NoReg THEN rg ELSE [rg EXCEPT ![r] = v]

(* Storing a result keeps it: the registers of live temporaries are others.*)
LEMMA SnapStore ==
  ASSUME NEW p, NEW tb, AllReady(p, tb), NEW s, NEW m \in Nat, m # 0, NEW i, NEW rg, Snap(p, tb, s, m, i, rg),
         Framed(p, tb, s, m), TriesNested(p[s[m].fn]), i \in 1..Len(p[s[m].fn]), p[s[m].fn][i].op \in Producing,
         NEW v, NEW to, NEW rh, Stores(p, tb, s[m], i, rg, v, to, rh),
         NEW z, z[m] = to, \A n \in 1..m : n # m => z[n] = s[n]
  PROVE  Snap(p, tb, z, m, i + 1, rh)
<1>. DEFINE fn == s[m].fn
            u == p[fn][i].res
            r == tb[fn].reg[u]
<1>1. m \in 1..m /\ fn \in Fns /\ ShapeOK(p, tb, s[m]) /\ DOMAIN rg = Registers
  BY DEF Framed, Snap
<1>2. DOMAIN s[m].slot = TempsOf(p[fn]) /\ DOMAIN s[m].want = TempsOf(p[fn]) /\ DOMAIN s[m].saved = tb[fn].saves
  BY <1>1 DEF ShapeOK
<1>3. \A n \in 1..m : z[n].fn = s[n].fn /\ z[n].saved = s[n].saved
  BY DEF Stores
<1>4. DOMAIN rh = Registers /\ \A q \in Registers : rh[q] = IF u # NoTemp /\ r # NoReg /\ q = r THEN v ELSE rg[q]
  BY <1>1 DEF Stores
<1>5. u # NoTemp => u \in TempsOf(p[fn]) /\ r \in Registers \cup {NoReg} /\ (r # NoReg => r \in tb[fn].saves)
  BY <1>1, RegIs DEF Stores
<1>6. ASSUME NEW n \in 1..m, n # m PROVE Right(p, tb, z, m, rh, n, z[n].pc)
  <2>1. n < m /\ n + 1 \in 1..m /\ z[n] = s[n]
    BY <1>6
  <2>2. Right(p, tb, s, m, rg, n, s[n].pc)
    BY <1>6 DEF Snap
  <2>3. DOMAIN s[n + 1].saved = tb[fn].saves
    <3>1. s[n + 1].fn = "f" /\ s[m].fn = "f"
      BY <1>1, <2>1 DEF Framed
    <3>2. ShapeOK(p, tb, s[n + 1])
      BY <2>1 DEF Framed
    <3>. QED
      BY <3>1, <3>2 DEF ShapeOK
  <2>4. ASSUME NEW q \in Registers PROVE Sees(z, m, rh, n, q) = Sees(s, m, rg, n, q)
    BY <1>3, <1>4, <1>5, <2>1, <2>3 DEF Sees
  <2>5. \A t \in Live(p, tb, s[n].fn, s[n].pc) : tb[s[n].fn].reg[t] \in Registers \cup {NoReg}
    BY <1>6, RegIs DEF Live, Framed
  <2>. QED
    BY <2>1, <2>2, <2>4, <2>5 DEF Right
<1>7. Right(p, tb, z, m, rh, m, i + 1)
  <2>. DEFINE ok(t) == IF tb[fn].reg[t] = NoReg THEN z[m].slot[t] = z[m].want[t]
                       ELSE Fine(p, tb, fn, t, Sees(z, m, rh, m, tb[fn].reg[t]), z[m].want[t])
  <2>1. \A q : Sees(z, m, rh, m, q) = rh[q] /\ Sees(s, m, rg, m, q) = rg[q]
    BY DEF Sees
  <2>2. Follows(p[fn], i, i + 1)
    BY DEF Follows, Producing
  <2>3. ASSUME NEW t \in Live(p, tb, fn, i + 1) PROVE ok(t)
    <3>1. t \in TempsOf(p[fn]) /\ tb[fn].reg[t] \in Registers \cup {NoReg}
      BY <1>1, RegIs DEF Live
    <3>2. t # NoTemp
      <4>1. PICK j \in 1..Len(p[fn]) : t \in Mentions(p[fn], j)
        BY <3>1 DEF TempsOf
      <4>2. p[fn][j].uses \subseteq Temps
        BY <1>1, ReadyIs, CodesAssumption
      <4>. QED
        BY <4>1, <4>2, TempsAssumption DEF Mentions
    <3>3. CASE t = u
      <4>1. z[m].want[t] = v
        BY <1>2, <3>1, <3>2, <3>3 DEF Stores
      <4>2. tb[fn].reg[t] = NoReg => z[m].slot[t] = v
        BY <1>2, <3>1, <3>2, <3>3 DEF Stores
      <4>3. tb[fn].reg[t] # NoReg => rh[tb[fn].reg[t]] = v
        BY <1>4, <3>1, <3>2, <3>3
      <4>. QED
        BY <2>1, <4>1, <4>2, <4>3 DEF Fine
    <3>4. CASE t # u
      <4>1. t \in Live(p, tb, fn, i)
        <5>1. ~Gives(p[fn], i, t)
          BY <3>4 DEF Gives
        <5>. QED
          BY <1>1, <2>2, <5>1, EdgeLive
      <4>2. IF tb[fn].reg[t] = NoReg THEN s[m].slot[t] = s[m].want[t]
            ELSE Fine(p, tb, fn, t, rg[tb[fn].reg[t]], s[m].want[t])
        <5>1. Right(p, tb, s, m, rg, m, i)
          <6>1. Right(p, tb, s, m, rg, m, IF m = m THEN i ELSE s[m].pc)
            BY <1>1 DEF Snap
          <6>. QED
            BY <6>1
        <5>. QED
          BY <2>1, <4>1, <5>1 DEF Right
      <4>3. z[m].slot[t] = s[m].slot[t] /\ z[m].want[t] = s[m].want[t]
        BY <1>2, <3>1, <3>4 DEF Stores
      <4>4. tb[fn].reg[t] # NoReg => rh[tb[fn].reg[t]] = rg[tb[fn].reg[t]]
        <5>1. u # NoTemp /\ r # NoReg => tb[fn].reg[t] # r
          <6>1. SUFFICES ASSUME u # NoTemp, r # NoReg PROVE tb[fn].reg[t] # tb[fn].reg[u]
            OBVIOUS
          <6>2. u \in TempsOf(p[fn])
            BY <1>5, <6>1
          <6>. QED
            BY <1>1, <3>4, <4>1, <6>1, <6>2, SpareLive
        <5>. QED
          BY <1>4, <3>1, <5>1
      <4>. QED
        BY <2>1, <4>2, <4>3, <4>4
    <3>. QED
      BY <3>3, <3>4
  <2>4. z[m].fn = fn
    BY <1>1, <1>3
  <2>. QED
    BY <2>3, <2>4 DEF Right
<1>8. \A n \in 1..m : Right(p, tb, z, m, rh, n, IF n = m THEN i + 1 ELSE z[n].pc)
  BY <1>6, <1>7
<1>. QED
  BY <1>4, <1>8 DEF Snap

-----------------------------------------------------------------------------
(* Steps of a program that runs.                                           *)

(* The frames on a stack are as the compiled functions have them.          *)
LEMMA FramedIs ==
  ASSUME prog \in Programs, Nested, RunOK, ShapesOK(prog, table, stacks), NEW h \in DOMAIN stacks
  PROVE  /\ IsList(stacks[h]) /\ Len(stacks[h]) \in Nat /\ Len(stacks[h]) # 0
         /\ Len(stacks[h]) \in 1..Len(stacks[h]) /\ Last(stacks[h]) = stacks[h][Len(stacks[h])]
         /\ Framed(prog, table, stacks[h], Len(stacks[h]))
<1>1. StackOK(prog, clock, h, stacks[h])
  BY DEF RunOK, StacksOK
<1>2. IsList(stacks[h]) /\ Len(stacks[h]) # 0
  BY <1>1 DEF StackOK
<1>3. Len(stacks[h]) \in Nat
  BY <1>2, ListIs
<1>4. Last(stacks[h]) = stacks[h][Len(stacks[h])]
  BY <1>2, CutsAre
<1>5. ASSUME NEW n \in 1..Len(stacks[h])
      PROVE  stacks[h][n].fn \in Fns /\ ShapeOK(prog, table, stacks[h][n]) /\ (n > 1 => stacks[h][n].fn = "f")
  <2>1. FrameOK(prog, clock, stacks[h][n]) /\ (n > 1 => stacks[h][n].fn = "f")
    BY <1>1 DEF StackOK
  <2>. QED
    BY <2>1 DEF FrameOK, ShapesOK
<1>. QED
  BY <1>2, <1>3, <1>4, <1>5 DEF Framed

(* A handler is that of a try clause that a frame is in.                   *)
LEMMA HandlerIs ==
  ASSUME prog \in Programs, Nested, RunOK, NEW i \in 0..(depth - 1)
  PROVE  LET place == tries[i]
             s == stacks[place.fiber]
         IN /\ place.fiber \in {Start, fiber} /\ place.fiber \in DOMAIN stacks
            /\ \E n \in 1..Len(s) : \E k \in OpenAt(prog[s[n].fn], s[n].pc) :
                 s[n].id = place.id /\ place.pc = CatchOf(prog[s[n].fn], k) + 1
<1>. DEFINE T == Handler(tries, i)
<1>1. T \in TriesNow(prog, stacks, fiber)
  BY DEF RunOK, Match
<1>2. PICK h \in {Start, fiber} : T \in TriesOf(prog, h, stacks[h])
  BY <1>1 DEF TriesNow
<1>3. h \in DOMAIN stacks /\ StackOK(prog, clock, h, stacks[h])
  BY <1>2 DEF RunOK, StacksOK, AwayOK
<1>. HIDE DEF T
<1>4. PICK n \in 1..Len(stacks[h]) : \E k \in OpenAt(prog[stacks[h][n].fn], stacks[h][n].pc) :
        T = <<h, stacks[h][n].id, CatchOf(prog[stacks[h][n].fn], k) + 1>>
  <2>1. PICK n \in 1..Len(stacks[h]) : T \in TriesIn(prog, h, stacks[h][n])
    BY <1>2 DEF TriesOf
  <2>. QED
    BY <2>1 DEF TriesIn
<1>5. T = <<tries[i].fiber, tries[i].id, tries[i].pc>>
  BY DEF Handler, T
<1>6. PICK k \in OpenAt(prog[stacks[h][n].fn], stacks[h][n].pc) :
        tries[i].fiber = h /\ tries[i].id = stacks[h][n].id /\ tries[i].pc = CatchOf(prog[stacks[h][n].fn], k) + 1
  BY <1>4, <1>5
<1>. QED
  BY <1>3, <1>6

(* A frame that has gone on: old was at an instruction that stores nothing *)
(* but its result.                                                         *)
Near(p, old, fr) ==
  /\ fr.fn = old.fn /\ fr.id = old.id /\ fr.saved = old.saved
  /\ \A t \in TempsOf(p[old.fn]) :
       Gives(p[old.fn], old.pc, t) \/ (fr.slot[t] = old.slot[t] /\ fr.want[t] = old.want[t])

(* What a handler needs stays, whatever happens in its try clause.         *)
LEMMA TryStays ==
  ASSUME AllReady(prog, table), Nested, RunOK, ShapesOK(prog, table, stacks),
         TrySnap(prog, table, stacks, tries, depth),
         NEW fib \in DOMAIN stacks, NEW n \in 1..(Len(stacks[fib]) + 1), NEW fr,
         IF n = Len(stacks[fib]) + 1 THEN fr.id = clock ELSE Near(prog, stacks[fib][n], fr),
         NEW S, S[fib] = Cut(stacks[fib], n, fr), \A h \in DOMAIN stacks : h # fib => S[h] = stacks[h],
         NEW trs, NEW d \in Int, d <= depth, \A i \in 0..(d - 1) : trs[i] = tries[i]
  PROVE  TrySnap(prog, table, S, trs, d)
<1>. DEFINE s == stacks[fib]
            u == Cut(s, n, fr)
<1>1. prog \in Programs /\ depth \in Nat
  BY DEF AllReady, RunOK, Match
<1>2. IsList(s) /\ Len(s) \in Nat /\ Framed(prog, table, s, Len(s))
  BY <1>1, FramedIs
<1>3. Len(u) = n /\ u[n] = fr /\ \A m \in 1..(n - 1) : u[m] = s[m]
  BY <1>2, CutIs
<1>4. SUFFICES ASSUME NEW i \in 0..(d - 1), Kept(prog, tries[i].fiber), NEW l \in 1..Len(S[tries[i].fiber]),
                      S[tries[i].fiber][l].id = tries[i].id
               PROVE  Snap(prog, table, S[tries[i].fiber], l, tries[i].pc, tries[i].regs)
  <2>1. \A i \in 0..(d - 1) : trs[i] = tries[i]
    OBVIOUS
  <2>. QED
    BY <1>4, <2>1 DEF TrySnap
<1>. DEFINE h == tries[i].fiber
            pl == tries[i]
<1>5. i \in 0..(depth - 1)
  BY <1>1
<1>6. /\ h \in DOMAIN stacks
      /\ \E m \in 1..Len(stacks[h]) : \E k \in OpenAt(prog[stacks[h][m].fn], stacks[h][m].pc) :
           stacks[h][m].id = pl.id /\ pl.pc = CatchOf(prog[stacks[h][m].fn], k) + 1
  BY <1>1, <1>5, HandlerIs
<1>7. PICK m \in 1..Len(stacks[h]) : \E k \in OpenAt(prog[stacks[h][m].fn], stacks[h][m].pc) :
           stacks[h][m].id = pl.id /\ pl.pc = CatchOf(prog[stacks[h][m].fn], k) + 1
  BY <1>6
<1>8. PICK k \in OpenAt(prog[stacks[h][m].fn], stacks[h][m].pc) :
           stacks[h][m].id = pl.id /\ pl.pc = CatchOf(prog[stacks[h][m].fn], k) + 1
  BY <1>7
<1>9. StackOK(prog, clock, h, stacks[h])
  BY <1>6 DEF RunOK, StacksOK
<1>10. Len(stacks[h]) \in Nat
  BY <1>1, <1>6, FramedIs
<1>11. Snap(prog, table, stacks[h], m, pl.pc, pl.regs)
  BY <1>4, <1>5, <1>8 DEF TrySnap
<1>12. CASE h # fib
  <2>1. S[h] = stacks[h]
    BY <1>6, <1>12
  <2>2. l = m
    <3>1. stacks[h][l].id = stacks[h][m].id /\ l \in 1..Len(stacks[h])
      BY <1>4, <1>8, <2>1
    <3>2. ~(l < m) /\ ~(m < l)
      <4>1. \A a, b \in 1..Len(stacks[h]) : a < b => stacks[h][a].id < stacks[h][b].id
        BY <1>9 DEF StackOK
      <4>2. stacks[h][m].id \in Nat
        BY <1>9 DEF StackOK, FrameOK
      <4>3. stacks[h][l].id < stacks[h][m].id \/ stacks[h][m].id < stacks[h][l].id => FALSE
        <5>. DEFINE x == stacks[h][m].id
        <5>1. x \in Nat /\ stacks[h][l].id = x
          BY <3>1, <4>2
        <5>. HIDE DEF x
        <5>2. ~(x < x)
          BY <5>1
        <5>. QED
          BY <5>1, <5>2 DEF x
      <4>. QED
        BY <3>1, <4>1, <4>3
    <3>. QED
      BY <1>10, <3>1, <3>2
  <2>. QED
    BY <1>11, <2>1, <2>2
<1>13. CASE h = fib
  <2>1. S[h] = u /\ stacks[h] = s /\ l \in 1..n
    BY <1>3, <1>4, <1>13
  <2>2. \A a, b \in 1..Len(s) : a < b => s[a].id < s[b].id
    BY <1>9, <1>13 DEF StackOK
  <2>3. s[m].id \in Nat /\ s[m].id < clock
    BY <1>9, <1>13 DEF StackOK, FrameOK
  <2>4. u[l].id = s[m].id
    BY <1>4, <1>8, <2>1
  <2>5. l <= Len(s) /\ u[l].id = s[l].id
    <3>1. CASE l = n
      <4>1. n # Len(s) + 1
        <5>1. n = Len(s) + 1 => u[n].id = clock
          BY <1>3
        <5>. QED
          BY <2>3, <2>4, <3>1, <5>1
      <4>2. Near(prog, s[n], fr)
        BY <4>1
      <4>. QED
        BY <1>2, <1>3, <3>1, <4>1, <4>2 DEF Near
    <3>2. CASE l # n
      <4>1. l \in 1..(n - 1)
        BY <1>2, <2>1, <3>2
      <4>. QED
        BY <1>2, <1>3, <4>1
    <3>. QED
      BY <3>1, <3>2
  <2>6. l = m
    <3>1. l \in 1..Len(s) /\ m \in 1..Len(s) /\ s[l].id = s[m].id
      BY <1>2, <1>13, <2>1, <2>4, <2>5
    <3>2. ~(l < m) /\ ~(m < l)
      BY <2>2, <2>3, <3>1
    <3>. QED
      BY <1>2, <3>1, <3>2
  <2>7. s[m].fn \in Fns /\ TriesNested(prog[s[m].fn]) /\ Len(prog[s[m].fn]) \in Nat
    <3>1. s[m].fn \in Fns
      BY <1>9, <1>13 DEF StackOK, FrameOK
    <3>. QED
      BY <1>1, <3>1, CodeIs DEF Nested
  <2>8. \A q \in 1..m : q # m => u[q] = s[q]
    <3>1. \A q \in 1..m : q # m => q \in 1..(n - 1)
      BY <1>2, <2>1, <2>6
    <3>. QED
      BY <1>3, <3>1
  <2>9. CASE l # n
    <3>1. u[m] = s[m]
      <4>1. l \in 1..(n - 1)
        BY <1>2, <2>1, <2>9
      <4>. QED
        BY <1>3, <2>6, <4>1
    <3>2. \A q \in 1..m : u[q] = s[q]
      BY <2>8, <3>1
    <3>3. m \in Nat
      BY <1>2, <1>13
    <3>4. Snap(prog, table, s, m, pl.pc, pl.regs)
      BY <1>11, <1>13
    <3>. HIDE DEF u, s, pl
    <3>5. Snap(prog, table, u, m, pl.pc, pl.regs)
      BY <3>2, <3>3, <3>4, SnapLike
    <3>. QED
      BY <2>1, <2>6, <3>5 DEF pl
  <2>10. CASE l = n
    <3>1. Near(prog, s[m], fr) /\ u[m] = fr
      BY <1>2, <1>3, <2>5, <2>6, <2>10
    <3>2. \A q \in 1..m : u[q].fn = s[q].fn /\ u[q].saved = s[q].saved
      BY <2>8, <3>1 DEF Near
    <3>3. m \in Nat
      BY <1>2, <1>13
    <3>4. Snap(prog, table, s, m, pl.pc, pl.regs)
      BY <1>11, <1>13
    <3>5. ASSUME NEW t \in Live(prog, table, s[m].fn, pl.pc)
          PROVE  u[m].slot[t] = s[m].slot[t] /\ u[m].want[t] = s[m].want[t]
      <4>. DEFINE c == prog[s[m].fn]
      <4>1. k \in OpenAt(c, s[m].pc) /\ pl.pc = CatchOf(c, k) + 1
        BY <1>8, <1>13
      <4>2. k \in 1..Len(c) /\ c[k].op = "TRY_BEGIN" /\ s[m].pc \in k..CatchOf(c, k)
        <5>1. FrameOK(prog, clock, s[m])
          BY <1>9, <1>13 DEF StackOK
        <5>2. s[m].pc \in 1..(Len(c) + 1)
          BY <5>1 DEF FrameOK
        <5>3. CatchOf(c, k) \in s[m].pc..Len(c) /\ k \in 1..Len(c) /\ k < s[m].pc
          BY <2>7, <4>1, <5>2, OpenCatch
        <5>. QED
          BY <2>7, <4>1, <5>2, <5>3 DEF OpenAt
      <4>3. t \in Live(prog, table, s[m].fn, CatchOf(c, k) + 1)
        BY <4>1
      <4>4. ~Gives(c, s[m].pc, t)
        BY <2>7, <4>2, <4>3, TryLive
      <4>5. t \in TempsOf(c)
        BY DEF Live
      <4>. QED
        BY <3>1, <4>4, <4>5 DEF Near
    <3>. HIDE DEF u, s, pl
    <3>6. Snap(prog, table, u, m, pl.pc, pl.regs)
      BY <2>8, <3>2, <3>3, <3>4, <3>5, SnapLike
    <3>. QED
      BY <2>1, <2>6, <3>6 DEF pl
  <2>. QED
    BY <2>9, <2>10
<1>. QED
  BY <1>12, <1>13

(* A step of the stack that runs: n is where its top frame, fr, now is.    *)
Turns(n, fr) ==
  /\ n \in 1..(Len(stacks[fiber]) + 1)
  /\ stacks' = [stacks EXCEPT ![fiber] = Cut(stacks[fiber], n, fr)]
  /\ prog' = prog /\ table' = table /\ fiber' = fiber /\ GensGrow

(* It leaves the other stacks alone.                                       *)
LEMMA TurnsIs ==
  ASSUME prog \in Programs, Nested, RunOK, NEW n, NEW fr, Turns(n, fr)
  PROVE  /\ fiber \in DOMAIN stacks /\ DOMAIN stacks' = DOMAIN stacks
         /\ stacks'[fiber] = Cut(stacks[fiber], n, fr)
         /\ \A h \in DOMAIN stacks : h # fiber => stacks'[h] = stacks[h]
  BY TopIs DEF Turns

(* What a frame that goes on finds is what is to be shown of such a step.  *)
LEMMA StayValues ==
  ASSUME AllReady(prog, table), Nested, RunOK, ValuesOK, NEW n, NEW fr, Turns(n, fr),
         ShapeOK(prog, table, fr),
         Kept(prog, fiber) => Snap(prog, table, Cut(stacks[fiber], n, fr), n, fr.pc, regs'),
         TrySnap(prog, table, stacks', tries', depth')
  PROVE  ValuesOK'
<1>. DEFINE s == stacks[fiber]
            u == Cut(s, n, fr)
<1>1. prog \in Programs /\ ShapesOK(prog, table, stacks)
  BY DEF AllReady, ValuesOK
<1>2. /\ fiber \in DOMAIN stacks /\ DOMAIN stacks' = DOMAIN stacks /\ stacks'[fiber] = u
      /\ \A h \in DOMAIN stacks : h # fiber => stacks'[h] = stacks[h]
  BY <1>1, TurnsIs
<1>3. prog' = prog /\ table' = table /\ fiber' = fiber /\ n \in 1..(Len(s) + 1) /\ GensGrow
  BY DEF Turns
<1>4. IsList(s) /\ Len(s) \in Nat
  BY <1>1, <1>2, FramedIs
<1>5. IsList(u) /\ Len(u) = n /\ u[n] = fr /\ \A m \in 1..(n - 1) : u[m] = s[m]
  BY <1>3, <1>4, CutIs
<1>6. Last(u) = fr
  <2>1. Last(u) = u[Len(u)]
    BY <1>3, <1>4, <1>5, CutsAre
  <2>. QED
    BY <1>5, <2>1
<1>. HIDE DEF u
<1>7. ShapesOK(prog, table, stacks')
  <2>1. ASSUME NEW h \in DOMAIN stacks', NEW m \in 1..Len(stacks'[h]) PROVE ShapeOK(prog, table, stacks'[h][m])
    <3>1. CASE h # fiber
      BY <1>1, <1>2, <2>1, <3>1 DEF ShapesOK
    <3>2. CASE h = fiber /\ m = n
      BY <1>2, <1>5, <3>2
    <3>3. CASE h = fiber /\ m # n
      <4>1. m \in 1..(n - 1) /\ m \in 1..Len(s)
        BY <1>2, <1>3, <1>4, <1>5, <2>1, <3>3
      <4>. QED
        BY <1>1, <1>2, <1>5, <3>3, <4>1 DEF ShapesOK
    <3>. QED
      BY <3>1, <3>2, <3>3
  <2>. QED
    BY <2>1 DEF ShapesOK
<1>8. Kept(prog, fiber) => Snap(prog, table, stacks'[fiber], Len(stacks'[fiber]), Last(stacks'[fiber]).pc, regs')
  BY <1>2, <1>5, <1>6 DEF u
<1>9. \A h \in DOMAIN gens : h < clock /\ h \in Nat
  BY DEF RunOK, GensOK
<1>10. clock \in Nat
  BY DEF RunOK, StacksOK
<1>11. \A h \in DOMAIN gens' : (h \in DOMAIN gens /\ gens'[h] = gens[h]) \/ gens'[h].fresh
  BY <1>3 DEF GensGrow, With
<1>12. \A h \in DOMAIN gens : h \in DOMAIN gens' /\ gens'[h] = gens[h]
  <2>1. \A h \in DOMAIN gens : h # clock
    BY <1>9, <1>10
  <2>. QED
    BY <1>3, <2>1 DEF GensGrow, With
<1>13. AwaySnap(prog, table, stacks', fiber, gens')
  <2>1. CASE fiber = Start
    BY <2>1 DEF AwaySnap
  <2>2. CASE fiber # Start
    <3>1. stacks'[Start] = stacks[Start]
      BY <1>2, <2>2 DEF RunOK, StacksOK
    <3>2. gens'[fiber] = gens[fiber]
      BY <1>12, <2>2 DEF RunOK, AwayOK
    <3>. QED
      BY <3>1, <3>2 DEF AwaySnap, ValuesOK
  <2>. QED
    BY <2>1, <2>2
<1>14. GenSnap(prog, table, stacks', fiber, gens')
  <2>1. ASSUME NEW h \in DOMAIN gens', Kept(prog, h), h # fiber, ~gens'[h].fresh, ~gens'[h].done
        PROVE  Snap(prog, table, stacks'[h], 1, gens'[h].gen.pc, gens'[h].gen.regs)
    <3>1. h \in DOMAIN gens /\ gens'[h] = gens[h]
      BY <1>11, <2>1
    <3>2. h \in DOMAIN stacks
      BY <2>1, <3>1 DEF RunOK, GensOK, Suspended
    <3>3. stacks'[h] = stacks[h]
      BY <1>2, <2>1, <3>2
    <3>. QED
      BY <2>1, <3>1, <3>3 DEF ValuesOK, GenSnap
  <2>. QED
    BY <2>1 DEF GenSnap
<1>. QED
  BY <1>3, <1>7, <1>8, <1>13, <1>14 DEF ValuesOK

(* So does a step that installs no handler.                                *)
LEMMA PlainValues ==
  ASSUME AllReady(prog, table), Nested, RunOK, ValuesOK, NEW n, NEW fr, Turns(n, fr),
         IF n = Len(stacks[fiber]) + 1 THEN fr.id = clock ELSE Near(prog, stacks[fiber][n], fr),
         tries' = tries, depth' \in Int, depth' <= depth, ShapeOK(prog, table, fr),
         Kept(prog, fiber) => Snap(prog, table, Cut(stacks[fiber], n, fr), n, fr.pc, regs')
  PROVE  ValuesOK'
<1>1. prog \in Programs /\ ShapesOK(prog, table, stacks) /\ TrySnap(prog, table, stacks, tries, depth)
  BY DEF AllReady, ValuesOK
<1>2. TrySnap(prog, table, stacks', tries', depth')
  <2>1. /\ fiber \in DOMAIN stacks /\ stacks'[fiber] = Cut(stacks[fiber], n, fr)
        /\ \A h \in DOMAIN stacks : h # fiber => stacks'[h] = stacks[h]
    BY <1>1, TurnsIs
  <2>2. n \in 1..(Len(stacks[fiber]) + 1)
    BY DEF Turns
  <2>. QED
    BY <1>1, <2>1, <2>2, TryStays
<1>. QED
  BY <1>2, StayValues

-----------------------------------------------------------------------------
(* The steps of the frame on top.                                          *)

Valued == AllReady(prog, table) /\ Nested /\ RunOK /\ ValuesOK

(* The frame on top, its code, and what it finds.                          *)
LEMMA TopValues ==
  ASSUME Valued
  PROVE  LET s == stacks[fiber]
             m == Len(stacks[fiber])
         IN /\ prog \in Programs /\ Nested /\ RunOK /\ ValuesOK /\ AllReady(prog, table)
            /\ ShapesOK(prog, table, stacks)
            /\ fiber \in DOMAIN stacks /\ IsList(s) /\ m \in Nat /\ m # 0 /\ m \in 1..m
            /\ Top = s[m] /\ Top.fn \in Fns /\ DOMAIN Top = Fields
            /\ ShapeOK(prog, table, Top) /\ Framed(prog, table, s, m)
            /\ TriesNested(prog[Top.fn]) /\ Code(Top) = prog[Top.fn]
            /\ \A fr : WithTop(fiber, fr) = [stacks EXCEPT ![fiber] = Cut(s, m, fr)]
            /\ Kept(prog, fiber) => Snap(prog, table, s, m, Top.pc, regs)
<1>. DEFINE s == stacks[fiber]
            m == Len(stacks[fiber])
<1>1. /\ prog \in Programs /\ Nested /\ RunOK /\ ValuesOK /\ AllReady(prog, table)
      /\ ShapesOK(prog, table, stacks)
  BY DEF Valued, ValuesOK, AllReady
<1>2. /\ IsList(s) /\ m \in Nat /\ m # 0 /\ Top = s[m] /\ Top.fn \in Fns /\ FrameOK(prog, clock, Top)
      /\ TriesNested(prog[Top.fn]) /\ fiber \in DOMAIN stacks
  BY <1>1, TopIs
<1>3. DOMAIN Top = Fields
  BY <1>2 DEF FrameOK
<1>4. m \in 1..m /\ Framed(prog, table, s, m)
  BY <1>1, <1>2, FramedIs
<1>5. ShapeOK(prog, table, Top)
  BY <1>2, <1>4 DEF Framed
<1>6. ASSUME NEW fr PROVE WithTop(fiber, fr) = [stacks EXCEPT ![fiber] = Cut(s, m, fr)]
  BY <1>2, CutsAre DEF WithTop
<1>7. Kept(prog, fiber) => Snap(prog, table, s, m, Top.pc, regs)
  BY <1>1 DEF ValuesOK, Top
<1>. QED
  BY <1>1, <1>2, <1>3, <1>4, <1>5, <1>6, <1>7 DEF Code

(* A frame that goes to pc, where nothing else is live than where it is.   *)
LEMMA MoveValues ==
  ASSUME Valued, NEW pc, stacks' = WithTop(fiber, [Top EXCEPT !.pc = pc]),
         \A t \in Live(prog, table, Top.fn, pc) : t \in Live(prog, table, Top.fn, Top.pc),
         regs' = regs, prog' = prog, table' = table, fiber' = fiber, gens' = gens,
         tries' = tries, depth' \in Int, depth' <= depth
  PROVE  ValuesOK'
<1>. DEFINE s == stacks[fiber]
            m == Len(stacks[fiber])
            fr == [Top EXCEPT !.pc = pc]
<1>1. /\ AllReady(prog, table) /\ Nested /\ RunOK /\ ValuesOK /\ IsList(s)
      /\ m \in Nat /\ m \in 1..m /\ Top = s[m] /\ ShapeOK(prog, table, Top)
      /\ stacks' = [stacks EXCEPT ![fiber] = Cut(s, m, fr)]
      /\ Kept(prog, fiber) => Snap(prog, table, s, m, Top.pc, regs)
  BY TopValues
<1>2. /\ fr.fn = Top.fn /\ fr.id = Top.id /\ fr.saved = Top.saved
      /\ fr.slot = Top.slot /\ fr.want = Top.want /\ fr.pc = pc
  BY TopValues DEF Fields
<1>. HIDE DEF fr
<1>3. Turns(m, fr)
  <2>1. m \in 1..(Len(stacks[fiber]) + 1)
    BY <1>1
  <2>. QED
    BY <1>1, <2>1 DEF Turns, GensGrow
<1>4. Near(prog, s[m], fr)
  BY <1>1, <1>2 DEF Near
<1>5. ShapeOK(prog, table, fr)
  BY <1>1, <1>2 DEF ShapeOK
<1>6. Kept(prog, fiber) => Snap(prog, table, Cut(s, m, fr), m, fr.pc, regs')
  <2>1. m \in 1..(m + 1)
    BY <1>1
  <2>2. Cut(s, m, fr)[m] = fr /\ \A n \in 1..(m - 1) : Cut(s, m, fr)[n] = s[n]
    BY <1>1, <2>1, CutIs
  <2>. DEFINE z == Cut(s, m, fr)
  <2>3. \A n \in 1..m : n # m => z[n] = s[n]
    BY <1>1, <2>2
  <2>4. \A n \in 1..m : z[n].fn = s[n].fn /\ z[n].saved = s[n].saved
    BY <1>1, <1>2, <2>2, <2>3
  <2>5. z[m].slot = s[m].slot /\ z[m].want = s[m].want
    BY <1>1, <1>2, <2>2
  <2>. HIDE DEF z, s, m
  <2>6. SUFFICES ASSUME Snap(prog, table, s, m, Top.pc, regs) PROVE Snap(prog, table, z, m, pc, regs)
    BY <1>1, <1>2 DEF z, s, m
  <2>. QED
    BY <1>1, <2>3, <2>4, <2>5, <2>6, SnapLike
<1>7. m # Len(stacks[fiber]) + 1
  BY <1>1
<1>. QED
  BY <1>1, <1>3, <1>4, <1>5, <1>6, <1>7, PlainValues

(* Along a step that stores nothing nothing becomes live.                  *)
LEMMA MoveLive ==
  ASSUME Valued, NEW op, Doing(op), op \notin Producing, NEW j, Follows(Code(Top), Top.pc, j)
  PROVE  \A t \in Live(prog, table, Top.fn, j) : t \in Live(prog, table, Top.fn, Top.pc)
<1>1. /\ AllReady(prog, table) /\ Top.fn \in Fns /\ TriesNested(prog[Top.fn]) /\ Code(Top) = prog[Top.fn]
      /\ prog \in Programs /\ Nested /\ RunOK
  BY TopValues
<1>2. Top.pc \in 1..Len(prog[Top.fn]) /\ prog[Top.fn][Top.pc].op = op
  BY <1>1, DoingIs
<1>3. \A t : ~Gives(prog[Top.fn], Top.pc, t)
  BY <1>2 DEF Gives
<1>. QED
  BY <1>1, <1>2, <1>3, EdgeLive

(* Instructions that only go on, or jump.                                  *)
LEMMA PassValues ==
  ASSUME Valued, Label \/ GoOn \/ LockEnd \/ TryEnd \/ (LockBegin /\ mode' = "run") \/ JumpTo \/ CatchBegin
  PROVE  ValuesOK'
<1>1. prog \in Programs /\ Nested /\ RunOK /\ depth \in Nat
  BY TopValues DEF RunOK, Match
<1>2. CASE Label \/ GoOn \/ LockEnd \/ TryEnd \/ (LockBegin /\ mode' = "run")
  <2>1. PICK op \in {"LABEL", "JUMP_IF_TRUE", "LOCK_END", "AFTER_BEGIN", "TRY_END", "LOCK_BEGIN"} : Doing(op)
    BY <1>2 DEF Label, GoOn, LockEnd, TryEnd, LockBegin
  <2>2. /\ GoTo(Top.pc + 1) /\ regs' = regs /\ prog' = prog /\ table' = table /\ fiber' = fiber
        /\ gens' = gens /\ tries' = tries /\ depth' = depth
    BY <1>2 DEF Label, GoOn, LockEnd, TryEnd, LockBegin, Stop, compiled, Doing
  <2>3. Follows(Code(Top), Top.pc, Top.pc + 1)
    BY <1>1, <2>1, DoingIs DEF Follows
  <2>4. \A t \in Live(prog, table, Top.fn, Top.pc + 1) : t \in Live(prog, table, Top.fn, Top.pc)
    BY <2>1, <2>3, MoveLive DEF Producing
  <2>. QED
    BY <1>1, <2>2, <2>4, MoveValues DEF GoTo
<1>3. CASE JumpTo
  <2>1. Doing("JUMP_IF_TRUE") /\ Follows(Code(Top), Top.pc, LabelOf(Code(Top), At(Top).lab))
    BY <1>3, <1>1, DoingIs DEF Follows, JumpTo, At
  <2>2. /\ GoTo(LabelOf(Code(Top), At(Top).lab)) /\ regs' = regs /\ prog' = prog /\ table' = table /\ fiber' = fiber
        /\ gens' = gens /\ tries' = tries /\ depth' = depth
    BY <1>3 DEF JumpTo, compiled
  <2>3. \A t \in Live(prog, table, Top.fn, LabelOf(Code(Top), At(Top).lab)) : t \in Live(prog, table, Top.fn, Top.pc)
    BY <2>1, MoveLive DEF Producing
  <2>. QED
    BY <1>1, <2>2, <2>3, MoveValues DEF GoTo
<1>4. CASE CatchBegin
  <2>1. Doing("CATCH_BEGIN") /\ Follows(Code(Top), Top.pc, SkipOf(Code(Top), Top.pc))
    BY <1>4, <1>1, DoingIs DEF Follows, CatchBegin
  <2>2. /\ GoTo(SkipOf(Code(Top), Top.pc)) /\ regs' = regs /\ prog' = prog /\ table' = table /\ fiber' = fiber
        /\ gens' = gens /\ tries' = tries /\ depth' = depth - 1
    BY <1>4 DEF CatchBegin, compiled
  <2>3. \A t \in Live(prog, table, Top.fn, SkipOf(Code(Top), Top.pc)) : t \in Live(prog, table, Top.fn, Top.pc)
    BY <2>1, MoveLive DEF Producing
  <2>4. depth' \in Int /\ depth' <= depth
    BY <1>1, <2>2
  <2>. QED
    BY <1>1, <2>2, <2>3, <2>4, MoveValues DEF GoTo
<1>. QED
  BY <1>2, <1>3, <1>4

(* Stored and Stepped store a result.                                      *)
LEMMA StoredIs ==
  ASSUME AllReady(prog, table), NEW fr, DOMAIN fr = Fields, fr.fn \in Fns, fr.pc \in 1..Len(prog[fr.fn]),
         prog[fr.fn][fr.pc].op \in Producing, ShapeOK(prog, table, fr), NEW rg, NEW v
  PROVE  LET to == Stepped(fr, v, v)
         IN /\ Stores(prog, table, fr, fr.pc, rg, v, to, Stored(fr, rg, v))
            /\ ShapeOK(prog, table, to) /\ Near(prog, fr, to) /\ to.pc = fr.pc + 1
<1>. DEFINE to == Stepped(fr, v, v)
            c == prog[fr.fn]
            u == c[fr.pc].res
            r == table[fr.fn].reg[u]
<1>1. At(fr).res = u /\ Where(fr, u) = r
  BY DEF At, Code, Where
<1>2. u # NoTemp => u \in TempsOf(c)
  BY DEF TempsOf, Mentions
<1>3. /\ {"fn", "id", "saved", "slot", "want", "pc"} \subseteq DOMAIN fr
      /\ DOMAIN fr.slot = TempsOf(c) /\ DOMAIN fr.want = TempsOf(c)
  BY DEF Fields, ShapeOK
<1>4. /\ to.fn = fr.fn /\ to.id = fr.id /\ to.saved = fr.saved /\ to.pc = fr.pc + 1
      /\ u = NoTemp => to.slot = fr.slot /\ to.want = fr.want
      /\ u # NoTemp => /\ to.want = [fr.want EXCEPT ![u] = v]
                       /\ to.slot = [fr.slot EXCEPT ![u] = IF r = NoReg THEN v ELSE @]
  BY <1>1, <1>3 DEF Stepped
<1>5. /\ u = NoTemp => Stored(fr, rg, v) = rg
      /\ u # NoTemp => Stored(fr, rg, v) = IF r = NoReg THEN rg ELSE [rg EXCEPT ![r] = v]
  BY <1>1 DEF Stored
<1>. HIDE DEF to
<1>6. Stores(prog, table, fr, fr.pc, rg, v, to, Stored(fr, rg, v))
  BY <1>2, <1>4, <1>5 DEF Stores
<1>7. ShapeOK(prog, table, to)
  BY <1>4 DEF ShapeOK
<1>8. Near(prog, fr, to)
  <2>1. ASSUME NEW t \in TempsOf(c), ~Gives(c, fr.pc, t)
        PROVE  to.slot[t] = fr.slot[t] /\ to.want[t] = fr.want[t]
    <3>1. t # u
      BY <2>1 DEF Gives
    <3>. QED
      BY <1>3, <1>4, <3>1
  <2>. QED
    BY <1>4, <2>1 DEF Near
<1>. QED
  BY <1>4, <1>6, <1>7, <1>8 DEF to

(* An instruction that stores its result on top of what the registers rg   *)
(* held.                                                                   *)
LEMMA FinishValues ==
  ASSUME Valued, NEW op \in Producing, Doing(op), NEW rg, NEW v, Finish(rg, v),
         Kept(prog, fiber) => Snap(prog, table, stacks[fiber], Len(stacks[fiber]), Top.pc, rg),
         prog' = prog, table' = table, fiber' = fiber, GensGrow, tries' = tries, depth' = depth
  PROVE  ValuesOK'
<1>. DEFINE s == stacks[fiber]
            m == Len(stacks[fiber])
            fr == Stepped(Top, v, v)
<1>1. /\ AllReady(prog, table) /\ Nested /\ RunOK /\ ValuesOK /\ IsList(s) /\ prog \in Programs
      /\ m \in Nat /\ m # 0 /\ m \in 1..m /\ Top = s[m] /\ ShapeOK(prog, table, Top) /\ DOMAIN Top = Fields
      /\ Top.fn \in Fns /\ Framed(prog, table, s, m) /\ TriesNested(prog[Top.fn]) /\ Code(Top) = prog[Top.fn]
      /\ WithTop(fiber, fr) = [stacks EXCEPT ![fiber] = Cut(s, m, fr)]
  BY TopValues
<1>2. Top.pc \in 1..Len(prog[Top.fn]) /\ prog[Top.fn][Top.pc].op \in Producing
  BY <1>1, DoingIs
<1>3. /\ Stores(prog, table, Top, Top.pc, rg, v, fr, Stored(Top, rg, v))
      /\ ShapeOK(prog, table, fr) /\ Near(prog, Top, fr) /\ fr.pc = Top.pc + 1
  BY <1>1, <1>2, StoredIs
<1>4. regs' = Stored(Top, rg, v) /\ stacks' = [stacks EXCEPT ![fiber] = Cut(s, m, fr)]
  BY <1>1 DEF Finish
<1>. HIDE DEF fr
<1>5. m \in 1..(Len(stacks[fiber]) + 1) /\ m # Len(stacks[fiber]) + 1 /\ depth' \in Int /\ depth' <= depth
  BY <1>1 DEF RunOK, Match
<1>6. Turns(m, fr)
  BY <1>4, <1>5 DEF Turns
<1>7. Kept(prog, fiber) => Snap(prog, table, Cut(s, m, fr), m, fr.pc, regs')
  <2>. DEFINE z == Cut(s, m, fr)
  <2>1. z[m] = fr /\ \A n \in 1..(m - 1) : z[n] = s[n]
    BY <1>1, <1>5, CutIs
  <2>2. \A n \in 1..m : n # m => z[n] = s[n]
    BY <1>1, <2>1
  <2>. HIDE DEF z, s, m
  <2>3. SUFFICES ASSUME Snap(prog, table, s, m, Top.pc, rg) PROVE Snap(prog, table, z, m, Top.pc + 1, regs')
    BY <1>3 DEF z, s, m
  <2>4. /\ Framed(prog, table, s, m) /\ TriesNested(prog[s[m].fn]) /\ Top.pc \in 1..Len(prog[s[m].fn])
        /\ prog[s[m].fn][Top.pc].op \in Producing /\ Stores(prog, table, s[m], Top.pc, rg, v, fr, regs')
        /\ m \in Nat /\ m # 0 /\ AllReady(prog, table) /\ z[m] = fr
    <3>1. Top = s[m]
      BY <1>1
    <3>. QED
      BY <1>1, <1>2, <1>3, <1>4, <2>1, <3>1
  <2>. QED
    BY <2>2, <2>3, <2>4, SnapStore
<1>. QED
  BY <1>1, <1>3, <1>4, <1>5, <1>6, <1>7, PlainValues

(* Instructions that make a value.                                         *)
LEMMA MakeValues ==
  ASSUME Valued, Make \/ Divide \/ GenSkip \/ GenCreate
  PROVE  ValuesOK'
<1>1. PICK op \in {"MAKE", "DIVIDE", "GEN_NEXT", "GEN_CREATE"} : Doing(op)
  BY DEF Make, Divide, GenSkip, GenCreate
<1>2. PICK v : Finish(regs, v)
  BY DEF Make, Divide, GenSkip, GenCreate
<1>3. /\ prog' = prog /\ table' = table /\ fiber' = fiber /\ tries' = tries /\ depth' = depth
  BY DEF Make, Divide, GenSkip, GenCreate, compiled
<1>4. GensGrow
  <2>1. CASE GenCreate
    <3>. DEFINE g == [done |-> FALSE, value |-> Junk, fresh |-> TRUE, gen |-> Place(1), caller |-> Place(1)]
    <3>1. gens' = With(gens, clock, g) /\ clock' = clock + 1 /\ clock \in Nat
      BY <2>1, TopValues DEF GenCreate, Tick, RunOK, StacksOK
    <3>2. DOMAIN g = Block /\ g.fresh /\ clock < clock'
      BY <3>1 DEF Block
    <3>. QED
      BY <3>1, <3>2 DEF GensGrow
  <2>2. CASE Make \/ Divide \/ GenSkip
    BY <2>2 DEF Make, Divide, GenSkip, GensGrow
  <2>. QED
    BY <2>1, <2>2
<1>5. Kept(prog, fiber) => Snap(prog, table, stacks[fiber], Len(stacks[fiber]), Top.pc, regs)
  BY TopValues
<1>6. op \in Producing
  BY DEF Producing
<1>. QED
  BY <1>1, <1>2, <1>3, <1>4, <1>5, <1>6, FinishValues

(* Inline code that works in registers that hold something.                *)
LEMMA ScratchValues ==
  ASSUME Valued, OneGenerator, Range_ \/ Construct
  PROVE  ValuesOK'
<1>. DEFINE s == stacks[fiber]
            m == Len(stacks[fiber])
            rg(used) == [r \in Registers |-> IF r \in used THEN Junk ELSE regs[r]]
<1>1. PICK op \in {"RANGE", "CONSTRUCT"}, used \in {RangeScratch, NewScratch} : Scratch(op, used)
  BY DEF Range_, Construct
<1>2. /\ Doing(op) /\ Finish(rg(used), clock) /\ prog' = prog /\ table' = table /\ fiber' = fiber
      /\ tries' = tries /\ depth' = depth /\ GensGrow /\ op \in Producing
  BY <1>1 DEF Scratch, compiled, GensGrow, Producing
<1>3. /\ AllReady(prog, table) /\ Nested /\ RunOK /\ prog \in Programs /\ m \in Nat /\ m \in 1..m
      /\ Top = s[m] /\ Framed(prog, table, s, m) /\ fiber \in DOMAIN stacks
      /\ Kept(prog, fiber) => Snap(prog, table, s, m, Top.pc, regs)
  BY TopValues
<1>4. Top.pc \in 1..Len(prog[Top.fn]) /\ prog[Top.fn][Top.pc].op = op
  BY <1>2, <1>3, TopValues, DoingIs
<1>5. ASSUME NEW n \in 1..m PROVE Scratches(prog, prog[s[n].fn][IF n = m THEN Top.pc ELSE s[n].pc])
  <2>1. CASE n = m
    BY <1>3, <1>4, <2>1 DEF Scratches
  <2>2. CASE n # m
    <3>1. n < m /\ m > 1
      BY <1>3, <1>5, <2>2
    <3>2. StackOK(prog, clock, fiber, s)
      BY <1>3 DEF RunOK, StacksOK
    <3>3. Waits(prog, s[n], "CALL") /\ s[m].fn = "f" /\ s[n].fn \in Fns
      BY <1>3, <3>1, <3>2 DEF StackOK, Framed
    <3>4. s[n].pc \in 1..Len(prog[s[n].fn])
      BY <3>2, <3>3 DEF StackOK, FrameOK, Waits
    <3>5. prog[s[n].fn][s[n].pc].op = "CALL" /\ prog[s[n].fn][s[n].pc].lab = "f"
      BY <1>3, <3>3, <3>4 DEF Waits, OneGenerator
    <3>6. Top.pc \in 1..Len(prog["f"]) /\ prog["f"][Top.pc].op \in {"RANGE", "CONSTRUCT"}
      BY <1>3, <1>4, <3>3
    <3>. QED
      BY <2>2, <3>5, <3>6 DEF Scratches
  <2>. QED
    BY <2>1, <2>2
<1>6. DOMAIN rg(used) = Registers /\ \A r \in Registers : rg(used)[r] = regs[r] \/ rg(used)[r] = Junk
  OBVIOUS
<1>7. Kept(prog, fiber) => Snap(prog, table, s, m, Top.pc, rg(used))
  <2>. HIDE DEF rg, s, m
  <2>. QED
    BY <1>3, <1>5, <1>6, SnapScratch
<1>. HIDE DEF rg
<1>. QED
  BY <1>2, <1>7, FinishValues

(* Calls push what they may change.                                        *)
LEMMA CallValues ==
  ASSUME Valued, OneGenerator, Call
  PROVE  ValuesOK'
<1>. DEFINE s == stacks[fiber]
            m == Len(stacks[fiber])
            fr == Entered("f", regs)
            z == Cut(s, m + 1, fr)
<1>1. /\ AllReady(prog, table) /\ Nested /\ RunOK /\ ValuesOK /\ prog \in Programs /\ IsList(s)
      /\ m \in Nat /\ m # 0 /\ Top = s[m] /\ Top.fn \in Fns /\ Code(Top) = prog[Top.fn]
      /\ Kept(prog, fiber) => Snap(prog, table, s, m, s[m].pc, regs)
  BY TopValues
<1>2. Top.pc \in 1..Len(prog[Top.fn]) /\ prog[Top.fn][Top.pc].op = "CALL"
  BY <1>1, DoingIs DEF Call
<1>3. At(Top).lab = "f"
  BY <1>1, <1>2 DEF At, OneGenerator
<1>4. stacks' = [stacks EXCEPT ![fiber] = z]
  BY <1>1, <1>3, CutsAre DEF Call
<1>5. /\ regs' = regs /\ prog' = prog /\ table' = table /\ fiber' = fiber /\ tries' = tries /\ depth' = depth
      /\ gens' = gens
  BY DEF Call, compiled
<1>6. /\ fr.fn = "f" /\ fr.id = clock /\ fr.pc = 1 /\ DOMAIN fr.slot = TempsOf(prog["f"])
      /\ DOMAIN fr.want = TempsOf(prog["f"]) /\ DOMAIN fr.saved = table["f"].saves
      /\ \A r \in DOMAIN fr.saved : fr.saved[r] = regs[r]
  BY DEF Entered
<1>. HIDE DEF fr
<1>7. m + 1 \in 1..(Len(s) + 1) /\ depth \in Int /\ depth <= depth
  BY <1>1 DEF RunOK, Match
<1>8. Turns(m + 1, fr)
  BY <1>4, <1>5, <1>7 DEF Turns, GensGrow
<1>9. ShapeOK(prog, table, fr)
  BY <1>6 DEF ShapeOK
<1>10. z[m + 1] = fr /\ \A n \in 1..m : z[n] = s[n]
  <2>1. (m + 1) - 1 = m
    BY <1>1
  <2>. QED
    BY <1>1, <1>7, <2>1, CutIs
<1>11. Kept(prog, fiber) => Snap(prog, table, z, m + 1, fr.pc, regs')
  <2>. HIDE DEF z, s, m
  <2>1. z[m + 1].fn \in Fns /\ \A r \in DOMAIN z[m + 1].saved : z[m + 1].saved[r] = regs[r]
    BY <1>6, <1>10 DEF Fns
  <2>2. SUFFICES ASSUME Snap(prog, table, s, m, s[m].pc, regs) PROVE Snap(prog, table, z, m + 1, 1, regs)
    BY <1>1, <1>5, <1>6
  <2>. QED
    BY <1>1, <1>10, <2>1, <2>2, SnapPush
<1>. QED
  BY <1>1, <1>5, <1>6, <1>7, <1>8, <1>9, <1>11, PlainValues

(* And pop it.                                                             *)
LEMMA ReturnValues ==
  ASSUME Valued, Return
  PROVE  ValuesOK'
<1>. DEFINE s == stacks[fiber]
            m == Len(stacks[fiber])
            l == m - 1
            old == s[m - 1]
            rg == Popped(Top, regs)
            fr == Stepped(old, clock, clock)
            z == Cut(s, m - 1, fr)
<1>1. /\ AllReady(prog, table) /\ Nested /\ RunOK /\ ValuesOK /\ prog \in Programs /\ IsList(s)
      /\ m \in Nat /\ m # 0 /\ Top = s[m] /\ Framed(prog, table, s, m)
      /\ Kept(prog, fiber) => Snap(prog, table, s, m, Top.pc, regs)
      /\ StackOK(prog, clock, fiber, s)
  BY TopValues, TopIs
<1>2. m > 1 /\ l \in Nat /\ l # 0 /\ l \in 1..m /\ l \in 1..l /\ l < m /\ l \in 1..(m + 1) /\ l # m + 1 /\ 1..l \subseteq 1..m
  BY <1>1 DEF Return
<1>3. /\ regs' = Stored(old, rg, clock) /\ stacks' = [stacks EXCEPT ![fiber] = z]
      /\ prog' = prog /\ table' = table /\ fiber' = fiber /\ tries' = tries /\ depth' = depth /\ gens' = gens
  BY <1>1, <1>2, CutsAre DEF Return, compiled
<1>4. FrameOK(prog, clock, old) /\ Waits(prog, old, "CALL") /\ ShapeOK(prog, table, old)
  BY <1>1, <1>2 DEF StackOK, Framed
<1>5. DOMAIN old = Fields /\ old.fn \in Fns /\ old.pc \in 1..Len(prog[old.fn]) /\ prog[old.fn][old.pc].op \in Producing
  BY <1>4 DEF FrameOK, Waits, Producing
<1>7. Kept(prog, fiber) => Snap(prog, table, s, l, old.pc, rg)
  <2>. HIDE DEF s, m
  <2>. QED
    BY <1>1, <1>2, SnapPop
<1>. HIDE DEF rg
<1>8. /\ Stores(prog, table, old, old.pc, rg, clock, fr, Stored(old, rg, clock))
      /\ ShapeOK(prog, table, fr) /\ Near(prog, old, fr) /\ fr.pc = old.pc + 1
  <2>. HIDE DEF old
  <2>. QED
    BY <1>1, <1>4, <1>5, StoredIs
<1>. HIDE DEF fr
<1>9. z[l] = fr /\ \A n \in 1..l : n # l => z[n] = s[n]
  <2>1. z[l] = fr /\ \A n \in 1..(l - 1) : z[n] = s[n]
    BY <1>1, <1>2, CutIs
  <2>2. \A n \in 1..l : n # l => n \in 1..(l - 1)
    BY <1>2
  <2>. QED
    BY <2>1, <2>2
<1>10. Kept(prog, fiber) => Snap(prog, table, z, l, fr.pc, regs')
  <2>1. SUFFICES ASSUME Snap(prog, table, s, l, old.pc, rg) PROVE Snap(prog, table, z, l, old.pc + 1, regs')
    BY <1>7, <1>8
  <2>2. /\ Framed(prog, table, s, l) /\ TriesNested(prog[s[l].fn]) /\ old.pc \in 1..Len(prog[s[l].fn])
        /\ prog[s[l].fn][old.pc].op \in Producing /\ Stores(prog, table, s[l], old.pc, rg, clock, fr, regs')
    <3>1. Framed(prog, table, s, l)
      BY <1>1, <1>2 DEF Framed
    <3>2. TriesNested(prog[old.fn])
      BY <1>1, <1>5 DEF Nested
    <3>. QED
      BY <1>3, <1>5, <1>8, <3>1, <3>2
  <2>3. AllReady(prog, table) /\ l \in Nat /\ l # 0
    BY <1>1, <1>2
  <2>. HIDE DEF z, s, l, old
  <2>. QED
    BY <1>9, <2>1, <2>2, <2>3, SnapStore
<1>11. Turns(l, fr)
  BY <1>2, <1>3 DEF Turns, GensGrow
<1>12. depth' \in Int /\ depth' <= depth
  BY <1>1, <1>3 DEF RunOK, Match
<1>13. IF l = Len(stacks[fiber]) + 1 THEN fr.id = clock ELSE Near(prog, stacks[fiber][l], fr)
  BY <1>2, <1>8
<1>. QED
  BY <1>1, <1>3, <1>8, <1>10, <1>11, <1>12, <1>13, PlainValues

(* A try clause that begins installs a handler with the registers of now,  *)
(* and the catch clause needs no more than what is live now.               *)
LEMMA TryValues ==
  ASSUME Valued, TryBegin, mode' = "run"
  PROVE  ValuesOK'
<1>. DEFINE s == stacks[fiber]
            m == Len(stacks[fiber])
            c == prog[Top.fn]
            C == CatchOf(c, Top.pc)
            fr == [Top EXCEPT !.pc = @ + 1, !.caught = @ \ {C}]
            z == Cut(s, m, fr)
            pl == Place(C + 1)
<1>1. /\ AllReady(prog, table) /\ Nested /\ RunOK /\ ValuesOK /\ prog \in Programs /\ IsList(s)
      /\ m \in Nat /\ m # 0 /\ m \in 1..m /\ Top = s[m] /\ Top.fn \in Fns /\ Code(Top) = c
      /\ ShapeOK(prog, table, Top) /\ DOMAIN Top = Fields /\ TriesNested(c) /\ fiber \in DOMAIN stacks
      /\ ShapesOK(prog, table, stacks) /\ TrySnap(prog, table, stacks, tries, depth)
      /\ WithTop(fiber, fr) = [stacks EXCEPT ![fiber] = z]
      /\ Kept(prog, fiber) => Snap(prog, table, s, m, Top.pc, regs)
      /\ StackOK(prog, clock, fiber, s)
  BY TopValues, TopIs DEF ValuesOK
<1>2. Doing("TRY_BEGIN") /\ Top.pc \in 1..Len(c) /\ c[Top.pc].op = "TRY_BEGIN"
  BY <1>1, DoingIs DEF TryBegin
<1>3. /\ stacks' = [stacks EXCEPT ![fiber] = z] /\ tries' = With(tries, depth, pl) /\ depth' = depth + 1
      /\ prog' = prog /\ table' = table /\ fiber' = fiber /\ gens' = gens /\ regs' = regs
  BY <1>1, <1>2 DEF TryBegin, Stop, compiled, Doing
<1>4. /\ fr.fn = Top.fn /\ fr.id = Top.id /\ fr.saved = Top.saved
      /\ fr.slot = Top.slot /\ fr.want = Top.want /\ fr.pc = Top.pc + 1
  BY <1>1 DEF Fields
<1>5. pl.fiber = fiber /\ pl.id = Top.id /\ pl.pc = C + 1 /\ pl.regs = regs
  BY DEF Place
<1>. HIDE DEF fr, pl
<1>6. m \in 1..(m + 1) /\ m # m + 1 /\ depth \in Nat /\ depth \in Int /\ depth <= depth /\ 0..((depth + 1) - 1) = 0..depth
  BY <1>1 DEF RunOK, Match
<1>7. Near(prog, s[m], fr) /\ ShapeOK(prog, table, fr)
  BY <1>1, <1>4 DEF Near, ShapeOK
<1>8. Turns(m, fr)
  BY <1>3, <1>6 DEF Turns, GensGrow
<1>9. Len(z) = m /\ z[m] = fr /\ \A n \in 1..(m - 1) : z[n] = s[n]
  BY <1>1, <1>6, CutIs
<1>10. \A n \in 1..m : n # m => z[n] = s[n]
  BY <1>1, <1>9
<1>11. \A n \in 1..m : z[n].fn = s[n].fn /\ z[n].saved = s[n].saved
  BY <1>1, <1>4, <1>9, <1>10
<1>12. z[m].slot = s[m].slot /\ z[m].want = s[m].want /\ z[m].id = s[m].id
  BY <1>1, <1>4, <1>9
<1>13. \A t \in Live(prog, table, s[m].fn, Top.pc + 1) : t \in Live(prog, table, s[m].fn, Top.pc)
  <2>1. Follows(Code(Top), Top.pc, Top.pc + 1)
    BY <1>1, <1>2 DEF Follows
  <2>. QED
    BY <1>1, <1>2, <2>1, MoveLive DEF Producing
<1>14. \A t \in Live(prog, table, s[m].fn, C + 1) : t \in Live(prog, table, s[m].fn, Top.pc)
  BY <1>1, <1>2, TryLive
<1>15. Kept(prog, fiber) => /\ Snap(prog, table, z, m, Top.pc + 1, regs)
                            /\ Snap(prog, table, z, m, C + 1, regs)
  <2>. HIDE DEF z, s, m, C
  <2>1. SUFFICES ASSUME Snap(prog, table, s, m, Top.pc, regs)
                 PROVE  Snap(prog, table, z, m, Top.pc + 1, regs) /\ Snap(prog, table, z, m, C + 1, regs)
    BY <1>1
  <2>2. Snap(prog, table, z, m, Top.pc + 1, regs)
    BY <1>1, <1>10, <1>11, <1>12, <1>13, <2>1, SnapLike
  <2>3. Snap(prog, table, z, m, C + 1, regs)
    BY <1>1, <1>10, <1>11, <1>12, <1>14, <2>1, SnapLike
  <2>. QED
    BY <2>2, <2>3
<1>16. /\ stacks'[fiber] = z
       /\ \A h \in DOMAIN stacks : h # fiber => stacks'[h] = stacks[h]
  BY <1>1, <1>3
<1>17. \A i \in 0..(depth - 1) : tries'[i] = tries[i]
  <2>1. \A i \in 0..(depth - 1) : i \in DOMAIN tries /\ i # depth
    BY <1>1, <1>6 DEF RunOK, Match
  <2>. QED
    BY <1>3, <2>1 DEF With
<1>18. tries'[depth] = pl
  BY <1>3 DEF With
<1>19. TrySnap(prog, table, stacks', tries', depth)
  BY <1>1, <1>6, <1>7, <1>16, <1>17, TryStays
<1>20. TrySnap(prog, table, stacks', tries', depth')
  <2>1. ASSUME NEW i \in 0..(depth' - 1), Kept(prog, tries'[i].fiber), NEW n \in 1..Len(stacks'[tries'[i].fiber]),
               stacks'[tries'[i].fiber][n].id = tries'[i].id
        PROVE  Snap(prog, table, stacks'[tries'[i].fiber], n, tries'[i].pc, tries'[i].regs)
    <3>1. CASE i = depth
      <4>1. /\ tries'[i].fiber = fiber /\ tries'[i].pc = C + 1 /\ tries'[i].regs = regs /\ tries'[i].id = s[m].id
        BY <1>1, <1>5, <1>18, <3>1
      <4>2. n \in 1..m /\ z[n].id = s[m].id
        BY <1>9, <1>16, <2>1, <4>1
      <4>3. n = m
        <5>1. SUFFICES ASSUME n # m PROVE FALSE
          OBVIOUS
        <5>2. n < m /\ z[n] = s[n]
          BY <1>1, <1>10, <4>2, <5>1
        <5>3. s[n].id < s[m].id /\ s[n].id = s[m].id
          BY <1>1, <4>2, <5>2 DEF StackOK
        <5>4. s[m].id \in Nat
          BY <1>1 DEF StackOK, FrameOK
        <5>. QED
          BY <5>3, <5>4
      <4>. QED
        BY <1>15, <1>16, <2>1, <4>1, <4>3
    <3>2. CASE i # depth
      <4>1. i \in 0..(depth - 1)
        BY <1>3, <1>6, <2>1, <3>2
      <4>. QED
        BY <1>19, <2>1, <4>1 DEF TrySnap
    <3>. QED
      BY <3>1, <3>2
  <2>. QED
    BY <2>1 DEF TrySnap
<1>. QED
  BY <1>1, <1>3, <1>4, <1>7, <1>8, <1>15, <1>20, StayValues

-----------------------------------------------------------------------------
(* Exceptions.                                                             *)

(* The frame that an exception goes to has only moved.                     *)
Lands(n, fr) ==
  LET place == tries[depth - 1]
      s == stacks[fiber']
  IN /\ n \in 1..Len(s) /\ place.fiber = fiber' /\ s[n].id = place.id
     /\ fr.fn = s[n].fn /\ fr.id = s[n].id /\ fr.saved = s[n].saved
     /\ fr.slot = s[n].slot /\ fr.want = s[n].want /\ fr.pc = place.pc
     /\ stacks' = [stacks EXCEPT ![fiber'] = Cut(s, n, fr)] /\ regs' = place.regs
     /\ prog' = prog /\ table' = table /\ gens' = gens /\ tries' = tries
     /\ depth' = depth - 1 /\ depth # 0

(* An exception goes to the frame of the last handler.                     *)
LEMMA TrapIs ==
  ASSUME prog \in Programs, Nested, RunOK, Trap, mode' # "exit1"
  PROVE  /\ Doing("DIVIDE") /\ fiber' \in {Start, fiber} /\ fiber' \in DOMAIN stacks
         /\ \E n : \E fr : Lands(n, fr)
<1>. DEFINE place == tries[depth - 1]
            s == stacks[place.fiber]
<1>1. /\ Doing("DIVIDE") /\ depth > 0 /\ depth' = depth - 1 /\ fiber' = place.fiber /\ regs' = place.regs
      /\ Standing(place) => stacks' = [stacks EXCEPT ![place.fiber] = Caught(Unwound(place))]
      /\ prog' = prog /\ table' = table /\ gens' = gens /\ tries' = tries
  BY DEF Trap, Stop, compiled
<1>2. depth \in Nat /\ depth # 0 /\ depth - 1 \in 0..(depth - 1)
  BY <1>1 DEF RunOK, Match
<1>3. /\ place.fiber \in {Start, fiber} /\ place.fiber \in DOMAIN stacks
      /\ \E n \in 1..Len(s) : \E k \in OpenAt(prog[s[n].fn], s[n].pc) :
           s[n].id = place.id /\ place.pc = CatchOf(prog[s[n].fn], k) + 1
  BY <1>2, HandlerIs
<1>4. PICK n \in 1..Len(s) : s[n].id = place.id
  BY <1>3
<1>. DEFINE on == [s[n] EXCEPT !.pc = place.pc]
            fr == [on EXCEPT !.caught = @ \cup {on.pc - 1}]
<1>. HIDE DEF place, s
<1>5. StackOK(prog, clock, place.fiber, s) /\ IsList(s) /\ Len(s) \in Nat
  <2>1. StackOK(prog, clock, place.fiber, s)
    BY <1>3 DEF RunOK, StacksOK, s
  <2>. QED
    BY <2>1, ListIs DEF StackOK
<1>6. Standing(place) /\ Unwound(place) = Cut(s, n, on)
  BY <1>4, <1>5, UnwoundIs DEF s
<1>7. DOMAIN s[n] = Fields
  BY <1>5 DEF StackOK, FrameOK
<1>8. /\ fr.fn = s[n].fn /\ fr.id = s[n].id /\ fr.saved = s[n].saved
      /\ fr.slot = s[n].slot /\ fr.want = s[n].want /\ fr.pc = place.pc
  BY <1>7 DEF Fields
<1>9. Caught(Cut(s, n, on)) = Cut(s, n, fr)
  <2>1. n \in 1..(Len(s) + 1)
    BY <1>5
  <2>2. fr = [on EXCEPT !.caught = @ \cup {on.pc - 1}]
    OBVIOUS
  <2>. HIDE DEF on, fr
  <2>3. Append(Front(Cut(s, n, on)), fr) = Cut(s, n, fr) /\ Last(Cut(s, n, on)) = on
    BY <1>5, <2>1, CutAgain
  <2>. QED
    BY <2>2, <2>3 DEF Caught
<1>. HIDE DEF on, fr
<1>10. stacks' = [stacks EXCEPT ![fiber'] = Cut(s, n, fr)] /\ s = stacks[fiber']
  BY <1>1, <1>6, <1>9 DEF s
<1>11. Lands(n, fr)
  BY <1>1, <1>2, <1>4, <1>8, <1>10 DEF Lands, place
<1>. QED
  BY <1>1, <1>3, <1>11

(* In a calm program no exception leaves a generator.                      *)
LEMMA TrapCalm ==
  ASSUME prog \in Programs, Nested, RunOK, Trap, mode' # "exit1", fiber' # fiber, fiber # Start
  PROVE  ~Calm(prog)
<1>. DEFINE s == stacks[fiber]
            T == Handler(tries, depth - 1)
            A == TriesNow(prog, stacks, fiber)
<1>1. /\ Doing("DIVIDE") /\ fiber' = Start /\ tries[depth - 1].fiber = Start /\ depth # 0
  BY TrapIs DEF Lands
<1>2. Match(tries, depth, A)
  BY DEF RunOK
<1>3. T \in A /\ \A g \in A : g = T \/ Inside(T, g)
  <2>. HIDE DEF A
  <2>. QED
    BY <1>1, <1>2, LastMatch
<1>4. T[1] = Start
  BY <1>1 DEF Handler
<1>. HIDE DEF T
<1>5. StackOK(prog, clock, fiber, s) /\ StackOK(prog, clock, Start, stacks[Start])
  BY TopIs DEF RunOK, StacksOK
<1>6. \A g \in TriesOf(prog, fiber, s) : FALSE
  <2>1. SUFFICES ASSUME NEW g \in TriesOf(prog, fiber, s) PROVE FALSE
    OBVIOUS
  <2>2. g[1] = fiber /\ g \in A
    BY <1>5, <2>1, TriesAre DEF TriesNow
  <2>3. g = T \/ Inside(T, g)
    BY <1>3, <2>2
  <2>. QED
    BY <1>4, <2>2, <2>3 DEF Inside
<1>7. Len(s) \in Nat /\ Len(s) # 0 /\ Top = s[Len(s)] /\ IsList(s)
  BY TopIs
<1>8. 1 \in 1..Len(s) /\ s[1].fn = "g"
  BY <1>5, <1>7 DEF StackOK, Base
<1>9. Waits(prog, s[1], "DIVIDE") \/ Waits(prog, s[1], "CALL")
  <2>1. CASE Len(s) = 1
    BY <1>1, <1>7, <2>1, DoingIs
  <2>2. CASE Len(s) # 1
    <3>. DEFINE L == Len(s)
    <3>0. L \in Nat /\ L # 0 /\ L # 1
      BY <1>7, <2>2
    <3>1. L \in 1..L /\ 1 < L
      <4>. HIDE DEF L
      <4>. QED
        BY <3>0
    <3>. QED
      BY <1>5, <1>8, <3>1 DEF StackOK
  <2>. QED
    BY <2>1, <2>2
<1>10. OpenAt(prog["g"], s[1].pc) = {}
  <2>1. SUFFICES ASSUME NEW k \in OpenAt(prog["g"], s[1].pc) PROVE FALSE
    OBVIOUS
  <2>2. TriesIn(prog, fiber, s[1]) # {}
    BY <1>8, <2>1 DEF TriesIn
  <2>3. TriesOf(prog, fiber, s) # {}
    BY <1>8, <2>2 DEF TriesOf
  <2>. QED
    BY <1>6, <2>3
<1>11. ~\A i \in 1..Len(prog["g"]) : prog["g"][i].op \in {"DIVIDE", "CALL"} => OpenAt(prog["g"], i) # {}
  <2>1. FrameOK(prog, clock, s[1])
    BY <1>5, <1>8 DEF StackOK
  <2>2. Len(prog["g"]) \in Nat
    BY CodeIs DEF Fns
  <2>3. s[1].pc \in 1..Len(prog["g"]) /\ prog["g"][s[1].pc].op \in {"DIVIDE", "CALL"}
    BY <1>8, <1>9, <2>1, <2>2 DEF FrameOK, Waits
  <2>. QED
    BY <1>10, <2>3
<1>12. \E fn \in {"main", "f"} : \E i \in 1..Len(prog[fn]) : prog[fn][i].op = "TRY_BEGIN"
  <2>1. depth - 1 \in 0..(depth - 1)
    BY <1>1, <1>2 DEF Match
  <2>2. PICK n \in 1..Len(stacks[Start]) : \E k \in OpenAt(prog[stacks[Start][n].fn], stacks[Start][n].pc) : TRUE
    BY <1>1, <2>1, HandlerIs
  <2>3. PICK k \in OpenAt(prog[stacks[Start][n].fn], stacks[Start][n].pc) : TRUE
    BY <2>2
  <2>4. Len(stacks[Start]) \in Nat
    BY <1>5, ListIs DEF StackOK
  <2>5. stacks[Start][n].fn \in {"main", "f"}
    <3>1. n = 1 \/ n > 1
      BY <2>4
    <3>. QED
      BY <1>5, <3>1 DEF StackOK, Base
  <2>. QED
    BY <2>3, <2>5 DEF OpenAt
<1>. QED
  BY <1>11, <1>12 DEF Calm

(* The handler's registers, and the frames that are left, are as they were *)
(* when the try clause began.                                              *)
LEMMA CaughtValues ==
  ASSUME Valued, NEW n, NEW fr, fiber' \in DOMAIN stacks, Lands(n, fr)
  PROVE  LET z == Cut(stacks[fiber'], n, fr)
         IN /\ IsList(z) /\ Len(z) = n /\ Last(z) = fr /\ ShapeOK(prog, table, fr)
            /\ \A m \in 1..n : ShapeOK(prog, table, z[m])
            /\ Near(prog, stacks[fiber'][n], fr) /\ n \in 1..(Len(stacks[fiber']) + 1)
            /\ n # Len(stacks[fiber']) + 1
            /\ Kept(prog, fiber') => Snap(prog, table, z, n, fr.pc, regs')
<1>. DEFINE s == stacks[fiber']
            pl == tries[depth - 1]
            z == Cut(s, n, fr)
<1>1. /\ prog \in Programs /\ Nested /\ RunOK /\ ShapesOK(prog, table, stacks)
      /\ TrySnap(prog, table, stacks, tries, depth)
  BY TopValues DEF ValuesOK
<1>2. /\ n \in 1..Len(s) /\ pl.fiber = fiber' /\ s[n].id = pl.id
      /\ fr.fn = s[n].fn /\ fr.id = s[n].id /\ fr.saved = s[n].saved
      /\ fr.slot = s[n].slot /\ fr.want = s[n].want /\ fr.pc = pl.pc /\ regs' = pl.regs /\ depth # 0
  BY DEF Lands
<1>3. IsList(s) /\ Len(s) \in Nat /\ Framed(prog, table, s, Len(s))
  BY <1>1, FramedIs
<1>4. depth - 1 \in 0..(depth - 1)
  BY <1>1, <1>2 DEF RunOK, Match
<1>5. Kept(prog, fiber') => Snap(prog, table, s, n, pl.pc, regs')
  BY <1>1, <1>2, <1>4 DEF TrySnap
<1>. HIDE DEF pl, s
<1>6. n \in 1..(Len(s) + 1) /\ n # Len(s) + 1 /\ n \in Nat /\ n \in 1..n /\ n # 0
  BY <1>2, <1>3
<1>7. Len(z) = n /\ IsList(z) /\ z[n] = fr /\ \A m \in 1..(n - 1) : z[m] = s[m]
  BY <1>3, <1>6, CutIs
<1>8. \A m \in 1..n : m # n => z[m] = s[m] /\ m \in 1..Len(s)
  <2>1. \A m \in 1..n : m # n => m \in 1..(n - 1) /\ m \in 1..Len(s)
    BY <1>2, <1>3, <1>6
  <2>. QED
    BY <1>7, <2>1
<1>. HIDE DEF z
<1>9. Last(z) = fr
  BY <1>6, <1>7, CutsAre
<1>10. ShapeOK(prog, table, fr)
  BY <1>2, <1>3 DEF Framed, ShapeOK
<1>11. \A m \in 1..n : ShapeOK(prog, table, z[m])
  BY <1>3, <1>7, <1>8, <1>10 DEF Framed
<1>12. Near(prog, s[n], fr)
  BY <1>2 DEF Near
<1>13. \A m \in 1..n : z[m].fn = s[m].fn /\ z[m].saved = s[m].saved
  BY <1>2, <1>7, <1>8
<1>14. z[n].slot = s[n].slot /\ z[n].want = s[n].want
  BY <1>2, <1>7
<1>15. Kept(prog, fiber') => Snap(prog, table, z, n, fr.pc, regs')
  <2>1. SUFFICES ASSUME Snap(prog, table, s, n, pl.pc, regs') PROVE Snap(prog, table, z, n, pl.pc, regs')
    BY <1>2, <1>5
  <2>. QED
    BY <1>6, <1>8, <1>13, <1>14, <2>1, SnapLike
<1>. QED
  BY <1>6, <1>7, <1>9, <1>10, <1>11, <1>12, <1>15 DEF z, s

(* An exception keeps what the frames that are left find.                  *)
LEMMA TrapValues ==
  ASSUME Valued, Trap, mode' # "exit1"
  PROVE  ValuesOK'
<1>1. prog \in Programs /\ Nested /\ RunOK /\ ValuesOK /\ AllReady(prog, table) /\ ShapesOK(prog, table, stacks)
  BY TopValues
<1>2. /\ Doing("DIVIDE") /\ fiber' \in {Start, fiber} /\ fiber' \in DOMAIN stacks
      /\ \E n : \E fr : Lands(n, fr)
  BY <1>1, TrapIs
<1>3. PICK n, fr : Lands(n, fr)
  BY <1>2
<1>. DEFINE s == stacks[fiber']
            z == Cut(s, n, fr)
<1>4. /\ IsList(z) /\ Len(z) = n /\ Last(z) = fr /\ ShapeOK(prog, table, fr)
      /\ \A m \in 1..n : ShapeOK(prog, table, z[m])
      /\ Near(prog, s[n], fr) /\ n \in 1..(Len(s) + 1) /\ n # Len(s) + 1
      /\ Kept(prog, fiber') => Snap(prog, table, z, n, fr.pc, regs')
  BY <1>2, <1>3, CaughtValues
<1>5. /\ stacks' = [stacks EXCEPT ![fiber'] = z]
      /\ prog' = prog /\ table' = table /\ gens' = gens /\ tries' = tries /\ depth' = depth - 1
  BY <1>3 DEF Lands
<1>6. depth \in Nat /\ depth' \in Int /\ depth' <= depth
  BY <1>1, <1>5 DEF RunOK, Match
<1>7. CASE fiber' = fiber
  <2>1. Turns(n, fr)
    BY <1>4, <1>5, <1>7 DEF Turns, GensGrow
  <2>. QED
    BY <1>1, <1>4, <1>5, <1>6, <1>7, <2>1, PlainValues
<1>8. CASE fiber' # fiber
  <2>1. fiber' = Start /\ fiber # Start /\ ~Calm(prog)
    BY <1>1, <1>2, <1>8, TrapCalm, TrapIs
  <2>. HIDE DEF z
  <2>2. /\ DOMAIN stacks' = DOMAIN stacks /\ stacks'[Start] = z
        /\ \A h \in DOMAIN stacks : h # Start => stacks'[h] = stacks[h]
    BY <1>2, <1>5, <2>1
  <2>3. ShapesOK(prog, table, stacks')
    <3>1. ASSUME NEW h \in DOMAIN stacks', NEW m \in 1..Len(stacks'[h]) PROVE ShapeOK(prog, table, stacks'[h][m])
      <4>1. CASE h = Start
        BY <1>4, <2>2, <3>1, <4>1
      <4>2. CASE h # Start
        BY <1>1, <2>2, <3>1, <4>2 DEF ShapesOK
      <4>. QED
        BY <4>1, <4>2
    <3>. QED
      BY <3>1 DEF ShapesOK
  <2>4. Kept(prog, fiber') => Snap(prog, table, stacks'[fiber'], Len(stacks'[fiber']), Last(stacks'[fiber']).pc, regs')
    BY <1>4, <2>1, <2>2
  <2>5. AwaySnap(prog, table, stacks', fiber', gens')
    BY <2>1 DEF AwaySnap
  <2>6. TrySnap(prog, table, stacks', tries', depth')
    <3>1. TrySnap(prog, table, stacks, tries, depth)
      BY <1>1 DEF ValuesOK
    <3>2. \A i \in 0..(depth' - 1) : tries'[i] = tries[i]
      BY <1>5
    <3>3. Start \in DOMAIN stacks /\ n \in 1..(Len(stacks[Start]) + 1) /\ n # Len(stacks[Start]) + 1
          /\ Near(prog, stacks[Start][n], fr) /\ stacks'[Start] = Cut(stacks[Start], n, fr)
      BY <1>2, <1>4, <2>1, <2>2 DEF z
    <3>. QED
      BY <1>1, <1>6, <2>2, <3>1, <3>2, <3>3, TryStays
  <2>7. GenSnap(prog, table, stacks', fiber', gens')
    <3>1. ASSUME NEW h \in DOMAIN gens, Kept(prog, h), h # Start, ~gens[h].fresh, ~gens[h].done
          PROVE  Snap(prog, table, stacks'[h], 1, gens[h].gen.pc, gens[h].gen.regs)
      <4>1. FALSE
        BY <2>1, <3>1 DEF Kept
      <4>. QED
        BY <4>1
    <3>. QED
      BY <1>5, <2>1, <3>1 DEF GenSnap
  <2>. QED
    BY <1>5, <2>3, <2>4, <2>5, <2>6, <2>7 DEF ValuesOK
<1>. QED
  BY <1>7, <1>8

-----------------------------------------------------------------------------
(* Generators.                                                             *)

(* A generator's frame is the only one on its stack, and finds what it had *)
(* when it was left.                                                       *)
Resumes(h, fr) ==
  /\ h \in DOMAIN gens /\ h # Start
  /\ DOMAIN stacks' = DOMAIN stacks \cup {h} /\ stacks'[h] = Cut(<<>>, 1, fr)
  /\ \A x \in DOMAIN stacks : x # h => stacks'[x] = stacks[x]
  /\ ShapeOK(prog, table, fr)
  /\ Kept(prog, h) => Snap(prog, table, Cut(<<>>, 1, fr), 1, fr.pc, regs')

(* A generator's first run needs nothing.                                  *)
LEMMA FreshIs ==
  ASSUME Valued, OneGenerator, GenNext, gens[Handle].fresh
  PROVE  \E fr : Resumes(Handle, fr)
<1>. DEFINE h == Handle
            fr == Entered("g", regs')
            u == Cut(<<>>, 1, fr)
<1>1. /\ prog \in Programs /\ Nested /\ RunOK /\ AllReady(prog, table)
  BY TopValues
<1>2. /\ h \in DOMAIN gens /\ DOMAIN regs' = Registers /\ stacks' = With(stacks, h, <<fr>>)
  BY DEF GenNext
<1>3. h # Start
  BY <1>1, <1>2 DEF RunOK, GensOK, Start
<1>4. /\ fr.fn = "g" /\ fr.pc = 1 /\ ShapeOK(prog, table, fr)
  BY DEF Entered, ShapeOK
<1>. HIDE DEF fr, h
<1>5. <<fr>> = u
  <2>1. SubSeq(<<>>, 1, 1 - 1) = <<>>
    <3>1. <<>> \in Seq({})
      OBVIOUS
    <3>. QED
      BY <3>1
  <2>2. Append(<<>>, fr) = <<fr>>
    OBVIOUS
  <2>. QED
    BY <2>1, <2>2 DEF Cut
<1>6. u[1] = fr
  BY OneIs
<1>. HIDE DEF u
<1>7. Live(prog, table, "g", 1) = {}
  BY <1>1, FirstLive DEF Fns
<1>8. Snap(prog, table, u, 1, fr.pc, regs')
  BY <1>2, <1>4, <1>6, <1>7 DEF Snap, Right
<1>9. Resumes(h, fr)
  BY <1>2, <1>3, <1>4, <1>5, <1>8 DEF Resumes, With, u
<1>. QED
  BY <1>9 DEF h

(* A later one finds what it had at its yield.                             *)
LEMMA StaleIs ==
  ASSUME Valued, OneGenerator, GenNext, ~gens[Handle].fresh
  PROVE  \E fr : Resumes(Handle, fr)
<1>. DEFINE h == Handle
            place == gens[h].gen
            s == stacks[h]
            fr == [s[1] EXCEPT !.pc = place.pc]
            u == Cut(<<>>, 1, fr)
<1>1. /\ prog \in Programs /\ Nested /\ RunOK /\ AllReady(prog, table) /\ ShapesOK(prog, table, stacks)
      /\ GenSnap(prog, table, stacks, fiber, gens) /\ fiber = Start
  BY TopValues, WhereIs DEF ValuesOK, GenNext
<1>2. /\ h \in DOMAIN gens /\ ~gens[h].done /\ stacks' = [stacks EXCEPT ![h] = Unwound(place)] /\ regs' = place.regs
  BY DEF GenNext
<1>3. h # Start /\ Suspended(prog, stacks, h, gens[h])
  BY <1>1, <1>2 DEF RunOK, GensOK, Start
<1>4. h \in DOMAIN stacks /\ place.fiber = h /\ place.id = s[1].id
  BY <1>3 DEF Suspended
<1>5. StackOK(prog, clock, h, s) /\ IsList(s) /\ Len(s) \in Nat /\ Len(s) # 0
  <2>1. StackOK(prog, clock, h, s)
    BY <1>1, <1>4 DEF RunOK, StacksOK
  <2>. QED
    BY <2>1, ListIs DEF StackOK
<1>6. 1 \in 1..Len(s)
  BY <1>5
<1>7. ShapeOK(prog, table, s[1]) /\ DOMAIN s[1] = Fields
  BY <1>1, <1>4, <1>5, <1>6 DEF ShapesOK, StackOK, FrameOK
<1>8. Unwound(place) = Cut(s, 1, fr)
  BY <1>4, <1>5, <1>6, UnwoundIs
<1>9. Cut(s, 1, fr) = u
  BY <1>5, BaseCut
<1>10. /\ fr.fn = s[1].fn /\ fr.saved = s[1].saved /\ fr.slot = s[1].slot /\ fr.want = s[1].want
       /\ fr.pc = place.pc
  BY <1>7 DEF Fields
<1>11. ShapeOK(prog, table, fr)
  BY <1>7, <1>10 DEF ShapeOK
<1>12. Kept(prog, h) => Snap(prog, table, s, 1, place.pc, regs')
  BY <1>1, <1>2, <1>3 DEF GenSnap
<1>. HIDE DEF fr, place, s, h
<1>13. u[1] = fr
  BY OneIs
<1>. HIDE DEF u
<1>14. \A n \in 1..1 : n = 1
  OBVIOUS
<1>15. Kept(prog, h) => Snap(prog, table, u, 1, fr.pc, regs')
  <2>1. SUFFICES ASSUME Snap(prog, table, s, 1, place.pc, regs') PROVE Snap(prog, table, u, 1, place.pc, regs')
    BY <1>10, <1>12
  <2>2. \A n \in 1..1 : u[n].fn = s[n].fn /\ u[n].saved = s[n].saved
    BY <1>10, <1>13, <1>14
  <2>3. \A n \in 1..1 : n # 1 => u[n] = s[n]
    BY <1>14
  <2>4. u[1].slot = s[1].slot /\ u[1].want = s[1].want
    BY <1>10, <1>13
  <2>. QED
    BY <2>1, <2>2, <2>3, <2>4, SnapLike
<1>16. stacks' = [stacks EXCEPT ![h] = u]
  BY <1>2, <1>8, <1>9
<1>17. Resumes(h, fr)
  BY <1>2, <1>3, <1>4, <1>11, <1>15, <1>16 DEF Resumes, u
<1>. QED
  BY <1>17 DEF h

(* The caller holds the generator's handle in the operand, for a handle is *)
(* no junk.                                                                *)
LEMMA HandleIs ==
  ASSUME Valued, OneGenerator, GenNext
  PROVE  \E t \in prog[Top.fn][Top.pc].uses : Top.want[t] = Handle
<1>. DEFINE t == Operand(Top)
            s == stacks[fiber]
            m == Len(s)
            r == table[Top.fn].reg[t]
<1>1. /\ prog \in Programs /\ Nested /\ RunOK /\ AllReady(prog, table)
      /\ m \in 1..m /\ Top = s[m] /\ Top.fn \in Fns /\ Code(Top) = prog[Top.fn]
      /\ Kept(prog, fiber) => Snap(prog, table, s, m, Top.pc, regs)
  BY TopValues
<1>2. fiber = Start /\ Doing("GEN_NEXT") /\ Handle \in DOMAIN gens
  BY <1>1, WhereIs DEF GenNext
<1>3. Top.pc \in 1..Len(prog[Top.fn]) /\ prog[Top.fn][Top.pc].op = "GEN_NEXT"
  BY <1>1, <1>2, DoingIs
<1>4. t \in prog[Top.fn][Top.pc].uses
  <2>1. prog[Top.fn][Top.pc].uses # {}
    BY <1>1, <1>3 DEF OneGenerator
  <2>. QED
    BY <1>1, <2>1 DEF Operand, At
<1>. HIDE DEF t
<1>5. t \in Live(prog, table, Top.fn, Top.pc)
  BY <1>1, <1>3, <1>4, UsesLive
<1>6. Right(prog, table, s, m, regs, m, Top.pc)
  BY <1>1, <1>2 DEF Snap, Kept
<1>7. Sees(s, m, regs, m, r) = regs[r]
  <2>. HIDE DEF s
  <2>. QED
    BY <1>1 DEF Sees
<1>8. Handle = IF r = NoReg THEN Top.slot[t] ELSE regs[r]
  BY DEF Handle, Find, Where, t
<1>9. Handle # Junk
  BY <1>1, <1>2 DEF RunOK, GensOK, Junk
<1>. HIDE DEF s, m, r
<1>10. IF r = NoReg THEN Top.slot[t] = Top.want[t] ELSE Fine(prog, table, Top.fn, t, regs[r], Top.want[t])
  BY <1>1, <1>5, <1>6, <1>7 DEF Right, r
<1>11. Top.want[t] = Handle
  BY <1>8, <1>9, <1>10 DEF Fine
<1>. QED
  BY <1>4, <1>11

(* Resuming a generator puts the caller's registers in its block.          *)
LEMMA GenNextValues ==
  ASSUME Valued, OneGenerator, GenNext
  PROVE  ValuesOK'
<1>. DEFINE h == Handle
<1>1. /\ prog \in Programs /\ Nested /\ RunOK /\ AllReady(prog, table) /\ ShapesOK(prog, table, stacks)
      /\ ValuesOK /\ fiber = Start /\ fiber \in DOMAIN stacks
  BY TopValues, WhereIs DEF GenNext
<1>2. PICK fr : Resumes(h, fr)
  BY FreshIs, StaleIs
<1>3. /\ gens' = [gens EXCEPT ![h].caller = Place(Top.pc)]
      /\ fiber' = h /\ prog' = prog /\ table' = table /\ tries' = tries /\ depth' = depth
  BY DEF GenNext, ResumedBy, compiled
<1>4. \E t \in prog[Top.fn][Top.pc].uses : Top.want[t] = h
  BY HandleIs
<1>. HIDE DEF h
<1>. DEFINE u == Cut(<<>>, 1, fr)
<1>5. /\ h \in DOMAIN gens /\ h # Start
      /\ DOMAIN stacks' = DOMAIN stacks \cup {h} /\ stacks'[h] = u
      /\ \A x \in DOMAIN stacks : x # h => stacks'[x] = stacks[x]
      /\ ShapeOK(prog, table, fr)
      /\ Kept(prog, h) => Snap(prog, table, u, 1, fr.pc, regs')
  BY <1>2 DEF Resumes
<1>6. IsList(u) /\ Len(u) = 1 /\ u[1] = fr /\ Last(u) = fr
  <2>1. IsList(u) /\ Len(u) = 1 /\ u[1] = fr
    BY OneIs
  <2>. HIDE DEF u
  <2>. QED
    BY <2>1, CutsAre
<1>. HIDE DEF u
<1>7. stacks'[Start] = stacks[Start]
  BY <1>1, <1>5
<1>8. ShapesOK(prog, table, stacks')
  <2>1. ASSUME NEW x \in DOMAIN stacks', NEW m \in 1..Len(stacks'[x]) PROVE ShapeOK(prog, table, stacks'[x][m])
    <3>1. CASE x = h
      <4>1. Len(stacks'[h]) = 1 /\ m \in 1..Len(stacks'[h])
        BY <1>5, <1>6, <2>1, <3>1
      <4>2. m = 1
        BY <4>1
      <4>. QED
        BY <1>5, <1>6, <3>1, <4>2
    <3>2. CASE x # h
      BY <1>1, <1>5, <2>1, <3>2 DEF ShapesOK
    <3>. QED
      BY <3>1, <3>2
  <2>. QED
    BY <2>1 DEF ShapesOK
<1>9. Kept(prog, h) => Snap(prog, table, stacks'[h], Len(stacks'[h]), Last(stacks'[h]).pc, regs')
  BY <1>5, <1>6
<1>10. gens'[h].caller = Place(Top.pc) /\ DOMAIN gens' = DOMAIN gens /\ \A x \in DOMAIN gens : x # h => gens'[x] = gens[x]
  <2>1. DOMAIN gens[h] = Block
    BY <1>1, <1>5 DEF RunOK, GensOK
  <2>. QED
    BY <1>3, <1>5, <2>1 DEF Block
<1>11. AwaySnap(prog, table, stacks', h, gens')
  <2>1. gens'[h].caller.regs = regs
    BY <1>10 DEF Place
  <2>2. Last(stacks[Start]) = Top
    BY <1>1 DEF Top
  <2>3. Snap(prog, table, stacks[Start], Len(stacks[Start]), Last(stacks[Start]).pc, regs)
    BY <1>1 DEF ValuesOK, Kept
  <2>. QED
    BY <1>4, <1>7, <2>1, <2>2, <2>3 DEF AwaySnap
<1>12. TrySnap(prog, table, stacks', tries, depth)
  <2>1. ASSUME NEW i \in 0..(depth - 1) PROVE tries[i].fiber = Start
    BY <1>1, HandlerIs
  <2>2. TrySnap(prog, table, stacks, tries, depth)
    BY <1>1 DEF ValuesOK
  <2>. QED
    BY <1>7, <2>1, <2>2 DEF TrySnap
<1>13. GenSnap(prog, table, stacks', h, gens')
  <2>1. ASSUME NEW x \in DOMAIN gens, Kept(prog, x), x # h, ~gens[x].fresh, ~gens[x].done
        PROVE  Snap(prog, table, stacks'[x], 1, gens[x].gen.pc, gens[x].gen.regs)
    <3>1. x # Start /\ x \in DOMAIN stacks
      BY <1>1, <2>1 DEF RunOK, GensOK, Suspended, Start
    <3>2. stacks'[x] = stacks[x]
      BY <1>5, <2>1, <3>1
    <3>3. GenSnap(prog, table, stacks, fiber, gens)
      BY <1>1 DEF ValuesOK
    <3>. QED
      BY <1>1, <2>1, <3>1, <3>2, <3>3 DEF GenSnap
  <2>. QED
    BY <1>10, <2>1 DEF GenSnap
<1>. QED
  BY <1>3, <1>8, <1>9, <1>11, <1>12, <1>13 DEF ValuesOK

(* Who leaves a generator stores what it yields in its caller, on top of   *)
(* the registers that the caller had.                                      *)
HomeIs(v, fr) ==
  LET s == stacks[Start]
      L == Len(stacks[Start])
  IN /\ L \in Nat /\ L # 0 /\ L \in 1..L /\ IsList(s) /\ Last(s) = s[L] /\ Waits(prog, s[L], "GEN_NEXT")
     /\ stacks' = [stacks EXCEPT ![Start] = Cut(s, L, fr)]
     /\ Stores(prog, table, s[L], s[L].pc, gens[fiber].caller.regs, v, fr, regs')
     /\ ShapeOK(prog, table, fr) /\ Near(prog, s[L], fr) /\ fr.pc = s[L].pc + 1

(* The block leads to the caller's frame, which waits at its GEN_NEXT.     *)
LEMMA HomeAgain ==
  ASSUME Valued, NEW v, NEW done, SwapBack(v, done), fiber # Start
  PROVE  \E fr : HomeIs(v, fr)
<1>. DEFINE home == gens[genCur].caller
            s == stacks[Start]
            L == Len(s)
            old == s[L]
            same == [old EXCEPT !.pc = home.pc]
            fr == Stepped(same, v, v)
<1>1. /\ prog \in Programs /\ Nested /\ RunOK /\ AllReady(prog, table) /\ ShapesOK(prog, table, stacks)
  BY TopValues
<1>2. Start \in DOMAIN stacks /\ StackOK(prog, clock, Start, s)
  BY <1>1 DEF RunOK, StacksOK
<1>3. IsList(s) /\ L \in Nat /\ L # 0 /\ Last(s) = old /\ L \in 1..L /\ L \in 1..(L + 1)
  <2>1. IsList(s) /\ L \in Nat /\ L # 0
    BY <1>2, ListIs DEF StackOK
  <2>. QED
    BY <2>1, CutsAre
<1>4. /\ genCur = fiber /\ home.fiber = Start
      /\ Waits(prog, old, "GEN_NEXT") /\ home.id = old.id /\ home.pc = old.pc
  BY <1>1, <1>3 DEF RunOK, AwayOK
<1>5. FrameOK(prog, clock, old) /\ DOMAIN old = Fields /\ ShapeOK(prog, table, old)
  BY <1>1, <1>2, <1>3 DEF StackOK, FrameOK, ShapesOK
<1>6. /\ DOMAIN same = Fields /\ same.fn = old.fn /\ same.id = old.id /\ same.pc = old.pc
      /\ same.slot = old.slot /\ same.want = old.want /\ same.saved = old.saved
  BY <1>4, <1>5 DEF Fields
<1>7. /\ old.fn \in Fns /\ old.pc \in 1..Len(prog[old.fn]) /\ prog[old.fn][old.pc].op \in Producing
  <2>1. old.fn \in Fns /\ old.pc \in 1..(Len(prog[old.fn]) + 1)
    BY <1>5 DEF FrameOK
  <2>2. Len(prog[old.fn]) \in Nat
    BY <1>1, <2>1, CodeIs
  <2>. QED
    BY <1>4, <2>1, <2>2 DEF Waits, Producing
<1>8. Standing(home) /\ Unwound(home) = Cut(s, L, same)
  BY <1>2, <1>3, <1>4, UnwoundIs
<1>. HIDE DEF same, old, home
<1>9. Last(Unwound(home)) = same /\ Append(Front(Unwound(home)), fr) = Cut(s, L, fr)
  <2>. HIDE DEF fr, s
  <2>1. Append(Front(Cut(s, L, same)), fr) = Cut(s, L, fr) /\ Last(Cut(s, L, same)) = same
    BY <1>3, CutAgain
  <2>. QED
    BY <1>8, <2>1
<1>10. /\ stacks' = [stacks EXCEPT ![Start] = Cut(s, L, fr)]
       /\ regs' = Stored(same, home.regs, v)
  BY <1>4, <1>8, <1>9 DEF SwapBack, home
<1>11. ShapeOK(prog, table, same)
  BY <1>5, <1>6 DEF ShapeOK
<1>12. /\ Stores(prog, table, same, same.pc, home.regs, v, fr, Stored(same, home.regs, v))
       /\ ShapeOK(prog, table, fr) /\ Near(prog, same, fr) /\ fr.pc = same.pc + 1
  BY <1>1, <1>6, <1>7, <1>11, StoredIs
<1>. HIDE DEF fr
<1>13. Stores(prog, table, old, old.pc, home.regs, v, fr, regs')
  BY <1>6, <1>10, <1>12 DEF Stores
<1>14. Near(prog, old, fr)
  BY <1>6, <1>12 DEF Near
<1>15. HomeIs(v, fr)
  BY <1>3, <1>4, <1>6, <1>10, <1>12, <1>13, <1>14 DEF HomeIs, old, home
<1>. QED
  BY <1>15

(* The caller finds what it had, and the generator's block what it has now.*)
LEMMA SwapBackValues ==
  ASSUME Valued, NEW v, NEW done, SwapBack(v, done), fiber # Start, Len(stacks[fiber]) = 1,
         done \/ Doing("YIELD")
  PROVE  ValuesOK'
<1>. DEFINE s == stacks[Start]
            L == Len(s)
<1>1. /\ prog \in Programs /\ Nested /\ RunOK /\ AllReady(prog, table) /\ ShapesOK(prog, table, stacks)
      /\ ValuesOK /\ fiber \in DOMAIN stacks /\ Top = stacks[fiber][1] /\ Top.fn \in Fns
      /\ Start \in DOMAIN stacks /\ Framed(prog, table, s, L) /\ L \in 1..L
      /\ Kept(prog, fiber) => Snap(prog, table, stacks[fiber], 1, Top.pc, regs)
  <2>1. Start \in DOMAIN stacks
    BY TopValues DEF RunOK, StacksOK
  <2>. QED
    BY <2>1, TopValues, FramedIs
<1>2. PICK fr : HomeIs(v, fr)
  BY HomeAgain
<1>. DEFINE z == Cut(s, L, fr)
            new == [gens[fiber] EXCEPT !.value = v, !.done = done, !.fresh = FALSE, !.gen = Place(Top.pc + 1)]
            home == gens[fiber].caller.regs
<1>3. /\ L \in Nat /\ L # 0 /\ L \in 1..L /\ IsList(s) /\ Last(s) = s[L] /\ Waits(prog, s[L], "GEN_NEXT")
      /\ stacks' = [stacks EXCEPT ![Start] = z]
      /\ Stores(prog, table, s[L], s[L].pc, home, v, fr, regs')
      /\ ShapeOK(prog, table, fr) /\ Near(prog, s[L], fr) /\ fr.pc = s[L].pc + 1
  BY <1>2 DEF HomeIs
<1>4. genCur = fiber /\ fiber \in DOMAIN gens /\ gens[fiber].caller.fiber = Start /\ DOMAIN gens[fiber] = Block
  BY <1>1 DEF RunOK, AwayOK, GensOK
<1>5. /\ gens' = [gens EXCEPT ![fiber] = new] /\ fiber' = Start
      /\ prog' = prog /\ table' = table /\ tries' = tries /\ depth' = depth
  BY <1>4 DEF SwapBack, compiled
<1>6. new.done = done /\ new.gen = Place(Top.pc + 1)
  BY <1>4 DEF Block
<1>. HIDE DEF new
<1>7. L \in 1..(L + 1) /\ L # L + 1
  BY <1>3
<1>8. IsList(z) /\ Len(z) = L /\ z[L] = fr /\ \A n \in 1..(L - 1) : z[n] = s[n]
  BY <1>3, <1>7, CutIs
<1>9. Last(z) = fr
  <2>. HIDE DEF z
  <2>. QED
    BY <1>3, <1>8, CutsAre
<1>10. \A n \in 1..L : n # L => z[n] = s[n]
  <2>1. \A n \in 1..L : n # L => n \in 1..(L - 1)
    BY <1>3
  <2>. QED
    BY <1>8, <2>1
<1>. HIDE DEF z
<1>11. /\ DOMAIN stacks' = DOMAIN stacks /\ stacks'[Start] = z
       /\ \A h \in DOMAIN stacks : h # Start => stacks'[h] = stacks[h]
  BY <1>1, <1>3
<1>12. ShapesOK(prog, table, stacks')
  <2>1. ASSUME NEW h \in DOMAIN stacks', NEW m \in 1..Len(stacks'[h]) PROVE ShapeOK(prog, table, stacks'[h][m])
    <3>1. CASE h = Start /\ m = L
      BY <1>3, <1>8, <1>11, <3>1
    <3>2. CASE h = Start /\ m # L
      <4>1. m \in 1..L /\ stacks'[h][m] = s[m]
        BY <1>8, <1>10, <1>11, <2>1, <3>2
      <4>. QED
        BY <1>1, <4>1 DEF ShapesOK
    <3>3. CASE h # Start
      BY <1>1, <1>11, <2>1, <3>3 DEF ShapesOK
    <3>. QED
      BY <3>1, <3>2, <3>3
  <2>. QED
    BY <2>1 DEF ShapesOK
<1>13. Snap(prog, table, z, L, fr.pc, regs')
  <2>1. Snap(prog, table, s, L, s[L].pc, home)
    BY <1>1, <1>3 DEF ValuesOK, AwaySnap
  <2>2. s[L].fn \in Fns /\ TriesNested(prog[s[L].fn])
    BY <1>1 DEF Framed, Nested
  <2>3. s[L].pc \in 1..Len(prog[s[L].fn]) /\ prog[s[L].fn][s[L].pc].op \in Producing
    <3>1. FrameOK(prog, clock, s[L])
      BY <1>1 DEF RunOK, StacksOK, StackOK
    <3>2. Len(prog[s[L].fn]) \in Nat
      BY <1>1, <2>2, CodeIs
    <3>. QED
      BY <1>3, <3>1, <3>2 DEF FrameOK, Waits, Producing
  <2>. HIDE DEF s, L, home
  <2>4. Snap(prog, table, z, L, s[L].pc + 1, regs')
    BY <1>1, <1>3, <1>8, <1>10, <2>1, <2>2, <2>3, SnapStore
  <2>. QED
    BY <1>3, <2>4
<1>14. TrySnap(prog, table, stacks', tries', depth')
  <2>1. TrySnap(prog, table, stacks, tries, depth)
    BY <1>1 DEF ValuesOK
  <2>2. depth' \in Int /\ depth' <= depth /\ \A i \in 0..(depth' - 1) : tries'[i] = tries[i]
    BY <1>1, <1>5 DEF RunOK, Match
  <2>3. /\ L \in 1..(Len(stacks[Start]) + 1) /\ L # Len(stacks[Start]) + 1
        /\ Near(prog, stacks[Start][L], fr) /\ stacks'[Start] = Cut(stacks[Start], L, fr)
    BY <1>3, <1>7, <1>11 DEF z
  <2>. HIDE DEF L
  <2>. QED
    BY <1>1, <1>11, <2>1, <2>2, <2>3, TryStays
<1>15. GenSnap(prog, table, stacks', Start, gens')
  <2>1. SUFFICES ASSUME NEW h \in DOMAIN gens, Kept(prog, h), ~gens'[h].fresh, ~gens'[h].done
                 PROVE  Snap(prog, table, stacks'[h], 1, gens'[h].gen.pc, gens'[h].gen.regs)
    BY <1>5 DEF GenSnap
  <2>2. h # Start
    BY <1>1 DEF RunOK, GensOK, Start
  <2>3. CASE h # fiber
    <3>1. gens'[h] = gens[h]
      BY <1>5, <2>3
    <3>2. h \in DOMAIN stacks
      BY <1>1, <2>1, <3>1 DEF RunOK, GensOK, Suspended
    <3>3. stacks'[h] = stacks[h]
      BY <1>11, <2>2, <3>2
    <3>4. GenSnap(prog, table, stacks, fiber, gens)
      BY <1>1 DEF ValuesOK
    <3>. QED
      BY <2>1, <2>3, <3>1, <3>3, <3>4 DEF GenSnap
  <2>4. CASE h = fiber
    <3>1. gens'[h] = new /\ stacks'[h] = stacks[h]
      BY <1>1, <1>4, <1>5, <1>11, <2>2, <2>4
    <3>2. Doing("YIELD") /\ Kept(prog, fiber)
      BY <1>6, <2>1, <2>4, <3>1
    <3>3. new.gen.pc = Top.pc + 1 /\ new.gen.regs = regs
      BY <1>6 DEF Place
    <3>4. Follows(Code(Top), Top.pc, Top.pc + 1)
      BY <1>1, <3>2, DoingIs DEF Follows
    <3>5. \A t \in Live(prog, table, Top.fn, Top.pc + 1) : t \in Live(prog, table, Top.fn, Top.pc)
      BY <3>2, <3>4, MoveLive DEF Producing
    <3>6. Snap(prog, table, stacks[fiber], 1, Top.pc, regs)
      BY <1>1, <3>2
    <3>. DEFINE w == stacks[fiber]
    <3>7. Top.fn = w[1].fn
      BY <1>1
    <3>. HIDE DEF w
    <3>8. Snap(prog, table, w, 1, Top.pc + 1, regs)
      <4>1. Snap(prog, table, w, 1, Top.pc, regs) /\ 1 \in Nat
        BY <3>6 DEF w
      <4>2. \A t \in Live(prog, table, w[1].fn, Top.pc + 1) : t \in Live(prog, table, w[1].fn, Top.pc)
        BY <3>5, <3>7
      <4>. QED
        BY <4>1, <4>2, SnapLike
    <3>. QED
      BY <2>4, <3>1, <3>3, <3>8 DEF w
  <2>. QED
    BY <2>3, <2>4
<1>16. AwaySnap(prog, table, stacks', Start, gens')
  BY DEF AwaySnap
<1>. QED
  BY <1>5, <1>8, <1>9, <1>11, <1>12, <1>13, <1>14, <1>15, <1>16 DEF ValuesOK

(* A generator is left by a yield or by its end.                           *)
LEMMA LeaveValues ==
  ASSUME Valued, OneGenerator, Yield \/ GenReturn
  PROVE  ValuesOK'
<1>1. CASE Yield
  <2>1. Doing("YIELD") /\ fiber # Start /\ Len(stacks[fiber]) = 1
    BY <1>1, WhereIs, TopValues DEF Yield
  <2>. QED
    BY <1>1, <2>1, SwapBackValues DEF Yield
<1>2. CASE GenReturn
  BY <1>2, SwapBackValues DEF GenReturn
<1>. QED
  BY <1>1, <1>2

-----------------------------------------------------------------------------
(* The compiler.                                                           *)

LEMMA CoversIs ==
  ASSUME NEW c \in Codes, NEW t \in TempsOf(c), NEW i \in Mentioned(c, t)
  PROVE  Min(Mentioned(c, t)) <= i /\ i <= Max(Mentioned(c, t))
<1>. DEFINE S == Mentioned(c, t)
<1>1. Len(c) \in Nat
  BY CodesAssumption
<1>2. S \subseteq 1..Len(c) /\ S # {}
  BY DEF Mentioned
<1>3. S \subseteq Nat /\ \A x \in S : x <= Len(c)
  BY <1>1, <1>2
<1>. HIDE DEF S
<1>4. i \in S
  BY DEF S
<1>5. \E x \in S : \A y \in S : x <= y
  BY <1>3, <1>4, FirstOne
<1>6. \E x \in S : \A y \in S : y <= x
  BY <1>1, <1>2, LastOne
<1>7. \A x, y \in S : y <= x <=> x >= y
  BY <1>3
<1>8. Min(S) <= i
  BY <1>4, <1>5 DEF Min
<1>9. i <= Max(S)
  <2>1. \E x \in S : \A y \in S : x >= y
    BY <1>6, <1>7
  <2>2. Max(S) \in S /\ Max(S) >= i
    BY <1>4, <2>1 DEF Max
  <2>. QED
    BY <1>4, <1>7, <2>2
<1>. QED
  BY <1>8, <1>9 DEF S

(* Intervals only grow while a function is compiled.                       *)
LEMMA CoversStep ==
  ASSUME IInv, Covers, [AllocNext]_allocVars
  PROVE  Covers'
<1>1. TypeOK
  BY DEF IInv
<1>2. CASE \E c \in Codes : Allocate(c)
  BY <1>2, CoversIs DEF Allocate, Covers
<1>3. CASE UNCHANGED <<code, begins, ends>>
  BY <1>3 DEF Covers
<1>4. CASE \E t \in DOMAIN ends, loop \in LoopRegions(code) : Extend(t, loop)
  <2>1. PICK t \in DOMAIN ends, loop \in LoopRegions(code) : Extend(t, loop)
    BY <1>4
  <2>2. /\ ends[t] < loop[2] /\ ends' = [ends EXCEPT ![t] = loop[2]] /\ code' = code /\ begins' = begins
    BY <2>1 DEF Extend, MustReach
  <2>3. Len(code) \in Nat /\ loop[2] \in 1..Len(code)
    BY <1>1, CodesAssumption DEF TypeOK, LoopRegions
  <2>4. ASSUME NEW u \in TempsOf(code), NEW i \in Mentioned(code, u) PROVE begins[u] <= i /\ i <= ends'[u]
    <3>1. begins[u] <= i /\ i <= ends[u] /\ i \in 1..Len(code) /\ ends[u] \in 1..Len(code)
      BY <1>1 DEF Covers, TypeOK, Mentioned
    <3>2. CASE u = t
      <4>1. ends'[u] = loop[2]
        BY <2>2, <3>2
      <4>. QED
        BY <2>2, <2>3, <3>1, <3>2, <4>1
    <3>3. CASE u # t
      BY <2>2, <3>1, <3>3
    <3>. QED
      BY <3>2, <3>3
  <2>. QED
    BY <2>2, <2>4 DEF Covers
<1>. QED
  BY <1>2, <1>3, <1>4 DEF AllocNext, AllocStep, TakeFree, Evict, StayOnStack, allocVars, intervals

(* So they always have all mentions.                                       *)
LEMMA CoversAlways == Spec => [](IInv /\ Covers)
<1>1. AllocInit => Covers
  BY CoversIs DEF AllocInit, Covers
<1>2. IInv /\ Covers /\ [AllocNext]_allocVars => Covers'
  BY CoversStep
<1>. QED
  BY <1>1, <1>2, CompilesByAllocator, Invariance, PTL DEF AllocSpec

(* What the compiler notes of a function that is done.                     *)
LEMMA TableIs ==
  ASSUME IInv, Covers, Allocated, NEW p, NEW fn, p[fn] = code, NEW tb,
         tb[fn] = [reg |-> tempReg, saves |-> saved, begins |-> begins, ends |-> ends]
  PROVE  TableOK(p, tb, fn)
<1>1. TypeOK /\ Swept /\ NeverShared /\ PrologueCovers /\ todo = {}
  BY DEF IInv, Allocated
<1>2. Len(code) \in Nat
  BY <1>1, CodesAssumption DEF TypeOK
<1>3. ASSUME NEW t \in TempsOf(code)
      PROVE  /\ tempReg[t] \in saved \cup {NoReg}
             /\ \A i \in Mentioned(code, t) : begins[t] <= i /\ i <= ends[t]
             /\ \A loop \in LoopRegions(code) :
                  begins[t] <= loop[2] /\ ends[t] >= loop[1] => ends[t] >= loop[2]
             /\ \A u \in TempsOf(code) : t # u /\ tempReg[t] = tempReg[u] /\ tempReg[t] # NoReg =>
                  ends[u] < begins[t] \/ ends[t] < begins[u]
  <2>1. tempReg[t] \in saved \cup {NoReg}
    BY <1>1 DEF PrologueCovers, TypeOK
  <2>2. \A i \in Mentioned(code, t) : begins[t] <= i /\ i <= ends[t]
    BY DEF Covers
  <2>3. ASSUME NEW loop \in LoopRegions(code), begins[t] <= loop[2], ends[t] >= loop[1] PROVE ends[t] >= loop[2]
    <3>1. Reached
      BY <1>1 DEF Swept
    <3>2. ~(ends[t] < loop[2])
      BY <1>1, <2>3, <3>1 DEF Reached, MustReach, TypeOK
    <3>3. ends[t] \in Nat /\ loop[2] \in Nat
      BY <1>1, <1>2 DEF TypeOK, LoopRegions
    <3>. QED
      BY <3>2, <3>3
  <2>4. ASSUME NEW u \in TempsOf(code), t # u, tempReg[t] = tempReg[u], tempReg[t] # NoReg
        PROVE  ends[u] < begins[t] \/ ends[t] < begins[u]
    <3>1. ~Overlap(t, u)
      BY <1>1, <2>4 DEF NeverShared, TypeOK
    <3>2. begins[t] \in Nat /\ ends[t] \in Nat /\ begins[u] \in Nat /\ ends[u] \in Nat
      BY <1>1, <1>2 DEF TypeOK
    <3>. QED
      BY <3>1, <3>2 DEF Overlap
  <2>. QED
    BY <2>1, <2>2, <2>3, <2>4
<1>. DEFINE T == tb[fn]
<1>4. T.reg = tempReg /\ T.saves = saved /\ T.begins = begins /\ T.ends = ends
  OBVIOUS
<1>. HIDE DEF T
<1>5. /\ T.reg \in [TempsOf(code) -> Registers \cup {NoReg}]
      /\ T.begins \in [TempsOf(code) -> 1..Len(code)] /\ T.ends \in [TempsOf(code) -> 1..Len(code)]
  BY <1>1, <1>4 DEF TypeOK
<1>. QED
  BY <1>3, <1>4, <1>5 DEF TableOK, T

(* A program that runs does not compile any more.                          *)
LEMMA RunsOn ==
  ASSUME [Next]_vars
  PROVE  \/ PlaceTemps \/ FinishFunction \/ StartProgram \/ UNCHANGED vars
         \/ mode = "run" /\ mode' # "compile" /\ prog' = prog /\ table' = table
<1>1. CASE Make \/ Range_ \/ Construct \/ Label \/ JumpTo \/ GoOn \/ Call \/ Return \/ Halt
  BY <1>1 DEF Make, Range_, Construct, Scratch, Label, JumpTo, GoOn, Call, Return, Halt, Stop, compiled,
    Doing, Returning
<1>2. CASE LockBegin \/ LockEnd \/ TryBegin \/ CatchBegin \/ TryEnd \/ Divide \/ Trap
  BY <1>2 DEF LockBegin, LockEnd, TryBegin, CatchBegin, TryEnd, Divide, Trap, Stop, compiled, Doing
<1>3. CASE GenCreate \/ GenSkip \/ GenNext \/ GenCrash \/ Yield \/ GenReturn
  BY <1>3 DEF GenCreate, GenSkip, GenNext, GenCrash, Yield, GenReturn, SwapBack, Stop, compiled, Doing, Returning
<1>. QED
  BY <1>1, <1>2, <1>3 DEF Next

(* The tables are right once made, and when the program runs all are.      *)
LEMMA CodeStep ==
  ASSUME Placed, IInv, Covers, CodeOK, [Next]_vars
  PROVE  CodeOK'
<1>1. prog' = prog
  BY ProgStays
<1>2. CASE PlaceTemps
  <2>1. mode' = "compile" /\ table' = table /\ nth' = nth /\ regs' = regs /\ mode = "compile"
    BY <1>2 DEF PlaceTemps, machine
  <2>2. code' = code
    BY <1>2 DEF PlaceTemps, AllocStep, Extend, TakeFree, Evict, StayOnStack
  <2>. QED
    BY <1>1, <2>1, <2>2 DEF CodeOK
<1>3. CASE FinishFunction
  <2>1. /\ mode = "compile" /\ mode' = "compile" /\ regs' = regs /\ nth <= Len(Order) /\ Allocated
        /\ table' = With(table, Order[nth], [reg |-> tempReg, saves |-> saved,
                                             begins |-> begins, ends |-> ends])
        /\ nth' = nth + 1 /\ (nth # Len(Order) => code' = prog[Order[nth + 1]])
    BY <1>3 DEF FinishFunction, machine, Allocate
  <2>2. nth \in 1..3 /\ nth \in Nat
    BY <2>1, OrderIs DEF Placed
  <2>3. code = prog[Order[nth]]
    BY <2>1 DEF CodeOK
  <2>4. Order[nth] \in DOMAIN table' /\ TableOK(prog, table', Order[nth])
    BY <2>1, <2>3, TableIs DEF With
  <2>5. ASSUME NEW k \in 1..nth PROVE Order[k] \in DOMAIN table' /\ TableOK(prog, table', Order[k])
    <3>1. CASE k = nth
      BY <2>4, <3>1
    <3>2. CASE k # nth
      <4>1. k \in 1..(nth - 1) /\ k \in 1..3
        BY <2>2, <3>2
      <4>2. TableOK(prog, table, Order[k]) /\ Order[k] \in DOMAIN table'
        BY <2>1, <4>1 DEF CodeOK, With
      <4>3. Order[k] # Order[nth]
        BY <2>2, <3>2, <4>1, OrderIs
      <4>4. table[Order[k]] = table'[Order[k]]
        BY <2>1, <4>1, <4>3 DEF With, CodeOK
      <4>. QED
        BY <4>2, <4>4 DEF TableOK
    <3>. QED
      BY <3>1, <3>2
  <2>6. nth' <= Len(Order) => code' = prog[Order[nth']]
    <3>1. nth' <= Len(Order) => nth # Len(Order)
      BY <2>1, <2>2, OrderIs
    <3>. QED
      BY <2>1, <3>1
  <2>7. \A k \in 1..(nth' - 1) : Order[k] \in DOMAIN table' /\ TableOK(prog', table', Order[k])
    <3>1. \A k \in 1..(nth' - 1) : k \in 1..nth
      BY <2>1, <2>2
    <3>. QED
      BY <1>1, <2>5, <3>1
  <2>. QED
    BY <1>1, <2>1, <2>6, <2>7 DEF CodeOK
<1>4. CASE StartProgram
  <2>1. mode = "compile" /\ mode' = "run" /\ table' = table /\ nth > Len(Order)
    BY <1>4 DEF StartProgram, compiled
  <2>2. nth = 4
    BY <2>1, OrderIs DEF Placed
  <2>3. 1 \in 1..(nth - 1) /\ 2 \in 1..(nth - 1) /\ 3 \in 1..(nth - 1)
    BY <2>2
  <2>4. \A fn \in Fns : TableOK(prog, table, fn)
    BY <2>1, <2>3, OrderIs DEF CodeOK, Fns
  <2>. QED
    BY <1>1, <2>1, <2>4 DEF CodeOK
<1>5. CASE UNCHANGED vars
  BY <1>5 DEF CodeOK, vars, compiled, allocVars, machine
<1>6. CASE mode = "run" /\ mode' # "compile" /\ prog' = prog /\ table' = table
  BY <1>6 DEF CodeOK
<1>. QED
  BY <1>2, <1>3, <1>4, <1>5, <1>6, RunsOn

(* A program starts with nothing in its temporaries, and needs nothing.    *)
LEMMA StartValues ==
  ASSUME Assigned, HInv, CodeOK, StartProgram, nth = 4
  PROVE  ValuesOK'
<1>. DEFINE fr == Entered("main", regs)
<1>1. /\ prog \in Programs /\ gens = <<>> /\ fiber = Start /\ depth = 0
      /\ DOMAIN regs = Registers /\ \A k \in 1..(nth - 1) : TableOK(prog, table, Order[k])
  BY DEF HInv, CodeOK, StartProgram
<1>2. /\ stacks' = [h \in {Start} |-> <<fr>>] /\ prog' = prog /\ table' = table /\ regs' = regs
      /\ fiber' = Start /\ gens' = <<>> /\ depth' = 0 /\ tries' = tries
  BY <1>1 DEF StartProgram, compiled
<1>3. AllReady(prog, table)
  <2>1. 1 \in 1..(nth - 1) /\ 2 \in 1..(nth - 1) /\ 3 \in 1..(nth - 1)
    OBVIOUS
  <2>. QED
    BY <1>1, <2>1, OrderIs DEF AllReady, Fns
<1>4. fr.fn = "main" /\ fr.pc = 1 /\ ShapeOK(prog, table, fr)
  BY DEF Entered, ShapeOK
<1>. HIDE DEF fr
<1>5. /\ DOMAIN stacks' = {Start} /\ Len(stacks'[Start]) = 1 /\ stacks'[Start][1] = fr /\ Last(stacks'[Start]) = fr
  <2>1. <<fr>> = Cut(<<>>, 1, fr)
    <3>1. SubSeq(<<>>, 1, 1 - 1) = <<>>
      <4>1. <<>> \in Seq({})
        OBVIOUS
      <4>. QED
        BY <4>1
    <3>2. Append(<<>>, fr) = <<fr>>
      OBVIOUS
    <3>. QED
      BY <3>1, <3>2 DEF Cut
  <2>. DEFINE u == Cut(<<>>, 1, fr)
  <2>2. IsList(u) /\ Len(u) = 1 /\ u[1] = fr
    BY OneIs
  <2>. HIDE DEF u
  <2>3. Last(u) = fr
    BY <2>2, CutsAre
  <2>. QED
    BY <1>2, <2>1, <2>2, <2>3 DEF u
<1>6. \A n \in 1..1 : n = 1
  OBVIOUS
<1>7. ShapesOK(prog, table, stacks')
  BY <1>4, <1>5, <1>6 DEF ShapesOK
<1>8. Snap(prog, table, stacks'[Start], 1, 1, regs)
  <2>1. Live(prog, table, "main", 1) = {}
    BY <1>3, FirstLive DEF Fns
  <2>. QED
    BY <1>1, <1>4, <1>5, <1>6, <2>1 DEF Snap, Right
<1>9. TrySnap(prog, table, stacks', tries, 0)
  BY DEF TrySnap
<1>10. GenSnap(prog, table, stacks', Start, <<>>)
  BY EmptyIs DEF GenSnap
<1>11. AwaySnap(prog, table, stacks', Start, <<>>)
  BY DEF AwaySnap
<1>. QED
  BY <1>2, <1>4, <1>5, <1>7, <1>8, <1>9, <1>10, <1>11 DEF ValuesOK

(* Every step of a program keeps what its temporaries hold.                *)
LEMMA ValuesStep ==
  ASSUME Valued, OneGenerator, Next, mode = "run", mode' = "run"
  PROVE  ValuesOK'
<1>1. CASE PlaceTemps \/ FinishFunction \/ StartProgram
  BY <1>1 DEF PlaceTemps, FinishFunction, StartProgram
<1>2. CASE Make \/ Divide \/ GenSkip \/ GenCreate
  BY <1>2, MakeValues
<1>3. CASE Range_ \/ Construct
  BY <1>3, ScratchValues
<1>4. CASE Label \/ GoOn \/ LockEnd \/ TryEnd \/ LockBegin \/ JumpTo \/ CatchBegin
  BY <1>4, PassValues
<1>5. CASE Call
  BY <1>5, CallValues
<1>6. CASE Return
  BY <1>6, ReturnValues
<1>7. CASE TryBegin
  BY <1>7, TryValues
<1>8. CASE Trap
  BY <1>8, TrapValues
<1>9. CASE GenNext
  BY <1>9, GenNextValues
<1>10. CASE Yield \/ GenReturn
  BY <1>10, LeaveValues
<1>11. CASE Halt \/ GenCrash
  BY <1>11 DEF Halt, GenCrash, Stop
<1>. QED
  BY <1>1, <1>2, <1>3, <1>4, <1>5, <1>6, <1>7, <1>8, <1>9, <1>10, <1>11 DEF Next

(* Compiled and run, a program's values are in their places.               *)
LEMMA StepVInv ==
  ASSUME Nested, OneGenerator, Assigned, Placed, IInv, Covers, VInv, [Next]_vars
  PROVE  VInv'
<1>1. HInv /\ CodeOK /\ (mode = "run" /\ ~LeavesTry => ValuesOK)
  BY DEF VInv
<1>2. HInv' /\ CodeOK'
  BY <1>1, StepHInv, CodeStep
<1>3. ASSUME mode' = "run", ~LeavesTry' PROVE ValuesOK'
  <2>1. ~LeavesTry
    BY <1>3, ProgStays
  <2>2. CASE mode = "run"
    <3>1. Valued
      BY <1>1, <2>1, <2>2 DEF HInv, CodeOK, Valued, AllReady
    <3>2. CASE Next
      BY <1>3, <2>2, <3>1, <3>2, ValuesStep
    <3>3. CASE UNCHANGED vars
      BY <3>1, <3>3 DEF Valued, ValuesOK, vars, compiled, machine
    <3>. QED
      BY <3>2, <3>3
  <2>3. CASE mode # "run"
    <3>1. StartProgram
      BY <1>3, <2>3, RunsOn DEF PlaceTemps, FinishFunction, vars
    <3>2. nth = 4
      BY <3>1, OrderIs DEF StartProgram, Placed
    <3>. QED
      BY <1>1, <3>1, <3>2, StartValues
  <2>. QED
    BY <2>2, <2>3
<1>. QED
  BY <1>2, <1>3 DEF VInv

(* Before anything is compiled there is nothing to show.                   *)
LEMMA InitVInv == ASSUME CompileInit PROVE VInv
<1>1. HInv
  BY InitHInv
<1>2. CodeOK
  BY OrderIs DEF CompileInit, CodeOK
<1>. QED
  BY <1>1, <1>2 DEF CompileInit, VInv

(* The invariant of UsesFind and SwapsHome.                                *)
LEMMA ValuesAlways == ASSUME Nested, OneGenerator, Assigned PROVE Spec => []VInv
<1>1. CompileInit => VInv
  BY InitVInv
<1>2. Placed /\ (IInv /\ Covers) /\ VInv /\ [Next]_vars => VInv'
  BY StepVInv
<1>. QED
  BY <1>1, <1>2, PlacedAlways, CoversAlways, PTL DEF Spec

(* What an instruction finds, in the model's words.                        *)
LEMMA FoundIs == ASSUME Valued, Kept(prog, fiber), Running PROVE UsesFind
<1>. DEFINE s == stacks[fiber]
            m == Len(s)
<1>1. SUFFICES ASSUME ~AtEnd(Top), NEW t \in At(Top).uses
               PROVE  Exposed(Top.fn, t) \/ Find(Top, t) = Top.want[t]
  BY DEF UsesFind
<1>2. /\ prog \in Programs /\ RunOK /\ Nested /\ AllReady(prog, table) /\ m \in 1..m /\ Top = s[m] /\ Top.fn \in Fns
      /\ Code(Top) = prog[Top.fn] /\ Snap(prog, table, s, m, Top.pc, regs)
  BY TopValues
<1>3. Top.pc \in 1..Len(prog[Top.fn]) /\ t \in prog[Top.fn][Top.pc].uses
  BY <1>1, <1>2, TopIs DEF AtEnd, At
<1>4. t \in Live(prog, table, Top.fn, Top.pc)
  BY <1>2, <1>3, UsesLive
<1>5. Right(prog, table, s, m, regs, m, Top.pc)
  BY <1>2 DEF Snap
<1>. DEFINE r == table[Top.fn].reg[t]
<1>6. Sees(s, m, regs, m, r) = regs[r]
  <2>. HIDE DEF s
  <2>. QED
    BY <1>2 DEF Sees
<1>7. Find(Top, t) = IF r = NoReg THEN Top.slot[t] ELSE regs[r]
  BY DEF Find, Where
<1>. HIDE DEF s, m, r
<1>8. IF r = NoReg THEN Top.slot[t] = Top.want[t] ELSE Fine(prog, table, Top.fn, t, regs[r], Top.want[t])
  BY <1>2, <1>4, <1>5, <1>6 DEF Right, r
<1>9. Bare(prog, table, Top.fn, t) => Exposed(Top.fn, t)
  BY DEF Bare, Exposed, Scratches, Spoils
<1>. QED
  BY <1>7, <1>8, <1>9 DEF Fine

(* An instruction finds in its operands what the IR says they hold: for    *)
(* every program, number of registers and order of equal intervals, through*)
(* loops, calls (that push and pop), exceptions (that bring back the       *)
(* registers of the try clause) and switches of stacks.  An exception that *)
(* leaves a generator undoes what the generator's registers held since its *)
(* last yield, and not its slots: then only main's stack is spoken of.     *)
THEOREM UsesAsMeant ==
  ASSUME Nested, OneGenerator, Assigned
  PROVE  Spec => [](Calm(prog) \/ fiber = Start => UsesFind)
<1>1. VInv => (Calm(prog) \/ fiber = Start => UsesFind)
  <2>1. SUFFICES ASSUME VInv, Calm(prog) \/ fiber = Start, Running, ~LeavesTry PROVE UsesFind
    BY DEF UsesFind
  <2>2. Valued
    BY <2>1 DEF VInv, HInv, CodeOK, Valued, AllReady, Running
  <2>. QED
    BY <2>1, <2>2, FoundIs DEF Kept
<1>. QED
  BY <1>1, ValuesAlways, PTL

(* While a generator runs its block leads back to the GEN_NEXT that named  *)
(* it: the caller's registers in the block are those its frame counts on.  *)
THEOREM SwapsHomeAlways == ASSUME Nested, OneGenerator, Assigned PROVE Spec => []SwapsHome
<1>1. VInv /\ LeadsHome => SwapsHome
  <2>1. SUFFICES ASSUME VInv, LeadsHome, Running, ~LeavesTry, fiber # Start PROVE SwapsHome
    BY DEF SwapsHome
  <2>2. ValuesOK
    BY <2>1 DEF VInv, Running
  <2>3. LET fr == Last(stacks[Start]) IN \E t \in prog[fr.fn][fr.pc].uses : fr.want[t] = fiber
    BY <2>1, <2>2 DEF ValuesOK, AwaySnap
  <2>. QED
    BY <2>1, <2>3 DEF SwapsHome, LeadsHome, At, Code
<1>. QED
  BY <1>1, ValuesAlways, LeadsHomeAlways, PTL
=============================================================================
