------------------------------- MODULE BnyHeap -------------------------------
(***************************************************************************)
(* The heap of the native backend: a cursor that only goes up through      *)
(* regions of memory, lists [cap][len][e1].. and dicts [cap][n][k1][v1]..  *)
(* that variables point behind the first word of, and the event table.     *)
(*                                                                         *)
(* Memory is its words; an address is a position in it.  Nothing stands    *)
(* between two blocks, so that a word written past one is the first of     *)
(* the next.                                                               *)
(***************************************************************************)
EXTENDS Integers, Sequences, FiniteSets, FiniteSetsExt

CONSTANTS
  Vars, Values, Keys, Functions, Nothing,
  ListSeed,     \* the least capacity of a list literal, 4 in the code
  DictSeed,     \* the first capacity of a dict, 8
  EventSlots,   \* the functions that may be bound, 64
  RegionWords,  \* the words of a region, 64 MB
  Literals,     \* the elements that the list literals of a program have
  Ranges,       \* those of its ranges
  DictPairs,    \* the pairs of its dict literals
  MaxWords,     \* bound: how much memory a run maps
  MaxMade       \* bound: how many lists and dicts a run makes

NoKey == 0
Null == 0

ASSUME SeedsAssumption ==
  /\ ListSeed \in Nat \ {0} /\ DictSeed \in Nat \ {0} /\ EventSlots \in Nat
  /\ RegionWords \in Nat \ {0} /\ MaxWords \in Nat /\ MaxMade \in Nat
ASSUME WordsAssumption ==
  /\ Values \subseteq Nat /\ Keys \subseteq Nat \ {NoKey} /\ Functions \subseteq Nat
  /\ Literals \cup Ranges \subseteq Seq(Values) /\ DictPairs \subseteq Seq(Keys \X Values)

VARIABLES
  mem,     \* the words of the regions mapped so far
  cursor,  \* __heap_cursor, Null before the first region
  limit,   \* __heap_limit: the first address after the region
  ptr,     \* the pointer in each variable, Null before the first assignment
  kinds,   \* what the compiler takes each variable for
  keysPtr, fnsPtr, evCount,  \* __ev_keys, __ev_fns and __ev_n
  fired,   \* the function that the last event ran
  made     \* how many lists and dicts there have been

heapVars == <<mem, cursor, limit>>
events == <<keysPtr, fnsPtr, evCount, fired>>
vars == <<heapVars, ptr, kinds, events, made>>

-----------------------------------------------------------------------------
(* Memory.                                                                 *)

Heap == [mem |-> mem, cursor |-> cursor, limit |-> limit]

(* __ac_alloc__: the block is at the cursor, in a fresh region when it     *)
(* would cross the limit of this one.                                      *)
Alloc(h, words) ==
  LET fits == h.cursor # Null /\ h.cursor + words <= h.limit
      size == IF words < RegionWords THEN RegionWords ELSE RegionWords + words
      base == Len(h.mem) + 1
  IN IF fits
     THEN [at |-> h.cursor, h |-> [h EXCEPT !.cursor = @ + words]]
     ELSE [at |-> base, h |-> [mem |-> h.mem \o [i \in 1..size |-> 0],
                               cursor |-> base + words, limit |-> base + size]]

(* The words of `new` written at their addresses.                          *)
Write(h, new) ==
  [h EXCEPT !.mem = [a \in DOMAIN h.mem |-> IF a \in DOMAIN new THEN new[a] ELSE h.mem[a]]]

Cap(h, p) == h.mem[p - 1]
Count(h, p) == h.mem[p]

(* A block of n words of contents with room for cap of them, each `width`  *)
(* words wide.                                                             *)
NewBlock(h, words, cap, n, contents) ==
  LET b == Alloc(h, words)
      p == b.at + 1
  IN [at |-> p,
      h |-> Write(b.h, [a \in p - 1..p + Len(contents) |->
                          IF a = p - 1 THEN cap ELSE IF a = p THEN n ELSE contents[a - p]])]

(* A mutant: the new block has no word for its capacity.                   *)
Bug_AppendTo(h, p, x) ==
  LET len == Count(h, p)
      cap == Cap(h, p)
      old == [i \in 1..len |-> h.mem[p + i]]
  IN IF len < cap
     THEN [at |-> p, h |-> Write(h, [a \in {p, p + len + 1} |-> IF a = p THEN len + 1 ELSE x])]
     ELSE NewBlock(h, 2 * cap + 1, 2 * cap, len + 1, Append(old, x))

(* __ac_append__                                                           *)
AppendTo(h, p, x) ==
  LET len == Count(h, p)
      cap == Cap(h, p)
      old == [i \in 1..len |-> h.mem[p + i]]
  IN IF len < cap
     THEN [at |-> p, h |-> Write(h, [a \in {p, p + len + 1} |-> IF a = p THEN len + 1 ELSE x])]
     ELSE NewBlock(h, 2 * cap + 2, 2 * cap, len + 1, Append(old, x))

(* A mutant: the scan begins with the second pair.                         *)
Bug_PairOf(h, p, k) == {i \in 1..Count(h, p) - 1 : h.mem[p + 1 + 2 * i] = k}

(* __ac_dict_get__ and its like look for the first pair with the key.      *)
PairOf(h, p, k) == {i \in 0..Count(h, p) - 1 : h.mem[p + 1 + 2 * i] = k}

(* __ac_dict_set__                                                         *)
PutInto(h, p, k, x) ==
  LET n == Count(h, p)
      old == [i \in 1..2 * n |-> h.mem[p + i]]
  IN IF PairOf(h, p, k) # {}
     THEN [at |-> p, h |-> Write(h, [a \in {p + 2 + 2 * Min(PairOf(h, p, k))} |-> x])]
     ELSE IF n < Cap(h, p)
     THEN [at |-> p, h |-> Write(h, [a \in {p, p + 1 + 2 * n, p + 2 + 2 * n} |->
                               IF a = p THEN n + 1 ELSE IF a = p + 1 + 2 * n THEN k ELSE x])]
     ELSE NewBlock(h, 2 * (2 * n + 1), 2 * n, n + 1, old \o <<k, x>>)

-----------------------------------------------------------------------------
Init ==
  /\ mem = <<>> /\ cursor = Null /\ limit = Null
  /\ ptr = [v \in Vars |-> Null]
  /\ kinds = [v \in Vars |-> "none"]
  /\ keysPtr = Null /\ fnsPtr = Null /\ evCount = 0 /\ fired = Nothing
  /\ made = 0

SetHeap(h) ==
  /\ Len(h.mem) <= MaxWords
  /\ mem' = h.mem /\ cursor' = h.cursor /\ limit' = h.limit

(* The result of a helper goes into the variable: store(ops[0], RAX).      *)
Keep(v, kind, block) ==
  /\ SetHeap(block.h)
  /\ ptr' = [ptr EXCEPT ![v] = block.at]
  /\ kinds' = [kinds EXCEPT ![v] = kind]
  /\ UNCHANGED events

Make == made < MaxMade /\ made' = made + 1

(* A mutant: the seed is the capacity of a longer literal too.             *)
Bug_ListLiteral(v, elems) ==
  /\ Make
  /\ Keep(v, "list", NewBlock(Heap, Len(elems) + 2, ListSeed, Len(elems), elems))

(* ALLOC "list"                                                            *)
ListLiteral(v, elems) ==
  /\ Make
  /\ LET cap == Max({Len(elems), ListSeed})
     IN Keep(v, "list", NewBlock(Heap, cap + 2, cap, Len(elems), elems))

(* ALLOC "range": the capacity is the number of elements, 0 of an empty    *)
(* one.                                                                    *)
RangeList(v, elems) ==
  /\ Make
  /\ Keep(v, "list", NewBlock(Heap, Len(elems) + 2, Len(elems), Len(elems), elems))

(* ALLOC "dict", with __ac_dict_set__ for each pair of the literal.        *)
DictSteps(pairs) ==
  LET step[i \in 0..Len(pairs)] ==
        IF i = 0 THEN NewBlock(Heap, 2 * (DictSeed + 1), DictSeed, 0, <<>>)
        ELSE PutInto(step[i-1].h, step[i-1].at, pairs[i][1], pairs[i][2])
  IN step
DictBlock(pairs) == DictSteps(pairs)[Len(pairs)]
DictLiteral(v, pairs) == Make /\ Keep(v, "dict", DictBlock(pairs))

Copy(v, w) ==
  /\ ptr[w] # Null
  /\ ptr' = [ptr EXCEPT ![v] = ptr[w]]
  /\ kinds' = [kinds EXCEPT ![v] = kinds[w]]
  /\ UNCHANGED <<heapVars, events, made>>

AppendValue(v, x) ==
  /\ kinds[v] = "list"
  /\ Keep(v, "list", AppendTo(Heap, ptr[v], x))
  /\ UNCHANGED made

(* STORE_INDEX of a list, at an index that it has.                         *)
StoreElement(v, i, x) ==
  /\ kinds[v] = "list" /\ i <= Count(Heap, ptr[v])
  /\ SetHeap(Write(Heap, [a \in {ptr[v] + i} |-> x]))
  /\ UNCHANGED <<ptr, kinds, events, made>>

StoreKey(v, k, x) ==
  /\ kinds[v] = "dict"
  /\ Keep(v, "dict", PutInto(Heap, ptr[v], k, x))
  /\ UNCHANGED made

(* __ac_bind__: the two tables are allocated by the first one.             *)
Tables ==
  IF keysPtr # Null THEN [keys |-> keysPtr, fns |-> fnsPtr, h |-> Heap]
  ELSE LET one == Alloc(Heap, EventSlots)
           two == Alloc(one.h, EventSlots)
       IN [keys |-> one.at, fns |-> two.at, h |-> two.h]
Bind(k, f) ==
  /\ evCount < EventSlots
  /\ LET t == Tables
     IN /\ SetHeap(Write(t.h, [a \in {t.keys + evCount, t.fns + evCount} |->
                                 IF a = t.keys + evCount THEN k ELSE f]))
        /\ keysPtr' = t.keys /\ fnsPtr' = t.fns
  /\ evCount' = evCount + 1
  /\ UNCHANGED <<ptr, kinds, fired, made>>

(* __ac_trigger__ calls the first function whose key is the event's.       *)
Matching(k) == {i \in 0..evCount - 1 : mem[keysPtr + i] = k}
Trigger(k) ==
  /\ Matching(k) # {}
  /\ fired' = mem[fnsPtr + Min(Matching(k))]
  /\ UNCHANGED <<heapVars, ptr, kinds, keysPtr, fnsPtr, evCount, made>>

(* A list that AppendTo has a capacity to double of.                       *)
Doubles(v) == kinds[v] = "list" /\ Cap(Heap, ptr[v]) # 0

(* The programs that append to no list that an empty range has made.       *)
RoomyNext ==
  \/ \E v \in Vars :
       \/ \E elems \in Literals : ListLiteral(v, elems)
       \/ \E elems \in Ranges : RangeList(v, elems)
       \/ \E pairs \in DictPairs : DictLiteral(v, pairs)
       \/ \E w \in Vars \ {v} : Copy(v, w)
       \/ \E x \in Values : \/ Doubles(v) /\ AppendValue(v, x)
                            \/ \E i \in 1..MaxWords : StoreElement(v, i, x)
                            \/ \E k \in Keys : StoreKey(v, k, x)
  \/ \E k \in Keys : Trigger(k) \/ \E f \in Functions : Bind(k, f)
RoomySpec == Init /\ [][RoomyNext]_vars

(* All programs.                                                           *)
Next == RoomyNext \/ \E v \in Vars, x \in Values : AppendValue(v, x)
Spec == Init /\ [][Next]_vars

-----------------------------------------------------------------------------
(* Properties.                                                             *)

(* What is in memory for the programmer: the elements of a list, the pairs *)
(* of a dict, the functions bound.                                         *)
Read(v) ==
  IF kinds[v] = "none" THEN <<>>
  ELSE [i \in 1..Count(Heap, ptr[v]) |->
          IF kinds[v] = "list" THEN <<NoKey, mem[ptr[v] + i]>>
          ELSE <<mem[ptr[v] + 2 * i - 1], mem[ptr[v] + 2 * i]>>]
Sharing(v) == {w \in Vars : w = v \/ (ptr[v] # Null /\ ptr[w] = ptr[v])}
BoundNow == [i \in 1..evCount |-> <<mem[keysPtr + i - 1], mem[fnsPtr + i - 1]>>]

Keyless(elems) == [i \in 1..Len(elems) |-> <<NoKey, elems[i]>>]
Promised == INSTANCE AcObjects WITH
  Lists <- {Keyless(elems) : elems \in Literals \cup Ranges}, Pairs <- DictPairs,
  kind <- kinds, items <- [v \in Vars |-> Read(v)],
  with <- [v \in Vars |-> Sharing(v)], bound <- BoundNow

(* Lists, dicts and the event table, as they are read from memory, change  *)
(* as their operations say and no others do, however they lie in memory,   *)
(* grow and move.                                                          *)
ImplementsObjects == Promised!ObjectsSpec

(* The blocks that are in use, from their first word to their last.        *)
BlockOf(v) ==
  ptr[v] - 1 .. ptr[v] + (IF kinds[v] = "list" THEN 1 ELSE 2) * Cap(Heap, ptr[v])
TableOf(p) == IF p = Null THEN {} ELSE p .. p + EventSlots - 1

(* The capacity in a block's first word is room that is the block's own:   *)
(* within one region, and in no other block.                               *)
RoomIsOwn ==
  LET held == {v \in Vars : ptr[v] # Null}
  IN /\ \A v \in held : BlockOf(v) \subseteq DOMAIN mem
     /\ \A v, w \in held : ptr[v] # ptr[w] => BlockOf(v) \cap BlockOf(w) = {}
     /\ \A v \in held : BlockOf(v) \cap (TableOf(keysPtr) \cup TableOf(fnsPtr)) = {}
     /\ \A v \in held : cursor \notin BlockOf(v)

(* A list has the room that its elements take, a dict that for its pairs:  *)
(* as the literal, the range or the growth that made the block gave it.    *)
(* For Spec this does not hold: "cap is never 0 here", says __ac_append__, *)
(* but the capacity of an empty range is, and stays 0 when it is doubled.  *)
NeverFull ==
  \A v \in Vars : ptr[v] # Null => Count(Heap, ptr[v]) <= Cap(Heap, ptr[v])
=============================================================================
