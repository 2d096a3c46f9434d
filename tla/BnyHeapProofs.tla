---------------------------- MODULE BnyHeapProofs ----------------------------
(***************************************************************************)
(* The heap for any sizes: blocks have room of their own, and what is read *)
(* from memory are the lists, dicts and events that AcObjects promises.    *)
(***************************************************************************)
EXTENDS BnyHeap, WellFoundedInduction, SequenceTheorems, TLAPS

-----------------------------------------------------------------------------
(* What is said of a heap and of a block in it.                            *)

Heaps == [mem : Seq(Nat), cursor : Nat, limit : Nat]
HeapOK(h) ==
  /\ h \in Heaps
  /\ h.cursor # Null => h.cursor <= h.limit /\ h.limit = Len(h.mem) + 1

(* The last word of a block.                                               *)
LastOf(h, p, kind) == IF kind = "list" THEN p + Cap(h, p) ELSE p + 2 * Cap(h, p)

(* A block has room for all it has, a dict for one pair at least, and lies *)
(* below the cursor.                                                       *)
BlockOK(h, p, kind) ==
  /\ p \in Nat /\ 2 <= p
  /\ Cap(h, p) \in Nat
  /\ kind = "dict" => Cap(h, p) # 0
  /\ Count(h, p) \in Nat /\ Count(h, p) <= Cap(h, p)
  /\ LastOf(h, p, kind) < h.cursor

(* From h to g memory has grown, and changed in S at most.                 *)
Kept(h, g, S) ==
  /\ HeapOK(g)
  /\ h.cursor <= g.cursor
  /\ \A a \in 1..h.cursor - 1 : a \notin S => g.mem[a] = h.mem[a]

(* What a block has.                                                       *)
Contents(h, p, kind) ==
  [i \in 1..Count(h, p) |->
     IF kind = "list" THEN <<NoKey, h.mem[p + i]>>
     ELSE <<h.mem[p + 2 * i - 1], h.mem[p + 2 * i]>>]

-----------------------------------------------------------------------------
(* A function on 1..n is a sequence.                                       *)
LEMMA FunctionIsSeq ==
  ASSUME NEW S, NEW n \in Nat, NEW f \in [1..n -> S]
  PROVE  f \in Seq(S) /\ Len(f) = n
OBVIOUS

(* What a sequence is with an element appended.                            *)
LEMMA AppendIs ==
  ASSUME NEW S, NEW s \in Seq(S), NEW e \in S
  PROVE  Append(s, e) = [i \in 1..Len(s) + 1 |-> IF i = Len(s) + 1 THEN e ELSE s[i]]
<1>1. Append(s, e) \in Seq(S) /\ Len(Append(s, e)) = Len(s) + 1
  BY AppendProperties
<1>2. \A i \in 1..Len(s) + 1 : Append(s, e)[i] = IF i = Len(s) + 1 THEN e ELSE s[i]
  BY AppendProperties
<1>3. Append(s, e) = [i \in 1..Len(Append(s, e)) |-> Append(s, e)[i]]
  <2>1. Append(s, e) \in [1..Len(Append(s, e)) -> S]
    BY <1>1, LenProperties
  <2>2. QED
    BY <2>1
<1>4. QED
  BY <1>1, <1>2, <1>3

(* The memory below the cursor is mapped.                                  *)
LEMMA Mapped ==
  ASSUME NEW h, HeapOK(h)
  PROVE  /\ h.cursor \in Nat /\ Len(h.mem) \in Nat /\ DOMAIN h.mem = 1..Len(h.mem)
         /\ \A a \in 1..Len(h.mem) : h.mem[a] \in Nat
         /\ h.cursor # Null => h.cursor - 1 <= Len(h.mem)
         /\ \A a \in Int : 1 <= a /\ a < h.cursor => a \in 1..Len(h.mem)
<1>1. h.mem \in Seq(Nat) /\ h.cursor \in Nat /\ h.limit \in Nat
  BY DEF HeapOK, Heaps
<1>2. Len(h.mem) \in Nat /\ DOMAIN h.mem = 1..Len(h.mem) /\ \A a \in 1..Len(h.mem) : h.mem[a] \in Nat
  BY <1>1
<1>3. QED
  BY <1>1, <1>2 DEF HeapOK, Null

(* A block from the allocator is new, and what there was stays.            *)
LEMMA AllocOK ==
  ASSUME NEW h, HeapOK(h), NEW words \in Nat \ {0}
  PROVE  LET r == Alloc(h, words)
         IN /\ HeapOK(r.h)
            /\ r.at \in Nat \ {0} /\ h.cursor <= r.at /\ r.h.cursor = r.at + words
            /\ \A a \in 1..h.cursor - 1 : r.h.mem[a] = h.mem[a]
<1> DEFINE size == IF words < RegionWords THEN RegionWords ELSE RegionWords + words
           base == Len(h.mem) + 1
           more == h.mem \o [i \in 1..size |-> 0]
<1>0. RegionWords \in Nat \ {0} /\ size \in Nat /\ words <= size
  BY SeedsAssumption
<1>1. CASE h.cursor # Null /\ h.cursor + words <= h.limit
  <2>1. Alloc(h, words) = [at |-> h.cursor, h |-> [h EXCEPT !.cursor = h.cursor + words]]
    BY <1>1 DEF Alloc
  <2>2. /\ h.mem \in Seq(Nat) /\ h.cursor \in Nat \ {0} /\ h.limit \in Nat
        /\ h.limit = Len(h.mem) + 1
    BY <1>1 DEF HeapOK, Heaps, Null
  <2>3. [h EXCEPT !.cursor = h.cursor + words] =
          [mem |-> h.mem, cursor |-> h.cursor + words, limit |-> h.limit]
    BY DEF HeapOK, Heaps
  <2>4. HeapOK([mem |-> h.mem, cursor |-> h.cursor + words, limit |-> h.limit])
    BY <1>1, <2>2 DEF HeapOK, Heaps
  <2>5. QED
    BY <1>1, <2>1, <2>2, <2>3, <2>4
<1>2. CASE ~(h.cursor # Null /\ h.cursor + words <= h.limit)
  <2>1. Alloc(h, words) = [at |-> base, h |-> [mem |-> more, cursor |-> base + words,
                                                 limit |-> base + size]]
    BY <1>2 DEF Alloc
  <2>2. h.mem \in Seq(Nat) /\ h.cursor \in Nat /\ h.limit \in Nat
    BY DEF HeapOK, Heaps
  <2>3. [i \in 1..size |-> 0] \in Seq(Nat) /\ Len([i \in 1..size |-> 0]) = size
    <3>1. [i \in 1..size |-> 0] \in [1..size -> Nat]
      OBVIOUS
    <3>2. QED
      BY <1>0, <3>1, FunctionIsSeq
  <2>4. /\ more \in Seq(Nat) /\ Len(more) = Len(h.mem) + size
        /\ \A a \in 1..Len(h.mem) : more[a] = h.mem[a]
    BY <1>0, <2>2, <2>3
  <2>5. \A a \in 1..h.cursor - 1 : a \in 1..Len(h.mem)
    BY Mapped
  <2>6. base \in Nat \ {0} /\ h.cursor <= base
    BY <2>2, Mapped DEF Null
  <2> HIDE DEF size, base, more
  <2>7. HeapOK([mem |-> more, cursor |-> base + words, limit |-> base + size])
    <3>1. base + words \in Nat /\ base + size \in Nat /\ base + words <= base + size
      BY <1>0, <2>6
    <3>2. base + size = Len(more) + 1
      BY <1>0, <2>2, <2>4 DEF base
    <3>3. QED
      BY <2>4, <3>1, <3>2 DEF HeapOK, Heaps
  <2>8. QED
    BY <2>1, <2>4, <2>5, <2>6, <2>7
<1>3. QED
  BY <1>1, <1>2

(* Writing changes the words that are written.                             *)
LEMMA WriteOK ==
  ASSUME NEW h, HeapOK(h), NEW new, \A a \in DOMAIN new : new[a] \in Nat
  PROVE  /\ HeapOK(Write(h, new))
         /\ Write(h, new).cursor = h.cursor
         /\ \A a \in 1..Len(h.mem) :
              Write(h, new).mem[a] = IF a \in DOMAIN new THEN new[a] ELSE h.mem[a]
<1> DEFINE m == [a \in DOMAIN h.mem |-> IF a \in DOMAIN new THEN new[a] ELSE h.mem[a]]
<1>1. Len(h.mem) \in Nat /\ DOMAIN h.mem = 1..Len(h.mem) /\ \A a \in 1..Len(h.mem) : h.mem[a] \in Nat
  BY Mapped
<1>2. m \in [1..Len(h.mem) -> Nat]
  BY <1>1
<1>3. m \in Seq(Nat) /\ Len(m) = Len(h.mem)
  BY <1>1, <1>2, FunctionIsSeq
<1>4. Write(h, new) = [h EXCEPT !.mem = m]
  BY DEF Write
<1>5. \A a \in 1..Len(h.mem) : m[a] = IF a \in DOMAIN new THEN new[a] ELSE h.mem[a]
  BY <1>1
<1> HIDE DEF m
<1>6. QED
  BY <1>3, <1>4, <1>5 DEF HeapOK, Heaps

(* A new block has its words, above all that were in use.                  *)
Newly(h, words, cap, n, contents, r) ==
  /\ HeapOK(r.h) /\ r.at \in Nat /\ 2 <= r.at
  /\ h.cursor <= r.at - 1 /\ r.h.cursor = r.at - 1 + words
  /\ \A a \in 1..h.cursor - 1 : r.h.mem[a] = h.mem[a]
  /\ r.h.mem[r.at - 1] = cap /\ r.h.mem[r.at] = n
  /\ \A i \in 1..Len(contents) : r.h.mem[r.at + i] = contents[i]

(* A new block is made so.                                                 *)
LEMMA NewBlockOK ==
  ASSUME NEW h, HeapOK(h), NEW words \in Nat, NEW cap \in Nat, NEW n \in Nat,
         NEW contents \in Seq(Nat), Len(contents) + 2 <= words
  PROVE  Newly(h, words, cap, n, contents, NewBlock(h, words, cap, n, contents))
<1> DEFINE b == Alloc(h, words)
           p == b.at + 1
           new == [a \in p - 1..p + Len(contents) |->
                     IF a = p - 1 THEN cap ELSE IF a = p THEN n ELSE contents[a - p]]
<1>1. Len(contents) \in Nat /\ words \in Nat \ {0} /\ \A i \in 1..Len(contents) : contents[i] \in Nat
  OBVIOUS
<1>2. /\ HeapOK(b.h) /\ b.at \in Nat \ {0} /\ h.cursor <= b.at /\ b.h.cursor = b.at + words
      /\ \A a \in 1..h.cursor - 1 : b.h.mem[a] = h.mem[a]
  BY <1>1, AllocOK
<1>3. NewBlock(h, words, cap, n, contents) = [at |-> p, h |-> Write(b.h, new)]
  BY DEF NewBlock
<1>20. p \in Nat /\ b.at = p - 1
  BY <1>2
<1> HIDE DEF b, p
<1>4. \A a \in DOMAIN new : new[a] \in Nat
  <2> SUFFICES ASSUME NEW a \in p - 1..p + Len(contents) PROVE new[a] \in Nat
    OBVIOUS
  <2>1. a = p - 1 \/ a = p \/ a - p \in 1..Len(contents)
    BY <1>1, <1>20
  <2>2. QED
    BY <1>1, <2>1
<1>5. DOMAIN new = p - 1..p + Len(contents)
  OBVIOUS
<1>6. new[p - 1] = cap /\ new[p] = n /\ \A i \in 1..Len(contents) : new[p + i] = contents[i]
  BY <1>1, <1>20
<1>7. /\ HeapOK(Write(b.h, new)) /\ Write(b.h, new).cursor = b.h.cursor
      /\ \A a \in 1..Len(b.h.mem) :
           Write(b.h, new).mem[a] = IF a \in DOMAIN new THEN new[a] ELSE b.h.mem[a]
  BY <1>2, <1>4, WriteOK
<1> HIDE DEF new
<1>8. \A a \in Int : 1 <= a /\ a < b.h.cursor => a \in 1..Len(b.h.mem)
  BY <1>2, Mapped
<1>9. h.cursor \in Nat
  BY Mapped
<1>10. \A a \in p - 1..p + Len(contents) : a \in 1..Len(b.h.mem)
  BY <1>1, <1>2, <1>8, <1>20
<1>11. \A a \in 1..h.cursor - 1 : a \in 1..Len(b.h.mem) /\ a \notin DOMAIN new
  BY <1>2, <1>5, <1>8, <1>9, <1>20
<1>12. \A i \in 1..Len(contents) : p + i \in p - 1..p + Len(contents)
  BY <1>1, <1>20
<1>13. p - 1 \in p - 1..p + Len(contents) /\ p \in p - 1..p + Len(contents)
  BY <1>1, <1>20
<1> DEFINE g == Write(b.h, new)
<1>14. g.mem[p - 1] = cap /\ g.mem[p] = n
  BY <1>5, <1>6, <1>7, <1>10, <1>13
<1>15. \A i \in 1..Len(contents) : g.mem[p + i] = contents[i]
  BY <1>5, <1>6, <1>7, <1>10, <1>12
<1>16. \A a \in 1..h.cursor - 1 : g.mem[a] = h.mem[a]
  BY <1>2, <1>7, <1>11
<1>17. /\ HeapOK(g) /\ p \in Nat /\ 2 <= p /\ h.cursor <= p - 1
       /\ g.cursor = p - 1 + words
  BY <1>2, <1>7, <1>9, <1>20
<1> HIDE DEF g
<1>18. QED
  BY <1>3, <1>14, <1>15, <1>16, <1>17 DEF g, Newly

-----------------------------------------------------------------------------
(* What the helpers make of a heap, and of a block that they are given:    *)
(* they change its words behind the capacity, or make a block above all    *)
(* that is in use.                                                         *)

Fresh(h, kind, r) ==
  /\ HeapOK(r.h) /\ BlockOK(r.h, r.at, kind) /\ h.cursor <= r.h.cursor
  /\ h.cursor <= r.at - 1
  /\ \A a \in 1..h.cursor - 1 : r.h.mem[a] = h.mem[a]
InPlace(h, p, kind, r) ==
  /\ HeapOK(r.h) /\ BlockOK(r.h, p, kind) /\ h.cursor <= r.h.cursor
  /\ r.at = p /\ Cap(r.h, p) = Cap(h, p)
  /\ \A a \in 1..h.cursor - 1 : a \notin p..LastOf(h, p, kind) => r.h.mem[a] = h.mem[a]

KeysOnce(its) == \A i, j \in 1..Len(its) : its[i][1] = its[j][1] => i = j

(* The contents of a block are a sequence of pairs.                        *)
LEMMA ContentsTyped ==
  ASSUME NEW h, HeapOK(h), NEW kind \in {"list", "dict"}, NEW p, BlockOK(h, p, kind)
  PROVE  /\ Contents(h, p, kind) \in Seq(Nat \X Nat)
         /\ Len(Contents(h, p, kind)) = Count(h, p)
         /\ DOMAIN Contents(h, p, kind) = 1..Count(h, p)
<1>1. /\ p \in Nat /\ Count(h, p) \in Nat /\ Cap(h, p) \in Nat /\ Count(h, p) <= Cap(h, p)
      /\ LastOf(h, p, kind) < h.cursor
  BY DEF BlockOK
<1>2. \A a \in Int : 1 <= a /\ a <= LastOf(h, p, kind) => h.mem[a] \in Nat
  BY <1>1, Mapped DEF LastOf
<1>3. \A i \in 1..Count(h, p) : Contents(h, p, kind)[i] \in Nat \X Nat
  <2> SUFFICES ASSUME NEW i \in 1..Count(h, p)
               PROVE  Contents(h, p, kind)[i] \in Nat \X Nat
    OBVIOUS
  <2>1. CASE kind = "list"
    <3>1. h.mem[p + i] \in Nat
      BY <1>1, <1>2, <2>1 DEF LastOf
    <3>2. QED
      BY <2>1, <3>1 DEF Contents, NoKey
  <2>2. CASE kind = "dict"
    <3>1. h.mem[p + 2 * i - 1] \in Nat /\ h.mem[p + 2 * i] \in Nat
      BY <1>1, <1>2, <2>2 DEF LastOf
    <3>2. QED
      BY <2>2, <3>1 DEF Contents
  <2>3. QED
    BY <2>1, <2>2
<1>4. Contents(h, p, kind) \in [1..Count(h, p) -> Nat \X Nat]
  BY <1>3 DEF Contents
<1>5. QED
  BY <1>1, <1>4, FunctionIsSeq

(* A list is made with its elements.                                       *)
LEMMA ListMade ==
  ASSUME NEW h, HeapOK(h), NEW elems \in Seq(Nat), NEW cap \in Nat,
         Len(elems) <= cap
  PROVE  LET r == NewBlock(h, cap + 2, cap, Len(elems), elems)
         IN Fresh(h, "list", r) /\ Contents(r.h, r.at, "list") = Keyless(elems)
<1> DEFINE r == NewBlock(h, cap + 2, cap, Len(elems), elems)
<1>1. Len(elems) \in Nat /\ Len(elems) + 2 <= cap + 2 /\ cap + 2 \in Nat /\ h.cursor \in Nat
  BY Mapped
<1>2. Newly(h, cap + 2, cap, Len(elems), elems, r)
  BY <1>1, NewBlockOK
<1> HIDE DEF r
<1>3. Fresh(h, "list", r)
  BY <1>1, <1>2 DEF Newly, Fresh, BlockOK, LastOf, Cap, Count
<1>4. Contents(r.h, r.at, "list") = Keyless(elems)
  BY <1>1, <1>2 DEF Newly, Contents, Keyless, Count
<1>5. QED
  BY <1>3, <1>4 DEF r

(* Words written behind the capacity of a block leave the others alone.    *)
LEMMA InPlaceOK ==
  ASSUME NEW h, HeapOK(h), NEW kind \in {"list", "dict"}, NEW p, BlockOK(h, p, kind),
         NEW new, DOMAIN new \subseteq p..LastOf(h, p, kind),
         \A a \in DOMAIN new : new[a] \in Nat,
         NEW n \in Nat, n <= Cap(h, p),
         n = IF p \in DOMAIN new THEN new[p] ELSE Count(h, p)
  PROVE  /\ InPlace(h, p, kind, [at |-> p, h |-> Write(h, new)])
         /\ Count(Write(h, new), p) = n
         /\ \A a \in p..LastOf(h, p, kind) :
              Write(h, new).mem[a] = IF a \in DOMAIN new THEN new[a] ELSE h.mem[a]
<1> DEFINE g == Write(h, new)
           last == LastOf(h, p, kind)
<1>1. /\ p \in Nat /\ 2 <= p /\ Cap(h, p) \in Nat /\ (kind = "dict" => Cap(h, p) # 0)
      /\ last \in Nat /\ p <= last /\ last < h.cursor /\ h.cursor \in Nat
  BY Mapped DEF BlockOK, LastOf
<1>2. /\ HeapOK(g) /\ g.cursor = h.cursor
      /\ \A a \in 1..Len(h.mem) : g.mem[a] = IF a \in DOMAIN new THEN new[a] ELSE h.mem[a]
  BY WriteOK
<1>3. last = LastOf(h, p, kind)
  OBVIOUS
<1> HIDE DEF g, last
<1>4. \A a \in p - 1..last : a \in 1..Len(h.mem)
  BY <1>1, Mapped
<1>5. \A a \in p..last : g.mem[a] = IF a \in DOMAIN new THEN new[a] ELSE h.mem[a]
  BY <1>1, <1>2, <1>4
<1>6. g.mem[p - 1] = h.mem[p - 1] /\ g.mem[p] = n
  <2>1. p - 1 \in 1..Len(h.mem) /\ p - 1 \notin DOMAIN new /\ p \in p..last
    BY <1>1, <1>3, <1>4
  <2>2. QED
    BY <1>2, <1>5, <2>1 DEF Count
<1>7. \A a \in 1..h.cursor - 1 : a \notin p..last => g.mem[a] = h.mem[a]
  <2>1. \A a \in 1..h.cursor - 1 : a \in 1..Len(h.mem)
    BY <1>1, Mapped
  <2>2. QED
    BY <1>2, <1>3, <2>1
<1>8. Cap(g, p) = Cap(h, p) /\ Count(g, p) = n /\ LastOf(g, p, kind) = last
  BY <1>3, <1>6 DEF Cap, Count, LastOf
<1>9. BlockOK(g, p, kind)
  BY <1>1, <1>2, <1>8 DEF BlockOK
<1>10. QED
  BY <1>1, <1>2, <1>3, <1>5, <1>7, <1>8, <1>9 DEF InPlace, g

(* An element is put into a list behind the others, in place or, if there  *)
(* is a capacity to double, into a block with room for it.                 *)
LEMMA AppendOK ==
  ASSUME NEW h, HeapOK(h), NEW p, BlockOK(h, p, "list"), Cap(h, p) # 0, NEW x \in Nat
  PROVE  LET r == AppendTo(h, p, x)
         IN /\ InPlace(h, p, "list", r) \/ Fresh(h, "list", r)
            /\ Contents(r.h, r.at, "list") = Append(Contents(h, p, "list"), <<NoKey, x>>)
<1> DEFINE len == Count(h, p)
           cap == Cap(h, p)
           its == Contents(h, p, "list")
           r == AppendTo(h, p, x)
<1>1. /\ p \in Nat /\ 2 <= p /\ len \in Nat /\ cap \in Nat \ {0} /\ len <= cap
      /\ p + cap < h.cursor /\ h.cursor \in Nat
  BY Mapped DEF BlockOK, LastOf
<1>2. \A a \in Int : 1 <= a /\ a < h.cursor => a \in 1..Len(h.mem) /\ h.mem[a] \in Nat
  BY Mapped
<1>3. /\ its \in Seq(Nat \X Nat) /\ Len(its) = len /\ DOMAIN its = 1..len
      /\ \A i \in 1..len : its[i] = <<NoKey, h.mem[p + i]>>
  BY ContentsTyped DEF Contents
<1>4. Append(its, <<NoKey, x>>) = [i \in 1..len + 1 |-> IF i = len + 1 THEN <<NoKey, x>> ELSE its[i]]
  <2>1. <<NoKey, x>> \in Nat \X Nat
    BY DEF NoKey
  <2>2. QED
    BY <1>3, <2>1, AppendIs
<1>5. CASE len < cap
  <2> DEFINE new == [a \in {p, p + len + 1} |-> IF a = p THEN len + 1 ELSE x]
             g == Write(h, new)
  <2>1. r = [at |-> p, h |-> g]
    BY <1>5 DEF AppendTo
  <2>2. DOMAIN new = {p, p + len + 1} /\ new[p] = len + 1 /\ new[p + len + 1] = x
    BY <1>1
  <2>3. \A a \in DOMAIN new : new[a] \in Nat
    BY <1>1
  <2>4. /\ InPlace(h, p, "list", [at |-> p, h |-> g]) /\ Count(g, p) = len + 1
        /\ \A a \in p..p + cap : g.mem[a] = IF a \in DOMAIN new THEN new[a] ELSE h.mem[a]
    <3>1. LastOf(h, p, "list") = p + cap /\ len + 1 \in Nat /\ len + 1 <= cap
      BY <1>1, <1>5 DEF LastOf
    <3>2. DOMAIN new \subseteq p..p + cap /\ p \in DOMAIN new /\ new[p] = len + 1
      BY <1>1, <1>5
    <3> HIDE DEF new, len
    <3>3. QED
      BY <2>3, <3>1, <3>2, InPlaceOK
  <2> HIDE DEF new, g, its, r, len, cap
  <2>5. g.mem[p + len + 1] = x
    <3>1. p + len + 1 \in p..p + cap
      BY <1>1, <1>5
    <3>2. QED
      BY <2>2, <2>4, <3>1
  <2>6. \A i \in 1..len : g.mem[p + i] = h.mem[p + i]
    <3>1. \A i \in 1..len : p + i \in p..p + cap /\ p + i \notin DOMAIN new
      BY <1>1, <1>5, <2>2
    <3>2. QED
      BY <2>4, <3>1
  <2>8. InPlace(h, p, "list", r)
    BY <2>1, <2>4
  <2>9. Contents(g, p, "list") = [i \in 1..len + 1 |-> <<NoKey, g.mem[p + i]>>]
    BY <2>4 DEF Contents
  <2>10. \A i \in 1..len + 1 : <<NoKey, g.mem[p + i]>> =
                                 IF i = len + 1 THEN <<NoKey, x>> ELSE its[i]
    <3> SUFFICES ASSUME NEW i \in 1..len + 1
                 PROVE  <<NoKey, g.mem[p + i]>> = IF i = len + 1 THEN <<NoKey, x>> ELSE its[i]
      OBVIOUS
    <3>1. CASE i = len + 1
      BY <1>1, <2>5, <3>1
    <3>2. CASE i # len + 1
      <4>1. i \in 1..len
        BY <1>1, <3>2
      <4>2. QED
        BY <1>3, <2>6, <3>2, <4>1
    <3>3. QED
      BY <3>1, <3>2
  <2>11. QED
    <3>1. Contents(r.h, r.at, "list") = Append(its, <<NoKey, x>>)
      BY <1>4, <2>1, <2>9, <2>10
    <3>2. QED
      BY <2>8, <3>1 DEF r, its
<1>6. CASE ~(len < cap)
  <2> DEFINE old == [i \in 1..len |-> h.mem[p + i]]
             more == Append(old, x)
  <2>0. len = cap /\ len + 1 <= 2 * cap
    BY <1>1, <1>6
  <2>1. r = NewBlock(h, 2 * cap + 2, 2 * cap, len + 1, more)
    BY <1>6 DEF AppendTo
  <2>2. \A i \in 1..len : h.mem[p + i] \in Nat
    BY <1>1, <1>2
  <2>3. old \in Seq(Nat) /\ Len(old) = len
    BY <1>1, <2>2, FunctionIsSeq
  <2>4. /\ more \in Seq(Nat) /\ Len(more) = len + 1 /\ more[len + 1] = x
        /\ \A i \in 1..len : more[i] = h.mem[p + i]
    <3>1. \A i \in 1..len : old[i] = h.mem[p + i]
      OBVIOUS
    <3> HIDE DEF old
    <3>2. /\ more \in Seq(Nat) /\ Len(more) = Len(old) + 1 /\ more[Len(old) + 1] = x
          /\ \A i \in 1..Len(old) : more[i] = old[i]
      BY <2>3, AppendProperties
    <3>3. QED
      BY <2>3, <3>1, <3>2
  <2> HIDE DEF old, more, its, r
  <2>5. Newly(h, 2 * cap + 2, 2 * cap, len + 1, more, r)
    <3>1. 2 * cap + 2 \in Nat /\ 2 * cap \in Nat /\ len + 1 \in Nat
          /\ Len(more) + 2 <= 2 * cap + 2
      BY <1>1, <2>0, <2>4
    <3>2. QED
      BY <2>1, <2>4, <3>1, NewBlockOK
  <2>6. Fresh(h, "list", r)
    <3>1. /\ Cap(r.h, r.at) = 2 * cap /\ Count(r.h, r.at) = len + 1
          /\ LastOf(r.h, r.at, "list") = r.at + 2 * cap
      BY <2>5 DEF Newly, Cap, Count, LastOf
    <3> HIDE DEF cap, len
    <3>2. BlockOK(r.h, r.at, "list")
      <4>1. /\ r.at \in Nat /\ 2 <= r.at /\ r.at + 2 * cap < r.h.cursor
            /\ 2 * cap \in Nat /\ len + 1 \in Nat /\ len + 1 <= 2 * cap
        BY <1>1, <2>0, <2>5 DEF Newly
      <4>2. QED
        BY <3>1, <4>1 DEF BlockOK
    <3>3. QED
      BY <1>1, <2>5, <3>2 DEF Newly, Fresh
  <2>7. Contents(r.h, r.at, "list") = [i \in 1..len + 1 |-> <<NoKey, r.h.mem[r.at + i]>>]
    BY <2>5 DEF Newly, Contents, Count
  <2>8. \A i \in 1..len + 1 : <<NoKey, r.h.mem[r.at + i]>> =
                                IF i = len + 1 THEN <<NoKey, x>> ELSE its[i]
    <3> SUFFICES ASSUME NEW i \in 1..len + 1
                 PROVE  <<NoKey, r.h.mem[r.at + i]>> =
                          IF i = len + 1 THEN <<NoKey, x>> ELSE its[i]
      OBVIOUS
    <3>1. r.h.mem[r.at + i] = more[i]
      BY <2>4, <2>5 DEF Newly
    <3>2. CASE i = len + 1
      BY <2>4, <3>1, <3>2
    <3>3. CASE i # len + 1
      <4>1. i \in 1..len
        BY <1>1, <3>3
      <4>2. QED
        BY <1>3, <2>4, <3>1, <3>3, <4>1
    <3>4. QED
      BY <3>2, <3>3
  <2>9. QED
    BY <1>4, <2>6, <2>7, <2>8 DEF r, its
<1>7. QED
  BY <1>5, <1>6

(* An element is written over.                                             *)
LEMMA StoreOK ==
  ASSUME NEW h, HeapOK(h), NEW p, BlockOK(h, p, "list"), NEW x \in Nat,
         NEW i \in 1..Count(h, p)
  PROVE  LET r == [at |-> p, h |-> Write(h, [a \in {p + i} |-> x])]
         IN /\ InPlace(h, p, "list", r)
            /\ Contents(r.h, p, "list") = [Contents(h, p, "list") EXCEPT ![i] = <<NoKey, x>>]
<1> DEFINE new == [a \in {p + i} |-> x]
           g == Write(h, new)
           its == Contents(h, p, "list")
           last == LastOf(h, p, "list")
           len == Count(h, p)
<1>1. /\ p \in Nat /\ len \in Nat /\ len <= Cap(h, p) /\ Cap(h, p) \in Nat
      /\ last = p + Cap(h, p)
  BY DEF BlockOK, LastOf
<1>2. DOMAIN new = {p + i} /\ new[p + i] = x /\ \A a \in DOMAIN new : new[a] \in Nat
  OBVIOUS
<1>3. DOMAIN its = 1..len /\ \A j \in 1..len : its[j] = <<NoKey, h.mem[p + j]>>
  BY DEF Contents
<1>4. i \in 1..len
  OBVIOUS
<1>5. \A j \in 1..len : p + j \in p..last /\ (p + j \in DOMAIN new <=> j = i)
  BY <1>1, <1>2
<1>6. p \notin DOMAIN new /\ DOMAIN new \subseteq p..last
  BY <1>1, <1>2
<1> HIDE DEF new, its, len, last
<1>7. /\ InPlace(h, p, "list", [at |-> p, h |-> g]) /\ Count(g, p) = len
      /\ \A a \in p..last : g.mem[a] = IF a \in DOMAIN new THEN new[a] ELSE h.mem[a]
  BY <1>1, <1>2, <1>6, InPlaceOK DEF last, len
<1> HIDE DEF g
<1>8. \A j \in 1..len : g.mem[p + j] = IF j = i THEN x ELSE h.mem[p + j]
  BY <1>2, <1>5, <1>7
<1>9. Contents(g, p, "list") = [j \in 1..len |-> <<NoKey, g.mem[p + j]>>]
  BY <1>7 DEF Contents
<1>10. Contents(g, p, "list") = [its EXCEPT ![i] = <<NoKey, x>>]
  BY <1>3, <1>8, <1>9
<1>11. QED
  BY <1>7, <1>10 DEF g, its, new

-----------------------------------------------------------------------------
(* Dicts.                                                                  *)

(* The first pair with a key is one of them.                               *)
LEMMA FirstPair ==
  ASSUME NEW S, S \subseteq Nat, S # {}
  PROVE  Min(S) \in S /\ \A y \in S : Min(S) <= y
<1>1. IsWellFoundedOn(OpToRel(<, Nat), Nat)
  BY NatLessThanWellFounded
<1>2. PICK x \in S : \A y \in S : ~(<<y, x>> \in OpToRel(<, Nat))
  BY <1>1, WFMin
<1>3. \A y \in S : x <= y
  <2> SUFFICES ASSUME NEW y \in S PROVE x <= y
    OBVIOUS
  <2>1. x \in Nat /\ y \in Nat /\ ~(y < x)
    BY <1>2 DEF OpToRel
  <2>2. QED
    BY <2>1
<1>4. QED
  BY <1>3 DEF Min

(* The pairs with a key are those of the contents.                         *)
LEMMA PairsWithKey ==
  ASSUME NEW h, HeapOK(h), NEW p, BlockOK(h, p, "dict"), NEW k
  PROVE  /\ PairOf(h, p, k) \subseteq 0..Count(h, p) - 1
         /\ \A i \in 1..Count(h, p) :
              i - 1 \in PairOf(h, p, k) <=> Contents(h, p, "dict")[i][1] = k
<1>1. p \in Nat /\ Count(h, p) \in Nat
  BY DEF BlockOK
<1>2. PairOf(h, p, k) \subseteq 0..Count(h, p) - 1
  BY DEF PairOf
<1>3. ASSUME NEW i \in 1..Count(h, p)
      PROVE  i - 1 \in PairOf(h, p, k) <=> Contents(h, p, "dict")[i][1] = k
  <2>1. p + 1 + 2 * (i - 1) = p + 2 * i - 1 /\ i - 1 \in 0..Count(h, p) - 1
    BY <1>1
  <2>2. Contents(h, p, "dict")[i][1] = h.mem[p + 2 * i - 1]
    BY DEF Contents
  <2>3. QED
    BY <2>1, <2>2 DEF PairOf
<1>4. QED
  BY <1>2, <1>3

(* A pair is put into a dict: over the one with the key, behind the others *)
(* or into a block with room for it.                                       *)
LEMMA PutOK ==
  ASSUME NEW h, HeapOK(h), NEW p, BlockOK(h, p, "dict"), NEW k \in Nat, NEW x \in Nat,
         KeysOnce(Contents(h, p, "dict"))
  PROVE  LET r == PutInto(h, p, k, x)
         IN /\ InPlace(h, p, "dict", r) \/ Fresh(h, "dict", r)
            /\ Contents(r.h, r.at, "dict") = Promised!Put(Contents(h, p, "dict"), k, x)
<1> DEFINE n == Count(h, p)
           cap == Cap(h, p)
           last == LastOf(h, p, "dict")
           its == Contents(h, p, "dict")
           r == PutInto(h, p, k, x)
<1>1. /\ p \in Nat /\ 2 <= p /\ n \in Nat /\ cap \in Nat \ {0} /\ n <= cap
      /\ last = p + 2 * cap /\ last < h.cursor /\ h.cursor \in Nat
  BY Mapped DEF BlockOK, LastOf
<1>2. /\ its \in Seq(Nat \X Nat) /\ Len(its) = n /\ DOMAIN its = 1..n
      /\ \A i \in 1..n : its[i] = <<h.mem[p + 2 * i - 1], h.mem[p + 2 * i]>>
  BY ContentsTyped DEF Contents
<1>3. /\ PairOf(h, p, k) \subseteq 0..n - 1
      /\ \A i \in 1..n : i - 1 \in PairOf(h, p, k) <=> its[i][1] = k
  BY PairsWithKey
<1>4. \A i, j \in 1..n : its[i][1] = its[j][1] => i = j
  BY <1>2 DEF KeysOnce
<1>5. CASE PairOf(h, p, k) # {}
  <2> DEFINE m == Min(PairOf(h, p, k))
             new == [a \in {p + 2 + 2 * m} |-> x]
             g == Write(h, new)
  <2>1. m \in PairOf(h, p, k) /\ m \in 0..n - 1
    <3>1. PairOf(h, p, k) \subseteq Nat
      BY <1>1, <1>3
    <3>2. QED
      BY <1>3, <1>5, <3>1, FirstPair
  <2>2. r = [at |-> p, h |-> g]
    BY <1>5 DEF PutInto
  <2>3. /\ DOMAIN new = {p + 2 * (m + 1)} /\ new[p + 2 * (m + 1)] = x
        /\ \A a \in DOMAIN new : new[a] \in Nat
    BY <1>1, <2>1
  <2>4. m + 1 \in 1..n /\ its[m + 1][1] = k
    <3>1. m + 1 \in 1..n /\ (m + 1) - 1 = m
      BY <1>1, <2>1
    <3>2. QED
      BY <1>3, <2>1, <3>1
  <2> HIDE DEF m, new, g, its, r, n, cap, last
  <2>5. DOMAIN new \subseteq p..last /\ p \notin DOMAIN new
    BY <1>1, <2>3, <2>4
  <2>6. /\ InPlace(h, p, "dict", [at |-> p, h |-> g]) /\ Count(g, p) = n
        /\ \A a \in p..last : g.mem[a] = IF a \in DOMAIN new THEN new[a] ELSE h.mem[a]
    BY <1>1, <2>3, <2>5, InPlaceOK DEF g, n, last, cap
  <2>7. ASSUME NEW i \in 1..n
        PROVE  <<g.mem[p + 2 * i - 1], g.mem[p + 2 * i]>> = IF its[i][1] = k THEN <<k, x>> ELSE its[i]
    <3>1. /\ p + 2 * i - 1 \in p..last /\ p + 2 * i - 1 \notin DOMAIN new
          /\ p + 2 * i \in p..last /\ (p + 2 * i \in DOMAIN new <=> i = m + 1)
      BY <1>1, <2>3, <2>4
    <3>2. g.mem[p + 2 * i - 1] = h.mem[p + 2 * i - 1]
      BY <2>6, <3>1
    <3>3. g.mem[p + 2 * i] = IF i = m + 1 THEN x ELSE h.mem[p + 2 * i]
      BY <2>3, <2>6, <3>1
    <3>4. its[i][1] = k <=> i = m + 1
      BY <1>4, <2>4
    <3>5. its[i] = <<h.mem[p + 2 * i - 1], h.mem[p + 2 * i]>> /\ its[i][1] = h.mem[p + 2 * i - 1]
      BY <1>2
    <3>6. QED
      BY <3>2, <3>3, <3>4, <3>5
  <2>8. Contents(g, p, "dict") = [i \in 1..n |-> <<g.mem[p + 2 * i - 1], g.mem[p + 2 * i]>>]
    BY <2>6 DEF Contents
  <2>9. Promised!Put(its, k, x) = [i \in 1..n |-> IF its[i][1] = k THEN <<k, x>> ELSE its[i]]
    BY <1>2, <2>4 DEF Promised!Put
  <2>10. Contents(g, p, "dict") = Promised!Put(its, k, x)
    BY <2>7, <2>8, <2>9
  <2>11. QED
    BY <2>2, <2>6, <2>10 DEF r, its
<1>6. CASE PairOf(h, p, k) = {}
  <2>1. ~\E i \in 1..Len(its) : its[i][1] = k
    BY <1>2, <1>3, <1>6
  <2>2. Promised!Put(its, k, x) = Append(its, <<k, x>>)
    BY <2>1 DEF Promised!Put
  <2>3. Append(its, <<k, x>>) = [i \in 1..n + 1 |-> IF i = n + 1 THEN <<k, x>> ELSE its[i]]
    BY <1>2, AppendIs
  <2>4. CASE n < cap
    <3> DEFINE new == [a \in {p, p + 1 + 2 * n, p + 2 + 2 * n} |->
                         IF a = p THEN n + 1 ELSE IF a = p + 1 + 2 * n THEN k ELSE x]
               g == Write(h, new)
    <3>1. r = [at |-> p, h |-> g]
      BY <1>6, <2>4 DEF PutInto
    <3>2. /\ DOMAIN new = {p, p + 1 + 2 * n, p + 2 + 2 * n}
          /\ new[p] = n + 1 /\ new[p + 1 + 2 * n] = k /\ new[p + 2 + 2 * n] = x
          /\ \A a \in DOMAIN new : new[a] \in Nat
      BY <1>1
    <3> HIDE DEF new, g, its, r, n, cap, last
    <3>3. DOMAIN new \subseteq p..last /\ p \in DOMAIN new /\ n + 1 \in Nat /\ n + 1 <= cap
      BY <1>1, <2>4, <3>2
    <3>4. /\ InPlace(h, p, "dict", [at |-> p, h |-> g]) /\ Count(g, p) = n + 1
          /\ \A a \in p..last : g.mem[a] = IF a \in DOMAIN new THEN new[a] ELSE h.mem[a]
      BY <1>1, <3>2, <3>3, InPlaceOK DEF g, last, cap
    <3>5. ASSUME NEW i \in 1..n + 1
          PROVE  <<g.mem[p + 2 * i - 1], g.mem[p + 2 * i]>> =
                   IF i = n + 1 THEN <<k, x>> ELSE its[i]
      <4>1. CASE i = n + 1
        <5>1. p + 2 * i - 1 = p + 1 + 2 * n /\ p + 2 * i = p + 2 + 2 * n
          BY <1>1, <4>1
        <5>2. p + 1 + 2 * n \in p..last /\ p + 2 + 2 * n \in p..last
          BY <1>1, <2>4
        <5>3. QED
          BY <3>2, <3>4, <4>1, <5>1, <5>2
      <4>2. CASE i # n + 1
        <5>1. i \in 1..n
          BY <1>1, <4>2
        <5>2. /\ p + 2 * i - 1 \in p..last /\ p + 2 * i - 1 \notin DOMAIN new
              /\ p + 2 * i \in p..last /\ p + 2 * i \notin DOMAIN new
          BY <1>1, <3>2, <5>1
        <5>3. QED
          BY <1>2, <3>4, <4>2, <5>1, <5>2
      <4>3. QED
        BY <4>1, <4>2
    <3>6. Contents(g, p, "dict") =
            [i \in 1..n + 1 |-> <<g.mem[p + 2 * i - 1], g.mem[p + 2 * i]>>]
      BY <3>4 DEF Contents
    <3>7. Contents(g, p, "dict") = Promised!Put(its, k, x)
      BY <2>2, <2>3, <3>5, <3>6
    <3>8. QED
      BY <3>1, <3>4, <3>7 DEF r, its
  <2>5. CASE ~(n < cap)
    <3> DEFINE old == [i \in 1..2 * n |-> h.mem[p + i]]
               more == old \o <<k, x>>
    <3>0. n = cap /\ n + 1 <= 2 * n /\ 2 * n \in Nat \ {0}
      BY <1>1, <2>5
    <3>1. r = NewBlock(h, 2 * (2 * n + 1), 2 * n, n + 1, more)
      BY <1>6, <2>5 DEF PutInto
    <3>2. \A i \in 1..2 * n : h.mem[p + i] \in Nat
      BY <1>1, <3>0, Mapped, SMTT(30)
    <3>3. old \in Seq(Nat) /\ Len(old) = 2 * n /\ \A i \in 1..2 * n : old[i] = h.mem[p + i]
      <4>1. old \in [1..2 * n -> Nat]
        BY <3>2
      <4>2. QED
        BY <3>0, <4>1, FunctionIsSeq
    <3> HIDE DEF old, n, cap, last, its, r
    <3>4. /\ more \in Seq(Nat) /\ Len(more) = 2 * n + 2
          /\ more[2 * n + 1] = k /\ more[2 * n + 2] = x
          /\ \A i \in 1..2 * n : more[i] = h.mem[p + i]
      <4>1. <<k, x>> \in Seq(Nat) /\ Len(<<k, x>>) = 2 /\ <<k, x>>[1] = k /\ <<k, x>>[2] = x
        OBVIOUS
      <4>2. QED
        BY <3>0, <3>3, <4>1
    <3> HIDE DEF more
    <3>5. Newly(h, 2 * (2 * n + 1), 2 * n, n + 1, more, r)
      <4>1. /\ 2 * (2 * n + 1) \in Nat /\ n + 1 \in Nat
            /\ Len(more) + 2 <= 2 * (2 * n + 1)
        BY <1>1, <3>0, <3>4
      <4>2. QED
        BY <3>0, <3>1, <3>4, <4>1, NewBlockOK
    <3>6. Fresh(h, "dict", r)
      <4>1. /\ Cap(r.h, r.at) = 2 * n /\ Count(r.h, r.at) = n + 1
            /\ LastOf(r.h, r.at, "dict") = r.at + 4 * n
        BY <1>1, <3>5 DEF Newly, Cap, Count, LastOf
      <4>2. BlockOK(r.h, r.at, "dict")
        BY <1>1, <3>0, <3>5, <4>1 DEF Newly, BlockOK
      <4>3. QED
        BY <1>1, <3>5, <4>2 DEF Newly, Fresh
    <3>7. ASSUME NEW i \in 1..n + 1
          PROVE  <<r.h.mem[r.at + 2 * i - 1], r.h.mem[r.at + 2 * i]>> =
                   IF i = n + 1 THEN <<k, x>> ELSE its[i]
      <4>1. 2 * i - 1 \in 1..Len(more) /\ 2 * i \in 1..Len(more) /\ r.at \in Nat
        BY <1>1, <3>4, <3>5 DEF Newly
      <4>2. /\ r.h.mem[r.at + (2 * i - 1)] = more[2 * i - 1]
            /\ r.h.mem[r.at + 2 * i] = more[2 * i]
            /\ r.at + (2 * i - 1) = r.at + 2 * i - 1
        BY <3>5, <4>1 DEF Newly
      <4>3. CASE i = n + 1
        <5>1. 2 * i - 1 = 2 * n + 1 /\ 2 * i = 2 * n + 2
          BY <1>1, <4>3
        <5>2. QED
          BY <3>4, <4>2, <4>3, <5>1
      <4>4. CASE i # n + 1
        <5>1. i \in 1..n /\ 2 * i - 1 \in 1..2 * n /\ 2 * i \in 1..2 * n
              /\ p + (2 * i - 1) = p + 2 * i - 1
          BY <1>1, <4>4
        <5>2. QED
          BY <1>2, <3>4, <4>2, <4>4, <5>1
      <4>5. QED
        BY <4>3, <4>4
    <3>8. Contents(r.h, r.at, "dict") =
            [i \in 1..n + 1 |-> <<r.h.mem[r.at + 2 * i - 1], r.h.mem[r.at + 2 * i]>>]
      BY <3>5 DEF Newly, Contents, Count
    <3>9. Contents(r.h, r.at, "dict") = Promised!Put(its, k, x)
      BY <2>2, <2>3, <3>7, <3>8
    <3>10. QED
      BY <3>6, <3>9 DEF r, its
  <2>6. QED
    BY <2>4, <2>5
<1>7. QED
  BY <1>5, <1>6

(* Putting keeps each key once.                                            *)
LEMMA PutKeysOnce ==
  ASSUME NEW its \in Seq(Nat \X Nat), KeysOnce(its), NEW k \in Nat, NEW x \in Nat
  PROVE  Promised!Put(its, k, x) \in Seq(Nat \X Nat) /\ KeysOnce(Promised!Put(its, k, x))
<1> DEFINE put == Promised!Put(its, k, x)
<1>0. /\ Len(its) \in Nat /\ \A i \in 1..Len(its) : its[i] \in Nat \X Nat /\ its[i][1] \in Nat
      /\ <<k, x>> \in Nat \X Nat
  OBVIOUS
<1>1. CASE \E i \in 1..Len(its) : its[i][1] = k
  <2>1. put = [i \in 1..Len(its) |-> IF its[i][1] = k THEN <<k, x>> ELSE its[i]]
    BY <1>1 DEF Promised!Put
  <2>2. put \in [1..Len(its) -> Nat \X Nat]
    BY <1>0, <2>1
  <2>3. put \in Seq(Nat \X Nat) /\ Len(put) = Len(its)
    BY <1>0, <2>2, FunctionIsSeq
  <2>4. \A i \in 1..Len(its) : put[i][1] = its[i][1]
    BY <2>1
  <2> HIDE DEF put
  <2>5. QED
    BY <2>3, <2>4 DEF KeysOnce, put
<1>2. CASE ~\E i \in 1..Len(its) : its[i][1] = k
  <2>1. put = Append(its, <<k, x>>)
    BY <1>2 DEF Promised!Put
  <2>2. /\ put \in Seq(Nat \X Nat) /\ Len(put) = Len(its) + 1
        /\ \A i \in 1..Len(its) : put[i] = its[i]
        /\ put[Len(its) + 1] = <<k, x>>
    BY <1>0, <2>1, AppendProperties
  <2> HIDE DEF put
  <2>3. put[Len(its) + 1][1] = k
    BY <2>2
  <2>4. KeysOnce(put)
    <3> SUFFICES ASSUME NEW i \in 1..Len(its) + 1, NEW j \in 1..Len(its) + 1,
                        put[i][1] = put[j][1]
                 PROVE  i = j
      BY <2>2 DEF KeysOnce
    <3>1. i \in 1..Len(its) \/ i = Len(its) + 1
      BY <1>0
    <3>2. j \in 1..Len(its) \/ j = Len(its) + 1
      BY <1>0
    <3>3. \A m \in 1..Len(its) : put[m][1] = its[m][1] /\ its[m][1] # k
      BY <1>2, <2>2
    <3>4. QED
      BY <2>3, <3>1, <3>2, <3>3 DEF KeysOnce
  <2>5. QED
    BY <2>2, <2>4 DEF put
<1>3. QED
  BY <1>1, <1>2

(* What a literal's pairs make one after the other: the functions by which *)
(* DictSteps and Filled are defined exist.                                 *)
LEMMA StepsDefined ==
  ASSUME NEW pairs, Len(pairs) \in Nat
  PROVE  /\ DictSteps(pairs)[0] = NewBlock(Heap, 2 * (DictSeed + 1), DictSeed, 0, <<>>)
         /\ \A i \in 1..Len(pairs) :
              DictSteps(pairs)[i] = PutInto(DictSteps(pairs)[i-1].h, DictSteps(pairs)[i-1].at,
                                            pairs[i][1], pairs[i][2])
<1> DEFINE A == NewBlock(Heap, 2 * (DictSeed + 1), DictSeed, 0, <<>>)
           B(z, i) == PutInto(z.h, z.at, pairs[i][1], pairs[i][2])
           Is(f, n) == f = [i \in 0..n |-> IF i = 0 THEN A ELSE B(f[i-1], i)]
           T == {n \in 0..Len(pairs) : ~\E f : Is(f, n)}
<1>1. DictSteps(pairs) = CHOOSE f : Is(f, Len(pairs))
  BY DEF DictSteps
<1> HIDE DEF A, B
<1>2. T = {}
  <2> SUFFICES ASSUME T # {} PROVE FALSE
    OBVIOUS
  <2> DEFINE m == Min(T)
  <2>1. m \in T /\ \A y \in T : m <= y
    <3>1. T \subseteq Nat
      OBVIOUS
    <3> HIDE DEF T
    <3>2. QED
      BY <3>1, FirstPair
  <2> HIDE DEF m
  <2>2. CASE m = 0
    <3>1. Is([i \in 0..0 |-> A], 0)
      OBVIOUS
    <3>2. QED
      BY <2>1, <2>2, <3>1
  <2>3. CASE m # 0
    <3>1. m - 1 \in 0..Len(pairs) /\ m - 1 \notin T /\ m \in Nat /\ m >= 1
      BY <2>1, <2>3
    <3>2. PICK f : Is(f, m - 1)
      BY <3>1
    <3> DEFINE g == [i \in 0..m |-> IF i <= m - 1 THEN f[i] ELSE B(f[m - 1], m)]
    <3>3. ASSUME NEW i \in 0..m PROVE g[i] = IF i = 0 THEN A ELSE B(g[i-1], i)
      <4>1. CASE i = 0
        BY <3>1, <3>2, <4>1
      <4>2. CASE i # 0 /\ i <= m - 1
        <5>1. i \in 0..m - 1 /\ i - 1 \in 0..m - 1 /\ i - 1 \in 0..m
          BY <3>1, <4>2
        <5>2. f[i] = B(f[i-1], i)
          BY <3>2, <4>2, <5>1
        <5>3. g[i] = f[i] /\ g[i-1] = f[i-1]
          BY <4>2, <5>1
        <5>4. QED
          BY <4>2, <5>2, <5>3
      <4>3. CASE i = m
        <5>1. m - 1 \in 0..m /\ m - 1 <= m - 1
          BY <3>1
        <5>2. g[m - 1] = f[m - 1]
          BY <5>1
        <5>3. QED
          BY <2>3, <3>1, <4>3, <5>2
      <4>4. QED
        BY <3>1, <4>1, <4>2, <4>3
    <3>4. g = [i \in 0..m |-> IF i = 0 THEN A ELSE B(g[i-1], i)]
      BY <3>3
    <3> HIDE DEF g
    <3>5. QED
      BY <2>1, <3>4
  <2>4. QED
    BY <2>2, <2>3
<1>3. \E f : Is(f, Len(pairs))
  BY <1>2
<1>4. Is(DictSteps(pairs), Len(pairs))
  BY <1>1, <1>3
<1> DEFINE d == DictSteps(pairs)
<1> HIDE DEF d
<1>5. d = [i \in 0..Len(pairs) |-> IF i = 0 THEN A ELSE B(d[i-1], i)]
  BY <1>4 DEF d
<1>6. d[0] = A /\ \A i \in 1..Len(pairs) : d[i] = B(d[i-1], i)
  BY <1>5
<1>7. QED
  BY <1>6 DEF d, A, B

(* The function that Filled is defined by exists, so that it has the       *)
(* values its recursion says.                                              *)
LEMMA FilledDefined ==
  ASSUME NEW pairs, Len(pairs) \in Nat
  PROVE  \E put : /\ put[0] = <<>>
                  /\ \A i \in 1..Len(pairs) :
                       put[i] = Promised!Put(put[i-1], pairs[i][1], pairs[i][2])
                  /\ Promised!Filled(pairs) = put[Len(pairs)]
<1> DEFINE A == <<>>
           B(z, i) == Promised!Put(z, pairs[i][1], pairs[i][2])
           Is(f, n) == f = [i \in 0..n |-> IF i = 0 THEN A ELSE B(f[i-1], i)]
           T == {n \in 0..Len(pairs) : ~\E f : Is(f, n)}
<1> DEFINE d == CHOOSE f : Is(f, Len(pairs))
<1>1. Promised!Filled(pairs) = d[Len(pairs)]
  BY DEF Promised!Filled
<1> HIDE DEF A, B
<1>2. T = {}
  <2> SUFFICES ASSUME T # {} PROVE FALSE
    OBVIOUS
  <2> DEFINE m == Min(T)
  <2>1. m \in T /\ \A y \in T : m <= y
    <3>1. T \subseteq Nat
      OBVIOUS
    <3> HIDE DEF T
    <3>2. QED
      BY <3>1, FirstPair
  <2> HIDE DEF m
  <2>2. CASE m = 0
    <3>1. Is([i \in 0..0 |-> A], 0)
      OBVIOUS
    <3>2. QED
      BY <2>1, <2>2, <3>1
  <2>3. CASE m # 0
    <3>1. m - 1 \in 0..Len(pairs) /\ m - 1 \notin T /\ m \in Nat /\ m >= 1
      BY <2>1, <2>3
    <3>2. PICK f : Is(f, m - 1)
      BY <3>1
    <3> DEFINE g == [i \in 0..m |-> IF i <= m - 1 THEN f[i] ELSE B(f[m - 1], m)]
    <3>3. ASSUME NEW i \in 0..m PROVE g[i] = IF i = 0 THEN A ELSE B(g[i-1], i)
      <4>1. CASE i = 0
        BY <3>1, <3>2, <4>1
      <4>2. CASE i # 0 /\ i <= m - 1
        <5>1. i \in 0..m - 1 /\ i - 1 \in 0..m - 1 /\ i - 1 \in 0..m
          BY <3>1, <4>2
        <5>2. f[i] = B(f[i-1], i)
          BY <3>2, <4>2, <5>1
        <5>3. g[i] = f[i] /\ g[i-1] = f[i-1]
          BY <4>2, <5>1
        <5>4. QED
          BY <4>2, <5>2, <5>3
      <4>3. CASE i = m
        <5>1. m - 1 \in 0..m /\ m - 1 <= m - 1
          BY <3>1
        <5>2. g[m - 1] = f[m - 1]
          BY <5>1
        <5>3. QED
          BY <2>3, <3>1, <4>3, <5>2
      <4>4. QED
        BY <3>1, <4>1, <4>2, <4>3
    <3>4. g = [i \in 0..m |-> IF i = 0 THEN A ELSE B(g[i-1], i)]
      BY <3>3
    <3> HIDE DEF g
    <3>5. QED
      BY <2>1, <3>4
  <2>4. QED
    BY <2>2, <2>3
<1>3. \E f : Is(f, Len(pairs))
  BY <1>2
<1>4. Is(d, Len(pairs))
  BY <1>3
<1> HIDE DEF d
<1>5. d = [i \in 0..Len(pairs) |-> IF i = 0 THEN A ELSE B(d[i-1], i)]
  BY <1>4
<1>6. d[0] = A /\ \A i \in 1..Len(pairs) : d[i] = B(d[i-1], i)
  BY <1>5
<1>7. QED
  BY <1>1, <1>6 DEF A, B

(* A block that is changed or moved is still above what was in use.        *)
LEMMA FreshStays ==
  ASSUME NEW h, HeapOK(h), NEW r, Fresh(h, "dict", r),
         NEW q, InPlace(r.h, r.at, "dict", q) \/ Fresh(r.h, "dict", q)
  PROVE  Fresh(h, "dict", q)
<1>1. /\ h.cursor \in Nat /\ r.at \in Nat /\ r.h.cursor \in Nat
      /\ HeapOK(r.h) /\ h.cursor <= r.h.cursor /\ h.cursor <= r.at - 1
      /\ \A a \in 1..h.cursor - 1 : r.h.mem[a] = h.mem[a]
  BY Mapped DEF Fresh, BlockOK
<1>2. HeapOK(q.h) /\ q.h.cursor \in Nat /\ BlockOK(q.h, q.at, "dict") /\ r.h.cursor <= q.h.cursor
  BY Mapped DEF Fresh, InPlace
<1>3. h.cursor <= q.at - 1
  BY <1>1 DEF Fresh, InPlace, BlockOK
<1>4. \A a \in 1..h.cursor - 1 : q.h.mem[a] = h.mem[a]
  <2> SUFFICES ASSUME NEW a \in 1..h.cursor - 1 PROVE q.h.mem[a] = h.mem[a]
    OBVIOUS
  <2>1. a \in 1..r.h.cursor - 1 /\ a \notin r.at..LastOf(r.h, r.at, "dict")
    BY <1>1
  <2>2. q.h.mem[a] = r.h.mem[a]
    BY <2>1 DEF Fresh, InPlace
  <2>3. QED
    BY <1>1, <2>2
<1>5. QED
  BY <1>1, <1>2, <1>3, <1>4 DEF Fresh

(* A dict literal makes a new block with its pairs, each key once.         *)
LEMMA DictMade ==
  ASSUME HeapOK(Heap), NEW pairs \in Seq(Nat \X Nat)
  PROVE  LET r == DictBlock(pairs)
         IN /\ Fresh(Heap, "dict", r)
            /\ Contents(r.h, r.at, "dict") = Promised!Filled(pairs)
            /\ KeysOnce(Promised!Filled(pairs))
<1>0. /\ Len(pairs) \in Nat
      /\ \A i \in 1..Len(pairs) : pairs[i][1] \in Nat /\ pairs[i][2] \in Nat
  OBVIOUS
<1> DEFINE step == DictSteps(pairs)
<1>1. /\ step[0] = NewBlock(Heap, 2 * (DictSeed + 1), DictSeed, 0, <<>>)
      /\ \A i \in 1..Len(pairs) :
           step[i] = PutInto(step[i-1].h, step[i-1].at, pairs[i][1], pairs[i][2])
  BY <1>0, StepsDefined
<1>2. PICK put : /\ put[0] = <<>>
                 /\ \A i \in 1..Len(pairs) :
                      put[i] = Promised!Put(put[i-1], pairs[i][1], pairs[i][2])
                 /\ Promised!Filled(pairs) = put[Len(pairs)]
  BY <1>0, FilledDefined
<1> HIDE DEF step
<1> DEFINE Good(i) == /\ Fresh(Heap, "dict", step[i])
                      /\ Contents(step[i].h, step[i].at, "dict") = put[i]
                      /\ put[i] \in Seq(Nat \X Nat) /\ KeysOnce(put[i])
<1>3. Good(0)
  <2>0. /\ 2 * (DictSeed + 1) \in Nat /\ DictSeed \in Nat \ {0} /\ 0 \in Nat
        /\ <<>> \in Seq(Nat) /\ Len(<<>>) + 2 <= 2 * (DictSeed + 1)
    BY SeedsAssumption
  <2>1. Newly(Heap, 2 * (DictSeed + 1), DictSeed, 0, <<>>, step[0])
    BY <1>1, <2>0, NewBlockOK
  <2>2. /\ Cap(step[0].h, step[0].at) = DictSeed /\ Count(step[0].h, step[0].at) = 0
        /\ LastOf(step[0].h, step[0].at, "dict") = step[0].at + 2 * DictSeed
    BY <2>1 DEF Newly, Cap, Count, LastOf
  <2>3. Heap.cursor \in Nat
    BY Mapped
  <2>4. BlockOK(step[0].h, step[0].at, "dict")
    BY <2>0, <2>1, <2>2, <2>3 DEF Newly, BlockOK
  <2>5. Fresh(Heap, "dict", step[0])
    BY <2>0, <2>1, <2>3, <2>4 DEF Newly, Fresh
  <2>6. Contents(step[0].h, step[0].at, "dict") = <<>>
    BY <2>2 DEF Contents
  <2>7. KeysOnce(<<>>) /\ <<>> \in Seq(Nat \X Nat)
    BY DEF KeysOnce
  <2>8. QED
    BY <1>2, <2>5, <2>6, <2>7
<1>4. ASSUME NEW i \in 1..Len(pairs), Good(i - 1) PROVE Good(i)
  <2>1. HeapOK(step[i-1].h) /\ BlockOK(step[i-1].h, step[i-1].at, "dict")
    BY <1>4 DEF Fresh
  <2>2. /\ \/ InPlace(step[i-1].h, step[i-1].at, "dict", step[i])
           \/ Fresh(step[i-1].h, "dict", step[i])
        /\ Contents(step[i].h, step[i].at, "dict") = put[i]
    <3>1. KeysOnce(Contents(step[i-1].h, step[i-1].at, "dict"))
      BY <1>4
    <3> DEFINE h == step[i-1].h
               p == step[i-1].at
               k == pairs[i][1]
               x == pairs[i][2]
    <3>2. /\ HeapOK(h) /\ BlockOK(h, p, "dict") /\ k \in Nat /\ x \in Nat
          /\ KeysOnce(Contents(h, p, "dict"))
      BY <1>0, <2>1, <3>1
    <3>3. /\ step[i] = PutInto(h, p, k, x)
          /\ put[i] = Promised!Put(Contents(h, p, "dict"), k, x)
      BY <1>1, <1>2, <1>4
    <3> HIDE DEF h, p, k, x
    <3>4. /\ \/ InPlace(h, p, "dict", PutInto(h, p, k, x))
             \/ Fresh(h, "dict", PutInto(h, p, k, x))
          /\ Contents(PutInto(h, p, k, x).h, PutInto(h, p, k, x).at, "dict") =
               Promised!Put(Contents(h, p, "dict"), k, x)
      BY <3>2, PutOK
    <3>5. QED
      BY <3>3, <3>4 DEF h, p
  <2>3. Fresh(Heap, "dict", step[i])
    BY <1>4, <2>2, FreshStays
  <2>4. put[i] \in Seq(Nat \X Nat) /\ KeysOnce(put[i])
    BY <1>0, <1>2, <1>4, PutKeysOnce
  <2>5. QED
    BY <2>2, <2>3, <2>4
<1> HIDE DEF Good
<1>5. \A i \in 0..Len(pairs) : Good(i)
  <2> DEFINE T == {i \in 0..Len(pairs) : ~Good(i)}
  <2> SUFFICES ASSUME T # {} PROVE FALSE
    OBVIOUS
  <2>1. Min(T) \in T /\ \A y \in T : Min(T) <= y
    <3>1. T \subseteq Nat
      OBVIOUS
    <3> HIDE DEF T
    <3>2. QED
      BY <3>1, FirstPair
  <2>2. PICK m \in T : \A y \in T : m <= y
    BY <2>1
  <2>3. m # 0
    BY <1>3, <2>2
  <2>4. m \in 1..Len(pairs) /\ m - 1 \in 0..Len(pairs) /\ m - 1 \notin T
    BY <1>0, <2>2, <2>3
  <2>5. QED
    BY <1>4, <2>2, <2>4
<1>6. Good(Len(pairs))
  BY <1>0, <1>5
<1>7. QED
  BY <1>2, <1>6 DEF DictBlock, Good, step

-----------------------------------------------------------------------------
(* The invariant: each variable's block is as it should be, two blocks     *)
(* that are in use are apart or the same, and so are blocks and tables.    *)

Held(v) == ptr[v] # Null
LastWord(v) == LastOf(Heap, ptr[v], kinds[v])
TableEnd(p) == p + EventSlots

Typed ==
  /\ HeapOK(Heap)
  /\ ptr \in [Vars -> Nat]
  /\ kinds \in [Vars -> {"none", "list", "dict"}]
  /\ \A v \in Vars : kinds[v] = "none" <=> ~Held(v)
ObjectAt(v) ==
  Held(v) => /\ BlockOK(Heap, ptr[v], kinds[v])
             /\ kinds[v] = "dict" => KeysOnce(Contents(Heap, ptr[v], "dict"))
Between(v, w) ==
  Held(v) /\ Held(w) =>
    IF ptr[v] = ptr[w] THEN kinds[v] = kinds[w]
    ELSE LastWord(v) < ptr[w] - 1 \/ LastWord(w) < ptr[v] - 1
TablesOK ==
  /\ keysPtr \in Nat /\ fnsPtr \in Nat /\ evCount \in 0..EventSlots
  /\ keysPtr = Null <=> fnsPtr = Null
  /\ keysPtr = Null => evCount = 0
  /\ keysPtr # Null => TableEnd(keysPtr) <= fnsPtr /\ TableEnd(fnsPtr) <= cursor
Aside(v) ==
  Held(v) /\ keysPtr # Null =>
    /\ LastWord(v) < keysPtr \/ TableEnd(keysPtr) <= ptr[v] - 1
    /\ LastWord(v) < fnsPtr \/ TableEnd(fnsPtr) <= ptr[v] - 1
IInv ==
  /\ Typed /\ TablesOK
  /\ \A v \in Vars : ObjectAt(v) /\ Aside(v)
  /\ \A v, w \in Vars : Between(v, w)

(* A block none of whose words change is the same block.                   *)
LEMMA SameBlock ==
  ASSUME NEW h, HeapOK(h), NEW g, HeapOK(g), h.cursor <= g.cursor,
         NEW kind \in {"list", "dict"}, NEW p, BlockOK(h, p, kind),
         \A a \in p - 1..LastOf(h, p, kind) : g.mem[a] = h.mem[a]
  PROVE  /\ BlockOK(g, p, kind) /\ LastOf(g, p, kind) = LastOf(h, p, kind)
         /\ Contents(g, p, kind) = Contents(h, p, kind)
<1>1. /\ p \in Nat /\ 2 <= p /\ Count(h, p) \in Nat /\ Cap(h, p) \in Nat
      /\ (kind = "dict" => Cap(h, p) # 0)
      /\ Count(h, p) <= Cap(h, p) /\ LastOf(h, p, kind) < h.cursor
      /\ h.cursor \in Nat /\ g.cursor \in Nat /\ LastOf(h, p, kind) \in Nat
  BY Mapped DEF BlockOK, LastOf
<1>2. LastOf(h, p, kind) = IF kind = "list" THEN p + Cap(h, p) ELSE p + 2 * Cap(h, p)
  BY DEF LastOf
<1>3. p - 1 \in p - 1..LastOf(h, p, kind) /\ p \in p - 1..LastOf(h, p, kind)
  BY <1>1, <1>2
<1>4. Cap(g, p) = Cap(h, p) /\ Count(g, p) = Count(h, p)
  BY <1>3 DEF Cap, Count
<1>5. LastOf(g, p, kind) = LastOf(h, p, kind)
  BY <1>4 DEF LastOf
<1>6. BlockOK(g, p, kind)
  BY <1>1, <1>4, <1>5 DEF BlockOK
<1>7. ASSUME NEW i \in 1..Count(h, p)
      PROVE  (IF kind = "list" THEN <<NoKey, g.mem[p + i]>>
              ELSE <<g.mem[p + 2 * i - 1], g.mem[p + 2 * i]>>) =
             (IF kind = "list" THEN <<NoKey, h.mem[p + i]>>
              ELSE <<h.mem[p + 2 * i - 1], h.mem[p + 2 * i]>>)
  <2>1. CASE kind = "list"
    <3>1. p + i \in p - 1..LastOf(h, p, kind)
      BY <1>1, <1>2, <2>1
    <3>2. QED
      BY <2>1, <3>1
  <2>2. CASE kind = "dict"
    <3>1. p + 2 * i - 1 \in p - 1..LastOf(h, p, kind) /\ p + 2 * i \in p - 1..LastOf(h, p, kind)
      BY <1>1, <1>2, <2>2
    <3>2. QED
      BY <2>2, <3>1
  <2>3. QED
    BY <2>1, <2>2
<1>8. Contents(g, p, kind) = Contents(h, p, kind)
  BY <1>4, <1>7 DEF Contents
<1>9. QED
  BY <1>5, <1>6, <1>8

(* What a program reads in a variable is the contents of its block.        *)
LEMMA ReadIs ==
  ASSUME NEW v \in Vars
  PROVE  Read(v) = IF kinds[v] = "none" THEN <<>> ELSE Contents(Heap, ptr[v], kinds[v])
BY DEF Read, Contents, Heap

(* The same after a step.                                                  *)
LEMMA ReadAfter ==
  ASSUME NEW v \in Vars
  PROVE  Read(v)' = IF kinds'[v] = "none" THEN <<>> ELSE Contents(Heap', ptr'[v], kinds'[v])
BY DEF Read, Contents, Heap

(* The heap that an action keeps is the heap after it.                     *)
LEMMA HeapAfter ==
  ASSUME NEW h, HeapOK(h), SetHeap(h)
  PROVE  Heap' = h
BY DEF SetHeap, Heap, HeapOK, Heaps

(* What is known of a variable that has a block.                           *)
LEMMA BlockKnown ==
  ASSUME IInv, NEW v \in Vars, Held(v)
  PROVE  /\ kinds[v] \in {"list", "dict"} /\ BlockOK(Heap, ptr[v], kinds[v])
         /\ ptr[v] \in Nat /\ 2 <= ptr[v] /\ LastWord(v) \in Nat /\ ptr[v] <= LastWord(v)
         /\ LastWord(v) < cursor /\ cursor \in Nat
<1>1. /\ kinds[v] \in {"list", "dict"} /\ BlockOK(Heap, ptr[v], kinds[v]) /\ HeapOK(Heap)
  BY DEF IInv, Typed, ObjectAt, Held
<1>2. Heap.cursor = cursor
  BY DEF Heap
<1>3. QED
  BY <1>1, <1>2, Mapped DEF BlockOK, LastOf, LastWord

(* The words of the tables stay where nothing writes to them.              *)
LEMMA BoundStays ==
  ASSUME IInv, UNCHANGED <<keysPtr, fnsPtr, evCount>>,
         keysPtr # Null =>
           \A i \in 0..EventSlots - 1 : mem'[keysPtr + i] = mem[keysPtr + i]
                                        /\ mem'[fnsPtr + i] = mem[fnsPtr + i]
  PROVE  BoundNow' = BoundNow
<1>1. evCount \in 0..EventSlots /\ EventSlots \in Nat /\ keysPtr \in Nat /\ fnsPtr \in Nat
      /\ (keysPtr = Null => evCount = 0)
  BY SeedsAssumption DEF IInv, TablesOK
<1>2. ASSUME NEW i \in 1..evCount
      PROVE  mem'[keysPtr + i - 1] = mem[keysPtr + i - 1] /\ mem'[fnsPtr + i - 1] = mem[fnsPtr + i - 1]
  <2>1. keysPtr # Null /\ i - 1 \in 0..EventSlots - 1
    BY <1>1
  <2>2. keysPtr + (i - 1) = keysPtr + i - 1 /\ fnsPtr + (i - 1) = fnsPtr + i - 1
    BY <1>1
  <2>3. QED
    BY <2>1, <2>2
<1>3. QED
  BY <1>2 DEF BoundNow

(* A new block in a variable: the others keep theirs.                      *)
LEMMA Created ==
  ASSUME IInv, NEW v \in Vars, NEW kind \in {"list", "dict"}, NEW r, Fresh(Heap, kind, r),
         kind = "dict" => KeysOnce(Contents(r.h, r.at, "dict")),
         Heap' = r.h, ptr' = [ptr EXCEPT ![v] = r.at], kinds' = [kinds EXCEPT ![v] = kind],
         UNCHANGED <<keysPtr, fnsPtr, evCount>>
  PROVE  /\ IInv'
         /\ \A w \in Vars : Read(w)' = IF w = v THEN Contents(r.h, r.at, kind) ELSE Read(w)
         /\ \A w \in Vars : ptr[w] # r.at
         /\ BoundNow' = BoundNow
<1>1. /\ HeapOK(r.h) /\ BlockOK(r.h, r.at, kind) /\ Heap.cursor <= r.h.cursor
      /\ Heap.cursor <= r.at - 1 /\ r.at \in Nat /\ 2 <= r.at
      /\ \A a \in 1..Heap.cursor - 1 : r.h.mem[a] = Heap.mem[a]
  BY DEF Fresh, BlockOK
<1>2. /\ HeapOK(Heap) /\ ptr \in [Vars -> Nat] /\ kinds \in [Vars -> {"none", "list", "dict"}]
      /\ Heap.cursor = cursor /\ Heap.mem = mem /\ cursor \in Nat /\ Heap.cursor \in Nat
      /\ cursor' = r.h.cursor /\ mem' = r.h.mem /\ r.h.cursor \in Nat
  <2>1. HeapOK(Heap) /\ ptr \in [Vars -> Nat] /\ kinds \in [Vars -> {"none", "list", "dict"}]
    BY DEF IInv, Typed
  <2>2. Heap.cursor = cursor /\ Heap.mem = mem /\ cursor' = r.h.cursor /\ mem' = r.h.mem
    <3>1. Heap'.cursor = cursor' /\ Heap'.mem = mem' /\ Heap.cursor = cursor /\ Heap.mem = mem
      BY DEF Heap
    <3>2. QED
      BY <3>1
  <2>3. QED
    BY <1>1, <2>1, <2>2, Mapped
<1>3. ASSUME NEW w \in Vars, Held(w)
      PROVE  /\ BlockOK(r.h, ptr[w], kinds[w])
             /\ LastOf(r.h, ptr[w], kinds[w]) = LastWord(w)
             /\ Contents(r.h, ptr[w], kinds[w]) = Contents(Heap, ptr[w], kinds[w])
  <2>1. /\ kinds[w] \in {"list", "dict"} /\ BlockOK(Heap, ptr[w], kinds[w])
        /\ ptr[w] \in Nat /\ 2 <= ptr[w] /\ LastWord(w) \in Nat /\ LastWord(w) < cursor
    BY <1>3, BlockKnown
  <2>2. \A a \in ptr[w] - 1..LastOf(Heap, ptr[w], kinds[w]) : r.h.mem[a] = Heap.mem[a]
    BY <1>1, <1>2, <2>1 DEF LastWord
  <2>3. QED
    BY <1>1, <1>2, <2>1, <2>2, SameBlock DEF LastWord
<1>4. ASSUME NEW w \in Vars
      PROVE  /\ ptr'[w] = IF w = v THEN r.at ELSE ptr[w]
             /\ kinds'[w] = IF w = v THEN kind ELSE kinds[w]
             /\ LastWord(w)' = LastOf(r.h, ptr'[w], kinds'[w])
  BY <1>2 DEF LastWord
<1>5. \A w \in Vars : ptr[w] # r.at
  <2> SUFFICES ASSUME NEW w \in Vars, ptr[w] = r.at PROVE FALSE
    OBVIOUS
  <2>1. Held(w)
    BY <1>1 DEF Held, Null
  <2>2. ptr[w] <= LastWord(w) /\ LastWord(w) < cursor /\ LastWord(w) \in Nat
    BY <2>1, BlockKnown
  <2>3. QED
    BY <1>1, <1>2, <2>2
<1>6. Typed'
  <2>1. HeapOK(Heap')
    BY <1>1
  <2>2. HeapOK(Heap)' <=> HeapOK(Heap')
    BY DEF HeapOK
  <2>3. \A w \in Vars : (kinds'[w] = "none" <=> ~Held(w)')
    BY <1>1, <1>4 DEF IInv, Typed, Held, Null
  <2>4. QED
    BY <1>1, <1>2, <2>1, <2>2, <2>3 DEF Typed
<1>7. TablesOK'
  BY <1>1, <1>2, SeedsAssumption DEF IInv, TablesOK, TableEnd
<1>8. ASSUME NEW w \in Vars PROVE ObjectAt(w)'
  <2>1. CASE w = v
    BY <1>1, <1>4, <2>1 DEF ObjectAt
  <2>2. CASE w # v
    <3>1. ObjectAt(w)
      BY DEF IInv
    <3>2. Held(w)' <=> Held(w)
      BY <1>4, <2>2 DEF Held
    <3>3. QED
      BY <1>3, <1>4, <2>2, <3>1, <3>2 DEF ObjectAt
  <2>3. QED
    BY <2>1, <2>2
<1>9. ASSUME NEW w \in Vars PROVE Aside(w)'
  <2> SUFFICES ASSUME Held(w)', keysPtr # Null
               PROVE  /\ LastWord(w)' < keysPtr \/ TableEnd(keysPtr) <= ptr'[w] - 1
                      /\ LastWord(w)' < fnsPtr \/ TableEnd(fnsPtr) <= ptr'[w] - 1
    BY DEF Aside, TableEnd
  <2>0. /\ TableEnd(keysPtr) <= fnsPtr /\ TableEnd(fnsPtr) <= cursor
        /\ keysPtr \in Nat /\ fnsPtr \in Nat /\ EventSlots \in Nat
    BY SeedsAssumption DEF IInv, TablesOK
  <2>1. CASE w = v
    BY <1>1, <1>2, <1>4, <2>0, <2>1 DEF TableEnd
  <2>2. CASE w # v
    <3>1. Held(w) /\ Aside(w)
      BY <1>4, <2>2 DEF Held, IInv
    <3>2. LastWord(w)' = LastWord(w) /\ ptr'[w] = ptr[w]
      BY <1>3, <1>4, <2>2, <3>1
    <3>3. QED
      BY <3>1, <3>2 DEF Aside
  <2>3. QED
    BY <2>1, <2>2
<1>10. ASSUME NEW w \in Vars, NEW u \in Vars PROVE Between(w, u)'
  <2>1. CASE w = v /\ u = v
    BY <2>1 DEF Between
  <2>2. ASSUME NEW y \in Vars, y # v, Held(y)'
        PROVE  /\ Held(y) /\ ptr'[y] = ptr[y] /\ kinds'[y] = kinds[y]
               /\ LastWord(y)' = LastWord(y) /\ LastWord(y) < r.at - 1 /\ ptr[y] # r.at
    <3>1. Held(y) /\ ptr'[y] = ptr[y] /\ kinds'[y] = kinds[y]
      BY <1>4, <2>2 DEF Held
    <3>2. LastWord(y)' = LastWord(y)
      BY <1>3, <1>4, <2>2, <3>1
    <3>3. LastWord(y) < cursor /\ LastWord(y) \in Nat
      BY <3>1, BlockKnown
    <3>4. QED
      BY <1>1, <1>2, <1>5, <3>1, <3>2, <3>3
  <2>3. CASE w = v /\ u # v
    BY <1>4, <2>2, <2>3 DEF Between
  <2>4. CASE w # v /\ u = v
    BY <1>4, <2>2, <2>4 DEF Between
  <2>5. CASE w # v /\ u # v
    <3>1. Between(w, u)
      BY DEF IInv
    <3>2. QED
      BY <2>2, <2>5, <3>1 DEF Between
  <2>6. QED
    BY <2>1, <2>3, <2>4, <2>5
<1>11. IInv'
  BY <1>6, <1>7, <1>8, <1>9, <1>10 DEF IInv
<1>12. ASSUME NEW w \in Vars
       PROVE  Read(w)' = IF w = v THEN Contents(r.h, r.at, kind) ELSE Read(w)
  <2>1. CASE w = v
    BY <1>4, <2>1, ReadAfter
  <2>2. CASE w # v /\ kinds[w] = "none"
    BY <1>4, <2>2, ReadIs, ReadAfter
  <2>3. CASE w # v /\ kinds[w] # "none"
    <3>1. Held(w)
      BY <2>3 DEF IInv, Typed
    <3>2. QED
      BY <1>3, <1>4, <2>3, <3>1, ReadIs, ReadAfter
  <2>4. QED
    BY <2>1, <2>2, <2>3
<1>13. BoundNow' = BoundNow
  <2>1. ASSUME keysPtr # Null, NEW i \in 0..EventSlots - 1
        PROVE  mem'[keysPtr + i] = mem[keysPtr + i] /\ mem'[fnsPtr + i] = mem[fnsPtr + i]
    <3>1. /\ TableEnd(keysPtr) <= fnsPtr /\ TableEnd(fnsPtr) <= cursor
          /\ keysPtr \in Nat \ {0} /\ fnsPtr \in Nat /\ EventSlots \in Nat
      BY <2>1, SeedsAssumption DEF IInv, TablesOK, Null
    <3>2. keysPtr + i \in 1..Heap.cursor - 1 /\ fnsPtr + i \in 1..Heap.cursor - 1
      BY <1>2, <3>1 DEF TableEnd
    <3>3. QED
      BY <1>1, <1>2, <3>2
  <2>2. QED
    BY <2>1, BoundStays
<1>14. QED
  BY <1>5, <1>11, <1>12, <1>13

(* A block that is changed in place: those who share it see the change,    *)
(* and the others keep theirs.                                             *)
LEMMA Changed ==
  ASSUME IInv, NEW v \in Vars, Held(v), NEW r, InPlace(Heap, ptr[v], kinds[v], r),
         kinds[v] = "dict" => KeysOnce(Contents(r.h, ptr[v], "dict")),
         Heap' = r.h, ptr' = ptr, kinds' = kinds,
         UNCHANGED <<keysPtr, fnsPtr, evCount>>
  PROVE  /\ IInv'
         /\ \A w \in Vars : Read(w)' = IF ptr[w] = ptr[v] THEN Contents(r.h, ptr[v], kinds[v])
                                       ELSE Read(w)
         /\ BoundNow' = BoundNow
<1>1. /\ HeapOK(r.h) /\ BlockOK(r.h, ptr[v], kinds[v]) /\ Heap.cursor <= r.h.cursor
      /\ Cap(r.h, ptr[v]) = Cap(Heap, ptr[v])
      /\ \A a \in 1..Heap.cursor - 1 : a \notin ptr[v]..LastWord(v) => r.h.mem[a] = Heap.mem[a]
  BY DEF InPlace, LastWord
<1>2. /\ HeapOK(Heap) /\ ptr \in [Vars -> Nat] /\ kinds \in [Vars -> {"none", "list", "dict"}]
      /\ Heap.cursor = cursor /\ Heap.mem = mem /\ cursor \in Nat /\ Heap.cursor \in Nat
      /\ cursor' = r.h.cursor /\ mem' = r.h.mem /\ r.h.cursor \in Nat
  <2>1. HeapOK(Heap) /\ ptr \in [Vars -> Nat] /\ kinds \in [Vars -> {"none", "list", "dict"}]
    BY DEF IInv, Typed
  <2>2. Heap.cursor = cursor /\ Heap.mem = mem /\ cursor' = r.h.cursor /\ mem' = r.h.mem
    <3>1. Heap'.cursor = cursor' /\ Heap'.mem = mem' /\ Heap.cursor = cursor /\ Heap.mem = mem
      BY DEF Heap
    <3>2. QED
      BY <3>1
  <2>3. QED
    BY <1>1, <2>1, <2>2, Mapped
<1>3. /\ kinds[v] \in {"list", "dict"} /\ ptr[v] \in Nat /\ 2 <= ptr[v] /\ LastWord(v) \in Nat
      /\ ptr[v] <= LastWord(v) /\ LastWord(v) < cursor
      /\ LastOf(r.h, ptr[v], kinds[v]) = LastWord(v)
  <2>1. LastOf(r.h, ptr[v], kinds[v]) = LastWord(v)
    BY <1>1 DEF LastOf, LastWord
  <2>2. QED
    BY <2>1, BlockKnown
<1>4. ASSUME NEW w \in Vars, Held(w)
      PROVE  /\ BlockOK(r.h, ptr[w], kinds[w])
             /\ LastOf(r.h, ptr[w], kinds[w]) = LastWord(w)
             /\ ptr[w] = ptr[v] => kinds[w] = kinds[v]
             /\ ptr[w] # ptr[v] =>
                  Contents(r.h, ptr[w], kinds[w]) = Contents(Heap, ptr[w], kinds[w])
  <2>0. Between(w, v)
    BY DEF IInv
  <2>1. CASE ptr[w] = ptr[v]
    <3>1. kinds[w] = kinds[v] /\ LastWord(w) = LastWord(v)
      BY <1>4, <2>0, <2>1 DEF Between, LastWord
    <3>2. QED
      BY <1>1, <1>3, <2>1, <3>1
  <2>2. CASE ptr[w] # ptr[v]
    <3>1. LastWord(w) < ptr[v] - 1 \/ LastWord(v) < ptr[w] - 1
      BY <1>4, <2>0, <2>2 DEF Between
    <3>2. /\ kinds[w] \in {"list", "dict"} /\ BlockOK(Heap, ptr[w], kinds[w])
          /\ ptr[w] \in Nat /\ 2 <= ptr[w] /\ LastWord(w) \in Nat /\ LastWord(w) < cursor
      BY <1>4, BlockKnown
    <3>3. \A a \in ptr[w] - 1..LastOf(Heap, ptr[w], kinds[w]) : r.h.mem[a] = Heap.mem[a]
      <4> SUFFICES ASSUME NEW a \in ptr[w] - 1..LastWord(w) PROVE r.h.mem[a] = Heap.mem[a]
        BY DEF LastWord
      <4>1. a \in 1..Heap.cursor - 1 /\ a \notin ptr[v]..LastWord(v)
        BY <1>2, <1>3, <3>1, <3>2
      <4>2. QED
        BY <1>1, <4>1
    <3>4. QED
      BY <1>1, <1>2, <2>2, <3>2, <3>3, SameBlock DEF LastWord
  <2>3. QED
    BY <2>1, <2>2
<1>5. \A w \in Vars : LastWord(w)' = LastOf(r.h, ptr[w], kinds[w])
  BY DEF LastWord
<1>6. Typed'
  <2>1. HeapOK(Heap)' <=> HeapOK(Heap')
    BY DEF HeapOK
  <2>2. QED
    BY <1>1, <1>2, <2>1 DEF IInv, Typed, Held
<1>7. TablesOK'
  BY <1>1, <1>2, SeedsAssumption DEF IInv, TablesOK, TableEnd
<1>8. ASSUME NEW w \in Vars PROVE ObjectAt(w)'
  <2>1. ObjectAt(w)
    BY DEF IInv
  <2>2. QED
    BY <1>4, <2>1 DEF ObjectAt, Held
<1>9. ASSUME NEW w \in Vars PROVE Aside(w)'
  <2>1. Aside(w)
    BY DEF IInv
  <2>2. QED
    BY <1>4, <1>5, <2>1 DEF Aside, Held, TableEnd
<1>10. ASSUME NEW w \in Vars, NEW u \in Vars PROVE Between(w, u)'
  <2>1. Between(w, u)
    BY DEF IInv
  <2>2. QED
    BY <1>4, <1>5, <2>1 DEF Between, Held
<1>11. IInv'
  BY <1>6, <1>7, <1>8, <1>9, <1>10 DEF IInv
<1>12. ASSUME NEW w \in Vars
       PROVE  Read(w)' = IF ptr[w] = ptr[v] THEN Contents(r.h, ptr[v], kinds[v]) ELSE Read(w)
  <2>1. CASE kinds[w] = "none"
    <3>1. ~Held(w)
      BY <2>1 DEF IInv, Typed
    <3>2. ptr[w] # ptr[v]
      BY <3>1 DEF Held
    <3>3. QED
      BY <2>1, <3>2, ReadIs, ReadAfter
  <2>2. CASE kinds[w] # "none"
    <3>1. Held(w)
      BY <2>2 DEF IInv, Typed
    <3>2. QED
      BY <1>4, <2>2, <3>1, ReadIs, ReadAfter
  <2>3. QED
    BY <2>1, <2>2
<1>13. BoundNow' = BoundNow
  <2>1. ASSUME keysPtr # Null, NEW i \in 0..EventSlots - 1
        PROVE  mem'[keysPtr + i] = mem[keysPtr + i] /\ mem'[fnsPtr + i] = mem[fnsPtr + i]
    <3>1. /\ TableEnd(keysPtr) <= fnsPtr /\ TableEnd(fnsPtr) <= cursor
          /\ keysPtr \in Nat \ {0} /\ fnsPtr \in Nat /\ EventSlots \in Nat
      BY <2>1, SeedsAssumption DEF IInv, TablesOK, Null
    <3>2. Aside(v)
      BY DEF IInv
    <3>3. /\ keysPtr + i \in 1..Heap.cursor - 1 /\ fnsPtr + i \in 1..Heap.cursor - 1
          /\ keysPtr + i \notin ptr[v]..LastWord(v) /\ fnsPtr + i \notin ptr[v]..LastWord(v)
      BY <1>2, <1>3, <2>1, <3>1, <3>2 DEF TableEnd, Aside
    <3>4. QED
      BY <1>1, <1>2, <3>3
  <2>2. QED
    BY <2>1, BoundStays
<1>14. QED
  BY <1>11, <1>12, <1>13

-----------------------------------------------------------------------------
(* The actions.                                                            *)

(* A sequence of elements of a set is one of any larger set.               *)
LEMMA SeqGrows ==
  ASSUME NEW S, NEW T, S \subseteq T
  PROVE  Seq(S) \subseteq Seq(T)
<1> SUFFICES ASSUME NEW s \in Seq(S) PROVE s \in Seq(T)
  OBVIOUS
<1>1. Len(s) \in Nat /\ s \in [1..Len(s) -> S]
  BY LenProperties
<1>2. s \in [1..Len(s) -> T]
  BY <1>1
<1>3. QED
  BY <1>1, <1>2, FunctionIsSeq

(* Values, keys and functions are words, and so are the contents of        *)
(* literals.                                                               *)
LEMMA WordsTyped ==
  /\ \A x \in Values : x \in Nat
  /\ \A k \in Keys : k \in Nat /\ k # NoKey
  /\ \A f \in Functions : f \in Nat
  /\ \A e \in Literals \cup Ranges : e \in Seq(Nat)
  /\ \A e \in DictPairs : e \in Seq(Nat \X Nat)
<1>1. Seq(Values) \subseteq Seq(Nat)
  BY WordsAssumption, SeqGrows
<1>2. Seq(Keys \X Values) \subseteq Seq(Nat \X Nat)
  <2>1. Keys \X Values \subseteq Nat \X Nat
    BY WordsAssumption
  <2>2. QED
    BY <2>1, SeqGrows
<1>3. QED
  BY <1>1, <1>2, WordsAssumption

(* What Keep does with the block that a helper returns.                    *)
LEMMA KeepIs ==
  ASSUME NEW v, NEW kind, NEW r, HeapOK(r.h), Keep(v, kind, r)
  PROVE  /\ Heap' = r.h /\ ptr' = [ptr EXCEPT ![v] = r.at]
         /\ kinds' = [kinds EXCEPT ![v] = kind]
         /\ UNCHANGED <<keysPtr, fnsPtr, evCount, fired>>
BY HeapAfter DEF Keep, events

(* What an action that makes an object does.                               *)
Creates(v, kind, its) ==
  /\ IInv'
  /\ kinds' = [kinds EXCEPT ![v] = kind]
  /\ \A w \in Vars : Read(w)' = IF w = v THEN its ELSE Read(w)
  /\ \A w \in Vars \ {v} : ptr'[w] = ptr[w] /\ ptr'[w] # ptr'[v]
  /\ ptr'[v] # Null
  /\ BoundNow' = BoundNow /\ fired' = fired

(* A variable that is given a new block has an object of its own.          *)
LEMMA KeepFresh ==
  ASSUME IInv, NEW v \in Vars, NEW kind \in {"list", "dict"}, NEW r, Fresh(Heap, kind, r),
         kind = "dict" => KeysOnce(Contents(r.h, r.at, "dict")), Keep(v, kind, r)
  PROVE  Creates(v, kind, Contents(r.h, r.at, kind))
<1>1. /\ Heap' = r.h /\ ptr' = [ptr EXCEPT ![v] = r.at] /\ kinds' = [kinds EXCEPT ![v] = kind]
      /\ UNCHANGED <<keysPtr, fnsPtr, evCount, fired>>
  BY KeepIs DEF Fresh
<1>2. /\ IInv'
      /\ \A w \in Vars : Read(w)' = IF w = v THEN Contents(r.h, r.at, kind) ELSE Read(w)
      /\ \A w \in Vars : ptr[w] # r.at
      /\ BoundNow' = BoundNow
  BY <1>1, Created
<1>3. r.at # Null /\ ptr \in [Vars -> Nat]
  BY DEF Fresh, BlockOK, Null, IInv, Typed
<1>4. QED
  BY <1>1, <1>2, <1>3 DEF Creates

(* A list literal makes a list of its elements.                            *)
LEMMA ListLiteralStep ==
  ASSUME IInv, NEW v \in Vars, NEW elems \in Literals, ListLiteral(v, elems)
  PROVE  Creates(v, "list", Keyless(elems))
<1> DEFINE cap == Max({Len(elems), ListSeed})
           r == NewBlock(Heap, cap + 2, cap, Len(elems), elems)
<1>1. elems \in Seq(Nat) /\ Len(elems) \in Nat /\ HeapOK(Heap)
  BY WordsTyped DEF IInv, Typed
<1>2. cap \in Nat \ {0} /\ Len(elems) <= cap
  <2>1. ListSeed \in Nat \ {0}
    BY SeedsAssumption
  <2>2. \E x \in {Len(elems), ListSeed} : \A y \in {Len(elems), ListSeed} : x >= y
    BY <1>1, <2>1
  <2>3. cap \in {Len(elems), ListSeed} /\ \A y \in {Len(elems), ListSeed} : cap >= y
    BY <2>2 DEF Max
  <2>4. QED
    BY <1>1, <2>1, <2>3
<1>3. Keep(v, "list", r)
  BY DEF ListLiteral
<1> HIDE DEF cap
<1>4. Fresh(Heap, "list", r) /\ Contents(r.h, r.at, "list") = Keyless(elems)
  BY <1>1, <1>2, ListMade
<1> HIDE DEF r
<1>5. QED
  BY <1>3, <1>4, KeepFresh

(* A range makes a list of its elements, in a block with room for no more. *)
LEMMA RangeListStep ==
  ASSUME IInv, NEW v \in Vars, NEW elems \in Ranges, RangeList(v, elems)
  PROVE  Creates(v, "list", Keyless(elems))
<1> DEFINE r == NewBlock(Heap, Len(elems) + 2, Len(elems), Len(elems), elems)
<1>1. elems \in Seq(Nat) /\ HeapOK(Heap)
  BY WordsTyped DEF IInv, Typed
<1>2. Len(elems) \in Nat /\ Len(elems) <= Len(elems)
  BY <1>1
<1>3. Keep(v, "list", r)
  BY DEF RangeList
<1>4. Fresh(Heap, "list", r) /\ Contents(r.h, r.at, "list") = Keyless(elems)
  BY <1>1, <1>2, ListMade
<1> HIDE DEF r
<1>5. QED
  BY <1>3, <1>4, KeepFresh

(* A dict literal makes a dict of its pairs.                               *)
LEMMA DictLiteralStep ==
  ASSUME IInv, NEW v \in Vars, NEW pairs \in DictPairs, DictLiteral(v, pairs)
  PROVE  Creates(v, "dict", Promised!Filled(pairs))
<1> DEFINE r == DictBlock(pairs)
<1>1. pairs \in Seq(Nat \X Nat) /\ HeapOK(Heap)
  BY WordsTyped DEF IInv, Typed
<1>2. Keep(v, "dict", r)
  BY DEF DictLiteral
<1>3. /\ Fresh(Heap, "dict", r)
      /\ Contents(r.h, r.at, "dict") = Promised!Filled(pairs)
      /\ KeysOnce(Promised!Filled(pairs))
  BY <1>1, DictMade
<1> HIDE DEF r
<1>4. QED
  BY <1>2, <1>3, KeepFresh

(* What an action that changes an object does: all that share it see it,   *)
(* or the variable has a block of its own.                                 *)
Changes(v, its) ==
  /\ IInv'
  /\ kinds' = kinds
  /\ \/ /\ ptr' = ptr
        /\ \A w \in Vars : Read(w)' = IF ptr[w] = ptr[v] THEN its ELSE Read(w)
     \/ /\ \A w \in Vars : Read(w)' = IF w = v THEN its ELSE Read(w)
        /\ \A w \in Vars \ {v} : ptr'[w] = ptr[w] /\ ptr'[w] # ptr'[v]
        /\ ptr'[v] # Null
  /\ BoundNow' = BoundNow /\ fired' = fired

(* A block that is changed in place or moved changes the object.           *)
LEMMA KeepChanged ==
  ASSUME IInv, NEW v \in Vars, Held(v), NEW r,
         InPlace(Heap, ptr[v], kinds[v], r) \/ Fresh(Heap, kinds[v], r),
         kinds[v] = "dict" => KeysOnce(Contents(r.h, r.at, "dict")), Keep(v, kinds[v], r)
  PROVE  Changes(v, Contents(r.h, r.at, kinds[v]))
<1>0. /\ kinds[v] \in {"list", "dict"} /\ ptr \in [Vars -> Nat]
      /\ kinds \in [Vars -> {"none", "list", "dict"}]
  BY BlockKnown DEF IInv, Typed
<1>1. CASE InPlace(Heap, ptr[v], kinds[v], r)
  <2>1. /\ Heap' = r.h /\ ptr' = [ptr EXCEPT ![v] = ptr[v]] /\ r.at = ptr[v]
        /\ kinds' = [kinds EXCEPT ![v] = kinds[v]]
        /\ UNCHANGED <<keysPtr, fnsPtr, evCount, fired>>
    BY <1>1, KeepIs DEF InPlace
  <2>2. ptr' = ptr /\ kinds' = kinds
    BY <1>0, <2>1
  <2>3. /\ IInv'
        /\ \A w \in Vars : Read(w)' = IF ptr[w] = ptr[v] THEN Contents(r.h, ptr[v], kinds[v])
                                      ELSE Read(w)
        /\ BoundNow' = BoundNow
    BY <1>1, <2>1, <2>2, Changed
  <2>4. QED
    BY <2>1, <2>2, <2>3 DEF Changes
<1>2. CASE Fresh(Heap, kinds[v], r)
  <2>1. Creates(v, kinds[v], Contents(r.h, r.at, kinds[v]))
    BY <1>0, <1>2, KeepFresh
  <2>2. [kinds EXCEPT ![v] = kinds[v]] = kinds
    BY <1>0
  <2>3. QED
    BY <2>1, <2>2 DEF Creates, Changes
<1>3. QED
  BY <1>1, <1>2

(* Appending adds the value at the end of a list that has a capacity.      *)
LEMMA AppendStep ==
  ASSUME IInv, NEW v \in Vars, NEW x \in Values, Doubles(v), AppendValue(v, x)
  PROVE  kinds[v] = "list" /\ Changes(v, Append(Read(v), <<NoKey, x>>))
<1> DEFINE r == AppendTo(Heap, ptr[v], x)
<1>1. kinds[v] = "list" /\ Keep(v, kinds[v], r) /\ Held(v) /\ HeapOK(Heap) /\ x \in Nat
  BY WordsTyped DEF AppendValue, IInv, Typed
<1>2. BlockOK(Heap, ptr[v], "list") /\ Read(v) = Contents(Heap, ptr[v], "list")
  BY <1>1, BlockKnown, ReadIs
<1>3. /\ InPlace(Heap, ptr[v], "list", r) \/ Fresh(Heap, "list", r)
      /\ Contents(r.h, r.at, "list") = Append(Contents(Heap, ptr[v], "list"), <<NoKey, x>>)
  BY <1>1, <1>2, AppendOK DEF Doubles
<1> HIDE DEF r
<1>4. QED
  BY <1>1, <1>2, <1>3, KeepChanged

(* Storing under a key puts the pair into the dict.                        *)
LEMMA StoreKeyStep ==
  ASSUME IInv, NEW v \in Vars, NEW k \in Keys, NEW x \in Values, StoreKey(v, k, x)
  PROVE  kinds[v] = "dict" /\ Changes(v, Promised!Put(Read(v), k, x))
<1> DEFINE r == PutInto(Heap, ptr[v], k, x)
<1>1. /\ kinds[v] = "dict" /\ Keep(v, kinds[v], r) /\ Held(v) /\ HeapOK(Heap)
      /\ x \in Nat /\ k \in Nat
  BY WordsTyped DEF StoreKey, IInv, Typed
<1>2. /\ BlockOK(Heap, ptr[v], "dict") /\ Read(v) = Contents(Heap, ptr[v], "dict")
      /\ KeysOnce(Contents(Heap, ptr[v], "dict"))
  BY <1>1, BlockKnown, ReadIs DEF IInv, ObjectAt
<1>3. /\ InPlace(Heap, ptr[v], "dict", r) \/ Fresh(Heap, "dict", r)
      /\ Contents(r.h, r.at, "dict") = Promised!Put(Contents(Heap, ptr[v], "dict"), k, x)
  BY <1>1, <1>2, PutOK
<1>4. KeysOnce(Promised!Put(Contents(Heap, ptr[v], "dict"), k, x))
  BY <1>1, <1>2, ContentsTyped, PutKeysOnce
<1> HIDE DEF r
<1>5. QED
  BY <1>1, <1>2, <1>3, <1>4, KeepChanged

(* Storing at an index replaces that element of the list.                  *)
LEMMA StoreElementStep ==
  ASSUME IInv, NEW v \in Vars, NEW i \in Nat \ {0}, NEW x \in Values, StoreElement(v, i, x)
  PROVE  /\ kinds[v] = "list" /\ i \in 1..Len(Read(v))
         /\ Changes(v, [Read(v) EXCEPT ![i] = <<NoKey, x>>])
<1> DEFINE r == [at |-> ptr[v], h |-> Write(Heap, [a \in {ptr[v] + i} |-> x])]
<1>1. kinds[v] = "list" /\ Held(v) /\ HeapOK(Heap) /\ x \in Nat /\ i <= Count(Heap, ptr[v])
  BY WordsTyped DEF StoreElement, IInv, Typed
<1>2. BlockOK(Heap, ptr[v], "list") /\ Read(v) = Contents(Heap, ptr[v], "list")
  BY <1>1, BlockKnown, ReadIs
<1>3. Count(Heap, ptr[v]) \in Nat /\ Len(Read(v)) = Count(Heap, ptr[v])
  BY <1>1, <1>2, ContentsTyped DEF BlockOK
<1>4. i \in 1..Count(Heap, ptr[v])
  BY <1>1, <1>3
<1>5. /\ InPlace(Heap, ptr[v], "list", r)
      /\ Contents(r.h, ptr[v], "list") = [Contents(Heap, ptr[v], "list") EXCEPT ![i] = <<NoKey, x>>]
  <2>1. /\ HeapOK(Heap) /\ BlockOK(Heap, ptr[v], "list") /\ x \in Nat
        /\ i \in 1..Count(Heap, ptr[v])
    BY <1>1, <1>2, <1>4
  <2>2. QED
    BY <2>1, StoreOK, SMTT(60)
<1>6. SetHeap(r.h) /\ UNCHANGED <<ptr, kinds, keysPtr, fnsPtr, evCount, fired>>
  BY DEF StoreElement, events
<1> HIDE DEF r
<1>7. Heap' = r.h
  BY <1>5, <1>6, HeapAfter DEF InPlace
<1>8. /\ IInv'
      /\ \A w \in Vars : Read(w)' = IF ptr[w] = ptr[v] THEN Contents(r.h, ptr[v], kinds[v])
                                    ELSE Read(w)
      /\ BoundNow' = BoundNow
  BY <1>1, <1>5, <1>6, <1>7, Changed
<1>9. QED
  BY <1>1, <1>2, <1>3, <1>4, <1>5, <1>6, <1>8 DEF Changes

(* Assigning copies the pointer, and what is read is what the other has.   *)
LEMMA CopyStep ==
  ASSUME IInv, NEW v \in Vars, NEW w \in Vars \ {v}, Copy(v, w)
  PROVE  /\ IInv'
         /\ kinds[w] # "none" /\ kinds' = [kinds EXCEPT ![v] = kinds[w]]
         /\ ptr[w] # Null /\ ptr' = [ptr EXCEPT ![v] = ptr[w]]
         /\ \A u \in Vars : Read(u)' = IF u = v THEN Read(w) ELSE Read(u)
         /\ BoundNow' = BoundNow /\ fired' = fired
<1>1. /\ Held(w) /\ ptr' = [ptr EXCEPT ![v] = ptr[w]] /\ kinds' = [kinds EXCEPT ![v] = kinds[w]]
      /\ UNCHANGED <<mem, cursor, limit, keysPtr, fnsPtr, evCount, fired>>
      /\ ptr \in [Vars -> Nat] /\ kinds \in [Vars -> {"none", "list", "dict"}]
  BY DEF Copy, Held, heapVars, events, IInv, Typed
<1>2. Heap' = Heap /\ kinds[w] # "none"
  BY <1>1 DEF Heap, IInv, Typed
<1> DEFINE from(u) == IF u = v THEN w ELSE u
<1>3. ASSUME NEW u \in Vars
      PROVE  /\ from(u) \in Vars /\ ptr'[u] = ptr[from(u)] /\ kinds'[u] = kinds[from(u)]
             /\ LastWord(u)' = LastWord(from(u)) /\ (Held(u)' <=> Held(from(u)))
  <2>1. ptr'[u] = ptr[from(u)] /\ kinds'[u] = kinds[from(u)]
    BY <1>1
  <2>2. LastWord(u)' = LastOf(Heap', ptr'[u], kinds'[u])
    BY DEF LastWord
  <2>3. QED
    BY <1>2, <2>1, <2>2 DEF LastWord, Held
<1> HIDE DEF from
<1>4. Typed'
  <2>1. HeapOK(Heap)' <=> HeapOK(Heap')
    BY DEF HeapOK
  <2>2. \A u \in Vars : kinds[from(u)] = "none" <=> ~Held(from(u))
    BY <1>3 DEF IInv, Typed
  <2>3. \A u \in Vars : (kinds'[u] = "none" <=> ~Held(u)')
    BY <1>3, <2>2
  <2>4. ptr' \in [Vars -> Nat] /\ kinds' \in [Vars -> {"none", "list", "dict"}]
    BY <1>1
  <2>5. QED
    BY <1>2, <2>1, <2>3, <2>4 DEF IInv, Typed
<1>5. TablesOK'
  BY <1>1 DEF IInv, TablesOK, TableEnd
<1>6. ASSUME NEW u \in Vars PROVE ObjectAt(u)' /\ Aside(u)'
  <2>1. ObjectAt(from(u)) /\ Aside(from(u))
    BY <1>3 DEF IInv
  <2>2. ObjectAt(u)'
    BY <1>2, <1>3, <2>1 DEF ObjectAt
  <2>3. Aside(u)'
    BY <1>1, <1>3, <2>1 DEF Aside, TableEnd
  <2>4. QED
    BY <2>2, <2>3
<1>7. ASSUME NEW u \in Vars, NEW y \in Vars PROVE Between(u, y)'
  <2>1. Between(from(u), from(y))
    BY <1>3 DEF IInv
  <2>2. QED
    BY <1>3, <2>1 DEF Between
<1>8. IInv'
  BY <1>4, <1>5, <1>6, <1>7 DEF IInv
<1>9. ASSUME NEW u \in Vars PROVE Read(u)' = IF u = v THEN Read(w) ELSE Read(u)
  <2>1. Read(u)' = Read(from(u))
    BY <1>2, <1>3, ReadIs, ReadAfter
  <2>2. QED
    BY <2>1 DEF from
<1>10. BoundNow' = BoundNow
  BY <1>1 DEF BoundNow
<1>11. QED
  BY <1>1, <1>2, <1>8, <1>9, <1>10 DEF Held

(* The tables are there once the first function is bound, and what was in  *)
(* use stays.                                                              *)
LEMMA TablesMade ==
  ASSUME IInv, EventSlots > 0
  PROVE  LET t == Tables
         IN /\ HeapOK(t.h) /\ cursor <= t.h.cursor
            /\ \A a \in 1..cursor - 1 : t.h.mem[a] = mem[a]
            /\ t.keys \in Nat \ {0} /\ t.fns \in Nat
            /\ TableEnd(t.keys) <= t.fns /\ TableEnd(t.fns) <= t.h.cursor
            /\ keysPtr # Null => t.keys = keysPtr /\ t.fns = fnsPtr /\ t.h = Heap
            /\ keysPtr = Null => cursor <= t.keys
<1>0. /\ HeapOK(Heap) /\ Heap.cursor = cursor /\ Heap.mem = mem /\ cursor \in Nat
      /\ EventSlots \in Nat \ {0}
  <2>1. HeapOK(Heap) /\ Heap.cursor = cursor /\ Heap.mem = mem
    BY DEF IInv, Typed, Heap
  <2>2. QED
    BY <2>1, Mapped, SeedsAssumption
<1>1. CASE keysPtr # Null
  <2>1. Tables = [keys |-> keysPtr, fns |-> fnsPtr, h |-> Heap]
    BY <1>1 DEF Tables
  <2>2. QED
    BY <1>0, <1>1, <2>1 DEF IInv, TablesOK, Null
<1>2. CASE keysPtr = Null
  <2> DEFINE one == Alloc(Heap, EventSlots)
             two == Alloc(one.h, EventSlots)
  <2>1. Tables = [keys |-> one.at, fns |-> two.at, h |-> two.h]
    BY <1>2 DEF Tables
  <2>2. /\ HeapOK(one.h) /\ one.at \in Nat \ {0} /\ cursor <= one.at
        /\ one.h.cursor = one.at + EventSlots
        /\ \A a \in 1..cursor - 1 : one.h.mem[a] = mem[a]
    BY <1>0, AllocOK
  <2> HIDE DEF one
  <2>3. /\ HeapOK(two.h) /\ two.at \in Nat \ {0} /\ one.h.cursor <= two.at
        /\ two.h.cursor = two.at + EventSlots
        /\ \A a \in 1..one.h.cursor - 1 : two.h.mem[a] = one.h.mem[a]
    BY <1>0, <2>2, AllocOK
  <2> HIDE DEF two
  <2>4. \A a \in 1..cursor - 1 : two.h.mem[a] = mem[a]
    BY <1>0, <2>2, <2>3
  <2>5. QED
    BY <1>0, <1>2, <2>1, <2>2, <2>3, <2>4 DEF TableEnd
<1>3. QED
  BY <1>1, <1>2

(* Binding writes one more entry into the tables, behind those in use.     *)
LEMMA BindStep ==
  ASSUME IInv, NEW k \in Keys, NEW f \in Functions, Bind(k, f)
  PROVE  /\ IInv'
         /\ UNCHANGED <<ptr, kinds, fired>>
         /\ \A v \in Vars : Read(v)' = Read(v)
         /\ BoundNow' = Append(BoundNow, <<k, f>>)
<1> DEFINE t == Tables
           new == [a \in {t.keys + evCount, t.fns + evCount} |->
                     IF a = t.keys + evCount THEN k ELSE f]
           g == Write(t.h, new)
<1>1. /\ evCount < EventSlots /\ SetHeap(g) /\ keysPtr' = t.keys /\ fnsPtr' = t.fns
      /\ evCount' = evCount + 1 /\ UNCHANGED <<ptr, kinds, fired>>
  BY DEF Bind
<1>2. /\ evCount \in Nat /\ EventSlots \in Nat /\ EventSlots > 0
      /\ k \in Nat /\ f \in Nat
  BY <1>1, SeedsAssumption, WordsTyped DEF IInv, TablesOK
<1>3. /\ HeapOK(t.h) /\ cursor <= t.h.cursor
      /\ \A a \in 1..cursor - 1 : t.h.mem[a] = mem[a]
      /\ t.keys \in Nat \ {0} /\ t.fns \in Nat
      /\ TableEnd(t.keys) <= t.fns /\ TableEnd(t.fns) <= t.h.cursor
      /\ keysPtr # Null => t.keys = keysPtr /\ t.fns = fnsPtr /\ t.h = Heap
      /\ keysPtr = Null => cursor <= t.keys
  BY <1>2, TablesMade
<1>4. /\ HeapOK(Heap) /\ Heap.cursor = cursor /\ Heap.mem = mem /\ cursor \in Nat
      /\ t.h.cursor \in Nat /\ ptr \in [Vars -> Nat]
      /\ kinds \in [Vars -> {"none", "list", "dict"}]
  <2>1. /\ HeapOK(Heap) /\ Heap.cursor = cursor /\ Heap.mem = mem /\ ptr \in [Vars -> Nat]
        /\ kinds \in [Vars -> {"none", "list", "dict"}]
    BY DEF IInv, Typed, Heap
  <2>2. QED
    BY <1>3, <2>1, Mapped
<1> HIDE DEF t
<1>5. /\ DOMAIN new = {t.keys + evCount, t.fns + evCount} /\ new[t.keys + evCount] = k
      /\ new[t.fns + evCount] = f /\ \A a \in DOMAIN new : new[a] \in Nat
  BY <1>1, <1>2, <1>3 DEF TableEnd
<1>6. /\ HeapOK(g) /\ g.cursor = t.h.cursor
      /\ \A a \in 1..Len(t.h.mem) : g.mem[a] = IF a \in DOMAIN new THEN new[a] ELSE t.h.mem[a]
  BY <1>3, <1>5, WriteOK
<1>7. \A a \in 1..t.h.cursor - 1 : g.mem[a] = IF a \in DOMAIN new THEN new[a] ELSE t.h.mem[a]
  <2>1. \A a \in 1..t.h.cursor - 1 : a \in 1..Len(t.h.mem)
    BY <1>3, <1>4, Mapped
  <2>2. QED
    BY <1>6, <2>1
<1> HIDE DEF new, g
<1>8. Heap' = g /\ mem' = g.mem /\ cursor' = g.cursor
  <2>1. Heap' = g
    BY <1>1, <1>6, HeapAfter
  <2>2. Heap'.mem = mem' /\ Heap'.cursor = cursor'
    BY DEF Heap
  <2>3. QED
    BY <2>1, <2>2
<1>9. ASSUME NEW v \in Vars, Held(v)
      PROVE  /\ LastWord(v) < t.keys \/ TableEnd(t.keys) <= ptr[v] - 1
             /\ LastWord(v) < t.fns \/ TableEnd(t.fns) <= ptr[v] - 1
             /\ \A a \in ptr[v] - 1..LastWord(v) : g.mem[a] = mem[a]
  <2>1. /\ ptr[v] \in Nat /\ 2 <= ptr[v] /\ LastWord(v) \in Nat /\ ptr[v] <= LastWord(v)
        /\ LastWord(v) < cursor
    BY <1>9, BlockKnown
  <2>2. /\ LastWord(v) < t.keys \/ TableEnd(t.keys) <= ptr[v] - 1
        /\ LastWord(v) < t.fns \/ TableEnd(t.fns) <= ptr[v] - 1
    <3>1. CASE keysPtr = Null
      <4>1. LastWord(v) < t.keys /\ LastWord(v) < t.fns
        BY <1>2, <1>3, <1>4, <2>1, <3>1 DEF TableEnd
      <4>2. QED
        BY <4>1
    <3>2. CASE keysPtr # Null
      <4>1. Aside(v)
        BY DEF IInv
      <4>2. QED
        BY <1>3, <1>9, <3>2, <4>1 DEF Aside
    <3>3. QED
      BY <3>1, <3>2
  <2>3. ASSUME NEW a \in ptr[v] - 1..LastWord(v) PROVE g.mem[a] = mem[a]
    <3>1. a \notin DOMAIN new /\ a \in 1..cursor - 1 /\ a \in 1..t.h.cursor - 1
      BY <1>1, <1>2, <1>3, <1>4, <1>5, <2>1, <2>2 DEF TableEnd
    <3>2. QED
      BY <1>3, <1>7, <3>1
  <2>4. QED
    BY <2>2, <2>3
<1>10. ASSUME NEW v \in Vars, Held(v)
       PROVE  /\ BlockOK(g, ptr[v], kinds[v]) /\ LastOf(g, ptr[v], kinds[v]) = LastWord(v)
              /\ Contents(g, ptr[v], kinds[v]) = Contents(Heap, ptr[v], kinds[v])
  <2>1. kinds[v] \in {"list", "dict"} /\ BlockOK(Heap, ptr[v], kinds[v])
    BY <1>10, BlockKnown
  <2>2. \A a \in ptr[v] - 1..LastOf(Heap, ptr[v], kinds[v]) : g.mem[a] = Heap.mem[a]
    BY <1>4, <1>9, <1>10 DEF LastWord
  <2>3. Heap.cursor <= g.cursor
    BY <1>3, <1>4, <1>6
  <2>4. QED
    BY <1>4, <1>6, <2>1, <2>2, <2>3, SameBlock DEF LastWord
<1>11. \A v \in Vars : LastWord(v)' = LastOf(g, ptr[v], kinds[v])
  BY <1>1, <1>8 DEF LastWord
<1>12. Typed'
  <2>1. HeapOK(Heap)' <=> HeapOK(Heap')
    BY DEF HeapOK
  <2>2. QED
    BY <1>1, <1>4, <1>6, <1>8, <2>1 DEF IInv, Typed, Held
<1>13. TablesOK'
  BY <1>1, <1>2, <1>3, <1>6, <1>8 DEF TablesOK, TableEnd, Null
<1>14. ASSUME NEW v \in Vars PROVE ObjectAt(v)' /\ Aside(v)'
  <2>1. ObjectAt(v)
    BY DEF IInv
  <2>2. ObjectAt(v)'
    BY <1>1, <1>8, <1>10, <2>1 DEF ObjectAt, Held
  <2>3. Aside(v)'
    BY <1>1, <1>9, <1>10, <1>11 DEF Aside, Held, TableEnd
  <2>4. QED
    BY <2>2, <2>3
<1>15. ASSUME NEW v \in Vars, NEW w \in Vars PROVE Between(v, w)'
  <2>1. Between(v, w)
    BY DEF IInv
  <2>2. QED
    BY <1>1, <1>10, <1>11, <2>1 DEF Between, Held
<1>16. IInv'
  BY <1>12, <1>13, <1>14, <1>15 DEF IInv
<1>17. ASSUME NEW v \in Vars PROVE Read(v)' = Read(v)
  <2>1. kinds[v] # "none" => Held(v)
    BY DEF IInv, Typed
  <2>2. QED
    BY <1>1, <1>8, <1>10, <2>1, ReadIs, ReadAfter
<1>18. BoundNow' = Append(BoundNow, <<k, f>>)
  <2> DEFINE was == BoundNow
  <2>1. /\ DOMAIN was = 1..evCount
        /\ \A i \in 1..evCount : was[i] = <<mem[keysPtr + i - 1], mem[fnsPtr + i - 1]>>
    BY DEF BoundNow
  <2>2. ASSUME NEW i \in 1..evCount
        PROVE  /\ g.mem[t.keys + i - 1] = mem[keysPtr + i - 1]
               /\ g.mem[t.fns + i - 1] = mem[fnsPtr + i - 1]
               /\ was[i] \in Nat \X Nat
    <3>1. keysPtr # Null /\ keysPtr = t.keys /\ fnsPtr = t.fns /\ TableEnd(t.fns) <= cursor
      BY <1>2, <1>3 DEF IInv, TablesOK
    <3>2. /\ t.keys + i - 1 \in 1..cursor - 1 /\ t.fns + i - 1 \in 1..cursor - 1
          /\ t.keys + i - 1 \in 1..t.h.cursor - 1 /\ t.fns + i - 1 \in 1..t.h.cursor - 1
          /\ t.keys + i - 1 \notin DOMAIN new /\ t.fns + i - 1 \notin DOMAIN new
      BY <1>1, <1>2, <1>3, <1>4, <1>5, <3>1 DEF TableEnd
    <3>3. mem[keysPtr + i - 1] \in Nat /\ mem[fnsPtr + i - 1] \in Nat
      BY <1>4, <3>1, <3>2, Mapped
    <3>4. g.mem[t.keys + i - 1] = t.h.mem[t.keys + i - 1]
          /\ g.mem[t.fns + i - 1] = t.h.mem[t.fns + i - 1]
      BY <1>7, <3>2
    <3>5. t.h.mem[t.keys + i - 1] = mem[t.keys + i - 1]
          /\ t.h.mem[t.fns + i - 1] = mem[t.fns + i - 1]
      BY <1>3, <3>2
    <3>6. was[i] = <<mem[keysPtr + i - 1], mem[fnsPtr + i - 1]>>
      BY <2>1
    <3>7. was[i] \in Nat \X Nat
      BY <3>3, <3>6
    <3>8. QED
      BY <3>1, <3>4, <3>5, <3>7
  <2>3. was \in Seq(Nat \X Nat) /\ Len(was) = evCount
    <3>1. was \in [1..evCount -> Nat \X Nat]
      BY <2>2 DEF BoundNow
    <3>2. QED
      BY <1>2, <3>1, FunctionIsSeq
  <2> HIDE DEF was
  <2>4. Append(was, <<k, f>>) =
          [i \in 1..evCount + 1 |-> IF i = evCount + 1 THEN <<k, f>> ELSE was[i]]
    <3>1. <<k, f>> \in Nat \X Nat
      BY <1>2
    <3>2. QED
      BY <2>3, <3>1, AppendIs
  <2>5. BoundNow' = [i \in 1..evCount + 1 |-> <<g.mem[t.keys + i - 1], g.mem[t.fns + i - 1]>>]
    BY <1>1, <1>8 DEF BoundNow
  <2>6. ASSUME NEW i \in 1..evCount + 1
        PROVE  <<g.mem[t.keys + i - 1], g.mem[t.fns + i - 1]>> =
                 IF i = evCount + 1 THEN <<k, f>> ELSE was[i]
    <3>1. CASE i = evCount + 1
      <4>1. /\ t.keys + i - 1 = t.keys + evCount /\ t.fns + i - 1 = t.fns + evCount
            /\ t.keys + evCount \in 1..t.h.cursor - 1 /\ t.fns + evCount \in 1..t.h.cursor - 1
        BY <1>1, <1>2, <1>3, <1>4, <3>1 DEF TableEnd
      <4>2. QED
        BY <1>5, <1>7, <3>1, <4>1
    <3>2. CASE i # evCount + 1
      <4>1. i \in 1..evCount
        BY <1>2, <3>2
      <4>2. QED
        BY <2>1, <2>2, <3>2, <4>1
    <3>3. QED
      BY <3>1, <3>2
  <2>7. BoundNow' = Append(was, <<k, f>>)
    BY <2>4, <2>5, <2>6
  <2>8. QED
    BY <2>7 DEF was
<1>19. QED
  BY <1>1, <1>16, <1>17, <1>18

(* An event runs the first function that was bound to its key.             *)
LEMMA TriggerStep ==
  ASSUME IInv, NEW k \in Keys, Trigger(k)
  PROVE  /\ IInv' /\ UNCHANGED <<ptr, kinds>>
         /\ \A v \in Vars : Read(v)' = Read(v)
         /\ BoundNow' = BoundNow
         /\ \E i \in 1..evCount : /\ BoundNow[i][1] = k
                                  /\ \A j \in 1..i-1 : BoundNow[j][1] # k
                                  /\ fired' = BoundNow[i][2]
<1>1. UNCHANGED <<mem, cursor, limit, ptr, kinds, keysPtr, fnsPtr, evCount>>
  BY DEF Trigger, heapVars
<1>2. IInv' /\ BoundNow' = BoundNow /\ \A v \in Vars : Read(v)' = Read(v)
  <2>1. Heap' = Heap
    BY <1>1 DEF Heap
  <2>2. IInv'
    BY <1>1, <2>1 DEF IInv, Typed, TablesOK, ObjectAt, Aside, Between, Held, LastWord,
       TableEnd, HeapOK
  <2>3. QED
    BY <1>1, <2>1, <2>2, ReadIs, ReadAfter DEF BoundNow
<1>3. evCount \in Nat /\ keysPtr \in Nat /\ fnsPtr \in Nat
  BY SeedsAssumption DEF IInv, TablesOK
<1> DEFINE S == Matching(k)
           m == Min(S)
<1>4. m \in S /\ \A y \in S : m <= y
  <2>1. S \subseteq Nat /\ S # {}
    BY DEF Trigger, Matching
  <2> HIDE DEF S
  <2>2. QED
    BY <2>1, FirstPair
<1>5. fired' = mem[fnsPtr + m]
  BY DEF Trigger
<1> HIDE DEF m
<1>6. m \in 0..evCount - 1 /\ mem[keysPtr + m] = k
  BY <1>4 DEF Matching
<1>7. \A j \in 0..m - 1 : mem[keysPtr + j] # k
  <2> SUFFICES ASSUME NEW j \in 0..m - 1, mem[keysPtr + j] = k PROVE FALSE
    OBVIOUS
  <2>1. j \in S
    BY <1>3, <1>6 DEF Matching
  <2>2. QED
    BY <1>3, <1>4, <1>6, <2>1
<1>8. m + 1 \in 1..evCount
  BY <1>3, <1>6
<1>9. \A i \in 1..evCount : BoundNow[i][1] = mem[keysPtr + (i - 1)]
                           /\ BoundNow[i][2] = mem[fnsPtr + (i - 1)]
  <2> SUFFICES ASSUME NEW i \in 1..evCount
               PROVE  BoundNow[i][1] = mem[keysPtr + (i - 1)]
                      /\ BoundNow[i][2] = mem[fnsPtr + (i - 1)]
    OBVIOUS
  <2>1. keysPtr + (i - 1) = keysPtr + i - 1 /\ fnsPtr + (i - 1) = fnsPtr + i - 1
    BY <1>3
  <2>2. QED
    BY <2>1 DEF BoundNow
<1>10. (m + 1) - 1 = m
  BY <1>6
<1>11. BoundNow[m + 1][1] = k /\ fired' = BoundNow[m + 1][2]
  BY <1>5, <1>6, <1>8, <1>9, <1>10
<1>12. \A j \in 1..(m + 1) - 1 : BoundNow[j][1] # k
  <2> SUFFICES ASSUME NEW j \in 1..(m + 1) - 1 PROVE BoundNow[j][1] # k
    OBVIOUS
  <2>1. j \in 1..evCount /\ j - 1 \in 0..m - 1
    BY <1>3, <1>6
  <2>2. QED
    BY <1>7, <1>9, <2>1
<1>13. QED
  BY <1>1, <1>2, <1>8, <1>11, <1>12

-----------------------------------------------------------------------------
(* What the steps do to the objects is what AcObjects promises.            *)

(* A variable whose block is its own changes together with no other.       *)
LEMMA OwnBlock ==
  ASSUME NEW v \in Vars, \A w \in Vars \ {v} : ptr'[w] = ptr[w] /\ ptr'[w] # ptr'[v]
  PROVE  [x \in Vars |-> Sharing(x)]' = Promised!Alone(v)
<1>1. ASSUME NEW x \in Vars
      PROVE  Sharing(x)' = IF x = v THEN {v} ELSE Sharing(x) \ {v}
  <2>1. Sharing(x)' = {w \in Vars : w = x \/ (ptr'[x] # Null /\ ptr'[w] = ptr'[x])}
    BY DEF Sharing
  <2>2. CASE x = v
    BY <2>1, <2>2
  <2>3. CASE x # v
    BY <2>1, <2>3 DEF Sharing
  <2>4. QED
    BY <2>2, <2>3
<1>2. QED
  BY <1>1 DEF Promised!Alone

(* An action that makes an object makes the promised one.                  *)
LEMMA CreatesIsCreate ==
  ASSUME NEW v \in Vars, NEW kind, NEW its, Creates(v, kind, its)
  PROVE  Promised!Create(v, kind, its)
<1>1. [x \in Vars |-> Read(x)]' = [[x \in Vars |-> Read(x)] EXCEPT ![v] = its]
  BY DEF Creates
<1>2. [x \in Vars |-> Sharing(x)]' = Promised!Alone(v)
  BY OwnBlock DEF Creates
<1>3. QED
  BY <1>1, <1>2 DEF Creates, Promised!Create

(* One that changes an object changes it for all who share it, or moves it *)
(* to a block of its own.                                                  *)
LEMMA ChangesIsChange ==
  ASSUME IInv, NEW v \in Vars, kinds[v] # "none", NEW its, Changes(v, its)
  PROVE  Promised!Change(v, its)
<1>1. Held(v)
  BY DEF IInv, Typed
<1>2. CASE /\ ptr' = ptr
           /\ \A w \in Vars : Read(w)' = IF ptr[w] = ptr[v] THEN its ELSE Read(w)
  <2>1. \A w \in Vars : w \in Sharing(v) <=> ptr[w] = ptr[v]
    BY <1>1 DEF Sharing, Held
  <2>2. [x \in Vars |-> Read(x)]' = [w \in Vars |-> IF w \in Sharing(v) THEN its ELSE Read(w)]
    BY <1>2, <2>1
  <2>3. [x \in Vars |-> Sharing(x)]' = [x \in Vars |-> Sharing(x)]
    BY <1>2 DEF Sharing
  <2>4. QED
    BY <2>2, <2>3 DEF Changes, Promised!Change
<1>3. CASE /\ \A w \in Vars : Read(w)' = IF w = v THEN its ELSE Read(w)
           /\ \A w \in Vars \ {v} : ptr'[w] = ptr[w] /\ ptr'[w] # ptr'[v]
  <2>1. [x \in Vars |-> Read(x)]' = [[x \in Vars |-> Read(x)] EXCEPT ![v] = its]
    BY <1>3
  <2>2. [x \in Vars |-> Sharing(x)]' = Promised!Alone(v)
    BY <1>3, OwnBlock
  <2>3. QED
    BY <2>1, <2>2 DEF Changes, Promised!Change
<1>4. QED
  BY <1>2, <1>3 DEF Changes

(* A variable that is assigned from another changes together with it.      *)
LEMMA CopyIsAssign ==
  ASSUME IInv, NEW v \in Vars, NEW w \in Vars \ {v}, Copy(v, w)
  PROVE  IInv' /\ Promised!Assign(v, w)
<1>1. /\ IInv'
      /\ kinds[w] # "none" /\ kinds' = [kinds EXCEPT ![v] = kinds[w]]
      /\ ptr[w] # Null /\ ptr' = [ptr EXCEPT ![v] = ptr[w]]
      /\ \A u \in Vars : Read(u)' = IF u = v THEN Read(w) ELSE Read(u)
      /\ BoundNow' = BoundNow /\ fired' = fired
  BY CopyStep
<1>2. ptr \in [Vars -> Nat]
  BY DEF IInv, Typed
<1>3. [x \in Vars |-> Read(x)]' =
        [[x \in Vars |-> Read(x)] EXCEPT ![v] = [x \in Vars |-> Read(x)][w]]
  BY <1>1
<1>4. \A u \in Vars : ptr'[u] = IF u = v THEN ptr[w] ELSE ptr[u]
  BY <1>1, <1>2
<1>5. ASSUME NEW x \in Vars
      PROVE  Sharing(x)' = IF x \in Sharing(w) \cup {v} THEN Sharing(w) \cup {v}
                           ELSE Sharing(x) \ {v}
  <2>1. Sharing(x)' = {u \in Vars : u = x \/ (ptr'[x] # Null /\ ptr'[u] = ptr'[x])}
    BY DEF Sharing
  <2>2. CASE x \in Sharing(w) \cup {v}
    BY <1>1, <1>4, <2>1, <2>2 DEF Sharing
  <2>3. CASE x \notin Sharing(w) \cup {v}
    BY <1>1, <1>4, <2>1, <2>3 DEF Sharing
  <2>4. QED
    BY <2>2, <2>3
<1>6. [x \in Vars |-> Sharing(x)]' =
        [x \in Vars |-> IF x \in [u \in Vars |-> Sharing(u)][w] \cup {v}
                        THEN [u \in Vars |-> Sharing(u)][w] \cup {v}
                        ELSE [u \in Vars |-> Sharing(u)][x] \ {v}]
  BY <1>5
<1>7. QED
  BY <1>1, <1>3, <1>6 DEF Promised!Assign

(* The event table only grows, at its end.                                 *)
LEMMA BindIsBind ==
  ASSUME IInv, NEW k \in Keys, NEW f \in Functions, Bind(k, f)
  PROVE  IInv' /\ Promised!BindEvent
<1>1. /\ IInv' /\ UNCHANGED <<ptr, kinds, fired>>
      /\ \A v \in Vars : Read(v)' = Read(v)
      /\ BoundNow' = Append(BoundNow, <<k, f>>)
  BY BindStep
<1>2. /\ [x \in Vars |-> Read(x)]' = [x \in Vars |-> Read(x)]
      /\ [x \in Vars |-> Sharing(x)]' = [x \in Vars |-> Sharing(x)]
  BY <1>1 DEF Sharing
<1>3. QED
  BY <1>1, <1>2 DEF Promised!BindEvent

(* An event runs the first function that was bound to it.                  *)
LEMMA TriggerIsFire ==
  ASSUME IInv, NEW k \in Keys, Trigger(k)
  PROVE  IInv' /\ Promised!Fire
<1>1. /\ IInv' /\ UNCHANGED <<ptr, kinds>>
      /\ \A v \in Vars : Read(v)' = Read(v)
      /\ BoundNow' = BoundNow
      /\ \E i \in 1..evCount : /\ BoundNow[i][1] = k
                               /\ \A j \in 1..i-1 : BoundNow[j][1] # k
                               /\ fired' = BoundNow[i][2]
  BY TriggerStep
<1>2. /\ [x \in Vars |-> Read(x)]' = [x \in Vars |-> Read(x)]
      /\ [x \in Vars |-> Sharing(x)]' = [x \in Vars |-> Sharing(x)]
  BY <1>1 DEF Sharing
<1>3. Len(BoundNow) = evCount
  <2>1. evCount \in Nat
    BY SeedsAssumption DEF IInv, TablesOK
  <2>2. DOMAIN BoundNow = 1..evCount
    BY DEF BoundNow
  <2>3. QED
    BY <2>1, <2>2
<1>4. QED
  BY <1>1, <1>2, <1>3 DEF Promised!Fire

-----------------------------------------------------------------------------
(* Every step keeps the invariant and is a step of AcObjects, if nothing   *)
(* is appended to a list of capacity 0.                                    *)
LEMMA StepImplements ==
  ASSUME IInv, RoomyNext
  PROVE  IInv' /\ Promised!ObjectsNext
<1>1. CASE \E v \in Vars, elems \in Literals : ListLiteral(v, elems)
  <2>1. PICK v \in Vars, elems \in Literals : ListLiteral(v, elems)
    BY <1>1
  <2>2. Creates(v, "list", Keyless(elems))
    BY <2>1, ListLiteralStep
  <2>3. Promised!Create(v, "list", Keyless(elems))
    BY <2>2, CreatesIsCreate
  <2>4. QED
    BY <2>2, <2>3 DEF Creates, Promised!ObjectsNext
<1>2. CASE \E v \in Vars, elems \in Ranges : RangeList(v, elems)
  <2>1. PICK v \in Vars, elems \in Ranges : RangeList(v, elems)
    BY <1>2
  <2>2. Creates(v, "list", Keyless(elems))
    BY <2>1, RangeListStep
  <2>3. Promised!Create(v, "list", Keyless(elems))
    BY <2>2, CreatesIsCreate
  <2>4. QED
    BY <2>2, <2>3 DEF Creates, Promised!ObjectsNext
<1>3. CASE \E v \in Vars, pairs \in DictPairs : DictLiteral(v, pairs)
  <2>1. PICK v \in Vars, pairs \in DictPairs : DictLiteral(v, pairs)
    BY <1>3
  <2>2. Creates(v, "dict", Promised!Filled(pairs))
    BY <2>1, DictLiteralStep
  <2>3. Promised!Create(v, "dict", Promised!Filled(pairs))
    BY <2>2, CreatesIsCreate
  <2>4. QED
    BY <2>2, <2>3 DEF Creates, Promised!ObjectsNext
<1>4. CASE \E v \in Vars : \E w \in Vars \ {v} : Copy(v, w)
  BY <1>4, CopyIsAssign DEF Promised!ObjectsNext
<1>5. CASE \E v \in Vars, x \in Values : Doubles(v) /\ AppendValue(v, x)
  <2>1. PICK v \in Vars, x \in Values : Doubles(v) /\ AppendValue(v, x)
    BY <1>5
  <2>2. kinds[v] = "list" /\ Changes(v, Append(Read(v), <<NoKey, x>>))
    BY <2>1, AppendStep
  <2>3. Promised!Change(v, Append(Read(v), <<NoKey, x>>))
    BY <2>2, ChangesIsChange
  <2>4. Promised!Add(v)
    BY <2>2, <2>3 DEF Promised!Add
  <2>5. QED
    BY <2>2, <2>4 DEF Changes, Promised!ObjectsNext
<1>6. CASE \E v \in Vars, x \in Values : \E i \in 1..MaxWords : StoreElement(v, i, x)
  <2>1. PICK v \in Vars, x \in Values, i \in 1..MaxWords : StoreElement(v, i, x)
    BY <1>6
  <2>2. i \in Nat \ {0}
    BY <2>1, SeedsAssumption
  <2>3. /\ kinds[v] = "list" /\ i \in 1..Len(Read(v))
        /\ Changes(v, [Read(v) EXCEPT ![i] = <<NoKey, x>>])
    BY <2>1, <2>2, StoreElementStep
  <2>4. Promised!Change(v, [Read(v) EXCEPT ![i] = <<NoKey, x>>])
    BY <2>3, ChangesIsChange
  <2>5. Promised!Set(v)
    BY <2>3, <2>4 DEF Promised!Set
  <2>6. QED
    BY <2>3, <2>5 DEF Changes, Promised!ObjectsNext
<1>7. CASE \E v \in Vars, x \in Values, k \in Keys : StoreKey(v, k, x)
  <2>1. PICK v \in Vars, x \in Values, k \in Keys : StoreKey(v, k, x)
    BY <1>7
  <2>2. kinds[v] = "dict" /\ Changes(v, Promised!Put(Read(v), k, x))
    BY <2>1, StoreKeyStep
  <2>3. Promised!Change(v, Promised!Put(Read(v), k, x))
    BY <2>2, ChangesIsChange
  <2>4. Promised!SetKey(v)
    BY <2>2, <2>3 DEF Promised!SetKey
  <2>5. QED
    BY <2>2, <2>4 DEF Changes, Promised!ObjectsNext
<1>8. CASE \E k \in Keys, f \in Functions : Bind(k, f)
  BY <1>8, BindIsBind DEF Promised!ObjectsNext
<1>9. CASE \E k \in Keys : Trigger(k)
  BY <1>9, TriggerIsFire DEF Promised!ObjectsNext
<1>10. QED
  BY <1>1, <1>2, <1>3, <1>4, <1>5, <1>6, <1>7, <1>8, <1>9 DEF RoomyNext

(* At first there is no memory, and no variable has a block.               *)
LEMMA InitImplements ==
  Init => IInv /\ Promised!ObjectsInit
<1> SUFFICES ASSUME Init PROVE IInv /\ Promised!ObjectsInit
  OBVIOUS
<1>1. Heap = [mem |-> <<>>, cursor |-> 0, limit |-> 0]
  BY DEF Init, Heap, Null
<1>2. HeapOK(Heap)
  BY <1>1 DEF HeapOK, Heaps, Null
<1>3. Typed /\ \A v \in Vars : ~Held(v)
  BY <1>2 DEF Init, Typed, Held, Null
<1>4. TablesOK
  BY SeedsAssumption DEF Init, TablesOK, Null
<1>5. IInv
  BY <1>3, <1>4 DEF IInv, ObjectAt, Aside, Between
<1>6. BoundNow = <<>>
  BY DEF Init, BoundNow
<1>7. \A v \in Vars : Read(v) = <<>> /\ Sharing(v) = {v}
  BY DEF Init, Read, Sharing, Null
<1>8. QED
  BY <1>5, <1>6, <1>7 DEF Promised!ObjectsInit, Init

(* A step that changes nothing keeps all of it.                            *)
LEMMA StutterImplements ==
  ASSUME IInv, UNCHANGED vars
  PROVE  IInv' /\ UNCHANGED Promised!objects
<1>1. UNCHANGED <<mem, cursor, limit, ptr, kinds, keysPtr, fnsPtr, evCount, fired>>
  BY DEF vars, heapVars, events
<1>2. Heap' = Heap
  BY <1>1 DEF Heap
<1>3. IInv'
  BY <1>1, <1>2 DEF IInv, Typed, TablesOK, ObjectAt, Aside, Between, Held, LastWord,
     TableEnd, HeapOK
<1>4. BoundNow' = BoundNow /\ \A v \in Vars : Read(v)' = Read(v) /\ Sharing(v)' = Sharing(v)
  BY <1>1, <1>2, ReadIs, ReadAfter DEF BoundNow, Sharing
<1>5. QED
  BY <1>1, <1>3, <1>4 DEF Promised!objects

(* However memory lies, IInv holds, as long as nothing is appended to a    *)
(* list of capacity 0.                                                     *)
LEMMA HeapInvariant ==
  RoomySpec => []IInv
<1>1. Init => IInv
  BY InitImplements
<1>2. IInv /\ [RoomyNext]_vars => IInv'
  BY StepImplements, StutterImplements
<1>3. QED
  BY <1>1, <1>2, PTL DEF RoomySpec

(* The room that a block says it has is its own: no list, dict or table of *)
(* events grows into another, whatever the sizes and however often lists   *)
(* and dicts outgrow their blocks (RoomIsOwn, for any constants), in the   *)
(* programs that append to no list of capacity 0, as an empty range makes. *)
THEOREM RoomOwned ==
  RoomySpec => []RoomIsOwn
<1>1. ASSUME IInv PROVE RoomIsOwn
  <2>1. ASSUME NEW v \in Vars, Held(v)
        PROVE  /\ BlockOf(v) = ptr[v] - 1..LastWord(v)
               /\ ptr[v] \in Nat /\ 2 <= ptr[v] /\ LastWord(v) \in Nat
               /\ LastWord(v) < cursor /\ cursor \in Nat
    <3>1. kinds[v] \in {"list", "dict"} /\ BlockOK(Heap, ptr[v], kinds[v])
          /\ ptr[v] \in Nat /\ 2 <= ptr[v] /\ LastWord(v) \in Nat
          /\ LastWord(v) < cursor /\ cursor \in Nat
      BY <1>1, <2>1, BlockKnown
    <3>2. Cap(Heap, ptr[v]) \in Nat
      BY <3>1 DEF BlockOK
    <3>3. ptr[v] + (IF kinds[v] = "list" THEN 1 ELSE 2) * Cap(Heap, ptr[v]) = LastWord(v)
      BY <3>1, <3>2 DEF LastWord, LastOf
    <3>4. QED
      BY <3>1, <3>3 DEF BlockOf
  <2>2. ASSUME NEW v \in Vars, Held(v) PROVE BlockOf(v) \subseteq DOMAIN mem
    <3>1. HeapOK(Heap) /\ Heap.mem = mem /\ Heap.cursor = cursor
      BY <1>1 DEF IInv, Typed, Heap
    <3>2. DOMAIN mem = 1..Len(mem) /\ \A a \in Int : 1 <= a /\ a < cursor => a \in 1..Len(mem)
      BY <3>1, Mapped
    <3>3. QED
      BY <2>1, <2>2, <3>2
  <2>3. ASSUME NEW v \in Vars, NEW w \in Vars, Held(v), Held(w), ptr[v] # ptr[w]
        PROVE  BlockOf(v) \cap BlockOf(w) = {}
    <3>1. LastWord(v) < ptr[w] - 1 \/ LastWord(w) < ptr[v] - 1
      BY <1>1, <2>3 DEF IInv, Between
    <3>2. QED
      BY <2>1, <2>3, <3>1
  <2>4. ASSUME NEW v \in Vars, Held(v)
        PROVE  BlockOf(v) \cap (TableOf(keysPtr) \cup TableOf(fnsPtr)) = {}
    <3>1. keysPtr \in Nat /\ fnsPtr \in Nat /\ EventSlots \in Nat
          /\ (keysPtr = Null <=> fnsPtr = Null)
      BY <1>1, SeedsAssumption DEF IInv, TablesOK
    <3>2. CASE keysPtr = Null
      BY <3>1, <3>2 DEF TableOf
    <3>3. CASE keysPtr # Null
      <4>1. /\ LastWord(v) < keysPtr \/ keysPtr + EventSlots <= ptr[v] - 1
            /\ LastWord(v) < fnsPtr \/ fnsPtr + EventSlots <= ptr[v] - 1
        BY <1>1, <2>4, <3>3 DEF IInv, Aside, TableEnd
      <4>2. TableOf(keysPtr) = keysPtr..keysPtr + EventSlots - 1
            /\ TableOf(fnsPtr) = fnsPtr..fnsPtr + EventSlots - 1
        BY <3>1, <3>3 DEF TableOf
      <4>3. BlockOf(v) \cap (keysPtr..keysPtr + EventSlots - 1) = {}
        BY <2>1, <2>4, <3>1, <4>1
      <4>4. BlockOf(v) \cap (fnsPtr..fnsPtr + EventSlots - 1) = {}
        BY <2>1, <2>4, <3>1, <4>1
      <4>5. QED
        BY <4>2, <4>3, <4>4
    <3>4. QED
      BY <3>2, <3>3
  <2>5. ASSUME NEW v \in Vars, Held(v) PROVE cursor \notin BlockOf(v)
    BY <2>1, <2>5
  <2>6. QED
    BY <2>2, <2>3, <2>4, <2>5 DEF RoomIsOwn, Held
<1>2. IInv => RoomIsOwn
  BY <1>1
<1>3. QED
  BY <1>2, HeapInvariant, PTL

(* No list or dict has more than its block has room for (NeverFull, for    *)
(* any constants), in the programs that append to no list of capacity 0.   *)
THEOREM RoomEnough ==
  RoomySpec => []NeverFull
<1>1. IInv => NeverFull
  BY BlockKnown DEF IInv, ObjectAt, BlockOK, NeverFull, Held
<1>2. QED
  BY <1>1, HeapInvariant, PTL

(* What a program reads from memory are lists, dicts and events that       *)
(* change as their operations say, whatever the sizes of blocks, seeds and *)
(* regions (ImplementsObjects), in the programs that append to no list of  *)
(* capacity 0.                                                             *)
THEOREM ObjectsAsPromised ==
  RoomySpec => ImplementsObjects
<1>1. Init => Promised!ObjectsInit
  BY InitImplements
<1>2. IInv /\ [RoomyNext]_vars => [Promised!ObjectsNext]_(Promised!objects)
  BY StepImplements, StutterImplements
<1>3. QED
  BY <1>1, <1>2, HeapInvariant, PTL DEF RoomySpec, ImplementsObjects, Promised!ObjectsSpec
=============================================================================
