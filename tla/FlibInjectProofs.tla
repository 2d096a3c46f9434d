--------------------------- MODULE FlibInjectProofs ---------------------------
(***************************************************************************)
(* The import recursion is sound for every set of files and every import   *)
(* graph: the chain of files being injected is the call stack, no file is  *)
(* entered twice at once, and so the recursion is at most one call deeper  *)
(* than there are files.  What a file declares is spliced in once: the     *)
(* calls in progress have collected nodes of different files, and none of  *)
(* a file that some call has yet to hand over.  What a definition mentions *)
(* of its own file is spliced in with it, and, where each file is imported *)
(* from one place, what it mentions of the files it imports: each call has *)
(* collected that of its finished imports.  Where no file imports itself,  *)
(* variables follow the imports: a file that is done has had all that it   *)
(* imports done before it.                                                 *)
(***************************************************************************)
EXTENDS DataImports, TLAPS, FiniteSetTheorems, SequenceTheorems, WellFoundedInduction

-----------------------------------------------------------------------------
(* Lists, of whatever.                                                     *)
IsList(s) == s \in Seq(Range(s))

(* A list is a function on its positions.                                  *)
LEMMA ListIs ==
  ASSUME NEW s, IsList(s)
  PROVE  /\ Len(s) \in Nat /\ DOMAIN s = 1..Len(s)
         /\ s = [i \in 1..Len(s) |-> s[i]]
         /\ Range(s) = {s[i] : i \in 1..Len(s)}
<1>1. Len(s) \in Nat /\ s \in [1..Len(s) -> Range(s)]
  BY LenProperties DEF IsList
<1>2. QED
  BY <1>1 DEF Range

(* A sequence is a list.                                                   *)
LEMMA SeqIsList ==
  ASSUME NEW S, NEW s \in Seq(S)
  PROVE  IsList(s)
<1>1. Len(s) \in Nat /\ DOMAIN s = 1..Len(s) /\ s \in [1..Len(s) -> S]
  BY LenProperties
<1>2. s \in [1..Len(s) -> Range(s)]
  BY <1>1 DEF Range
<1>3. QED
  BY <1>1, <1>2, IsASeq DEF IsList

(* So is a function on the positions up to a number.                       *)
LEMMA FunctionIsList ==
  ASSUME NEW n \in Nat, NEW s, s = [i \in 1..n |-> s[i]]
  PROVE  IsList(s) /\ Len(s) = n
<1>1. s \in [1..n -> Range(s)]
  BY DEF Range
<1>2. QED
  BY <1>1, IsASeq DEF IsList

(* One list behind another.                                                *)
LEMMA CatIs ==
  ASSUME NEW s, NEW t, IsList(s), IsList(t)
  PROVE  /\ IsList(s \o t) /\ Len(s \o t) = Len(s) + Len(t)
         /\ \A i \in 1..Len(s) + Len(t) :
              (s \o t)[i] = IF i <= Len(s) THEN s[i] ELSE t[i - Len(s)]
<1> DEFINE S == Range(s) \cup Range(t)
<1>1. s \in Seq(S) /\ t \in Seq(S)
  BY ListIs, IsASeq DEF IsList, Range
<1> HIDE DEF S
<1>2. s \o t \in Seq(S)
  BY <1>1
<1>3. QED
  BY <1>1, <1>2, SeqIsList, ConcatProperties

(* A stretch of a list.                                                    *)
LEMMA PieceIs ==
  ASSUME NEW s, IsList(s), NEW k \in 1..Len(s) + 1, NEW h \in 0..Len(s), k <= h + 1
  PROVE  /\ IsList(SubSeq(s, k, h)) /\ Len(SubSeq(s, k, h)) = h - k + 1
         /\ \A i \in 1..h - k + 1 : SubSeq(s, k, h)[i] = s[k + i - 1]
<1>1. Len(s) \in Nat /\ \A i \in k..h : s[i] \in Range(s)
  BY ListIs DEF Range
<1>2. /\ SubSeq(s, k, h) \in Seq(Range(s))
      /\ Len(SubSeq(s, k, h)) = IF k <= h THEN h - k + 1 ELSE 0
      /\ \A i \in 1..h - k + 1 : SubSeq(s, k, h)[i] = s[k + i - 1]
  BY <1>1, SubSeqProperties DEF IsList
<1>3. (IF k <= h THEN h - k + 1 ELSE 0) = h - k + 1
  BY <1>1
<1>4. QED
  BY <1>2, <1>3, SeqIsList

(* A list with another in the place of a stretch of it.                    *)
Replaced(s, h, t, k) == SubSeq(s, 1, h) \o t \o SubSeq(s, k, Len(s))

(* It has the one list before the stretch and behind it, the other within. *)
LEMMA ReplacedIs ==
  ASSUME NEW s, NEW t, IsList(s), IsList(t),
         NEW h \in 0..Len(s), NEW k \in 1..Len(s) + 1, h < k
  PROVE  LET u == Replaced(s, h, t, k)
         IN /\ IsList(u) /\ Len(u) = h + Len(t) + Len(s) - k + 1
            /\ \A i \in 1..Len(u) :
                 u[i] = IF i <= h THEN s[i]
                        ELSE IF i <= h + Len(t) THEN t[i - h]
                        ELSE s[i - h - Len(t) + k - 1]
<1> DEFINE a == SubSeq(s, 1, h)
           b == SubSeq(s, k, Len(s))
<1>1. Len(s) \in Nat /\ Len(t) \in Nat
  BY ListIs
<1>2. IsList(a) /\ Len(a) = h /\ \A i \in 1..h : a[i] = s[i]
  <2>1. IsList(a) /\ Len(a) = h - 1 + 1 /\ \A i \in 1..h - 1 + 1 : a[i] = s[1 + i - 1]
    BY <1>1, PieceIs
  <2> HIDE DEF a
  <2>2. QED
    BY <1>1, <2>1
<1>3. IsList(b) /\ Len(b) = Len(s) - k + 1 /\ \A i \in 1..Len(s) - k + 1 : b[i] = s[k + i - 1]
  BY <1>1, PieceIs
<1> HIDE DEF a, b
<1>4. /\ IsList(a \o t) /\ Len(a \o t) = h + Len(t)
      /\ \A i \in 1..h + Len(t) : (a \o t)[i] = IF i <= h THEN a[i] ELSE t[i - h]
  BY <1>2, CatIs
<1> DEFINE c == a \o t
<1>5. /\ IsList(c \o b) /\ Len(c \o b) = Len(c) + Len(b)
      /\ \A i \in 1..Len(c) + Len(b) :
           (c \o b)[i] = IF i <= Len(c) THEN c[i] ELSE b[i - Len(c)]
  BY <1>3, <1>4, CatIs
<1>6. Replaced(s, h, t, k) = c \o b
  BY DEF Replaced, a, b
<1> DEFINE u == c \o b
<1>7. IsList(u) /\ Len(u) = h + Len(t) + Len(s) - k + 1
  BY <1>1, <1>3, <1>4, <1>5
<1>8. ASSUME NEW i \in 1..Len(u)
      PROVE  u[i] = IF i <= h THEN s[i]
                    ELSE IF i <= h + Len(t) THEN t[i - h]
                    ELSE s[i - h - Len(t) + k - 1]
  <2>0. i \in 1..Len(c) + Len(b) /\ Len(c) = h + Len(t)
    BY <1>4, <1>5, <1>8
  <2>3. u[i] = IF i <= h + Len(t) THEN c[i] ELSE b[i - (h + Len(t))]
    BY <1>5, <2>0
  <2>1. CASE i <= h + Len(t)
    <3>1. i \in 1..h + Len(t)
      BY <1>1, <2>1
    <3>2. c[i] = IF i <= h THEN a[i] ELSE t[i - h]
      BY <1>4, <3>1
    <3>3. i <= h => i \in 1..h
      BY <1>1, <3>1
    <3>4. QED
      BY <1>1, <1>2, <2>1, <2>3, <3>2, <3>3
  <2>2. CASE ~ (i <= h + Len(t))
    <3>1. i - (h + Len(t)) \in 1..Len(s) - k + 1 /\ ~ (i <= h)
      BY <1>1, <1>3, <2>0, <2>2
    <3>2. k + (i - (h + Len(t))) - 1 = i - h - Len(t) + k - 1
      BY <1>1
    <3>3. u[i] = s[k + (i - (h + Len(t))) - 1]
      BY <1>3, <2>2, <2>3, <3>1
    <3>4. QED
      BY <2>2, <3>1, <3>2, <3>3
  <2> QED
    BY <2>1, <2>2
<1>9. QED
  BY <1>6, <1>7, <1>8

-----------------------------------------------------------------------------
(* Induction up to a number.                                               *)
LEMMA UpTo ==
  ASSUME NEW n \in Nat, NEW S, 0 \in S, \A k \in 0..n - 1 : k \in S => k + 1 \in S
  PROVE  0..n \subseteq S
<1> DEFINE T == (0..n) \ S
<1> SUFFICES ASSUME T # {} PROVE FALSE
  OBVIOUS
<1>0. T \subseteq Nat
  OBVIOUS
<1>1. IsWellFoundedOn(OpToRel(<, Nat), Nat)
  BY NatLessThanWellFounded
<1> HIDE DEF T
<1>2. PICK m \in T : \A y \in T : ~(<<y, m>> \in OpToRel(<, Nat))
  BY <1>0, <1>1, WFMin
<1>3. m \in 0..n /\ m \notin S /\ m # 0
  BY DEF T
<1>4. m - 1 \in Nat /\ <<m - 1, m>> \in OpToRel(<, Nat)
  BY <1>3 DEF OpToRel
<1>5. m - 1 \in 0..n - 1 /\ m - 1 + 1 = m
  BY <1>3
<1>7. m - 1 \in S
  <2>1. m - 1 \notin T
    BY <1>2, <1>4
  <2>2. QED
    BY <1>5, <2>1 DEF T
<1>6. QED
  BY <1>3, <1>5, <1>7

(* What b makes of a, n times.                                             *)
Built(d, V, n, a, b) ==
  /\ d \in [0..n -> V] /\ d[0] = a
  /\ \A i \in 1..n : d[i] = b[<<d[i - 1], i>>]
Builds(V, n, a, b) == n \in Nat /\ a \in V /\ \A z \in V, i \in 1..n : b[<<z, i>>] \in V

(* What is built up step by step is well defined.                          *)
LEMMA StepsDefined ==
  ASSUME NEW V, NEW n, NEW a, NEW b, Builds(V, n, a, b)
  PROVE  \E d : Built(d, V, n, a, b)
<1> DEFINE Is(d, m) == d \in [0..m -> V] /\ d[0] = a /\ \A i \in 1..m : d[i] = b[<<d[i - 1], i>>]
           S == {m \in 0..n : \E d : Is(d, m)}
<1> USE DEF Builds
<1>1. 0 \in S
  <2> DEFINE e == [i \in 0..0 |-> a]
  <2>1. e \in [0..0 -> V] /\ e[0] = a /\ \A i \in 1..0 : e[i] = b[<<e[i - 1], i>>]
    OBVIOUS
  <2> HIDE DEF e
  <2>2. QED
    BY <2>1
<1>2. ASSUME NEW m \in 0..n - 1, m \in S PROVE m + 1 \in S
  <2>1. PICK d : Is(d, m)
    BY <1>2
  <2> DEFINE e == [i \in 0..m + 1 |-> IF i <= m THEN d[i] ELSE b[<<d[m], m + 1>>]]
  <2>2. d \in [0..m -> V] /\ d[m] \in V /\ m + 1 \in 1..n
    BY <2>1
  <2>3. e \in [0..m + 1 -> V]
    BY <2>2
  <2>4. e[0] = a
    BY <2>1, <2>2
  <2>5. ASSUME NEW i \in 1..m + 1 PROVE e[i] = b[<<e[i - 1], i>>]
    <3>1. CASE i <= m
      <4>1. i \in 1..m /\ i - 1 \in 0..m + 1 /\ i - 1 <= m /\ i \in 0..m + 1
        BY <3>1
      <4>2. e[i] = d[i] /\ e[i - 1] = d[i - 1]
        BY <3>1, <4>1
      <4>3. QED
        BY <2>1, <4>1, <4>2
    <3>2. CASE i = m + 1
      <4>1. e[i] = b[<<d[m], m + 1>>] /\ e[i - 1] = d[m]
        BY <3>2
      <4>2. QED
        BY <3>2, <4>1
    <3>3. QED
      BY <3>1, <3>2
  <2> HIDE DEF e
  <2>6. Is(e, m + 1)
    BY <2>3, <2>4, <2>5
  <2>7. QED
    BY <2>2, <2>6
<1> HIDE DEF S
<1>3. 0..n \subseteq S
  BY <1>1, <1>2, UpTo
<1>4. n \in S
  BY <1>3
<1>5. QED
  BY <1>4 DEF S, Built

(* A list with one more element.                                           *)
LEMMA AppendIs ==
  ASSUME NEW s, IsList(s), NEW e
  PROVE  /\ IsList(Append(s, e)) /\ Len(Append(s, e)) = Len(s) + 1
         /\ \A i \in 1..Len(s) : Append(s, e)[i] = s[i]
         /\ Append(s, e)[Len(s) + 1] = e
<1> DEFINE S == Range(s) \cup {e}
<1>1. s \in Seq(S) /\ e \in S
  BY ListIs, IsASeq DEF IsList, Range
<1> HIDE DEF S
<1>2. Append(s, e) \in Seq(S)
  BY <1>1, AppendProperties
<1>3. IsList(Append(s, e))
  BY <1>2, SeqIsList
<1>4. QED
  BY <1>1, <1>3, AppendProperties

(* g says where the elements of a list, none twice, come from in another:  *)
(* all the elements up to n that `keep` holds for, in their order.         *)
Picks(g, kept, nodes, keep, n) ==
  /\ IsList(kept)
  /\ \A i \in 1..Len(kept) : g[i] \in 1..n /\ keep[g[i]] /\ kept[i] = nodes[g[i]]
  /\ \A i, j \in 1..Len(kept) : g[i] = g[j] => i = j
  /\ \A i, j \in 1..Len(kept) : i < j => g[i] < g[j]
  /\ \A j \in 1..n : keep[j] => \E i \in 1..Len(kept) : g[i] = j

(* Kept keeps what it is told to.                                          *)
LEMMA KeptIs ==
  ASSUME NEW nodes, IsList(nodes), NEW keep
  PROVE  \E g : Picks(g, Kept(nodes, keep), nodes, keep, Len(nodes))
<1> DEFINE n == Len(nodes)
           V == Seq(Range(nodes))
           b == [x \in V \X (1..n) |-> IF keep[x[2]] THEN Append(x[1], nodes[x[2]]) ELSE x[1]]
           k == CHOOSE f : f = [i \in 0..n |->
                  IF i = 0 THEN <<>>
                  ELSE IF keep[i] THEN Append(f[i - 1], nodes[i]) ELSE f[i - 1]]
<1>1. n \in Nat /\ \A i \in 1..n : nodes[i] \in Range(nodes)
  BY ListIs DEF Range
<1>2. Kept(nodes, keep) = k[n]
  BY DEF Kept
<1>3. <<>> \in V /\ \A z \in V, i \in 1..n : b[<<z, i>>] \in V
  <2>1. ASSUME NEW z \in V, NEW i \in 1..n PROVE b[<<z, i>>] \in V
    <3>1. Append(z, nodes[i]) \in V
      BY <1>1, AppendProperties
    <3>2. b[<<z, i>>] = IF keep[i] THEN Append(z, nodes[i]) ELSE z
      OBVIOUS
    <3> HIDE DEF b, V
    <3>3. QED
      BY <3>1, <3>2
  <2>2. <<>> \in V
    OBVIOUS
  <2> HIDE DEF b, V
  <2>3. QED
    BY <2>1, <2>2
<1>20. Builds(V, n, <<>>, b)
  BY <1>1, <1>3 DEF Builds
<1>4. PICK d : Built(d, V, n, <<>>, b)
  BY <1>20, StepsDefined
<1>5. \A i \in 1..n : d[i] = IF keep[i] THEN Append(d[i - 1], nodes[i]) ELSE d[i - 1]
  <2> SUFFICES ASSUME NEW i \in 1..n
               PROVE  d[i] = IF keep[i] THEN Append(d[i - 1], nodes[i]) ELSE d[i - 1]
    OBVIOUS
  <2>1. i - 1 \in 0..n /\ d[i - 1] \in V
    BY <1>1, <1>4 DEF Built
  <2>2. b[<<d[i - 1], i>>] = IF keep[i] THEN Append(d[i - 1], nodes[i]) ELSE d[i - 1]
    BY <2>1
  <2>3. QED
    BY <1>4, <2>2 DEF Built
<1> HIDE DEF V, b
<1>21. d[0] = <<>> /\ DOMAIN d = 0..n /\ d = [i \in 0..n |-> d[i]]
  BY <1>4 DEF Built
<1>22. \A i \in 0..n : i = 0 \/ i \in 1..n
  BY <1>1
<1>6. d = [i \in 0..n |-> IF i = 0 THEN <<>>
                          ELSE IF keep[i] THEN Append(d[i - 1], nodes[i]) ELSE d[i - 1]]
  <2> HIDE DEF n
  <2>1. QED
    BY <1>5, <1>21, <1>22
<1>7. k = [i \in 0..n |-> IF i = 0 THEN <<>>
                          ELSE IF keep[i] THEN Append(k[i - 1], nodes[i]) ELSE k[i - 1]]
  BY <1>6
<1> HIDE DEF k, n
<1>23. \A i \in 0..n : i # 0 => k[i] = IF keep[i] THEN Append(k[i - 1], nodes[i]) ELSE k[i - 1]
  BY <1>7
<1> DEFINE S == {m \in 0..n : \E g : Picks(g, k[m], nodes, keep, m)}
<1>8. 0 \in S
  <2>0. k[0] = <<>>
    BY <1>1, <1>7
  <2>1. IsList(<<>>) /\ Len(<<>>) = 0
    <3>1. <<>> \in Seq(Nat) /\ Len(<<>>) = 0
      OBVIOUS
    <3>2. QED
      BY <3>1, SeqIsList
  <2>2. Picks(<<>>, k[0], nodes, keep, 0)
    BY <2>0, <2>1 DEF Picks
  <2>3. QED
    BY <1>1, <2>2
<1>9. ASSUME NEW m \in 0..n - 1, m \in S PROVE m + 1 \in S
  <2>1. PICK g : Picks(g, k[m], nodes, keep, m)
    BY <1>9
  <2>2. k[m + 1] = IF keep[m + 1] THEN Append(k[m], nodes[m + 1]) ELSE k[m]
    <3>1. m + 1 \in 0..n /\ m + 1 # 0 /\ m + 1 - 1 = m
      BY <1>1
    <3>2. k[m + 1] = IF keep[m + 1] THEN Append(k[m + 1 - 1], nodes[m + 1]) ELSE k[m + 1 - 1]
      BY <1>23, <3>1
    <3>3. QED
      BY <3>1, <3>2
  <2> DEFINE l == Len(k[m])
             h == [i \in 1..l + 1 |-> IF i <= l THEN g[i] ELSE m + 1]
  <2>3. l \in Nat /\ IsList(k[m])
    BY <2>1, ListIs DEF Picks
  <2>4. CASE keep[m + 1]
    <3>1. /\ IsList(k[m + 1]) /\ Len(k[m + 1]) = l + 1
          /\ \A i \in 1..l : k[m + 1][i] = k[m][i]
          /\ k[m + 1][l + 1] = nodes[m + 1]
      BY <2>2, <2>3, <2>4, AppendIs
    <3> HIDE DEF l
    <3>2. h[l + 1] = m + 1 /\ \A i \in 1..l : h[i] = g[i]
      BY <2>3
    <3> HIDE DEF h
    <3>3. \A i \in 1..l + 1 : i \in 1..l \/ i = l + 1
      BY <2>3
    <3>4. \A i \in 1..l : /\ g[i] \in 1..m /\ keep[g[i]] /\ k[m][i] = nodes[g[i]]
      BY <2>1 DEF Picks, l
    <3>5. \A i \in 1..l + 1 : h[i] \in 1..m + 1 /\ keep[h[i]] /\ k[m + 1][i] = nodes[h[i]]
      BY <2>4, <3>1, <3>2, <3>3, <3>4
    <3>6. \A i, j \in 1..l + 1 : h[i] = h[j] => i = j
      <4>1. \A i, j \in 1..l : g[i] = g[j] => i = j
        BY <2>1 DEF Picks, l
      <4>2. \A i \in 1..l : g[i] # m + 1
        BY <3>4
      <4>3. QED
        BY <3>2, <3>3, <4>1, <4>2
    <3>7. ASSUME NEW j \in 1..m + 1, keep[j] PROVE \E i \in 1..l + 1 : h[i] = j
      <4>1. CASE j = m + 1
        BY <2>3, <3>2, <4>1
      <4>2. CASE j # m + 1
        <5>1. j \in 1..m
          BY <4>2
        <5>2. PICK i \in 1..l : g[i] = j
          BY <2>1, <3>7, <5>1 DEF Picks, l
        <5>3. i \in 1..l + 1
          BY <2>3
        <5>4. QED
          BY <3>2, <5>2, <5>3
      <4>3. QED
        BY <4>1, <4>2
    <3>10. \A i, j \in 1..l + 1 : i < j => h[i] < h[j]
      <4>1. \A i, j \in 1..l : i < j => g[i] < g[j]
        BY <2>1 DEF Picks, l
      <4>2. \A i \in 1..l : g[i] < m + 1
        BY <3>4
      <4>3. \A j \in 1..l + 1 : ~(l + 1 < j)
        BY <2>3
      <4>4. QED
        BY <3>2, <3>3, <4>1, <4>2, <4>3
    <3>8. Picks(h, k[m + 1], nodes, keep, m + 1)
      BY <3>1, <3>5, <3>6, <3>7, <3>10 DEF Picks
    <3>9. QED
      BY <1>1, <3>8
  <2>5. CASE ~ keep[m + 1]
    <3>1. \A j \in 1..m + 1 : keep[j] => j \in 1..m
      BY <2>5
    <3>2. Picks(g, k[m + 1], nodes, keep, m + 1)
      BY <2>1, <2>2, <2>5, <3>1 DEF Picks
    <3>3. QED
      BY <1>1, <3>2
  <2>6. QED
    BY <2>4, <2>5
<1> HIDE DEF S
<1>10. 0..n \subseteq S
  BY <1>1, <1>8, <1>9, UpTo
<1>11. n \in S
  BY <1>1, <1>10
<1>12. QED
  BY <1>2, <1>11 DEF S, n

(* Definitions and assignments from imported files.                        *)
Declares == {"func", "var", "datac"}
Own(n) == n.kind \in Declares /\ n.file # Root
Clash(m, n) == Own(m) /\ Own(n) /\ m.name = n.name
Once(s) == \A i, j \in 1..Len(s) : Clash(s[i], s[j]) => i = j

(* A number set has a least and, if it is bounded, a greatest element.     *)
LEMMA MinIs ==
  ASSUME NEW S, S \subseteq Nat, S # {}
  PROVE  Min(S) \in S /\ \A y \in S : Min(S) <= y
<1>1. IsWellFoundedOn(OpToRel(<, Nat), Nat)
  BY NatLessThanWellFounded
<1>2. PICK x \in S : \A y \in S : ~(<<y, x>> \in OpToRel(<, Nat))
  BY <1>1, WFMin
<1>3. \A y \in S : x <= y
  <2> SUFFICES ASSUME NEW y \in S PROVE x <= y
    OBVIOUS
  <2>1. x \in Nat /\ y \in Nat /\ ~(y < x)
    BY <1>2 DEF OpToRel
  <2>2. QED
    BY <2>1
<1>4. QED
  BY <1>3 DEF Min

(* The greatest element of a bounded set of numbers.                       *)
LEMMA MaxIs ==
  ASSUME NEW n \in Nat, NEW S, S \subseteq 1..n, S # {}
  PROVE  Max(S) \in S
<1> DEFINE T == {n - x : x \in S}
<1>1. T \subseteq Nat /\ T # {}
  OBVIOUS
<1> HIDE DEF T
<1>2. Min(T) \in T /\ \A y \in T : Min(T) <= y
  BY <1>1, MinIs
<1>3. PICK x \in S : Min(T) = n - x
  BY <1>2 DEF T
<1>4. \A y \in S : y <= x
  <2> SUFFICES ASSUME NEW y \in S PROVE y <= x
    OBVIOUS
  <2>1. n - y \in T
    BY DEF T
  <2>2. n - x <= n - y
    BY <1>2, <1>3, <2>1
  <2>3. QED
    BY <2>2
<1>5. QED
  BY <1>4 DEF Max

(* Where the definitions and variables go.                                 *)
LEMMA SplicedIs ==
  ASSUME NEW nodes, NEW w, IsList(nodes), IsList(w.toAppend), IsList(w.toVars)
  PROVE  LET all == Marked(nodes, w) \o w.toAppend
         IN /\ IsList(Marked(nodes, w)) /\ Len(Marked(nodes, w)) = Len(nodes) /\ IsList(all)
            /\ \E h \in 0..Len(all) : /\ Spliced(nodes, w) = Replaced(all, h, w.toVars, h + 1)
                                     /\ \A i \in 1..h : IsHeader(all[i])
<1> DEFINE all == Marked(nodes, w) \o w.toAppend
           I == {i \in 1..Len(all) : ~ IsHeader(all[i])}
           body == IF I # {} THEN Min(I) ELSE 0
           header == IF body = 0 THEN Len(all) ELSE body - 1
<1>1. IsList(Marked(nodes, w)) /\ Len(Marked(nodes, w)) = Len(nodes)
  <2>1. Len(nodes) \in Nat
    BY ListIs
  <2>2. Marked(nodes, w) = [i \in 1..Len(nodes) |-> Marked(nodes, w)[i]]
    BY DEF Marked
  <2>3. QED
    BY <2>1, <2>2, FunctionIsList
<1>2. IsList(all) /\ Len(all) \in Nat
  BY <1>1, CatIs, ListIs
<1>3. Spliced(nodes, w) = SubSeq(all, 1, header) \o w.toVars \o SubSeq(all, header + 1, Len(all))
  BY DEF Spliced, SelectInSeq
<1> HIDE DEF all
<1>4. I # {} => Min(I) \in I /\ \A y \in I : Min(I) <= y
  <2>1. I \subseteq Nat
    OBVIOUS
  <2> HIDE DEF I
  <2>2. QED
    BY <2>1, MinIs
<1>5. header \in 0..Len(all)
  BY <1>2, <1>4
<1>7. \A i \in 1..header : IsHeader(all[i])
  <2> SUFFICES ASSUME NEW i \in 1..header, i \in I PROVE FALSE
    BY <1>2, <1>5
  <2>1. I # {} /\ I \subseteq Nat \ {0}
    OBVIOUS
  <2> HIDE DEF I
  <2>2. Min(I) <= i /\ Min(I) \in Nat \ {0}
    BY <1>4, <2>1
  <2>3. header = Min(I) - 1
    BY <2>1, <2>2
  <2>4. QED
    BY <2>2, <2>3
<1> HIDE DEF header
<1>6. QED
  BY <1>1, <1>2, <1>3, <1>5, <1>7 DEF Replaced, all

(* Replacing a stretch clashes only if the new clashes with what stays.    *)
LEMMA OnceReplaced ==
  ASSUME NEW s, NEW t, IsList(s), IsList(t), Once(s), Once(t),
         NEW h \in 0..Len(s), NEW k \in 1..Len(s) + 1, h < k,
         \A i \in (1..h) \cup (k..Len(s)), j \in 1..Len(t) : ~ Clash(s[i], t[j])
  PROVE  Once(Replaced(s, h, t, k))
<1> DEFINE u == Replaced(s, h, t, k)
<1>1. /\ IsList(u) /\ Len(u) = h + Len(t) + Len(s) - k + 1
      /\ \A i \in 1..Len(u) :
           u[i] = IF i <= h THEN s[i]
                  ELSE IF i <= h + Len(t) THEN t[i - h]
                  ELSE s[i - h - Len(t) + k - 1]
  BY ReplacedIs
<1> HIDE DEF u
<1>2. Len(s) \in Nat /\ Len(t) \in Nat
  BY ListIs
<1> DEFINE left(i) == i <= h
           new(i) == h < i /\ i <= h + Len(t)
           from(i) == IF i <= h THEN i ELSE i - h - Len(t) + k - 1
<1>3. ASSUME NEW i \in 1..Len(u)
      PROVE  \/ new(i) /\ i - h \in 1..Len(t) /\ u[i] = t[i - h]
             \/ ~ new(i) /\ from(i) \in (1..h) \cup (k..Len(s)) /\ u[i] = s[from(i)]
  BY <1>1, <1>2
<1>4. \A i, j \in 1..Len(u) : ~ new(i) /\ ~ new(j) /\ from(i) = from(j) => i = j
  BY <1>1, <1>2
<1>5. \A i, j \in 1..Len(u) : i - h = j - h => i = j
  BY <1>1, <1>2
<1>6. (1..h) \cup (k..Len(s)) \subseteq 1..Len(s)
  BY <1>2
<1> HIDE DEF new, from
<1>7. ASSUME NEW i \in 1..Len(u), NEW j \in 1..Len(u), Clash(u[i], u[j]) PROVE i = j
  <2>0. \A m, n : Clash(m, n) => Clash(n, m)
    BY DEF Clash
  <2>1. CASE new(i) /\ new(j)
    BY <1>3, <1>5, <1>7, <2>1 DEF Once
  <2>2. CASE ~ new(i) /\ ~ new(j)
    BY <1>3, <1>4, <1>6, <1>7, <2>2 DEF Once
  <2>3. CASE new(i) /\ ~ new(j)
    BY <1>3, <1>7, <2>0, <2>3
  <2>4. CASE ~ new(i) /\ new(j)
    BY <1>3, <1>7, <2>4
  <2>5. QED
    BY <2>1, <2>2, <2>3, <2>4
<1>8. QED
  BY <1>7 DEF Once, u

(* What file f of p defines, by kind.                                      *)
NamesIn(p, f, kind) == {n.name : n \in {m \in Range(p[f].nodes) : m.kind = kind}}

(* A node that comes from a file of p: a declaration has a name declared   *)
(* there, a definition is the file's own node.                             *)
FromFile(p, n) ==
  /\ {"kind", "file"} \subseteq DOMAIN n
  /\ n.kind \in Declares =>
       "name" \in DOMAIN n /\ n.file \in Files /\ n.name \in NamesIn(p, n.file, n.kind)
  /\ n.kind \in {"func", "stmt"} => n.file \in Files /\ n \in Range(p[n.file].nodes)
AllFrom(p, s) == IsList(s) /\ \A n \in Range(s) : FromFile(p, n)

(* Imported files declare no name twice, and none that a row gets.         *)
NamesApart ==
  \A p \in Programs : \A f, g \in Files \ {Root} :
    \A i \in 1..Len(p[f].nodes), j \in 1..Len(p[g].nodes) :
      LET m == p[f].nodes[i]
          n == p[g].nodes[j]
      IN m.kind \in Declares /\ n.kind \in Declares =>
           /\ m.name = n.name => f = g /\ i = j
           /\ m.kind = "datac" => \A r : n.name # <<m.name, r>>

(* What a call has collected for file f: definitions and imports in one    *)
(* list, variables in the other, nothing twice.                            *)
Forwards == {"use", "inlined", "lib", "datac", "func"}
IsCall(w) == w = [inlined |-> w.inlined, toAppend |-> w.toAppend, toVars |-> w.toVars]
CallOK(p, f, w) ==
  /\ IsCall(w)
  /\ w.inlined \subseteq {i \in 1..Len(p[f].nodes) : p[f].nodes[i].kind = "use"}
  /\ AllFrom(p, w.toAppend) /\ Once(w.toAppend)
  /\ \A n \in Range(w.toAppend) : n.kind \in Forwards
  /\ AllFrom(p, w.toVars) /\ Once(w.toVars)
  /\ \A n \in Range(w.toVars) : n.kind = "var"
OwnFiles(s) == {n.file : n \in {m \in Range(s) : Own(m)}}
FilesOf(w) == OwnFiles(w.toAppend) \cup OwnFiles(w.toVars)

(* The nodes of a file are a list of its nodes.                            *)
LEMMA NodesAre ==
  ASSUME NEW p \in Programs, NEW f \in Files
  PROVE  /\ IsList(p[f].nodes) /\ Len(p[f].nodes) \in Nat
         /\ \A i \in 1..Len(p[f].nodes) : p[f].nodes[i] \in Range(p[f].nodes)
         /\ \A n \in Range(p[f].nodes) : n.file = f /\ FromFile(p, n)
<1>1. IsList(p[f].nodes)
  BY ProgramsAssumption DEF IsList
<1>2. \A n \in Range(p[f].nodes) :
        /\ {"kind", "file"} \subseteq DOMAIN n /\ n.file = f
        /\ n.kind \in Declares => "name" \in DOMAIN n
  BY ProgramsAssumption DEF Declares
<1>3. QED
  BY <1>1, <1>2, ListIs DEF FromFile, NamesIn

(* The nodes of a file declare nothing of another's twice.                 *)
LEMMA NodesOnce ==
  ASSUME NamesApart, NEW p \in Programs, NEW f \in Files
  PROVE  Once(p[f].nodes)
<1>1. \A i \in 1..Len(p[f].nodes) : p[f].nodes[i].file = f
  BY NodesAre
<1>2. CASE f = Root
  BY <1>1, <1>2 DEF Once, Clash, Own
<1>3. CASE f # Root
  BY <1>3 DEF Once, Clash, Own, NamesApart
<1>4. QED
  BY <1>2, <1>3

(* What clashes comes from the same file and is of the same kind.          *)
LEMMA ClashIs ==
  ASSUME NamesApart, NEW p \in Programs, NEW m, NEW n, FromFile(p, m), FromFile(p, n), Clash(m, n)
  PROVE  m.file = n.file /\ m.kind = n.kind
<1>1. /\ m.file \in Files \ {Root} /\ n.file \in Files \ {Root}
      /\ m.kind \in Declares /\ n.kind \in Declares
      /\ m.name \in NamesIn(p, m.file, m.kind) /\ n.name \in NamesIn(p, n.file, n.kind)
      /\ m.name = n.name
  BY DEF Clash, Own, FromFile
<1>2. PICK a \in Range(p[m.file].nodes) : a.kind = m.kind /\ a.name = m.name
  BY <1>1 DEF NamesIn
<1>3. PICK b \in Range(p[n.file].nodes) : b.kind = n.kind /\ b.name = n.name
  BY <1>1 DEF NamesIn
<1>0. \A f \in Files : Range(p[f].nodes) = {p[f].nodes[i] : i \in 1..Len(p[f].nodes)}
  BY NodesAre, ListIs
<1>4. PICK i \in 1..Len(p[m.file].nodes) : a = p[m.file].nodes[i]
  <2>1. m.file \in Files
    BY <1>1
  <2>2. a \in {p[m.file].nodes[i] : i \in 1..Len(p[m.file].nodes)}
    BY <1>0, <2>1
  <2>3. QED
    BY <2>2
<1>5. PICK j \in 1..Len(p[n.file].nodes) : b = p[n.file].nodes[j]
  <2>1. n.file \in Files
    BY <1>1
  <2>2. b \in {p[n.file].nodes[j] : j \in 1..Len(p[n.file].nodes)}
    BY <1>0, <2>1
  <2>3. QED
    BY <2>2
<1>6. m.file = n.file /\ i = j
  BY <1>1, <1>2, <1>3, <1>4, <1>5 DEF NamesApart
<1>7. QED
  BY <1>2, <1>3, <1>4, <1>5, <1>6

(* One list behind another declares nothing twice if they share no file.   *)
LEMMA OnceCat ==
  ASSUME NEW s, NEW t, IsList(s), IsList(t), Once(s), Once(t),
         \A m \in Range(s), n \in Range(t) : ~ Clash(m, n)
  PROVE  /\ IsList(s \o t) /\ Once(s \o t)
         /\ Range(s \o t) = Range(s) \cup Range(t)
<1>0. Len(s) \in Nat /\ Len(t) \in Nat
  BY ListIs
<1>1. /\ IsList(s \o t) /\ Len(s \o t) = Len(s) + Len(t)
      /\ \A i \in 1..Len(s) + Len(t) :
           (s \o t)[i] = IF i <= Len(s) THEN s[i] ELSE t[i - Len(s)]
  BY CatIs
<1> DEFINE u == s \o t
<1> HIDE DEF u
<1>2. \A i \in 1..Len(u) : \/ i \in 1..Len(s) /\ u[i] = s[i]
                           \/ i > Len(s) /\ i - Len(s) \in 1..Len(t) /\ u[i] = t[i - Len(s)]
  BY <1>0, <1>1 DEF u
<1>3. /\ \A i \in 1..Len(s) : i \in 1..Len(u) /\ u[i] = s[i]
      /\ \A j \in 1..Len(t) : Len(s) + j \in 1..Len(u) /\ u[Len(s) + j] = t[j]
  BY <1>0, <1>1 DEF u
<1>4. Range(s) = {s[i] : i \in 1..Len(s)} /\ Range(t) = {t[i] : i \in 1..Len(t)}
  BY ListIs
<1>5. Range(u) = {u[i] : i \in 1..Len(u)}
  BY <1>1, ListIs DEF u
<1>6. Range(u) = Range(s) \cup Range(t)
  BY <1>2, <1>3, <1>4, <1>5
<1>7. ASSUME NEW i \in 1..Len(u), NEW j \in 1..Len(u), Clash(u[i], u[j]) PROVE i = j
  <2>0. \A m, n : Clash(m, n) => Clash(n, m)
    BY DEF Clash
  <2>1. CASE i \in 1..Len(s) /\ j \in 1..Len(s)
    BY <1>0, <1>2, <1>7, <2>1 DEF Once
  <2>2. CASE i > Len(s) /\ j > Len(s)
    <3>4. i - Len(s) \in 1..Len(t) /\ j - Len(s) \in 1..Len(t)
      BY <1>0, <1>2, <2>2
    <3>5. Clash(t[i - Len(s)], t[j - Len(s)])
      BY <1>0, <1>2, <1>7, <2>2
    <3>1. i - Len(s) = j - Len(s)
      BY <3>4, <3>5 DEF Once
    <3>2. i \in Int /\ j \in Int
      OBVIOUS
    <3>3. QED
      BY <1>0, <3>1, <3>2
  <2>3. CASE i \in 1..Len(s) /\ j > Len(s)
    BY <1>0, <1>2, <1>4, <1>7, <2>3
  <2>4. CASE i > Len(s) /\ j \in 1..Len(s)
    BY <1>0, <1>2, <1>4, <1>7, <2>0, <2>4
  <2>5. QED
    BY <1>2, <2>1, <2>2, <2>3, <2>4
<1>8. QED
  BY <1>1, <1>6, <1>7 DEF Once, u

(* The marked nodes of a file.                                             *)
LEMMA MarkedOK ==
  ASSUME NamesApart, NEW p \in Programs, NEW f \in Files, NEW w, CallOK(p, f, w)
  PROVE  LET s == Marked(p[f].nodes, w)
         IN /\ IsList(s) /\ Len(s) = Len(p[f].nodes) /\ AllFrom(p, s) /\ Once(s)
            /\ \A n \in Range(s) : n.kind \in Declares \cup {"stmt"} => n \in Range(p[f].nodes)
            /\ \A n \in Range(p[f].nodes) : n.kind # "use" => n \in Range(s)
<1> DEFINE nodes == p[f].nodes
           s == Marked(nodes, w)
<1>1. /\ IsList(nodes) /\ Len(nodes) \in Nat
      /\ \A i \in 1..Len(nodes) : nodes[i] \in Range(nodes)
      /\ \A n \in Range(nodes) : n.file = f /\ FromFile(p, n)
      /\ Range(nodes) = {nodes[i] : i \in 1..Len(nodes)}
  BY NodesAre, ListIs
<1>2. Once(nodes)
  BY NodesOnce
<1> HIDE DEF nodes
<1>3. s = [i \in 1..Len(nodes) |->
             IF i \in w.inlined THEN [nodes[i] EXCEPT !.kind = "inlined"] ELSE nodes[i]]
  BY DEF Marked
<1>4. IsList(s) /\ Len(s) = Len(nodes)
  <2> HIDE DEF s
  <2>1. s = [i \in 1..Len(nodes) |-> s[i]]
    BY <1>3
  <2>2. QED
    BY <1>1, <2>1, FunctionIsList
<1>5. \A i \in w.inlined : i \in 1..Len(nodes) /\ nodes[i].kind = "use"
  BY DEF CallOK, nodes
<1>6. \A i \in 1..Len(nodes) :
        \/ i \in w.inlined /\ s[i].kind = "inlined" /\ FromFile(p, s[i])
        \/ i \notin w.inlined /\ s[i] = nodes[i]
  <2> SUFFICES ASSUME NEW i \in 1..Len(nodes), i \in w.inlined
               PROVE  s[i].kind = "inlined" /\ FromFile(p, s[i])
    BY <1>3
  <2>1. s[i] = [nodes[i] EXCEPT !.kind = "inlined"]
    BY <1>3
  <2>2. {"kind", "file"} \subseteq DOMAIN nodes[i]
    BY <1>1 DEF FromFile
  <2>3. s[i].kind = "inlined" /\ DOMAIN s[i] = DOMAIN nodes[i]
    BY <2>1, <2>2
  <2>4. QED
    BY <2>2, <2>3 DEF FromFile, Declares
<1> HIDE DEF s
<1>7. Range(s) = {s[i] : i \in 1..Len(nodes)}
  BY <1>4, ListIs
<1>8. AllFrom(p, s)
  BY <1>1, <1>4, <1>6, <1>7 DEF AllFrom
<1>9. Once(s)
  BY <1>2, <1>4, <1>6 DEF Once, Clash, Own, Declares
<1>10. \A n \in Range(s) : n.kind \in Declares \cup {"stmt"} => n \in Range(nodes)
  BY <1>1, <1>6, <1>7 DEF Declares
<1>11. \A n \in Range(nodes) : n.kind # "use" => n \in Range(s)
  BY <1>1, <1>5, <1>6, <1>7
<1>12. QED
  BY <1>4, <1>8, <1>9, <1>10, <1>11 DEF s, nodes

(* What is kept of a list is nothing else, and nothing twice.              *)
LEMMA KeptOK ==
  ASSUME NEW nodes, IsList(nodes), NEW keep
  PROVE  LET s == Kept(nodes, keep)
         IN /\ IsList(s)
            /\ Range(s) = {nodes[i] : i \in {j \in 1..Len(nodes) : keep[j]}}
            /\ Once(nodes) => Once(s)
<1> DEFINE s == Kept(nodes, keep)
<1>1. PICK g : Picks(g, s, nodes, keep, Len(nodes))
  BY KeptIs
<1> HIDE DEF s
<1>2. IsList(s) /\ Range(s) = {s[i] : i \in 1..Len(s)}
  BY <1>1, ListIs DEF Picks
<1>3. Range(s) = {nodes[i] : i \in {j \in 1..Len(nodes) : keep[j]}}
  <2>1. \A i \in 1..Len(s) : g[i] \in 1..Len(nodes) /\ keep[g[i]] /\ s[i] = nodes[g[i]]
    BY <1>1 DEF Picks
  <2>2. \A j \in 1..Len(nodes) : keep[j] => \E i \in 1..Len(s) : s[i] = nodes[j]
    BY <1>1 DEF Picks
  <2>3. QED
    BY <1>2, <2>1, <2>2
<1>4. Once(nodes) => Once(s)
  <2> SUFFICES ASSUME Once(nodes), NEW i \in 1..Len(s), NEW j \in 1..Len(s), Clash(s[i], s[j])
               PROVE  i = j
    BY DEF Once
  <2>1. /\ g[i] \in 1..Len(nodes) /\ s[i] = nodes[g[i]]
        /\ g[j] \in 1..Len(nodes) /\ s[j] = nodes[g[j]]
        /\ g[i] = g[j] => i = j
    BY <1>1 DEF Picks
  <2>2. g[i] = g[j]
    BY <2>1 DEF Once
  <2>3. QED
    BY <2>1, <2>2
<1>5. QED
  BY <1>2, <1>3, <1>4 DEF s

(* A file shows all of its definitions, or only what it exports.           *)
ShowsAll(nodes, original) == IsLibFile(nodes) \/ Exporters(original) = {}

(* What an importer receives of the definitions.                           *)
LEMMA ForwardedOK ==
  ASSUME NEW nodes, IsList(nodes), NEW original
  PROVE  LET s == Forwarded(nodes, original)
             S == IF ShowsAll(nodes, original) THEN DefNames(nodes)
                  ELSE Needed(nodes, ExportedNames(original))
         IN /\ IsList(s) /\ (Once(nodes) => Once(s))
            /\ Range(s) = {n \in Range(nodes) : IsLibraryUse(n) \/ (n.kind = "func" /\ n.name \in S)}
            /\ \A n \in Range(s) : n.kind \in Forwards
<1> DEFINE s == Forwarded(nodes, original)
           S == IF ShowsAll(nodes, original) THEN DefNames(nodes)
                ELSE Needed(nodes, ExportedNames(original))
           keep == [i \in 1..Len(nodes) |->
                      \/ IsLibraryUse(nodes[i])
                      \/ nodes[i].kind = "func" /\ nodes[i].name \in S]
<1>1. s = Kept(nodes, keep)
  BY DEF Forwarded, Shown, ShowsAll
<1> HIDE DEF S
<1>2. /\ IsList(Kept(nodes, keep)) /\ (Once(nodes) => Once(Kept(nodes, keep)))
      /\ Range(Kept(nodes, keep)) = {nodes[i] : i \in {j \in 1..Len(nodes) : keep[j]}}
  <2> HIDE DEF keep
  <2>1. QED
    BY KeptOK
<1>3. \A i \in 1..Len(nodes) :
        keep[i] <=> IsLibraryUse(nodes[i]) \/ (nodes[i].kind = "func" /\ nodes[i].name \in S)
  <2> SUFFICES ASSUME NEW i \in 1..Len(nodes)
               PROVE  keep[i] <=> IsLibraryUse(nodes[i]) \/ (nodes[i].kind = "func" /\ nodes[i].name \in S)
    BY Zenon
  <2>1. keep[i] = (IsLibraryUse(nodes[i]) \/ (nodes[i].kind = "func" /\ nodes[i].name \in S))
    OBVIOUS
  <2> HIDE DEF keep
  <2>2. QED
    BY <2>1, Zenon
<1> HIDE DEF keep, s
<1>4. Range(nodes) = {nodes[i] : i \in 1..Len(nodes)}
  BY ListIs
<1>5. Range(s) = {n \in Range(nodes) : IsLibraryUse(n) \/ (n.kind = "func" /\ n.name \in S)}
  BY <1>1, <1>2, <1>3, <1>4
<1>6. \A n \in Range(s) : n.kind \in Forwards
  BY <1>5 DEF IsLibraryUse, Forwards
<1>7. QED
  BY <1>1, <1>2, <1>5, <1>6 DEF s, S

(* And of the variables.                                                   *)
LEMMA ForwardedVarsOK ==
  ASSUME NEW p \in Programs, NEW nodes, AllFrom(p, nodes), Once(nodes)
  PROVE  LET s == ForwardedVars(nodes)
         IN /\ AllFrom(p, s) /\ Once(s)
            /\ \A n \in Range(s) : n.kind = "var"
            /\ OwnFiles(s) \subseteq OwnFiles(nodes)
<1> DEFINE keep == [i \in 1..Len(nodes) |->
                      nodes[i].kind = "var" /\ (IsLibFile(nodes) \/ nodes[i].exported)]
           taken == Kept(nodes, keep)
           s == ForwardedVars(nodes)
<1>1. s = [i \in 1..Len(taken) |-> [taken[i] EXCEPT !.exported = TRUE]]
  BY DEF ForwardedVars
<1>2. \A i \in 1..Len(nodes) : keep[i] => nodes[i].kind = "var"
  OBVIOUS
<1>3. IsList(nodes) /\ Range(nodes) = {nodes[i] : i \in 1..Len(nodes)}
  BY ListIs DEF AllFrom
<1> HIDE DEF keep
<1>4. /\ IsList(taken) /\ Once(taken)
      /\ Range(taken) = {nodes[i] : i \in {j \in 1..Len(nodes) : keep[j]}}
  BY <1>3, KeptOK
<1> HIDE DEF taken, s
<1>5. Len(taken) \in Nat /\ Range(taken) = {taken[i] : i \in 1..Len(taken)}
  BY <1>4, ListIs
<1>6. IsList(s) /\ Len(s) = Len(taken)
  <2>1. s = [i \in 1..Len(taken) |-> s[i]]
    BY <1>1
  <2>2. QED
    BY <1>5, <2>1, FunctionIsList
<1>7. Range(s) = {s[i] : i \in 1..Len(taken)}
  BY <1>6, ListIs
<1>8. \A i \in 1..Len(taken) : taken[i] \in Range(nodes) /\ taken[i].kind = "var" /\ FromFile(p, taken[i])
  BY <1>2, <1>3, <1>4, <1>5 DEF AllFrom
<1>9. \A i \in 1..Len(taken) : /\ s[i].kind = "var" /\ s[i].file = taken[i].file
                               /\ s[i].name = taken[i].name /\ FromFile(p, s[i])
  <2> SUFFICES ASSUME NEW i \in 1..Len(taken)
               PROVE  /\ s[i].kind = "var" /\ s[i].file = taken[i].file
                      /\ s[i].name = taken[i].name /\ FromFile(p, s[i])
    OBVIOUS
  <2>1. s[i] = [taken[i] EXCEPT !.exported = TRUE]
    BY <1>1
  <2>2. {"kind", "file", "name"} \subseteq DOMAIN taken[i] /\ taken[i].kind = "var"
    BY <1>8 DEF FromFile, Declares
  <2>3. /\ s[i].kind = "var" /\ s[i].file = taken[i].file /\ s[i].name = taken[i].name
        /\ DOMAIN s[i] = DOMAIN taken[i]
    BY <2>1, <2>2
  <2>4. QED
    BY <1>8, <2>2, <2>3 DEF FromFile, Declares
<1>10. Once(s)
  BY <1>4, <1>6, <1>8, <1>9 DEF Once, Clash, Own
<1>11. OwnFiles(s) \subseteq OwnFiles(nodes)
  BY <1>7, <1>8, <1>9 DEF OwnFiles, Own
<1>12. QED
  BY <1>6, <1>7, <1>9, <1>10, <1>11 DEF AllFrom, s

(* The tree of a file whose imports are done.                              *)
LEMMA SplicedOK ==
  ASSUME NamesApart, NEW p \in Programs, NEW f \in Files, NEW w, CallOK(p, f, w),
         f \notin FilesOf(w)
  PROVE  LET s == Spliced(p[f].nodes, w)
         IN /\ AllFrom(p, s) /\ Once(s)
            /\ OwnFiles(s) \subseteq FilesOf(w) \cup {f}
            /\ Range(s) = Range(Marked(p[f].nodes, w)) \cup Range(w.toAppend) \cup Range(w.toVars)
<1> DEFINE m == Marked(p[f].nodes, w)
           a == w.toAppend
           v == w.toVars
           s == Spliced(p[f].nodes, w)
           all == m \o a
<1>1. /\ IsList(a) /\ IsList(v) /\ Once(a) /\ Once(v)
      /\ \A n \in Range(a) \cup Range(v) : FromFile(p, n)
      /\ \A n \in Range(a) : n.kind # "var"
      /\ \A n \in Range(v) : n.kind = "var"
  BY DEF CallOK, AllFrom, Forwards
<1>2. /\ IsList(m) /\ Once(m)
      /\ \A n \in Range(m) : FromFile(p, n)
      /\ \A n \in Range(m) : n.kind \in Declares => n \in Range(p[f].nodes)
  BY MarkedOK DEF AllFrom
<1>3. \A n \in Range(m) : n.kind \in Declares => n.file = f
  BY <1>2, NodesAre
<1>4. PICK h \in 0..Len(all) : s = Replaced(all, h, v, h + 1)
  <2>1. IsList(p[f].nodes)
    BY NodesAre
  <2>2. QED
    BY <1>1, <2>1, SplicedIs
<1> HIDE DEF m, a, v, s
<1>5. \A x \in Range(a) \cup Range(v) : Own(x) => x.file \in FilesOf(w)
  BY DEF FilesOf, OwnFiles, a, v
<1>6. \A x \in Range(m), y \in Range(a) \cup Range(v) : ~ Clash(x, y)
  <2> SUFFICES ASSUME NEW x \in Range(m), NEW y \in Range(a) \cup Range(v), Clash(x, y)
               PROVE  FALSE
    OBVIOUS
  <2>1. FromFile(p, x) /\ FromFile(p, y)
    BY <1>1, <1>2
  <2>2. x.file = y.file
    BY <2>1, ClashIs
  <2>3. QED
    BY <1>3, <1>5, <2>2 DEF Clash, Own
<1>7. \A x \in Range(a), y \in Range(v) : ~ Clash(x, y)
  BY <1>1, ClashIs
<1>8. IsList(all) /\ Once(all) /\ Range(all) = Range(m) \cup Range(a)
  BY <1>1, <1>2, <1>6, OnceCat
<1> HIDE DEF all
<1>9. Len(all) \in Nat /\ Range(all) = {all[i] : i \in 1..Len(all)}
  BY <1>8, ListIs
<1>10. Len(v) \in Nat /\ Range(v) = {v[i] : i \in 1..Len(v)}
  BY <1>1, ListIs
<1>11. Once(s)
  <2>1. \A i \in (1..h) \cup (h + 1..Len(all)), j \in 1..Len(v) : ~ Clash(all[i], v[j])
    <3>1. (1..h) \cup (h + 1..Len(all)) \subseteq 1..Len(all)
      BY <1>9
    <3>2. \A i \in 1..Len(all) : all[i] \in Range(m) \cup Range(a)
      BY <1>8, <1>9
    <3>3. \A j \in 1..Len(v) : v[j] \in Range(v)
      BY <1>10
    <3>4. \A x \in Range(m) \cup Range(a), y \in Range(v) : ~ Clash(x, y)
      BY <1>6, <1>7
    <3>5. QED
      BY <3>1, <3>2, <3>3, <3>4
  <2>2. h + 1 \in 1..Len(all) + 1 /\ h < h + 1
    BY <1>9
  <2>3. QED
    BY <1>1, <1>4, <1>8, <2>1, <2>2, OnceReplaced
<1>12. /\ IsList(s) /\ Len(s) = Len(all) + Len(v)
       /\ \A i \in 1..Len(s) :
            s[i] = IF i <= h THEN all[i] ELSE IF i <= h + Len(v) THEN v[i - h]
                   ELSE all[i - Len(v)]
  <2> DEFINE k == h + 1
  <2>1. k \in 1..Len(all) + 1 /\ h < k /\ s = Replaced(all, h, v, k)
    BY <1>4, <1>9
  <2>5. k = h + 1
    OBVIOUS
  <2> HIDE DEF k
  <2>2. /\ IsList(s) /\ Len(s) = h + Len(v) + Len(all) - k + 1
        /\ \A i \in 1..Len(s) :
             s[i] = IF i <= h THEN all[i] ELSE IF i <= h + Len(v) THEN v[i - h]
                    ELSE all[i - h - Len(v) + k - 1]
    <3>1. LET u == Replaced(all, h, v, k)
          IN /\ IsList(u) /\ Len(u) = h + Len(v) + Len(all) - k + 1
             /\ \A i \in 1..Len(u) :
                  u[i] = IF i <= h THEN all[i] ELSE IF i <= h + Len(v) THEN v[i - h]
                         ELSE all[i - h - Len(v) + k - 1]
      <4>1. h \in 0..Len(all) /\ k \in 1..Len(all) + 1 /\ h < k /\ IsList(all) /\ IsList(v)
        BY <1>1, <1>8, <2>1
      <4>2. QED
        BY <4>1, ReplacedIs
    <3>2. QED
      BY <2>1, <3>1
  <2>3. h + Len(v) + Len(all) - k + 1 = Len(all) + Len(v)
    BY <1>9, <1>10, <2>5
  <2>4. \A i \in 1..Len(s) : i - h - Len(v) + k - 1 = i - Len(v)
    BY <1>9, <1>10, <2>5
  <2>6. QED
    BY <2>2, <2>3, <2>4
<1>13. Range(s) = Range(all) \cup Range(v)
  <2>1. Range(s) = {s[i] : i \in 1..Len(s)}
    BY <1>12, ListIs
  <2>2. \A i \in 1..Len(s) : s[i] \in Range(all) \cup Range(v)
    <3> SUFFICES ASSUME NEW i \in 1..Len(s) PROVE s[i] \in Range(all) \cup Range(v)
      OBVIOUS
    <3>1. CASE i <= h
      BY <1>9, <1>12, <3>1
    <3>2. CASE h < i /\ i <= h + Len(v)
      <4>1. i - h \in 1..Len(v) /\ ~ (i <= h)
        BY <1>9, <1>10, <3>2
      <4>2. QED
        BY <1>10, <1>12, <3>2, <4>1
    <3>3. CASE h + Len(v) < i
      <4>1. i - Len(v) \in 1..Len(all) /\ ~ (i <= h) /\ ~ (i <= h + Len(v))
        BY <1>9, <1>10, <1>12, <3>3
      <4>2. QED
        BY <1>9, <1>12, <4>1
    <3>4. QED
      BY <1>9, <1>10, <3>1, <3>2, <3>3
  <2>3. \A j \in 1..Len(v) : \E i \in 1..Len(s) : s[i] = v[j]
    <3> SUFFICES ASSUME NEW j \in 1..Len(v) PROVE \E i \in 1..Len(s) : s[i] = v[j]
      OBVIOUS
    <3>1. /\ j + h \in 1..Len(s) /\ ~ (j + h <= h) /\ j + h <= h + Len(v)
          /\ j + h - h = j
      BY <1>9, <1>10, <1>12
    <3>2. s[j + h] = v[j]
      BY <1>12, <3>1
    <3>3. QED
      BY <3>1, <3>2
  <2>4. \A j \in 1..Len(all) : \E i \in 1..Len(s) : s[i] = all[j]
    <3> SUFFICES ASSUME NEW j \in 1..Len(all) PROVE \E i \in 1..Len(s) : s[i] = all[j]
      OBVIOUS
    <3>1. CASE j <= h
      <4>1. j \in 1..Len(s)
        BY <1>9, <1>10, <1>12
      <4>2. QED
        BY <1>12, <3>1, <4>1
    <3>2. CASE ~ (j <= h)
      <4>1. /\ j + Len(v) \in 1..Len(s) /\ ~ (j + Len(v) <= h) /\ ~ (j + Len(v) <= h + Len(v))
            /\ j + Len(v) - Len(v) = j
        BY <1>9, <1>10, <1>12, <3>2
      <4>2. s[j + Len(v)] = all[j]
        BY <1>12, <4>1
      <4>3. QED
        BY <4>1, <4>2
    <3>3. QED
      BY <3>1, <3>2
  <2>5. QED
    BY <1>9, <1>10, <2>1, <2>2, <2>3, <2>4
<1>14. AllFrom(p, s)
  BY <1>1, <1>2, <1>8, <1>12, <1>13 DEF AllFrom
<1>15. OwnFiles(s) \subseteq FilesOf(w) \cup {f}
  BY <1>3, <1>5, <1>8, <1>13 DEF OwnFiles, Own
<1>16. Range(s) = Range(m) \cup Range(a) \cup Range(v)
  BY <1>8, <1>13
<1>17. QED
  BY <1>11, <1>14, <1>15, <1>16 DEF s, m, a, v

(* The importer w of the file g, whose call was v, has what it had and     *)
(* what the file forwards.                                                 *)
Received(p, f, w, g, v, r) ==
  /\ CallOK(p, f, r) /\ FilesOf(r) \subseteq FilesOf(w) \cup FilesOf(v) \cup {g}
  /\ Range(r.toAppend) = Range(w.toAppend) \cup Range(Forwarded(Spliced(p[g].nodes, v), p[g].nodes))

(* So it has when the call it made returns.                                *)
LEMMA ReceiveOK ==
  ASSUME NamesApart, NEW p \in Programs, NEW f \in Files, NEW g \in Files, NEW w, NEW v, NEW i,
         CallOK(p, f, w), CallOK(p, g, v), g \notin FilesOf(v),
         FilesOf(w) \cap (FilesOf(v) \cup {g}) = {},
         i \in 1..Len(p[f].nodes), p[f].nodes[i].kind = "use"
  PROVE  Received(p, f, w, g, v, Receive(w, i, Spliced(p[g].nodes, v), p[g].nodes))
<1> DEFINE nodes == Spliced(p[g].nodes, v)
           F == Forwarded(nodes, p[g].nodes)
           V == ForwardedVars(nodes)
           r == Receive(w, i, nodes, p[g].nodes)
<1>1. AllFrom(p, nodes) /\ Once(nodes) /\ OwnFiles(nodes) \subseteq FilesOf(v) \cup {g}
  BY SplicedOK
<1>2. r = [inlined |-> w.inlined \cup {i}, toAppend |-> w.toAppend \o F, toVars |-> w.toVars \o V]
  BY DEF Receive
<1> HIDE DEF nodes, r
<1>3. /\ IsList(F) /\ Once(F) /\ Range(F) \subseteq Range(nodes)
      /\ \A n \in Range(F) : n.kind \in Forwards
  <2>1. IsList(nodes)
    BY <1>1 DEF AllFrom
  <2>2. QED
    BY <1>1, <2>1, ForwardedOK
<1>4. /\ AllFrom(p, V) /\ Once(V) /\ OwnFiles(V) \subseteq OwnFiles(nodes)
      /\ \A n \in Range(V) : n.kind = "var"
  BY <1>1, ForwardedVarsOK
<1> HIDE DEF F, V
<1>5. AllFrom(p, F) /\ OwnFiles(F) \subseteq OwnFiles(nodes)
  BY <1>1, <1>3 DEF AllFrom, OwnFiles
<1>6. /\ AllFrom(p, w.toAppend) /\ Once(w.toAppend) /\ AllFrom(p, w.toVars) /\ Once(w.toVars)
      /\ \A n \in Range(w.toAppend) : n.kind \in Forwards
      /\ \A n \in Range(w.toVars) : n.kind = "var"
      /\ OwnFiles(w.toAppend) \cup OwnFiles(w.toVars) = FilesOf(w)
  BY DEF CallOK, FilesOf
<1>7. ASSUME NEW s, NEW t, AllFrom(p, s), AllFrom(p, t), Once(s), Once(t),
             OwnFiles(s) \cap OwnFiles(t) = {}
      PROVE  /\ AllFrom(p, s \o t) /\ Once(s \o t)
             /\ Range(s \o t) = Range(s) \cup Range(t)
             /\ OwnFiles(s \o t) = OwnFiles(s) \cup OwnFiles(t)
  <2>1. \A m \in Range(s), n \in Range(t) : ~ Clash(m, n)
    <3> SUFFICES ASSUME NEW m \in Range(s), NEW n \in Range(t), Clash(m, n) PROVE FALSE
      OBVIOUS
    <3>1. m.file = n.file
      BY <1>7, ClashIs DEF AllFrom
    <3>2. m.file \in OwnFiles(s) /\ n.file \in OwnFiles(t)
      BY DEF OwnFiles, Clash
    <3>3. QED
      BY <1>7, <3>1, <3>2
  <2>2. IsList(s) /\ IsList(t)
    BY <1>7 DEF AllFrom
  <2>3. /\ IsList(s \o t) /\ Once(s \o t) /\ Range(s \o t) = Range(s) \cup Range(t)
    BY <1>7, <2>1, <2>2, OnceCat
  <2>4. QED
    BY <1>7, <2>3 DEF AllFrom, OwnFiles
<1>8. OwnFiles(w.toAppend) \cap OwnFiles(F) = {} /\ OwnFiles(w.toVars) \cap OwnFiles(V) = {}
  BY <1>1, <1>4, <1>5, <1>6
<1>9. /\ AllFrom(p, w.toAppend \o F) /\ Once(w.toAppend \o F)
      /\ Range(w.toAppend \o F) = Range(w.toAppend) \cup Range(F)
      /\ OwnFiles(w.toAppend \o F) = OwnFiles(w.toAppend) \cup OwnFiles(F)
  BY <1>3, <1>5, <1>6, <1>7, <1>8
<1>10. /\ AllFrom(p, w.toVars \o V) /\ Once(w.toVars \o V)
       /\ Range(w.toVars \o V) = Range(w.toVars) \cup Range(V)
       /\ OwnFiles(w.toVars \o V) = OwnFiles(w.toVars) \cup OwnFiles(V)
  BY <1>4, <1>6, <1>7, <1>8
<1>11. /\ r.inlined = w.inlined \cup {i} /\ r.toAppend = w.toAppend \o F
       /\ r.toVars = w.toVars \o V
  BY <1>2
<1>12. CallOK(p, f, r)
  <2>1. r.inlined \subseteq {j \in 1..Len(p[f].nodes) : p[f].nodes[j].kind = "use"}
    BY <1>11 DEF CallOK
  <2>2. \A n \in Range(r.toAppend) : n.kind \in Forwards
    BY <1>3, <1>6, <1>9, <1>11
  <2>3. \A n \in Range(r.toVars) : n.kind = "var"
    BY <1>4, <1>6, <1>10, <1>11
  <2>4. IsCall(r)
    BY <1>2 DEF IsCall
  <2>5. QED
    BY <1>9, <1>10, <1>11, <2>1, <2>2, <2>3, <2>4 DEF CallOK
<1>13. FilesOf(r) \subseteq FilesOf(w) \cup FilesOf(v) \cup {g}
  BY <1>1, <1>4, <1>5, <1>6, <1>9, <1>10, <1>11 DEF FilesOf
<1>15. Range(r.toAppend) = Range(w.toAppend) \cup Range(F)
  BY <1>9, <1>11
<1>14. QED
  BY <1>12, <1>13, <1>15 DEF Received, r, nodes, F

(* Sets that grow by what their elements lead to, n times.                 *)
Grows(d, n, seeds, T, M) ==
  /\ n \in Nat /\ IsFiniteSet(T) /\ Cardinality(T) <= n
  /\ d[0] = seeds /\ \A m \in seeds \cup T : M[m] \subseteq T
  /\ \A i \in 1..n : d[i] = UNION {{m} \cup M[m] : m \in d[i - 1]}

(* After as many steps as there are elements to find, all are found.       *)
LEMMA GrownIsClosed ==
  ASSUME NEW d, NEW n, NEW seeds, NEW T, NEW M, Grows(d, n, seeds, T, M)
  PROVE  /\ seeds \subseteq d[n] /\ d[n] \subseteq seeds \cup T
         /\ \A m \in d[n] : M[m] \subseteq d[n]
<1> DEFINE Closed(k) == \A m \in d[k] : M[m] \subseteq d[k]
           new(k) == d[k] \ seeds
           S == {k \in 0..n : /\ seeds \subseteq d[k] /\ d[k] \subseteq seeds \cup T
                              /\ Closed(k) \/ Cardinality(new(k)) >= k}
<1>1. n \in Nat /\ IsFiniteSet(T) /\ Cardinality(T) <= n /\ Cardinality(T) \in Nat
  BY FS_CardinalityType DEF Grows
<1>2. d[0] = seeds /\ \A m \in seeds \cup T : M[m] \subseteq T
  BY DEF Grows
<1>3. \A k \in 0..n - 1 : d[k + 1] = UNION {{m} \cup M[m] : m \in d[k]}
  <2> SUFFICES ASSUME NEW k \in 0..n - 1 PROVE d[k + 1] = UNION {{m} \cup M[m] : m \in d[k]}
    OBVIOUS
  <2>1. k + 1 \in 1..n /\ k + 1 - 1 = k
    BY <1>1
  <2>2. QED
    BY <2>1 DEF Grows
<1>4. \A k \in 0..n : d[k] \subseteq seeds \cup T => IsFiniteSet(new(k)) /\ Cardinality(new(k)) \in Nat
  <2> SUFFICES ASSUME NEW k \in 0..n, d[k] \subseteq seeds \cup T
               PROVE  IsFiniteSet(new(k)) /\ Cardinality(new(k)) \in Nat
    OBVIOUS
  <2>1. new(k) \subseteq T
    OBVIOUS
  <2>2. IsFiniteSet(new(k))
    BY <1>1, <2>1, FS_Subset
  <2>3. QED
    BY <2>2, FS_CardinalityType
<1>5. 0 \in S
  <2>1. IsFiniteSet(new(0)) /\ Cardinality(new(0)) \in Nat
    BY <1>1, <1>2, <1>4
  <2>2. Cardinality(new(0)) >= 0
    BY <2>1
  <2>3. 0 \in 0..n /\ seeds \subseteq d[0] /\ d[0] \subseteq seeds \cup T
    BY <1>1, <1>2
  <2> HIDE DEF new, Closed
  <2>4. QED
    BY <2>2, <2>3
<1>6. ASSUME NEW k \in 0..n - 1, k \in S PROVE k + 1 \in S
  <2>1. d[k + 1] = UNION {{m} \cup M[m] : m \in d[k]}
    BY <1>3
  <2>2. seeds \subseteq d[k] /\ d[k] \subseteq seeds \cup T /\ k \in 0..n /\ k + 1 \in 0..n
    BY <1>1, <1>6
  <2>3. d[k] \subseteq d[k + 1] /\ seeds \subseteq d[k + 1] /\ d[k + 1] \subseteq seeds \cup T
    BY <1>2, <2>1, <2>2
  <2>4. CASE Closed(k)
    <3>1. d[k + 1] = d[k]
      BY <2>1, <2>4
    <3>2. Closed(k + 1)
      BY <2>4, <3>1
    <3>3. QED
      BY <2>2, <2>3, <3>2
  <2>5. CASE ~ Closed(k)
    <3>1. Cardinality(new(k)) >= k
      BY <1>6, <2>5
    <3>2. PICK m \in d[k] : ~ (M[m] \subseteq d[k])
      BY <2>5
    <3>3. M[m] \subseteq d[k + 1]
      BY <2>1
    <3>4. new(k) \subseteq new(k + 1) /\ new(k) # new(k + 1)
      BY <2>2, <2>3, <3>2, <3>3
    <3>5. /\ IsFiniteSet(new(k)) /\ Cardinality(new(k)) \in Nat
          /\ IsFiniteSet(new(k + 1)) /\ Cardinality(new(k + 1)) \in Nat
      BY <1>4, <2>2, <2>3
    <3> HIDE DEF new
    <3>6. Cardinality(new(k)) < Cardinality(new(k + 1))
      <4>1. Cardinality(new(k)) <= Cardinality(new(k + 1))
        BY <3>4, <3>5, FS_Subset
      <4>2. Cardinality(new(k)) # Cardinality(new(k + 1))
        BY <3>4, <3>5, FS_Subset
      <4>3. QED
        BY <3>5, <4>1, <4>2
    <3>7. Cardinality(new(k + 1)) >= k + 1
      BY <3>1, <3>5, <3>6
    <3>8. QED
      BY <2>2, <2>3, <3>7 DEF new
  <2>6. QED
    BY <2>4, <2>5
<1> HIDE DEF S
<1>7. n \in S
  <2>1. 0..n \subseteq S
    BY <1>1, <1>5, <1>6, UpTo
  <2>2. QED
    BY <1>1, <2>1
<1>8. /\ seeds \subseteq d[n] /\ d[n] \subseteq seeds \cup T
      /\ Closed(n) \/ Cardinality(new(n)) >= n
  BY <1>7 DEF S
<1>9. CASE Cardinality(new(n)) >= n
  <2>1. new(n) \subseteq T /\ IsFiniteSet(new(n)) /\ Cardinality(new(n)) \in Nat
    BY <1>1, <1>4, <1>8
  <2> HIDE DEF new
  <2>2. Cardinality(new(n)) <= Cardinality(T)
    BY <1>1, <2>1, FS_Subset
  <2>3. Cardinality(new(n)) = Cardinality(T)
    BY <1>1, <1>9, <2>1, <2>2
  <2>4. new(n) = T
    BY <1>1, <2>1, <2>3, FS_Subset
  <2>5. T \subseteq d[n]
    BY <2>4 DEF new
  <2>6. QED
    BY <1>2, <1>8, <2>5
<1>10. QED
  BY <1>8, <1>9

(* The recursive function of such sets.                                    *)
Growth(d, n, seeds, M) ==
  d = [i \in 0..n |-> IF i = 0 THEN seeds ELSE UNION {{m} \cup M[m] : m \in d[i - 1]}]
MayGrow(n, seeds, T, M) ==
  n \in Nat /\ IsFiniteSet(T) /\ Cardinality(T) <= n /\ \A m \in seeds \cup T : M[m] \subseteq T

(* It is defined.                                                          *)
LEMMA GrowthDefined ==
  ASSUME NEW n, NEW seeds, NEW T, NEW M, MayGrow(n, seeds, T, M)
  PROVE  \E d : /\ Grows(d, n, seeds, T, M)
                /\ Growth(d, n, seeds, M)
                /\ \A i \in 0..n : d[i] \subseteq seeds \cup T
<1> DEFINE V == SUBSET (seeds \cup T)
           b == [x \in V \X (1..n) |-> UNION {{m} \cup M[m] : m \in x[1]}]
<1>0. n \in Nat /\ IsFiniteSet(T) /\ Cardinality(T) <= n /\ \A m \in seeds \cup T : M[m] \subseteq T
  BY DEF MayGrow
<1>1. ASSUME NEW z \in V, NEW i \in 1..n
      PROVE  b[<<z, i>>] = UNION {{m} \cup M[m] : m \in z} /\ b[<<z, i>>] \in V
  <2>1. b[<<z, i>>] = UNION {{m} \cup M[m] : m \in z}
    OBVIOUS
  <2> HIDE DEF b
  <2>2. QED
    BY <1>0, <2>1
<1>2. seeds \in V
  OBVIOUS
<1> HIDE DEF V, b
<1>3. Builds(V, n, seeds, b)
  BY <1>0, <1>1, <1>2 DEF Builds
<1>4. PICK d : Built(d, V, n, seeds, b)
  BY <1>3, StepsDefined
<1>5. d \in [0..n -> V] /\ d[0] = seeds /\ \A i \in 1..n : d[i] = b[<<d[i - 1], i>>]
  BY <1>4 DEF Built
<1>6. ASSUME NEW i \in 1..n PROVE d[i] = UNION {{m} \cup M[m] : m \in d[i - 1]}
  <2>1. i - 1 \in 0..n /\ d[i - 1] \in V
    BY <1>0, <1>5
  <2>2. d[i] = b[<<d[i - 1], i>>]
    BY <1>5
  <2>3. QED
    BY <1>1, <2>1, <2>2
<1>7. d = [i \in 0..n |-> IF i = 0 THEN seeds ELSE UNION {{m} \cup M[m] : m \in d[i - 1]}]
  <2>1. d = [i \in 0..n |-> d[i]]
    BY <1>5
  <2>2. \A i \in 0..n : i = 0 \/ i \in 1..n
    BY <1>0
  <2>3. \A i \in 0..n : d[i] = IF i = 0 THEN seeds ELSE UNION {{m} \cup M[m] : m \in d[i - 1]}
    BY <1>5, <1>6, <2>2
  <2>4. QED
    BY <2>1, <2>3
<1>8. Grows(d, n, seeds, T, M)
  BY <1>0, <1>5, <1>6 DEF Grows
<1>9. \A i \in 0..n : d[i] \subseteq seeds \cup T
  BY <1>5 DEF V
<1>10. QED
  BY <1>7, <1>8, <1>9 DEF Growth

(* A file has at most as many definitions as nodes.                        *)
LEMMA DefNamesFew ==
  ASSUME NEW nodes, Len(nodes) \in Nat
  PROVE  IsFiniteSet(DefNames(nodes)) /\ Cardinality(DefNames(nodes)) <= Len(nodes)
<1> DEFINE D == Defs(nodes)
           T == DefNames(nodes)
           f == [i \in D |-> nodes[i].name]
<1>1. IsFiniteSet(1..Len(nodes)) /\ Cardinality(1..Len(nodes)) = Len(nodes)
  <2> DEFINE n == Len(nodes)
  <2>1. n \in Nat
    OBVIOUS
  <2> HIDE DEF n, D, T, f
  <2>2. IsFiniteSet(1..n) /\ Cardinality(1..n) = IF 1 > n THEN 0 ELSE n - 1 + 1
    BY <2>1, FS_Interval
  <2>3. QED
    BY <2>1, <2>2 DEF n
<1>2. D \subseteq 1..Len(nodes)
  BY DEF Defs
<1>3. IsFiniteSet(D) /\ Cardinality(D) <= Len(nodes)
  BY <1>1, <1>2, FS_Subset
<1>8. T = {nodes[i].name : i \in D}
  BY DEF DefNames
<1> HIDE DEF D, T
<1>4. f \in Surjection(D, T)
  <2>1. f \in [D -> T]
    BY <1>8
  <2>2. \A t \in T : \E i \in D : f[i] = t
    BY <1>8
  <2> HIDE DEF f
  <2>3. QED
    BY <2>1, <2>2 DEF Surjection
<1> HIDE DEF f
<1>5. IsFiniteSet(T) /\ Cardinality(T) <= Cardinality(D)
  BY <1>3, <1>4, FS_Surjection
<1>6. Cardinality(T) \in Nat /\ Cardinality(D) \in Nat
  BY <1>3, <1>5, FS_CardinalityType
<1>7. QED
  BY <1>3, <1>5, <1>6 DEF T

(* What is exported takes along all that it needs.                         *)
LEMMA NeededIs ==
  ASSUME NEW nodes, IsList(nodes), NEW seeds
  PROVE  LET S == Needed(nodes, seeds)
         IN seeds \subseteq S /\ \A m \in S : Mentioned(nodes, m) \subseteq S
<1> DEFINE n == Len(nodes)
           T == DefNames(nodes)
           M == [m \in seeds \cup T |-> Mentioned(nodes, m)]
           k == CHOOSE f : f = [i \in 0..n |->
                  IF i = 0 THEN seeds ELSE UNION {{m} \cup Mentioned(nodes, m) : m \in f[i - 1]}]
<1>1. n \in Nat /\ IsFiniteSet(T) /\ Cardinality(T) <= n
  BY ListIs, DefNamesFew
<1>2. Needed(nodes, seeds) = k[n]
  BY DEF Needed
<1>3. \A m \in seeds \cup T : M[m] = Mentioned(nodes, m) /\ M[m] \subseteq T
  BY DEF Mentioned
<1>4. n \in Nat /\ IsFiniteSet(T) /\ Cardinality(T) <= n /\ \A m \in seeds \cup T : M[m] \subseteq T
  BY <1>1, <1>3
<1>9. k = CHOOSE f : f = [i \in 0..n |->
             IF i = 0 THEN seeds ELSE UNION {{m} \cup Mentioned(nodes, m) : m \in f[i - 1]}]
  OBVIOUS
<1> HIDE DEF M, T, n, k
<1>16. MayGrow(n, seeds, T, M)
  BY <1>4 DEF MayGrow
<1>5. PICK d : Grows(d, n, seeds, T, M) /\ Growth(d, n, seeds, M) /\ \A i \in 0..n : d[i] \subseteq seeds \cup T
  BY <1>16, GrowthDefined
<1>6. d = [i \in 0..n |-> IF i = 0 THEN seeds ELSE UNION {{m} \cup Mentioned(nodes, m) : m \in d[i - 1]}]
  <2>1. \A i \in 0..n : d[i] = IF i = 0 THEN seeds ELSE UNION {{m} \cup M[m] : m \in d[i - 1]}
    BY <1>5 DEF Growth
  <2>2. seeds \cup T = T \cup seeds
    OBVIOUS
  <2>3. \A i \in 0..n : d[i] = IF i = 0 THEN seeds ELSE UNION {{m} \cup Mentioned(nodes, m) : m \in d[i - 1]}
    <3> SUFFICES ASSUME NEW i \in 0..n, i # 0
                 PROVE  d[i] = UNION {{m} \cup Mentioned(nodes, m) : m \in d[i - 1]}
      BY <1>5, <2>1
    <3>1. i - 1 \in 0..n
      BY <1>4
    <3>2. d[i - 1] \subseteq seeds \cup T
      BY <1>5, <3>1
    <3>3. \A m \in d[i - 1] : M[m] = Mentioned(nodes, m)
      BY <1>3, <3>2
    <3>4. d[i] = UNION {{m} \cup M[m] : m \in d[i - 1]}
      BY <2>1
    <3>5. QED
      BY <3>3, <3>4
  <2>4. d = [i \in 0..n |-> d[i]]
    BY <1>5 DEF Growth
  <2>5. QED
    BY <2>3, <2>4
<1>7. k = [i \in 0..n |-> IF i = 0 THEN seeds ELSE UNION {{m} \cup Mentioned(nodes, m) : m \in k[i - 1]}]
  BY <1>6 DEF k
<1>8. k[0] = seeds /\ \A i \in 1..n : k[i] = UNION {{m} \cup Mentioned(nodes, m) : m \in k[i - 1]}
  <2>1. \A i \in 0..n : k[i] = IF i = 0 THEN seeds ELSE UNION {{m} \cup Mentioned(nodes, m) : m \in k[i - 1]}
    BY <1>7
  <2>2. 0 \in 0..n /\ \A i \in 1..n : i \in 0..n /\ i # 0
    BY <1>4
  <2>3. QED
    BY <2>1, <2>2
<1> DEFINE S == {i \in 0..n : k[i] = d[i]}
<1>10. 0..n \subseteq S
  <2>1. d[0] = seeds /\ \A i \in 1..n : d[i] = UNION {{m} \cup Mentioned(nodes, m) : m \in d[i - 1]}
    <3>1. \A i \in 0..n : d[i] = IF i = 0 THEN seeds ELSE UNION {{m} \cup Mentioned(nodes, m) : m \in d[i - 1]}
      BY <1>6
    <3>2. 0 \in 0..n /\ \A i \in 1..n : i \in 0..n /\ i # 0
      BY <1>4
    <3>3. QED
      BY <3>1, <3>2
  <2>2. 0 \in S
    BY <1>4, <1>8, <2>1
  <2>3. ASSUME NEW i \in 0..n - 1, i \in S PROVE i + 1 \in S
    <3>1. i + 1 \in 1..n /\ i + 1 \in 0..n /\ i + 1 - 1 = i
      BY <1>4
    <3>4. k[i] = d[i]
      BY <2>3
    <3> HIDE DEF S
    <3>2. k[i + 1] = d[i + 1]
      <4> DEFINE h == i + 1
      <4>0. h \in 1..n /\ h - 1 = i
        BY <3>1
      <4> HIDE DEF h
      <4>1. k[h] = UNION {{m} \cup Mentioned(nodes, m) : m \in k[h - 1]}
        BY <1>8, <4>0
      <4>2. d[h] = UNION {{m} \cup Mentioned(nodes, m) : m \in d[h - 1]}
        BY <2>1, <4>0
      <4>3. k[h] = d[h]
        BY <3>4, <4>0, <4>1, <4>2
      <4>4. QED
        BY <4>3 DEF h
    <3>3. QED
      BY <3>1, <3>2 DEF S
  <2> HIDE DEF S
  <2>4. QED
    BY <1>4, <2>2, <2>3, UpTo
<1>11. k[n] = d[n]
  BY <1>4, <1>10
<1>12. seeds \subseteq d[n] /\ d[n] \subseteq seeds \cup T /\ \A m \in d[n] : M[m] \subseteq d[n]
  BY <1>5, GrownIsClosed
<1>13. QED
  BY <1>2, <1>3, <1>11, <1>12

-----------------------------------------------------------------------------
(* The inductive invariant.  A file on the stack below the outermost call  *)
(* was visited, which is why it cannot be entered again.                   *)
IInv == prog \in Programs /\ TypeOK /\ ChainIsStack

(* The program itself is on the stack without being visited, so an import  *)
(* cycle through it is entered once more; every other file of a cycle is   *)
(* skipped.                                                                *)
CallsBounded == Len(stack) <= Cardinality(Files) + 1

-----------------------------------------------------------------------------
(* A child that is an AC import names a file.                              *)
LEMMA ImportTarget ==
  ASSUME IInv, AtImport
  PROVE  /\ Child.target \in Files
         /\ Depth \in Nat \ {0} /\ stack[Depth] \in Files
         /\ next[Depth] \in Nat \ {0}
<1>1. Depth \in Nat \ {0} /\ stack[Depth] \in Files /\ next[Depth] \in Nat \ {0}
  BY DEF IInv, TypeOK, AtImport, AtChild, InCall, Depth
<1>2. Len(Here) \in Nat /\ next[Depth] \in 1..Len(Here)
  BY <1>1, ProgramsAssumption DEF IInv, AtImport, AtChild, Here
<1>3. QED
  BY <1>1, <1>2, ProgramsAssumption DEF IInv, AtImport, Child, Here

(* A step that moves on to the next child keeps the position typed.        *)
LEMMA AdvanceTyped ==
  ASSUME IInv, InCall
  PROVE  Advance \in Seq(Nat \ {0}) /\ Len(Advance) = Len(stack)
BY DEF IInv, TypeOK, InCall, Advance, Depth

(* All elements but the last.                                              *)
LEMMA FrontProperties ==
  ASSUME NEW S, NEW s \in Seq(S), Len(s) > 0
  PROVE  /\ Front(s) \in Seq(S) /\ Len(Front(s)) = Len(s) - 1
         /\ \A i \in 1..(Len(s) - 1) : Front(s)[i] = s[i]
<1>1. /\ Len(s) \in Nat /\ 1 \in Int /\ Len(s) - 1 \in Int
      /\ \A i \in 1..(Len(s) - 1) : s[i] \in S
  OBVIOUS
<1>2. /\ SubSeq(s, 1, Len(s) - 1) \in Seq(S)
      /\ Len(SubSeq(s, 1, Len(s) - 1)) =
           IF 1 <= Len(s) - 1 THEN (Len(s) - 1) - 1 + 1 ELSE 0
      /\ \A i \in 1..((Len(s) - 1) - 1 + 1) :
           SubSeq(s, 1, Len(s) - 1)[i] = s[1 + i - 1]
  BY <1>1, SubSeqProperties
<1>3. /\ (Len(s) - 1) - 1 + 1 = Len(s) - 1
      /\ \A i \in 1..(Len(s) - 1) : 1 + i - 1 = i
  BY <1>1
<1>4. Len(SubSeq(s, 1, Len(s) - 1)) = Len(s) - 1
  <2>1. CASE 1 <= Len(s) - 1
    BY <1>2, <1>3, <2>1
  <2>2. CASE ~(1 <= Len(s) - 1)
    <3>1. ASSUME NEW n \in Nat, n > 0, ~(1 <= n - 1) PROVE n - 1 = 0
      BY <3>1
    <3>2. Len(s) - 1 = 0
      BY ONLY <1>1, <2>2, <3>1, Len(s) > 0
    <3>3. QED BY <1>2, <2>2, <3>2
  <2>3. QED BY <2>1, <2>2
<1>5. \A i \in 1..(Len(s) - 1) : SubSeq(s, 1, Len(s) - 1)[i] = s[i]
  BY <1>2, <1>3
<1>6. QED
  BY <1>2, <1>4, <1>5 DEF Front

(* A call that returns leaves the stack one shorter and its file off the   *)
(* chain.                                                                  *)
LEMMA ReturnInv == ASSUME IInv, Return PROVE IInv'
<1>0. /\ Depth \in Nat /\ Depth > 1 /\ Depth = Len(stack)
      /\ stack \in Seq(Files) /\ next \in Seq(Nat \ {0}) /\ Len(next) = Depth
  BY DEF IInv, TypeOK, Return, Depth
<1>1. /\ stack' \in Seq(Files) /\ Len(stack') = Depth - 1
      /\ \A d \in 1..(Depth - 1) : stack'[d] = stack[d]
  BY <1>0, FrontProperties DEF Return
<1>2. /\ Front(next) \in Seq(Nat \ {0}) /\ Len(Front(next)) = Depth - 1
  BY <1>0, FrontProperties
<1>3. next' \in Seq(Nat \ {0}) /\ Len(next') = Depth - 1
  BY <1>0, <1>2 DEF Return
<1>4. chain' = chain \ {stack[Depth]} /\ UNCHANGED <<prog, visited, sources, cyclic>>
  BY DEF Return, Unchain
<1>5. ChainIsStack'
  <2>1. \A d, e \in 2..Depth : stack[d] = stack[e] => d = e
    BY <1>0 DEF IInv, ChainIsStack
  <2>2. chain = {stack[d] : d \in 2..Depth}
    BY <1>0 DEF IInv, ChainIsStack
  <2>3. chain' = {stack[d] : d \in 2..(Depth - 1)}
    BY <1>0, <1>4, <2>1, <2>2
  <2>4. {stack[d] : d \in 2..(Depth - 1)} = {stack'[d] : d \in 2..Len(stack')}
    BY <1>0, <1>1
  <2>5. \A d, e \in 2..Len(stack') : stack'[d] = stack'[e] => d = e
    <3>1. 2..Len(stack') \subseteq 2..Depth
      BY <1>0, <1>1
    <3>2. \A d \in 2..Len(stack') : stack'[d] = stack[d]
      BY <1>0, <1>1
    <3>3. QED BY <2>1, <3>1, <3>2
  <2>6. QED BY <2>3, <2>4, <2>5 DEF ChainIsStack
<1>6. TypeOK'
  BY <1>1, <1>3, <1>4 DEF IInv, TypeOK, Return, AtEnd, InCall
<1>7. QED
  BY <1>4, <1>5, <1>6 DEF IInv

(* A recursive call adds a file that was on neither the stack nor the      *)
(* chain.                                                                  *)
LEMMA EnterInv == ASSUME IInv, Enter PROVE IInv'
<1> DEFINE f == Child.target
<1>0. /\ AtImport /\ f \in Files /\ f \notin visited
      /\ Depth \in Nat \ {0} /\ Depth = Len(stack)
      /\ stack \in Seq(Files) /\ next \in Seq(Nat \ {0}) /\ Len(next) = Depth
  BY ImportTarget DEF IInv, TypeOK, Enter, Seen, Depth, AtImport, AtChild, InCall
<1>1. /\ stack' = Append(stack, f) /\ next' = Append(next, 1)
      /\ visited' = visited \cup {f} /\ sources' = sources \cup {f}
      /\ chain' = chain \cup {f} /\ UNCHANGED <<prog, cyclic>>
  BY DEF Enter, Visit
<1> HIDE DEF f
<1>2. /\ stack' \in Seq(Files) /\ Len(stack') = Depth + 1
      /\ stack'[Depth + 1] = f
      /\ \A d \in 1..Depth : stack'[d] = stack[d]
  BY <1>0, <1>1
<1>3. next' \in Seq(Nat \ {0}) /\ Len(next') = Depth + 1
  BY <1>0, <1>1
<1>4. TypeOK'
  BY <1>0, <1>1, <1>2, <1>3 DEF IInv, TypeOK
<1>5. ChainIsStack'
  <2>1. \A d \in 2..Depth : stack[d] # f
    BY <1>0 DEF IInv, TypeOK, ChainIsStack
  <2>2. chain = {stack[d] : d \in 2..Depth}
    BY <1>0 DEF IInv, ChainIsStack
  <2>3. chain' = {stack'[d] : d \in 2..Len(stack')}
    <3>1. {stack'[d] : d \in 2..(Depth + 1)} = {stack[d] : d \in 2..Depth} \cup {f}
      <4>1. 2..(Depth + 1) = (2..Depth) \cup {Depth + 1}
        BY <1>0
      <4>2. \A d \in 2..Depth : stack'[d] = stack[d]
        BY <1>0, <1>2
      <4>3. QED BY <1>2, <4>1, <4>2
    <3>2. QED BY <1>1, <1>2, <2>2, <3>1
  <2>4. ASSUME NEW d \in 2..Len(stack'), NEW e \in 2..Len(stack'),
               stack'[d] = stack'[e]
        PROVE  d = e
    <3>1. CASE d \in 2..Depth /\ e \in 2..Depth
      BY <1>0, <1>2, <2>4, <3>1 DEF IInv, ChainIsStack
    <3>2. CASE d = Depth + 1 \/ e = Depth + 1
      BY <1>0, <1>2, <2>1, <2>4, <3>2
    <3>3. QED BY <1>0, <1>2, <3>1, <3>2
  <2>5. QED BY <2>3, <2>4 DEF ChainIsStack
<1>6. QED
  BY <1>1, <1>4, <1>5 DEF IInv

(* No step of the injection disturbs the invariant.                        *)
LEMMA NextInv == IInv /\ [Next]_vars => IInv'
<1> SUFFICES ASSUME IInv, [Next]_vars PROVE IInv'
  OBVIOUS
<1>1. CASE Skip
  BY <1>1, AdvanceTyped DEF Skip, IInv, TypeOK, ChainIsStack, AtChild, InCall
<1>2. CASE Reimport
  BY <1>2, AdvanceTyped, ImportTarget DEF Reimport, IInv, TypeOK, ChainIsStack, AtImport,
     AtChild, InCall, Seen
<1>3. CASE CannotOpen
  BY <1>3, AdvanceTyped, ImportTarget DEF CannotOpen, IInv, TypeOK, ChainIsStack,
     AtImport, AtChild, InCall
<1>4. CASE Enter
  BY <1>4, EnterInv
<1>5. CASE Return
  BY <1>5, ReturnInv
<1>6. CASE ImportsDone
  <2>1. /\ Len(stack) = 1 /\ stack' = <<>> /\ next' = <<>>
        /\ UNCHANGED <<prog, visited, chain, sources, cyclic>>
    BY <1>6 DEF ImportsDone, Depth
  <2>2. chain = {} /\ Len(stack') = 0
    BY <2>1 DEF IInv, ChainIsStack
  <2>3. TypeOK'
    BY <2>1, <2>2 DEF IInv, TypeOK
  <2>4. ChainIsStack'
    BY <2>1, <2>2 DEF ChainIsStack
  <2>5. QED BY <2>1, <2>3, <2>4 DEF IInv
<1>7. CASE InjectDatac
  BY <1>7 DEF InjectDatac, PassNode, Expand, IInv, TypeOK, ChainIsStack
<1>8. CASE UNCHANGED vars
  BY <1>8 DEF vars, IInv, TypeOK, ChainIsStack
<1>9. QED
  BY <1>1, <1>2, <1>3, <1>4, <1>5, <1>6, <1>7, <1>8 DEF Next

(* The injection starts in the invariant.                                  *)
LEMMA InitInv == Init => IInv
BY RootAssumption DEF Init, IInv, TypeOK, ChainIsStack

(* The shape of the call stack holds in every run.                         *)
THEOREM TypeCorrect == Spec => []TypeOK
<1>1. IInv => TypeOK
  BY DEF IInv
<1>2. QED BY <1>1, InitInv, NextInv, PTL DEF Spec

(* g_importStack is the call stack and no import graph, however cyclic,    *)
(* makes injectFlibModules enter a file it is already injecting.           *)
THEOREM ChainCorrect == Spec => []ChainIsStack
<1>1. IInv => ChainIsStack
  BY DEF IInv
<1>2. QED BY <1>1, InitInv, NextInv, PTL DEF Spec

(* With finitely many files the recursion depth is bounded: a cyclic       *)
(* import cannot overflow the compiler's stack.                            *)
THEOREM DepthBounded == ASSUME IsFiniteSet(Files) PROVE Spec => []CallsBounded
<1>1. IInv => CallsBounded
  <2> SUFFICES ASSUME IInv PROVE Len(stack) <= Cardinality(Files) + 1
    BY DEF CallsBounded
  <2> DEFINE n == Len(stack)
             g == [i \in 1..(n - 1) |-> stack[i + 1]]
  <2>1. stack \in Seq(Files) /\ n \in Nat /\ Cardinality(Files) \in Nat
    BY FS_CardinalityType DEF IInv, TypeOK
  <2>2. CASE n <= 1
    BY <2>1, <2>2
  <2>3. CASE n > 1
    <3>1. g \in Injection(1..(n - 1), Files)
      <4>1. g \in [1..(n - 1) -> Files]
        BY <2>1, <2>3
      <4>2. ASSUME NEW a \in 1..(n - 1), NEW b \in 1..(n - 1), g[a] = g[b]
            PROVE  a = b
        BY <2>1, <4>2 DEF IInv, ChainIsStack
      <4>3. QED BY <4>1, <4>2 DEF Injection, IsInjective
    <3>2. IsFiniteSet(1..(n - 1)) /\ Cardinality(1..(n - 1)) = n - 1
      BY <2>1, <2>3, FS_Interval
    <3>3. Cardinality(1..(n - 1)) <= Cardinality(Files)
      BY <3>1, <3>2, FS_Injection
    <3>4. QED BY <2>1, <3>2, <3>3
  <2>4. QED BY <2>1, <2>2, <2>3
<1>2. QED BY <1>1, InitInv, NextInv, PTL DEF Spec

-----------------------------------------------------------------------------
(* The invariant of splicing: each call in progress has collected nodes of *)
(* files that are done, and no two calls have collected nodes of one file. *)
WaitsAt(p, f, i) == i \in 1..Len(p[f].nodes) /\ p[f].nodes[i].kind = "use"
CallsOK ==
  /\ IsList(work) /\ Len(work) = Len(stack)
  /\ \A d \in 1..Len(stack) : CallOK(prog, stack[d], work[d]) /\ FilesOf(work[d]) \subseteq visited \ chain
  /\ \A d, e \in 1..Len(stack) : d # e => FilesOf(work[d]) \cap FilesOf(work[e]) = {}
  /\ \A d \in 1..Len(stack) - 1 : WaitsAt(prog, stack[d], next[d])
  /\ Len(stack) > 0 => stack[1] = Root /\ at = 0 /\ result = <<>>
  /\ Len(stack) = 0 => at \in Nat \ {0}
SInv == IInv /\ CallsOK

(* A list with another element in one place.                               *)
Updated(u, s, i, e) == u = [s EXCEPT ![i] = e]

(* It is a list, as long, the same in the other places.                    *)
LEMMA UpdateIs ==
  ASSUME NEW s, IsList(s), NEW i \in 1..Len(s), NEW e, NEW u, Updated(u, s, i, e)
  PROVE  /\ IsList(u) /\ Len(u) = Len(s)
         /\ \A j \in 1..Len(s) : u[j] = IF j = i THEN e ELSE s[j]
<1>1. Len(s) \in Nat /\ DOMAIN s = 1..Len(s)
  BY ListIs
<1>2. u = [j \in 1..Len(s) |-> IF j = i THEN e ELSE s[j]]
  BY <1>1 DEF Updated
<1>3. u = [j \in 1..Len(s) |-> u[j]]
  BY <1>2
<1>4. IsList(u) /\ Len(u) = Len(s)
  BY <1>1, <1>3, FunctionIsList
<1>5. QED
  BY <1>2, <1>4

(* All of a list but the last.                                             *)
LEMMA FrontIs ==
  ASSUME NEW s, IsList(s), Len(s) > 0
  PROVE  /\ IsList(Front(s)) /\ Len(Front(s)) = Len(s) - 1
         /\ \A i \in 1..Len(s) - 1 : Front(s)[i] = s[i]
<1>1. s \in Seq(Range(s)) /\ Len(s) \in Nat
  BY ListIs DEF IsList
<1>2. QED
  BY <1>1, FrontProperties, SeqIsList

(* Marking an import changes nothing that was collected.                   *)
LEMMA MarkInlinedIs ==
  ASSUME NEW p, NEW f, NEW w, CallOK(p, f, w), NEW i, WaitsAt(p, f, i)
  PROVE  /\ CallOK(p, f, MarkInlined(w, i))
         /\ MarkInlined(w, i).toAppend = w.toAppend
         /\ MarkInlined(w, i).toVars = w.toVars
<1> DEFINE a == w.inlined
           b == w.toAppend
           c == w.toVars
           r == MarkInlined(w, i)
<1>1. w = [inlined |-> a, toAppend |-> b, toVars |-> c]
  BY DEF CallOK, IsCall
<1>2. a = w.inlined /\ b = w.toAppend /\ c = w.toVars
  OBVIOUS
<1> HIDE DEF a, b, c
<1>3. r = [inlined |-> a \cup {i}, toAppend |-> b, toVars |-> c]
  BY <1>1 DEF MarkInlined
<1> HIDE DEF r
<1>4. r.inlined = a \cup {i} /\ r.toAppend = b /\ r.toVars = c /\ IsCall(r)
  BY <1>3 DEF IsCall
<1>5. CallOK(p, f, r)
  BY <1>2, <1>4 DEF CallOK, WaitsAt
<1>6. QED
  BY <1>2, <1>4, <1>5 DEF r

(* What holds of the call in progress.                                     *)
LEMMA Current ==
  ASSUME SInv, InCall
  PROVE  /\ prog \in Programs /\ Depth \in Nat \ {0} /\ Depth = Len(stack)
         /\ stack \in Seq(Files) /\ next \in Seq(Nat \ {0})
         /\ Len(next) = Depth /\ Len(work) = Depth /\ IsList(work)
         /\ \A d \in 1..Depth : stack[d] \in Files /\ next[d] \in Nat \ {0}
         /\ Depth \in 1..Depth /\ Len(Here) \in Nat
<1>1. /\ prog \in Programs /\ Depth \in Nat \ {0} /\ Depth = Len(stack)
      /\ stack \in Seq(Files) /\ next \in Seq(Nat \ {0})
      /\ Len(next) = Depth /\ Len(work) = Depth /\ IsList(work)
  BY DEF SInv, IInv, TypeOK, CallsOK, InCall, Depth
<1>2. \A d \in 1..Depth : stack[d] \in Files /\ next[d] \in Nat \ {0}
  BY <1>1
<1>3. Depth \in 1..Depth /\ Len(Here) \in Nat
  BY <1>1, <1>2, NodesAre DEF Here
<1>4. QED
  BY <1>1, <1>2, <1>3

(* The step over a node.                                                   *)
LEMMA AdvanceIs ==
  ASSUME SInv, InCall
  PROVE  \A d \in 1..Depth - 1 : Advance[d] = next[d]
<1>1. Depth \in Nat \ {0} /\ next \in Seq(Nat \ {0}) /\ Len(next) = Depth
  BY Current
<1>2. QED
  BY <1>1 DEF Advance

(* The call is at an import.                                               *)
LEMMA ImportWaits ==
  ASSUME SInv, AtImport
  PROVE  WaitsAt(prog, stack[Depth], next[Depth])
<1>1. InCall
  BY DEF AtImport, AtChild
<1>2. QED
  BY <1>1, Current DEF AtImport, AtChild, WaitsAt, Here, Child

(* A node that is no import: what is collected stays.                      *)
LEMMA SkipCalls == ASSUME SInv, Skip PROVE CallsOK'
<1>0. InCall /\ InCall
  BY DEF Skip, AtChild
<1>1. /\ next' = Advance
      /\ UNCHANGED <<prog, stack, work, visited, chain, at, result>>
  BY DEF Skip
<1>2. \A d \in 1..Len(stack) - 1 : next'[d] = next[d]
  BY <1>0, <1>1, Current, AdvanceIs
<1>3. QED
  BY <1>1, <1>2 DEF SInv, CallsOK

(* An import that is not there: what is collected stays.                   *)
LEMMA CannotOpenCalls == ASSUME SInv, CannotOpen PROVE CallsOK'
<1>0. InCall
  BY DEF CannotOpen, AtImport, AtChild
<1>1. /\ next' = Advance /\ visited \subseteq visited'
      /\ UNCHANGED <<prog, stack, work, chain, at, result>>
  BY DEF CannotOpen
<1>2. \A d \in 1..Len(stack) - 1 : next'[d] = next[d]
  BY <1>0, <1>1, Current, AdvanceIs
<1>3. QED
  BY <1>1, <1>2 DEF SInv, CallsOK

(* An import of a file seen before collects nothing again.                 *)
LEMMA ReimportCalls == ASSUME SInv, Reimport PROVE CallsOK'
<1>0. InCall /\ AtImport
  BY DEF Reimport, AtImport, AtChild
<1> DEFINE r == MarkInlined(work[Depth], next[Depth])
<1>1. /\ next' = Advance /\ work' = [work EXCEPT ![Depth] = r]
      /\ UNCHANGED <<prog, stack, visited, chain, at, result>>
  BY DEF Reimport
<1>2. \A d \in 1..Len(stack) - 1 : next'[d] = next[d]
  BY <1>0, <1>1, Current, AdvanceIs
<1>3. CallOK(prog, stack[Depth], r) /\ FilesOf(r) = FilesOf(work[Depth])
  <2>1. CallOK(prog, stack[Depth], work[Depth])
    BY <1>0, Current DEF SInv, CallsOK
  <2>2. QED
    BY <1>0, <2>1, ImportWaits, MarkInlinedIs DEF FilesOf
<1> HIDE DEF r
<1>4. /\ IsList(work') /\ Len(work') = Len(work)
      /\ \A d \in 1..Len(work) : work'[d] = IF d = Depth THEN r ELSE work[d]
  <2> DEFINE D == Depth
  <2>1. IsList(work) /\ D \in 1..Len(work)
    BY <1>0, Current
  <2>2. Updated(work', work, D, r)
    BY <1>1 DEF Updated
  <2> HIDE DEF D
  <2>3. /\ IsList(work') /\ Len(work') = Len(work)
        /\ \A d \in 1..Len(work) : work'[d] = IF d = D THEN r ELSE work[d]
    BY <2>1, <2>2, UpdateIs
  <2>4. QED
    BY <2>3 DEF D
<1>5. \A d \in 1..Len(stack) : FilesOf(work'[d]) = FilesOf(work[d]) /\ CallOK(prog, stack[d], work'[d])
  BY <1>0, <1>3, <1>4, Current DEF SInv, CallsOK
<1>6. QED
  BY <1>1, <1>2, <1>4, <1>5 DEF SInv, CallsOK

(* A call that begins has collected nothing.                               *)
LEMMA NewCallOK ==
  ASSUME NEW p, NEW f
  PROVE  CallOK(p, f, NewCall) /\ FilesOf(NewCall) = {}
<1>1. <<>> \in Seq(Nat) /\ Len(<<>>) = 0
  OBVIOUS
<1>2. IsList(<<>>) /\ Range(<<>>) = {}
  <2>1. IsList(<<>>)
    BY <1>1, SeqIsList
  <2>2. Range(<<>>) = {<<>>[i] : i \in 1..0}
    BY <1>1, <2>1, ListIs
  <2>3. QED
    BY <2>1, <2>2
<1>3. /\ NewCall.inlined = {} /\ NewCall.toAppend = <<>> /\ NewCall.toVars = <<>> /\ IsCall(NewCall)
  BY DEF NewCall, IsCall
<1>4. QED
  BY <1>1, <1>2, <1>3 DEF CallOK, AllFrom, Once, FilesOf, OwnFiles

(* Entering a file adds a call that has collected nothing.                 *)
LEMMA EnterCalls == ASSUME SInv, Enter PROVE CallsOK'
<1> DEFINE f == Child.target
<1>0. InCall /\ AtImport
  BY DEF Enter, AtImport, AtChild
<1>1. /\ f \notin visited /\ visited' = visited \cup {f} /\ chain' = chain \cup {f}
      /\ stack' = Append(stack, f) /\ next' = Append(next, 1)
      /\ work' = Append(work, NewCall)
      /\ UNCHANGED <<prog, at, result>>
  BY DEF Enter, Seen, Visit
<1>2. f \in Files
  BY <1>0, ImportTarget DEF SInv
<1> HIDE DEF f
<1>3. /\ Len(stack') = Len(stack) + 1 /\ stack'[Len(stack) + 1] = f
      /\ \A d \in 1..Len(stack) : stack'[d] = stack[d]
      /\ \A d \in 1..Len(stack) : next'[d] = next[d]
  BY <1>0, <1>1, <1>2, Current
<1>4. /\ IsList(work') /\ Len(work') = Len(stack) + 1 /\ work'[Len(stack) + 1] = NewCall
      /\ \A d \in 1..Len(stack) : work'[d] = work[d]
  BY <1>0, <1>1, Current, AppendIs
<1>5. Len(stack) \in Nat \ {0} /\ \A d \in 1..Len(stack) + 1 : d \in 1..Len(stack) \/ d = Len(stack) + 1
  BY <1>0, Current
<1>6. \A d \in 1..Len(stack') :
        CallOK(prog', stack'[d], work'[d]) /\ FilesOf(work'[d]) \subseteq visited' \ chain'
  BY <1>1, <1>3, <1>4, <1>5, NewCallOK DEF SInv, CallsOK
<1>7. \A d, e \in 1..Len(stack') : d # e => FilesOf(work'[d]) \cap FilesOf(work'[e]) = {}
  BY <1>3, <1>4, <1>5, NewCallOK DEF SInv, CallsOK
<1>8. \A d \in 1..Len(stack') - 1 : WaitsAt(prog', stack'[d], next'[d])
  <2>1. WaitsAt(prog, stack[Len(stack)], next[Len(stack)])
    BY <1>0, ImportWaits, Current
  <2>2. \A d \in 1..Len(stack') - 1 : d \in 1..Len(stack) /\ (d = Len(stack) \/ d \in 1..Len(stack) - 1)
    BY <1>3, <1>5
  <2>3. QED
    BY <1>1, <1>3, <2>1, <2>2 DEF SInv, CallsOK
<1>9. Len(stack') > 0 /\ stack'[1] = Root /\ at' = 0 /\ result' = <<>> /\ ~(Len(stack') = 0)
  <2>1. stack[1] = Root /\ at = 0 /\ result = <<>>
    BY <1>5 DEF SInv, CallsOK
  <2>2. QED
    BY <1>1, <1>3, <1>5, <2>1
<1>10. QED
  BY <1>3, <1>4, <1>6, <1>7, <1>8, <1>9 DEF CallsOK

(* What the call at depth D leaves its importer's with when it returns.    *)
Handed(D) ==
  Receive(work[D - 1], next[D - 1], Spliced(prog[stack[D]].nodes, work[D]), prog[stack[D]].nodes)

(* A return takes the importer one import further, with what is handed.    *)
LEMMA ReturnIs ==
  ASSUME SInv, Return
  PROVE  LET D == Len(stack)
         IN /\ D \in Nat /\ D > 1 /\ stack[D - 1] \in Files /\ stack[D] \in Files /\ prog \in Programs
            /\ Len(stack') = D - 1 /\ \A d \in 1..D - 1 : stack'[d] = stack[d]
            /\ \A d \in 1..D - 2 : next'[d] = next[d]
            /\ next'[D - 1] = next[D - 1] + 1 /\ next[D] > Len(prog[stack[D]].nodes)
            /\ IsList(work') /\ Len(work') = D - 1
            /\ \A d \in 1..D - 1 : work'[d] = IF d = D - 1 THEN Handed(D) ELSE work[d]
            /\ chain' = chain \ {stack[D]} /\ UNCHANGED <<prog, visited, at, result>>
<1> DEFINE D == Depth
           r == Handed(D)
<1>0. InCall
  BY DEF Return, AtEnd
<1>1. D \in Nat /\ D > 1 /\ D = Len(stack) /\ Len(work) = D /\ Len(next) = D /\ prog \in Programs
  BY <1>0, Current DEF Return
<1>2. stack[D - 1] \in Files /\ stack[D] \in Files /\ D \in 1..D /\ D - 1 \in 1..D
  BY <1>0, <1>1, Current
<1>3. /\ stack' = Front(stack) /\ chain' = chain \ {stack[D]}
      /\ work' = [Front(work) EXCEPT ![D - 1] =
                    Receive(@, next[D - 1], Spliced(prog[stack[D]].nodes, work[D]), prog[stack[D]].nodes)]
      /\ next' = [Front(next) EXCEPT ![D - 1] = @ + 1]
      /\ next[D] > Len(prog[stack[D]].nodes)
      /\ UNCHANGED <<prog, visited, at, result>>
  BY DEF Return, Unchain, Here, AtEnd
<1>4. /\ Len(stack') = D - 1 /\ \A d \in 1..D - 1 : stack'[d] = stack[d]
  BY <1>0, <1>1, <1>3, Current, FrontProperties
<1>5. /\ IsList(Front(work)) /\ Len(Front(work)) = D - 1
      /\ \A d \in 1..D - 1 : Front(work)[d] = work[d]
  BY <1>0, <1>1, Current, FrontIs
<1>6. /\ Front(next) \in Seq(Nat \ {0}) /\ Len(Front(next)) = D - 1
      /\ \A d \in 1..D - 1 : Front(next)[d] = next[d]
  BY <1>0, <1>1, Current, FrontProperties
<1>7. (\A d \in 1..D - 2 : next'[d] = next[d]) /\ next'[D - 1] = next[D - 1] + 1
  <2>1. IsList(Front(next)) /\ D - 1 \in 1..Len(Front(next))
    BY <1>1, <1>6, SeqIsList
  <2> DEFINE e == Front(next)[D - 1] + 1
  <2>2. Updated(next', Front(next), D - 1, e)
    BY <1>3 DEF Updated
  <2>6. e = next[D - 1] + 1
    BY <1>6, <2>1
  <2> HIDE DEF D, e
  <2>3. \A d \in 1..Len(Front(next)) : next'[d] = IF d = D - 1 THEN e ELSE Front(next)[d]
    BY <2>1, <2>2, UpdateIs
  <2>4. D - 1 \in 1..D - 1 /\ \A d \in 1..D - 2 : d \in 1..D - 1 /\ d # D - 1
    BY <1>1
  <2>5. QED
    BY <1>6, <2>3, <2>4, <2>6
<1>8. D - 1 \in 1..D - 1
  BY <1>1
<1>9. Updated(work', Front(work), D - 1, r)
  BY <1>3, <1>5, <1>8, ListIs DEF Updated, Handed
<1> HIDE DEF r, D
<1>10. /\ IsList(work') /\ Len(work') = D - 1
       /\ \A d \in 1..D - 1 : work'[d] = IF d = D - 1 THEN r ELSE work[d]
  <2>1. D - 1 \in 1..Len(Front(work))
    BY <1>5, <1>8
  <2>2. /\ IsList(work') /\ Len(work') = Len(Front(work))
        /\ \A d \in 1..Len(Front(work)) : work'[d] = IF d = D - 1 THEN r ELSE Front(work)[d]
    BY <1>5, <1>9, <2>1, UpdateIs
  <2>3. QED
    BY <1>5, <2>2
<1>11. QED
  BY <1>1, <1>2, <1>3, <1>4, <1>7, <1>10 DEF r

(* What the importer has then is as it should be, and has what it had and  *)
(* what the file forwards.                                                 *)
LEMMA HandedOK ==
  ASSUME NamesApart, SInv, Return
  PROVE  LET D == Len(stack)
             g == stack[D]
             nodes == Spliced(prog[g].nodes, work[D])
         IN /\ g \notin FilesOf(work[D]) /\ g \in chain
            /\ CallOK(prog, g, work[D]) /\ CallOK(prog, stack[D - 1], work[D - 1])
            /\ CallOK(prog, stack[D - 1], Handed(D))
            /\ FilesOf(Handed(D)) \subseteq FilesOf(work[D - 1]) \cup FilesOf(work[D]) \cup {g}
            /\ Range(Handed(D).toAppend) = Range(work[D - 1].toAppend) \cup Range(Forwarded(nodes, prog[g].nodes))
<1> DEFINE D == Len(stack)
           g == stack[D]
           f == stack[D - 1]
<1>1. D \in Nat /\ D > 1 /\ f \in Files /\ g \in Files /\ prog \in Programs
  BY ReturnIs
<1> HIDE DEF D
<1>2. D - 1 \in 1..D /\ D \in 1..D /\ D \in 2..D /\ D - 1 # D /\ D - 1 \in 1..D - 1
  BY <1>1
<1>3. g \in chain /\ chain \subseteq visited
  <2>1. D \in 2..Len(stack)
    BY <1>2 DEF D
  <2>2. QED
    BY <2>1 DEF SInv, IInv, TypeOK, ChainIsStack
<1>4. \A d \in 1..D : CallOK(prog, stack[d], work[d]) /\ FilesOf(work[d]) \subseteq visited \ chain
  BY DEF SInv, CallsOK, D
<1>5. \A d, e \in 1..D : d # e => FilesOf(work[d]) \cap FilesOf(work[e]) = {}
  BY DEF SInv, CallsOK, D
<1>6. WaitsAt(prog, f, next[D - 1])
  BY <1>2 DEF SInv, CallsOK, D
<1> DEFINE i == next[D - 1]
           w == work[D - 1]
           v == work[D]
           q == Receive(w, i, Spliced(prog[g].nodes, v), prog[g].nodes)
<1>7. /\ CallOK(prog, f, w) /\ CallOK(prog, g, v)
      /\ g \notin FilesOf(v) /\ FilesOf(w) \cap (FilesOf(v) \cup {g}) = {}
  BY <1>2, <1>3, <1>4, <1>5
<1>8. i \in 1..Len(prog[f].nodes) /\ prog[f].nodes[i].kind = "use"
  BY <1>6 DEF WaitsAt
<1>9. q = Handed(D)
  BY DEF Handed
<1> HIDE DEF i, w, v, f, g
<1>10. /\ CallOK(prog, f, q) /\ FilesOf(q) \subseteq FilesOf(w) \cup FilesOf(v) \cup {g}
       /\ Range(q.toAppend) = Range(w.toAppend) \cup Range(Forwarded(Spliced(prog[g].nodes, v), prog[g].nodes))
  <2>1. /\ CallOK(prog, f, w) /\ CallOK(prog, g, v)
        /\ g \notin FilesOf(v) /\ FilesOf(w) \cap (FilesOf(v) \cup {g}) = {}
        /\ i \in 1..Len(prog[f].nodes) /\ prog[f].nodes[i].kind = "use"
        /\ prog \in Programs /\ f \in Files /\ g \in Files
    BY <1>1, <1>7, <1>8
  <2>2. Received(prog, f, w, g, v, q)
    BY <2>1, ReceiveOK
  <2>3. QED
    BY <2>2 DEF Received
<1>11. QED
  BY <1>3, <1>7, <1>9, <1>10 DEF D, f, g, w, v

(* The file that is done goes, with the files it has collected, to its     *)
(* importer, and to no other call.                                         *)
LEMMA ReturnCalls == ASSUME NamesApart, SInv, Return PROVE CallsOK'
<1> DEFINE D == Len(stack)
           g == stack[D]
           r == Handed(D)
<1>1. /\ D \in Nat /\ D > 1 /\ Len(stack') = D - 1 /\ \A d \in 1..D - 1 : stack'[d] = stack[d]
      /\ \A d \in 1..D - 2 : next'[d] = next[d]
      /\ IsList(work') /\ Len(work') = D - 1
      /\ \A d \in 1..D - 1 : work'[d] = IF d = D - 1 THEN r ELSE work[d]
      /\ chain' = chain \ {g} /\ UNCHANGED <<prog, visited, at, result>>
  BY ReturnIs
<1>2. /\ g \in chain /\ CallOK(prog, stack[D - 1], r)
      /\ FilesOf(r) \subseteq FilesOf(work[D - 1]) \cup FilesOf(work[D]) \cup {g}
  BY HandedOK
<1> HIDE DEF D, g, r
<1>3. \A d \in 1..D : CallOK(prog, stack[d], work[d]) /\ FilesOf(work[d]) \subseteq visited \ chain
  BY DEF SInv, CallsOK, D
<1>4. \A d, e \in 1..D : d # e => FilesOf(work[d]) \cap FilesOf(work[e]) = {}
  BY DEF SInv, CallsOK, D
<1>5. D \in 1..D /\ D - 1 \in 1..D /\ D # D - 1 /\ \A d \in 1..D - 1 : d \in 1..D /\ d # D
  BY <1>1
<1>6. chain \subseteq visited
  BY DEF SInv, IInv, TypeOK
<1>7. \A d \in 1..D - 1 : CallOK(prog, stack[d], work'[d]) /\ FilesOf(work'[d]) \subseteq visited \ chain'
  <2> SUFFICES ASSUME NEW d \in 1..D - 1
               PROVE  CallOK(prog, stack[d], work'[d]) /\ FilesOf(work'[d]) \subseteq visited \ chain'
    OBVIOUS
  <2>1. CASE d = D - 1
    BY <1>1, <1>2, <1>3, <1>5, <1>6, <2>1
  <2>2. CASE d # D - 1
    BY <1>1, <1>3, <1>5, <2>2
  <2>3. QED
    BY <2>1, <2>2
<1>8. \A d, e \in 1..D - 1 : d # e => FilesOf(work'[d]) \cap FilesOf(work'[e]) = {}
  <2>1. \A d \in 1..D - 1 : d # D - 1 =>
          FilesOf(work[d]) \cap (FilesOf(work[D - 1]) \cup FilesOf(work[D]) \cup {g}) = {}
    BY <1>2, <1>3, <1>4, <1>5
  <2>2. QED
    BY <1>1, <1>2, <1>4, <1>5, <2>1
<1>9. \A d \in 1..D - 2 : WaitsAt(prog, stack[d], next'[d])
  <2>1. \A d \in 1..D - 2 : d \in 1..Len(stack) - 1
    BY <1>1 DEF D
  <2>2. QED
    BY <1>1, <2>1 DEF SInv, CallsOK
<1>10. stack[1] = Root /\ at = 0 /\ result = <<>>
  <2>1. Len(stack) > 0
    BY <1>1 DEF D
  <2>2. QED
    BY <2>1 DEF SInv, CallsOK
<1>11. 1 \in 1..D - 1 /\ Len(stack') - 1 = D - 2 /\ ~(Len(stack') = 0) /\ \A d \in 1..D - 2 : d \in 1..D - 1
  BY <1>1
<1>12. \A d \in 1..Len(stack') - 1 : WaitsAt(prog', stack'[d], next'[d])
  BY <1>1, <1>9, <1>11
<1>13. \A d \in 1..Len(stack') :
         CallOK(prog', stack'[d], work'[d]) /\ FilesOf(work'[d]) \subseteq visited' \ chain'
  BY <1>1, <1>7
<1>14. \A d, e \in 1..Len(stack') : d # e => FilesOf(work'[d]) \cap FilesOf(work'[e]) = {}
  BY <1>1, <1>8
<1>15. stack'[1] = Root /\ at' = 0 /\ result' = <<>>
  BY <1>1, <1>10, <1>11
<1>16. QED
  BY <1>1, <1>11, <1>12, <1>13, <1>14, <1>15 DEF CallsOK

(* The empty list.                                                         *)
LEMMA EmptyIs == IsList(<<>>) /\ Len(<<>>) = 0 /\ Range(<<>>) = {}
<1>1. <<>> \in Seq(Nat) /\ Len(<<>>) = 0
  OBVIOUS
<1>2. IsList(<<>>)
  BY <1>1, SeqIsList
<1>3. Range(<<>>) = {<<>>[i] : i \in 1..0}
  BY <1>1, <1>2, ListIs
<1>4. QED
  BY <1>1, <1>2, <1>3

(* At the end no call is left.                                             *)
LEMMA ImportsDoneCalls == ASSUME SInv, ImportsDone PROVE CallsOK'
<1>1. stack' = <<>> /\ work' = <<>> /\ at' = 1
  BY DEF ImportsDone
<1>2. Len(stack') = 0 /\ Len(work') = 0 /\ IsList(work')
  BY <1>1, EmptyIs
<1>3. QED
  BY <1>1, <1>2 DEF CallsOK

(* The pass over data imports begins no call.                              *)
LEMMA InjectDatacCalls == ASSUME SInv, InjectDatac PROVE CallsOK'
<1>1. UNCHANGED <<prog, stack, next, work, visited, chain>> /\ Depth = 0
  BY DEF InjectDatac, PassNode, Expand, IsData
<1>2. Len(stack) = 0 /\ at \in Nat \ {0}
  BY <1>1 DEF SInv, CallsOK, Depth
<1>3. at' \in Nat \ {0}
  <2>1. CASE PassNode
    BY <1>2, <2>1 DEF PassNode
  <2>2. ASSUME NEW rows0, Len(rows0) \in Nat, Expand(rows0) PROVE at' \in Nat \ {0}
    BY <1>2, <2>2 DEF Expand
  <2>3. QED
    BY <2>1, <2>2 DEF InjectDatac
<1>4. QED
  BY <1>1, <1>2, <1>3 DEF SInv, CallsOK

(* The invariant of splicing is one.                                       *)
LEMMA NextCalls == ASSUME NamesApart, SInv, [Next]_vars PROVE SInv'
<1>1. IInv'
  BY NextInv DEF SInv
<1>2. ASSUME UNCHANGED vars PROVE CallsOK'
  BY <1>2 DEF vars, SInv, CallsOK
<1>3. ASSUME Next PROVE CallsOK'
  BY <1>3, SkipCalls, ReimportCalls, CannotOpenCalls, EnterCalls, ReturnCalls, ImportsDoneCalls,
     InjectDatacCalls DEF Next
<1>4. QED
  BY <1>1, <1>2, <1>3 DEF SInv

(* The outermost call has collected nothing.                               *)
LEMMA InitCalls == Init => SInv
<1> SUFFICES ASSUME Init PROVE SInv
  OBVIOUS
<1>1. /\ stack = <<Root>> /\ work = <<NewCall>> /\ at = 0 /\ result = <<>> /\ IInv
  BY InitInv DEF Init
<1>2. Len(stack) = 1 /\ stack[1] = Root /\ Len(work) = 1 /\ work[1] = NewCall
  BY <1>1
<1>3. IsList(work)
  <2>1. <<NewCall>> \in Seq({NewCall})
    OBVIOUS
  <2>2. QED
    BY <1>1, <2>1, SeqIsList
<1>4. \A d \in 1..1 : d = 1
  OBVIOUS
<1>5. QED
  BY <1>1, <1>2, <1>3, <1>4, NewCallOK DEF SInv, CallsOK

-----------------------------------------------------------------------------
(* What imported files declare, and what they call their data.             *)
Declared(p) == UNION {NamesIn(p, f, k) : f \in Files \ {Root}, k \in Declares}
DataNames(p) == UNION {NamesIn(p, f, "datac") : f \in Files \ {Root}}

(* A declaration in the result has a name of a file, or that of a row of   *)
(* data that was expanded.                                                 *)
NameOK(p, n, s) ==
  /\ n.kind \in Declares => {"kind", "file", "name"} \subseteq DOMAIN n
  /\ Own(n) => \/ n.name \in Declared(p)
               \/ \E a \in DataNames(p), r \in Nat :
                    /\ n.name = <<a, r>>
                    /\ \A m \in Range(s) : Own(m) /\ m.kind = "datac" => m.name # a
  /\ Own(n) /\ n.kind = "datac" => n.name \in DataNames(p)
ListOK(p, s) == IsList(s) /\ Once(s) /\ \A n \in Range(s) : NameOK(p, n, s)
ResultOK == Len(stack) = 0 => ListOK(prog, result)

(* No file declares the name of a row.                                     *)
LEMMA RowsApart ==
  ASSUME NamesApart, NEW p \in Programs, NEW a \in DataNames(p), NEW r
  PROVE  <<a, r>> \notin Declared(p) /\ a \in Declared(p)
<1>0. \A f \in Files : Range(p[f].nodes) = {p[f].nodes[i] : i \in 1..Len(p[f].nodes)}
  BY NodesAre, ListIs
<1>1. PICK f \in Files \ {Root} : a \in NamesIn(p, f, "datac")
  BY DEF DataNames
<1>6. ASSUME NEW g \in Files, NEW k, NEW x, x \in NamesIn(p, g, k)
      PROVE  \E j \in 1..Len(p[g].nodes) : p[g].nodes[j].kind = k /\ p[g].nodes[j].name = x
  <2>1. PICK m \in Range(p[g].nodes) : m.kind = k /\ x = m.name
    BY <1>6 DEF NamesIn
  <2>2. m \in {p[g].nodes[j] : j \in 1..Len(p[g].nodes)}
    BY <1>0
  <2>3. QED
    BY <2>1, <2>2
<1>2. PICK i \in 1..Len(p[f].nodes) : p[f].nodes[i].kind = "datac" /\ p[f].nodes[i].name = a
  BY <1>1, <1>6
<1>3. a \in Declared(p)
  BY <1>1 DEF Declared, Declares
<1>4. ASSUME <<a, r>> \in Declared(p) PROVE FALSE
  <2>1. PICK g \in Files \ {Root}, k \in Declares : <<a, r>> \in NamesIn(p, g, k)
    BY <1>4 DEF Declared
  <2>2. PICK j \in 1..Len(p[g].nodes) : p[g].nodes[j].kind = k /\ p[g].nodes[j].name = <<a, r>>
    BY <1>6, <2>1
  <2>3. "datac" \in Declares
    BY DEF Declares
  <2>4. QED
    BY <1>2, <2>2, <2>3 DEF NamesApart
<1>5. QED
  BY <1>3, <1>4

(* The program with its imports in.                                        *)
LEMMA ImportsDoneResult == ASSUME NamesApart, SInv, ImportsDone PROVE ResultOK'
<1>1. /\ prog \in Programs /\ Len(stack) = 1 /\ stack[1] = Root
      /\ result' = Spliced(prog[Root].nodes, work[1]) /\ prog' = prog
      /\ CallOK(prog, Root, work[1])
  BY DEF ImportsDone, Depth, Here, SInv, IInv, CallsOK
<1>2. Root \notin FilesOf(work[1])
  BY DEF FilesOf, OwnFiles, Own
<1>3. AllFrom(prog, result') /\ Once(result')
  BY <1>1, <1>2, RootAssumption, SplicedOK
<1>4. \A n \in Range(result') : NameOK(prog, n, result')
  BY <1>3 DEF AllFrom, FromFile, NameOK, Declared, DataNames, Own, Declares
<1>5. QED
  BY <1>1, <1>3, <1>4 DEF ResultOK, ListOK, AllFrom

(* The assignments of a data file.                                         *)
LEMMA DatacNodesAre ==
  ASSUME NEW n, n.kind = "datac", {"kind", "file", "name"} \subseteq DOMAIN n,
         NEW rs, Len(rs) \in Nat
  PROVE  LET t == DatacNodes(n, rs)
         IN /\ IsList(t) /\ Len(t) = Len(rs) + 1
            /\ \A r \in 1..Len(rs) + 1 :
                 /\ t[r].kind = "var" /\ t[r].file = n.file
                 /\ {"kind", "file", "name"} \subseteq DOMAIN t[r]
                 /\ t[r].name = IF r <= Len(rs) THEN <<n.name, r>> ELSE n.name
<1> DEFINE row(r) == [n EXCEPT !.kind = "var", !.name = <<n.name, r>>, !.refs = {}, !.data = rs[r]]
           s == [r \in 1..Len(rs) |-> row(r)]
           e == [n EXCEPT !.kind = "var", !.data = <<>>,
                          !.refs = {<<n.name, r>> : r \in 1..Len(rs)}]
           t == DatacNodes(n, rs)
<1>1. t = Append(s, e)
  BY DEF DatacNodes
<1>2. \A r : /\ row(r).kind = "var" /\ row(r).file = n.file /\ row(r).name = <<n.name, r>>
             /\ {"kind", "file", "name"} \subseteq DOMAIN row(r)
  OBVIOUS
<1>3. /\ e.kind = "var" /\ e.file = n.file /\ e.name = n.name
      /\ {"kind", "file", "name"} \subseteq DOMAIN e
  OBVIOUS
<1> HIDE DEF row, e, t
<1>4. IsList(s) /\ Len(s) = Len(rs)
  <2>1. s = [r \in 1..Len(rs) |-> s[r]]
    OBVIOUS
  <2> HIDE DEF s
  <2>2. QED
    BY <2>1, FunctionIsList
<1>5. \A r \in 1..Len(rs) : s[r] = row(r)
  OBVIOUS
<1> HIDE DEF s
<1>6. /\ IsList(t) /\ Len(t) = Len(rs) + 1 /\ t[Len(rs) + 1] = e
      /\ \A r \in 1..Len(rs) : t[r] = row(r)
  BY <1>1, <1>4, <1>5, AppendIs
<1>7. \A r \in 1..Len(rs) + 1 : \/ r \in 1..Len(rs) /\ r <= Len(rs)
                                \/ r = Len(rs) + 1 /\ ~(r <= Len(rs))
  OBVIOUS
<1>8. QED
  BY <1>2, <1>3, <1>6, <1>7 DEF t
(* Expanding a data import declares nothing twice.                         *)
LEMMA ExpandOK ==
  ASSUME NamesApart, NEW p \in Programs, NEW s, ListOK(p, s), NEW k \in 1..Len(s),
         s[k].kind = "datac", NEW rs, Len(rs) \in Nat
  PROVE  ListOK(p, Replaced(s, k - 1, DatacNodes(s[k], rs), k + 1))
<1> DEFINE n == s[k]
           t == DatacNodes(n, rs)
           u == Replaced(s, k - 1, t, k + 1)
           stay == (1..k - 1) \cup (k + 1..Len(s))
<1>1. /\ IsList(s) /\ Once(s) /\ Len(s) \in Nat
      /\ Range(s) = {s[i] : i \in 1..Len(s)}
      /\ \A m \in Range(s) : NameOK(p, m, s)
  BY ListIs DEF ListOK
<1>2. n \in Range(s) /\ NameOK(p, n, s) /\ n.kind = "datac"
  BY <1>1
<1>3. {"kind", "file", "name"} \subseteq DOMAIN n
  BY <1>2 DEF NameOK, Declares
<1>4. Own(n) => n.name \in DataNames(p)
  BY <1>2 DEF NameOK
<1>6. \A i \in stay : i \in 1..Len(s) /\ i # k /\ s[i] \in Range(s)
  BY <1>1
<1>7. \A i \in stay : ~ Clash(s[i], n)
  BY <1>1, <1>6 DEF Once
<1> HIDE DEF n
<1>5. /\ IsList(t) /\ Len(t) = Len(rs) + 1
      /\ \A r \in 1..Len(rs) + 1 :
           /\ t[r].kind = "var" /\ t[r].file = n.file
           /\ {"kind", "file", "name"} \subseteq DOMAIN t[r]
           /\ t[r].name = IF r <= Len(rs) THEN <<n.name, r>> ELSE n.name
  BY <1>2, <1>3, DatacNodesAre
<1> HIDE DEF t
<1>8. \A r \in 1..Len(t) : Own(t[r]) => Own(n)
  BY <1>2, <1>5 DEF Own, Declares
<1>20. Own(n) => \A r : <<n.name, r>> # n.name
  BY <1>4, RowsApart
<1>9. Once(t)
  <2> SUFFICES ASSUME NEW i \in 1..Len(t), NEW j \in 1..Len(t), Clash(t[i], t[j]) PROVE i = j
    BY DEF Once
  <2>1. Own(n) /\ t[i].name = t[j].name
    BY <1>8 DEF Clash
  <2>2. /\ i \in 1..Len(rs) + 1 /\ j \in 1..Len(rs) + 1
        /\ t[i].name = IF i <= Len(rs) THEN <<n.name, i>> ELSE n.name
        /\ t[j].name = IF j <= Len(rs) THEN <<n.name, j>> ELSE n.name
    BY <1>5
  <2>3. CASE i <= Len(rs) /\ j <= Len(rs)
    <3>1. <<n.name, i>> = <<n.name, j>>
      BY <2>1, <2>2, <2>3
    <3>2. QED
      BY <3>1
  <2>4. CASE i <= Len(rs) /\ ~(j <= Len(rs))
    BY <1>20, <2>1, <2>2, <2>4
  <2>5. CASE ~(i <= Len(rs)) /\ j <= Len(rs)
    BY <1>20, <2>1, <2>2, <2>5
  <2>6. CASE ~(i <= Len(rs)) /\ ~(j <= Len(rs))
    BY <2>2, <2>6
  <2>7. QED
    BY <2>3, <2>4, <2>5, <2>6
<1>10. ASSUME NEW i \in stay, NEW j \in 1..Len(t), Clash(s[i], t[j]) PROVE FALSE
  <2>1. Own(n) /\ Own(s[i]) /\ s[i].name = t[j].name
    BY <1>8, <1>10 DEF Clash
  <2>2. s[i].name # n.name
    BY <1>7, <2>1 DEF Clash
  <2>3. j <= Len(rs) /\ t[j].name = <<n.name, j>>
    BY <1>5, <2>1, <2>2
  <2>4. s[i].name \notin Declared(p)
    BY <1>4, <2>1, <2>3, RowsApart
  <2>5. NameOK(p, s[i], s)
    BY <1>1, <1>6
  <2>6. PICK a \in DataNames(p), r \in Nat :
          /\ s[i].name = <<a, r>>
          /\ \A m \in Range(s) : Own(m) /\ m.kind = "datac" => m.name # a
    BY <2>1, <2>4, <2>5 DEF NameOK
  <2>7. n.name # a
    BY <1>2, <2>1, <2>6
  <2>8. <<a, r>> = <<n.name, j>>
    BY <2>1, <2>3, <2>6
  <2>9. QED
    BY <2>7, <2>8
<1>11. k - 1 \in 0..Len(s) /\ k + 1 \in 1..Len(s) + 1 /\ k - 1 < k + 1
  BY <1>1
<1>12. Once(u)
  <2> DEFINE h == k - 1
             l == k + 1
  <2>1. /\ h \in 0..Len(s) /\ l \in 1..Len(s) + 1 /\ h < l
        /\ \A i \in (1..h) \cup (l..Len(s)), j \in 1..Len(t) : ~ Clash(s[i], t[j])
    BY <1>10, <1>11
  <2> HIDE DEF h, l, stay, u
  <2>2. Once(Replaced(s, h, t, l))
    BY <1>1, <1>5, <1>9, <2>1, OnceReplaced
  <2>3. QED
    BY <2>2 DEF h, l, u
<1>13. /\ IsList(u)
       /\ \A i \in 1..Len(u) : (\E j \in stay : u[i] = s[j]) \/ (\E j \in 1..Len(t) : u[i] = t[j])
  <2> DEFINE h == k - 1
             l == k + 1
  <2>1. h \in 0..Len(s) /\ l \in 1..Len(s) + 1 /\ h < l /\ u = Replaced(s, h, t, l)
    BY <1>11
  <2>2. stay = (1..h) \cup (l..Len(s))
    OBVIOUS
  <2> HIDE DEF h, l, stay, u
  <2>3. LET v == Replaced(s, h, t, l)
        IN /\ IsList(v) /\ Len(v) = h + Len(t) + Len(s) - l + 1
           /\ \A i \in 1..Len(v) :
                v[i] = IF i <= h THEN s[i] ELSE IF i <= h + Len(t) THEN t[i - h]
                       ELSE s[i - h - Len(t) + l - 1]
    <3>1. h \in 0..Len(s) /\ l \in 1..Len(s) + 1 /\ h < l /\ IsList(s) /\ IsList(t)
      BY <1>1, <1>5, <2>1
    <3>2. QED
      BY <3>1, ReplacedIs, SMTT(30)
  <2>4. /\ IsList(u) /\ Len(u) = h + Len(t) + Len(s) - l + 1
        /\ \A i \in 1..Len(u) :
             u[i] = IF i <= h THEN s[i] ELSE IF i <= h + Len(t) THEN t[i - h]
                    ELSE s[i - h - Len(t) + l - 1]
    BY <2>1, <2>3
  <2>5. Len(t) \in Nat
    BY <1>5, ListIs
  <2>6. ASSUME NEW i \in 1..Len(u)
        PROVE  (\E j \in stay : u[i] = s[j]) \/ (\E j \in 1..Len(t) : u[i] = t[j])
    <3>1. CASE i <= h
      <4>1. i \in stay
        BY <2>2, <3>1
      <4>2. QED
        BY <2>4, <3>1, <4>1
    <3>2. CASE ~(i <= h) /\ i <= h + Len(t)
      <4>1. i - h \in 1..Len(t)
        BY <2>1, <2>5, <3>2
      <4>2. QED
        BY <2>4, <3>2, <4>1
    <3>3. CASE ~(i <= h) /\ ~(i <= h + Len(t))
      <4>1. i - h - Len(t) + l - 1 \in l..Len(s)
        BY <1>1, <2>1, <2>4, <2>5, <3>3
      <4>2. i - h - Len(t) + l - 1 \in stay
        BY <2>2, <4>1
      <4>3. QED
        BY <2>4, <3>3, <4>2
    <3>4. QED
      BY <3>1, <3>2, <3>3
  <2>7. QED
    BY <2>4, <2>6
<1>14. Range(u) = {u[i] : i \in 1..Len(u)}
  BY <1>13, ListIs
<1> HIDE DEF stay, u
<1>15. \A m \in Range(u) : Own(m) /\ m.kind = "datac" => \E j \in stay : m = s[j]
  <2>1. \A j \in 1..Len(t) : t[j].kind = "var"
    BY <1>5
  <2>2. \A m \in Range(u) : (\E j \in stay : m = s[j]) \/ (\E j \in 1..Len(t) : m = t[j])
    BY <1>13, <1>14
  <2>3. QED
    BY <2>1, <2>2
<1>16. ASSUME NEW m \in Range(u) PROVE NameOK(p, m, u)
  <2>1. CASE \E j \in stay : m = s[j]
    <3>1. NameOK(p, m, s)
      BY <1>1, <1>6, <2>1
    <3>2. ASSUME NEW a, \A x \in Range(s) : Own(x) /\ x.kind = "datac" => x.name # a
          PROVE  \A x \in Range(u) : Own(x) /\ x.kind = "datac" => x.name # a
      BY <1>6, <1>15, <3>2
    <3>3. QED
      BY <3>1, <3>2 DEF NameOK
  <2>2. CASE \E j \in 1..Len(t) : m = t[j]
    <3>1. PICK j \in 1..Len(t) : m = t[j]
      BY <2>2
    <3>2. /\ m.kind = "var" /\ {"kind", "file", "name"} \subseteq DOMAIN m
          /\ j \in Nat /\ m.name = IF j <= Len(rs) THEN <<n.name, j>> ELSE n.name
      BY <1>5, <3>1
    <3>3. ASSUME Own(m) PROVE \/ m.name \in Declared(p)
                              \/ \E a \in DataNames(p), r \in Nat :
                                   /\ m.name = <<a, r>>
                                   /\ \A x \in Range(u) : Own(x) /\ x.kind = "datac" => x.name # a
      <4>1. Own(n) /\ n.name \in DataNames(p)
        BY <1>4, <1>8, <3>1, <3>3
      <4>2. \A x \in Range(u) : Own(x) /\ x.kind = "datac" => x.name # n.name
        BY <1>7, <1>15, <4>1 DEF Clash
      <4>3. n.name \in Declared(p)
        BY <4>1, RowsApart
      <4>4. QED
        BY <3>2, <4>1, <4>2, <4>3
    <3>4. QED
      BY <3>2, <3>3 DEF NameOK
  <2>3. QED
    BY <1>13, <1>14, <2>1, <2>2
<1>17. QED
  BY <1>12, <1>13, <1>16 DEF ListOK, u, t, n

(* The pass over data imports keeps the spliced program without clashes.   *)
LEMMA InjectDatacResult == ASSUME NamesApart, SInv, ResultOK, InjectDatac PROVE ResultOK'
<1>1. Len(stack) = 0 /\ prog \in Programs /\ at \in Nat \ {0} /\ UNCHANGED <<prog, stack>>
  BY DEF InjectDatac, PassNode, Expand, IsData, Depth, SInv, IInv, CallsOK
<1>2. ListOK(prog, result)
  BY <1>1 DEF ResultOK
<1>3. CASE PassNode
  BY <1>1, <1>2, <1>3 DEF PassNode, ResultOK
<1>4. ASSUME NEW rs, Len(rs) \in Nat, Expand(rs) PROVE ResultOK'
  <2>1. /\ at <= Len(result) /\ result[at].kind = "datac"
        /\ result' = Replaced(result, at - 1, DatacNodes(result[at], rs), at + 1)
    BY <1>4 DEF Expand, IsData, Replaced
  <2>2. at \in 1..Len(result)
    BY <1>1, <1>2, <2>1, ListIs DEF ListOK
  <2>3. ListOK(prog, result')
    BY <1>1, <1>2, <1>4, <2>1, <2>2, ExpandOK
  <2>4. QED
    BY <1>1, <2>3 DEF ResultOK
<1>5. QED
  BY <1>3, <1>4 DEF InjectDatac

(* So does every step.                                                     *)
LEMMA NextResult == ASSUME NamesApart, SInv, ResultOK, [Next]_vars PROVE ResultOK'
<1>1. ASSUME Skip \/ Reimport \/ CannotOpen PROVE ResultOK'
  BY <1>1 DEF Skip, Reimport, CannotOpen, ResultOK
<1>2. ASSUME Enter PROVE ResultOK'
  <2>1. Len(stack') # 0
    BY <1>2, EnterCalls, Current, ImportTarget DEF Enter, AtImport, AtChild, SInv, IInv, TypeOK
  <2>2. QED
    BY <2>1 DEF ResultOK
<1>3. ASSUME Return PROVE ResultOK'
  <2>1. Len(stack') # 0
    <3>1. /\ Depth \in Nat /\ Depth > 1 /\ Depth = Len(stack) /\ stack \in Seq(Files)
          /\ stack' = Front(stack)
      BY <1>3, Current DEF Return, AtEnd
    <3>2. QED
      BY <3>1, FrontProperties
  <2>2. QED
    BY <2>1 DEF ResultOK
<1>4. ASSUME ImportsDone PROVE ResultOK'
  BY <1>4, ImportsDoneResult
<1>5. ASSUME InjectDatac PROVE ResultOK'
  BY <1>5, InjectDatacResult
<1>6. ASSUME UNCHANGED vars PROVE ResultOK'
  BY <1>6 DEF vars, ResultOK
<1>7. QED
  BY <1>1, <1>2, <1>3, <1>4, <1>5, <1>6 DEF Next

(* However the files import each other, what an imported file declares is  *)
(* in the program once, the assignments of its data included.              *)
THEOREM DeclaredOnce == ASSUME NamesApart PROVE Spec => []OnceEach
<1> DEFINE I == SInv /\ ResultOK
<1>1. Init => I
  <2>1. Init => Len(stack) # 0
    BY DEF Init
  <2>2. QED
    BY <2>1, InitCalls DEF ResultOK
<1>2. I /\ [Next]_vars => I'
  BY NextCalls, NextResult
<1>3. I => OnceEach
  <2> SUFFICES ASSUME I, NEW i \in InResult({"func", "var"}), NEW j \in InResult({"func", "var"}),
                      result[i].file # Root, result[j].file # Root, result[i].name = result[j].name
               PROVE  i = j
    BY DEF OnceEach
  <2>1. i \in 1..Len(result) /\ j \in 1..Len(result) /\ Clash(result[i], result[j])
    BY DEF InResult, Clash, Own, Declares
  <2>2. CASE Len(stack) = 0
    BY <2>1, <2>2 DEF ResultOK, ListOK, Once
  <2>3. CASE Len(stack) # 0
    <3>1. Len(stack) \in Nat
      BY DEF SInv, IInv, TypeOK
    <3>2. result = <<>>
      BY <2>3, <3>1 DEF SInv, CallsOK
    <3>3. QED
      BY <2>1, <3>2
  <2>4. QED
    BY <2>2, <2>3
<1> HIDE DEF I
<1>4. QED
  BY <1>1, <1>2, <1>3, PTL DEF Spec

-----------------------------------------------------------------------------
(* What is mentioned is found.                                             *)

(* The files a file imports, and what it shows to those that import it.    *)
OpenTargets(p, f) == {t \in TargetsIn(p, f) : p[t].opens}
ProvidesIn(p, f) ==
  LET nodes == p[f].nodes
  IN IF ShowsAll(nodes, nodes) THEN DefNames(nodes) ELSE ExportedNames(nodes) \cap DefNames(nodes)

(* The files R that imports lead to are a tree: each has one importer, and *)
(* the program none.                                                       *)
Tree(p, R) ==
  /\ Root \in R /\ R \subseteq Files
  /\ \A g \in R : \A f \in TargetsIn(p, g) :
       /\ f # Root /\ (p[f].opens => f \in R)
       /\ \A h \in R : f \in TargetsIn(p, h) => h = g
SingleTree(p) == \E R : Tree(p, R)

(* What a file's code may count on: its own definitions and, in a tree,    *)
(* those of the files it imports.                                          *)
KnownTo(p, f) ==
  DefNames(p[f].nodes) \cup
    (IF SingleTree(p) THEN UNION {ProvidesIn(p, t) : t \in OpenTargets(p, f)} ELSE {})
Finds(p, s) ==
  \A n \in Range(s) : n.kind \in {"func", "stmt"} => n.refs \cap KnownTo(p, n.file) \subseteq DefNames(s)

(* A name tells a definition, in imported files and the program alike.     *)
DefsApart ==
  \A p \in Programs : \A f, g \in Files : \A m \in Range(p[f].nodes), n \in Range(p[g].nodes) :
    m.kind = "func" /\ n.kind = "func" /\ m.name = n.name => m = n

(* The definitions of a list are those of its elements.                    *)
LEMMA DefNamesIs ==
  ASSUME NEW s, IsList(s)
  PROVE  DefNames(s) = {n.name : n \in {m \in Range(s) : m.kind = "func"}}
<1>1. Range(s) = {s[i] : i \in 1..Len(s)}
  BY ListIs
<1>2. QED
  BY <1>1 DEF DefNames, Defs

(* Of a definition that is shown all is shown that it mentions.            *)
LEMMA FindsForwarded ==
  ASSUME DefsApart, NEW p \in Programs, NEW nodes, AllFrom(p, nodes), Finds(p, nodes), NEW original
  PROVE  Finds(p, Forwarded(nodes, original))
<1> DEFINE s == Forwarded(nodes, original)
           N == Needed(nodes, ExportedNames(original))
           S == IF ShowsAll(nodes, original) THEN DefNames(nodes) ELSE N
<1>1. /\ IsList(s)
      /\ Range(s) = {n \in Range(nodes) : IsLibraryUse(n) \/ (n.kind = "func" /\ n.name \in S)}
      /\ \A n \in Range(s) : n.kind \in Forwards
  BY ForwardedOK DEF AllFrom
<1>2. DefNames(s) = {n.name : n \in {m \in Range(s) : m.kind = "func"}}
  BY <1>1, DefNamesIs
<1>3. DefNames(nodes) = {n.name : n \in {m \in Range(nodes) : m.kind = "func"}}
  BY DefNamesIs DEF AllFrom
<1> HIDE DEF s
<1>4. ASSUME NEW n \in Range(nodes), n.kind = "func", n.name \in S, NEW x \in n.refs, x \in DefNames(nodes)
      PROVE  x \in S
  <2>1. CASE ShowsAll(nodes, original)
    BY <1>4, <2>1
  <2>2. CASE ~ ShowsAll(nodes, original)
    <3>1. n.name \in N
      BY <1>4, <2>2
    <3>2. \A m \in N : Mentioned(nodes, m) \subseteq N
      BY NeededIs DEF AllFrom
    <3> DEFINE I == {i \in 1..Len(nodes) : nodes[i].kind = "func" /\ nodes[i].name = n.name}
    <3>3. Len(nodes) \in Nat /\ Range(nodes) = {nodes[i] : i \in 1..Len(nodes)}
      BY ListIs DEF AllFrom
    <3>4. I \subseteq 1..Len(nodes) /\ I # {}
      BY <1>4, <3>3
    <3> DEFINE last == Max(I)
    <3>5. last \in 1..Len(nodes) /\ nodes[last].kind = "func" /\ nodes[last].name = n.name
      <4> HIDE DEF I
      <4>1. last \in I
        BY <3>3, <3>4, MaxIs
      <4> HIDE DEF last
      <4>2. QED
        BY <4>1 DEF I
    <3>6. Mentioned(nodes, n.name) = nodes[last].refs \cap DefNames(nodes)
      <4>1. n.name \in DefNames(nodes)
        BY <1>3, <1>4
      <4>2. SelectLastInSeq(nodes, LAMBDA m : m.kind = "func" /\ m.name = n.name) = last
        BY <3>4 DEF SelectLastInSeq
      <4>3. QED
        BY <4>1, <4>2 DEF Mentioned
    <3> HIDE DEF last, I
    <3>7. nodes[last] = n
      <4>1. nodes[last] \in Range(nodes)
        BY <3>3, <3>5
      <4>2. \A m \in {nodes[last], n} : m.file \in Files /\ m \in Range(p[m.file].nodes)
        BY <1>4, <3>5, <4>1 DEF AllFrom, FromFile
      <4>3. QED
        BY <1>4, <3>5, <4>2 DEF DefsApart
    <3>8. x \in N
      BY <1>4, <3>1, <3>2, <3>6, <3>7
    <3>9. QED
      BY <2>2, <3>8
  <2>3. QED
    BY <2>1, <2>2
<1> HIDE DEF S
<1>5. ASSUME NEW n \in Range(s), n.kind \in {"func", "stmt"}
      PROVE  n.refs \cap KnownTo(p, n.file) \subseteq DefNames(s)
  <2>1. n \in Range(nodes) /\ n.kind = "func" /\ n.name \in S
    BY <1>1, <1>5 DEF Forwards, IsLibraryUse
  <2>2. n.refs \cap KnownTo(p, n.file) \subseteq DefNames(nodes)
    BY <2>1 DEF Finds
  <2>3. \A x \in n.refs \cap KnownTo(p, n.file) : x \in S /\ x \in DefNames(nodes)
    BY <1>4, <2>1, <2>2
  <2>4. \A x \in S : x \in DefNames(nodes) => x \in DefNames(s)
    BY <1>1, <1>2, <1>3
  <2>5. QED
    BY <2>3, <2>4
<1>6. QED
  BY <1>5 DEF Finds, s

(* An importer receives what the file shows of its own.                    *)
LEMMA ProvidesForwarded ==
  ASSUME NEW p \in Programs, NEW f \in Files, NEW nodes, IsList(nodes),
         \A n \in Range(p[f].nodes) : n.kind # "use" => n \in Range(nodes)
  PROVE  ProvidesIn(p, f) \subseteq DefNames(Forwarded(nodes, p[f].nodes))
<1> DEFINE own == p[f].nodes
           s == Forwarded(nodes, own)
           N == Needed(nodes, ExportedNames(own))
           S == IF ShowsAll(nodes, own) THEN DefNames(nodes) ELSE N
<1>0. IsList(own) /\ Range(own) = {own[i] : i \in 1..Len(own)} /\ Range(nodes) = {nodes[i] : i \in 1..Len(nodes)}
  BY NodesAre, ListIs
<1>1. /\ IsList(s)
      /\ Range(s) = {n \in Range(nodes) : IsLibraryUse(n) \/ (n.kind = "func" /\ n.name \in S)}
  BY ForwardedOK
<1>2. DefNames(s) = {n.name : n \in {m \in Range(s) : m.kind = "func"}}
  BY <1>1, DefNamesIs
<1>3. /\ DefNames(own) = {n.name : n \in {m \in Range(own) : m.kind = "func"}}
      /\ DefNames(nodes) = {n.name : n \in {m \in Range(nodes) : m.kind = "func"}}
  BY <1>0, DefNamesIs
<1>4. IsLibFile(own) => IsLibFile(nodes)
  <2> SUFFICES ASSUME NEW i \in 1..Len(own), own[i].kind = "backend", own[i].name = "LIB"
               PROVE  IsLibFile(nodes)
    BY DEF IsLibFile
  <2>1. own[i] \in {nodes[j] : j \in 1..Len(nodes)}
    BY <1>0
  <2>2. QED
    BY <2>1 DEF IsLibFile
<1>5. ExportedNames(own) \subseteq N
  BY NeededIs
<1> HIDE DEF s, N
<1>6. ASSUME NEW x \in ProvidesIn(p, f) PROVE x \in DefNames(own) /\ x \in S
  <2>1. x \in DefNames(own)
    BY DEF ProvidesIn
  <2>2. x \in DefNames(nodes)
    BY <1>3, <2>1
  <2>3. CASE ShowsAll(nodes, own)
    BY <2>1, <2>2, <2>3
  <2>4. CASE ~ ShowsAll(nodes, own)
    <3>1. ~ ShowsAll(own, own)
      BY <1>4, <2>4 DEF ShowsAll
    <3>2. x \in N
      BY <1>5, <3>1 DEF ProvidesIn
    <3>3. QED
      BY <2>1, <2>4, <3>2
  <2>5. QED
    BY <2>3, <2>4
<1> HIDE DEF S
<1>7. ASSUME NEW x, x \in DefNames(own), x \in S PROVE x \in DefNames(s)
  <2>1. PICK n \in Range(own) : n.kind = "func" /\ n.name = x
    BY <1>3, <1>7
  <2>2. n \in Range(s)
    BY <1>1, <1>7, <2>1
  <2>3. QED
    BY <1>2, <2>1, <2>2
<1>8. QED
  BY <1>6, <1>7 DEF s

(* In the tree of a file everything is found, once its imports are done.   *)
LEMMA FindsSpliced ==
  ASSUME NamesApart, NEW p \in Programs, NEW f \in Files, NEW w, CallOK(p, f, w), f \notin FilesOf(w),
         Finds(p, w.toAppend),
         SingleTree(p) => \A t \in OpenTargets(p, f) : ProvidesIn(p, t) \subseteq DefNames(w.toAppend)
  PROVE  LET s == Spliced(p[f].nodes, w)
         IN Finds(p, s) /\ AllFrom(p, s) /\ \A n \in Range(p[f].nodes) : n.kind # "use" => n \in Range(s)
<1> DEFINE s == Spliced(p[f].nodes, w)
           m == Marked(p[f].nodes, w)
<1>1. AllFrom(p, s) /\ Range(s) = Range(m) \cup Range(w.toAppend) \cup Range(w.toVars)
  BY SplicedOK
<1>2. /\ \A n \in Range(m) : n.kind \in Declares \cup {"stmt"} => n \in Range(p[f].nodes)
      /\ \A n \in Range(p[f].nodes) : n.kind # "use" => n \in Range(m)
  BY MarkedOK
<1>3. IsList(s) /\ IsList(w.toAppend) /\ IsList(p[f].nodes) /\ \A n \in Range(p[f].nodes) : n.file = f
  BY <1>1, NodesAre DEF AllFrom, CallOK
<1>4. \A n \in Range(w.toVars) : n.kind = "var"
  BY DEF CallOK
<1> HIDE DEF s, m
<1>5. /\ DefNames(s) = {n.name : n \in {x \in Range(s) : x.kind = "func"}}
      /\ DefNames(w.toAppend) = {n.name : n \in {x \in Range(w.toAppend) : x.kind = "func"}}
      /\ DefNames(p[f].nodes) = {n.name : n \in {x \in Range(p[f].nodes) : x.kind = "func"}}
  BY <1>3, DefNamesIs
<1>6. DefNames(w.toAppend) \subseteq DefNames(s) /\ DefNames(p[f].nodes) \subseteq DefNames(s)
  <2>1. Range(w.toAppend) \subseteq Range(s) /\ \A n \in Range(p[f].nodes) : n.kind = "func" => n \in Range(s)
    BY <1>1, <1>2
  <2>2. QED
    BY <1>5, <2>1
<1>7. ASSUME NEW n \in Range(s), n.kind \in {"func", "stmt"}
      PROVE  n.refs \cap KnownTo(p, n.file) \subseteq DefNames(s)
  <2>1. CASE n \in Range(w.toAppend)
    BY <1>6, <1>7, <2>1 DEF Finds
  <2>2. CASE n \in Range(m)
    <3>1. n.file = f
      BY <1>2, <1>3, <1>7, <2>2 DEF Declares
    <3>2. KnownTo(p, f) \subseteq DefNames(s)
      BY <1>6 DEF KnownTo
    <3>3. QED
      BY <3>1, <3>2
  <2>3. QED
    BY <1>1, <1>4, <1>7, <2>1, <2>2
<1>8. QED
  BY <1>1, <1>2, <1>7 DEF Finds, s

(* One list behind another.                                                *)
LEMMA FindsCat ==
  ASSUME NEW p, NEW a, NEW b, NEW c, IsList(a), IsList(b), IsList(c), Range(c) = Range(a) \cup Range(b)
  PROVE  /\ DefNames(a) \subseteq DefNames(c) /\ DefNames(b) \subseteq DefNames(c)
         /\ Finds(p, a) /\ Finds(p, b) => Finds(p, c)
<1>1. /\ DefNames(a) = {n.name : n \in {x \in Range(a) : x.kind = "func"}}
      /\ DefNames(b) = {n.name : n \in {x \in Range(b) : x.kind = "func"}}
      /\ DefNames(c) = {n.name : n \in {x \in Range(c) : x.kind = "func"}}
  BY DefNamesIs
<1>2. DefNames(a) \subseteq DefNames(c) /\ DefNames(b) \subseteq DefNames(c)
  BY <1>1
<1>3. QED
  BY <1>2 DEF Finds
(* What the invariant says of the calls: the imports each is past are      *)
(* visited, and it is at the import of the call it has made.               *)
UsePast(p, f, k, i) == i \in 1..Len(p[f].nodes) /\ i < k /\ p[f].nodes[i].kind = "use"
Positions ==
  /\ \A d \in 1..Len(stack) : \A i : UsePast(prog, stack[d], next[d], i) =>
       prog[stack[d]].nodes[i].target \in visited
  /\ \A d \in 1..Len(stack) - 1 : stack[d + 1] = prog[stack[d]].nodes[next[d]].target
(* And each has found what its definitions mention.                        *)
FindsOK == Positions /\ \A d \in 1..Len(stack) : Finds(prog, work[d].toAppend)

(* In a tree of files a visited file has a visited importer, and what it   *)
(* shows is there, unless it is being injected.                            *)
TheTree(p) == CHOOSE R : Tree(p, R)
Has(p, w, t) == ProvidesIn(p, t) \subseteq DefNames(w.toAppend)
Settled ==
  /\ \A d \in 1..Len(stack) : stack[d] \in TheTree(prog)
  /\ \A u \in visited : \E h \in (visited \cup {Root}) \cap TheTree(prog) : u \in TargetsIn(prog, h)
  /\ \A d \in 1..Len(stack) : \A t \in OpenTargets(prog, stack[d]) \cap visited :
       (d < Len(stack) /\ t = stack[d + 1]) \/ Has(prog, work[d], t)
FInv ==
  /\ SInv /\ FindsOK
  /\ SingleTree(prog) => Settled
  /\ Len(stack) = 0 /\ at = 1 => Finds(prog, result) /\ AllFrom(prog, result)

(* The tree is one.                                                        *)
LEMMA TreeIs == ASSUME NEW p, SingleTree(p) PROVE Tree(p, TheTree(p))
BY DEF SingleTree, TheTree

(* The file at hand is a target of the call at it.                         *)
LEMMA ChildIsTarget ==
  ASSUME SInv, AtImport
  PROVE  /\ Child.target \in TargetsIn(prog, stack[Depth])
         /\ Child.target = prog[stack[Depth]].nodes[next[Depth]].target
<1>1. WaitsAt(prog, stack[Depth], next[Depth])
  BY ImportWaits
<1>2. QED
  BY <1>1 DEF WaitsAt, TargetsIn, Child, Here

(* Steps that only move on: over another node, over a file seen, over a    *)
(* file that is not there.                                                 *)
PastOnly ==
  /\ next' = Advance
  /\ UNCHANGED <<prog, stack, at, result>>
  /\ visited \subseteq visited'
  /\ \A d \in 1..Len(stack) : work'[d].toAppend = work[d].toAppend /\ work'[d].toVars = work[d].toVars
  /\ AtChild /\ (Child.kind = "use" => Child.target \in visited')

(* They take the call past what is visited then.                           *)
LEMMA PastPositions == ASSUME SInv, Positions, PastOnly PROVE Positions'
<1> DEFINE D == Depth
<1>0. InCall /\ AtChild
  BY DEF PastOnly, AtChild
<1>1. /\ next' = Advance /\ UNCHANGED <<prog, stack>> /\ visited \subseteq visited'
      /\ Child.kind = "use" => Child.target \in visited'
  BY DEF PastOnly
<1>2. D \in Nat \ {0} /\ D = Len(stack) /\ next \in Seq(Nat \ {0}) /\ Len(next) = D
  BY <1>0, Current
<1>3. /\ \A d \in 1..D - 1 : next'[d] = next[d]
      /\ next'[D] = next[D] + 1 /\ next[D] \in Nat \ {0}
  <2>1. Updated(Advance, next, D, next[D] + 1) /\ IsList(next) /\ D \in 1..Len(next)
    BY <1>2, SeqIsList DEF Advance, Updated
  <2> DEFINE e == next[D] + 1
  <2> HIDE DEF D, e
  <2>2. \A j \in 1..Len(next) : Advance[j] = IF j = D THEN e ELSE next[j]
    BY <2>1, UpdateIs DEF e
  <2>3. QED
    BY <1>1, <1>2, <2>2 DEF e
<1> HIDE DEF D
<1>4. ASSUME NEW d \in 1..D, NEW i, UsePast(prog, stack[d], next'[d], i)
      PROVE  prog[stack[d]].nodes[i].target \in visited'
  <2>1. CASE d # D
    <3>1. next'[d] = next[d]
      BY <1>2, <1>3, <2>1
    <3>2. QED
      BY <1>1, <1>2, <1>4, <3>1 DEF Positions
  <2>2. CASE d = D
    <3>1. i \in 1..Len(prog[stack[d]].nodes) /\ i < next[D] + 1 /\ prog[stack[d]].nodes[i].kind = "use"
      BY <1>3, <1>4, <2>2 DEF UsePast
    <3>2. i = next[D] \/ UsePast(prog, stack[d], next[d], i)
      BY <1>3, <2>2, <3>1 DEF UsePast
    <3>3. CASE i = next[D]
      <4>1. prog[stack[d]].nodes[i] = Child
        BY <2>2, <3>3 DEF Child, Here, D
      <4>2. QED
        BY <1>1, <3>1, <4>1
    <3>4. CASE UsePast(prog, stack[d], next[d], i)
      BY <1>1, <1>2, <3>4 DEF Positions
    <3>5. QED
      BY <3>2, <3>3, <3>4
  <2>3. QED
    BY <2>1, <2>2
<1>5. \A d \in 1..D - 1 : stack[d + 1] = prog[stack[d]].nodes[next'[d]].target
  BY <1>2, <1>3 DEF Positions
<1>6. QED
  BY <1>1, <1>2, <1>4, <1>5 DEF Positions

(* They leave what the calls have found as it was.                         *)
LEMMA PastFinds == ASSUME SInv, FindsOK, PastOnly PROVE FindsOK'
<1>1. UNCHANGED <<prog, stack>> /\ \A d \in 1..Len(stack) : work'[d].toAppend = work[d].toAppend
  BY DEF PastOnly
<1>2. Positions'
  BY PastPositions DEF FindsOK
<1>3. QED
  BY <1>1, <1>2 DEF FindsOK

(* A file being injected is the program or visited.                        *)
LEMMA StackVisited ==
  ASSUME SInv PROVE \A d \in 1..Len(stack) : stack[d] \in visited \cup {Root}
<1>1. Len(stack) \in Nat /\ chain = {stack[d] : d \in 2..Len(stack)} /\ chain \subseteq visited
  BY DEF SInv, IInv, TypeOK, ChainIsStack
<1>2. \A d \in 1..Len(stack) : d = 1 \/ d \in 2..Len(stack)
  BY <1>1
<1>3. Len(stack) > 0 => stack[1] = Root
  BY DEF SInv, CallsOK
<1>4. QED
  BY <1>1, <1>2, <1>3

(* What is visited only goes on to be a file that does not open.           *)
LEMMA PastSettled ==
  ASSUME SInv, Settled, PastOnly,
         \/ visited' = visited
         \/ AtImport /\ visited' = visited \cup {Child.target} /\ ~ prog[Child.target].opens
  PROVE  Settled'
<1> DEFINE R == TheTree(prog)
<1>0. InCall
  BY DEF PastOnly, AtChild
<1>1. UNCHANGED <<prog, stack>> /\ \A d \in 1..Len(stack) : work'[d].toAppend = work[d].toAppend
  BY DEF PastOnly
<1>2. Depth \in 1..Len(stack)
  BY <1>0, Current
<1>3. \A u \in visited' : \E h \in (visited' \cup {Root}) \cap R : u \in TargetsIn(prog, h)
  <2>1. CASE visited' = visited
    BY <2>1 DEF Settled
  <2>2. CASE AtImport /\ visited' = visited \cup {Child.target}
    <3>1. Child.target \in TargetsIn(prog, stack[Depth])
      BY <2>2, ChildIsTarget
    <3>2. stack[Depth] \in (visited \cup {Root}) \cap R
      BY <1>2, StackVisited DEF Settled
    <3> HIDE DEF R
    <3>3. \A u \in visited : \E h \in (visited \cup {Root}) \cap R : u \in TargetsIn(prog, h)
      BY DEF Settled, R
    <3>4. QED
      BY <2>2, <3>1, <3>2, <3>3
  <2>3. QED
    BY <2>1, <2>2
<1>4. \A d \in 1..Len(stack) : \A t \in OpenTargets(prog, stack[d]) \cap visited' : t \in visited
  BY DEF OpenTargets
<1>5. \A d \in 1..Len(stack) : \A t \in OpenTargets(prog, stack[d]) \cap visited' :
        (d < Len(stack) /\ t = stack[d + 1]) \/ Has(prog, work'[d], t)
  BY <1>1, <1>4 DEF Settled, Has
<1>6. QED
  BY <1>1, <1>3, <1>5 DEF Settled

(* Skip, Reimport and CannotOpen are such steps.                           *)
LEMMA PastIs ==
  ASSUME SInv, Skip \/ Reimport \/ CannotOpen
  PROVE  /\ PastOnly /\ Len(stack') # 0
         /\ \/ visited' = visited
            \/ AtImport /\ Child.target \notin visited /\ visited' = visited \cup {Child.target}
               /\ ~ prog[Child.target].opens
<1>0. InCall /\ AtChild
  BY DEF Skip, Reimport, CannotOpen, AtImport, AtChild
<1>1. /\ next' = Advance /\ UNCHANGED <<prog, stack, at, result>>
      /\ \/ work' = work
         \/ work' = [work EXCEPT ![Depth] = MarkInlined(work[Depth], next[Depth])]
  BY DEF Skip, Reimport, CannotOpen
<1>2. \/ visited' = visited
      \/ AtImport /\ Child.target \notin visited /\ visited' = visited \cup {Child.target}
         /\ ~ prog[Child.target].opens
  BY DEF Skip, Reimport, CannotOpen, Seen
<1>3. Child.kind = "use" => Child.target \in visited'
  BY DEF Skip, Reimport, CannotOpen, Seen
<1>4. \A d \in 1..Len(stack) : work'[d].toAppend = work[d].toAppend /\ work'[d].toVars = work[d].toVars
  <2>1. CASE work' = work
    BY <2>1
  <2>2. CASE Reimport /\ work' = [work EXCEPT ![Depth] = MarkInlined(work[Depth], next[Depth])]
    <3> DEFINE D == Depth
               r == MarkInlined(work[D], next[D])
    <3>1. IsList(work) /\ D \in 1..Len(work) /\ Len(work) = Len(stack) /\ AtImport
      BY <1>0, <2>2, Current DEF Reimport
    <3>2. r.toAppend = work[D].toAppend /\ r.toVars = work[D].toVars
      <4>1. CallOK(prog, stack[D], work[D]) /\ WaitsAt(prog, stack[D], next[D])
        BY <3>1, ImportWaits DEF SInv, CallsOK
      <4>2. QED
        BY <4>1, MarkInlinedIs
    <3>3. Updated(work', work, D, r)
      BY <2>2 DEF Updated
    <3> HIDE DEF D, r
    <3>4. \A d \in 1..Len(work) : work'[d] = IF d = D THEN r ELSE work[d]
      BY <3>1, <3>3, UpdateIs
    <3>5. QED
      BY <3>1, <3>2, <3>4
  <2>3. QED
    BY <1>1, <2>1, <2>2 DEF Skip, CannotOpen
<1>5. visited \subseteq visited'
  BY <1>2
<1>6. PastOnly
  BY <1>0, <1>1, <1>3, <1>4, <1>5 DEF PastOnly
<1>7. Len(stack') # 0
  BY <1>0, <1>1, Current
<1>8. QED
  BY <1>2, <1>6, <1>7

(* So they leave all as it was.                                            *)
LEMMA PastFound ==
  ASSUME FInv, Skip \/ Reimport \/ CannotOpen
  PROVE  FindsOK' /\ (SingleTree(prog) => Settled)' /\ Len(stack') # 0
<1>1. SInv /\ FindsOK /\ PastOnly /\ Len(stack') # 0
  BY PastIs DEF FInv
<1>2. FindsOK'
  BY <1>1, PastFinds
<1>3. UNCHANGED prog
  BY <1>1 DEF PastOnly
<1>4. (SingleTree(prog) => Settled)'
  BY <1>1, <1>3, PastIs, PastSettled DEF FInv
<1>5. QED
  BY <1>1, <1>2, <1>4

(* In a tree a file is on the stack once.                                  *)
LEMMA StackApart ==
  ASSUME SInv, SingleTree(prog), Settled, FindsOK,
         NEW d \in 1..Len(stack), NEW e \in 1..Len(stack), stack[d] = stack[e]
  PROVE  d = e
<1>1. Len(stack) \in Nat /\ prog \in Programs
  BY DEF SInv, IInv, TypeOK
<1>2. ASSUME NEW c \in 2..Len(stack) PROVE stack[c] # Root
  <2>1. c - 1 \in 1..Len(stack) - 1 /\ c - 1 + 1 = c /\ c - 1 \in 1..Len(stack)
    BY <1>1
  <2> DEFINE b == c - 1
  <2>2. stack[c] = prog[stack[b]].nodes[next[b]].target /\ WaitsAt(prog, stack[b], next[b])
    BY <2>1 DEF FindsOK, Positions, SInv, CallsOK
  <2>3. stack[c] \in TargetsIn(prog, stack[b])
    BY <2>2 DEF WaitsAt, TargetsIn
  <2>4. stack[b] \in TheTree(prog)
    BY <2>1 DEF Settled
  <2>5. QED
    BY <2>3, <2>4, TreeIs DEF Tree
<1>3. stack[1] = Root
  BY <1>1 DEF SInv, CallsOK
<1>4. \A c \in 1..Len(stack) : c = 1 \/ c \in 2..Len(stack)
  BY <1>1
<1>5. QED
  BY <1>2, <1>3, <1>4 DEF SInv, IInv, ChainIsStack

(* What a call leaves that enters a file.                                  *)
LEMMA EnterIs ==
  ASSUME SInv, Enter
  PROVE  LET f == Child.target
             D == Len(stack)
         IN /\ D \in Nat \ {0} /\ f \in Files /\ f \notin visited /\ prog[f].opens
            /\ visited' = visited \cup {f} /\ UNCHANGED <<prog, at, result>>
            /\ Len(stack') = D + 1 /\ stack'[D + 1] = f /\ next'[D + 1] = 1 /\ work'[D + 1] = NewCall
            /\ \A d \in 1..D : stack'[d] = stack[d] /\ next'[d] = next[d] /\ work'[d] = work[d]
<1> DEFINE f == Child.target
<1>0. InCall /\ AtImport
  BY DEF Enter, AtImport, AtChild
<1>1. /\ f \notin visited /\ prog[f].opens /\ visited' = visited \cup {f}
      /\ stack' = Append(stack, f) /\ next' = Append(next, 1) /\ work' = Append(work, NewCall)
      /\ UNCHANGED <<prog, at, result>>
  BY DEF Enter, Seen, Visit
<1>2. f \in Files
  BY <1>0, ImportTarget DEF SInv
<1> HIDE DEF f
<1>3. /\ Len(stack') = Len(stack) + 1 /\ stack'[Len(stack) + 1] = f /\ next'[Len(stack) + 1] = 1
      /\ \A d \in 1..Len(stack) : stack'[d] = stack[d] /\ next'[d] = next[d]
  BY <1>0, <1>1, <1>2, Current
<1>4. work'[Len(stack) + 1] = NewCall /\ \A d \in 1..Len(stack) : work'[d] = work[d]
  BY <1>0, <1>1, Current, AppendIs
<1>5. Len(stack) \in Nat \ {0}
  BY <1>0, Current
<1>6. QED
  BY <1>1, <1>2, <1>3, <1>4, <1>5 DEF f

(* A call that begins has nothing to find.                                 *)
LEMMA NewCallFinds == ASSUME NEW p PROVE Finds(p, NewCall.toAppend)
<1>1. NewCall.toAppend = <<>>
  BY DEF NewCall
<1>2. QED
  BY <1>1, EmptyIs DEF Finds

(* The call it makes is past nothing.                                      *)
LEMMA EnterPositions == ASSUME SInv, Positions, Enter PROVE Positions'
<1> DEFINE f == Child.target
           D == Len(stack)
<1>0. InCall /\ AtImport
  BY DEF Enter, AtImport, AtChild
<1>1. /\ D \in Nat \ {0} /\ f \in Files /\ visited' = visited \cup {f} /\ UNCHANGED prog
      /\ Len(stack') = D + 1 /\ stack'[D + 1] = f /\ next'[D + 1] = 1
      /\ \A d \in 1..D : stack'[d] = stack[d] /\ next'[d] = next[d]
  BY EnterIs
<1>2. f = prog[stack[D]].nodes[next[D]].target /\ D \in 1..D /\ prog \in Programs
  BY <1>0, <1>1, ChildIsTarget, Current
<1> HIDE DEF f, D
<1>3. \A d \in 1..D + 1 : d \in 1..D \/ d = D + 1
  BY <1>1
<1>4. \A d \in 1..D + 1 : \A i : UsePast(prog, stack'[d], next'[d], i) =>
        prog[stack'[d]].nodes[i].target \in visited'
  <2>1. \A i : ~ UsePast(prog, f, 1, i)
    <3>1. Len(prog[f].nodes) \in Nat
      BY <1>1, <1>2, NodesAre
    <3> SUFFICES ASSUME NEW i, i \in 1..Len(prog[f].nodes), i < 1 PROVE FALSE
      BY DEF UsePast
    <3>2. QED
      BY <3>1
  <2>2. \A d \in 1..D : \A i : UsePast(prog, stack[d], next[d], i) => prog[stack[d]].nodes[i].target \in visited
    BY DEF Positions, D
  <2>3. QED
    BY <1>1, <1>3, <2>1, <2>2
<1>5. \A d \in 1..D : stack'[d + 1] = prog[stack'[d]].nodes[next'[d]].target
  <2>1. \A d \in 1..D - 1 : stack[d + 1] = prog[stack[d]].nodes[next[d]].target /\ d + 1 \in 1..D /\ d \in 1..D
    BY <1>1 DEF Positions, D
  <2>2. \A d \in 1..D : d = D \/ d \in 1..D - 1
    BY <1>1
  <2>3. QED
    BY <1>1, <1>2, <2>1, <2>2
<1>6. D + 1 - 1 = D
  BY <1>1
<1>7. QED
  BY <1>1, <1>4, <1>5, <1>6 DEF Positions

(* Entering a file.                                                        *)
LEMMA EnterFound ==
  ASSUME FInv, Enter
  PROVE  FindsOK' /\ (SingleTree(prog) => Settled)' /\ Len(stack') # 0
<1> DEFINE f == Child.target
           D == Len(stack)
           R == TheTree(prog)
<1>0. InCall /\ AtImport /\ SInv /\ FindsOK
  BY DEF Enter, AtImport, AtChild, FInv
<1>1. /\ D \in Nat \ {0} /\ f \in Files /\ f \notin visited /\ prog[f].opens
      /\ visited' = visited \cup {f} /\ UNCHANGED <<prog, at, result>>
      /\ Len(stack') = D + 1 /\ stack'[D + 1] = f /\ next'[D + 1] = 1 /\ work'[D + 1] = NewCall
      /\ \A d \in 1..D : stack'[d] = stack[d] /\ next'[d] = next[d] /\ work'[d] = work[d]
  BY <1>0, EnterIs
<1>2. /\ f \in TargetsIn(prog, stack[D]) /\ f = prog[stack[D]].nodes[next[D]].target
      /\ D \in 1..D /\ prog \in Programs
  BY <1>0, <1>1, ChildIsTarget, Current
<1> HIDE DEF f, D
<1>3. \A d \in 1..D + 1 : d \in 1..D \/ d = D + 1
  BY <1>1
<1>4. FindsOK'
  <2>1. \A d \in 1..D + 1 : Finds(prog, work'[d].toAppend)
    BY <1>0, <1>1, <1>3, NewCallFinds DEF FindsOK, Positions, D
  <2>2. Positions'
    BY <1>0, EnterPositions DEF FindsOK
  <2>3. QED
    BY <1>1, <2>1, <2>2 DEF FindsOK
<1>5. ASSUME SingleTree(prog) PROVE Settled'
  <2>1. Settled /\ Tree(prog, R)
    BY <1>5, TreeIs DEF FInv
  <2>2. stack[D] \in R /\ f # Root /\ f \in R /\ \A h \in R : f \in TargetsIn(prog, h) => h = stack[D]
    <3>1. stack[D] \in R
      BY <1>2, <2>1 DEF Settled, D
    <3> HIDE DEF R
    <3>2. QED
      BY <1>1, <1>2, <2>1, <3>1 DEF Tree
  <2> HIDE DEF R
  <2>3. stack[D] \in visited \cup {Root} /\ stack[D] # f
    BY <1>0, <1>1, <1>2, <2>2, StackVisited DEF D
  <2>4. \A d \in 1..D + 1 : stack'[d] \in R
    BY <1>1, <1>3, <2>1, <2>2 DEF Settled, D, R
  <2>5. \A u \in visited : \E h \in (visited \cup {Root}) \cap R : u \in TargetsIn(prog, h)
    BY <2>1 DEF Settled, R
  <2>6. \A u \in visited' : \E h \in (visited' \cup {Root}) \cap R : u \in TargetsIn(prog, h)
    BY <1>1, <1>2, <2>2, <2>3, <2>5
  <2>7. ASSUME NEW d \in 1..D + 1, NEW t \in OpenTargets(prog, stack'[d]) \cap visited'
        PROVE  (d < D + 1 /\ t = stack'[d + 1]) \/ Has(prog, work'[d], t)
    <3>1. CASE d = D + 1
      <4>1. t \in TargetsIn(prog, f) /\ t \in visited'
        BY <1>1, <2>7, <3>1 DEF OpenTargets
      <4>2. \A h \in R : t \in TargetsIn(prog, h) => h = f
        BY <2>1, <2>2, <4>1 DEF Tree
      <4>3. CASE t = f
        BY <2>2, <2>3, <4>1, <4>3
      <4>4. CASE t \in visited
        <5>1. PICK h \in (visited \cup {Root}) \cap R : t \in TargetsIn(prog, h)
          BY <2>5, <4>4
        <5>2. h = f
          BY <4>2, <5>1
        <5>3. QED
          BY <1>1, <2>2, <5>1, <5>2
      <4>5. QED
        BY <1>1, <4>1, <4>3, <4>4
    <3>2. CASE d \in 1..D
      <4>0. d \in 1..D /\ stack'[d] = stack[d] /\ work'[d] = work[d] /\ t \in OpenTargets(prog, stack[d])
        BY <1>1, <2>7, <3>2
      <4>1. CASE t = f
        <5>1. stack[d] \in R
          BY <2>1, <4>0 DEF Settled, D, R
        <5>2. stack[d] = stack[D]
          BY <2>2, <4>0, <4>1, <5>1 DEF OpenTargets
        <5>3. d = D
          BY <1>0, <1>2, <1>5, <2>1, <4>0, <5>2, StackApart DEF D
        <5>4. QED
          BY <1>1, <4>1, <5>3
      <4>2. CASE t \in visited
        <5>1. (d < D /\ t = stack[d + 1]) \/ Has(prog, work[d], t)
          BY <2>1, <4>0, <4>2 DEF Settled, D
        <5>2. CASE d < D /\ t = stack[d + 1]
          <6>1. d + 1 \in 1..D /\ d < D + 1
            BY <1>1, <4>0, <5>2
          <6>2. QED
            BY <1>1, <5>2, <6>1
        <5>3. QED
          BY <4>0, <5>1, <5>2
      <4>3. QED
        BY <1>1, <2>7, <4>1, <4>2
    <3>3. QED
      BY <1>3, <3>1, <3>2
  <2>8. QED
    BY <1>1, <2>4, <2>6, <2>7 DEF Settled, R
<1>6. QED
  BY <1>1, <1>4, <1>5

(* The nodes a call returns have the file's own, and find what they name.  *)
EndsFound(d) ==
  LET g == stack[d]
      nodes == Spliced(prog[g].nodes, work[d])
  IN /\ AllFrom(prog, nodes) /\ Finds(prog, nodes)
     /\ \A n \in Range(prog[g].nodes) : n.kind # "use" => n \in Range(nodes)
(* So it is at the end of the innermost call.                              *)
LEMMA CallFound ==
  ASSUME NamesApart, FInv, AtEnd, Depth = 1 \/ stack[Depth] \in chain
  PROVE  EndsFound(Depth)
<1> DEFINE D == Depth
           g == stack[D]
           w == work[D]
           p == prog
<1>1. D = Len(stack) /\ D \in 1..Len(stack) /\ p \in Programs /\ g \in Files /\ next[D] > Len(p[g].nodes) /\ next[D] \in Nat
  BY Current DEF FInv, AtEnd, Here
<1>2. CallOK(p, g, w) /\ Finds(p, w.toAppend) /\ FilesOf(w) \subseteq visited \ chain
  BY <1>1 DEF FInv, FindsOK, Positions, SInv, CallsOK
<1>3. g \notin FilesOf(w)
  <2>1. CASE g \in chain
    BY <1>2, <2>1
  <2>2. CASE D = 1
    <3>1. g = Root
      BY <1>1, <2>2 DEF FInv, SInv, CallsOK
    <3>2. QED
      BY <3>1 DEF FilesOf, OwnFiles, Own
  <2>3. QED
    BY <2>1, <2>2
<1>4. \A t \in TargetsIn(p, g) : t \in visited
  <2>1. \A i \in 1..Len(p[g].nodes) : p[g].nodes[i].kind = "use" => UsePast(p, g, next[D], i)
    <3>1. Len(p[g].nodes) \in Nat
      BY <1>1, NodesAre
    <3>2. \A i \in 1..Len(p[g].nodes) : i < next[D]
      BY <1>1, <3>1
    <3>3. QED
      BY <3>2 DEF UsePast
  <2>2. \A i : UsePast(p, g, next[D], i) => p[g].nodes[i].target \in visited
    BY <1>1 DEF FInv, FindsOK, Positions
  <2>3. QED
    BY <2>1, <2>2 DEF TargetsIn
<1>5. SingleTree(p) => \A t \in OpenTargets(p, g) : ProvidesIn(p, t) \subseteq DefNames(w.toAppend)
  <2> SUFFICES ASSUME SingleTree(p), NEW t \in OpenTargets(p, g)
               PROVE  ProvidesIn(p, t) \subseteq DefNames(w.toAppend)
    OBVIOUS
  <2>1. t \in OpenTargets(prog, stack[D]) \cap visited
    BY <1>4 DEF OpenTargets
  <2>2. ~ (D < Len(stack))
    BY <1>1
  <2>3. QED
    BY <1>1, <2>1, <2>2 DEF FInv, Settled, Has
<1> HIDE DEF g, w, p
<1>6. LET s == Spliced(p[g].nodes, w)
      IN Finds(p, s) /\ AllFrom(p, s) /\ \A n \in Range(p[g].nodes) : n.kind # "use" => n \in Range(s)
  BY <1>1, <1>2, <1>3, <1>5, FindsSpliced
<1>7. QED
  BY <1>6 DEF EndsFound, g, w, p

(* A call that returns hands over what is found, and what its file shows.  *)
LEMMA HandedFinds ==
  ASSUME NamesApart, DefsApart, FInv, Return
  PROVE  LET D == Len(stack)
         IN /\ Finds(prog, Handed(D).toAppend)
            /\ Has(prog, Handed(D), stack[D])
            /\ \A t : Has(prog, work[D - 1], t) => Has(prog, Handed(D), t)
<1> DEFINE D == Len(stack)
           g == stack[D]
           p == prog
           nodes == Spliced(p[g].nodes, work[D])
           a == work[D - 1].toAppend
           b == Forwarded(nodes, p[g].nodes)
           c == Handed(D).toAppend
<1>1. D \in Nat /\ D > 1 /\ g \in Files /\ p \in Programs
  BY ReturnIs DEF FInv
<1>2. D - 1 \in 1..D
  BY <1>1
<1>3. /\ g \in chain /\ CallOK(p, stack[D - 1], work[D - 1]) /\ CallOK(p, stack[D - 1], Handed(D))
      /\ Range(c) = Range(a) \cup Range(b)
  BY HandedOK DEF FInv
<1>4. EndsFound(D)
  <2>1. AtEnd /\ Depth = D /\ stack[Depth] \in chain
    BY <1>3 DEF Return, Depth
  <2>2. QED
    BY <2>1, CallFound
<1>5. Finds(p, a)
  BY <1>2 DEF FInv, FindsOK, Positions
<1>6. AllFrom(p, nodes) /\ Finds(p, nodes) /\ \A n \in Range(p[g].nodes) : n.kind # "use" => n \in Range(nodes)
  BY <1>4 DEF EndsFound
<1>7. IsList(a) /\ IsList(c)
  BY <1>3 DEF CallOK, AllFrom
<1> HIDE DEF D, g, p, nodes
<1>8. IsList(nodes)
  BY <1>6 DEF AllFrom
<1>9. Finds(p, b)
  BY <1>1, <1>6, FindsForwarded
<1>10. ProvidesIn(p, g) \subseteq DefNames(b)
  BY <1>1, <1>6, <1>8, ProvidesForwarded
<1>11. IsList(b)
  BY <1>8, ForwardedOK
<1> HIDE DEF a, b, c
<1>12. DefNames(a) \subseteq DefNames(c) /\ DefNames(b) \subseteq DefNames(c) /\ Finds(p, c)
  BY <1>3, <1>5, <1>7, <1>9, <1>11, FindsCat
<1>13. QED
  BY <1>10, <1>12 DEF Has, D, g, p, a, c

(* The importer is past the file that is done.                             *)
LEMMA ReturnPositions == ASSUME SInv, Positions, Return PROVE Positions'
<1> DEFINE D == Len(stack)
           g == stack[D]
<1>1. /\ D \in Nat /\ D > 1 /\ Len(stack') = D - 1 /\ \A d \in 1..D - 1 : stack'[d] = stack[d]
      /\ \A d \in 1..D - 2 : next'[d] = next[d]
      /\ next'[D - 1] = next[D - 1] + 1
      /\ UNCHANGED <<prog, visited>>
  BY ReturnIs
<1>3. /\ \A d \in 1..D : \A i : UsePast(prog, stack[d], next[d], i) =>
           prog[stack[d]].nodes[i].target \in visited
      /\ \A d \in 1..D - 1 : stack[d + 1] = prog[stack[d]].nodes[next[d]].target
  BY DEF Positions
<1>4. g \in visited /\ next[D - 1] \in Nat
  <2>1. D \in 2..Len(stack) /\ D - 1 \in 1..Len(stack)
    BY <1>1
  <2>2. next \in Seq(Nat \ {0}) /\ Len(next) = D
    BY DEF SInv, IInv, TypeOK
  <2>3. QED
    BY <2>1, <2>2 DEF SInv, IInv, TypeOK, ChainIsStack
<1>13. g = stack[D]
  OBVIOUS
<1> HIDE DEF D, g
<1>5. \A d \in 1..D - 1 : d \in 1..D /\ (d = D - 1 \/ d \in 1..D - 2) /\ (d \in 1..D - 2 => d # D - 1)
  BY <1>1
<1>7. ASSUME NEW d \in 1..D - 1, NEW i, UsePast(prog, stack[d], next'[d], i)
      PROVE  prog[stack[d]].nodes[i].target \in visited
  <2>1. CASE d \in 1..D - 2
    BY <1>1, <1>3, <1>5, <1>7, <2>1
  <2>2. CASE d = D - 1
    <3>1. i = next[d] \/ UsePast(prog, stack[d], next[d], i)
      BY <1>1, <1>4, <1>7, <2>2 DEF UsePast
    <3>2. CASE i = next[d]
      <4>1. d + 1 = D
        BY <1>1, <2>2
      <4>2. prog[stack[d]].nodes[i].target = g
        BY <1>3, <1>13, <3>2, <4>1
      <4>3. QED
        BY <1>4, <4>2
    <3>3. CASE UsePast(prog, stack[d], next[d], i)
      BY <1>3, <1>5, <3>3
    <3>4. QED
      BY <3>1, <3>2, <3>3
  <2>3. QED
    BY <1>5, <2>1, <2>2
<1>8. \A d \in 1..D - 2 : d \in 1..D - 1 /\ d + 1 \in 1..D - 1
  BY <1>1
<1>9. \A d \in 1..D - 2 : stack'[d + 1] = prog[stack'[d]].nodes[next'[d]].target
  BY <1>1, <1>3, <1>8
<1>10. Len(stack') - 1 = D - 2
  BY <1>1
<1>11. QED
  BY <1>1, <1>7, <1>9, <1>10 DEF Positions

(* A call returns.                                                         *)
LEMMA ReturnFound ==
  ASSUME NamesApart, DefsApart, FInv, Return
  PROVE  FindsOK' /\ (SingleTree(prog) => Settled)' /\ Len(stack') # 0
<1> DEFINE D == Len(stack)
           g == stack[D]
           r == Handed(D)
<1>1. /\ D \in Nat /\ D > 1 /\ Len(stack') = D - 1 /\ \A d \in 1..D - 1 : stack'[d] = stack[d]
      /\ \A d \in 1..D - 2 : next'[d] = next[d]
      /\ next'[D - 1] = next[D - 1] + 1
      /\ \A d \in 1..D - 1 : work'[d] = IF d = D - 1 THEN r ELSE work[d]
      /\ UNCHANGED <<prog, visited, at, result>>
  BY ReturnIs DEF FInv
<1>2. Finds(prog, r.toAppend) /\ Has(prog, r, g) /\ \A t : Has(prog, work[D - 1], t) => Has(prog, r, t)
  BY HandedFinds
<1>3. \A d \in 1..D : Finds(prog, work[d].toAppend)
  BY DEF FInv, FindsOK
<1>11. SingleTree(prog) => Settled
  BY DEF FInv
<1> DEFINE R == TheTree(prog)
<1>12. Settled =>
         /\ \A d \in 1..D : stack[d] \in R
         /\ \A u \in visited : \E h \in (visited \cup {Root}) \cap R : u \in TargetsIn(prog, h)
         /\ \A d \in 1..D : \A t \in OpenTargets(prog, stack[d]) \cap visited :
              (d < D /\ t = stack[d + 1]) \/ Has(prog, work[d], t)
  BY DEF Settled
<1>13. g = stack[D]
  OBVIOUS
<1> HIDE DEF D, g, r, R
<1>5. \A d \in 1..D - 1 : d \in 1..D /\ (d = D - 1 \/ d \in 1..D - 2) /\ (d \in 1..D - 2 => d # D - 1)
  BY <1>1
<1>6. \A d \in 1..D - 1 : Finds(prog, work'[d].toAppend)
  BY <1>1, <1>2, <1>3, <1>5
<1>8. \A d \in 1..D - 2 : d \in 1..D - 1 /\ d + 1 \in 1..D - 1
  BY <1>1
<1>9. FindsOK'
  <2>1. Positions'
    BY ReturnPositions DEF FInv, FindsOK
  <2>2. QED
    BY <1>1, <1>6, <2>1 DEF FindsOK
<1>10. ASSUME SingleTree(prog) PROVE Settled'
  <2>1. /\ \A d \in 1..D : stack[d] \in R
        /\ \A u \in visited : \E h \in (visited \cup {Root}) \cap R : u \in TargetsIn(prog, h)
        /\ \A d \in 1..D : \A t \in OpenTargets(prog, stack[d]) \cap visited :
             (d < D /\ t = stack[d + 1]) \/ Has(prog, work[d], t)
    BY <1>10, <1>11, <1>12
  <2>2. ASSUME NEW d \in 1..D - 1, NEW t \in OpenTargets(prog, stack[d]) \cap visited
        PROVE  (d < D - 1 /\ t = stack'[d + 1]) \/ Has(prog, work'[d], t)
    <3>1. (d < D /\ t = stack[d + 1]) \/ Has(prog, work[d], t)
      BY <1>5, <2>1, <2>2
    <3>2. CASE d = D - 1
      <4>1. work'[d] = r
        BY <1>1, <3>2
      <4>2. d + 1 = D
        BY <1>1, <3>2
      <4>3. t = g \/ Has(prog, work[d], t)
        BY <1>13, <3>1, <4>2
      <4>4. QED
        BY <1>2, <3>2, <4>1, <4>3
    <3>3. CASE d \in 1..D - 2
      <4>1. work'[d] = work[d] /\ d < D - 1 /\ stack'[d + 1] = stack[d + 1]
        BY <1>1, <1>5, <1>8, <3>3
      <4>2. QED
        BY <3>1, <4>1
    <3>4. QED
      BY <1>5, <3>2, <3>3
  <2>3. QED
    BY <1>1, <1>5, <2>1, <2>2 DEF Settled, R
<1>14. QED
  BY <1>1, <1>9, <1>10
(* The outermost call ends: the program finds what it mentions.            *)
LEMMA ImportsDoneFound == ASSUME NamesApart, FInv, ImportsDone PROVE FInv'
<1>1. /\ AtEnd /\ Depth = 1 /\ stack' = <<>> /\ result' = Spliced(Here, work[1])
      /\ at' = 1 /\ UNCHANGED <<prog, visited>>
  BY DEF ImportsDone
<1>2. SInv'
  BY NextCalls DEF FInv, Next
<1>3. EndsFound(1)
  BY <1>1, CallFound
<1>4. Finds(prog, result') /\ AllFrom(prog, result')
  BY <1>1, <1>3 DEF EndsFound, Here
<1>5. Len(stack') = 0
  BY <1>1
<1>6. FindsOK'
  BY <1>5 DEF FindsOK, Positions
<1>7. (SingleTree(prog) => Settled)'
  BY <1>1, <1>5 DEF FInv, Settled
<1>8. QED
  BY <1>1, <1>2, <1>4, <1>6, <1>7 DEF FInv

(* The pass over data imports moves on.                                    *)
LEMMA InjectDatacFound == ASSUME NamesApart, FInv, InjectDatac PROVE FInv'
<1>1. UNCHANGED <<prog, stack, next, work, visited, chain>> /\ Depth = 0
  BY DEF InjectDatac, PassNode, Expand, IsData
<1>2. Len(stack) = 0 /\ at \in Nat \ {0}
  BY <1>1 DEF FInv, SInv, CallsOK, Depth
<1>3. at' # 1
  <2>1. CASE PassNode
    BY <1>2, <2>1 DEF PassNode
  <2>2. ASSUME NEW rs, Len(rs) \in Nat, Expand(rs) PROVE at' # 1
    BY <1>2, <2>2 DEF Expand
  <2>3. QED
    BY <2>1, <2>2 DEF InjectDatac
<1>4. SInv'
  BY NextCalls DEF FInv, Next
<1>5. QED
  BY <1>1, <1>3, <1>4 DEF FInv, FindsOK, Positions, Settled

(* Every step keeps what is found.                                         *)
LEMMA NextFound == ASSUME NamesApart, DefsApart, FInv, [Next]_vars PROVE FInv'
<1>1. SInv'
  BY NextCalls DEF FInv
<1>2. CASE UNCHANGED vars
  BY <1>1, <1>2 DEF vars, FInv, FindsOK, Positions, Settled
<1>3. CASE Skip \/ Reimport \/ CannotOpen
  BY <1>1, <1>3, PastFound DEF FInv
<1>4. CASE Enter
  BY <1>1, <1>4, EnterFound DEF FInv
<1>5. CASE Return
  BY <1>1, <1>5, ReturnFound DEF FInv
<1>6. QED
  BY <1>2, <1>3, <1>4, <1>5, ImportsDoneFound, InjectDatacFound DEF Next

(* Nothing is visited at first.                                            *)
LEMMA InitFound == Init => FInv
<1> SUFFICES ASSUME Init PROVE FInv
  OBVIOUS
<1>1. /\ stack = <<Root>> /\ next = <<1>> /\ work = <<NewCall>> /\ visited = {} /\ SInv
  BY InitCalls DEF Init
<1>2. Len(stack) = 1 /\ stack[1] = Root /\ next[1] = 1 /\ work[1] = NewCall /\ prog \in Programs
  BY <1>1 DEF Init
<1>3. \A d \in 1..1 : d = 1
  OBVIOUS
<1>4. \A i : ~ UsePast(prog, Root, 1, i)
  <2>1. Len(prog[Root].nodes) \in Nat
    BY <1>2, NodesAre, RootAssumption
  <2> SUFFICES ASSUME NEW i, i \in 1..Len(prog[Root].nodes), i < 1 PROVE FALSE
    BY DEF UsePast
  <2>2. QED
    BY <2>1
<1>5. FindsOK
  BY <1>1, <1>2, <1>3, <1>4, NewCallFinds DEF FindsOK, Positions
<1>6. SingleTree(prog) => Settled
  <2> SUFFICES ASSUME SingleTree(prog) PROVE Settled
    OBVIOUS
  <2>1. Root \in TheTree(prog)
    BY TreeIs DEF Tree
  <2>2. QED
    BY <1>1, <1>2, <1>3, <2>1 DEF Settled
<1>7. QED
  BY <1>1, <1>2, <1>5, <1>6 DEF FInv

(* A definition finds its private helpers, through any number of export    *)
(* filters, along every import graph.                                      *)
THEOREM HelpersFound == ASSUME NamesApart, DefsApart PROVE Spec => []HelpersFollow
<1>1. FInv => HelpersFollow
  <2> SUFFICES ASSUME FInv, at = 1, NEW i \in InResult({"func"}), result[i].file # Root
               PROVE  result[i].refs \cap DefNames(prog[result[i].file].nodes) \subseteq DefNames(result)
    BY DEF HelpersFollow
  <2>1. Finds(prog, result) /\ AllFrom(prog, result)
    <3>1. Len(stack) \in Nat
      BY DEF FInv, SInv, IInv, TypeOK
    <3>2. Len(stack) = 0
      BY <3>1 DEF FInv, SInv, CallsOK
    <3>3. QED
      BY <3>2 DEF FInv
  <2>2. i \in 1..Len(result) /\ result[i].kind = "func"
    BY DEF InResult
  <2>3. result[i] \in Range(result)
    BY <2>1, <2>2, ListIs DEF AllFrom
  <2>4. QED
    BY <2>1, <2>2, <2>3 DEF Finds, KnownTo
<1>2. QED
  BY <1>1, InitFound, NextFound, PTL DEF Spec

(* Reached holds the program and what its files import.                    *)
LEMMA ReachedIs ==
  ASSUME IsFiniteSet(Files), prog \in Programs
  PROVE  /\ Root \in Reached /\ Reached \subseteq Files
         /\ \A f \in Reached : OpenTargets(prog, f) \subseteq Reached
<1> DEFINE n == Cardinality(Files)
           M == [f \in {Root} \cup Files |-> OpenTargets(prog, f)]
           F(S) == S \cup Opened(UNION {Targets(f) : f \in S})
           k == CHOOSE g : g = [i \in 0..n |-> IF i = 0 THEN {Root} ELSE F(g[i - 1])]
<1>1. n \in Nat
  BY FS_CardinalityType
<1>2. Reached = k[n]
  BY DEF Reached
<1>3. ASSUME NEW f \in Files PROVE M[f] = OpenTargets(prog, f) /\ M[f] \subseteq Files
  <2>1. \A i \in 1..Len(prog[f].nodes) : prog[f].nodes[i].kind = "use" => prog[f].nodes[i].target \in Files
    BY NodesAre, ProgramsAssumption
  <2>2. QED
    BY <2>1 DEF OpenTargets, TargetsIn
<1>4. ASSUME NEW S, S \subseteq Files PROVE F(S) = UNION {{f} \cup M[f] : f \in S}
  <2>1. \A f \in S : Targets(f) = TargetsIn(prog, f)
    BY DEF Targets, TargetsIn
  <2>2. Opened(UNION {Targets(f) : f \in S}) = UNION {OpenTargets(prog, f) : f \in S}
    BY <2>1 DEF Opened, OpenTargets
  <2>3. \A f \in S : M[f] = OpenTargets(prog, f)
    BY <1>3, <1>4
  <2> HIDE DEF M
  <2>4. QED
    BY <2>2, <2>3
<1>5. k = CHOOSE g : g = [i \in 0..n |-> IF i = 0 THEN {Root} ELSE F(g[i - 1])]
  OBVIOUS
<1> HIDE DEF M, F, k, n
<1>6. MayGrow(n, {Root}, Files, M)
  BY <1>1, <1>3, RootAssumption DEF MayGrow, n
<1>7. PICK d : Grows(d, n, {Root}, Files, M) /\ Growth(d, n, {Root}, M) /\ \A i \in 0..n : d[i] \subseteq {Root} \cup Files
  BY <1>6, GrowthDefined
<1>8. d = [i \in 0..n |-> IF i = 0 THEN {Root} ELSE F(d[i - 1])]
  <2>1. \A i \in 0..n : d[i] = IF i = 0 THEN {Root} ELSE UNION {{f} \cup M[f] : f \in d[i - 1]}
    BY <1>7 DEF Growth
  <2>2. \A i \in 0..n : d[i] = IF i = 0 THEN {Root} ELSE F(d[i - 1])
    <3> SUFFICES ASSUME NEW i \in 0..n, i # 0 PROVE d[i] = F(d[i - 1])
      BY <2>1
    <3>1. i - 1 \in 0..n
      BY <1>1
    <3>2. d[i - 1] \subseteq Files
      BY <1>7, <3>1, RootAssumption
    <3>3. F(d[i - 1]) = UNION {{f} \cup M[f] : f \in d[i - 1]}
      BY <1>4, <3>2
    <3>4. QED
      BY <2>1, <3>3
  <2>3. d = [i \in 0..n |-> d[i]]
    BY <1>7 DEF Growth
  <2>4. QED
    BY <2>2, <2>3
<1>9. k = [i \in 0..n |-> IF i = 0 THEN {Root} ELSE F(k[i - 1])]
  BY <1>8 DEF k
<1>10. k[0] = {Root} /\ d[0] = {Root} /\ \A i \in 1..n : k[i] = F(k[i - 1]) /\ d[i] = F(d[i - 1])
  <2>1. \A i \in 0..n : k[i] = IF i = 0 THEN {Root} ELSE F(k[i - 1])
    BY <1>9
  <2>2. \A i \in 0..n : d[i] = IF i = 0 THEN {Root} ELSE F(d[i - 1])
    BY <1>8
  <2>3. 0 \in 0..n /\ \A i \in 1..n : i \in 0..n /\ i # 0
    BY <1>1
  <2>4. QED
    BY <2>1, <2>2, <2>3
<1> DEFINE S == {i \in 0..n : k[i] = d[i]}
<1>11. 0..n \subseteq S
  <2>1. 0 \in S
    BY <1>1, <1>10
  <2>2. ASSUME NEW i \in 0..n - 1, i \in S PROVE i + 1 \in S
    <3>1. k[i] = d[i] /\ i + 1 \in 0..n
      BY <1>1, <2>2
    <3> DEFINE h == i + 1
    <3>2. h \in 1..n /\ h - 1 = i
      BY <1>1
    <3> HIDE DEF h
    <3>3. k[h] = d[h]
      BY <1>10, <3>1, <3>2
    <3>4. QED
      BY <3>1, <3>3 DEF h
  <2> HIDE DEF S
  <2>3. QED
    BY <1>1, <2>1, <2>2, UpTo
<1>12. k[n] = d[n]
  BY <1>1, <1>11
<1>13. {Root} \subseteq d[n] /\ d[n] \subseteq {Root} \cup Files /\ \A m \in d[n] : M[m] \subseteq d[n]
  BY <1>7, GrownIsClosed
<1>14. QED
  BY <1>2, <1>3, <1>12, <1>13, RootAssumption

(* Files of which each has one importer are a tree.                        *)
LEMMA OneImporterIsTree ==
  ASSUME IsFiniteSet(Files), prog \in Programs, ImportedOnce
  PROVE  SingleTree(prog)
<1> DEFINE R == Reached
<1>1. Root \in R /\ R \subseteq Files /\ \A f \in R : OpenTargets(prog, f) \subseteq R
  BY ReachedIs
<1>2. \A f : Targets(f) = TargetsIn(prog, f)
  BY DEF Targets, TargetsIn
<1>3. \A f : Importers(f) = {g \in R : f \in TargetsIn(prog, g)}
  BY <1>2 DEF Importers
<1>4. Importers(Root) = {} /\ \A f \in Files : Cardinality(Importers(f)) <= 1
  BY DEF ImportedOnce
<1> HIDE DEF R
<1>5. ASSUME NEW g \in R, NEW f \in TargetsIn(prog, g)
      PROVE  f # Root /\ f \in Files /\ (prog[f].opens => f \in R)
  <2>1. f # Root
    BY <1>3, <1>4
  <2>2. g \in Files /\ (prog[f].opens => f \in OpenTargets(prog, g))
    BY <1>1 DEF OpenTargets
  <2>3. \A i \in 1..Len(prog[g].nodes) : prog[g].nodes[i].kind = "use" => prog[g].nodes[i].target \in Files
    BY <2>2, NodesAre, ProgramsAssumption
  <2>4. f \in Files
    BY <2>3 DEF TargetsIn
  <2>5. QED
    BY <1>1, <2>1, <2>2, <2>4
<1>6. ASSUME NEW g \in R, NEW f \in TargetsIn(prog, g), NEW h \in R, f \in TargetsIn(prog, h)
      PROVE  h = g
  <2> DEFINE I == Importers(f)
  <2>1. I \subseteq R /\ g \in I /\ h \in I
    BY <1>3, <1>6
  <2>2. IsFiniteSet(I)
    <3>1. I \subseteq Files
      BY <1>1, <2>1
    <3> HIDE DEF I
    <3>2. QED
      BY <3>1, FS_Subset
  <2>3. Cardinality(I) <= 1 /\ Cardinality(I) \in Nat
    BY <1>4, <1>5, <2>2, FS_CardinalityType
  <2> HIDE DEF I
  <2>4. Cardinality(I) # 0
    BY <2>1, <2>2, FS_EmptySet
  <2>5. Cardinality(I) = 1
    BY <2>3, <2>4
  <2>6. \E x : I = {x}
    BY <2>2, <2>5, FS_Singleton
  <2>7. QED
    BY <2>1, <2>6
<1>7. Tree(prog, R)
  BY <1>1, <1>5, <1>6 DEF Tree
<1>8. QED
  BY <1>7 DEF SingleTree

(* Where every file is imported from one place, nothing that a definition  *)
(* or a statement mentions of a file it imports is missing.                *)
THEOREM NothingLost == ASSUME NamesApart, DefsApart, IsFiniteSet(Files) PROVE Spec => []NothingDangles
<1>1. FInv => NothingDangles
  <2> SUFFICES ASSUME FInv, at = 1, ImportedOnce, NEW i \in InResult({"func", "stmt"}),
                      NEW f \in Opened(Targets(result[i].file))
               PROVE  result[i].refs \cap Provides(f) \subseteq DefNames(result)
    BY DEF NothingDangles
  <2> DEFINE n == result[i]
  <2>1. Finds(prog, result) /\ AllFrom(prog, result) /\ prog \in Programs
    <3>1. Len(stack) \in Nat
      BY DEF FInv, SInv, IInv, TypeOK
    <3>2. Len(stack) = 0
      BY <3>1 DEF FInv, SInv, CallsOK
    <3>3. QED
      BY <3>2 DEF FInv, SInv, IInv
  <2>2. i \in 1..Len(result) /\ n.kind \in {"func", "stmt"}
    BY DEF InResult
  <2>3. n \in Range(result)
    BY <2>1, <2>2, ListIs DEF AllFrom
  <2>4. SingleTree(prog)
    BY <2>1, OneImporterIsTree
  <2>5. f \in OpenTargets(prog, n.file)
    BY DEF Opened, Targets, OpenTargets, TargetsIn
  <2>6. Provides(f) = ProvidesIn(prog, f)
    BY DEF Provides, ProvidesIn, ShowsAll
  <2> HIDE DEF n
  <2>7. ProvidesIn(prog, f) \subseteq KnownTo(prog, n.file)
    BY <2>4, <2>5 DEF KnownTo
  <2>8. n.refs \cap KnownTo(prog, n.file) \subseteq DefNames(result)
    BY <2>1, <2>2, <2>3 DEF Finds
  <2>9. QED
    BY <2>6, <2>7, <2>8 DEF n
<1>2. QED
  BY <1>1, InitFound, NextFound, PTL DEF Spec

-----------------------------------------------------------------------------
(* The order of variables.                                                 *)

(* m, of another file, mentions the name of n.                             *)
Mentions(m, n) == m.file # n.file /\ n.name \in m.refs
Ordered(s) ==
  \A i, j \in 1..Len(s) :
    i < j /\ s[i].kind \in {"var", "stmt"} /\ s[j].kind = "var" => ~ Mentions(s[i], s[j])
Backless(s, t) == \A m \in Range(s), n \in Range(t) : n.kind = "var" => ~ Mentions(m, n)

(* A variable that is handed on has the name and the mentions of its node. *)
Copies(p, n) ==
  /\ n.kind = "var" /\ {"kind", "file", "name", "refs"} \subseteq DOMAIN n
  /\ n.file \in Files /\ p[n.file].opens
  /\ \E m \in Range(p[n.file].nodes) : m.kind = "var" /\ m.name = n.name /\ m.refs = n.refs
AllCopies(p, s) == IsList(s) /\ \A n \in Range(s) : Copies(p, n)

(* One list behind another.                                                *)
LEMMA OrderedCat ==
  ASSUME NEW s, NEW t, IsList(s), IsList(t), Ordered(s), Ordered(t), Backless(s, t)
  PROVE  /\ IsList(s \o t) /\ Ordered(s \o t) /\ Range(s \o t) = Range(s) \cup Range(t)
<1> DEFINE u == s \o t
<1>0. Len(s) \in Nat /\ Len(t) \in Nat
  BY ListIs
<1>1. /\ IsList(u) /\ Len(u) = Len(s) + Len(t)
      /\ \A i \in 1..Len(s) + Len(t) : u[i] = IF i <= Len(s) THEN s[i] ELSE t[i - Len(s)]
  BY CatIs
<1> HIDE DEF u
<1>2. \A i \in 1..Len(u) : \/ i <= Len(s) /\ i \in 1..Len(s) /\ u[i] = s[i]
                           \/ i > Len(s) /\ i - Len(s) \in 1..Len(t) /\ u[i] = t[i - Len(s)]
  BY <1>0, <1>1
<1>3. /\ \A i \in 1..Len(s) : i \in 1..Len(u) /\ u[i] = s[i]
      /\ \A j \in 1..Len(t) : Len(s) + j \in 1..Len(u) /\ u[Len(s) + j] = t[j]
  BY <1>0, <1>1
<1>4. Range(s) = {s[i] : i \in 1..Len(s)} /\ Range(t) = {t[i] : i \in 1..Len(t)}
  BY ListIs
<1>5. Range(u) = {u[i] : i \in 1..Len(u)}
  BY <1>1, ListIs
<1>6. Range(u) = Range(s) \cup Range(t)
  BY <1>2, <1>3, <1>4, <1>5
<1>7. ASSUME NEW i \in 1..Len(u), NEW j \in 1..Len(u), i < j,
             u[i].kind \in {"var", "stmt"}, u[j].kind = "var"
      PROVE  ~ Mentions(u[i], u[j])
  <2>1. CASE i <= Len(s) /\ j <= Len(s)
    BY <1>2, <1>7, <2>1 DEF Ordered
  <2>2. CASE i > Len(s) /\ j > Len(s)
    <3> DEFINE a == i - Len(s)
               b == j - Len(s)
    <3>1. a \in 1..Len(t) /\ b \in 1..Len(t) /\ u[i] = t[a] /\ u[j] = t[b] /\ a < b
      BY <1>0, <1>2, <1>7, <2>2
    <3> HIDE DEF a, b
    <3>2. QED
      BY <1>7, <3>1 DEF Ordered
  <2>3. CASE i <= Len(s) /\ j > Len(s)
    <3>1. u[i] \in Range(s) /\ u[j] \in Range(t)
      BY <1>0, <1>2, <1>4, <2>3
    <3>2. QED
      BY <1>7, <3>1 DEF Backless
  <2>4. QED
    BY <1>0, <1>1, <1>7, <2>1, <2>2, <2>3
<1>8. QED
  BY <1>1, <1>6, <1>7 DEF Ordered, u

(* What is kept of a list is in its order.                                 *)
LEMMA OrderedKept ==
  ASSUME NEW nodes, IsList(nodes), Ordered(nodes), NEW keep
  PROVE  Ordered(Kept(nodes, keep))
<1> DEFINE s == Kept(nodes, keep)
<1>1. PICK g : Picks(g, s, nodes, keep, Len(nodes))
  BY KeptIs
<1> HIDE DEF s
<1> SUFFICES ASSUME NEW i \in 1..Len(s), NEW j \in 1..Len(s), i < j,
                    s[i].kind \in {"var", "stmt"}, s[j].kind = "var"
             PROVE  ~ Mentions(s[i], s[j])
  BY DEF Ordered, s
<1>2. /\ g[i] \in 1..Len(nodes) /\ s[i] = nodes[g[i]]
      /\ g[j] \in 1..Len(nodes) /\ s[j] = nodes[g[j]]
      /\ g[i] < g[j]
  BY <1>1 DEF Picks
<1>3. QED
  BY <1>2 DEF Ordered

(* So is what an importer receives of the variables.                       *)
LEMMA ForwardedOrdered ==
  ASSUME NEW p, NEW nodes, IsList(nodes), Ordered(nodes),
         \A n \in Range(nodes) : n.kind = "var" => Copies(p, n)
  PROVE  LET s == ForwardedVars(nodes)
         IN /\ AllCopies(p, s) /\ Ordered(s)
            /\ \A n \in Range(s) : \E m \in Range(nodes) :
                 m.kind = "var" /\ m.file = n.file /\ m.name = n.name /\ m.refs = n.refs
<1> DEFINE keep == [i \in 1..Len(nodes) |->
                      nodes[i].kind = "var" /\ (IsLibFile(nodes) \/ nodes[i].exported)]
           taken == Kept(nodes, keep)
           s == ForwardedVars(nodes)
<1>1. s = [i \in 1..Len(taken) |-> [taken[i] EXCEPT !.exported = TRUE]]
  BY DEF ForwardedVars
<1>2. \A i \in 1..Len(nodes) : keep[i] => nodes[i].kind = "var"
  OBVIOUS
<1>3. Range(nodes) = {nodes[i] : i \in 1..Len(nodes)}
  BY ListIs
<1> HIDE DEF keep
<1>4. /\ IsList(taken) /\ Ordered(taken)
      /\ Range(taken) = {nodes[i] : i \in {j \in 1..Len(nodes) : keep[j]}}
  BY <1>3, KeptOK, OrderedKept
<1> HIDE DEF taken, s
<1>5. Len(taken) \in Nat /\ Range(taken) = {taken[i] : i \in 1..Len(taken)}
  BY <1>4, ListIs
<1>6. IsList(s) /\ Len(s) = Len(taken)
  <2>1. s = [i \in 1..Len(taken) |-> s[i]]
    BY <1>1
  <2>2. QED
    BY <1>5, <2>1, FunctionIsList
<1>7. Range(s) = {s[i] : i \in 1..Len(taken)}
  BY <1>6, ListIs
<1>8. \A i \in 1..Len(taken) : taken[i] \in Range(nodes) /\ taken[i].kind = "var" /\ Copies(p, taken[i])
  <2>1. ASSUME NEW i \in 1..Len(taken) PROVE taken[i] \in Range(nodes) /\ taken[i].kind = "var"
    <3>1. taken[i] \in {nodes[j] : j \in {k \in 1..Len(nodes) : keep[k]}}
      BY <1>4, <1>5
    <3>2. PICK j \in 1..Len(nodes) : keep[j] /\ taken[i] = nodes[j]
      BY <3>1
    <3>3. QED
      BY <1>2, <1>3, <3>2
  <2>2. QED
    BY <2>1
<1>9. \A i \in 1..Len(taken) : /\ s[i].kind = taken[i].kind /\ s[i].file = taken[i].file
                               /\ s[i].name = taken[i].name /\ s[i].refs = taken[i].refs
                               /\ DOMAIN s[i] = DOMAIN taken[i]
  <2> SUFFICES ASSUME NEW i \in 1..Len(taken)
               PROVE  /\ s[i].kind = taken[i].kind /\ s[i].file = taken[i].file
                      /\ s[i].name = taken[i].name /\ s[i].refs = taken[i].refs
                      /\ DOMAIN s[i] = DOMAIN taken[i]
    OBVIOUS
  <2>1. s[i] = [taken[i] EXCEPT !.exported = TRUE]
    BY <1>1
  <2>2. {"kind", "file", "name", "refs"} \subseteq DOMAIN taken[i]
    BY <1>8 DEF Copies
  <2>3. QED
    BY <2>1, <2>2
<1>10. \A i \in 1..Len(taken) : Copies(p, s[i])
  BY <1>8, <1>9 DEF Copies
<1>11. Ordered(s)
  BY <1>4, <1>6, <1>9 DEF Ordered, Mentions
<1>12. \A n \in Range(s) : \E m \in Range(nodes) :
         m.kind = "var" /\ m.file = n.file /\ m.name = n.name /\ m.refs = n.refs
  BY <1>7, <1>8, <1>9
<1>13. QED
  BY <1>6, <1>7, <1>10, <1>11, <1>12 DEF AllCopies, s

(* In the tree of a file the variables of what it imports come first.      *)
LEMMA SplicedOrdered ==
  ASSUME NamesApart, NEW p \in Programs, NEW f \in Files, NEW w, CallOK(p, f, w),
         Ordered(w.toVars), Backless(w.toVars, p[f].nodes)
  PROVE  LET s == Spliced(p[f].nodes, w)
         IN /\ IsList(s) /\ Ordered(s)
            /\ \A n \in Range(s) : n.kind \in {"var", "stmt"} =>
                 n \in Range(p[f].nodes) \/ n \in Range(w.toVars)
<1> DEFINE m == Marked(p[f].nodes, w)
           v == w.toVars
           s == Spliced(p[f].nodes, w)
           all == m \o w.toAppend
           K == {"var", "stmt"}
<1>1. /\ IsList(w.toAppend) /\ IsList(v)
      /\ \A n \in Range(w.toAppend) : n.kind \notin K
      /\ \A n \in Range(v) : n.kind = "var"
  BY DEF CallOK, AllFrom, Forwards
<1>2. IsList(m) /\ \A n \in Range(m) : n.kind \in K => n \in Range(p[f].nodes)
  BY MarkedOK DEF AllFrom, Declares
<1>3. IsList(p[f].nodes) /\ \A n \in Range(p[f].nodes) : n.file = f
  BY NodesAre
<1>4. PICK h \in 0..Len(all) : s = Replaced(all, h, v, h + 1) /\ \A i \in 1..h : IsHeader(all[i])
  BY <1>1, <1>3, SplicedIs
<1>5. /\ IsList(all) /\ Len(all) = Len(m) + Len(w.toAppend)
      /\ \A i \in 1..Len(m) + Len(w.toAppend) : all[i] = IF i <= Len(m) THEN m[i] ELSE w.toAppend[i - Len(m)]
  BY <1>1, <1>2, CatIs
<1>6. Len(m) \in Nat /\ Len(w.toAppend) \in Nat /\ Len(v) \in Nat /\ Len(all) \in Nat
  BY <1>1, <1>2, <1>5, ListIs
<1>7. Range(m) = {m[i] : i \in 1..Len(m)} /\ Range(w.toAppend) = {w.toAppend[i] : i \in 1..Len(w.toAppend)}
      /\ Range(v) = {v[i] : i \in 1..Len(v)}
  BY <1>1, <1>2, ListIs
<1> HIDE DEF m, all, s
<1>14. h \in Nat /\ h <= Len(all)
  BY <1>6
<1>8. ASSUME NEW i \in 1..Len(all), all[i].kind \in K PROVE all[i] \in Range(p[f].nodes) /\ i > h
  <2>1. all[i] \in Range(p[f].nodes)
    <3>1. CASE i <= Len(m)
      BY <1>2, <1>5, <1>6, <1>7, <1>8, <3>1
    <3>2. CASE i > Len(m)
      <4>1. i - Len(m) \in 1..Len(w.toAppend) /\ all[i] = w.toAppend[i - Len(m)]
        BY <1>5, <1>6, <3>2, <1>8
      <4>2. QED
        BY <1>1, <1>7, <1>8, <4>1
    <3>3. QED
      BY <1>6, <3>1, <3>2
  <2>2. ~ IsHeader(all[i])
    BY <1>8 DEF IsHeader, IsLibraryUse
  <2>3. QED
    BY <1>4, <1>6, <1>14, <2>1, <2>2
<1>9. /\ IsList(s) /\ Len(s) = h + Len(v) + Len(all) - (h + 1) + 1
      /\ \A i \in 1..Len(s) :
           s[i] = IF i <= h THEN all[i]
                  ELSE IF i <= h + Len(v) THEN v[i - h]
                  ELSE all[i - h - Len(v) + (h + 1) - 1]
  <2>1. h \in 0..Len(all) /\ h + 1 \in 1..Len(all) + 1 /\ h < h + 1
    BY <1>6
  <2> DEFINE u == Replaced(all, h, v, h + 1)
  <2>2. /\ IsList(u) /\ Len(u) = h + Len(v) + Len(all) - (h + 1) + 1
        /\ \A i \in 1..Len(u) :
             u[i] = IF i <= h THEN all[i]
                    ELSE IF i <= h + Len(v) THEN v[i - h]
                    ELSE all[i - h - Len(v) + (h + 1) - 1]
    <3> HIDE DEF v
    <3>1. IsList(all) /\ IsList(v)
      BY <1>1, <1>5 DEF v
    <3>2. QED
      BY <2>1, <3>1, ReplacedIs
  <2>3. s = u
    BY <1>4
  <2> HIDE DEF u
  <2>4. QED
    BY <2>2, <2>3
<1>10. ASSUME NEW i \in 1..Len(s), s[i].kind \in K
       PROVE  \/ h < i /\ i <= h + Len(v) /\ i - h \in 1..Len(v) /\ s[i] = v[i - h]
              \/ h + Len(v) < i /\ s[i] \in Range(p[f].nodes)
  <2>1. CASE i <= h
    <3>1. i \in 1..Len(all) /\ s[i] = all[i]
      BY <1>6, <1>9, <2>1
    <3>2. i > h
      BY <1>8, <1>10, <3>1
    <3>3. QED
      BY <1>6, <2>1, <3>2
  <2>2. CASE h < i /\ i <= h + Len(v)
    BY <1>6, <1>9, <1>14, <2>2
  <2>3. CASE h + Len(v) < i
    <3> DEFINE k == i - h - Len(v) + (h + 1) - 1
    <3>1. i \in Int /\ ~(i <= h) /\ ~(i <= h + Len(v)) /\ i <= h + Len(v) + Len(all) - (h + 1) + 1
      BY <1>6, <1>9, <1>14, <2>3
    <3>3. k \in 1..Len(all)
      BY <1>6, <1>14, <2>3, <3>1
    <3>4. s[i] = all[k]
      BY <1>9, <3>1
    <3> HIDE DEF k
    <3>2. QED
      BY <1>8, <1>10, <2>3, <3>3, <3>4
  <2>4. QED
    BY <1>6, <2>1, <2>2, <2>3
<1>11. ASSUME NEW i \in 1..Len(s), NEW j \in 1..Len(s), i < j, s[i].kind \in K, s[j].kind = "var"
       PROVE  ~ Mentions(s[i], s[j])
  <2>0. s[j].kind \in K
    BY <1>11
  <2>1. CASE i <= h + Len(v) /\ j <= h + Len(v)
    <3> DEFINE a == i - h
               b == j - h
    <3>1. a \in 1..Len(v) /\ b \in 1..Len(v) /\ s[i] = v[a] /\ s[j] = v[b] /\ a < b
      BY <1>6, <1>10, <1>11, <2>0, <2>1
    <3> HIDE DEF a, b
    <3>2. QED
      BY <1>11, <3>1 DEF Ordered
  <2>2. CASE i <= h + Len(v) /\ h + Len(v) < j
    <3>1. s[i] \in Range(v) /\ s[j] \in Range(p[f].nodes)
      BY <1>6, <1>7, <1>10, <1>11, <2>0, <2>2
    <3>2. QED
      BY <1>11, <3>1 DEF Backless
  <2>3. CASE h + Len(v) < i /\ h + Len(v) < j
    <3>1. s[i] \in Range(p[f].nodes) /\ s[j] \in Range(p[f].nodes)
      BY <1>6, <1>10, <1>11, <2>0, <2>3
    <3>2. QED
      BY <1>3, <3>1 DEF Mentions
  <2>4. QED
    BY <1>6, <1>9, <1>11, <2>1, <2>2, <2>3
<1>12. ASSUME NEW n \in Range(s), n.kind \in K PROVE n \in Range(p[f].nodes) \/ n \in Range(v)
  <2>1. PICK i \in 1..Len(s) : n = s[i]
    BY <1>9, ListIs
  <2>2. QED
    BY <1>7, <1>10, <1>12, <2>1
<1>13. QED
  BY <1>9, <1>11, <1>12 DEF Ordered, s

-----------------------------------------------------------------------------
(* The files R that imports lead to have no cycle: B[f] is a set of files  *)
(* with all that f imports and those import, and f is not in it.           *)
LoopFree(p, R, B) ==
  /\ Root \in R /\ R \subseteq Files
  /\ \A f \in R : OpenTargets(p, f) \subseteq R /\ f \notin B[f]
  /\ \A f \in Files : TargetsIn(p, f) \subseteq B[f] /\ \A g \in B[f] : TargetsIn(p, g) \subseteq B[f]
NoCycle(p) == \E R, B : LoopFree(p, R, B)

(* The files that are done; without a cycle all that they import is, too.  *)
OnStack == {stack[d] : d \in 1..Len(stack)}
Away == visited \ OnStack
DoneOK == Root \notin visited /\ \A g \in Away : prog[g].opens => TargetsIn(prog, g) \subseteq Away

(* The variables that the calls have collected are those of files that are *)
(* done, and in order, those of the outermost call first.                  *)
OrderOK ==
  /\ \A d \in 1..Len(stack) :
       /\ AllCopies(prog, work[d].toVars) /\ Ordered(work[d].toVars)
       /\ \A n \in Range(work[d].toVars) : n.file \in Away
  /\ \A d, e \in 1..Len(stack) : d < e => Backless(work[d].toVars, work[e].toVars)
Sequenced ==
  /\ Positions /\ \A f \in chain : prog[f].opens
  /\ NoCycle(prog) => DoneOK /\ OrderOK
OInv ==
  /\ SInv /\ Sequenced
  /\ Len(stack) = 0 /\ at = 1 /\ NoCycle(prog) => Ordered(result)

(* Each call in progress was made by the one before it.                    *)
LEMMA StackTargets ==
  ASSUME SInv, Positions, \A f \in chain : prog[f].opens, NEW e \in 1..Len(stack) - 1
  PROVE  stack[e + 1] \in OpenTargets(prog, stack[e])
<1>1. Len(stack) \in Nat
  BY DEF SInv, IInv, TypeOK
<1>2. stack[e + 1] = prog[stack[e]].nodes[next[e]].target /\ WaitsAt(prog, stack[e], next[e])
  BY DEF Positions, SInv, CallsOK
<1>3. stack[e + 1] \in TargetsIn(prog, stack[e])
  BY <1>2 DEF TargetsIn, WaitsAt
<1>4. e + 1 \in 2..Len(stack)
  BY <1>1
<1>5. stack[e + 1] \in chain
  BY <1>4 DEF SInv, IInv, ChainIsStack
<1>6. QED
  BY <1>3, <1>5 DEF OpenTargets

(* Without a cycle the innermost call imports no file that is being        *)
(* injected.                                                               *)
LEMMA NoneAbove ==
  ASSUME SInv, Positions, \A f \in chain : prog[f].opens, NoCycle(prog), NEW d \in 1..Len(stack)
  PROVE  stack[d] \notin TargetsIn(prog, stack[Len(stack)])
<1> DEFINE n == Len(stack)
<1>1. n \in Nat /\ n > 0 /\ d \in 1..n /\ stack[1] = Root /\ \A e \in 1..n : stack[e] \in Files
  BY DEF SInv, IInv, TypeOK, CallsOK
<1>2. \A e \in 1..n - 1 : stack[e + 1] \in OpenTargets(prog, stack[e])
  BY StackTargets
<1>3. PICK R, B : LoopFree(prog, R, B)
  BY DEF NoCycle
<1> HIDE DEF n
<1> DEFINE S == {k \in 0..n - 1 : stack[k + 1] \in R}
<1>4. 0..n - 1 \subseteq S
  <2>1. 0 \in S
    BY <1>1, <1>3 DEF LoopFree
  <2>2. ASSUME NEW k \in 0..(n - 1) - 1, k \in S PROVE k + 1 \in S
    <3> DEFINE e == k + 1
    <3>1. e \in 1..n - 1 /\ e \in 0..n - 1 /\ stack[e] \in R
      BY <1>1, <2>2
    <3> HIDE DEF e
    <3>2. stack[e + 1] \in R
      BY <1>2, <1>3, <3>1 DEF LoopFree
    <3>3. QED
      BY <3>1, <3>2 DEF e
  <2>3. n - 1 \in Nat
    BY <1>1
  <2> HIDE DEF S
  <2>4. QED
    BY <2>1, <2>2, <2>3, UpTo
<1>5. stack[d] \in R /\ stack[d] \in Files
  <2> DEFINE k == d - 1
  <2>1. k \in 0..n - 1 /\ k + 1 = d
    BY <1>1
  <2>2. stack[k + 1] \in R
    BY <1>4, <2>1
  <2>3. QED
    BY <1>1, <2>1, <2>2
<1> HIDE DEF S
<1> DEFINE b == B[stack[d]]
           T == {k \in 0..n - d : k = 0 \/ stack[d + k] \in b}
<1>6. TargetsIn(prog, stack[d]) \subseteq b /\ (\A g \in b : TargetsIn(prog, g) \subseteq b) /\ stack[d] \notin b
  BY <1>3, <1>5 DEF LoopFree
<1> HIDE DEF b
<1>7. 0..n - d \subseteq T
  <2>1. n - d \in Nat /\ 0 \in T
    BY <1>1
  <2>2. ASSUME NEW k \in 0..(n - d) - 1, k \in T PROVE k + 1 \in T
    <3> DEFINE e == d + k
    <3>1. e \in 1..n - 1 /\ d + (k + 1) = e + 1 /\ k + 1 \in 0..n - d /\ (k = 0 => e = d)
      BY <1>1, <2>2
    <3>2. stack[e] \in b \/ e = d
      BY <2>2, <3>1
    <3> HIDE DEF e
    <3>3. stack[e + 1] \in TargetsIn(prog, stack[e])
      BY <1>2, <3>1 DEF OpenTargets
    <3>4. stack[e + 1] \in b
      BY <1>6, <3>2, <3>3
    <3>5. QED
      BY <3>1, <3>4
  <2> HIDE DEF T
  <2>3. QED
    BY <2>1, <2>2, UpTo
<1>8. n = d \/ stack[n] \in b
  <2> DEFINE k == n - d
  <2>1. k \in 0..n - d /\ d + k = n /\ (k = 0 => n = d)
    BY <1>1
  <2>2. k \in T
    BY <1>7, <2>1
  <2>3. k = 0 \/ stack[d + k] \in b
    BY <2>2
  <2>4. QED
    BY <2>1, <2>3
<1>9. TargetsIn(prog, stack[n]) \subseteq b
  BY <1>6, <1>8
<1>10. QED
  BY <1>6, <1>9 DEF n

(* What a file that is done mentions is no variable of one that is not.    *)
LEMMA NotMentioned ==
  ASSUME MentionsImported, SInv, DoneOK, NEW m, Copies(prog, m), m.file \in Away,
         NEW f \in OnStack, NEW n \in Range(prog[f].nodes), n.kind = "var"
  PROVE  ~ Mentions(m, n)
<1> SUFFICES ASSUME Mentions(m, n) PROVE FALSE
  OBVIOUS
<1>1. prog \in Programs /\ visited \subseteq Files /\ f \in Files
  BY DEF SInv, IInv, TypeOK, OnStack
<1>2. PICK x \in Range(prog[m.file].nodes) : x.kind = "var" /\ x.name = m.name /\ x.refs = m.refs
  BY DEF Copies
<1>3. m.file \in Files /\ m.file # f /\ n.name \in x.refs
  <2>1. n.file = f
    BY <1>1, NodesAre
  <2>2. QED
    BY <1>2, <2>1 DEF Mentions, Copies
<1>4. Imports(prog, m.file, f)
  BY <1>1, <1>2, <1>3 DEF MentionsImported
<1>5. /\ Away \in SUBSET Files /\ TargetsIn(prog, m.file) \subseteq Away
      /\ \A h \in Away : prog[h].opens => TargetsIn(prog, h) \subseteq Away
  BY <1>1 DEF DoneOK, Copies, Away
<1>6. f \in Away
  BY <1>4, <1>5 DEF Imports
<1>7. QED
  BY <1>6 DEF Away

(* So the tree of a file that the innermost call is at the end of is in    *)
(* order, with what it has collected.                                      *)
LEMMA EndOrdered ==
  ASSUME NamesApart, MentionsImported, SInv, DoneOK, OrderOK, NEW D, D = Len(stack), D > 0
  PROVE  LET nodes == prog[stack[D]].nodes
             s == Spliced(nodes, work[D])
         IN /\ IsList(s) /\ Ordered(s)
            /\ \A n \in Range(s) : n.kind \in {"var", "stmt"} => n \in Range(nodes) \/ n \in Range(work[D].toVars)
<1>1. D \in 1..Len(stack) /\ prog \in Programs /\ stack[D] \in Files /\ stack[D] \in OnStack
  <2>1. D \in Nat /\ prog \in Programs /\ stack \in Seq(Files)
    BY DEF SInv, IInv, TypeOK
  <2>2. QED
    BY <2>1 DEF OnStack
<1>2. CallOK(prog, stack[D], work[D])
  BY <1>1 DEF SInv, CallsOK
<1>3. AllCopies(prog, work[D].toVars) /\ Ordered(work[D].toVars) /\ \A n \in Range(work[D].toVars) : n.file \in Away
  BY <1>1 DEF OrderOK
<1>4. Backless(work[D].toVars, prog[stack[D]].nodes)
  BY <1>1, <1>3, NotMentioned DEF Backless, AllCopies
<1>5. QED
  BY <1>1, <1>2, <1>3, <1>4, SplicedOrdered

(* Steps past a node, a file seen, a file that is not there.               *)
LEMMA PastOrder ==
  ASSUME SInv, Sequenced, Skip \/ Reimport \/ CannotOpen
  PROVE  Sequenced' /\ Len(stack') # 0
<1>1. /\ SInv /\ Positions /\ PastOnly /\ Len(stack') # 0
      /\ \/ visited' = visited
         \/ AtImport /\ Child.target \notin visited /\ visited' = visited \cup {Child.target}
            /\ ~ prog[Child.target].opens
  BY PastIs DEF Sequenced
<1>2. UNCHANGED <<prog, stack, chain>>
  BY DEF Skip, Reimport, CannotOpen
<1>3. Positions'
  BY <1>1, PastPositions
<1>4. ASSUME NoCycle(prog) PROVE DoneOK' /\ OrderOK'
  <2>1. DoneOK /\ OrderOK
    BY <1>4 DEF Sequenced
  <2>2. OnStack' = OnStack
    BY <1>2 DEF OnStack
  <2>3. /\ Away \subseteq Away' /\ Root \notin visited'
        /\ \A g \in Away' : prog[g].opens => g \in Away
    <3>1. CASE visited' = visited
      BY <2>1, <2>2, <3>1 DEF Away, DoneOK
    <3>2. CASE AtImport /\ visited' = visited \cup {Child.target} /\ ~ prog[Child.target].opens
      <4> DEFINE f == Child.target
      <4>1. f \in TargetsIn(prog, stack[Depth])
        BY <1>1, <3>2, ChildIsTarget
      <4>2. f \notin OnStack
        BY <1>1, <1>4, <4>1, NoneAbove DEF Sequenced, OnStack, Depth
      <4>3. Root \in OnStack
        <5>1. 1 \in 1..Len(stack) /\ stack[1] = Root
          BY <1>1, <1>2 DEF SInv, CallsOK, IInv, TypeOK
        <5>2. QED
          BY <5>1 DEF OnStack
      <4> HIDE DEF f
      <4>4. visited' = visited \cup {f} /\ ~ prog[f].opens
        BY <3>2 DEF f
      <4>5. QED
        BY <2>1, <2>2, <4>2, <4>3, <4>4 DEF Away, DoneOK
    <3>3. QED
      BY <1>1, <3>1, <3>2
  <2>4. DoneOK'
    BY <1>2, <2>1, <2>3 DEF DoneOK
  <2>5. \A d \in 1..Len(stack) : work'[d].toVars = work[d].toVars
    BY <1>1 DEF PastOnly
  <2>6. OrderOK'
    BY <1>2, <2>1, <2>3, <2>5 DEF OrderOK
  <2>7. QED
    BY <2>4, <2>6
<1>5. QED
  BY <1>1, <1>2, <1>3, <1>4 DEF Sequenced

(* A call that begins.                                                     *)
LEMMA EnterOrder == ASSUME SInv, Sequenced, Enter PROVE Sequenced' /\ Len(stack') # 0
<1> DEFINE f == Child.target
           D == Len(stack)
<1>0. InCall /\ AtImport /\ Positions /\ chain' = chain \cup {f}
  BY DEF Enter, AtImport, AtChild, Sequenced
<1>1. /\ D \in Nat \ {0} /\ f \in Files /\ f \notin visited /\ prog[f].opens
      /\ visited' = visited \cup {f} /\ UNCHANGED prog
      /\ Len(stack') = D + 1 /\ stack'[D + 1] = f /\ work'[D + 1] = NewCall
      /\ \A d \in 1..D : stack'[d] = stack[d] /\ work'[d] = work[d]
  BY EnterIs
<1>2. f \in TargetsIn(prog, stack[D]) /\ D \in 1..D /\ stack[1] = Root /\ 1 \in 1..D
  <2>1. D = Depth /\ D \in 1..D /\ 1 \in 1..D
    BY <1>1 DEF Depth
  <2>2. f \in TargetsIn(prog, stack[Depth])
    BY <1>0, ChildIsTarget
  <2>3. stack[1] = Root
    BY <1>1 DEF SInv, CallsOK
  <2>4. QED
    BY <2>1, <2>2, <2>3
<1>3. Positions' /\ \A g \in chain' : prog'[g].opens
  BY <1>0, <1>1, EnterPositions DEF Sequenced
<1>4. NoCycle(prog) => f \notin OnStack
  BY <1>0, <1>2, NoneAbove DEF Sequenced, OnStack
<1> HIDE DEF f
<1>5. \A d \in 1..D + 1 : d \in 1..D \/ d = D + 1
  BY <1>1
<1>6. ASSUME NoCycle(prog) PROVE DoneOK' /\ OrderOK'
  <2>1. DoneOK /\ OrderOK /\ f \notin OnStack
    BY <1>4, <1>6 DEF Sequenced
  <2>2. OnStack' = OnStack \cup {f}
    <3>1. \A d \in 1..D : d \in 1..D + 1
      BY <1>1
    <3>2. D + 1 \in 1..D + 1
      BY <1>1
    <3>3. OnStack = {stack[d] : d \in 1..D} /\ OnStack' = {stack'[d] : d \in 1..D + 1}
      BY <1>1 DEF OnStack, D
    <3> HIDE DEF D
    <3>4. QED
      BY <1>1, <1>5, <3>1, <3>2, <3>3
  <2>3. Away' = Away /\ Root \notin visited'
    <3>1. Root \in OnStack
      BY <1>2 DEF OnStack
    <3>2. QED
      BY <1>1, <2>1, <2>2, <3>1 DEF Away, DoneOK
  <2>4. DoneOK'
    BY <1>1, <2>1, <2>3 DEF DoneOK
  <2>5. NewCall.toVars = <<>> /\ IsList(<<>>) /\ Len(<<>>) = 0 /\ Range(<<>>) = {}
    BY EmptyIs DEF NewCall
  <2>6. AllCopies(prog, NewCall.toVars) /\ Ordered(NewCall.toVars) /\ Range(NewCall.toVars) = {}
    BY <2>5 DEF AllCopies, Ordered
  <2>7. /\ \A d \in 1..D : /\ AllCopies(prog, work[d].toVars) /\ Ordered(work[d].toVars)
                          /\ \A n \in Range(work[d].toVars) : n.file \in Away
        /\ \A d, e \in 1..D : d < e => Backless(work[d].toVars, work[e].toVars)
    BY <2>1 DEF OrderOK, D
  <2> HIDE DEF D
  <2>8. ASSUME NEW d \in 1..D + 1
        PROVE  /\ AllCopies(prog, work'[d].toVars) /\ Ordered(work'[d].toVars)
               /\ \A n \in Range(work'[d].toVars) : n.file \in Away
    BY <1>1, <1>5, <2>6, <2>7
  <2>9. ASSUME NEW d \in 1..D + 1, NEW e \in 1..D + 1, d < e
        PROVE  Backless(work'[d].toVars, work'[e].toVars)
    <3>1. CASE e = D + 1
      BY <1>1, <2>6, <3>1 DEF Backless
    <3>2. CASE e # D + 1
      <4>1. e \in 1..D /\ d \in 1..D
        BY <1>1, <2>9, <3>2
      <4>2. QED
        BY <1>1, <2>7, <2>9, <4>1
    <3>3. QED
      BY <3>1, <3>2
  <2>10. OrderOK'
    BY <1>1, <2>3, <2>8, <2>9 DEF OrderOK
  <2>11. QED
    BY <2>4, <2>10
<1>7. QED
  BY <1>1, <1>3, <1>6 DEF Sequenced

(* A call that returns has visited all that its file imports.              *)
LEMMA ReturnDone ==
  ASSUME SInv, Sequenced, Return, NoCycle(prog)
  PROVE  /\ DoneOK' /\ Away' = Away \cup {stack[Len(stack)]}
         /\ stack[Len(stack)] \in OnStack /\ prog[stack[Len(stack)]].opens
<1> DEFINE D == Len(stack)
           g == stack[D]
<1>1. /\ D \in Nat /\ D > 1 /\ Len(stack') = D - 1 /\ \A d \in 1..D - 1 : stack'[d] = stack[d]
      /\ next[D] > Len(prog[g].nodes) /\ prog \in Programs /\ g \in Files
      /\ UNCHANGED <<prog, visited>>
  BY ReturnIs
<1>2. DoneOK /\ Positions /\ \A f \in chain : prog[f].opens
  BY DEF Sequenced
<1>3. stack[1] = Root /\ D \in 2..D /\ D \in 1..D
  BY <1>1 DEF SInv, CallsOK
<1>4. g \in chain /\ g \in visited /\ (\A d, e \in 2..D : stack[d] = stack[e] => d = e)
  BY <1>3 DEF SInv, IInv, TypeOK, ChainIsStack
<1>5. g \in OnStack /\ prog[g].opens
  BY <1>2, <1>3, <1>4 DEF OnStack
<1>6. TargetsIn(prog, g) \cap OnStack = {}
  BY <1>2, NoneAbove DEF OnStack
<1>7. TargetsIn(prog, g) \subseteq visited
  <2> SUFFICES ASSUME NEW i \in 1..Len(prog[g].nodes), prog[g].nodes[i].kind = "use"
               PROVE  prog[g].nodes[i].target \in visited
    BY DEF TargetsIn
  <2>1. next[D] \in Nat /\ Len(prog[g].nodes) \in Nat
    <3>1. next \in Seq(Nat \ {0}) /\ Len(next) = D
      BY DEF SInv, IInv, TypeOK
    <3>2. QED
      BY <1>1, <1>3, <3>1, NodesAre
  <2>2. UsePast(prog, g, next[D], i)
    BY <1>1, <2>1 DEF UsePast
  <2>3. QED
    BY <1>2, <1>3, <2>2 DEF Positions
<1>8. OnStack' = OnStack \ {g}
  <2>1. OnStack = {stack[d] : d \in 1..D} /\ OnStack' = {stack'[d] : d \in 1..D - 1}
    BY <1>1 DEF OnStack, D
  <2>2. \A d \in 1..D - 1 : stack[d] # g
    <3> SUFFICES ASSUME NEW d \in 1..D - 1, stack[d] = g PROVE FALSE
      OBVIOUS
    <3>1. CASE d = 1
      BY <1>2, <1>3, <1>4, <3>1 DEF DoneOK
    <3>2. CASE d # 1
      <4>1. d \in 2..D /\ d # D
        BY <1>1, <3>2
      <4>2. QED
        BY <1>3, <1>4, <4>1
    <3>3. QED
      BY <3>1, <3>2
  <2>4. g = stack[D]
    OBVIOUS
  <2> HIDE DEF D, g
  <2>3. \A d \in 1..D : d = D \/ d \in 1..D - 1
    BY <1>1
  <2>5. \A d \in 1..D - 1 : d \in 1..D
    BY <1>1
  <2>6. QED
    BY <1>1, <2>1, <2>2, <2>3, <2>4, <2>5
<1> HIDE DEF D, g
<1>9. Away' = Away \cup {g}
  BY <1>1, <1>4, <1>5, <1>8 DEF Away
<1>10. DoneOK'
  BY <1>1, <1>2, <1>6, <1>7, <1>9 DEF DoneOK, Away
<1>11. QED
  BY <1>5, <1>9, <1>10 DEF D, g

(* It hands on its variables behind those of the files that it imports.    *)
LEMMA HandedOrder ==
  ASSUME NamesApart, MentionsImported, SInv, Sequenced, Return, NoCycle(prog)
  PROVE  LET D == Len(stack)
             s == Handed(D).toVars
         IN /\ AllCopies(prog, s) /\ Ordered(s)
            /\ \A n \in Range(s) : n.file \in Away \cup {stack[D]}
            /\ \A d \in 1..D - 2 : Backless(work[d].toVars, s)
<1> DEFINE D == Len(stack)
           g == stack[D]
           nodes == Spliced(prog[g].nodes, work[D])
           V == ForwardedVars(nodes)
           u == work[D - 1].toVars
<1>1. /\ D \in Nat /\ D > 1 /\ prog \in Programs /\ g \in Files
  BY ReturnIs
<1>2. DoneOK /\ OrderOK /\ g \in OnStack /\ prog[g].opens
  BY ReturnDone DEF Sequenced
<1>3. Handed(D).toVars = u \o V
  BY DEF Handed, Receive
<1>4. /\ IsList(nodes) /\ Ordered(nodes)
      /\ \A n \in Range(nodes) : n.kind \in {"var", "stmt"} =>
           n \in Range(prog[g].nodes) \/ n \in Range(work[D].toVars)
  BY <1>1, <1>2, EndOrdered
<1>5. D \in 1..D /\ D - 1 \in 1..D /\ D - 1 < D /\ \A d \in 1..D - 2 : d \in 1..D /\ d < D /\ d < D - 1
  BY <1>1
<1>6. \A n \in Range(prog[g].nodes) : n.kind = "var" => Copies(prog, n) /\ n.file = g
  <2> SUFFICES ASSUME NEW n \in Range(prog[g].nodes), n.kind = "var" PROVE Copies(prog, n) /\ n.file = g
    OBVIOUS
  <2>1. n.file = g /\ {"kind", "file"} \subseteq DOMAIN n
    BY <1>1, NodesAre, ProgramsAssumption
  <2>2. "refs" \in DOMAIN n /\ "name" \in DOMAIN n
    BY <1>1, ProgramsAssumption
  <2>3. QED
    BY <1>1, <1>2, <2>1, <2>2 DEF Copies
<1>7. /\ \A d \in 1..D : AllCopies(prog, work[d].toVars) /\ Ordered(work[d].toVars)
      /\ \A d \in 1..D : \A n \in Range(work[d].toVars) : n.file \in Away
      /\ \A d, e \in 1..D : d < e => Backless(work[d].toVars, work[e].toVars)
  BY <1>2 DEF OrderOK
<1>8. \A d \in 1..D : Backless(work[d].toVars, prog[g].nodes)
  BY <1>2, <1>7, NotMentioned DEF Backless, AllCopies
<1> HIDE DEF D, g, nodes, V, u
<1>9. \A n \in Range(nodes) : n.kind = "var" => Copies(prog, n) /\ n.file \in Away \cup {g}
  BY <1>4, <1>5, <1>6, <1>7 DEF AllCopies
<1>10. /\ AllCopies(prog, V) /\ Ordered(V)
       /\ \A n \in Range(V) : \E m \in Range(nodes) :
            m.kind = "var" /\ m.file = n.file /\ m.name = n.name /\ m.refs = n.refs
  BY <1>4, <1>9, ForwardedOrdered DEF V
<1>11. \A n \in Range(V) : n.file \in Away \cup {g}
  BY <1>9, <1>10
<1>12. ASSUME NEW d \in 1..D - 1 PROVE Backless(work[d].toVars, V)
  <2>1. d \in 1..D /\ d < D
    BY <1>1
  <2>2. ASSUME NEW m \in Range(work[d].toVars), NEW n \in Range(V), n.kind = "var" PROVE ~ Mentions(m, n)
    <3>1. PICK x \in Range(nodes) : x.kind = "var" /\ x.file = n.file /\ x.name = n.name
      BY <1>10
    <3>2. x \in Range(prog[g].nodes) \/ x \in Range(work[D].toVars)
      BY <1>4, <3>1
    <3>3. ~ Mentions(m, x)
      BY <1>5, <1>7, <1>8, <2>1, <3>1, <3>2 DEF Backless
    <3>4. QED
      BY <3>1, <3>3 DEF Mentions
  <2>3. QED
    BY <2>2 DEF Backless
<1>13. IsList(u) /\ IsList(V) /\ AllCopies(prog, u) /\ Ordered(u) /\ Backless(u, V)
       /\ \A n \in Range(u) : n.file \in Away
  <2>1. D - 1 \in 1..D - 1
    BY <1>1
  <2>2. QED
    BY <1>5, <1>7, <1>10, <1>12, <2>1 DEF u, AllCopies
<1>14. IsList(u \o V) /\ Ordered(u \o V) /\ Range(u \o V) = Range(u) \cup Range(V)
  BY <1>10, <1>13, OrderedCat
<1>15. AllCopies(prog, u \o V) /\ \A n \in Range(u \o V) : n.file \in Away \cup {g}
  BY <1>10, <1>11, <1>13, <1>14 DEF AllCopies
<1>16. ASSUME NEW d \in 1..D - 2 PROVE Backless(work[d].toVars, u \o V)
  <2>1. d \in 1..D - 1
    BY <1>1
  <2>2. Backless(work[d].toVars, u) /\ Backless(work[d].toVars, V)
    BY <1>5, <1>7, <1>12, <2>1 DEF u
  <2>3. QED
    BY <1>14, <2>2 DEF Backless
<1>17. QED
  BY <1>3, <1>14, <1>15, <1>16 DEF D, g

(* The importer has them behind those it had.                              *)
LEMMA ReturnOrder ==
  ASSUME NamesApart, MentionsImported, SInv, Sequenced, Return
  PROVE  Sequenced' /\ Len(stack') # 0
<1> DEFINE D == Len(stack)
           g == stack[D]
           r == Handed(D)
<1>1. /\ D \in Nat /\ D > 1 /\ Len(stack') = D - 1 /\ \A d \in 1..D - 1 : stack'[d] = stack[d]
      /\ \A d \in 1..D - 1 : work'[d] = IF d = D - 1 THEN r ELSE work[d]
      /\ chain' = chain \ {g} /\ UNCHANGED <<prog, visited>>
  BY ReturnIs
<1>2. Positions' /\ \A f \in chain' : prog'[f].opens
  BY <1>1, ReturnPositions DEF Sequenced
<1>3. ASSUME NoCycle(prog) PROVE DoneOK' /\ OrderOK'
  <2>1. DoneOK' /\ Away' = Away \cup {g}
    BY <1>3, ReturnDone
  <2>2. /\ AllCopies(prog, r.toVars) /\ Ordered(r.toVars)
        /\ \A n \in Range(r.toVars) : n.file \in Away \cup {g}
        /\ \A d \in 1..D - 2 : Backless(work[d].toVars, r.toVars)
    BY <1>3, HandedOrder
  <2>3. /\ \A d \in 1..D : AllCopies(prog, work[d].toVars) /\ Ordered(work[d].toVars)
        /\ \A d \in 1..D : \A n \in Range(work[d].toVars) : n.file \in Away
        /\ \A d, e \in 1..D : d < e => Backless(work[d].toVars, work[e].toVars)
    BY <1>3 DEF Sequenced, OrderOK
  <2> HIDE DEF D, g, r
  <2>4. \A d \in 1..D - 1 : d \in 1..D
    BY <1>1
  <2>5. ASSUME NEW d \in 1..D - 1
        PROVE  /\ AllCopies(prog, work'[d].toVars) /\ Ordered(work'[d].toVars)
               /\ \A n \in Range(work'[d].toVars) : n.file \in Away \cup {g}
    BY <1>1, <2>2, <2>3, <2>4
  <2>6. ASSUME NEW d \in 1..D - 1, NEW e \in 1..D - 1, d < e
        PROVE  Backless(work'[d].toVars, work'[e].toVars)
    <3>1. d \in 1..D - 2 /\ d # D - 1
      BY <1>1, <2>6
    <3>2. QED
      BY <1>1, <2>2, <2>3, <2>4, <2>6, <3>1
  <2>7. OrderOK'
    BY <1>1, <2>1, <2>5, <2>6 DEF OrderOK
  <2>8. QED
    BY <2>1, <2>7
<1>4. Len(stack') # 0
  BY <1>1
<1>5. QED
  BY <1>1, <1>2, <1>3, <1>4 DEF Sequenced

(* The outermost call ends: the program is in order.                       *)
LEMMA ImportsDoneOrder ==
  ASSUME NamesApart, MentionsImported, SInv, Sequenced, ImportsDone
  PROVE  Sequenced' /\ (NoCycle(prog) => Ordered(result))'
<1>1. /\ Depth = 1 /\ stack' = <<>> /\ result' = Spliced(prog[stack[1]].nodes, work[1])
      /\ UNCHANGED <<prog, visited, chain>>
  BY DEF ImportsDone, Here
<1>2. Len(stack') = 0 /\ Len(stack) = 1
  BY <1>1 DEF Depth
<1>3. Positions' /\ \A f \in chain' : prog'[f].opens
  BY <1>1, <1>2 DEF Sequenced, Positions
<1>4. ASSUME NoCycle(prog) PROVE DoneOK' /\ OrderOK' /\ Ordered(result')
  <2>1. DoneOK /\ OrderOK
    BY <1>4 DEF Sequenced
  <2>2. Ordered(result')
    BY <1>1, <1>2, <2>1, EndOrdered
  <2>3. OnStack = {Root} /\ OnStack' = {}
    <3>1. stack[1] = Root
      BY <1>2 DEF SInv, CallsOK
    <3>2. OnStack = {stack[d] : d \in 1..1} /\ OnStack' = {stack'[d] : d \in 1..0}
      BY <1>2 DEF OnStack
    <3>3. QED
      BY <3>1, <3>2
  <2>4. Away' = Away
    BY <1>1, <2>1, <2>3 DEF Away, DoneOK
  <2>5. DoneOK'
    BY <1>1, <2>1, <2>4 DEF DoneOK
  <2>6. OrderOK'
    BY <1>2 DEF OrderOK
  <2>7. QED
    BY <2>2, <2>5, <2>6
<1>5. QED
  BY <1>1, <1>3, <1>4 DEF Sequenced

(* Every step keeps the order.                                             *)
LEMMA NextOrder == ASSUME NamesApart, MentionsImported, OInv, [Next]_vars PROVE OInv'
<1>0. SInv /\ Sequenced
  BY DEF OInv
<1>1. SInv'
  BY <1>0, NextCalls
<1>2. CASE UNCHANGED vars
  BY <1>1, <1>2 DEF vars, OInv, Sequenced, Positions, DoneOK, OrderOK, Away, OnStack
<1>3. CASE Skip \/ Reimport \/ CannotOpen
  BY <1>0, <1>1, <1>3, PastOrder DEF OInv
<1>4. CASE Enter
  BY <1>0, <1>1, <1>4, EnterOrder DEF OInv
<1>5. CASE Return
  BY <1>0, <1>1, <1>5, ReturnOrder DEF OInv
<1>6. CASE ImportsDone
  BY <1>0, <1>1, <1>6, ImportsDoneOrder DEF OInv
<1>7. CASE InjectDatac
  <2>1. UNCHANGED <<prog, stack, next, work, visited, chain>> /\ Depth = 0
    BY <1>7 DEF InjectDatac, PassNode, Expand, IsData
  <2>2. at \in Nat \ {0}
    BY <1>0, <2>1 DEF SInv, CallsOK, Depth
  <2>3. at' # 1
    <3>1. CASE PassNode
      BY <2>2, <3>1 DEF PassNode
    <3>2. ASSUME NEW rs, Len(rs) \in Nat, Expand(rs) PROVE at' # 1
      BY <2>2, <3>2 DEF Expand
    <3>3. QED
      BY <1>7, <3>1, <3>2 DEF InjectDatac
  <2>4. Positions' /\ \A f \in chain' : prog'[f].opens
    <3>1. Positions /\ \A f \in chain : prog[f].opens
      BY <1>0 DEF Sequenced
    <3>2. Positions'
      BY <2>1, <3>1 DEF Positions
    <3>3. QED
      BY <2>1, <3>1, <3>2
  <2>5. ASSUME NoCycle(prog) PROVE DoneOK' /\ OrderOK'
    <3>1. DoneOK /\ OrderOK
      BY <1>0, <2>5 DEF Sequenced
    <3>2. Away' = Away
      BY <2>1 DEF Away, OnStack
    <3>3. DoneOK'
      BY <2>1, <3>1, <3>2 DEF DoneOK
    <3>4. OrderOK'
      BY <2>1, <3>1, <3>2 DEF OrderOK
    <3>5. QED
      BY <3>3, <3>4
  <2>6. Sequenced'
    BY <2>1, <2>4, <2>5 DEF Sequenced
  <2>7. QED
    BY <1>1, <2>3, <2>6 DEF OInv
<1>8. QED
  BY <1>2, <1>3, <1>4, <1>5, <1>6, <1>7 DEF Next

(* At first nothing is done and nothing collected.                         *)
LEMMA InitOrder == Init => OInv
<1> SUFFICES ASSUME Init PROVE OInv
  OBVIOUS
<1>1. /\ stack = <<Root>> /\ next = <<1>> /\ work = <<NewCall>> /\ visited = {} /\ chain = {} /\ SInv
  BY InitCalls DEF Init
<1>2. Len(stack) = 1 /\ stack[1] = Root /\ work[1] = NewCall
  BY <1>1
<1>3. Positions
  <2>1. FInv
    BY InitFound
  <2>2. QED
    BY <2>1 DEF FInv, FindsOK
<1>4. NewCall.toVars = <<>> /\ IsList(<<>>) /\ Len(<<>>) = 0 /\ Range(<<>>) = {}
  BY EmptyIs DEF NewCall
<1>5. AllCopies(prog, NewCall.toVars) /\ Ordered(NewCall.toVars) /\ Range(NewCall.toVars) = {}
  BY <1>4 DEF AllCopies, Ordered
<1>6. \A d \in 1..1 : d = 1
  OBVIOUS
<1>7. OrderOK
  BY <1>2, <1>5, <1>6 DEF OrderOK
<1>8. DoneOK
  BY <1>1 DEF DoneOK, Away
<1>9. QED
  BY <1>1, <1>2, <1>3, <1>7, <1>8 DEF OInv, Sequenced

(* Below holds what a file imports, and what that imports.                 *)
LEMMA BelowIs ==
  ASSUME IsFiniteSet(Files), prog \in Programs, NEW f \in Files
  PROVE  TargetsIn(prog, f) \subseteq Below(f) /\ \A g \in Below(f) : TargetsIn(prog, g) \subseteq Below(f)
<1> DEFINE n == Cardinality(Files)
           A == TargetsIn(prog, f)
           M == [h \in Files |-> TargetsIn(prog, h)]
           F(S) == S \cup UNION {Targets(h) : h \in S}
           k == CHOOSE g : g = [i \in 0..n |-> IF i = 0 THEN Targets(f) ELSE F(g[i - 1])]
<1>1. n \in Nat
  BY FS_CardinalityType
<1>2. Below(f) = k[n]
  BY DEF Below
<1>20. \A h : Targets(h) = TargetsIn(prog, h)
  BY DEF Targets, TargetsIn
<1>3. ASSUME NEW h \in Files PROVE M[h] = TargetsIn(prog, h) /\ M[h] \subseteq Files
  <2>1. \A i \in 1..Len(prog[h].nodes) : prog[h].nodes[i].kind = "use" => prog[h].nodes[i].target \in Files
    BY NodesAre, ProgramsAssumption
  <2>2. QED
    BY <2>1 DEF TargetsIn
<1>4. ASSUME NEW S, S \subseteq Files PROVE F(S) = UNION {{h} \cup M[h] : h \in S}
  <2>1. \A h \in S : M[h] = Targets(h)
    BY <1>3, <1>4, <1>20
  <2> HIDE DEF M
  <2>4. QED
    BY <2>1
<1>21. A \subseteq Files /\ A = Targets(f)
  BY <1>3, <1>20
<1>5. k = CHOOSE g : g = [i \in 0..n |-> IF i = 0 THEN A ELSE F(g[i - 1])]
  BY <1>21
<1> HIDE DEF M, F, k, n, A
<1>6. MayGrow(n, A, Files, M)
  BY <1>1, <1>3, <1>21 DEF MayGrow, n
<1>7. PICK d : Grows(d, n, A, Files, M) /\ Growth(d, n, A, M) /\ \A i \in 0..n : d[i] \subseteq A \cup Files
  BY <1>6, GrowthDefined
<1>8. d = [i \in 0..n |-> IF i = 0 THEN A ELSE F(d[i - 1])]
  <2>1. \A i \in 0..n : d[i] = IF i = 0 THEN A ELSE UNION {{h} \cup M[h] : h \in d[i - 1]}
    BY <1>7 DEF Growth
  <2>2. \A i \in 0..n : d[i] = IF i = 0 THEN A ELSE F(d[i - 1])
    <3> SUFFICES ASSUME NEW i \in 0..n, i # 0 PROVE d[i] = F(d[i - 1])
      BY <2>1
    <3>1. i - 1 \in 0..n
      BY <1>1
    <3>2. d[i - 1] \subseteq Files
      BY <1>7, <1>21, <3>1
    <3>3. F(d[i - 1]) = UNION {{h} \cup M[h] : h \in d[i - 1]}
      BY <1>4, <3>2
    <3>4. QED
      BY <2>1, <3>3
  <2>3. d = [i \in 0..n |-> d[i]]
    BY <1>7 DEF Growth
  <2>4. QED
    BY <2>2, <2>3
<1>9. k = [i \in 0..n |-> IF i = 0 THEN A ELSE F(k[i - 1])]
  BY <1>5, <1>8
<1>10. k[0] = A /\ d[0] = A /\ \A i \in 1..n : k[i] = F(k[i - 1]) /\ d[i] = F(d[i - 1])
  <2>1. \A i \in 0..n : k[i] = IF i = 0 THEN A ELSE F(k[i - 1])
    BY <1>9
  <2>2. \A i \in 0..n : d[i] = IF i = 0 THEN A ELSE F(d[i - 1])
    BY <1>8
  <2>3. 0 \in 0..n /\ \A i \in 1..n : i \in 0..n /\ i # 0
    BY <1>1
  <2>4. QED
    BY <2>1, <2>2, <2>3
<1> DEFINE S == {i \in 0..n : k[i] = d[i]}
<1>11. 0..n \subseteq S
  <2>1. 0 \in S
    BY <1>1, <1>10
  <2>2. ASSUME NEW i \in 0..n - 1, i \in S PROVE i + 1 \in S
    <3>1. k[i] = d[i] /\ i + 1 \in 0..n
      BY <1>1, <2>2
    <3> DEFINE h == i + 1
    <3>2. h \in 1..n /\ h - 1 = i
      BY <1>1
    <3> HIDE DEF h
    <3>3. k[h] = d[h]
      BY <1>10, <3>1, <3>2
    <3>4. QED
      BY <3>1, <3>3 DEF h
  <2> HIDE DEF S
  <2>3. QED
    BY <1>1, <2>1, <2>2, UpTo
<1>12. k[n] = d[n]
  BY <1>1, <1>11
<1>13. A \subseteq d[n] /\ d[n] \subseteq A \cup Files /\ \A h \in d[n] : M[h] \subseteq d[n]
  BY <1>7, GrownIsClosed
<1>14. QED
  BY <1>2, <1>3, <1>12, <1>13, <1>21 DEF A

(* Files none of which is below itself have no cycle.                      *)
LEMMA AcyclicIs == ASSUME IsFiniteSet(Files), prog \in Programs, Acyclic PROVE NoCycle(prog)
<1> DEFINE B == [f \in Files |-> Below(f)]
<1>1. Root \in Reached /\ Reached \subseteq Files /\ \A f \in Reached : OpenTargets(prog, f) \subseteq Reached
  BY ReachedIs
<1>2. \A f \in Files : B[f] = Below(f)
  OBVIOUS
<1>3. \A f \in Files : TargetsIn(prog, f) \subseteq Below(f) /\ \A g \in Below(f) : TargetsIn(prog, g) \subseteq Below(f)
  BY BelowIs
<1>4. \A f \in Reached : f \notin Below(f)
  BY DEF Acyclic
<1> HIDE DEF B
<1>5. LoopFree(prog, Reached, B)
  BY <1>1, <1>2, <1>3, <1>4 DEF LoopFree
<1>6. QED
  BY <1>5 DEF NoCycle

(* Where no file imports itself, the variables of imported files are set   *)
(* in the order of the imports, and before the program's own statements.   *)
THEOREM VariablesInOrder ==
  ASSUME NamesApart, MentionsImported, IsFiniteSet(Files) PROVE Spec => []LibVarsOrdered
<1>1. OInv => LibVarsOrdered
  <2> SUFFICES ASSUME OInv, at = 1, Acyclic,
                      NEW i \in InResult({"var", "stmt"}), NEW j \in InResult({"var", "stmt"}),
                      result[i].file # result[j].file, result[i].kind = "var",
                      result[i].name \in result[j].refs
               PROVE  i < j
    BY DEF LibVarsOrdered
  <2>1. Len(stack) \in Nat /\ prog \in Programs
    BY DEF OInv, SInv, IInv, TypeOK
  <2>2. Len(stack) = 0
    BY <2>1 DEF OInv, SInv, CallsOK
  <2>3. Ordered(result)
    BY <2>1, <2>2, AcyclicIs DEF OInv
  <2>4. i \in 1..Len(result) /\ j \in 1..Len(result) /\ result[j].kind \in {"var", "stmt"}
    BY DEF InResult
  <2>5. i # j /\ ~(j < i)
    BY <2>3, <2>4 DEF Ordered, Mentions
  <2>6. QED
    BY <2>4, <2>5
<1>2. QED
  BY <1>1, InitOrder, NextOrder, PTL DEF Spec

-----------------------------------------------------------------------------
(* With the parser of data files the injection takes its own steps, or     *)
(* stays while the parser takes one, whatever rows the parser finds.       *)

(* The rows the parser has so far are a list.                              *)
LEMMA RowsStay == IsList(rows) /\ [ImportNext]_<<vars, parserVars>> => IsList(rows)'
<1> SUFFICES ASSUME IsList(rows), [ImportNext]_<<vars, parserVars>> PROVE IsList(rows)'
  OBVIOUS
<1>0. IsList(<<>>)
  BY EmptyIs
<1>1. IsList(Parser!Flushed)
  <2> DEFINE r == Parser!Row
  <2>1. IsList(Append(rows, r))
    BY AppendIs
  <2>2. QED
    BY <2>1 DEF Parser!Flushed
<1>2. CASE UNCHANGED rows
  BY <1>2
<1>3. CASE rows' = <<>>
  BY <1>0, <1>3
<1>4. CASE rows' = Parser!Flushed
  BY <1>1, <1>4
<1>5. UNCHANGED rows \/ rows' = <<>> \/ rows' = Parser!Flushed
  <2>1. CASE Splice
    BY <2>1 DEF Splice, parserVars
  <2>2. CASE Pass
    BY <2>2 DEF Pass, parserVars
  <2>3. CASE Read
    BY <2>3 DEF Read, Parser!Parses
  <2>4. CASE Parse
    BY <2>4 DEF Parse, Parser!Next, Parser!Outside, Parser!Close, Parser!Blank, Parser!Fields, Parser!EndOfFile
  <2>5. CASE Replace
    BY <2>5 DEF Replace
  <2>6. CASE UNCHANGED <<vars, parserVars>>
    BY <2>6 DEF parserVars
  <2>7. QED
    BY <2>1, <2>2, <2>3, <2>4, <2>5, <2>6 DEF ImportNext
<1>6. QED
  BY <1>2, <1>3, <1>4, <1>5

(* A step of the composition is one of the injection, or none of it.  Rows *)
(* that replace an import are as many as the parser found.                 *)
LEMMA ImportStep == IsList(rows) /\ [ImportNext]_<<vars, parserVars>> => [Next]_vars
<1> SUFFICES ASSUME IsList(rows), [ImportNext]_<<vars, parserVars>> PROVE [Next]_vars
  OBVIOUS
<1>0. Len(rows) \in Nat
  BY ListIs
<1>1. CASE Splice
  BY <1>1 DEF Splice, Next
<1>2. CASE Pass
  BY <1>2 DEF Pass, Next, InjectDatac
<1>3. CASE Read
  BY <1>3 DEF Read
<1>4. CASE Parse
  BY <1>4 DEF Parse
<1>5. CASE Replace
  <2>1. Expand(rows)
    BY <1>5 DEF Replace
  <2>2. QED
    BY <1>0, <2>1 DEF Next, InjectDatac
<1>6. CASE UNCHANGED <<vars, parserVars>>
  BY <1>6
<1> QED
  BY <1>1, <1>2, <1>3, <1>4, <1>5, <1>6 DEF ImportNext

(* The composition implements the injection alone.                         *)
THEOREM CompositionInjects == ImportSpec => Spec
<1>1. ImportInit => Init /\ IsList(rows)
  BY EmptyIs DEF ImportInit
<1> QED
  BY <1>1, RowsStay, ImportStep, PTL DEF ImportSpec, Spec

(* So the import chain is the call stack in the composition as well.       *)
THEOREM ComposedChain == ImportSpec => []ChainIsStack
  BY CompositionInjects, ChainCorrect, PTL

(* And so is every declaration spliced in once, data rows included.        *)
THEOREM ComposedOnce == ASSUME NamesApart PROVE ImportSpec => []OnceEach
  BY CompositionInjects, DeclaredOnce, PTL

(* And every definition finds its helpers, private ones too.               *)
THEOREM ComposedHelpers == ASSUME NamesApart, DefsApart PROVE ImportSpec => []HelpersFollow
  BY CompositionInjects, HelpersFound, PTL

(* And the variables are in the order of the imports.                      *)
THEOREM ComposedOrder ==
  ASSUME NamesApart, MentionsImported, IsFiniteSet(Files) PROVE ImportSpec => []LibVarsOrdered
  BY CompositionInjects, VariablesInOrder, PTL
=============================================================================
