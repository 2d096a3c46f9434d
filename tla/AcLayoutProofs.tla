--------------------------- MODULE AcLayoutProofs ---------------------------
(***************************************************************************)
(* The lexer's blocks are balanced in every file.  Counts of INDENT and    *)
(* DEDENT are cardinalities of sets of positions; a step adds an interval  *)
(* of positions to one of them, and the difference of the two counts is    *)
(* the number of widths that are open on the stack.                        *)
(***************************************************************************)
EXTENDS AcLayout, FiniteSetTheorems, TLAPS

Tok == [t : Words \cup Structure, line : Nat]

Places(s, t, k) == {i \in 1..k : s[i].t = t}

Number(s, t, k) == Cardinality(Places(s, t, k))

\* s2 is s and more, and the tokens t of the rest are those of a..b.
Grows(s, s2, t, a, b) ==
  /\ Len(s) <= Len(s2)
  /\ \A i \in 1..Len(s) : s2[i] = s[i]
  /\ \A i \in (Len(s) + 1)..Len(s2) : s2[i].t = t <=> i \in a..b
  /\ Len(s) < a /\ a <= b + 1 /\ b <= Len(s2)

NoPrefixClosesMore(s) ==
  \A k \in 0..Len(s) : Number(s, "DEDENT", k) <= Number(s, "INDENT", k)

Open == Number(tokens, "INDENT", Len(tokens)) - Number(tokens, "DEDENT", Len(tokens))

TypeOK ==
  /\ source \in Sources
  /\ read \in 0..Len(source)
  /\ indentStack \in Seq(Nat) /\ Len(indentStack) >= 1
  /\ tokens \in Seq(Tok)
  /\ phase \in {"lex", "failed", "parse"}
  /\ read = 0 => tokens = <<>>

LInv ==
  /\ TypeOK
  /\ NoPrefixClosesMore(tokens)
  /\ phase # "parse" => Open = Len(indentStack) - 1
  /\ phase = "parse" => Open = 0

-----------------------------------------------------------------------------
\* A number of tokens is a natural number, and none of them is the empty one.
LEMMA NumberIsNat ==
  ASSUME NEW s, NEW t, NEW k \in Nat
  PROVE  /\ IsFiniteSet(Places(s, t, k))
         /\ Number(s, t, k) \in Nat
         /\ Number(s, t, 0) = 0
<1>1. IsFiniteSet(1..k)  BY FS_Interval
<1>2. Places(s, t, k) \subseteq 1..k  BY DEF Places
<1>3. IsFiniteSet(Places(s, t, k))  BY <1>1, <1>2, FS_Subset
<1>4. Number(s, t, k) \in Nat  BY <1>3, FS_CardinalityType DEF Number
<1>5. Places(s, t, 0) = {}  BY SMT DEF Places
<1>6. Number(s, t, 0) = 0  BY <1>5, FS_EmptySet DEF Number
<1> QED  BY <1>3, <1>4, <1>6

\* What a growing sequence does to the number of a token in its prefixes.
LEMMA GrowingNumber ==
  ASSUME NEW s \in Seq(Tok), NEW s2 \in Seq(Tok), NEW t, NEW a \in Nat, NEW b \in Nat,
         Grows(s, s2, t, a, b)
  PROVE  /\ \A k \in 0..Len(s) : Number(s2, t, k) = Number(s, t, k)
         /\ \A k \in (Len(s) + 1)..Len(s2) :
              /\ Number(s2, t, k) >= Number(s, t, Len(s))
              /\ Number(s2, t, k) <= Number(s, t, Len(s)) + (b - a + 1)
         /\ Number(s2, t, Len(s2)) = Number(s, t, Len(s)) + (b - a + 1)
<1> DEFINE n == Len(s)
           upto(k) == IF k < b THEN k ELSE b
<1>0. n \in Nat /\ Len(s2) \in Nat /\ n <= Len(s2)  BY DEF Grows
<1>1. ASSUME NEW k \in 0..n
      PROVE  Number(s2, t, k) = Number(s, t, k)
  <2>1. Places(s2, t, k) = Places(s, t, k)  BY <1>0, <1>1 DEF Places, Grows
  <2> QED  BY <2>1 DEF Number
<1>2. ASSUME NEW k \in n..Len(s2)
      PROVE  Number(s2, t, k)
               = Number(s, t, n) + (IF a > upto(k) THEN 0 ELSE upto(k) - a + 1)
  <2>1. upto(k) \in Nat /\ upto(k) <= k  BY <1>0, <1>2
  <2>2. Places(s2, t, k) \subseteq Places(s, t, n) \cup (a..upto(k))
    <3> SUFFICES ASSUME NEW i \in 1..k, s2[i].t = t
                 PROVE  i \in Places(s, t, n) \cup (a..upto(k))
      BY DEF Places
    <3>1. CASE i <= n  BY <3>1, <1>0, <1>2 DEF Places, Grows
    <3>2. CASE i > n
      <4>1. i \in (n + 1)..Len(s2)  BY <3>2, <1>0, <1>2
      <4>2. i \in a..b  BY <4>1 DEF Grows
      <4> QED  BY <4>2, <1>0, <1>2
    <3> QED  BY <3>1, <3>2, <1>0, <1>2
  <2>3. Places(s, t, n) \cup (a..upto(k)) \subseteq Places(s2, t, k)
    <3>1. Places(s, t, n) \subseteq Places(s2, t, k)
      BY <1>0, <1>2 DEF Places, Grows
    <3>2. ASSUME NEW i \in a..upto(k)  PROVE i \in Places(s2, t, k)
      <4>1. i \in (n + 1)..Len(s2) /\ i \in a..b /\ i \in 1..k
        BY <3>2, <2>1, <1>0, <1>2 DEF Grows
      <4> QED  BY <4>1 DEF Grows, Places
    <3> QED  BY <3>1, <3>2
  <2>4. Places(s2, t, k) = Places(s, t, n) \cup (a..upto(k))  BY <2>2, <2>3
  <2>5. Places(s, t, n) \cap (a..upto(k)) = {}  BY <1>0, <2>1 DEF Places, Grows
  <2>6. IsFiniteSet(Places(s, t, n)) /\ Number(s, t, n) \in Nat
    BY <1>0, NumberIsNat
  <2>7. /\ IsFiniteSet(a..upto(k))
        /\ Cardinality(a..upto(k)) = IF a > upto(k) THEN 0 ELSE upto(k) - a + 1
    <3>1. a \in Int /\ upto(k) \in Int  BY <2>1
    <3> HIDE DEF upto
    <3> QED  BY <3>1, FS_Interval
  <2>8. Cardinality(Places(s, t, n) \cup (a..upto(k)))
          = Cardinality(Places(s, t, n)) + Cardinality(a..upto(k))
              - Cardinality(Places(s, t, n) \cap (a..upto(k)))
    BY <2>6, <2>7, FS_Union
  <2>9. Cardinality(Places(s, t, n) \cap (a..upto(k))) = 0  BY <2>5, FS_EmptySet
  <2> QED  BY <2>4, <2>6, <2>7, <2>8, <2>9, <2>1 DEF Number
<1>3. Number(s, t, n) \in Nat  BY <1>0, NumberIsNat
<1>4. a <= b + 1 /\ b <= Len(s2) /\ n < a  BY DEF Grows
<1>5. ASSUME NEW k \in (n + 1)..Len(s2)
      PROVE  /\ Number(s2, t, k) >= Number(s, t, n)
             /\ Number(s2, t, k) <= Number(s, t, n) + (b - a + 1)
  <2>1. k \in n..Len(s2)  BY <1>0
  <2> QED  BY <2>1, <1>0, <1>2, <1>3, <1>4
<1>6. Number(s2, t, Len(s2)) = Number(s, t, n) + (b - a + 1)
  <2>1. Len(s2) \in n..Len(s2)  BY <1>0
  <2> QED  BY <2>1, <1>0, <1>2, <1>3, <1>4
<1> QED  BY <1>1, <1>5, <1>6

\* A step that opens no more blocks than it has indents for, and closes no
\* more than are open, keeps the prefixes balanced.
LEMMA BalancedStep ==
  ASSUME NEW s \in Seq(Tok), NEW s2 \in Seq(Tok), NoPrefixClosesMore(s),
         NEW a \in Nat, NEW b \in Nat, Grows(s, s2, "INDENT", a, b),
         NEW c \in Nat, NEW d \in Nat, Grows(s, s2, "DEDENT", c, d),
         d - c + 1 <= Number(s, "INDENT", Len(s)) - Number(s, "DEDENT", Len(s))
  PROVE  /\ NoPrefixClosesMore(s2)
         /\ Number(s2, "INDENT", Len(s2)) - Number(s2, "DEDENT", Len(s2))
              = Number(s, "INDENT", Len(s)) - Number(s, "DEDENT", Len(s))
                  + (b - a + 1) - (d - c + 1)
<1>0. Len(s) \in Nat /\ Len(s2) \in Nat /\ Len(s) <= Len(s2)  BY DEF Grows
<1>1. /\ Number(s, "INDENT", Len(s)) \in Nat
      /\ Number(s, "DEDENT", Len(s)) \in Nat
  BY <1>0, NumberIsNat
<1>2. ASSUME NEW k \in 0..Len(s2)
      PROVE  Number(s2, "DEDENT", k) <= Number(s2, "INDENT", k)
  <2>0. Number(s2, "INDENT", k) \in Nat /\ Number(s2, "DEDENT", k) \in Nat
    BY NumberIsNat
  <2>1. CASE k \in 0..Len(s)
    <3>1. Number(s2, "INDENT", k) = Number(s, "INDENT", k)  BY <2>1, GrowingNumber
    <3>2. Number(s2, "DEDENT", k) = Number(s, "DEDENT", k)  BY <2>1, GrowingNumber
    <3> QED  BY <3>1, <3>2, <2>1 DEF NoPrefixClosesMore
  <2>2. CASE k \in (Len(s) + 1)..Len(s2)
    <3>1. Number(s2, "INDENT", k) >= Number(s, "INDENT", Len(s))
      BY <2>2, GrowingNumber
    <3>2. Number(s2, "DEDENT", k) <= Number(s, "DEDENT", Len(s)) + (d - c + 1)
      BY <2>2, GrowingNumber
    <3> QED  BY <3>1, <3>2, <2>0, <1>1
  <2> QED  BY <2>1, <2>2, <1>0
<1>3. Number(s2, "INDENT", Len(s2)) = Number(s, "INDENT", Len(s)) + (b - a + 1)
  BY GrowingNumber
<1>4. Number(s2, "DEDENT", Len(s2)) = Number(s, "DEDENT", Len(s)) + (d - c + 1)
  BY GrowingNumber
<1> QED  BY <1>1, <1>2, <1>3, <1>4 DEF NoPrefixClosesMore

Plain(s) == \A i \in 1..Len(s) : s[i].t \notin {"INDENT", "DEDENT"}

\* The words of a line are tokens that open and close nothing.
LEMMA WordsArePlain ==
  ASSUME TypeOK, NEW n \in 1..Len(source)
  PROVE  WordsOf(n) \in Seq(Tok) /\ Plain(WordsOf(n))
<1>1. source \in Seq(Line)  BY SourcesAssumption DEF TypeOK
<1>2. source[n] \in Line /\ n \in Nat  BY <1>1
<1>3. source[n].words \in Seq(Words)  BY <1>2 DEF Line
<1>4. Len(source[n].words) \in Nat  BY <1>3
<1>5. \A i \in 1..Len(source[n].words) :
        Token(source[n].words[i], n) \in Tok
          /\ Token(source[n].words[i], n).t \notin {"INDENT", "DEDENT"}
  <2> TAKE i \in 1..Len(source[n].words)
  <2>1. source[n].words[i] \in Words  BY <1>3
  <2>2. source[n].words[i] \notin {"INDENT", "DEDENT"}
    BY <2>1, WordsAssumption DEF Structure
  <2> QED  BY <2>1, <2>2, <1>2 DEF Token, Tok
<1>6. WordsOf(n) \in Seq(Tok)  BY <1>4, <1>5 DEF WordsOf
<1>7. Len(WordsOf(n)) = Len(source[n].words)  BY <1>4 DEF WordsOf
<1> QED  BY <1>5, <1>6, <1>7 DEF Plain, WordsOf

\* Where the elements of two sequences are in the two joined.
LEMMA Joined ==
  ASSUME NEW T, NEW s \in Seq(T), NEW p \in Seq(T)
  PROVE  /\ s \o p \in Seq(T)
         /\ Len(s \o p) = Len(s) + Len(p)
         /\ \A i \in 1..Len(s) : (s \o p)[i] = s[i]
         /\ \A i \in 1..Len(p) : (s \o p)[Len(s) + i] = p[i]
OBVIOUS

\* Tokens that neither open nor close, and DEDENTs between them.
LEMMA Closing ==
  ASSUME NEW s \in Seq(Tok), NEW head \in Seq(Tok), NEW rest \in Seq(Tok),
         Plain(head), Plain(rest), NEW d \in Nat, NEW n \in Nat
  PROVE  LET s2 == s \o head \o Dedents(d, n) \o rest
         IN  /\ s2 \in Seq(Tok)
             /\ Grows(s, s2, "INDENT", Len(s) + 1, Len(s))
             /\ Grows(s, s2, "DEDENT", Len(s) + Len(head) + 1, Len(s) + Len(head) + d)
<1> DEFINE mid   == Dedents(d, n)
           front == s \o head
           most  == front \o mid
           s2    == most \o rest
<1>0. Len(s) \in Nat /\ Len(head) \in Nat /\ Len(rest) \in Nat  OBVIOUS
<1>1. /\ mid \in Seq(Tok) /\ Len(mid) = d
      /\ \A i \in 1..d : mid[i].t = "DEDENT"
  <2>1. Token("DEDENT", n) \in Tok /\ Token("DEDENT", n).t = "DEDENT"
    BY DEF Token, Tok, Structure
  <2> QED  BY <2>1 DEF Dedents
<1>1m. mid \in Seq(Tok)  BY <1>1
<1> HIDE DEF mid
<1>2. /\ front \in Seq(Tok) /\ Len(front) = Len(s) + Len(head)
      /\ \A i \in 1..Len(s) : front[i] = s[i]
      /\ \A i \in 1..Len(head) : front[Len(s) + i] = head[i]
  BY Joined
<1>2f. front \in Seq(Tok)  BY <1>2
<1> HIDE DEF front
<1>3. /\ most \in Seq(Tok) /\ Len(most) = Len(front) + Len(mid)
      /\ \A i \in 1..Len(front) : most[i] = front[i]
      /\ \A i \in 1..Len(mid) : most[Len(front) + i] = mid[i]
  BY <1>1m, <1>2f, Joined
<1>3t. most \in Seq(Tok)  BY <1>3
<1> HIDE DEF most
<1>4. /\ s2 \in Seq(Tok) /\ Len(s2) = Len(most) + Len(rest)
      /\ \A i \in 1..Len(most) : s2[i] = most[i]
      /\ \A i \in 1..Len(rest) : s2[Len(most) + i] = rest[i]
  BY <1>3t, Joined
<1> HIDE DEF s2
<1>5. /\ \A i \in 1..Len(s) : s2[i] = s[i]
      /\ \A i \in 1..Len(head) : s2[Len(s) + i] = head[i]
      /\ \A i \in 1..d : s2[Len(s) + Len(head) + i] = mid[i]
      /\ \A i \in 1..Len(rest) : s2[Len(s) + Len(head) + d + i] = rest[i]
      /\ Len(s2) = Len(s) + Len(head) + d + Len(rest)
  <2>1. Len(most) = Len(s) + Len(head) + d  BY <1>1, <1>2, <1>3
  <2>2. \A i \in 1..Len(s) : s2[i] = s[i]  BY <1>0, <2>1, <1>2, <1>3, <1>4
  <2>3. \A i \in 1..Len(head) : s2[Len(s) + i] = head[i]
    <3> TAKE i \in 1..Len(head)
    <3>1. front[Len(s) + i] = head[i]  BY <1>2
    <3>2. Len(s) + i \in 1..Len(front) /\ Len(s) + i \in 1..Len(most)
      BY <1>0, <1>2, <2>1
    <3> QED  BY <3>1, <3>2, <1>3, <1>4
  <2>4. \A i \in 1..d : s2[Len(s) + Len(head) + i] = mid[i]
    <3> TAKE i \in 1..d
    <3>1. most[Len(front) + i] = mid[i]  BY <1>1, <1>3
    <3>2. Len(front) + i \in 1..Len(most)  BY <1>0, <1>2, <2>1
    <3> QED  BY <3>1, <3>2, <1>2, <1>4
  <2>5. \A i \in 1..Len(rest) : s2[Len(s) + Len(head) + d + i] = rest[i]
    BY <2>1, <1>4
  <2> QED  BY <2>1, <2>2, <2>3, <2>4, <2>5, <1>4
<1>6. ASSUME NEW i \in (Len(s) + 1)..Len(s2)
      PROVE  /\ s2[i].t # "INDENT"
             /\ s2[i].t = "DEDENT"
                  <=> i \in (Len(s) + Len(head) + 1)..(Len(s) + Len(head) + d)
  <2>1. CASE i - Len(s) \in 1..Len(head)
    <3>1. PICK j \in 1..Len(head) : j = i - Len(s)  BY <2>1
    <3>2. i = Len(s) + j  BY <1>0, <3>1
    <3>3. s2[i] = head[j]  BY <3>2, <1>5
    <3>4. s2[i].t # "INDENT" /\ s2[i].t # "DEDENT"  BY <3>3 DEF Plain
    <3> QED  BY <3>2, <3>4, <1>0
  <2>2. CASE i - Len(s) - Len(head) \in 1..d
    <3>1. PICK j \in 1..d : j = i - Len(s) - Len(head)  BY <2>2
    <3>2. i = Len(s) + Len(head) + j  BY <1>0, <3>1
    <3>3. s2[i] = mid[j]  BY <3>2, <1>5
    <3>4. s2[i].t = "DEDENT"  BY <3>3, <1>1
    <3> QED  BY <3>2, <3>4, <1>0
  <2>3. CASE i - Len(s) - Len(head) - d \in 1..Len(rest)
    <3>1. PICK j \in 1..Len(rest) : j = i - Len(s) - Len(head) - d  BY <2>3
    <3>2. i = Len(s) + Len(head) + d + j  BY <1>0, <3>1
    <3>3. s2[i] = rest[j]  BY <3>2, <1>5
    <3>4. s2[i].t # "INDENT" /\ s2[i].t # "DEDENT"  BY <3>3 DEF Plain
    <3> QED  BY <3>2, <3>4, <1>0
  <2> QED  BY <1>0, <2>1, <2>2, <2>3, <1>5
<1>7. Grows(s, s2, "INDENT", Len(s) + 1, Len(s))
  BY <1>0, <1>5, <1>6 DEF Grows
<1>8. Grows(s, s2, "DEDENT", Len(s) + Len(head) + 1, Len(s) + Len(head) + d)
  BY <1>0, <1>5, <1>6 DEF Grows
<1> QED  BY <1>4, <1>7, <1>8 DEF s2, most, front, mid

-----------------------------------------------------------------------------
\* A prefix of the tokens, and what the stack says of them, is balanced: the
\* invariant gives what Balanced asks for.
LEMMA LInvBalanced == LInv => Balanced
<1> SUFFICES ASSUME LInv PROVE Balanced
  OBVIOUS
<1>1. Len(tokens) \in Nat  BY DEF LInv, TypeOK
<1>2. /\ Number(tokens, "INDENT", Len(tokens)) \in Nat
      /\ Number(tokens, "DEDENT", Len(tokens)) \in Nat
  BY <1>1, NumberIsNat
<1>3. \A t, k : Count(t, k) = Number(tokens, t, k)  BY DEF Count, Number, Places
<1> QED  BY <1>2, <1>3 DEF LInv, Balanced, NoPrefixClosesMore, Open

(* Before the first line nothing is open and nothing is written.           *)
LEMMA InitLInv == LayoutInit => LInv
<1> SUFFICES ASSUME LayoutInit PROVE LInv
  OBVIOUS
<1>1. source \in Seq(Line) /\ source # <<>>
  BY SourcesAssumption DEF LayoutInit
<1>2. Number(tokens, "INDENT", 0) = 0 /\ Number(tokens, "DEDENT", 0) = 0
  BY NumberIsNat
<1>3. tokens = <<>> /\ Len(tokens) = 0  BY DEF LayoutInit
<1>4. TypeOK  BY <1>1, <1>3 DEF LayoutInit, TypeOK
<1>5. Open = Len(indentStack) - 1  BY <1>2, <1>3 DEF Open, LayoutInit
<1>6. NoPrefixClosesMore(tokens)  BY <1>2, <1>3 DEF NoPrefixClosesMore
<1> QED  BY <1>4, <1>5, <1>6 DEF LInv, LayoutInit

\* A step that adds tokens keeps the invariant if the stack follows.
LEMMA StepLInv ==
  ASSUME LInv, TypeOK', phase # "parse",
         NEW a \in Nat, NEW b \in Nat, Grows(tokens, tokens', "INDENT", a, b),
         NEW c \in Nat, NEW d \in Nat, Grows(tokens, tokens', "DEDENT", c, d),
         d - c + 1 <= Len(indentStack) - 1,
         phase' # "parse" =>
           Len(indentStack)' = Len(indentStack) + (b - a + 1) - (d - c + 1),
         phase' = "parse" => b - a + 1 = 0 /\ d - c + 1 = Len(indentStack) - 1
  PROVE  LInv'
<1>0. /\ tokens \in Seq(Tok) /\ NoPrefixClosesMore(tokens)
      /\ Open = Len(indentStack) - 1
      /\ Len(indentStack) \in Nat
  BY DEF LInv, TypeOK
<1>1. tokens' \in Seq(Tok) /\ Len(indentStack)' \in Nat  BY DEF TypeOK
<1>2. d - c + 1 <= Number(tokens, "INDENT", Len(tokens))
                     - Number(tokens, "DEDENT", Len(tokens))
  BY <1>0 DEF Open
<1>3. /\ NoPrefixClosesMore(tokens')
      /\ Number(tokens', "INDENT", Len(tokens'))
           - Number(tokens', "DEDENT", Len(tokens'))
           = Number(tokens, "INDENT", Len(tokens))
               - Number(tokens, "DEDENT", Len(tokens)) + (b - a + 1) - (d - c + 1)
  BY <1>0, <1>1, <1>2, BalancedStep
<1>4. Open' = Open + (b - a + 1) - (d - c + 1)  BY <1>3 DEF Open
<1>5. NoPrefixClosesMore(tokens)'  BY <1>3 DEF NoPrefixClosesMore
<1> QED  BY <1>0, <1>1, <1>4, <1>5 DEF LInv

-----------------------------------------------------------------------------
\* What every line has: a width, and tokens.
LEMMA LineFacts ==
  ASSUME TypeOK
  PROVE  /\ Len(source) \in Nat /\ Len(source) >= 1
         /\ \A n \in 1..Len(source) : source[n].w \in Nat
<1>1. source \in Seq(Line) \ {<<>>}  BY SourcesAssumption DEF TypeOK
<1>2. \A n \in 1..Len(source) : source[n] \in Line  BY <1>1
<1> QED  BY <1>1, <1>2 DEF Line

(* The first line opens nothing.                                           *)
LEMMA FirstLineLInv == LInv /\ FirstLine => LInv'
<1> SUFFICES ASSUME LInv, FirstLine PROVE LInv'
  OBVIOUS
<1>0. TypeOK  BY DEF LInv
<1>1. 1 \in 1..Len(source)  BY <1>0, LineFacts
<1>2. WordsOf(1) \in Seq(Tok) /\ Plain(WordsOf(1))  BY <1>0, <1>1, WordsArePlain
<1>3. tokens = <<>> /\ Len(tokens) = 0 /\ tokens' = WordsOf(1)
  BY <1>0 DEF FirstLine, TypeOK
<1>4. TypeOK'  BY <1>0, <1>1, <1>2 DEF TypeOK, FirstLine
<1>5. Grows(tokens, tokens', "INDENT", 1, 0) /\ Grows(tokens, tokens', "DEDENT", 1, 0)
  BY <1>2, <1>3 DEF Grows, Plain
<1>6. phase # "parse" /\ phase' # "parse" /\ indentStack' = indentStack
  BY DEF FirstLine
<1>7. Len(indentStack) \in Nat /\ Len(indentStack) >= 1  BY <1>0 DEF TypeOK
<1> QED  BY <1>4, <1>5, <1>6, <1>7, StepLInv

(* A blank line leaves the stack alone.                                    *)
LEMMA BlankLineLInv == LInv /\ BlankLine => LInv'
<1> SUFFICES ASSUME LInv, BlankLine PROVE LInv'
  OBVIOUS
<1>0. TypeOK  BY DEF LInv
<1>1. NewLine \in Tok /\ NewLine.t = "NEWLINE"
  BY <1>0 DEF TypeOK, NewLine, Token, Tok, Structure
<1>2. tokens' = Append(tokens, NewLine) /\ tokens \in Seq(Tok)
  BY <1>0 DEF BlankLine, TypeOK
<1>3. /\ tokens' \in Seq(Tok) /\ Len(tokens') = Len(tokens) + 1
      /\ \A i \in 1..Len(tokens) : tokens'[i] = tokens[i]
      /\ tokens'[Len(tokens) + 1] = NewLine
  BY <1>1, <1>2
<1>4. Len(source) \in Nat  BY <1>0, LineFacts
<1>5. TypeOK'  BY <1>0, <1>3, <1>4 DEF TypeOK, BlankLine, More
<1>6. \A i \in (Len(tokens) + 1)..Len(tokens') : tokens'[i].t = "NEWLINE"
  BY <1>1, <1>2, <1>3
<1>7. /\ Grows(tokens, tokens', "INDENT", Len(tokens) + 1, Len(tokens))
      /\ Grows(tokens, tokens', "DEDENT", Len(tokens) + 1, Len(tokens))
  BY <1>2, <1>3, <1>6 DEF Grows
<1>8. phase # "parse" /\ phase' # "parse" /\ indentStack' = indentStack
  BY DEF BlankLine, More
<1>9. Len(indentStack) \in Nat /\ Len(indentStack) >= 1  BY <1>0 DEF TypeOK
<1>10. Len(tokens) \in Nat /\ Len(tokens) + 1 \in Nat  BY <1>2
<1> QED  BY <1>5, <1>7, <1>8, <1>9, <1>10, StepLInv

(* A deeper line opens one block and pushes its width.                     *)
LEMMA DeeperLInv == LInv /\ Deeper => LInv'
<1> SUFFICES ASSUME LInv, Deeper PROVE LInv'
  OBVIOUS
<1>0. TypeOK  BY DEF LInv
<1> DEFINE n    == read + 1
           ws   == WordsOf(n)
           two  == <<NewLine, Token("INDENT", n)>>
           s1   == tokens \o two
<1>1. n \in 1..Len(source)  BY <1>0, LineFacts DEF Deeper, More
<1>2. ws \in Seq(Tok) /\ Plain(ws)  BY <1>0, <1>1, WordsArePlain
<1>3. tokens \in Seq(Tok) /\ Len(tokens) \in Nat  BY <1>0 DEF TypeOK
<1>4. /\ two \in Seq(Tok) /\ Len(two) = 2
      /\ two[1].t = "NEWLINE" /\ two[2].t = "INDENT"
  <2>1. read \in Nat  BY <1>0, LineFacts DEF TypeOK
  <2> QED  BY <2>1 DEF NewLine, Token, Tok, Structure
<1>5. tokens' = s1 \o ws  BY DEF Deeper
<1> HIDE DEF ws, two
<1>6. /\ s1 \in Seq(Tok) /\ Len(s1) = Len(tokens) + Len(two)
      /\ \A i \in 1..Len(tokens) : s1[i] = tokens[i]
      /\ \A i \in 1..Len(two) : s1[Len(tokens) + i] = two[i]
  <2>1. tokens \in Seq(Tok) /\ two \in Seq(Tok)  BY <1>3, <1>4
  <2> QED  BY <2>1, Joined
<1>6a. s1 \in Seq(Tok)  BY <1>6
<1>6b. ws \in Seq(Tok)  BY <1>2
<1> HIDE DEF s1
<1>7. /\ tokens' \in Seq(Tok) /\ Len(tokens') = Len(s1) + Len(ws)
      /\ \A i \in 1..Len(s1) : tokens'[i] = s1[i]
      /\ \A i \in 1..Len(ws) : tokens'[Len(s1) + i] = ws[i]
  BY <1>5, <1>6a, <1>6b, Joined
<1>8. Len(ws) \in Nat /\ Len(s1) = Len(tokens) + 2  BY <1>2, <1>4, <1>6
<1>9. /\ tokens'[Len(tokens) + 1].t = "NEWLINE"
      /\ tokens'[Len(tokens) + 2].t = "INDENT"
  <2>1. s1[Len(tokens) + 1] = two[1] /\ s1[Len(tokens) + 2] = two[2]
    BY <1>4, <1>6
  <2>2. Len(tokens) + 1 \in 1..Len(s1) /\ Len(tokens) + 2 \in 1..Len(s1)
    BY <1>3, <1>8
  <2>3. /\ tokens'[Len(tokens) + 1] = s1[Len(tokens) + 1]
        /\ tokens'[Len(tokens) + 2] = s1[Len(tokens) + 2]
    BY <2>2, <1>7
  <2> QED  BY <2>1, <2>3, <1>4
<1>10. \A i \in 1..Len(tokens) : tokens'[i] = tokens[i]
  BY <1>3, <1>6, <1>7, <1>8
<1>11. ASSUME NEW i \in (Len(tokens) + 1)..Len(tokens')
       PROVE  /\ tokens'[i].t # "DEDENT"
              /\ tokens'[i].t = "INDENT" <=> i = Len(tokens) + 2
  <2>1. CASE i = Len(tokens) + 1  BY <2>1, <1>3, <1>9
  <2>2. CASE i = Len(tokens) + 2  BY <2>2, <1>9
  <2>3. CASE i > Len(tokens) + 2
    <3>1. PICK j \in 1..Len(ws) : j = i - Len(tokens) - 2
      <4>1. Len(tokens') = Len(tokens) + 2 + Len(ws)  BY <1>7, <1>8
      <4>2. i - Len(tokens) - 2 \in 1..Len(ws)  BY <4>1, <2>3, <1>3, <1>8
      <4> QED  BY <4>2
    <3>2. i = Len(s1) + j  BY <3>1, <1>3, <1>8
    <3>3. tokens'[i] = ws[j]  BY <3>2, <1>7
    <3>4. tokens'[i].t # "DEDENT" /\ tokens'[i].t # "INDENT"
      BY <3>3, <1>2 DEF Plain
    <3> QED  BY <3>4, <2>3, <1>3
  <2> QED  BY <2>1, <2>2, <2>3, <1>3
<1>12. Grows(tokens, tokens', "INDENT", Len(tokens) + 2, Len(tokens) + 2)
  BY <1>3, <1>7, <1>8, <1>10, <1>11 DEF Grows
<1>13. Grows(tokens, tokens', "DEDENT", Len(tokens) + 1, Len(tokens))
  BY <1>3, <1>7, <1>8, <1>10, <1>11 DEF Grows
<1>14. /\ indentStack' \in Seq(Nat) /\ Len(indentStack') = Len(indentStack) + 1
       /\ Len(indentStack) \in Nat /\ Len(indentStack) >= 1
  <2>1. Width \in Nat  BY <1>0, <1>1, LineFacts DEF Width
  <2>2. indentStack \in Seq(Nat) /\ Len(indentStack) >= 1  BY <1>0 DEF TypeOK
  <2> QED  BY <2>1, <2>2 DEF Deeper
<1>15. TypeOK'
  <2>1. /\ source' = source /\ phase' = phase /\ read' = read + 1
        /\ read \in 1..(Len(source) - 1)
    BY DEF Deeper, More
  <2>2. Len(source) \in Nat  BY <1>0, LineFacts
  <2> QED  BY <2>1, <2>2, <1>0, <1>7, <1>14 DEF TypeOK
<1>16. phase # "parse" /\ phase' # "parse"  BY DEF Deeper, More
<1>17. Len(tokens) + 1 \in Nat /\ Len(tokens) + 2 \in Nat  BY <1>3
<1> QED  BY <1>3, <1>12, <1>13, <1>14, <1>15, <1>16, <1>17, StepLInv

(* A level or shallower line closes a block for each width it pops.        *)
LEMMA LevelOrShallowerLInv == LInv /\ LevelOrShallower => LInv'
<1> SUFFICES ASSUME LInv, LevelOrShallower PROVE LInv'
  OBVIOUS
<1>0. TypeOK  BY DEF LInv
<1> DEFINE n == read + 1
<1>1. PICK k \in 1..Len(indentStack) :
        /\ indentStack' = SubSeq(indentStack, 1, k)
        /\ tokens' = tokens \o <<NewLine>> \o Dedents(Len(indentStack) - k, n)
                            \o WordsOf(n)
  BY DEF LevelOrShallower, Reached
<1>2. n \in 1..Len(source) /\ n \in Nat /\ read \in Nat
  BY <1>0, LineFacts DEF LevelOrShallower, More
<1>3. WordsOf(n) \in Seq(Tok) /\ Plain(WordsOf(n))  BY <1>0, <1>2, WordsArePlain
<1>4. tokens \in Seq(Tok) /\ Len(tokens) \in Nat  BY <1>0 DEF TypeOK
<1>5. <<NewLine>> \in Seq(Tok) /\ Plain(<<NewLine>>) /\ Len(<<NewLine>>) = 1
  BY <1>2 DEF NewLine, Token, Tok, Structure, Plain
<1>6. indentStack \in Seq(Nat) /\ Len(indentStack) \in Nat /\ Len(indentStack) >= 1
  BY <1>0 DEF TypeOK
<1> DEFINE d == Len(indentStack) - k
<1>7. d \in Nat /\ d <= Len(indentStack) - 1  BY <1>6
<1>8. /\ tokens' \in Seq(Tok)
      /\ Grows(tokens, tokens', "INDENT", Len(tokens) + 1, Len(tokens))
      /\ Grows(tokens, tokens', "DEDENT", Len(tokens) + 2, Len(tokens) + 1 + d)
  <2> HIDE DEF d, n
  <2>1. LET s2 == tokens \o <<NewLine>> \o Dedents(d, n) \o WordsOf(n)
        IN  /\ s2 \in Seq(Tok)
            /\ Grows(tokens, s2, "INDENT", Len(tokens) + 1, Len(tokens))
            /\ Grows(tokens, s2, "DEDENT", Len(tokens) + Len(<<NewLine>>) + 1,
                                           Len(tokens) + Len(<<NewLine>>) + d)
    BY <1>2, <1>3, <1>4, <1>5, <1>7, Closing
  <2>2. tokens' = tokens \o <<NewLine>> \o Dedents(d, n) \o WordsOf(n)
    BY <1>1 DEF d
  <2>3. /\ Len(tokens) + Len(<<NewLine>>) + 1 = Len(tokens) + 2
        /\ Len(tokens) + Len(<<NewLine>>) + d = Len(tokens) + 1 + d
    BY <1>4, <1>5, <1>7
  <2> QED  BY <2>1, <2>2, <2>3
<1>9. indentStack' \in Seq(Nat) /\ Len(indentStack') = k  BY <1>1, <1>6
<1>10. TypeOK'
  <2>1. /\ source' = source /\ phase' = phase /\ read' = read + 1
        /\ read \in 1..(Len(source) - 1)
    BY DEF LevelOrShallower, More
  <2>2. Len(source) \in Nat  BY <1>0, LineFacts
  <2>3. k >= 1  BY <1>6
  <2> QED  BY <2>1, <2>2, <2>3, <1>0, <1>8, <1>9 DEF TypeOK
<1>11. phase # "parse" /\ phase' # "parse"  BY DEF LevelOrShallower, More
<1>12. /\ Len(tokens) + 1 \in Nat /\ Len(tokens) + 2 \in Nat
       /\ Len(tokens) + 1 + d \in Nat
  BY <1>4, <1>7
<1>13. /\ (Len(tokens) + 1 + d) - (Len(tokens) + 2) + 1 = d
       /\ Len(tokens) - (Len(tokens) + 1) + 1 = 0
       /\ Len(indentStack') = Len(indentStack) + 0 - d
  BY <1>4, <1>6, <1>7, <1>9
<1> HIDE DEF d
<1> QED  BY <1>4, <1>7, <1>8, <1>10, <1>11, <1>12, <1>13, StepLInv

(* The end of the file closes all that are open.                           *)
LEMMA EndOfFileLInv == LInv /\ EndOfFile => LInv'
<1> SUFFICES ASSUME LInv, EndOfFile PROVE LInv'
  OBVIOUS
<1>0. TypeOK  BY DEF LInv
<1>1. read \in Nat /\ Len(source) \in Nat  BY <1>0, LineFacts DEF TypeOK
<1>2. indentStack \in Seq(Nat) /\ Len(indentStack) \in Nat /\ Len(indentStack) >= 1
  BY <1>0 DEF TypeOK
<1>3. tokens \in Seq(Tok) /\ Len(tokens) \in Nat  BY <1>0 DEF TypeOK
<1> DEFINE d == Len(indentStack) - 1
<1>4. d \in Nat  BY <1>2
<1>5. PICK feed \in BOOLEAN :
        LET line == IF feed THEN read + 1 ELSE read
        IN  tokens' = tokens \o (IF feed THEN <<NewLine>> ELSE <<>>)
                             \o Dedents(d, line) \o <<Token("EOF", line)>>
  BY DEF EndOfFile
<1> DEFINE line == IF feed THEN read + 1 ELSE read
           head == IF feed THEN <<NewLine>> ELSE <<>>
           rest == <<Token("EOF", line)>>
<1>6. line \in Nat  BY <1>1
<1>7. head \in Seq(Tok) /\ Plain(head) /\ Len(head) \in Nat
  <2>1. CASE feed
    <3>1. head = <<NewLine>>  BY <2>1
    <3>2. NewLine \in Tok /\ NewLine.t = "NEWLINE"
      BY <1>1 DEF NewLine, Token, Tok, Structure
    <3> QED  BY <3>1, <3>2 DEF Plain
  <2>2. CASE ~feed
    <3>1. head = <<>>  BY <2>2
    <3> QED  BY <3>1 DEF Plain
  <2> QED  BY <2>1, <2>2
<1> HIDE DEF line
<1>8. rest \in Seq(Tok) /\ Plain(rest)  BY <1>6 DEF Token, Tok, Structure, Plain
<1>9. tokens' = tokens \o head \o Dedents(d, line) \o rest  BY <1>5 DEF line
<1> HIDE DEF head, rest, d
<1>10. /\ tokens' \in Seq(Tok)
       /\ Grows(tokens, tokens', "INDENT", Len(tokens) + 1, Len(tokens))
       /\ Grows(tokens, tokens', "DEDENT", Len(tokens) + Len(head) + 1,
                                           Len(tokens) + Len(head) + d)
  BY <1>3, <1>4, <1>6, <1>7, <1>8, <1>9, Closing
<1>11. /\ indentStack' = <<0>> /\ phase' = "parse" /\ phase = "lex"
       /\ source' = source /\ read' = read
  BY DEF EndOfFile
<1>12. TypeOK'
  <2>1. read # 0  BY <1>0, <1>1, LineFacts DEF EndOfFile
  <2> QED  BY <2>1, <1>0, <1>10, <1>11 DEF TypeOK
<1>13. /\ Len(tokens) + 1 \in Nat /\ Len(tokens) + Len(head) + 1 \in Nat
       /\ Len(tokens) + Len(head) + d \in Nat
  BY <1>3, <1>4, <1>7
<1>14. /\ (Len(tokens) + Len(head) + d) - (Len(tokens) + Len(head) + 1) + 1 = d
       /\ Len(tokens) - (Len(tokens) + 1) + 1 = 0
  BY <1>3, <1>4, <1>7
<1>15. d = Len(indentStack) - 1  BY DEF d
<1> QED
  BY <1>3, <1>4, <1>10, <1>11, <1>12, <1>13, <1>14, <1>15, StepLInv

\* Nothing is lexed after a width that no block has, and nothing when the
\* variables stand still.
LEMMA StopLInv == LInv /\ (IndentError \/ UNCHANGED layoutVars) => LInv'
<1> SUFFICES ASSUME LInv, IndentError \/ UNCHANGED layoutVars PROVE LInv'
  OBVIOUS
<1>1. /\ tokens' = tokens /\ indentStack' = indentStack /\ source' = source
      /\ \/ phase = "lex" /\ phase' = "failed"
         \/ phase' = phase
  BY DEF IndentError, More, layoutVars
<1>2. TypeOK'
  <2>1. CASE IndentError
    <3>1. Len(source) \in Nat  BY LineFacts DEF LInv
    <3> QED  BY <3>1, <2>1, <1>1 DEF LInv, TypeOK, IndentError, More
  <2>2. CASE UNCHANGED layoutVars  BY <2>2 DEF LInv, TypeOK, layoutVars
  <2> QED  BY <2>1, <2>2
<1>3. NoPrefixClosesMore(tokens)'  BY <1>1 DEF LInv, NoPrefixClosesMore
<1>4. Open' = Open  BY <1>1 DEF Open
<1> QED  BY <1>1, <1>2, <1>3, <1>4 DEF LInv

-----------------------------------------------------------------------------
\* For every file: the stack of widths says how many blocks are open.
THEOREM LayoutInvariant == LayoutSpec => []LInv
<1>1. LayoutInit => LInv  BY InitLInv
<1>2. LInv /\ [LayoutNext]_layoutVars => LInv'
  <2> SUFFICES ASSUME LInv, [LayoutNext]_layoutVars PROVE LInv'
    OBVIOUS
  <2>1. CASE FirstLine  BY <2>1, FirstLineLInv
  <2>2. CASE BlankLine  BY <2>2, BlankLineLInv
  <2>3. CASE Deeper  BY <2>3, DeeperLInv
  <2>4. CASE LevelOrShallower  BY <2>4, LevelOrShallowerLInv
  <2>5. CASE IndentError \/ UNCHANGED layoutVars  BY <2>5, StopLInv
  <2>6. CASE EndOfFile  BY <2>6, EndOfFileLInv
  <2> QED  BY <2>1, <2>2, <2>3, <2>4, <2>5, <2>6 DEF LayoutNext
<1> QED  BY <1>1, <1>2, PTL DEF LayoutSpec

\* The lexer's INDENT and DEDENT tokens (lexer.cpp:164-189 and 629-632) are
\* balanced in every prefix, and even at the end of a file that was lexed,
\* whatever its lines are.
THEOREM AlwaysBalanced == LayoutSpec => []Balanced
<1>1. LayoutSpec => []LInv  BY LayoutInvariant
<1>2. LInv => Balanced  BY LInvBalanced
<1> QED  BY <1>1, <1>2, PTL
=============================================================================
