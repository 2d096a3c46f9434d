------------------------- MODULE CompileCacheProofs -------------------------
(***************************************************************************)
(* The invariants of CompileCache for every number of compilers, texts,    *)
(* backends and edits.  TypeOK is not inductive: what a process holds in   *)
(* memory must be tied to the label it is at.                              *)
(***************************************************************************)
EXTENDS CompileCache, TLAPS

AstHeld == {"accOpen", "accWrite", "accFlush"}
AstReady == AstHeld \cup {"inject", "ircHead", "ircTail", "lower"}
IrcSaving == {"ircOpen", "ircWrite", "ircFlush"}

(* k names the inputs of process p, whatever FFI stamp it saw.             *)
KeyOf(k, p) ==
  /\ k \in IrcKeys
  /\ k.text = snap[p].text /\ k.deps = snap[p].deps
  /\ k.build = snap[p].build /\ k.tgt = req[p].tgt
  /\ k.runtime = req[p].runtime

MemoryOK(p) ==
  /\ pc[p] \in AstHeld => ast[p].text = snap[p].text
  /\ pc[p] \in AstReady => ast[p].text \in {snap[p].text, Garbage}
  /\ pc[p] = "accTail" =>
       /\ seen[p] \in AccChunks
       /\ seen[p].body.text = snap[p].text
  /\ pc[p] = "ircTail" =>
       /\ seen[p] \in IrcChunks /\ KeyOf(seen[p].key, p)
       /\ IrcEntryKeyed(seen[p])
  /\ (pc[p] \in IrcSaving \cup {"ircTail"}) => KeyOf(ikey[p], p)
  /\ (pc[p] = "lower" /\ ReadsCache(req[p]) /\ ~req[p].stopAfterIR)
       => KeyOf(ikey[p], p)
  /\ pc[p] \in IrcSaving => ir[p] \in Irs /\ IrKeyed(ir[p], ikey[p])
  /\ pc[p] = "gates" =>
       \/ ir[p] = TornIr
       \/ ir[p] \in Irs /\ MadeFrom(ir[p], snap[p], req[p])
  /\ pc[p] # "idle" => outcome[p] = NoOutcome

IInv == TypeOK /\ EntriesKeyed /\ OutcomeFromInputs /\ \A p \in Procs : MemoryOK(p)

(* Trees, torn ones too, and what is lowered from them, are typed.         *)
LEMMA ModelTyped ==
  /\ NoAst \in Asts /\ \A t \in Texts : ParsedAst(t) \in Asts
  /\ \A a \in Asts, d \in Deps, b \in Builds, r \in RequestSpace :
       Lowered(a, d, b, r) \in Irs
<1>1. NoAst \in Asts /\ \A t \in Texts : ParsedAst(t) \in Asts
  BY SizesAssumption DEF NoAst, ParsedAst, Asts, Programs
<1>2. ASSUME NEW a \in Asts, NEW d \in Deps, NEW b \in Builds, NEW r \in RequestSpace
      PROVE  Lowered(a, d, b, r) \in Irs
  <2>1. a.text \in Programs
    BY DEF Asts
  <2>2. ConstLen[a.text][d] \in Nat /\ OperandCount[a.text][d] \in Nat
    BY <2>1, SizesAssumption
  <2>3. QED
    BY <2>2 DEF Lowered, Irs, Asts, RequestSpace
<1>3. QED
  BY <1>1, <1>2

(* What a process writes is well typed and made from its own inputs.       *)
LEMMA AccWrittenOK ==
  ASSUME IInv, NEW p \in Procs, pc[p] \in AstHeld
  PROVE  AccWritten(p) \in AccChunks /\ AccEntryKeyed(AccWritten(p))
<1>1. ast[p] \in Asts /\ ast[p].text = snap[p].text /\ snap[p] \in Snapshots
  BY DEF IInv, TypeOK, MemoryOK
<1>2. StoredAst(ast[p]) \in Asts /\ StoredAst(ast[p]).text = ast[p].text
  BY <1>1 DEF StoredAst, Asts, Word
<1>3. AccKey(snap[p].text, snap[p].build) \in AccKeys
  BY <1>1 DEF AccKey, AccKeys, Snapshots
<1>4. QED
  BY <1>1, <1>2, <1>3 DEF AccWritten, AccChunk, AccChunks, AccEntryKeyed, AccKey

(* The .irc chunk a process writes is well typed and made from its key.    *)
LEMMA IrcWrittenOK ==
  ASSUME IInv, NEW p \in Procs, pc[p] \in IrcSaving
  PROVE  /\ IrcWritten(p) \in IrcChunks /\ IrcEntryKeyed(IrcWritten(p))
         /\ IrcWritten(p).key.tgt = req[p].tgt /\ req[p].tgt \in Targets
<1>1. /\ ir[p] \in Irs /\ ikey[p] \in IrcKeys /\ IrKeyed(ir[p], ikey[p])
      /\ ikey[p].tgt = req[p].tgt
  BY DEF IInv, MemoryOK, KeyOf
<1>2. StoredIr(ir[p]) \in Irs /\ IrKeyed(StoredIr(ir[p]), ikey[p])
  BY <1>1 DEF StoredIr, Irs, IrKeyed, Word, Byte
<1>3. ikey[p].tgt \in Targets
  BY <1>1 DEF IrcKeys
<1>4. QED
  BY <1>1, <1>2, <1>3 DEF IrcWritten, IrcChunk, IrcChunks, IrcEntryKeyed

(* Writing a chunk keeps a file a file.                                    *)
LEMMA FileTyped ==
  ASSUME NEW S, Hole \in S, NEW f \in [head : S, tail : S], NEW c \in S
  PROVE  /\ WithHead(f, c) \in [head : S, tail : S]
         /\ WithHead(f, c).head = c /\ WithHead(f, c).tail = f.tail
         /\ WithTail(f, c) \in [head : S, tail : S]
         /\ WithTail(f, c).head \in {f.head, Hole} /\ WithTail(f, c).tail = c
  BY DEF WithHead, WithTail

(* Starting a compilation keeps the invariant: it touches no file.         *)
LEMMA StartInv ==
  ASSUME IInv, NEW p \in Procs, NEW r \in Requests, Start(p, r)
  PROVE  IInv'
<1>0. r \in Requests /\ NoOutcome \in Outcomes
  BY DEF NoOutcome, Outcomes
<1>a. [snap[p] EXCEPT !.text = text, !.build = build] \in Snapshots
  BY DEF IInv, TypeOK, Snapshots
<1>b. /\ starts' \in 0..MaxStarts /\ pc' \in [Procs -> Labels]
      /\ snap' \in [Procs -> Snapshots]
  BY <1>a, BoundsAssumption DEF Start, Goto, IInv, TypeOK, Labels
<1>1. TypeOK'
  BY <1>0, <1>b DEF Start, IInv, TypeOK, world, disk
<1>2. EntriesKeyed'
  BY DEF Start, Goto, IInv, EntriesKeyed, disk
<1>3. OutcomeFromInputs'
  BY DEF Start, Goto, IInv, TypeOK, OutcomeFromInputs, NoOutcome, world,
     disk
<1>4. ASSUME NEW q \in Procs PROVE MemoryOK(q)'
  <2>1. CASE q = p
    BY <2>1 DEF Start, Goto, IInv, MemoryOK, KeyOf, MadeFrom, NoOutcome,
       AstHeld, AstReady, IrcSaving, TypeOK
  <2>2. CASE q # p
    BY <2>2 DEF Start, Goto, IInv, TypeOK, MemoryOK, KeyOf, MadeFrom, disk
  <2>3. QED BY <2>1, <2>2
<1>5. QED BY <1>1, <1>2, <1>3, <1>4 DEF IInv

(* A head accepted by loadCache was keyed by this process's source.        *)
LEMMA ReadAccHeadInv ==
  ASSUME IInv, NEW p \in Procs, ReadAccHead(p)
  PROVE  IInv'
<1>1. TypeOK'
  BY DEF ReadAccHead, Goto, IInv, TypeOK, world, disk, budget, Labels,
     HeadMatches, AccKey, AccKeys, AccChunks, Blanks, Missing, Hole,
     MemoryOK
<1>2. EntriesKeyed'
  BY DEF ReadAccHead, Goto, IInv, EntriesKeyed, disk
<1>3. OutcomeFromInputs'
  BY DEF ReadAccHead, Goto, IInv, TypeOK, OutcomeFromInputs, MadeFrom
<1>4. ASSUME NEW q \in Procs PROVE MemoryOK(q)'
  <2>1. CASE q = p
    BY <2>1 DEF ReadAccHead, Goto, IInv, MemoryOK, KeyOf, MadeFrom,
       HeadMatches, AccKey, AstHeld, AstReady, IrcSaving, Missing, Blanks,
       Hole, EntriesKeyed, AccEntryKeyed, disk, TypeOK
  <2>2. CASE q # p
    BY <2>2 DEF ReadAccHead, Goto, IInv, TypeOK, MemoryOK, KeyOf,
       MadeFrom, disk
  <2>3. QED BY <2>1, <2>2
<1>5. QED BY <1>1, <1>2, <1>3, <1>4 DEF IInv

(* What loadCache takes for the tree is the entry's tree or a torn one.    *)
LEMMA ReadAccTailInv ==
  ASSUME IInv, NEW p \in Procs, ReadAccTail(p)
  PROVE  IInv'
<1>1. TypeOK'
  BY TextsAssumption, ModelTyped DEF ReadAccTail, Goto, IInv, TypeOK, world,
     disk, budget, Labels, MemoryOK, AccChunks, LoadedAst, TornAst, Missing
<1>2. EntriesKeyed'
  BY DEF ReadAccTail, Goto, IInv, EntriesKeyed, disk
<1>3. OutcomeFromInputs'
  BY DEF ReadAccTail, Goto, IInv, TypeOK, OutcomeFromInputs, MadeFrom
<1>4. ASSUME NEW q \in Procs PROVE MemoryOK(q)'
  <2>1. CASE q = p
    BY <2>1 DEF ReadAccTail, LoadedAst, Goto, IInv, MemoryOK, KeyOf, MadeFrom,
       NoAst, TornAst, AstHeld, AstReady, IrcSaving, disk, TypeOK
  <2>2. CASE q # p
    BY <2>2 DEF ReadAccTail, Goto, IInv, TypeOK, MemoryOK, KeyOf,
       MadeFrom, disk
  <2>3. QED BY <2>1, <2>2
<1>5. QED BY <1>1, <1>2, <1>3, <1>4 DEF IInv

(* Parsing replaces the tree by one made from the source read.             *)
LEMMA ParseInv ==
  ASSUME IInv, NEW p \in Procs, Parse(p)
  PROVE  IInv'
<1>1. TypeOK'
  BY ModelTyped DEF Parse, Goto, IInv, TypeOK, world, disk, budget, Labels,
     Snapshots, SavesAst
<1>2. EntriesKeyed'
  BY DEF Parse, Goto, IInv, EntriesKeyed, disk
<1>3. OutcomeFromInputs'
  BY DEF Parse, Goto, IInv, TypeOK, OutcomeFromInputs, MadeFrom
<1>4. ASSUME NEW q \in Procs PROVE MemoryOK(q)'
  <2>1. CASE q = p
    BY <2>1 DEF Parse, Goto, IInv, MemoryOK, KeyOf, MadeFrom, ParsedAst,
       AstHeld, AstReady, IrcSaving, disk, TypeOK, SavesAst
  <2>2. CASE q # p
    BY <2>2 DEF Parse, Goto, IInv, TypeOK, MemoryOK, KeyOf, MadeFrom, disk
  <2>3. QED BY <2>1, <2>2
<1>5. QED BY <1>1, <1>2, <1>3, <1>4 DEF IInv

(* Truncating <base>.acc, or failing to, leaves no foreign chunk.          *)
LEMMA OpenAccInv ==
  ASSUME IInv, NEW p \in Procs, OpenAcc(p)
  PROVE  IInv'
<1>1. TypeOK'
  BY DEF OpenAcc, Goto, IInv, TypeOK, world, local, budget, Labels, Empty,
     Blanks, Missing
<1>2. EntriesKeyed'
  BY DEF OpenAcc, Goto, IInv, EntriesKeyed, Empty, Missing, AccEntryKeyed
<1>3. OutcomeFromInputs'
  BY DEF OpenAcc, Goto, IInv, TypeOK, OutcomeFromInputs, local, MadeFrom
<1>4. ASSUME NEW q \in Procs PROVE MemoryOK(q)'
  <2>1. CASE q = p
    BY <2>1 DEF OpenAcc, Goto, IInv, MemoryOK, KeyOf, MadeFrom, local,
       AstHeld, AstReady, IrcSaving, TypeOK
  <2>2. CASE q # p
    BY <2>2 DEF OpenAcc, Goto, IInv, TypeOK, MemoryOK, KeyOf, MadeFrom,
       local
  <2>3. QED BY <2>1, <2>2
<1>5. QED BY <1>1, <1>2, <1>3, <1>4 DEF IInv

(* The head saveCache writes is keyed by the source it was made from.      *)
LEMMA WriteAccHeadInv ==
  ASSUME IInv, NEW p \in Procs, WriteAccHead(p)
  PROVE  IInv'
<1> DEFINE S == Blanks \cup AccChunks
<1>0. /\ AccWritten(p) \in S /\ AccEntryKeyed(AccWritten(p))
      /\ acc \in [head : S, tail : S] /\ Hole \in S
      /\ acc' = WithHead(acc, AccWritten(p))
  BY AccWrittenOK DEF WriteAccHead, Goto, AstHeld, IInv, TypeOK, Blanks
<1>a. /\ acc' \in [head : S, tail : S]
      /\ acc'.head = AccWritten(p) /\ acc'.tail = acc.tail
  <2> HIDE DEF S
  <2>1. QED BY <1>0, FileTyped
<1>1. TypeOK'
  BY <1>a DEF WriteAccHead, Goto, IInv, TypeOK, world, local, budget, Labels
<1>2. EntriesKeyed'
  <2>1. AccEntryKeyed(acc'.head) /\ AccEntryKeyed(acc'.tail)
    BY <1>0, <1>a DEF IInv, EntriesKeyed, AccEntryKeyed, Hole
  <2>2. QED BY <2>1 DEF WriteAccHead, IInv, EntriesKeyed, AccEntryKeyed
<1>3. OutcomeFromInputs'
  BY DEF WriteAccHead, Goto, IInv, TypeOK, OutcomeFromInputs, local,
     MadeFrom
<1>4. ASSUME NEW q \in Procs PROVE MemoryOK(q)'
  <2>1. CASE q = p
    BY <2>1 DEF WriteAccHead, Goto, IInv, MemoryOK, KeyOf, MadeFrom,
       local, AstHeld, AstReady, IrcSaving, TypeOK
  <2>2. CASE q # p
    BY <2>2 DEF WriteAccHead, Goto, IInv, TypeOK, MemoryOK, KeyOf,
       MadeFrom, local
  <2>3. QED BY <2>1, <2>2
<1>5. QED BY <1>1, <1>2, <1>3, <1>4 DEF IInv

(* The same for the tail, possibly after another process's truncation.     *)
LEMMA WriteAccTailInv ==
  ASSUME IInv, NEW p \in Procs, WriteAccTail(p)
  PROVE  IInv'
<1> DEFINE S == Blanks \cup AccChunks
<1>0. /\ AccWritten(p) \in S /\ AccEntryKeyed(AccWritten(p))
      /\ acc \in [head : S, tail : S] /\ Hole \in S
      /\ acc' = WithTail(acc, AccWritten(p))
  BY AccWrittenOK DEF WriteAccTail, Goto, AstHeld, IInv, TypeOK, Blanks
<1>a. /\ acc' \in [head : S, tail : S]
      /\ acc'.head \in {acc.head, Hole} /\ acc'.tail = AccWritten(p)
  <2> HIDE DEF S
  <2>1. QED BY <1>0, FileTyped
<1>1. TypeOK'
  BY <1>a DEF WriteAccTail, Goto, IInv, TypeOK, world, local, budget, Labels
<1>2. EntriesKeyed'
  <2>1. AccEntryKeyed(acc'.head) /\ AccEntryKeyed(acc'.tail)
    BY <1>0, <1>a DEF IInv, EntriesKeyed, AccEntryKeyed, Hole
  <2>2. QED BY <2>1 DEF WriteAccTail, IInv, EntriesKeyed, AccEntryKeyed
<1>3. OutcomeFromInputs'
  BY DEF WriteAccTail, Goto, IInv, TypeOK, OutcomeFromInputs, local,
     MadeFrom
<1>4. ASSUME NEW q \in Procs PROVE MemoryOK(q)'
  <2>1. CASE q = p
    BY <2>1 DEF WriteAccTail, Goto, IInv, MemoryOK, KeyOf, MadeFrom,
       local, AstHeld, AstReady, IrcSaving, TypeOK
  <2>2. CASE q # p
    BY <2>2 DEF WriteAccTail, Goto, IInv, TypeOK, MemoryOK, KeyOf,
       MadeFrom, local
  <2>3. QED BY <2>1, <2>2
<1>5. QED BY <1>1, <1>2, <1>3, <1>4 DEF IInv

(* Reading the imports renews their snapshot before the IR key exists.     *)
LEMMA InjectInv ==
  ASSUME IInv, NEW p \in Procs, Inject(p)
  PROVE  IInv'
<1>1. TypeOK'
  BY DEF Inject, Goto, IInv, TypeOK, world, disk, budget, Labels,
     Snapshots
<1>2. EntriesKeyed'
  BY DEF Inject, Goto, IInv, EntriesKeyed, disk
<1>3. OutcomeFromInputs'
  BY DEF Inject, Goto, IInv, TypeOK, OutcomeFromInputs, MadeFrom,
     MemoryOK, NoOutcome
<1>4. ASSUME NEW q \in Procs PROVE MemoryOK(q)'
  <2>1. CASE q = p
    BY <2>1 DEF Inject, Goto, IInv, MemoryOK, KeyOf, MadeFrom, AstHeld,
       AstReady, IrcSaving, disk, TypeOK, Snapshots
  <2>2. CASE q # p
    BY <2>2 DEF Inject, Goto, IInv, TypeOK, MemoryOK, KeyOf, MadeFrom,
       disk
  <2>3. QED BY <2>1, <2>2
<1>5. QED BY <1>1, <1>2, <1>3, <1>4 DEF IInv

(* A head accepted by loadIRCache is keyed by all inputs of this build.    *)
LEMMA ReadIrcHeadInv ==
  ASSUME IInv, NEW p \in Procs, ReadIrcHead(p)
  PROVE  IInv'
<1>1. TypeOK'
  BY RequestsAssumption DEF ReadIrcHead, Goto, IInv, TypeOK, world, disk,
     budget, Labels, HeadMatches, IrcKey, IrcKeys, LibStamp, IrcChunks,
     Blanks, Missing, Hole, Snapshots, RequestSpace
<1>2. EntriesKeyed'
  BY DEF ReadIrcHead, Goto, IInv, EntriesKeyed, disk
<1>3. OutcomeFromInputs'
  BY DEF ReadIrcHead, Goto, IInv, TypeOK, OutcomeFromInputs, MadeFrom
<1>4. ASSUME NEW q \in Procs PROVE MemoryOK(q)'
  <2>1. CASE q = p
    <3> DEFINE k == IrcKey(snap[p], ffi, req[p])
               f == irc[req[p].tgt]
    <3>1. /\ snap[p] \in Snapshots /\ req[p] \in RequestSpace /\ ffi \in Stamps
          /\ req[p].tgt \in Targets
      BY RequestsAssumption DEF IInv, TypeOK, RequestSpace
    <3>2. KeyOf(k, p)
      BY <3>1 DEF KeyOf, IrcKey, IrcKeys, LibStamp, Snapshots, RequestSpace
    <3>3. /\ ikey'[p] = k /\ UNCHANGED <<snap, req, ast, ir, outcome>>
          /\ pc[p] = "ircHead"
      BY DEF ReadIrcHead, Goto, IInv, TypeOK
    <3>4. KeyOf(ikey[p], p)'
      BY <3>2, <3>3 DEF KeyOf
    <3>5. /\ ast[p].text \in {snap[p].text, Garbage} /\ outcome[p] = NoOutcome
      BY <3>3 DEF IInv, MemoryOK, AstReady
    <3>6. pc'[p] \in {"ircTail", "lower"}
      BY DEF ReadIrcHead, Goto, IInv, TypeOK
    <3>7. ASSUME pc'[p] = "ircTail"
          PROVE  (seen[p] \in IrcChunks /\ KeyOf(seen[p].key, p) /\ IrcEntryKeyed(seen[p]))'
      <4>1. HeadMatches(f.head, k) /\ seen'[p] = f.head
        BY <3>7 DEF ReadIrcHead, Goto, IInv, TypeOK
      <4>2. f.head \in Blanks \cup IrcChunks /\ IrcEntryKeyed(f.head)
        BY <3>1 DEF IInv, TypeOK, EntriesKeyed
      <4>3. f.head \in IrcChunks /\ f.head.key = k
        BY <4>1, <4>2 DEF HeadMatches, Blanks, Missing, Hole
      <4>4. QED
        BY <3>2, <3>3, <4>1, <4>2, <4>3 DEF KeyOf
    <3>8. QED
      BY <2>1, <3>3, <3>4, <3>5, <3>6, <3>7 DEF MemoryOK, AstHeld, AstReady, IrcSaving
  <2>2. CASE q # p
    BY <2>2 DEF ReadIrcHead, Goto, IInv, TypeOK, MemoryOK, KeyOf,
       MadeFrom, disk
  <2>3. QED BY <2>1, <2>2
<1>5. QED BY <1>1, <1>2, <1>3, <1>4 DEF IInv

(* The IR that loadIRCache delivers is the keyed one or a torn one.        *)
LEMMA ReadIrcTailInv ==
  ASSUME IInv, NEW p \in Procs, ReadIrcTail(p)
  PROVE  IInv'
<1>1. TypeOK'
  BY DEF ReadIrcTail, Goto, IInv, TypeOK, world, disk, budget, Labels,
     MemoryOK, IrcChunks, Missing, AstReady
<1>2. EntriesKeyed'
  BY DEF ReadIrcTail, Goto, IInv, EntriesKeyed, disk
<1>3. OutcomeFromInputs'
  BY DEF ReadIrcTail, Goto, IInv, TypeOK, OutcomeFromInputs, MadeFrom
<1>4. ASSUME NEW q \in Procs PROVE MemoryOK(q)'
  <2>1. CASE q = p
    BY <2>1 DEF ReadIrcTail, Goto, IInv, MemoryOK, KeyOf, MadeFrom,
       Missing, AstHeld, AstReady, IrcSaving, disk, TypeOK, IrcEntryKeyed,
       IrKeyed, IrcChunks
  <2>2. CASE q # p
    BY <2>2 DEF ReadIrcTail, Goto, IInv, TypeOK, MemoryOK, KeyOf,
       MadeFrom, disk
  <2>3. QED BY <2>1, <2>2
<1>5. QED BY <1>1, <1>2, <1>3, <1>4 DEF IInv

(* generateIR makes the IR from the snapshot of this compilation.          *)
LEMMA LowerInv ==
  ASSUME IInv, NEW p \in Procs, Lower(p)
  PROVE  IInv'
<1> DEFINE low == Lowered(ast[p], snap[p].deps, snap[p].build, req[p])
<1>0. /\ low \in Irs /\ low.text = ast[p].text /\ low.deps = snap[p].deps
      /\ low.build = snap[p].build /\ low.tgt = req[p].tgt
      /\ low.runtime = req[p].runtime
  <2>1. /\ ast[p] \in Asts /\ snap[p].deps \in Deps /\ snap[p].build \in Builds
        /\ req[p] \in RequestSpace
    BY RequestsAssumption DEF IInv, TypeOK, Snapshots
  <2>2. QED
    BY <2>1, ModelTyped DEF Lowered
<1> HIDE DEF low
<1>a. ir' = [ir EXCEPT ![p] = low]
  BY DEF Lower, low
<1>1. TypeOK'
  BY <1>0, <1>a DEF Lower, Goto, IInv, TypeOK, world, disk, budget, Labels
<1>2. EntriesKeyed'
  BY DEF Lower, Goto, IInv, EntriesKeyed, disk
<1>3. OutcomeFromInputs'
  BY DEF Lower, Goto, IInv, TypeOK, OutcomeFromInputs, MadeFrom
<1>4. ASSUME NEW q \in Procs PROVE MemoryOK(q)'
  <2>1. CASE q = p
    BY <2>1, <1>0, <1>a DEF Lower, Goto, IInv, MemoryOK, KeyOf, MadeFrom,
       AstHeld, AstReady, IrcSaving, disk, TypeOK, IrKeyed
  <2>2. CASE q # p
    BY <2>2 DEF Lower, Goto, IInv, TypeOK, MemoryOK, KeyOf, MadeFrom, disk
  <2>3. QED BY <2>1, <2>2
<1>5. QED BY <1>1, <1>2, <1>3, <1>4 DEF IInv

(* Truncating one target's .irc leaves the other targets' files alone.     *)
LEMMA OpenIrcInv ==
  ASSUME IInv, NEW p \in Procs, OpenIrc(p)
  PROVE  IInv'
<1>1. TypeOK'
  BY DEF OpenIrc, Goto, IInv, TypeOK, world, local, budget, Labels,
     SetIrc, Empty, Blanks, Missing
<1>2. EntriesKeyed'
  BY DEF OpenIrc, Goto, IInv, EntriesKeyed, SetIrc, Empty, Missing,
     IrcEntryKeyed, TypeOK
<1>3. OutcomeFromInputs'
  BY DEF OpenIrc, Goto, IInv, TypeOK, OutcomeFromInputs, local, MadeFrom
<1>4. ASSUME NEW q \in Procs PROVE MemoryOK(q)'
  <2>1. CASE q = p
    BY <2>1 DEF OpenIrc, Goto, IInv, MemoryOK, KeyOf, MadeFrom, local,
       AstHeld, AstReady, IrcSaving, TypeOK, IrKeyed
  <2>2. CASE q # p
    BY <2>2 DEF OpenIrc, Goto, IInv, TypeOK, MemoryOK, KeyOf, MadeFrom,
       local
  <2>3. QED BY <2>1, <2>2
<1>5. QED BY <1>1, <1>2, <1>3, <1>4 DEF IInv

(* The head saveIRCache writes carries the key the IR was made under.      *)
LEMMA WriteIrcHeadInv ==
  ASSUME IInv, NEW p \in Procs, WriteIrcHead(p)
  PROVE  IInv'
<1> DEFINE S == Blanks \cup IrcChunks
           tg == req[p].tgt
<1>0. /\ IrcWritten(p) \in S /\ IrcEntryKeyed(IrcWritten(p))
      /\ IrcWritten(p).key.tgt = tg /\ tg \in Targets
      /\ irc \in [Targets -> [head : S, tail : S]] /\ Hole \in S
      /\ irc' = [irc EXCEPT ![tg] = WithHead(irc[tg], IrcWritten(p))]
  BY IrcWrittenOK DEF WriteIrcHead, Goto, SetIrc, IrcSaving, IInv, TypeOK, Blanks
<1> DEFINE f == WithHead(irc[tg], IrcWritten(p))
<1>a. /\ f \in [head : S, tail : S]
      /\ f.head = IrcWritten(p) /\ f.tail = irc[tg].tail
  <2> HIDE DEF S
  <2>1. QED BY <1>0, FileTyped
<1>b. irc' \in [Targets -> [head : S, tail : S]]
  BY <1>0, <1>a
<1>1. TypeOK'
  BY <1>b DEF WriteIrcHead, Goto, IInv, TypeOK, world, local, budget, Labels
<1>2. EntriesKeyed'
  <2>1. ASSUME NEW t \in Targets
        PROVE  /\ IrcEntryKeyed(irc'[t].head) /\ IrcEntryKeyed(irc'[t].tail)
               /\ irc'[t].head.kind = "data" => irc'[t].head.key.tgt = t
    <3>1. CASE t = tg
      <4>1. irc'[t] = f
        BY <3>1, <1>0
      <4>2. QED
        BY <3>1, <4>1, <1>0, <1>a DEF IInv, EntriesKeyed, IrcEntryKeyed, Hole
    <3>2. CASE t # tg
      BY <3>2, <1>0 DEF IInv, EntriesKeyed, IrcEntryKeyed
    <3>3. QED BY <3>1, <3>2
  <2>2. QED BY <2>1 DEF WriteIrcHead, IInv, EntriesKeyed, AccEntryKeyed, IrcEntryKeyed
<1>3. OutcomeFromInputs'
  BY DEF WriteIrcHead, Goto, IInv, TypeOK, OutcomeFromInputs, local,
     MadeFrom
<1>4. ASSUME NEW q \in Procs PROVE MemoryOK(q)'
  <2>1. CASE q = p
    BY <2>1 DEF WriteIrcHead, Goto, IInv, MemoryOK, KeyOf, MadeFrom,
       local, AstHeld, AstReady, IrcSaving, TypeOK
  <2>2. CASE q # p
    BY <2>2 DEF WriteIrcHead, Goto, IInv, TypeOK, MemoryOK, KeyOf,
       MadeFrom, local
  <2>3. QED BY <2>1, <2>2
<1>5. QED BY <1>1, <1>2, <1>3, <1>4 DEF IInv

(* The same for the tail of the .irc.                                      *)
LEMMA WriteIrcTailInv ==
  ASSUME IInv, NEW p \in Procs, WriteIrcTail(p)
  PROVE  IInv'
<1> DEFINE S == Blanks \cup IrcChunks
           tg == req[p].tgt
<1>0. /\ IrcWritten(p) \in S /\ IrcEntryKeyed(IrcWritten(p))
      /\ IrcWritten(p).key.tgt = tg /\ tg \in Targets
      /\ irc \in [Targets -> [head : S, tail : S]] /\ Hole \in S
      /\ irc' = [irc EXCEPT ![tg] = WithTail(irc[tg], IrcWritten(p))]
  BY IrcWrittenOK DEF WriteIrcTail, Goto, SetIrc, IrcSaving, IInv, TypeOK, Blanks
<1> DEFINE f == WithTail(irc[tg], IrcWritten(p))
<1>a. /\ f \in [head : S, tail : S]
      /\ f.head \in {irc[tg].head, Hole} /\ f.tail = IrcWritten(p)
  <2> HIDE DEF S
  <2>1. QED BY <1>0, FileTyped
<1>b. irc' \in [Targets -> [head : S, tail : S]]
  BY <1>0, <1>a
<1>1. TypeOK'
  BY <1>b DEF WriteIrcTail, Goto, IInv, TypeOK, world, local, budget, Labels
<1>2. EntriesKeyed'
  <2>1. ASSUME NEW t \in Targets
        PROVE  /\ IrcEntryKeyed(irc'[t].head) /\ IrcEntryKeyed(irc'[t].tail)
               /\ irc'[t].head.kind = "data" => irc'[t].head.key.tgt = t
    <3>1. CASE t = tg
      <4>1. irc'[t] = f
        BY <3>1, <1>0
      <4>2. QED
        BY <3>1, <4>1, <1>0, <1>a DEF IInv, EntriesKeyed, IrcEntryKeyed, Hole
    <3>2. CASE t # tg
      BY <3>2, <1>0 DEF IInv, EntriesKeyed, IrcEntryKeyed
    <3>3. QED BY <3>1, <3>2
  <2>2. QED BY <2>1 DEF WriteIrcTail, IInv, EntriesKeyed, AccEntryKeyed, IrcEntryKeyed
<1>3. OutcomeFromInputs'
  BY DEF WriteIrcTail, Goto, IInv, TypeOK, OutcomeFromInputs, local,
     MadeFrom
<1>4. ASSUME NEW q \in Procs PROVE MemoryOK(q)'
  <2>1. CASE q = p
    BY <2>1 DEF WriteIrcTail, Goto, IInv, MemoryOK, KeyOf, MadeFrom,
       local, AstHeld, AstReady, IrcSaving, TypeOK, IrKeyed
  <2>2. CASE q # p
    BY <2>2 DEF WriteIrcTail, Goto, IInv, TypeOK, MemoryOK, KeyOf,
       MadeFrom, local
  <2>3. QED BY <2>1, <2>2
<1>5. QED BY <1>1, <1>2, <1>3, <1>4 DEF IInv

(* A rejected text leaves nothing behind.                                  *)
LEMMA ParseErrorInv ==
  ASSUME IInv, NEW p \in Procs, ParseError(p)
  PROVE  IInv'
<1>1. TypeOK'
  BY ModelTyped DEF ParseError, IInv, TypeOK, Exit, Rejected, Outcomes, world, disk,
     budget, Labels, NoKey, NoIr, Missing
<1>2. EntriesKeyed'
  BY DEF ParseError, IInv, EntriesKeyed, Exit, disk
<1>3. OutcomeFromInputs'
  BY DEF ParseError, IInv, TypeOK, OutcomeFromInputs, Exit, Rejected,
     MadeFrom, MemoryOK
<1>4. ASSUME NEW q \in Procs PROVE MemoryOK(q)'
  <2>1. CASE q = p
    BY <2>1 DEF ParseError, IInv, MemoryOK, KeyOf, MadeFrom, Exit,
       AstHeld, AstReady, IrcSaving, disk, TypeOK
  <2>2. CASE q # p
    BY <2>2 DEF ParseError, IInv, TypeOK, MemoryOK, KeyOf, MadeFrom, Exit,
       disk
  <2>3. QED BY <2>1, <2>2
<1>5. QED BY <1>1, <1>2, <1>3, <1>4 DEF IInv

(* A rejected foreign block leaves nothing behind.                         *)
LEMMA LoweringErrorInv ==
  ASSUME IInv, NEW p \in Procs, LoweringError(p)
  PROVE  IInv'
<1>1. TypeOK'
  BY ModelTyped DEF LoweringError, IInv, TypeOK, Exit, Rejected, Outcomes, world,
     disk, budget, Labels, NoKey, NoIr, Missing
<1>2. EntriesKeyed'
  BY DEF LoweringError, IInv, EntriesKeyed, Exit, disk
<1>3. OutcomeFromInputs'
  BY DEF LoweringError, IInv, TypeOK, OutcomeFromInputs, Exit, Rejected,
     MadeFrom, MemoryOK
<1>4. ASSUME NEW q \in Procs PROVE MemoryOK(q)'
  <2>1. CASE q = p
    BY <2>1 DEF LoweringError, IInv, MemoryOK, KeyOf, MadeFrom, Exit,
       AstHeld, AstReady, IrcSaving, disk, TypeOK
  <2>2. CASE q # p
    BY <2>2 DEF LoweringError, IInv, TypeOK, MemoryOK, KeyOf, MadeFrom,
       Exit, disk
  <2>3. QED BY <2>1, <2>2
<1>5. QED BY <1>1, <1>2, <1>3, <1>4 DEF IInv

(* What is emitted was made from the snapshot, or is the torn IR.          *)
LEMMA GatesInv ==
  ASSUME IInv, NEW p \in Procs, Gates(p)
  PROVE  IInv'
<1>1. TypeOK'
  BY ModelTyped DEF Gates, IInv, TypeOK, Exit, Emitted, Rejected, Built, MemoryOK,
     Outcomes, world, disk, budget, Labels, NoKey, NoIr, Missing
<1>2. EntriesKeyed'
  BY DEF Gates, IInv, EntriesKeyed, Exit, disk
<1>3. OutcomeFromInputs'
  BY DEF Gates, IInv, TypeOK, OutcomeFromInputs, Exit, Emitted, Rejected,
     Built, MadeFrom, MemoryOK
<1>4. ASSUME NEW q \in Procs PROVE MemoryOK(q)'
  <2>1. CASE q = p
    BY <2>1 DEF Gates, IInv, MemoryOK, KeyOf, MadeFrom, Exit, AstHeld,
       AstReady, IrcSaving, disk, TypeOK
  <2>2. CASE q # p
    BY <2>2 DEF Gates, IInv, TypeOK, MemoryOK, KeyOf, MadeFrom, Exit, disk
  <2>3. QED BY <2>1, <2>2
<1>5. QED BY <1>1, <1>2, <1>3, <1>4 DEF IInv

(* A kill leaves the files as they are and forgets the memory.             *)
LEMMA CrashInv ==
  ASSUME IInv, NEW p \in Procs, Crash(p)
  PROVE  IInv'
<1>1. TypeOK'
  BY BoundsAssumption, ModelTyped DEF Crash, IInv, TypeOK, Exit, NoOutcome, Outcomes,
     world, disk, Labels, NoKey, NoIr, Missing
<1>2. EntriesKeyed'
  BY DEF Crash, IInv, EntriesKeyed, Exit, disk
<1>3. OutcomeFromInputs'
  BY DEF Crash, IInv, TypeOK, OutcomeFromInputs, Exit, NoOutcome,
     MadeFrom, MemoryOK
<1>4. ASSUME NEW q \in Procs PROVE MemoryOK(q)'
  <2>1. CASE q = p
    BY <2>1 DEF Crash, IInv, MemoryOK, KeyOf, MadeFrom, Exit, AstHeld,
       AstReady, IrcSaving, disk, TypeOK
  <2>2. CASE q # p
    BY <2>2 DEF Crash, IInv, TypeOK, MemoryOK, KeyOf, MadeFrom, Exit, disk
  <2>3. QED BY <2>1, <2>2
<1>5. QED BY <1>1, <1>2, <1>3, <1>4 DEF IInv

(* Edits and rebuilds change only what later compilations will see.        *)
LEMMA ChangeInv ==
  ASSUME IInv, Change
  PROVE  IInv'
<1>1. TypeOK'
  BY BoundsAssumption DEF Change, IInv, TypeOK, disk, local
<1>2. EntriesKeyed'
  BY DEF Change, IInv, EntriesKeyed, disk
<1>3. OutcomeFromInputs'
  BY DEF Change, IInv, OutcomeFromInputs, MadeFrom, local
<1>4. ASSUME NEW q \in Procs PROVE MemoryOK(q)'
  BY DEF Change, IInv, MemoryOK, KeyOf, MadeFrom, local
<1>5. QED BY <1>1, <1>2, <1>3, <1>4 DEF IInv

(* The invariant holds of empty caches and idle compilers.                 *)
LEMMA InitInv == Init => IInv
<1> SUFFICES ASSUME Init PROVE IInv
  OBVIOUS
<1>1. /\ acc \in [head : Blanks \cup AccChunks, tail : Blanks \cup AccChunks]
      /\ irc \in [Targets -> [head : Blanks \cup IrcChunks,
                              tail : Blanks \cup IrcChunks]]
  BY DEF Init, Empty, Blanks
<1>2. NoAst \in Asts /\ NoOutcome \in Outcomes
  BY ModelTyped DEF NoOutcome, Outcomes
<1>3. TypeOK
  BY <1>1, <1>2, BoundsAssumption DEF Init, TypeOK, Labels, Snapshots
<1>4. EntriesKeyed
  BY DEF Init, EntriesKeyed, AccEntryKeyed, IrcEntryKeyed, Empty, Missing
<1>5. OutcomeFromInputs
  BY DEF Init, OutcomeFromInputs, NoOutcome
<1>6. ASSUME NEW q \in Procs PROVE MemoryOK(q)
  BY DEF Init, MemoryOK, AstHeld, AstReady, IrcSaving
<1>7. QED BY <1>3, <1>4, <1>5, <1>6 DEF IInv

(* Every step of one compiler keeps the invariant.                         *)
LEMMA StepInv ==
  ASSUME IInv, NEW p \in Procs, Step(p)
  PROVE  IInv'
  BY ReadAccHeadInv, ReadAccTailInv, ParseErrorInv, ParseInv, OpenAccInv,
     WriteAccHeadInv, WriteAccTailInv, InjectInv, ReadIrcHeadInv,
     ReadIrcTailInv, LoweringErrorInv, LowerInv, OpenIrcInv, WriteIrcHeadInv,
     WriteIrcTailInv, GatesInv DEF Step

(* Every step of the system keeps the invariant.                           *)
LEMMA NextInv == IInv /\ [Next]_vars => IInv'
<1> SUFFICES ASSUME IInv, [Next]_vars PROVE IInv'
  OBVIOUS
<1>1. CASE \E p \in Procs, r \in Requests : Start(p, r)
  BY <1>1, StartInv
<1>2. CASE \E p \in Procs : Step(p)
  BY <1>2, StepInv
<1>3. CASE \E p \in Procs : Crash(p)
  BY <1>3, CrashInv
<1>4. CASE Change
  BY <1>4, ChangeInv
<1>5. CASE UNCHANGED vars
  BY <1>5 DEF vars, world, disk, local, budget, IInv, TypeOK, EntriesKeyed,
     OutcomeFromInputs, MadeFrom, MemoryOK, KeyOf
<1>6. QED
  BY <1>1, <1>2, <1>3, <1>4, <1>5 DEF Next

(* The inductive invariant holds in every run of the driver.               *)
THEOREM InvariantHolds == Spec => []IInv
  BY InitInv, NextInv, PTL DEF Spec

(* Disk, memory and outcomes keep their shape for every instance.          *)
THEOREM TypeCorrect == Spec => []TypeOK
<1>1. IInv => TypeOK
  BY DEF IInv
<1>2. QED BY <1>1, InvariantHolds, PTL

(* No chunk of a cache file was ever made from other inputs than its key   *)
(* names: any number of compilers, edits, rebuilds and kills.              *)
THEOREM CacheKeyed == Spec => []EntriesKeyed
<1>1. IInv => EntriesKeyed
  BY DEF IInv
<1>2. QED BY <1>1, InvariantHolds, PTL

(* What is built comes from the inputs the compilation was started with,   *)
(* or from a torn file.                                                    *)
THEOREM BuildsFromInputs == Spec => []OutcomeFromInputs
<1>1. IInv => OutcomeFromInputs
  BY DEF IInv
<1>2. QED BY <1>1, InvariantHolds, PTL

-----------------------------------------------------------------------------
(* A compilation that may not read the caches is at no reading label and   *)
(* holds exactly what an uncached one holds.                               *)

BypassOK(p) ==
  ~ReadsCache(req[p]) =>
    /\ pc[p] \in {"idle", "parse", "inject", "lower", "gates"} \cup AstHeld
    /\ pc[p] \in AstHeld \cup {"inject", "lower"} =>
         /\ ~SyntaxRejected(snap[p].text, req[p].lenient)
         /\ ast[p] = ParsedAst(snap[p].text)
    /\ pc[p] = "gates" =>
         /\ ~SyntaxRejected(snap[p].text, req[p].lenient)
         /\ ~ForeignRejected(snap[p].text, req[p])
         /\ ir[p] = Lowered(ParsedAst(snap[p].text), snap[p].deps,
                            snap[p].build, req[p])
    /\ outcome[p].verdict # "none" =>
         outcome[p] = FreshOutcome(snap[p].text, snap[p].deps,
                                   snap[p].build, req[p])

BypassInv == \A p \in Procs : BypassOK(p)

(* No lowering, and no entry written, is the torn IR.                      *)
LEMMA TornNotLowered ==
  \A a, d, b, r : Lowered(a, d, b, r) # TornIr
<1> SUFFICES ASSUME NEW a, NEW d, NEW b, NEW r, Lowered(a, d, b, r) = TornIr
             PROVE FALSE
  OBVIOUS
<1>1. "text" \in DOMAIN Lowered(a, d, b, r)
  BY DEF Lowered
<1>2. DOMAIN TornIr = {"verdict"}
  BY DEF TornIr
<1>3. QED BY <1>1, <1>2

(* A step of another process leaves a process's memory alone.              *)
OthersUntouched(p) ==
  \A q \in Procs \ {p} :
    /\ pc'[q] = pc[q] /\ req'[q] = req[q] /\ snap'[q] = snap[q]
    /\ ast'[q] = ast[q] /\ ir'[q] = ir[q] /\ outcome'[q] = outcome[q]

(* A step or a kill of one compiler leaves the others' memory alone.       *)
LEMMA StepLocal ==
  ASSUME TypeOK, NEW p \in Procs, Step(p) \/ Crash(p)
  PROVE  OthersUntouched(p)
<1>1. CASE Crash(p)
  BY <1>1 DEF OthersUntouched, TypeOK, Crash, Exit, world, disk
<1>2. CASE ReadAccHead(p) \/ ReadAccTail(p) \/ Parse(p) \/ Inject(p)
  BY <1>2 DEF OthersUntouched, TypeOK, Goto, ReadAccHead, ReadAccTail, Parse,
     Inject
<1>3. CASE ReadIrcHead(p) \/ ReadIrcTail(p) \/ Lower(p)
  BY <1>3 DEF OthersUntouched, TypeOK, Goto, ReadIrcHead, ReadIrcTail, Lower
<1>4. CASE ParseError(p) \/ LoweringError(p) \/ Gates(p)
  BY <1>4 DEF OthersUntouched, TypeOK, Exit, ParseError, LoweringError, Gates
<1>5. CASE OpenAcc(p) \/ WriteAccHead(p) \/ WriteAccTail(p)
  BY <1>5 DEF OthersUntouched, TypeOK, Goto, local, OpenAcc, WriteAccHead,
     WriteAccTail
<1>6. CASE OpenIrc(p) \/ WriteIrcHead(p) \/ WriteIrcTail(p)
  BY <1>6 DEF OthersUntouched, TypeOK, Goto, local, OpenIrc, WriteIrcHead,
     WriteIrcTail
<1>7. QED BY <1>1, <1>2, <1>3, <1>4, <1>5, <1>6 DEF Step

(* A compilation that bypasses the cache works on its own parse only.      *)
LEMMA BypassStep ==
  ASSUME IInv, BypassInv, NEW p \in Procs, Step(p)
  PROVE  BypassOK(p)'
<1> USE DEF BypassOK, AstHeld
<1>0. BypassOK(p) /\ (pc[p] # "idle" => outcome[p] = NoOutcome) /\ TypeOK
  BY DEF BypassInv, IInv, MemoryOK
<1>1. CASE ReadAccHead(p) \/ ReadAccTail(p)
  BY <1>0, <1>1 DEF ReadAccHead, ReadAccTail, Goto, TypeOK
<1>2. CASE ParseError(p)
  BY <1>0, <1>2 DEF ParseError, Exit, TypeOK, FreshOutcome
<1>3. CASE Parse(p)
  BY <1>0, <1>3 DEF Parse, Goto, TypeOK
<1>4. CASE OpenAcc(p) \/ WriteAccHead(p) \/ WriteAccTail(p)
  BY <1>0, <1>4 DEF OpenAcc, WriteAccHead, WriteAccTail, Goto, TypeOK, local
<1>5. CASE Inject(p)
  BY <1>0, <1>5 DEF Inject, Goto, TypeOK, Snapshots, NoOutcome
<1>6. CASE ReadIrcHead(p) \/ ReadIrcTail(p)
  BY <1>0, <1>6 DEF ReadIrcHead, ReadIrcTail, Goto, TypeOK
<1>7. CASE LoweringError(p)
  BY <1>0, <1>7 DEF LoweringError, Exit, TypeOK, FreshOutcome, ParsedAst
<1>8. CASE Lower(p)
  BY <1>0, <1>8 DEF Lower, Goto, TypeOK, ParsedAst
<1>9. CASE OpenIrc(p) \/ WriteIrcHead(p) \/ WriteIrcTail(p)
  BY <1>0, <1>9 DEF OpenIrc, WriteIrcHead, WriteIrcTail, Goto, TypeOK, local
<1>10. CASE Gates(p)
  BY <1>0, <1>10, TornNotLowered DEF Gates, Exit, TypeOK, FreshOutcome
<1>11. QED
  BY <1>1, <1>2, <1>3, <1>4, <1>5, <1>6, <1>7, <1>8, <1>9, <1>10 DEF Step

(* No step of any compiler disturbs a bypassing one.                       *)
LEMMA BypassNext == IInv /\ BypassInv /\ [Next]_vars => BypassInv'
<1> SUFFICES ASSUME IInv, BypassInv, [Next]_vars, NEW q \in Procs
             PROVE  BypassOK(q)'
  BY DEF BypassInv
<1>0. TypeOK /\ BypassOK(q)
  BY DEF IInv, BypassInv
<1>1. ASSUME NEW p \in Procs, NEW r \in Requests, Start(p, r)
      PROVE  BypassOK(q)'
  BY <1>0, <1>1 DEF BypassOK, Start, Goto, TypeOK, AstHeld, NoOutcome
<1>2. ASSUME NEW p \in Procs, Step(p)
      PROVE  BypassOK(q)'
  <2>1. CASE q = p
    BY <1>2, <2>1, BypassStep
  <2>2. CASE q # p
    BY <1>0, <1>2, <2>2, StepLocal DEF OthersUntouched, BypassOK
  <2>3. QED BY <2>1, <2>2
<1>3. ASSUME NEW p \in Procs, Crash(p)
      PROVE  BypassOK(q)'
  <2>1. CASE q = p
    BY <1>0, <1>3, <2>1 DEF BypassOK, Crash, Exit, TypeOK, NoOutcome, AstHeld,
       AstReady, IrcSaving
  <2>2. CASE q # p
    BY <1>0, <1>3, <2>2, StepLocal DEF OthersUntouched, BypassOK
  <2>3. QED BY <2>1, <2>2
<1>4. CASE Change \/ UNCHANGED vars
  BY <1>0, <1>4 DEF Change, vars, local, BypassOK
<1>5. QED
  BY <1>1, <1>2, <1>3, <1>4 DEF Next

(* --force and --no-cache give what an uncached compiler gives, whatever   *)
(* other compilers, kills and edits have left in the cache files.          *)
THEOREM BypassFresh == Spec => []BypassIsFresh
<1>1. Init => BypassInv
  BY DEF Init, BypassInv, BypassOK, NoOutcome, AstHeld, AstReady, IrcSaving
<1>2. BypassInv => BypassIsFresh
  BY DEF BypassInv, BypassOK, BypassIsFresh, ReadsCache
<1>3. QED
  BY <1>1, <1>2, BypassNext, InvariantHolds, PTL DEF Spec

-----------------------------------------------------------------------------
(* A text that does not parse never gets an .acc entry, so a strict        *)
(* compilation of it cannot pass the parser.                               *)

PastParser == AstReady \cup IrcSaving \cup {"accTail", "gates"}

StrictOK(p) ==
  /\ pc[p] \in AstHeld \cup {"accTail"} => snap[p].text \notin BadTexts
  /\ pc[p] \in PastParser /\ ~req[p].lenient => snap[p].text \notin BadTexts
  /\ outcome[p].verdict = "built" /\ ~req[p].lenient =>
       snap[p].text \notin BadTexts

GoodEntry == acc.head.kind = "data" => acc.head.key.text \notin BadTexts

StrictInv == GoodEntry /\ \A p \in Procs : StrictOK(p)

(* A strict compilation gets past the parser only on a good text.          *)
LEMMA StrictStep ==
  ASSUME IInv, StrictInv, NEW p \in Procs, Step(p)
  PROVE  StrictOK(p)'
<1> USE DEF StrictOK, AstHeld, AstReady, IrcSaving, PastParser
<1>0. /\ StrictOK(p) /\ GoodEntry /\ TypeOK
      /\ pc[p] # "idle" => outcome[p] = NoOutcome
  BY DEF StrictInv, IInv, MemoryOK
<1>1. CASE ReadAccHead(p)
  BY <1>0, <1>1 DEF ReadAccHead, Goto, TypeOK, HeadMatches, AccKey, GoodEntry,
     NoOutcome
<1>2. CASE ReadAccTail(p) \/ ReadIrcHead(p) \/ ReadIrcTail(p) \/ Lower(p)
  BY <1>0, <1>2 DEF ReadAccTail, ReadIrcHead, ReadIrcTail, Lower, Goto, TypeOK
<1>3. CASE ParseError(p) \/ LoweringError(p)
  BY <1>0, <1>3 DEF ParseError, LoweringError, Exit, TypeOK, Rejected
<1>4. CASE Parse(p)
  BY <1>0, <1>4 DEF Parse, Goto, TypeOK, SavesAst, SyntaxRejected
<1>5. CASE OpenAcc(p) \/ WriteAccHead(p) \/ WriteAccTail(p)
  BY <1>0, <1>5 DEF OpenAcc, WriteAccHead, WriteAccTail, Goto, TypeOK, local
<1>6. CASE Inject(p)
  BY <1>0, <1>6 DEF Inject, Goto, TypeOK, Snapshots
<1>7. CASE OpenIrc(p) \/ WriteIrcHead(p) \/ WriteIrcTail(p)
  BY <1>0, <1>7 DEF OpenIrc, WriteIrcHead, WriteIrcTail, Goto, TypeOK, local
<1>8. CASE Gates(p)
  BY <1>0, <1>8 DEF Gates, Exit, TypeOK
<1>9. QED
  BY <1>1, <1>2, <1>3, <1>4, <1>5, <1>6, <1>7, <1>8 DEF Step

(* Only texts that parse reach <base>.acc.                                 *)
LEMMA GoodEntryStep ==
  ASSUME IInv, StrictInv, NEW p \in Procs, Step(p)
  PROVE  GoodEntry'
<1>0. StrictOK(p) /\ GoodEntry
  BY DEF StrictInv
<1>1. CASE WriteAccHead(p) \/ WriteAccTail(p)
  BY <1>0, <1>1 DEF WriteAccHead, WriteAccTail, Goto, GoodEntry, StrictOK,
     AstHeld, AccWritten, AccChunk, AccKey, WithHead, WithTail, Hole, IInv,
     TypeOK
<1>2. CASE OpenAcc(p)
  BY <1>0, <1>2 DEF OpenAcc, Empty, Missing, GoodEntry
<1>3. CASE UNCHANGED acc
  BY <1>0, <1>3 DEF GoodEntry
<1>4. QED
  BY <1>1, <1>2, <1>3 DEF Step, disk, Exit, ReadAccHead, ReadAccTail,
     ParseError, Parse, Inject, ReadIrcHead, ReadIrcTail, LoweringError, Lower,
     OpenIrc, WriteIrcHead, WriteIrcTail, Gates

(* Both facts are kept by every step of the system.                        *)
LEMMA StrictNext == IInv /\ StrictInv /\ [Next]_vars => StrictInv'
<1> SUFFICES ASSUME IInv, StrictInv, [Next]_vars PROVE StrictInv'
  OBVIOUS
<1>0. TypeOK /\ GoodEntry /\ \A q \in Procs : StrictOK(q)
  BY DEF IInv, StrictInv
<1>1. ASSUME NEW p \in Procs, NEW r \in Requests, Start(p, r)
      PROVE  StrictInv'
  BY <1>0, <1>1 DEF StrictInv, GoodEntry, StrictOK, Start, Goto, TypeOK, disk,
     AstHeld, AstReady, IrcSaving, PastParser, NoOutcome
<1>2. ASSUME NEW p \in Procs, Step(p)
      PROVE  StrictInv'
  <2>1. ASSUME NEW q \in Procs PROVE StrictOK(q)'
    <3>1. CASE q = p
      BY <1>2, <3>1, StrictStep
    <3>2. CASE q # p
      BY <1>0, <1>2, <3>2, StepLocal DEF OthersUntouched, StrictOK
    <3>3. QED BY <3>1, <3>2
  <2>2. QED BY <1>2, <2>1, GoodEntryStep DEF StrictInv
<1>3. ASSUME NEW p \in Procs, Crash(p)
      PROVE  StrictInv'
  BY <1>0, <1>3 DEF StrictInv, GoodEntry, StrictOK, Crash, Exit, TypeOK, disk,
     AstHeld, AstReady, IrcSaving, PastParser, NoOutcome
<1>4. CASE Change \/ UNCHANGED vars
  BY <1>0, <1>4 DEF Change, vars, local, disk, StrictInv, GoodEntry, StrictOK
<1>5. QED
  BY <1>1, <1>2, <1>3, <1>4 DEF Next

(* No history of lenient compilations lets a strict one accept a text that *)
(* does not parse.                                                         *)
THEOREM StrictSound == Spec => []StrictRejectsBad
<1>1. Init => StrictInv
  BY DEF Init, StrictInv, GoodEntry, StrictOK, Empty, Missing, NoOutcome,
     AstHeld, AstReady, IrcSaving, PastParser
<1>2. StrictInv => StrictRejectsBad
  BY DEF StrictInv, StrictOK, StrictRejectsBad
<1>3. QED
  BY <1>1, <1>2, StrictNext, InvariantHolds, PTL DEF Spec
-----------------------------------------------------------------------------
(* One compiler at a time.                                                 *)

OneAtATime == \A p, q \in Procs : p = q

(* A cache file that one compiler at a time has written is nothing, a head *)
(* or a whole entry, and nobody changes it between its two reads.          *)
AloneOK(p) ==
  /\ acc.tail \in {Missing, acc.head} /\ acc.head # Hole
  /\ \A t \in Targets : irc[t].tail \in {Missing, irc[t].head} /\ irc[t].head # Hole
  /\ pc[p] = "accTail" => seen[p] = acc.head
  /\ pc[p] = "accWrite" => acc = Empty
  /\ pc[p] = "accFlush" => acc = [head |-> AccWritten(p), tail |-> Missing]
  /\ pc[p] = "ircTail" => seen[p] = irc[req[p].tgt].head
  /\ pc[p] = "ircWrite" => irc[req[p].tgt] = Empty
  /\ pc[p] = "ircFlush" => irc[req[p].tgt] = [head |-> IrcWritten(p), tail |-> Missing]
  /\ ir[p] # TornIr

AloneInv == \A p \in Procs : AloneOK(p)

(* No program of the shape of an IR is the torn one or no IR at all.       *)
LEMMA IrsWhole ==
  /\ \A i \in Irs : i # TornIr
  /\ NoIr # TornIr
<1>1. \A i \in Irs : "text" \in DOMAIN i
  BY DEF Irs
<1>2. DOMAIN TornIr = {"verdict"}
  BY DEF TornIr
<1>3. QED
  BY <1>1, <1>2 DEF NoIr, TornIr

(* One compiler alone reads back what it or an earlier one wrote whole.    *)
LEMMA AloneStep ==
  ASSUME IInv, NEW p \in Procs, AloneOK(p), Step(p)
  PROVE  AloneOK(p)'
<1>0. TypeOK /\ MemoryOK(p) /\ req[p].tgt \in Targets
  BY RequestsAssumption DEF IInv, TypeOK, RequestSpace
<1>1. CASE ReadAccHead(p) \/ ReadAccTail(p) \/ Parse(p) \/ Inject(p)
  <2>1. UNCHANGED <<acc, irc, req, ir>>
    BY <1>1 DEF ReadAccHead, ReadAccTail, Parse, Inject, disk
  <2>2. pc'[p] \in {"accTail", "parse", "inject", "accOpen", "ircHead", "lower"}
    BY <1>0, <1>1 DEF ReadAccHead, ReadAccTail, Parse, Inject, Goto, TypeOK
  <2>3. pc'[p] = "accTail" => seen'[p] = acc.head
    BY <1>0, <1>1 DEF ReadAccHead, ReadAccTail, Parse, Inject, Goto, TypeOK
  <2>4. QED
    BY <2>1, <2>2, <2>3 DEF AloneOK
<1>2. CASE OpenAcc(p)
  BY <1>0, <1>2 DEF OpenAcc, Goto, TypeOK, AloneOK, local, Empty, Missing, Hole
<1>3. CASE WriteAccHead(p)
  <2>1. /\ acc = Empty /\ acc' = WithHead(acc, AccWritten(p)) /\ pc'[p] = "accFlush"
        /\ UNCHANGED <<irc, req, snap, seen, ast, ir>>
    BY <1>0, <1>3 DEF WriteAccHead, Goto, TypeOK, AloneOK, local
  <2>2. acc' = [head |-> AccWritten(p), tail |-> Missing] /\ AccWritten(p)' = AccWritten(p)
    BY <2>1 DEF WithHead, Empty, AccWritten
  <2>3. AccWritten(p) # Hole
    BY DEF AccWritten, AccChunk, Hole
  <2>4. QED
    BY <2>1, <2>2, <2>3 DEF AloneOK
<1>4. CASE WriteAccTail(p)
  <2>1. /\ acc = [head |-> AccWritten(p), tail |-> Missing]
        /\ acc' = WithTail(acc, AccWritten(p)) /\ pc'[p] = "inject"
        /\ UNCHANGED <<irc, req, snap, seen, ast, ir>>
    BY <1>0, <1>4 DEF WriteAccTail, Goto, TypeOK, AloneOK, local
  <2>2. AccWritten(p) # Hole /\ AccWritten(p) # Missing
    BY DEF AccWritten, AccChunk, Hole, Missing
  <2>3. acc' = [head |-> AccWritten(p), tail |-> AccWritten(p)]
    BY <2>1, <2>2 DEF WithTail
  <2>4. QED
    BY <2>1, <2>2, <2>3 DEF AloneOK
<1>5. CASE ReadIrcHead(p)
  <2>1. UNCHANGED <<acc, irc, req, ir>>
    BY <1>5 DEF ReadIrcHead, disk
  <2>2. /\ pc'[p] \in {"ircTail", "lower"}
        /\ pc'[p] = "ircTail" => seen'[p] = irc[req[p].tgt].head
    BY <1>0, <1>5 DEF ReadIrcHead, Goto, TypeOK
  <2>3. QED
    BY <2>1, <2>2 DEF AloneOK
<1>6. CASE ReadIrcTail(p)
  <2> DEFINE f == irc[req[p].tgt]
  <2>1. /\ UNCHANGED <<acc, irc, req>> /\ pc'[p] \in {"gates", "lower"}
        /\ seen[p] = f.head /\ f.tail \in {Missing, f.head} /\ seen[p] \in IrcChunks
    BY <1>0, <1>6 DEF ReadIrcTail, Goto, TypeOK, disk, AloneOK, MemoryOK
  <2>2. EndReached(f.tail) => Continues(f.tail, seen[p])
    BY <2>1 DEF EndReached, Continues, Missing
  <2>3. ir'[p] = ir[p] \/ ir'[p] = seen[p].body
    BY <1>0, <1>6, <2>2 DEF ReadIrcTail, TypeOK
  <2>4. seen[p].body # TornIr
    BY <2>1, IrsWhole DEF IrcChunks
  <2>5. QED
    BY <2>1, <2>3, <2>4 DEF AloneOK
<1>7. CASE Lower(p)
  <2>1. UNCHANGED <<acc, irc, req>> /\ pc'[p] \in {"ircOpen", "gates"}
    BY <1>0, <1>7 DEF Lower, Goto, TypeOK, disk
  <2>2. ir'[p] # TornIr
    BY <1>0, <1>7, TornNotLowered DEF Lower, TypeOK
  <2>3. QED
    BY <2>1, <2>2 DEF AloneOK
<1>8. CASE OpenIrc(p)
  BY <1>0, <1>8 DEF OpenIrc, Goto, TypeOK, AloneOK, local, SetIrc, Empty, Missing, Hole
<1>9. CASE WriteIrcHead(p)
  <2> DEFINE g == req[p].tgt
  <2>1. /\ irc[g] = Empty /\ irc' = [irc EXCEPT ![g] = WithHead(irc[g], IrcWritten(p))]
        /\ pc'[p] = "ircFlush" /\ UNCHANGED <<acc, req, ikey, seen, ir>>
    BY <1>0, <1>9 DEF WriteIrcHead, SetIrc, Goto, TypeOK, AloneOK, local
  <2>2. WithHead(irc[g], IrcWritten(p)) = [head |-> IrcWritten(p), tail |-> Missing]
    BY <2>1 DEF WithHead, Empty
  <2>3. IrcWritten(p)' = IrcWritten(p) /\ IrcWritten(p) # Hole
    BY <2>1 DEF IrcWritten, IrcChunk, Hole
  <2>4. irc' = [irc EXCEPT ![g] = [head |-> IrcWritten(p), tail |-> Missing]]
    BY <2>1, <2>2
  <2>5. \A t \in Targets : irc'[t] = IF t = g THEN [head |-> IrcWritten(p), tail |-> Missing]
                                     ELSE irc[t]
    BY <1>0, <2>4 DEF TypeOK
  <2>6. QED
    BY <1>0, <2>1, <2>3, <2>5 DEF AloneOK
<1>10. CASE WriteIrcTail(p)
  <2> DEFINE g == req[p].tgt
             c == IrcWritten(p)
  <2>1. /\ irc[g] = [head |-> c, tail |-> Missing]
        /\ irc' = [irc EXCEPT ![g] = WithTail(irc[g], c)]
        /\ pc'[p] = "gates" /\ UNCHANGED <<acc, req, seen, ir>>
    BY <1>0, <1>10 DEF WriteIrcTail, SetIrc, Goto, TypeOK, AloneOK, local
  <2>2. c # Hole /\ c # Missing
    BY DEF IrcWritten, IrcChunk, Hole, Missing
  <2>3. WithTail(irc[g], c) = [head |-> c, tail |-> c]
    BY <2>1, <2>2 DEF WithTail
  <2>4. \A t \in Targets : irc'[t] = IF t = g THEN [head |-> c, tail |-> c] ELSE irc[t]
    BY <1>0, <2>1, <2>3 DEF TypeOK
  <2>5. QED
    BY <1>0, <2>1, <2>2, <2>4 DEF AloneOK
<1>11. CASE ParseError(p) \/ LoweringError(p) \/ Gates(p)
  <2>1. UNCHANGED <<acc, irc, req>> /\ pc'[p] = "idle" /\ ir'[p] = NoIr
    BY <1>0, <1>11 DEF ParseError, LoweringError, Gates, Exit, TypeOK, disk
  <2>2. QED
    BY <2>1, IrsWhole DEF AloneOK
<1>12. QED
  BY <1>1, <1>2, <1>3, <1>4, <1>5, <1>6, <1>7, <1>8, <1>9, <1>10, <1>11 DEF Step

(* Starts, kills and edits keep it too.                                    *)
LEMMA AloneNext == OneAtATime /\ IInv /\ AloneInv /\ [Next]_vars => AloneInv'
<1> SUFFICES ASSUME OneAtATime, IInv, AloneInv, [Next]_vars, NEW q \in Procs
             PROVE  AloneOK(q)'
  BY DEF AloneInv
<1>0. TypeOK /\ AloneOK(q) /\ \A p \in Procs : p = q
  BY DEF IInv, AloneInv, OneAtATime
<1>1. ASSUME NEW r \in Requests, Start(q, r) PROVE AloneOK(q)'
  BY <1>0, <1>1 DEF Start, Goto, TypeOK, AloneOK, disk
<1>2. ASSUME Step(q) PROVE AloneOK(q)'
  BY <1>0, <1>2, AloneStep
<1>3. ASSUME Crash(q) PROVE AloneOK(q)'
  <2>1. UNCHANGED <<acc, irc, req>> /\ pc'[q] = "idle" /\ ir'[q] = NoIr
    BY <1>0, <1>3 DEF Crash, Exit, TypeOK, disk
  <2>2. QED
    BY <1>0, <2>1, IrsWhole DEF AloneOK
<1>4. CASE Change \/ UNCHANGED vars
  BY <1>0, <1>4 DEF Change, vars, local, disk, AloneOK, AccWritten, IrcWritten
<1>5. QED
  BY <1>0, <1>1, <1>2, <1>3, <1>4 DEF Next

(* Empty caches are whole.                                                 *)
LEMMA AloneInit == Init => AloneInv
BY IrsWhole DEF Init, AloneInv, AloneOK, Empty, Missing, Hole

(* With one compiler at a time, whatever is edited, rebuilt and killed, no *)
(* compilation ever goes on from a half-written .irc.                      *)
THEOREM NoTornIr == OneAtATime => (Spec => []IrcWhole)
<1> SUFFICES ASSUME OneAtATime PROVE Spec => []IrcWhole
  OBVIOUS
<1>1. AloneInv => IrcWhole
  BY DEF AloneInv, AloneOK, IrcWhole
<1>2. OneAtATime
  OBVIOUS
<1>3. QED
  BY <1>1, <1>2, AloneInit, AloneNext, InvariantHolds, PTL DEF Spec

-----------------------------------------------------------------------------
(* The caches change no outcome.                                           *)

(* The texts have nothing that a cache file leaves out or cuts, and no     *)
(* list is longer than the 8 or 16 bits of its count.                      *)
NothingDropped ==
  /\ AngleTexts = {} /\ SidecarTexts = {}
  /\ \A t \in Texts : StrLen[t] < Word /\ AttrCount[t] < Byte /\ ChildCount[t] < Word
  /\ \A t \in Texts, d \in Deps : ConstLen[t][d] < Word /\ OperandCount[t][d] < Byte

(* No two command lines for a target differ in what the IR key leaves out. *)
OneModePerKey ==
  \A q, r \in Requests :
    q.tgt = r.tgt => q.opt = r.opt /\ q.allowForeign = r.allowForeign

(* No kill has left an .acc with a head and no tail.                       *)
AccNotCut ==
  acc.head # Missing /\ acc.tail = Missing => \E p \in Procs : pc[p] = "accFlush"

(* What an uncached compilation would hold for the key of an entry.        *)
AccTrue(c) ==
  c.kind = "data" => c.key.text \notin BadTexts /\ c.body = ParsedAst(c.key.text)

IrcTrue(c) ==
  c.kind = "data" =>
    \A r \in Requests : r.tgt = c.key.tgt /\ r.runtime = c.key.runtime =>
      /\ ~ForeignRejected(c.key.text, r)
      /\ c.body = Lowered(ParsedAst(c.key.text), c.key.deps, c.key.build, r)

(* What process p holds is what an uncached compilation holds at its stage.*)
HoldsTrue(p) ==
  /\ pc[p] \in PastParser => ~SyntaxRejected(snap[p].text, req[p].lenient)
  /\ pc[p] \in AstReady => ast[p] = ParsedAst(snap[p].text)
  /\ pc[p] \in IrcSaving \cup {"gates"} =>
       /\ ~ForeignRejected(snap[p].text, req[p])
       /\ ir[p] = Lowered(ParsedAst(snap[p].text), snap[p].deps, snap[p].build, req[p])

TrueInv ==
  /\ AccTrue(acc.head)
  /\ \A t \in Targets : IrcTrue(irc[t].head)
  /\ \A p \in Procs : HoldsTrue(p)

(* Nothing of a tree or a program is left out of its cache file.           *)
LEMMA StoredWhole ==
  ASSUME NothingDropped, NEW t \in Texts
  PROVE  /\ StoredAst(ParsedAst(t)) = ParsedAst(t)
         /\ LoadedAst(ParsedAst(t)) = ParsedAst(t)
         /\ \A d \in Deps : \A b, r :
              StoredIr(Lowered(ParsedAst(t), d, b, r)) = Lowered(ParsedAst(t), d, b, r)
<1>1. ParsedAst(t) = [text |-> t, angle |-> FALSE, str |-> StrLen[t]]
  <2>1. (t \in AngleTexts) = FALSE
    BY DEF NothingDropped
  <2>2. QED
    BY <2>1 DEF ParsedAst
<1>2. StrLen[t] \in Nat /\ StrLen[t] < 65536 /\ AttrCount[t] < Byte /\ ChildCount[t] < Word
  BY SizesAssumption DEF NothingDropped, Programs, Word
<1>3. StrLen[t] % Word = StrLen[t]
  BY <1>2 DEF Word
<1>4. StoredAst(ParsedAst(t)) = ParsedAst(t)
  <2>1. ParsedAst(t).text = t /\ ParsedAst(t).str = StrLen[t]
    BY <1>1
  <2>2. StoredAst(ParsedAst(t)) = [text |-> t, angle |-> FALSE, str |-> StrLen[t]]
    BY <1>3, <2>1, Zenon DEF StoredAst
  <2>3. QED
    BY <1>1, <2>2, Zenon
<1>5. LoadedAst(ParsedAst(t)) = ParsedAst(t)
  <2>1. ParsedAst(t).text = t
    BY <1>1
  <2>2. QED
    BY <1>2, <2>1 DEF LoadedAst
<1>6. ASSUME NEW d \in Deps, NEW b, NEW r
      PROVE  StoredIr(Lowered(ParsedAst(t), d, b, r)) = Lowered(ParsedAst(t), d, b, r)
  <2>1. /\ ConstLen[t][d] \in Nat /\ ConstLen[t][d] < 65536
        /\ OperandCount[t][d] \in Nat /\ OperandCount[t][d] < Byte
    BY SizesAssumption DEF NothingDropped, Programs, Word
  <2>2. ConstLen[t][d] % Word = ConstLen[t][d]
    BY <2>1 DEF Word
  <2>3. (IF OperandCount[t][d] < Byte THEN OperandCount[t][d] ELSE Byte - 1) = OperandCount[t][d]
    BY <2>1
  <2>4. Lowered(ParsedAst(t), d, b, r) =
          [text |-> t, angle |-> FALSE, str |-> StrLen[t], sidecar |-> FALSE,
           const |-> ConstLen[t][d], ops |-> OperandCount[t][d], deps |-> d, build |-> b,
           tgt |-> r.tgt, opt |-> r.opt, runtime |-> r.runtime]
    <3>1. (t \in SidecarTexts) = FALSE
      BY DEF NothingDropped
    <3>2. /\ ParsedAst(t).text = t /\ ParsedAst(t).str = StrLen[t]
          /\ ParsedAst(t).angle = FALSE
      BY <1>1
    <3>3. QED
      BY <3>1, <3>2, Zenon DEF Lowered
  <2>5. QED
    <3> DEFINE I == Lowered(ParsedAst(t), d, b, r)
    <3>1. /\ I.text = t /\ I.angle = FALSE /\ I.str = StrLen[t]
          /\ I.const = ConstLen[t][d] /\ I.ops = OperandCount[t][d] /\ I.deps = d
          /\ I.build = b /\ I.tgt = r.tgt /\ I.opt = r.opt /\ I.runtime = r.runtime
      BY <2>4
    <3> HIDE DEF I
    <3>2. StoredIr(I) =
          [text |-> t, angle |-> FALSE, str |-> StrLen[t], sidecar |-> FALSE,
           const |-> ConstLen[t][d], ops |-> OperandCount[t][d], deps |-> d, build |-> b,
           tgt |-> r.tgt, opt |-> r.opt, runtime |-> r.runtime]
      BY <2>2, <2>3, <3>1, Zenon DEF StoredIr
    <3>3. QED
      BY <2>4, <3>2, Zenon DEF I
<1>7. QED
  BY <1>4, <1>5, <1>6

(* Command lines that agree on the key lower and refuse alike.             *)
LEMMA SameKeySameMode ==
  ASSUME OneModePerKey, NEW q \in Requests, NEW r \in Requests,
         q.tgt = r.tgt, q.runtime = r.runtime
  PROVE  /\ \A a, d, b : Lowered(a, d, b, q) = Lowered(a, d, b, r)
         /\ \A t : ForeignRejected(t, q) <=> ForeignRejected(t, r)
<1>1. q.opt = r.opt /\ q.allowForeign = r.allowForeign
  BY DEF OneModePerKey
<1>2. QED
  BY <1>1 DEF Lowered, ForeignRejected

(* The only compiler keeps its memory and its files as an uncached one     *)
(* would have them.                                                        *)
LEMMA TrueStep ==
  ASSUME NothingDropped, OneModePerKey, OneAtATime, AccNotCut,
         IInv, StrictInv, AloneInv, TrueInv, NEW p \in Procs, Step(p)
  PROVE  AccTrue(acc.head)' /\ (\A t \in Targets : IrcTrue(irc[t].head)') /\ HoldsTrue(p)'
<1> USE DEF AstHeld, AstReady, IrcSaving, PastParser
<1>0. /\ TypeOK /\ MemoryOK(p) /\ AloneOK(p) /\ HoldsTrue(p) /\ StrictOK(p)
      /\ req[p] \in Requests /\ req[p].tgt \in Targets
      /\ AccTrue(acc.head) /\ \A t \in Targets : IrcTrue(irc[t].head)
  BY RequestsAssumption DEF IInv, TypeOK, RequestSpace, AloneInv, TrueInv, StrictInv
<1>1. ASSUME UNCHANGED disk
      PROVE  AccTrue(acc.head)' /\ \A t \in Targets : IrcTrue(irc[t].head)'
  BY <1>0, <1>1 DEF disk, AccTrue, IrcTrue
<1>2. CASE ReadAccHead(p)
  <2>1. UNCHANGED <<disk, req, snap, ast, ir>> /\ pc'[p] \in {"accTail", "parse"}
    BY <1>0, <1>2 DEF ReadAccHead, Goto, TypeOK
  <2>2. pc'[p] = "accTail" => snap[p].text \notin BadTexts
    BY <1>0, <1>2 DEF ReadAccHead, Goto, TypeOK, HeadMatches, AccKey, AccTrue
  <2>3. HoldsTrue(p)'
    BY <2>1, <2>2 DEF HoldsTrue, SyntaxRejected
  <2>4. QED
    BY <1>1, <2>1, <2>3
<1>3. CASE ReadAccTail(p)
  <2>1. UNCHANGED <<disk, req, snap, ir>> /\ pc'[p] = "inject" /\ pc[p] = "accTail"
    BY <1>0, <1>3 DEF ReadAccTail, Goto, TypeOK
  <2>2. seen[p] = acc.head /\ seen[p] \in AccChunks /\ seen[p].body.text = snap[p].text
    BY <1>0, <2>1 DEF AloneOK, MemoryOK
  <2>3. acc.tail = acc.head
    <3>1. acc.head # Missing
      BY <2>2 DEF AccChunks, Missing
    <3>2. \A q \in Procs : pc[q] # "accFlush"
      BY <2>1 DEF OneAtATime
    <3>3. QED
      BY <1>0, <3>1, <3>2 DEF AccNotCut, AloneOK
  <2>4. ast'[p] = LoadedAst(seen[p].body)
    BY <1>0, <1>3, <2>2, <2>3 DEF ReadAccTail, Continues, AccChunks, TypeOK
  <2>5. LoadedAst(seen[p].body) = ParsedAst(snap[p].text)
    <3>1. seen[p].body = ParsedAst(snap[p].text) /\ snap[p].text \in Texts
      BY <1>0, <2>2 DEF AccTrue, AccChunks, ParsedAst, TypeOK, Snapshots
    <3>2. QED
      BY <3>1, StoredWhole
  <2>6. HoldsTrue(p)'
    BY <1>0, <2>1, <2>4, <2>5 DEF HoldsTrue
  <2>7. QED
    BY <1>1, <2>1, <2>6
<1>4. CASE Parse(p)
  <2>1. /\ UNCHANGED <<disk, req, snap, ir>> /\ pc'[p] \in {"accOpen", "inject"}
        /\ ast'[p] = ParsedAst(snap[p].text)
        /\ ~SyntaxRejected(snap[p].text, req[p].lenient)
    BY <1>0, <1>4 DEF Parse, Goto, TypeOK
  <2>2. HoldsTrue(p)'
    BY <2>1 DEF HoldsTrue
  <2>3. QED
    BY <1>1, <2>1, <2>2
<1>5. CASE OpenAcc(p) \/ WriteAccHead(p) \/ WriteAccTail(p)
  <2>1. /\ UNCHANGED <<irc, req, snap, ast, ir>> /\ pc[p] \in AstHeld
        /\ pc'[p] \in AstHeld \cup {"inject"}
    BY <1>0, <1>5 DEF OpenAcc, WriteAccHead, WriteAccTail, Goto, TypeOK, local
  <2>2. HoldsTrue(p)'
    BY <1>0, <2>1 DEF HoldsTrue
  <2>3. acc'.head \in {Missing, acc.head, AccWritten(p)}
    BY <1>0, <1>5 DEF OpenAcc, WriteAccHead, WriteAccTail, Goto, Empty, WithHead,
       WithTail, AloneOK, TypeOK, AccWritten, AccChunk, Missing
  <2>4. AccTrue(AccWritten(p)) /\ AccTrue(Missing)
    <3>1. ast[p] = ParsedAst(snap[p].text) /\ snap[p].text \notin BadTexts
      BY <1>0, <2>1 DEF HoldsTrue, StrictOK
    <3>2. StoredAst(ast[p]) = ast[p]
      BY <1>0, <3>1, StoredWhole DEF TypeOK, Snapshots
    <3>3. QED
      BY <3>1, <3>2 DEF AccTrue, AccWritten, AccChunk, AccKey, Missing
  <2>5. AccTrue(acc'.head)
    BY <1>0, <2>3, <2>4
  <2>6. QED
    BY <1>0, <2>1, <2>2, <2>5 DEF AccTrue, IrcTrue
<1>6. CASE Inject(p)
  <2>1. /\ UNCHANGED <<disk, req, ast, ir>> /\ pc'[p] \in {"ircHead", "lower"}
        /\ snap'[p].text = snap[p].text /\ pc[p] = "inject"
    BY <1>0, <1>6 DEF Inject, Goto, TypeOK, Snapshots
  <2>2. HoldsTrue(p)'
    BY <1>0, <2>1 DEF HoldsTrue
  <2>3. QED
    BY <1>1, <2>1, <2>2
<1>7. CASE ReadIrcHead(p)
  <2>1. /\ UNCHANGED <<disk, req, snap, ast, ir>> /\ pc'[p] \in {"ircTail", "lower"}
        /\ pc[p] = "ircHead"
    BY <1>0, <1>7 DEF ReadIrcHead, Goto, TypeOK
  <2>2. HoldsTrue(p)'
    BY <1>0, <2>1 DEF HoldsTrue
  <2>3. QED
    BY <1>1, <2>1, <2>2
<1>8. CASE ReadIrcTail(p)
  <2> DEFINE f == irc[req[p].tgt]
  <2>1. /\ UNCHANGED <<disk, req, snap, ast>> /\ pc'[p] \in {"gates", "lower"}
        /\ pc[p] = "ircTail" /\ seen[p] = f.head /\ f.tail \in {Missing, f.head}
        /\ seen[p] \in IrcChunks /\ KeyOf(seen[p].key, p)
    BY <1>0, <1>8 DEF ReadIrcTail, Goto, TypeOK, AloneOK, MemoryOK
  <2>2. pc'[p] = "gates" => ir'[p] = seen[p].body
    <3>1. EndReached(f.tail) => Continues(f.tail, seen[p])
      BY <2>1 DEF EndReached, Continues, Missing
    <3>2. QED
      BY <1>0, <1>8, <3>1 DEF ReadIrcTail, Goto, TypeOK
  <2>3. /\ ~ForeignRejected(snap[p].text, req[p])
        /\ seen[p].body = Lowered(ParsedAst(snap[p].text), snap[p].deps, snap[p].build, req[p])
    BY <1>0, <2>1 DEF IrcTrue, KeyOf, IrcChunks
  <2>4. HoldsTrue(p)'
    BY <1>0, <2>1, <2>2, <2>3 DEF HoldsTrue
  <2>5. QED
    BY <1>1, <2>1, <2>4
<1>9. CASE Lower(p)
  <2>1. /\ UNCHANGED <<disk, req, snap, ast>> /\ pc'[p] \in {"ircOpen", "gates"}
        /\ pc[p] = "lower" /\ ~ForeignRejected(ast[p].text, req[p])
        /\ ir'[p] = Lowered(ast[p], snap[p].deps, snap[p].build, req[p])
    BY <1>0, <1>9 DEF Lower, Goto, TypeOK
  <2>2. ast[p] = ParsedAst(snap[p].text) /\ ast[p].text = snap[p].text
    BY <1>0, <2>1 DEF HoldsTrue, ParsedAst
  <2>3. HoldsTrue(p)'
    BY <1>0, <2>1, <2>2 DEF HoldsTrue
  <2>4. QED
    BY <1>1, <2>1, <2>3
<1>10. CASE OpenIrc(p) \/ WriteIrcHead(p) \/ WriteIrcTail(p)
  <2> DEFINE g == req[p].tgt
             c == IrcWritten(p)
  <2>1. /\ UNCHANGED <<acc, req, snap, ast, ir>> /\ pc[p] \in IrcSaving
        /\ pc'[p] \in IrcSaving \cup {"gates"}
    BY <1>0, <1>10 DEF OpenIrc, WriteIrcHead, WriteIrcTail, Goto, TypeOK, local
  <2>2. HoldsTrue(p)'
    BY <1>0, <2>1 DEF HoldsTrue
  <2>3. \A t \in Targets : irc'[t].head \in {Missing, irc[t].head, c}
    BY <1>0, <1>10 DEF OpenIrc, WriteIrcHead, WriteIrcTail, SetIrc, Goto, Empty,
       WithHead, WithTail, AloneOK, TypeOK, IrcWritten, IrcChunk, Missing
  <2>4. IrcTrue(c) /\ IrcTrue(Missing)
    <3>1. /\ KeyOf(ikey[p], p) /\ ~ForeignRejected(snap[p].text, req[p])
          /\ ir[p] = Lowered(ParsedAst(snap[p].text), snap[p].deps, snap[p].build, req[p])
      BY <1>0, <2>1 DEF MemoryOK, HoldsTrue
    <3>2. c.key = ikey[p] /\ c.body = ir[p]
      BY <1>0, <3>1, StoredWhole DEF IrcWritten, IrcChunk, TypeOK, Snapshots
    <3>3. ASSUME NEW r \in Requests, r.tgt = c.key.tgt, r.runtime = c.key.runtime
          PROVE  /\ ~ForeignRejected(c.key.text, r)
                 /\ c.body = Lowered(ParsedAst(c.key.text), c.key.deps, c.key.build, r)
      <4>1. r.tgt = req[p].tgt /\ r.runtime = req[p].runtime
        BY <3>1, <3>2, <3>3 DEF KeyOf
      <4>2. QED
        BY <1>0, <3>1, <3>2, <4>1, SameKeySameMode DEF KeyOf
    <3>4. QED
      BY <3>3 DEF IrcTrue, Missing
  <2>5. \A t \in Targets : IrcTrue(irc'[t].head)
    BY <1>0, <2>3, <2>4
  <2>6. QED
    BY <1>0, <2>1, <2>2, <2>5 DEF AccTrue, IrcTrue
<1>11. CASE ParseError(p) \/ LoweringError(p) \/ Gates(p)
  <2>1. UNCHANGED disk /\ pc'[p] = "idle"
    BY <1>0, <1>11 DEF ParseError, LoweringError, Gates, Exit, TypeOK
  <2>2. QED
    BY <1>1, <2>1 DEF HoldsTrue
<1>12. QED
  BY <1>2, <1>3, <1>4, <1>5, <1>6, <1>7, <1>8, <1>9, <1>10, <1>11 DEF Step

(* So do starts, kills and edits.                                          *)
LEMMA TrueNext ==
  ASSUME NothingDropped, OneModePerKey, OneAtATime, AccNotCut,
         IInv, StrictInv, AloneInv, TrueInv, [Next]_vars
  PROVE  TrueInv'
<1>0. /\ TypeOK /\ AccTrue(acc.head) /\ (\A t \in Targets : IrcTrue(irc[t].head))
      /\ \A p \in Procs : HoldsTrue(p)
  BY DEF IInv, TrueInv
<1>1. ASSUME NEW p \in Procs, NEW r \in Requests, Start(p, r) PROVE TrueInv'
  <2>1. UNCHANGED disk /\ pc'[p] \in {"accHead", "parse"}
    BY <1>0, <1>1 DEF Start, Goto, TypeOK
  <2>2. \A q \in Procs : q = p
    BY DEF OneAtATime
  <2>3. QED
    BY <1>0, <2>1, <2>2 DEF TrueInv, AccTrue, IrcTrue, HoldsTrue, disk, AstHeld, AstReady,
       IrcSaving, PastParser
<1>2. ASSUME NEW p \in Procs, Step(p) PROVE TrueInv'
  <2>1. \A q \in Procs : q = p
    BY DEF OneAtATime
  <2>2. QED
    BY <1>2, <2>1, TrueStep DEF TrueInv
<1>3. ASSUME NEW p \in Procs, Crash(p) PROVE TrueInv'
  <2>1. UNCHANGED disk /\ pc'[p] = "idle"
    BY <1>0, <1>3 DEF Crash, Exit, TypeOK
  <2>2. \A q \in Procs : q = p
    BY DEF OneAtATime
  <2>3. QED
    BY <1>0, <2>1, <2>2 DEF TrueInv, AccTrue, IrcTrue, HoldsTrue, disk, AstHeld, AstReady,
       IrcSaving, PastParser
<1>4. CASE Change \/ UNCHANGED vars
  BY <1>0, <1>4 DEF Change, vars, local, disk, TrueInv, AccTrue, IrcTrue, HoldsTrue
<1>5. QED
  BY <1>1, <1>2, <1>3, <1>4 DEF Next

(* The stages a compilation goes through, seen without the caches.         *)
SourceStage == {"accHead", "accTail", "parse", "accOpen", "accWrite", "accFlush", "inject"}

(* Moving one compiler moves its stage only.                               *)
LEMMA StageMoves ==
  ASSUME TypeOK, NEW p \in Procs, NEW l \in Labels, pc' = [pc EXCEPT ![p] = l]
  PROVE  Stage' = [Stage EXCEPT ![p] = IF l = "idle" THEN "idle"
                     ELSE IF l \in SourceStage THEN "source" ELSE "imports"]
BY DEF TypeOK, Stage, SourceStage

(* A move within a stage is none.                                          *)
LEMMA StageStays ==
  ASSUME TypeOK, NEW p \in Procs, NEW l \in Labels, pc' = [pc EXCEPT ![p] = l],
         \/ pc[p] \in SourceStage /\ l \in SourceStage
         \/ pc[p] \notin SourceStage \cup {"idle"} /\ l \notin SourceStage \cup {"idle"}
  PROVE  Stage' = Stage
BY DEF TypeOK, Stage, SourceStage

(* The abstract compiler builds and refuses as BuildModel says.            *)
LEMMA SameModel ==
  /\ Uncached!NoOutcome = NoOutcome
  /\ \A t, l : Uncached!SyntaxRejected(t, l) <=> SyntaxRejected(t, l)
  /\ \A t, d, b, r : Uncached!FreshOutcome(t, d, b, r) = FreshOutcome(t, d, b, r)
BY DEF Uncached!NoOutcome, NoOutcome, Uncached!SyntaxRejected, SyntaxRejected,
   Uncached!FreshOutcome, FreshOutcome, Uncached!Rejected, Rejected,
   Uncached!ForeignRejected, ForeignRejected, Uncached!Emitted, Emitted,
   Uncached!InfiniteRejected, InfiniteRejected, Uncached!Built, Built,
   Uncached!UnsupportedBy, UnsupportedBy, Uncached!NoEntryPoint, NoEntryPoint,
   Uncached!Lowered, Lowered, Uncached!ParsedAst, ParsedAst

(* Every step of the only compiler is a step of the uncached one, or none. *)
LEMMA StepRefines ==
  ASSUME IInv, AloneInv, TrueInv, NEW p \in Procs, Step(p)
  PROVE  [Uncached!AbsNext]_(Uncached!absVars)
<1> USE DEF AstHeld, AstReady, IrcSaving, PastParser
<1>0. /\ TypeOK /\ MemoryOK(p) /\ AloneOK(p) /\ HoldsTrue(p)
      /\ ast[p].text = ParsedAst(snap[p].text).text \/ pc[p] \notin AstReady
  BY DEF IInv, AloneInv, TrueInv, HoldsTrue
<1>1. CASE ReadAccHead(p) \/ ReadAccTail(p) \/ Parse(p) \/ OpenAcc(p)
             \/ WriteAccHead(p) \/ WriteAccTail(p)
  <2>1. \E l \in SourceStage \cap Labels : pc[p] \in SourceStage /\ pc' = [pc EXCEPT ![p] = l]
    BY <1>1 DEF ReadAccHead, ReadAccTail, Parse, OpenAcc, WriteAccHead, WriteAccTail, Goto,
       SourceStage, Labels
  <2>2. Stage' = Stage
    BY <1>0, <2>1, StageStays
  <2>3. UNCHANGED <<text, deps, build, req, snap, outcome>>
    BY <1>1 DEF ReadAccHead, ReadAccTail, Parse, OpenAcc, WriteAccHead, WriteAccTail, world, local
  <2>4. QED
    BY <2>2, <2>3 DEF Uncached!absVars
<1>2. CASE ReadIrcHead(p) \/ ReadIrcTail(p) \/ Lower(p) \/ OpenIrc(p)
             \/ WriteIrcHead(p) \/ WriteIrcTail(p)
  <2>1. \E l \in Labels \ (SourceStage \cup {"idle"}) :
          pc[p] \notin SourceStage \cup {"idle"} /\ pc' = [pc EXCEPT ![p] = l]
    BY <1>2 DEF ReadIrcHead, ReadIrcTail, Lower, OpenIrc, WriteIrcHead, WriteIrcTail, Goto,
       SourceStage, Labels
  <2>2. Stage' = Stage
    BY <1>0, <2>1, StageStays
  <2>3. UNCHANGED <<text, deps, build, req, snap, outcome>>
    BY <1>2 DEF ReadIrcHead, ReadIrcTail, Lower, OpenIrc, WriteIrcHead, WriteIrcTail, world, local
  <2>4. QED
    BY <2>2, <2>3 DEF Uncached!absVars
<1>3. CASE Inject(p)
  <2>1. \E l \in {"ircHead", "lower"} : pc' = [pc EXCEPT ![p] = l]
    BY <1>3 DEF Inject, Goto
  <2>2. Stage' = [Stage EXCEPT ![p] = "imports"] /\ Stage[p] = "source"
    BY <1>0, <1>3, <2>1, StageMoves DEF Inject, Goto, Stage, SourceStage, Labels
  <2>3. ~SyntaxRejected(snap[p].text, req[p].lenient)
    BY <1>0, <1>3 DEF Inject, Goto, HoldsTrue
  <2>4. Uncached!Resolve(p)
    BY <1>3, <2>2, <2>3, SameModel DEF Inject, world, Uncached!Resolve
  <2>5. QED
    BY <2>4 DEF Uncached!AbsNext
<1>4. ASSUME NEW o, Exit(p, o),
             o = FreshOutcome(snap[p].text, snap[p].deps, snap[p].build, req[p]),
             \/ Stage[p] = "imports"
             \/ Stage[p] = "source" /\ SyntaxRejected(snap[p].text, req[p].lenient)
      PROVE  [Uncached!AbsNext]_(Uncached!absVars)
  <2>1. Stage' = [Stage EXCEPT ![p] = "idle"]
    BY <1>0, <1>4, StageMoves DEF Exit, Labels
  <2>2. Uncached!Deliver(p)
    BY <1>4, <2>1, SameModel DEF Exit, world, Uncached!Deliver
  <2>3. QED
    BY <2>2 DEF Uncached!AbsNext
<1>5. CASE ParseError(p)
  <2>1. Stage[p] = "source" /\ SyntaxRejected(snap[p].text, req[p].lenient)
    BY <1>5 DEF ParseError, Stage
  <2>2. Exit(p, FreshOutcome(snap[p].text, snap[p].deps, snap[p].build, req[p]))
    BY <1>5 DEF ParseError, FreshOutcome
  <2>3. QED
    BY <1>4, <2>1, <2>2
<1>6. CASE LoweringError(p)
  <2>1. /\ Stage[p] = "imports" /\ ~SyntaxRejected(snap[p].text, req[p].lenient)
        /\ ast[p].text = snap[p].text
    BY <1>0, <1>6 DEF LoweringError, Stage, HoldsTrue, ParsedAst
  <2>2. Exit(p, FreshOutcome(snap[p].text, snap[p].deps, snap[p].build, req[p]))
    BY <1>6, <2>1 DEF LoweringError, FreshOutcome
  <2>3. QED
    BY <1>4, <2>1, <2>2
<1>7. CASE Gates(p)
  <2>1. /\ Stage[p] = "imports" /\ ir[p] # TornIr
        /\ ~SyntaxRejected(snap[p].text, req[p].lenient)
        /\ ~ForeignRejected(snap[p].text, req[p])
        /\ ir[p] = Lowered(ParsedAst(snap[p].text), snap[p].deps, snap[p].build, req[p])
    BY <1>0, <1>7 DEF Gates, Stage, HoldsTrue, AloneOK
  <2>2. Exit(p, FreshOutcome(snap[p].text, snap[p].deps, snap[p].build, req[p]))
    BY <1>7, <2>1 DEF Gates, FreshOutcome
  <2>3. QED
    BY <1>4, <2>1, <2>2
<1>8. QED
  BY <1>1, <1>2, <1>3, <1>5, <1>6, <1>7 DEF Step

(* Every step of the system is a step of the uncached compiler, or none.   *)
LEMMA NextRefines ==
  ASSUME IInv, AloneInv, TrueInv, [Next]_vars
  PROVE  [Uncached!AbsNext]_(Uncached!absVars)
<1>0. TypeOK
  BY DEF IInv
<1>1. ASSUME NEW p \in Procs, NEW r \in Requests, Start(p, r)
      PROVE  [Uncached!AbsNext]_(Uncached!absVars)
  <2>1. \E l \in {"accHead", "parse"} : pc' = [pc EXCEPT ![p] = l]
    BY <1>1 DEF Start, Goto
  <2>2. Stage' = [Stage EXCEPT ![p] = "source"] /\ Stage[p] = "idle"
    BY <1>0, <1>1, <2>1, StageMoves DEF Start, Goto, Stage, SourceStage, Labels
  <2>3. Uncached!Begin(p)
    BY <1>1, <2>2, SameModel DEF Start, world, Uncached!Begin
  <2>4. QED
    BY <2>3 DEF Uncached!AbsNext
<1>2. ASSUME NEW p \in Procs, Step(p) PROVE [Uncached!AbsNext]_(Uncached!absVars)
  BY <1>2, StepRefines
<1>3. ASSUME NEW p \in Procs, Crash(p) PROVE [Uncached!AbsNext]_(Uncached!absVars)
  <2>1. Stage' = [Stage EXCEPT ![p] = "idle"] /\ Stage[p] # "idle"
    BY <1>0, <1>3, StageMoves DEF Crash, Exit, Labels, Stage
  <2>2. outcome' = outcome
    BY <1>0, <1>3 DEF Crash, Exit, IInv, MemoryOK, TypeOK
  <2>3. Uncached!Abandon(p)
    BY <1>3, <2>1, <2>2 DEF Crash, Exit, world, Uncached!Abandon
  <2>4. QED
    BY <2>3 DEF Uncached!AbsNext
<1>4. CASE Change
  <2>1. Stage' = Stage
    BY <1>4 DEF Change, Stage
  <2>2. Uncached!Change
    BY <1>0, <1>4, <2>1 DEF Change, TypeOK, local, Uncached!Change
  <2>3. QED
    BY <2>2 DEF Uncached!AbsNext
<1>5. CASE UNCHANGED vars
  BY <1>5 DEF vars, world, local, Stage, Uncached!absVars
<1>6. QED
  BY <1>1, <1>2, <1>3, <1>4, <1>5 DEF Next

(* The caches are transparent: with one compiler at a time, texts of which *)
(* nothing is left out of a cache file, command lines that differ in no    *)
(* flag the key lacks, and no kill inside saveCache, the driver implements *)
(* the compiler that has no caches, over any edits, rebuilds and kills.    *)
THEOREM CachesTransparent ==
  NothingDropped /\ OneModePerKey /\ OneAtATime
    => (Spec /\ []AccNotCut => ImplementsUncached)
<1> SUFFICES ASSUME NothingDropped, OneModePerKey, OneAtATime
             PROVE  Spec /\ []AccNotCut => ImplementsUncached
  OBVIOUS
<1>1. Init => TrueInv
  BY DEF Init, TrueInv, AccTrue, IrcTrue, HoldsTrue, Empty, Missing, AstHeld, AstReady,
     IrcSaving, PastParser
<1>2. Init => StrictInv
  BY DEF Init, StrictInv, GoodEntry, StrictOK, Empty, Missing, NoOutcome,
     AstHeld, AstReady, IrcSaving, PastParser
<1>3. Init => Uncached!AbsInit
  BY SameModel DEF Init, Stage, Uncached!AbsInit
<1>4. IInv /\ StrictInv /\ AloneInv /\ TrueInv /\ AccNotCut /\ [Next]_vars => TrueInv'
  BY TrueNext
<1>5. IInv /\ AloneInv /\ TrueInv /\ [Next]_vars => [Uncached!AbsNext]_(Uncached!absVars)
  BY NextRefines
<1>6. OneAtATime
  OBVIOUS
<1>7. QED
  BY <1>1, <1>2, <1>3, <1>4, <1>5, <1>6, AloneInit, AloneNext, StrictNext, InvariantHolds, PTL
     DEF Spec, ImplementsUncached, Uncached!AbsSpec

(* Without kills one compiler at a time never leaves an .acc cut short.    *)
LEMMA UncutStep ==
  ASSUME OneAtATime, MaxCrashes = 0, IInv, AloneInv, AccNotCut, [Next]_vars
  PROVE  AccNotCut'
<1>0. TypeOK /\ \A p, q \in Procs : p = q
  BY DEF IInv, OneAtATime
<1>1. ASSUME NEW p \in Procs, Step(p) PROVE AccNotCut'
  <2>1. AloneOK(p)
    BY DEF AloneInv
  <2>2. CASE OpenAcc(p)
    BY <1>0, <2>1, <2>2 DEF OpenAcc, Goto, TypeOK, AccNotCut, Empty, Missing
  <2>3. CASE WriteAccHead(p)
    BY <1>0, <2>3 DEF WriteAccHead, Goto, TypeOK, AccNotCut
  <2>4. CASE WriteAccTail(p)
    BY <2>4 DEF WriteAccTail, WithTail, AccNotCut, AccWritten, AccChunk, Missing
  <2>5. CASE UNCHANGED acc /\ pc[p] # "accFlush"
    BY <1>0, <2>5 DEF AccNotCut
  <2>6. QED
    BY <1>1, <2>2, <2>3, <2>4, <2>5 DEF Step, Goto, disk, Exit, ReadAccHead, ReadAccTail,
       ParseError, Parse, Inject, ReadIrcHead, ReadIrcTail, LoweringError, Lower,
       OpenIrc, WriteIrcHead, WriteIrcTail, Gates
<1>2. ASSUME NEW p \in Procs, NEW r \in Requests, Start(p, r) PROVE AccNotCut'
  BY <1>0, <1>2 DEF Start, Goto, disk, AccNotCut
<1>3. ~ \E p \in Procs : Crash(p)
  BY <1>0 DEF Crash, TypeOK
<1>4. CASE Change \/ UNCHANGED vars
  BY <1>4 DEF Change, vars, disk, AccNotCut
<1>5. QED
  BY <1>1, <1>2, <1>3, <1>4 DEF Next

(* Where no compiler is killed the caches are transparent without a        *)
(* condition on the run.                                                   *)
THEOREM CachesTransparentUnkilled ==
  NothingDropped /\ OneModePerKey /\ OneAtATime /\ MaxCrashes = 0
    => (Spec => ImplementsUncached)
<1> SUFFICES ASSUME NothingDropped, OneModePerKey, OneAtATime, MaxCrashes = 0
             PROVE  Spec => ImplementsUncached
  OBVIOUS
<1>1. Init => AccNotCut
  BY DEF Init, AccNotCut, Empty
<1>2. IInv /\ AloneInv /\ AccNotCut /\ [Next]_vars => AccNotCut'
  BY UncutStep
<1>3. OneAtATime /\ NothingDropped /\ OneModePerKey
  OBVIOUS
<1>4. Spec => []AccNotCut
  BY <1>1, <1>2, <1>3, AloneInit, AloneNext, InvariantHolds, PTL DEF Spec
<1>5. QED
  BY <1>3, <1>4, CachesTransparent, PTL
=============================================================================
