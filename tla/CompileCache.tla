---------------------------- MODULE CompileCache ----------------------------
(***************************************************************************)
(* The compiler driver and its two on-disk caches: <base>.acc, the parsed  *)
(* program, shared by every backend, and <base>_<tgt>.irc, the lowered     *)
(* program of one backend.  Several compiler processes may run on the same *)
(* source at once (make -j, one per target), the user edits the source and *)
(* its imports, the compiler is rebuilt, and a process may be killed at    *)
(* any step.                                                               *)
(*                                                                         *)
(* A cache file is written in place through an 8 KB stream buffer, so it   *)
(* is modelled as two chunks: the head, which holds the magic, the version *)
(* and the key, and the tail.  Each chunk is written and read by a step of *)
(* its own; opening for writing truncates both.                            *)
(***************************************************************************)
EXTENDS BuildModel

CONSTANTS
  Procs,
  Stamps,      \* mtimes, in seconds, an ilib's FFI file may have
  MaxStarts,   \* bound on compilations
  MaxEdits,    \* bound on changes of the world
  MaxCrashes   \* bound on killed compilers

ASSUME BoundsAssumption ==
  MaxStarts \in Nat /\ MaxEdits \in Nat /\ MaxCrashes \in Nat

VARIABLES
  text, deps, build, ffi,   \* the world: source, imports, compiler, FFI mtime
  acc,                      \* the .acc file
  irc,                      \* irc[t], the .irc file of target t
  pc,                       \* where each compiler process is
  req,                      \* its command line
  snap,                     \* the source, imports and build it has seen
  ikey,                     \* its IR cache key
  seen,                     \* the head chunk it is reading
  ast, ir,                  \* its AST and IRProgram
  outcome,                  \* how its last compilation ended
  starts, edits, crashes

world == <<text, deps, build, ffi>>
disk  == <<acc, irc>>
local == <<snap, ikey, seen, ast, ir>>
budget == <<starts, edits, crashes>>
vars  == <<world, disk, pc, req, local, outcome, budget>>

-----------------------------------------------------------------------------
(* Cache files.  The operators named Bug_... are mutations of the next     *)
(* definition; they are used by no action and only show that the           *)
(* properties notice such a mistake.                                       *)

NoAst   == [text |-> Garbage, angle |-> FALSE, str |-> StrLen[Garbage]]
TornAst == NoAst
NoIr    == [verdict |-> "none"]
TornIr  == [verdict |-> "torn"]
NoKey   == [kind |-> "none"]

AccKeys == [text : Texts, build : Builds]
IrcKeys == [text : Texts, lib : {<<>>} \cup {<<s>> : s \in Stamps},
            runtime : BOOLEAN, deps : Deps, build : Builds, tgt : Targets]

Missing == [kind |-> "missing"]    \* past the end of the file
Hole    == [kind |-> "hole"]       \* zeros left under a later write
AccChunk(k, a) == [kind |-> "data", key |-> k, body |-> a]
IrcChunk(k, i) == [kind |-> "data", key |-> k, body |-> i]
Empty   == [head |-> Missing, tail |-> Missing]

WithHead(f, c) == [f EXCEPT !.head = c]
\* A tail written where another process has truncated leaves a hole before it.
WithTail(f, c) == [head |-> IF f.head = Missing THEN Hole ELSE f.head,
                   tail |-> c]

(* The magic, the version and the key of the head are what a load checks.  *)
HeadMatches(c, k) == c.kind = "data" /\ c.key = k

(* The tail continues the entry whose head was read.                       *)
Continues(tail, head) ==
  IF tail.kind = "data" THEN tail.body = head.body ELSE FALSE

(* loadIRCache tests the stream after the last field; loadCache does not.  *)
Bug_EndReached(c) == TRUE
EndReached(c) == c.kind = "data"

Byte == 256
Word == 65536

(* angleUnit is not written; a string's length is cast to 16 bits, and so  *)
(* many of its bytes are written.                                          *)
StoredAst(a) == [text |-> a.text, angle |-> FALSE, str |-> a.str % Word]
(* hasShutoff, hasRestart and importedLibs are not written, strings are    *)
(* cut like those of the tree, of a list of operands the first 255 stay.   *)
StoredIr(i)  ==
  [text |-> i.text, angle |-> i.angle, str |-> i.str, sidecar |-> FALSE,
   const |-> i.const % Word, ops |-> IF i.ops < Byte THEN i.ops ELSE Byte - 1,
   deps |-> i.deps, build |-> i.build, tgt |-> i.tgt, opt |-> i.opt,
   runtime |-> i.runtime]

(* All attributes and children are written after a count of 8 or 16 bits:  *)
(* where the count has wrapped, the rest is taken for other nodes.         *)
LoadedAst(a) ==
  IF AttrCount[a.text] < Byte /\ ChildCount[a.text] < Word THEN a ELSE TornAst

Bug_AccKey(t, b) == [text |-> CHOOSE x \in Texts : TRUE, build |-> b]
AccKey(t, b) == [text |-> t, build |-> b]

LibStamp(t, s) == IF t \in LibTexts THEN <<s>> ELSE <<>>

Bug_IrcKey(s, stamp, r) ==
  [text |-> s.text, lib |-> LibStamp(s.text, stamp), runtime |-> r.runtime,
   deps |-> CHOOSE d \in Deps : TRUE, build |-> s.build, tgt |-> r.tgt]
Bug_IrcKeyNoRuntime(s, stamp, r) ==
  [text |-> s.text, lib |-> LibStamp(s.text, stamp), runtime |-> FALSE,
   deps |-> s.deps, build |-> s.build, tgt |-> r.tgt]
IrcKey(s, stamp, r) ==
  [text |-> s.text, lib |-> LibStamp(s.text, stamp), runtime |-> r.runtime,
   deps |-> s.deps, build |-> s.build, tgt |-> r.tgt]

(* --no-cache sets forceCompile as well, so it neither reads nor writes.   *)
Bug_ReadsCache(r) == ~r.noCache
ReadsCache(r) == ~r.noCache /\ ~r.force

Bug_SavesAst(t, r) == ~r.noCache
SavesAst(t, r) == ~r.noCache /\ t \notin BadTexts

-----------------------------------------------------------------------------
Init ==
  /\ text \in Texts /\ deps \in Deps /\ build \in Builds /\ ffi \in Stamps
  /\ acc = Empty
  /\ irc = [t \in Targets |-> Empty]
  /\ pc = [p \in Procs |-> "idle"]
  /\ req \in [Procs -> Requests]
  /\ snap = [p \in Procs |-> [text |-> text, deps |-> deps, build |-> build]]
  /\ ikey = [p \in Procs |-> NoKey]
  /\ seen = [p \in Procs |-> Missing]
  /\ ast = [p \in Procs |-> NoAst]
  /\ ir = [p \in Procs |-> NoIr]
  /\ outcome = [p \in Procs |-> NoOutcome]
  /\ starts = 0 /\ edits = 0 /\ crashes = 0

Goto(p, from, to) == pc[p] = from /\ pc' = [pc EXCEPT ![p] = to]

(* The compilation ends; the process's memory goes with it.                *)
Exit(p, o) ==
  /\ pc' = [pc EXCEPT ![p] = "idle"]
  /\ outcome' = [outcome EXCEPT ![p] = o]
  /\ ikey' = [ikey EXCEPT ![p] = NoKey]
  /\ seen' = [seen EXCEPT ![p] = Missing]
  /\ ast' = [ast EXCEPT ![p] = NoAst]
  /\ ir' = [ir EXCEPT ![p] = NoIr]
  /\ UNCHANGED <<world, disk, req, snap>>

(* main: the command line, readFile, the compiler's mtime.                 *)
Start(p, r) ==
  /\ starts < MaxStarts
  /\ Goto(p, "idle", IF ReadsCache(r) THEN "accHead" ELSE "parse")
  /\ req' = [req EXCEPT ![p] = r]
  /\ snap' = [snap EXCEPT ![p] = [@ EXCEPT !.text = text, !.build = build]]
  /\ outcome' = [outcome EXCEPT ![p] = NoOutcome]
  /\ starts' = starts + 1
  /\ UNCHANGED <<world, disk, ikey, seen, ast, ir, edits, crashes>>

(* loadCache up to the key.                                                *)
ReadAccHead(p) ==
  LET k == AccKey(snap[p].text, snap[p].build)
      hit == HeadMatches(acc.head, k)
  IN /\ Goto(p, "accHead", IF hit THEN "accTail" ELSE "parse")
     /\ seen' = [seen EXCEPT ![p] = IF hit THEN acc.head ELSE Missing]
     /\ UNCHANGED <<world, disk, req, snap, ikey, ast, ir, outcome, budget>>

(* deserializeNode: whatever follows the key is taken for the tree.  Only  *)
(* the tail of the same tree gives that tree back, if its counts held.     *)
ReadAccTail(p) ==
  /\ Goto(p, "accTail", "inject")
  /\ ast' = [ast EXCEPT ![p] =
       IF Continues(acc.tail, seen[p]) THEN LoadedAst(seen[p].body) ELSE TornAst]
  /\ seen' = [seen EXCEPT ![p] = Missing]
  /\ UNCHANGED <<world, disk, req, snap, ikey, ir, outcome, budget>>

(* lex and parse; a strict compilation ends at a parse error.              *)
ParseError(p) ==
  /\ pc[p] = "parse"
  /\ SyntaxRejected(snap[p].text, req[p].lenient)
  /\ Exit(p, Rejected("syntax"))
  /\ UNCHANGED budget

Parse(p) ==
  /\ ~SyntaxRejected(snap[p].text, req[p].lenient)
  /\ Goto(p, "parse",
          IF SavesAst(snap[p].text, req[p]) THEN "accOpen" ELSE "inject")
  /\ ast' = [ast EXCEPT ![p] = ParsedAst(snap[p].text)]
  /\ UNCHANGED <<world, disk, req, snap, ikey, seen, ir, outcome, budget>>

(* saveCache: an unwritable file is skipped without a word.                *)
OpenAcc(p) ==
  /\ \/ Goto(p, "accOpen", "accWrite") /\ acc' = Empty
     \/ Goto(p, "accOpen", "inject") /\ acc' = acc
  /\ UNCHANGED <<world, irc, req, local, outcome, budget>>

AccWritten(p) ==
  AccChunk(AccKey(snap[p].text, snap[p].build), StoredAst(ast[p]))

WriteAccHead(p) ==
  /\ Goto(p, "accWrite", "accFlush")
  /\ acc' = WithHead(acc, AccWritten(p))
  /\ UNCHANGED <<world, irc, req, local, outcome, budget>>

WriteAccTail(p) ==
  /\ Goto(p, "accFlush", "inject")
  /\ acc' = WithTail(acc, AccWritten(p))
  /\ UNCHANGED <<world, irc, req, local, outcome, budget>>

(* injectEvalPrelude, injectFlibModules, injectDatacImports: the imports   *)
(* are read now, on every path, and their digest goes into the IR key.     *)
Inject(p) ==
  /\ Goto(p, "inject", IF ReadsCache(req[p]) /\ ~req[p].stopAfterIR
                       THEN "ircHead" ELSE "lower")
  /\ snap' = [snap EXCEPT ![p].deps = deps]
  /\ UNCHANGED <<world, disk, req, ikey, seen, ast, ir, outcome, budget>>

ReadIrcHead(p) ==
  LET k == IrcKey(snap[p], ffi, req[p])
      f == irc[req[p].tgt]
      hit == HeadMatches(f.head, k)
  IN /\ Goto(p, "ircHead", IF hit THEN "ircTail" ELSE "lower")
     /\ ikey' = [ikey EXCEPT ![p] = k]
     /\ seen' = [seen EXCEPT ![p] = IF hit THEN f.head ELSE Missing]
     /\ UNCHANGED <<world, disk, req, snap, ast, ir, outcome, budget>>

(* The rest of loadIRCache.  A tail of some other entry may still parse.   *)
ReadIrcTail(p) ==
  LET t == irc[req[p].tgt].tail
      whole == Continues(t, seen[p])
  IN /\ pc[p] = "ircTail"
     /\ \/ /\ EndReached(t)
           /\ Goto(p, "ircTail", "gates")
           /\ ir' = [ir EXCEPT ![p] = IF whole THEN seen[p].body ELSE TornIr]
        \/ ~whole /\ Goto(p, "ircTail", "lower") /\ ir' = ir
     /\ seen' = [seen EXCEPT ![p] = Missing]
     /\ UNCHANGED <<world, disk, req, snap, ikey, ast, outcome, budget>>

LoweringError(p) ==
  /\ pc[p] = "lower"
  /\ ForeignRejected(ast[p].text, req[p])
  /\ Exit(p, Rejected("foreign"))
  /\ UNCHANGED budget

Lower(p) ==
  /\ ~ForeignRejected(ast[p].text, req[p])
  /\ Goto(p, "lower", IF ReadsCache(req[p]) /\ ~req[p].stopAfterIR
                      THEN "ircOpen" ELSE "gates")
  /\ ir' = [ir EXCEPT ![p] =
       Lowered(ast[p], snap[p].deps, snap[p].build, req[p])]
  /\ UNCHANGED <<world, disk, req, snap, ikey, seen, ast, outcome, budget>>

SetIrc(p, f) == irc' = [irc EXCEPT ![req[p].tgt] = f]

OpenIrc(p) ==
  /\ \/ Goto(p, "ircOpen", "ircWrite") /\ SetIrc(p, Empty)
     \/ Goto(p, "ircOpen", "gates") /\ irc' = irc
  /\ UNCHANGED <<world, acc, req, local, outcome, budget>>

IrcWritten(p) == IrcChunk(ikey[p], StoredIr(ir[p]))

WriteIrcHead(p) ==
  /\ Goto(p, "ircWrite", "ircFlush")
  /\ SetIrc(p, WithHead(irc[req[p].tgt], IrcWritten(p)))
  /\ UNCHANGED <<world, acc, req, local, outcome, budget>>

WriteIrcTail(p) ==
  /\ Goto(p, "ircFlush", "gates")
  /\ SetIrc(p, WithTail(irc[req[p].tgt], IrcWritten(p)))
  /\ UNCHANGED <<world, acc, req, local, outcome, budget>>

(* Library lowering, the checks on the IRProgram, and the output.          *)
Gates(p) ==
  /\ pc[p] = "gates"
  /\ Exit(p, IF ir[p] = TornIr THEN Built(TornIr) ELSE Emitted(ir[p], req[p]))
  /\ UNCHANGED budget

Step(p) ==
  \/ ReadAccHead(p) \/ ReadAccTail(p) \/ ParseError(p) \/ Parse(p)
  \/ OpenAcc(p) \/ WriteAccHead(p) \/ WriteAccTail(p) \/ Inject(p)
  \/ ReadIrcHead(p) \/ ReadIrcTail(p) \/ LoweringError(p) \/ Lower(p)
  \/ OpenIrc(p) \/ WriteIrcHead(p) \/ WriteIrcTail(p) \/ Gates(p)

(* Ctrl-C, an OOM kill, power loss: files stay as they are.                *)
Crash(p) ==
  /\ pc[p] # "idle" /\ crashes < MaxCrashes
  /\ Exit(p, NoOutcome)
  /\ crashes' = crashes + 1
  /\ UNCHANGED <<starts, edits>>

(* The user and the build change what the next compilation will see.       *)
Change ==
  /\ edits < MaxEdits
  /\ \/ \E t \in Texts \ {text} : text' = t /\ UNCHANGED <<deps, build, ffi>>
     \/ \E d \in Deps \ {deps} : deps' = d /\ UNCHANGED <<text, build, ffi>>
     \/ \E b \in Builds \ {build} : build' = b /\ UNCHANGED <<text, deps, ffi>>
     \/ \E s \in Stamps \ {ffi} : ffi' = s /\ UNCHANGED <<text, deps, build>>
  /\ edits' = edits + 1
  /\ UNCHANGED <<disk, pc, req, local, outcome, starts, crashes>>

Next ==
  \/ \E p \in Procs, r \in Requests : Start(p, r)
  \/ \E p \in Procs : Step(p)
  \/ \E p \in Procs : Crash(p)
  \/ Change

Spec == Init /\ [][Next]_vars

-----------------------------------------------------------------------------
(* Properties *)

Labels == {"idle", "accHead", "accTail", "parse", "accOpen", "accWrite",
           "accFlush", "inject", "ircHead", "ircTail", "lower", "ircOpen",
           "ircWrite", "ircFlush", "gates"}
AccChunks == [kind : {"data"}, key : AccKeys, body : Asts]
IrcChunks == [kind : {"data"}, key : IrcKeys, body : Irs]
Blanks    == {Missing, Hole}
Snapshots == [text : Texts, deps : Deps, build : Builds]

(* The shape of the disk, of a process's memory and of an outcome.         *)
TypeOK ==
  /\ text \in Texts /\ deps \in Deps /\ build \in Builds /\ ffi \in Stamps
  /\ acc \in [head : Blanks \cup AccChunks, tail : Blanks \cup AccChunks]
  /\ irc \in [Targets -> [head : Blanks \cup IrcChunks,
                          tail : Blanks \cup IrcChunks]]
  /\ pc \in [Procs -> Labels]
  /\ req \in [Procs -> Requests]
  /\ snap \in [Procs -> Snapshots]
  /\ ikey \in [Procs -> IrcKeys \cup {NoKey}]
  /\ seen \in [Procs -> {Missing} \cup AccChunks \cup IrcChunks]
  /\ ast \in [Procs -> Asts]
  /\ ir \in [Procs -> Irs \cup {NoIr, TornIr}]
  /\ outcome \in [Procs -> Outcomes \cup {Built(TornIr)}]
  /\ starts \in 0..MaxStarts /\ edits \in 0..MaxEdits
  /\ crashes \in 0..MaxCrashes

AccEntryKeyed(c) == c.kind = "data" => c.body.text = c.key.text

IrKeyed(i, k) ==
  /\ i.text \in {k.text, Garbage}
  /\ i.deps = k.deps /\ i.build = k.build
  /\ i.tgt = k.tgt /\ i.runtime = k.runtime
IrcEntryKeyed(c) == c.kind = "data" => IrKeyed(c.body, c.key)

(* Every chunk of a cache file on disk was made from the inputs its key    *)
(* names, whoever wrote it and whatever was edited or killed meanwhile:    *)
(* the stale-entry hazard the two keys (accKey, irHashSource) exist for.   *)
EntriesKeyed ==
  /\ AccEntryKeyed(acc.head) /\ AccEntryKeyed(acc.tail)
  /\ \A t \in Targets : /\ IrcEntryKeyed(irc[t].head)
                        /\ IrcEntryKeyed(irc[t].tail)
                        /\ irc[t].head.kind = "data" => irc[t].head.key.tgt = t

MadeFrom(i, s, r) ==
  /\ i.text \in {s.text, Garbage}
  /\ i.deps = s.deps /\ i.build = s.build
  /\ i.tgt = r.tgt /\ i.runtime = r.runtime

(* What a compilation delivers was made from the source, the imports, the  *)
(* compiler and the mode it was started with, not from an older state of   *)
(* them that a cache remembered; a torn or misread cache file is the only  *)
(* exception.  How much of it the file held is not asked here.             *)
OutcomeFromInputs ==
  \A p \in Procs :
    outcome[p].verdict = "built" =>
      LET i == outcome[p].ir IN
        i = TornIr \/ MadeFrom(i, snap[p], req[p])

(* --force and --no-cache give the uncached outcome whatever the cache     *)
(* files hold, torn, poisoned or stale.                                    *)
BypassIsFresh ==
  \A p \in Procs :
    outcome[p].verdict # "none" /\ (req[p].noCache \/ req[p].force) =>
      outcome[p] = FreshOutcome(snap[p].text, snap[p].deps, snap[p].build,
                                req[p])

(* A strict compilation never succeeds on a text that does not parse, not  *)
(* even after a lenient one has left the IR of the surviving lines under   *)
(* the same key.                                                           *)
StrictRejectsBad ==
  \A p \in Procs :
    outcome[p].verdict = "built" /\ ~req[p].lenient =>
      snap[p].text \notin BadTexts

(* With one compiler at a time, a kill never makes a later compilation use *)
(* a half-written .irc: the stream check at the end of loadIRCache.        *)
IrcWhole == \A p \in Procs : ir[p] # TornIr

(* The driver with its caches implements the compiler without them.        *)
Stage ==
  [p \in Procs |->
     IF pc[p] = "idle" THEN "idle"
     ELSE IF pc[p] \in {"accHead", "accTail", "parse", "accOpen", "accWrite",
                        "accFlush", "inject"} THEN "source"
     ELSE "imports"]
Uncached == INSTANCE UncachedCompiler WITH stage <- Stage
ImplementsUncached == Uncached!AbsSpec
=============================================================================
