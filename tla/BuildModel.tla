----------------------------- MODULE BuildModel -----------------------------
(***************************************************************************)
(* What one compilation of an AC program produces when nothing is cached.  *)
(* Sources are abstracted to members of Texts; the sets below say which    *)
(* features of a text the cached and the uncached pipeline could treat     *)
(* differently.  A compiled program is the record of everything it was     *)
(* made from: two builds are equal exactly when these fields are.          *)
(***************************************************************************)
EXTENDS Naturals

CONSTANTS
  Texts,          \* the main source texts a user may save
  BadTexts,       \* texts with a statement the parser cannot read
  AngleTexts,     \* texts with a RAD-prefixed assignment (ASTNode::angleUnit)
  SidecarTexts,   \* texts whose program sets hasShutoff or importedLibs
  ForeignTexts,   \* texts with a <Foreign> block
  InfiniteTexts,  \* texts whose <mainloop> is never closed
  LibTexts,       \* texts with a `use ilib` line
  Garbage,        \* what a torn or misread cache file is taken for
  Deps,           \* the texts the imported .ac/.datac files may have
  Builds,         \* compiler binaries, told apart by their mtime
  Targets,        \* backends
  NativeTargets,  \* BNY, x86 and ARM: no stage can consume foreign text
  Requests,       \* the command lines the user may give
  Unsupported,    \* <<text, imports, target>>: `%` or a variable of changing
                  \* type, for a backend that has no code for it
  Entryless,      \* <<text, imports>>: statements to run and no <mainloop>
  StrLen,         \* the longest string of a text's tree (a list is one string)
  AttrCount,      \* the most attributes a node of its tree has
  ChildCount,     \* the most children
  ConstLen,       \* the longest string constant of the IR of text and imports
  OperandCount    \* the most operands, attributes or parameters in it

Programs == Texts \cup {Garbage}
OptLevels == 0..4

RequestSpace ==
  [tgt : Targets, opt : OptLevels, runtime : BOOLEAN, lenient : BOOLEAN,
   force : BOOLEAN, noCache : BOOLEAN, allowForeign : BOOLEAN,
   allowInfinite : BOOLEAN, stopAfterIR : BOOLEAN]

ASSUME TextsAssumption ==
  /\ BadTexts \subseteq Texts /\ AngleTexts \subseteq Texts
  /\ SidecarTexts \subseteq Texts /\ ForeignTexts \subseteq Texts
  /\ InfiniteTexts \subseteq Texts /\ LibTexts \subseteq Texts
  /\ Garbage \notin Texts
ASSUME SizesAssumption ==
  /\ StrLen \in [Programs -> Nat] /\ AttrCount \in [Programs -> Nat]
  /\ ChildCount \in [Programs -> Nat]
  /\ ConstLen \in [Programs -> [Deps -> Nat]]
  /\ OperandCount \in [Programs -> [Deps -> Nat]]
ASSUME RequestsAssumption ==
  /\ NativeTargets \subseteq Targets
  /\ Requests \subseteq RequestSpace

(* str is how much of the longest string the tree has, and the IR was made *)
(* from; const and ops are how much the IR has of its own.                 *)
Asts == [text : Programs, angle : BOOLEAN, str : Nat]
Irs  == [text : Programs, angle : BOOLEAN, str : Nat, sidecar : BOOLEAN,
         const : Nat, ops : Nat, deps : Deps, build : Builds, tgt : Targets,
         opt : OptLevels, runtime : BOOLEAN]

ParsedAst(t) == [text |-> t, angle |-> t \in AngleTexts, str |-> StrLen[t]]

(* A parse error stops the compiler unless lines may be dropped.           *)
SyntaxRejected(t, lenient) == t \in BadTexts /\ ~lenient

(* Native backends refuse a foreign block, the others want the flag.       *)
ForeignRejected(t, r) ==
  t \in ForeignTexts /\ (r.tgt \in NativeTargets \/ ~r.allowForeign)

Lowered(a, d, b, r) ==
  [text |-> a.text, angle |-> a.angle, str |-> a.str,
   sidecar |-> a.text \in SidecarTexts, const |-> ConstLen[a.text][d],
   ops |-> OperandCount[a.text][d], deps |-> d, build |-> b, tgt |-> r.tgt,
   opt |-> r.opt,
   runtime |-> r.runtime]

(* rejectUnloweredWildcard, rejectTypeCyclingVars; EntryPointError.         *)
UnsupportedBy(ir, r) == <<ir.text, ir.deps, r.tgt>> \in Unsupported
NoEntryPoint(ir, r) == <<ir.text, ir.deps>> \in Entryless /\ r.tgt # "LIB"

InfiniteRejected(ir, r) == ir.text \in InfiniteTexts /\ ~r.allowInfinite

Built(ir)     == [verdict |-> "built", ir |-> ir]
Rejected(why) == [verdict |-> why]
NoOutcome     == [verdict |-> "none"]

Outcomes ==
  [verdict : {"none", "syntax", "foreign", "unsupported", "entry", "infinite"}]
    \cup [verdict : {"built"}, ir : Irs]

(* The gates and the output of a compilation whose IR is at hand.          *)
Emitted(ir, r) ==
  IF r.stopAfterIR THEN Built(ir)
  ELSE IF UnsupportedBy(ir, r) THEN Rejected("unsupported")
  ELSE IF NoEntryPoint(ir, r) THEN Rejected("entry")
  ELSE IF InfiniteRejected(ir, r) THEN Rejected("infinite")
  ELSE Built(ir)

(* The promise the caches are held to: the outcome as a function of the    *)
(* text, the imports, the compiler and the command line alone.             *)
FreshOutcome(t, d, b, r) ==
  IF SyntaxRejected(t, r.lenient) THEN Rejected("syntax")
  ELSE IF ForeignRejected(t, r) THEN Rejected("foreign")
  ELSE Emitted(Lowered(ParsedAst(t), d, b, r), r)
=============================================================================
