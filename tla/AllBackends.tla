----------------------------- MODULE AllBackends -----------------------------
(***************************************************************************)
(* `ac f.ac --all`: main starts a pool of threads, which claim the         *)
(* registered backends one after the other from an atomic counter and      *)
(* compile the same tree to each (compileOne).  The threads share the      *)
(* files that compileOne and the native toolchains it runs write.          *)
(*                                                                         *)
(* A file is named by what its name adds to the base name of the program:  *)
(* <<suffix, extension>>.  Its content is two halves, each tagged with the *)
(* target whose text it is, because two threads that write the same file   *)
(* interleave.  Generating the text is one step here (module               *)
(* CrossListParams has its steps); the .irc of a backend is in module      *)
(* CompileCache.                                                           *)
(***************************************************************************)
EXTENDS Integers, Sequences, FiniteSets

CONSTANTS
  Backends,     \* the registered backends in sorted order
  Workers,      \* the threads of the pool
  Programs,     \* the programs and hosts: [cycles, entry, infinite, arm : BOOLEAN]
  AllowInfinite,\* --allow-infinite
  NoCache,      \* --no-cache: no ac-cache directory, no .lir
  MayFail,      \* backends whose own generator or toolchain may refuse
  None          \* a half that was not written

(* BackendRegistry::initializeStandardBackends *)
Names == {"PY", "JS", "HTML", "Java", "C++", "CPP", "C", "ASM", "RS", "GO",
          "V", "BNY", "x86", "ARM", "RISC", "LIB"}

ASSUME BackendsAssumption == Backends \in Seq(Names)
ASSUME WorkersAssumption == IsFiniteSet(Workers) /\ Workers # {}
ASSUME FlagsAssumption ==
  /\ AllowInfinite \in BOOLEAN /\ NoCache \in BOOLEAN
  /\ Programs \subseteq
       [cycles : BOOLEAN, entry : BOOLEAN, infinite : BOOLEAN, arm : BOOLEAN]
  /\ MayFail \subseteq Names
  /\ None \notin Names

N == Len(Backends)

VARIABLES
  next,     \* the atomic counter: the number of the next backend
  ok, fail, \* the atomic result counters
  exit,     \* main's exit code, -1 until the pool is joined
  doing,    \* what a thread's loop is doing: "claim", "compile", "gone"
  job,      \* the number of the backend a thread compiles
  stage,    \* where compileOne of a thread is
  files,    \* the two halves of every file
  read,     \* what the toolchain of a backend was given to compile
  prog      \* the program, and whether the compiler was built for ARM

poolVars == <<next, ok, fail, exit, doing, job>>
workVars == <<stage, files, read>>
vars == <<poolVars, workVars, prog>>

-----------------------------------------------------------------------------
(* The names of the files.                                                 *)

Extension(b) ==
  CASE b = "PY" -> ".py"  [] b = "JS" -> ".js"   [] b = "HTML" -> ".html"
    [] b = "C" -> ".c"    [] b = "ASM" -> ".asm" [] b = "Java" -> ".java"
    [] b = "RS" -> ".rs"  [] b = "GO" -> ".go"   [] b = "V" -> ".v"
    [] b = "RISC" -> ".s" [] b \in {"C++", "CPP", "LIB"} -> ".cpp"
    [] b \in {"BNY", "x86", "ARM"} -> ".acb"

(* Plausible faults of the names, for judging the properties.              *)

Bug_CxxSource(b) ==      \* the C++ alias keeps its plain name under --all
  IF b = "LIB" THEN <<"_lib", ".cpp">>
  ELSE IF b = "BNY" THEN <<"", ".c">> ELSE <<"", Extension(b)>>

Bug_LibSource(b) ==      \* the library's text keeps its plain name
  IF b = "C++" THEN <<"_cxx", ".cpp">>
  ELSE IF b = "BNY" THEN <<"", ".c">> ELSE <<"", Extension(b)>>

Bug_BinaryFile(b) ==     \* the binary of CPP is named as without --all
  CASE b = "C++" -> <<"_cxx", "">> [] b = "C" -> <<"_c", "">>
    [] b \in {"CPP", "RS"} -> <<"", "">>
    [] b = "LIB" -> <<"", ".so">> [] b = "Java" -> <<"", ".class">>
    [] b = "BNY" -> <<"", ".acb">>

(* The text a backend writes; --all renames those of two .cpp backends.    *)
SourceFile(b) ==
  CASE b = "C++" -> <<"_cxx", ".cpp">>
    [] b = "LIB" -> <<"_lib", ".cpp">>
    [] b = "BNY" -> <<"", ".c">>      \* the C intermediary on ARM
    [] OTHER     -> <<"", Extension(b)>>

(* What the generators of machine code write.                              *)
NativeFile(b) ==
  CASE b = "x86" -> <<".x86", ".acb">>
    [] b = "ASM" -> <<"", ".s">>      \* on ARM the listing of RISC
    [] OTHER     -> <<"", Extension(b)>>

(* What the toolchain makes of the text.                                   *)
BinaryFile(b) ==
  CASE b = "C"    -> <<"_c", "">>
    [] b = "C++"  -> <<"_cxx", "">>
    [] b = "CPP"  -> <<"_cpp", "">>
    [] b = "RS"   -> <<"", "">>
    [] b = "LIB"  -> <<"", ".so">>
    [] b = "Java" -> <<"", ".class">>
    [] b = "BNY"  -> NativeFile(b)

HeaderFile == <<"", ".h">>
LirFile == <<"ac-cache/", ".lir">>

(* The backends that take each way through compileOne.                     *)
HostIsArm == prog.arm
LowLevel == {"BNY", "ASM", "ARM", "RISC"}
Native == {"BNY", "x86", "ARM", "RISC"} \cup (IF HostIsArm THEN {"ASM"} ELSE {})
Toolchain == {"C", "C++", "CPP", "LIB", "RS", "Java", "BNY"}

Files == {SourceFile(b) : b \in Names \ {"x86", "ARM", "RISC"}}
           \cup {NativeFile(b) : b \in LowLevel \cup {"x86"}}
           \cup {BinaryFile(b) : b \in Toolchain} \cup {HeaderFile, LirFile}

Missing == <<None, None>>
Text(t) == <<t, t>>

(* The target whose text a backend writes: BNY's intermediary is C.        *)
Language(b) == IF b = "BNY" THEN "C" ELSE b

(* The file a user of the backend wants.                                   *)
Deliverable(b) ==
  IF b \in Native THEN NativeFile(b)
  ELSE IF b \in Toolchain THEN BinaryFile(b) ELSE SourceFile(b)

-----------------------------------------------------------------------------
(* The pool.                                                               *)

Init ==
  /\ next = 1
  /\ ok = 0 /\ fail = 0 /\ exit = -1
  /\ doing = [w \in Workers |-> "claim"]
  /\ job = [w \in Workers |-> 0]
  /\ stage = [w \in Workers |-> "idle"]
  /\ files = [f \in Files |-> Missing]
  /\ read = [b \in Names |-> Missing]
  /\ prog \in Programs

Target(w) == Backends[job[w]]

(* Plausible faults of the pool, for judging the properties.               *)

Bug_NoCatch(w) ==        \* an exception ends the thread without a return
  /\ doing[w] = "compile" /\ stage[w] = "good"
  /\ doing' = [doing EXCEPT ![w] = "claim"]
  /\ job' = [job EXCEPT ![w] = 0]
  /\ stage' = [stage EXCEPT ![w] = "idle"]
  /\ ok' = ok + 1
  /\ UNCHANGED <<next, fail, exit, files, read, prog>>

Bug_Join ==              \* main joins one thread only
  /\ exit = -1
  /\ \E w \in Workers : doing[w] = "gone"
  /\ exit' = IF fail > 0 THEN 1 ELSE 0
  /\ UNCHANGED <<next, ok, fail, doing, job, workVars, prog>>

(* next.fetch_add(1) returned a backend.                                   *)
Claim(w) ==
  /\ doing[w] = "claim"
  /\ next <= N
  /\ next' = next + 1
  /\ job' = [job EXCEPT ![w] = next]
  /\ doing' = [doing EXCEPT ![w] = "compile"]
  /\ stage' = [stage EXCEPT ![w] = "front"]
  /\ UNCHANGED <<ok, fail, exit, files, read, prog>>

(* next.fetch_add(1) went past the end: the thread returns.                *)
Leave(w) ==
  /\ doing[w] = "claim"
  /\ next > N
  /\ next' = next + 1
  /\ doing' = [doing EXCEPT ![w] = "gone"]
  /\ UNCHANGED <<ok, fail, exit, job, workVars, prog>>

(* compileOne returned, or threw: the exception is caught and counted.     *)
Finish(w) ==
  /\ doing[w] = "compile"
  /\ stage[w] \in {"good", "bad"}
  /\ doing' = [doing EXCEPT ![w] = "claim"]
  /\ job' = [job EXCEPT ![w] = 0]
  /\ stage' = [stage EXCEPT ![w] = "idle"]
  /\ IF stage[w] = "good"
     THEN ok' = ok + 1 /\ UNCHANGED fail
     ELSE fail' = fail + 1 /\ UNCHANGED ok
  /\ UNCHANGED <<next, exit, files, read, prog>>

(* main has joined every thread.                                           *)
Join ==
  /\ exit = -1
  /\ \A w \in Workers : doing[w] = "gone"
  /\ exit' = IF fail > 0 THEN 1 ELSE 0
  /\ UNCHANGED <<next, ok, fail, doing, job, workVars, prog>>
-----------------------------------------------------------------------------
(* compileOne of thread w.  No step of it touches the pool.                *)

Goto(w, s) == stage' = [stage EXCEPT ![w] = s]

(* writeFile and the image writers open, which truncates, and write.       *)
WriteHead(f, t) == files' = [files EXCEPT ![f] = <<t, None>>]
WriteTail(f, t) == files' = [files EXCEPT ![f][2] = t]

(* Lower the tree for the target.  A low-level target refuses a variable   *)
(* whose type changes in a loop.                                           *)
Front(w) ==
  /\ stage[w] = "front"
  /\ \/ /\ Target(w) \in LowLevel /\ prog.cycles
        /\ Goto(w, "bad")
     \/ /\ ~(Target(w) \in LowLevel /\ prog.cycles)
        /\ Goto(w, IF Target(w) \in LowLevel /\ ~NoCache THEN "lir" ELSE "check")
  /\ UNCHANGED <<files, read>>

(* The readable IR of the low-level targets.                               *)
WriteLir(w) ==
  /\ \/ /\ stage[w] = "lir"
        /\ WriteHead(LirFile, Target(w))
        /\ Goto(w, "lirTail")
     \/ /\ stage[w] = "lirTail"
        /\ WriteTail(LirFile, Target(w))
        /\ Goto(w, "check")
  /\ UNCHANGED read

(* A program needs an entry point, a library does not; an endless mainloop *)
(* needs leave.                                                            *)
Refused(b) == \/ ~prog.entry /\ b # "LIB"
              \/ prog.infinite /\ ~AllowInfinite

Check(w) ==
  /\ stage[w] = "check"
  /\ Goto(w, IF Refused(Target(w)) THEN "bad"
             ELSE IF Target(w) \in Native THEN "native" ELSE "text")
  /\ UNCHANGED <<files, read>>

(* runX86Binary, runArmBinary, runArmAsm.  On an ARM host a BNY that is    *)
(* refused goes through C.                                                 *)
EmitNative(w) ==
  /\ \/ /\ stage[w] = "native"
        /\ Target(w) \in MayFail
        /\ Goto(w, IF Target(w) = "BNY" /\ HostIsArm THEN "text" ELSE "bad")
        /\ UNCHANGED files
     \/ /\ stage[w] = "native"
        /\ WriteHead(NativeFile(Target(w)), Target(w))
        /\ Goto(w, "nativeTail")
     \/ /\ stage[w] = "nativeTail"
        /\ WriteTail(NativeFile(Target(w)), Target(w))
        /\ Goto(w, "good")
  /\ UNCHANGED read

(* generateFromIR and writeFile of the text backends.                      *)
EmitText(w) ==
  /\ \/ /\ stage[w] = "text"
        /\ Target(w) \in MayFail
        /\ Goto(w, "bad")
        /\ UNCHANGED files
     \/ /\ stage[w] = "text"
        /\ WriteHead(SourceFile(Target(w)), Language(Target(w)))
        /\ Goto(w, "textTail")
     \/ /\ stage[w] = "textTail"
        /\ WriteTail(SourceFile(Target(w)), Language(Target(w)))
        /\ Goto(w, IF Target(w) \in Toolchain THEN "toolchain" ELSE "good")
  /\ UNCHANGED read

(* The text is given to gcc, g++, rustc or javac, which refuses one that   *)
(* is not whole.                                                           *)
Whole(c) == c[1] = c[2] /\ c # Missing

AfterToolchain(b) ==
  CASE b = "BNY" -> "tidy" [] b = "LIB" -> "header" [] OTHER -> "good"

RunToolchain(w) ==
  LET b == Target(w)
      given == files[SourceFile(b)]
  IN /\ stage[w] = "toolchain"
     /\ read' = [read EXCEPT ![b] = given]
     /\ \/ /\ b \in MayFail \/ ~Whole(given)
           /\ Goto(w, "bad")
           /\ UNCHANGED files
        \/ /\ Whole(given)
           /\ files' = [files EXCEPT ![BinaryFile(b)] =
                          IF given = Text(Language(b)) THEN Text(b) ELSE given]
           /\ Goto(w, AfterToolchain(b))

(* The header of a library.                                                *)
WriteHeader(w) ==
  /\ stage[w] = "header"
  /\ files' = [files EXCEPT ![HeaderFile] = Text("LIB")]
  /\ Goto(w, "good")
  /\ UNCHANGED read

(* BNY by way of C removes the intermediary.                               *)
Tidy(w) ==
  /\ stage[w] = "tidy"
  /\ files' = [files EXCEPT ![SourceFile(Target(w))] = Missing]
  /\ Goto(w, "good")
  /\ UNCHANGED read

CompileOne(w) ==
  /\ \/ Front(w) \/ WriteLir(w) \/ Check(w) \/ EmitNative(w) \/ EmitText(w)
     \/ RunToolchain(w) \/ WriteHeader(w) \/ Tidy(w)
  /\ UNCHANGED <<poolVars, prog>>

Worker(w) == Claim(w) \/ Leave(w) \/ Finish(w) \/ CompileOne(w)

Next == Join \/ \E w \in Workers : Worker(w)

Spec == Init /\ [][Next]_vars

(* Every thread runs until its loop ends, the toolchains end, and main is  *)
(* not starved after the joins.                                            *)
FairSpec == Spec /\ WF_vars(Join) /\ \A w \in Workers : WF_vars(Worker(w))

-----------------------------------------------------------------------------
(* Properties.                                                             *)

Stages == {"idle", "front", "lir", "lirTail", "check", "native", "nativeTail",
           "text", "textTail", "toolchain", "header", "tidy", "good", "bad"}

Contents == (Names \cup {None}) \X (Names \cup {None})

(* The pool's variables keep their shape; a thread has a backend exactly   *)
(* while it compiles.                                                      *)
PoolTypeOK ==
  /\ next \in Nat \ {0} /\ ok \in Nat /\ fail \in Nat
  /\ exit \in {-1, 0, 1}
  /\ doing \in [Workers -> {"claim", "compile", "gone"}]
  /\ job \in [Workers -> 0..N]
  /\ stage \in [Workers -> Stages]
  /\ \A w \in Workers : doing[w] = "compile" <=> job[w] # 0
  /\ \A w \in Workers : doing[w] = "compile" <=> stage[w] # "idle"

(* Every variable keeps its shape.                                         *)
TypeOK ==
  /\ PoolTypeOK
  /\ files \in [Files -> Contents]
  /\ read \in [Names -> Contents]
  /\ prog \in Programs

(* No backend is compiled by two threads, and none is compiled that the    *)
(* counter has not passed: what next.fetch_add(1) is for.                  *)
ClaimedOnce ==
  /\ \A w \in Workers : job[w] < next
  /\ \A v, w \in Workers : job[v] = job[w] /\ job[v] # 0 => v = w

(* Every backend that was taken is being compiled or was counted once, so  *)
(* that the two totals main prints add up to the number of backends.       *)
Busy == {w \in Workers : doing[w] = "compile"}
Taken == IF next > N THEN N ELSE next - 1
Accounted == ok + fail + Cardinality(Busy) = Taken

(* The pool does what BackendJobs promises.                                *)
Running == {job[w] : w \in Busy}
Jobs == INSTANCE BackendJobs WITH Count <- N, taken <- Taken, running <- Running
ImplementsJobs == Jobs!JobsSpec

(* A backend fails only for a reason of its own: the program, its own      *)
(* generator or its own toolchain, never for what another thread did to    *)
(* its files ("so backends are independent").                              *)
OwnFault(b) == b \in MayFail \/ Refused(b) \/ (b \in LowLevel /\ prog.cycles)
NoCollateral == \A w \in Workers : stage[w] = "bad" => OwnFault(Target(w))

(* A toolchain compiles the text of its own backend, whole.                *)
CompilesOwnText ==
  \A b \in Names : read[b] \in {Missing, Text(Language(b))}

(* Exit code 0 promises the user the whole output of every backend ("each  *)
(* backend writes distinct files").                                        *)
AllDelivered ==
  exit = 0 => \A i \in 1..N : files[Deliverable(Backends[i])] = Text(Backends[i])

(* The pool ends: every backend is tried and main reports.                 *)
Reports == <>(exit # -1)
=============================================================================
