-------------------------- MODULE AllBackendsProofs --------------------------
(***************************************************************************)
(* The pool of `--all` keeps its promise for any list of backends, any     *)
(* number of threads and whatever compileOne does: each backend is taken   *)
(* once and counted once, and the exit code is given when all are done.    *)
(* Its files keep theirs as far as the list keeps backends apart that      *)
(* write the same names: no toolchain reads another's text, no backend     *)
(* fails another, and what exit code 0 promises is there.                  *)
(***************************************************************************)
EXTENDS AllBackends, TLAPS, FiniteSetTheorems

(* A thread that left saw the counter past the end, and main reports when  *)
(* all have left.                                                          *)
LeaveLast ==
  /\ \A w \in Workers : doing[w] = "gone" => next > N
  /\ exit # -1 => \A w \in Workers : doing[w] = "gone"

PoolInv == PoolTypeOK /\ ClaimedOnce /\ LeaveLast /\ Accounted

(* The steps of compileOne seen from the pool.                             *)
Compiling(w) ==
  /\ doing[w] = "compile"
  /\ \E s \in Stages \ {"idle"} : stage' = [stage EXCEPT ![w] = s]
  /\ UNCHANGED poolVars

-----------------------------------------------------------------------------
(* The number of backends is a natural number.                             *)
LEMMA CountTyped == N \in Nat
BY BackendsAssumption DEF N

(* Busy is a set of threads and finite.                                    *)
LEMMA BusyFinite == IsFiniteSet(Busy) /\ Busy \subseteq Workers
BY WorkersAssumption, FS_Subset DEF Busy

(* A step of compileOne moves its stage and leaves the pool alone.         *)
LEMMA CompileOneStep ==
  ASSUME PoolTypeOK, NEW w \in Workers, CompileOne(w)
  PROVE  Compiling(w)
<1>1. UNCHANGED poolVars
  BY DEF CompileOne
<1>2. stage[w] # "idle" /\ \E s \in Stages \ {"idle"} : stage' = [stage EXCEPT ![w] = s]
  <2>1. CASE Front(w)
    BY <2>1 DEF Front, Goto, Stages
  <2>2. CASE WriteLir(w)
    BY <2>2 DEF WriteLir, Goto, Stages
  <2>3. CASE Check(w)
    BY <2>3 DEF Check, Goto, Stages
  <2>4. CASE EmitNative(w)
    BY <2>4 DEF EmitNative, Goto, Stages
  <2>5. CASE EmitText(w)
    BY <2>5 DEF EmitText, Goto, Stages
  <2>6. CASE RunToolchain(w)
    <3>1. AfterToolchain(Target(w)) \in {"tidy", "header", "good"}
      BY DEF AfterToolchain
    <3>2. QED
      BY <2>6, <3>1 DEF RunToolchain, Goto, Stages
  <2>7. CASE WriteHeader(w)
    BY <2>7 DEF WriteHeader, Goto, Stages
  <2>8. CASE Tidy(w)
    BY <2>8 DEF Tidy, Goto, Stages
  <2>9. QED
    BY <2>1, <2>2, <2>3, <2>4, <2>5, <2>6, <2>7, <2>8 DEF CompileOne
<1>3. doing[w] = "compile"
  BY <1>2 DEF PoolTypeOK
<1>4. QED
  BY <1>1, <1>2, <1>3 DEF Compiling

-----------------------------------------------------------------------------
(* No step changes the shape of the pool's variables.                      *)
LEMMA PoolTypeStep ==
  ASSUME PoolInv, Next
  PROVE  PoolTypeOK'
<1>1. CASE Join
  BY <1>1 DEF Join, PoolInv, PoolTypeOK, workVars
<1>2. ASSUME NEW w \in Workers, Worker(w) PROVE PoolTypeOK'
  <2>1. CASE Claim(w)
    <3>1. next \in 1..N /\ next # 0 /\ next + 1 \in Nat \ {0}
      BY <2>1, CountTyped DEF Claim, PoolInv, PoolTypeOK
    <3>2. "front" \in Stages /\ "front" # "idle"
      BY DEF Stages
    <3>3. QED
      BY <2>1, <3>1, <3>2 DEF Claim, PoolInv, PoolTypeOK
  <2>2. CASE Leave(w)
    BY <2>2 DEF Leave, PoolInv, PoolTypeOK, workVars
  <2>3. CASE Finish(w)
    <3>1. 0 \in 0..N /\ "idle" \in Stages
      BY CountTyped DEF Stages
    <3>2. ok' \in Nat /\ fail' \in Nat
      BY <2>3 DEF Finish, PoolInv, PoolTypeOK
    <3>3. QED
      BY <2>3, <3>1, <3>2 DEF Finish, PoolInv, PoolTypeOK
  <2>4. CASE CompileOne(w)
    <3>1. PICK s \in Stages \ {"idle"} : stage' = [stage EXCEPT ![w] = s]
      BY <2>4, CompileOneStep DEF PoolInv, Compiling
    <3>2. doing[w] = "compile" /\ UNCHANGED <<next, ok, fail, exit, doing, job>>
      BY <2>4, CompileOneStep DEF PoolInv, Compiling, poolVars
    <3>3. QED
      BY <3>1, <3>2 DEF PoolInv, PoolTypeOK
  <2>5. QED
    BY <1>2, <2>1, <2>2, <2>3, <2>4 DEF Worker
<1>3. QED
  BY <1>1, <1>2 DEF Next

(* The counter hands out every number once.                                *)
LEMMA ClaimStep ==
  ASSUME PoolInv, Next
  PROVE  ClaimedOnce' /\ LeaveLast'
<1>1. CASE Join
  BY <1>1 DEF Join, PoolInv, PoolTypeOK, ClaimedOnce, LeaveLast, workVars
<1>2. ASSUME NEW w \in Workers, Worker(w) PROVE ClaimedOnce' /\ LeaveLast'
  <2>1. CASE Claim(w)
    <3>1. \A v \in Workers : job'[v] = IF v = w THEN next ELSE job[v]
      BY <2>1 DEF Claim, PoolInv, PoolTypeOK
    <3>2. \A v \in Workers : doing'[v] = "gone" => doing[v] = "gone"
      BY <2>1 DEF Claim, PoolInv, PoolTypeOK
    <3>3. next' = next + 1 /\ exit' = exit /\ exit = -1 /\ next \in Nat
      BY <2>1 DEF Claim, PoolInv, PoolTypeOK, LeaveLast
    <3>4. ClaimedOnce'
      <4>1. \A v \in Workers : job[v] \in Nat /\ job[v] < next
        BY CountTyped DEF PoolInv, PoolTypeOK, ClaimedOnce
      <4>2. QED
        BY <3>1, <3>3, <4>1 DEF PoolInv, ClaimedOnce
    <3>5. LeaveLast'
      BY <3>2, <3>3, CountTyped DEF PoolInv, LeaveLast
    <3>6. QED
      BY <3>4, <3>5
  <2>2. CASE Leave(w)
    <3>1. next' = next + 1 /\ next > N /\ next \in Nat /\ UNCHANGED <<exit, job>>
      BY <2>2 DEF Leave, PoolInv, PoolTypeOK
    <3>2. ClaimedOnce'
      <4>1. \A v \in Workers : job[v] \in Nat /\ job[v] < next
        BY CountTyped DEF PoolInv, PoolTypeOK, ClaimedOnce
      <4>2. QED
        BY <3>1, <4>1 DEF PoolInv, ClaimedOnce
    <3>3. \A v \in Workers : doing[v] = "gone" => doing'[v] = "gone"
      BY <2>2 DEF Leave, PoolInv, PoolTypeOK
    <3>4. LeaveLast'
      BY <3>1, <3>3, CountTyped DEF PoolInv, LeaveLast
    <3>5. QED
      BY <3>2, <3>4
  <2>3. CASE Finish(w)
    <3>1. \A v \in Workers : job'[v] = IF v = w THEN 0 ELSE job[v]
      BY <2>3 DEF Finish, PoolInv, PoolTypeOK
    <3>2. \A v \in Workers : doing'[v] = "gone" => doing[v] = "gone"
      BY <2>3 DEF Finish, PoolInv, PoolTypeOK
    <3>3. UNCHANGED <<next, exit>> /\ exit = -1 /\ next > 0
      BY <2>3 DEF Finish, PoolInv, PoolTypeOK, LeaveLast
    <3>4. QED
      BY <3>1, <3>2, <3>3 DEF PoolInv, ClaimedOnce, LeaveLast
  <2>4. CASE CompileOne(w)
    <3>1. UNCHANGED <<next, exit, doing, job>>
      BY <2>4, CompileOneStep DEF PoolInv, Compiling, poolVars
    <3>2. QED
      BY <3>1 DEF PoolInv, ClaimedOnce, LeaveLast
  <2>5. QED
    BY <1>2, <2>1, <2>2, <2>3, <2>4 DEF Worker
<1>3. QED
  BY <1>1, <1>2 DEF Next

(* What a claim and a result do to the threads that are busy.              *)
LEMMA BusyStep ==
  ASSUME PoolInv, NEW w \in Workers
  PROVE  /\ Claim(w) => w \notin Busy /\ Busy' = Busy \cup {w}
         /\ Finish(w) => w \in Busy /\ Busy' = Busy \ {w}
         /\ Leave(w) \/ CompileOne(w) \/ Join => Busy' = Busy
<1>1. ASSUME Claim(w) PROVE w \notin Busy /\ Busy' = Busy \cup {w}
  BY <1>1 DEF Claim, Busy, PoolInv, PoolTypeOK
<1>2. ASSUME Finish(w) PROVE w \in Busy /\ Busy' = Busy \ {w}
  BY <1>2 DEF Finish, Busy, PoolInv, PoolTypeOK
<1>3. ASSUME Leave(w) PROVE Busy' = Busy
  BY <1>3 DEF Leave, Busy, PoolInv, PoolTypeOK
<1>4. ASSUME CompileOne(w) PROVE Busy' = Busy
  BY <1>4, CompileOneStep DEF Compiling, poolVars, Busy, PoolInv
<1>5. ASSUME Join PROVE Busy' = Busy
  BY <1>5 DEF Join, Busy
<1>6. QED
  BY <1>1, <1>2, <1>3, <1>4, <1>5

(* A backend that is taken is busy, and one that ends is counted.          *)
LEMMA AccountStep ==
  ASSUME PoolInv, Next
  PROVE  Accounted'
<1>0. /\ next \in Nat /\ ok \in Nat /\ fail \in Nat /\ N \in Nat /\ next > 0
      /\ Cardinality(Busy) \in Nat
      /\ ok + fail + Cardinality(Busy) = Taken
  BY CountTyped, BusyFinite, FS_CardinalityType DEF PoolInv, PoolTypeOK, Accounted
<1>1. CASE Join
  <2>1. PICK w \in Workers : TRUE
    BY WorkersAssumption
  <2>2. Busy' = Busy
    BY <1>1, <2>1, BusyStep
  <2>3. QED
    BY <1>0, <1>1, <2>2 DEF Join, Accounted, Taken
<1>2. ASSUME NEW w \in Workers, Worker(w) PROVE Accounted'
  <2>1. CASE Claim(w)
    <3>1. Cardinality(Busy') = Cardinality(Busy) + 1
      BY <2>1, BusyStep, BusyFinite, FS_AddElement
    <3>2. Taken' = Taken + 1 /\ ok' = ok /\ fail' = fail
      BY <1>0, <2>1 DEF Claim, Taken
    <3>3. QED
      BY <1>0, <3>1, <3>2 DEF Accounted
  <2>2. CASE Leave(w)
    <3>1. Busy' = Busy
      BY <2>2, BusyStep
    <3>2. next' = next + 1 /\ next > N /\ ok' = ok /\ fail' = fail
      BY <2>2 DEF Leave
    <3>3. Taken' = Taken
      BY <1>0, <3>2 DEF Taken
    <3>4. QED
      BY <1>0, <3>1, <3>2, <3>3 DEF Accounted
  <2>3. CASE Finish(w)
    <3>1. Cardinality(Busy') = Cardinality(Busy) - 1
      BY <2>3, BusyStep, BusyFinite, FS_RemoveElement
    <3>2. Taken' = Taken
      BY <2>3 DEF Finish, Taken
    <3>3. \/ ok' = ok + 1 /\ fail' = fail
          \/ fail' = fail + 1 /\ ok' = ok
      BY <2>3 DEF Finish
    <3>4. DEFINE c == Cardinality(Busy)
                 d == Cardinality(Busy')
    <3>5. c \in Nat /\ d = c - 1 /\ ok + fail + c = Taken
      BY <1>0, <3>1
    <3>6. HIDE DEF c, d
    <3>7. ok' + fail' + d = Taken'
      BY <1>0, <3>2, <3>3, <3>5
    <3>8. QED
      BY <3>7 DEF c, d, Accounted
  <2>4. CASE CompileOne(w)
    <3>1. UNCHANGED <<next, ok, fail>> /\ Busy' = Busy
      BY <2>4, BusyStep DEF CompileOne, poolVars
    <3>2. QED
      BY <1>0, <3>1 DEF Accounted, Taken
  <2>5. QED
    BY <1>2, <2>1, <2>2, <2>3, <2>4 DEF Worker
<1>3. QED
  BY <1>1, <1>2 DEF Next

(* The invariant of the pool.                                              *)
LEMMA PoolInvariance == Spec => []PoolInv
<1>1. Init => PoolInv
  <2> SUFFICES ASSUME Init PROVE PoolInv
    OBVIOUS
  <2>1. PoolTypeOK
    BY CountTyped DEF Init, PoolTypeOK, Stages
  <2>2. ClaimedOnce /\ LeaveLast
    BY DEF Init, ClaimedOnce, LeaveLast
  <2>3. Busy = {} /\ Cardinality(Busy) = 0
    BY FS_EmptySet DEF Init, Busy
  <2>4. Taken = 0
    BY CountTyped DEF Init, Taken
  <2>5. Accounted
    BY <2>3, <2>4 DEF Init, Accounted
  <2>6. QED
    BY <2>1, <2>2, <2>5 DEF PoolInv
<1>2. PoolInv /\ [Next]_vars => PoolInv'
  <2>1. CASE Next
    BY <2>1, PoolTypeStep, ClaimStep, AccountStep DEF PoolInv
  <2>2. ASSUME PoolInv, UNCHANGED vars PROVE PoolInv'
    <3>1. UNCHANGED <<next, ok, fail, exit, doing, job, stage>>
      BY <2>2 DEF vars, poolVars, workVars
    <3>2. UNCHANGED <<Busy, Taken>>
      BY <3>1 DEF Busy, Taken
    <3>3. QED
      BY <2>2, <3>1, <3>2 DEF PoolInv, PoolTypeOK, ClaimedOnce, LeaveLast, Accounted
  <2>3. QED
    BY <2>1, <2>2
<1>3. QED
  BY <1>1, <1>2, PTL DEF Spec

(* For any number of threads, no backend is compiled by two of them.       *)
THEOREM ClaimsAreUnique == Spec => []ClaimedOnce
<1>1. PoolInv => ClaimedOnce
  BY DEF PoolInv
<1>2. QED
  BY <1>1, PoolInvariance, PTL

(* For any number of threads, the two totals and the backends in work add  *)
(* up to those that were taken.                                            *)
THEOREM TotalsAddUp == Spec => []Accounted
<1>1. PoolInv => Accounted
  BY DEF PoolInv
<1>2. QED
  BY <1>1, PoolInvariance, PTL
-----------------------------------------------------------------------------
(* The refinement.                                                         *)

(* A step of the pool is a step of BackendJobs or changes nothing of it.   *)
LEMMA JobsStep ==
  ASSUME PoolInv, Next
  PROVE  [Jobs!JobsNext]_(Jobs!jobVars)
<1>0. next \in Nat \ {0} /\ N \in Nat /\ ok \in Nat /\ fail \in Nat
  BY CountTyped DEF PoolInv, PoolTypeOK
<1>1. CASE Join
  <2>1. PICK w \in Workers : TRUE
    BY WorkersAssumption
  <2>2. Running = {} /\ Taken = N
    BY <1>0, <1>1, <2>1 DEF Join, Running, Busy, Taken, PoolInv, LeaveLast
  <2>3. Running' = Running /\ Taken' = Taken
    BY <1>1 DEF Join, Running, Busy, Taken
  <2>4. Jobs!Report
    BY <1>1, <2>2, <2>3 DEF Join, Jobs!Report
  <2>5. QED
    BY <2>4 DEF Jobs!JobsNext
<1>2. ASSUME NEW w \in Workers, Worker(w) PROVE [Jobs!JobsNext]_(Jobs!jobVars)
  <2>1. CASE Claim(w)
    <3>1. Taken = next - 1 /\ Taken' = next /\ Taken < N /\ Taken + 1 = next
      BY <1>0, <2>1 DEF Claim, Taken
    <3>2. exit = -1
      BY <2>1 DEF Claim, PoolInv, LeaveLast
    <3>3. \A v \in Workers : job'[v] = IF v = w THEN next ELSE job[v]
      BY <2>1 DEF Claim, PoolInv, PoolTypeOK
    <3>4. Running' = Running \cup {Taken + 1}
      <4>1. Busy' = Busy \cup {w} /\ w \notin Busy /\ Busy \subseteq Workers
        BY <2>1, BusyStep, BusyFinite
      <4>2. QED
        BY <3>1, <3>3, <4>1 DEF Running
    <3>5. Jobs!Take
      BY <2>1, <3>1, <3>2, <3>4 DEF Claim, Jobs!Take
    <3>6. QED
      BY <3>5 DEF Jobs!JobsNext
  <2>2. CASE Leave(w)
    <3>1. Taken' = Taken
      BY <1>0, <2>2 DEF Leave, Taken
    <3>2. Running' = Running
      <4>1. Busy' = Busy /\ job' = job
        BY <2>2, BusyStep DEF Leave
      <4>2. QED
        BY <4>1 DEF Running
    <3>3. QED
      BY <2>2, <3>1, <3>2 DEF Leave, Jobs!jobVars
  <2>3. CASE Finish(w)
    <3>1. Taken' = Taken /\ exit' = exit
      BY <2>3 DEF Finish, Taken
    <3>2. Busy' = Busy \ {w} /\ w \in Busy /\ Busy \subseteq Workers
      BY <2>3, BusyStep, BusyFinite
    <3>3. \A v \in Workers : v # w => job'[v] = job[v]
      BY <2>3 DEF Finish, PoolInv, PoolTypeOK
    <3>4. \A v \in Busy : v # w => job[v] # job[w]
      BY <3>2 DEF PoolInv, ClaimedOnce, PoolTypeOK, Busy
    <3>5. Running' = Running \ {job[w]} /\ job[w] \in Running
      BY <3>2, <3>3, <3>4 DEF Running
    <3>6. Jobs!End(job[w])
      BY <2>3, <3>1, <3>5 DEF Finish, Jobs!End
    <3>7. QED
      BY <3>5, <3>6 DEF Jobs!JobsNext
  <2>4. CASE CompileOne(w)
    <3>1. UNCHANGED <<next, ok, fail, exit, job>> /\ Busy' = Busy
      BY <2>4, BusyStep DEF CompileOne, poolVars
    <3>2. Running' = Running /\ Taken' = Taken
      BY <3>1 DEF Running, Taken
    <3>3. QED
      BY <3>1, <3>2 DEF Jobs!jobVars
  <2>5. QED
    BY <1>2, <2>1, <2>2, <2>3, <2>4 DEF Worker
<1>3. QED
  BY <1>1, <1>2 DEF Next

(* The pool of threads implements the jobs that BackendJobs promises, for  *)
(* any list of backends and any number of threads.                         *)
THEOREM PoolImplementsJobs == Spec => ImplementsJobs
<1>1. Init => Jobs!JobsInit
  <2> SUFFICES ASSUME Init PROVE Jobs!JobsInit
    OBVIOUS
  <2>1. Running = {} /\ Taken = 0
    BY CountTyped DEF Init, Running, Busy, Taken
  <2>2. QED
    BY <2>1 DEF Init, Jobs!JobsInit
<1>2. PoolInv /\ [Next]_vars => [Jobs!JobsNext]_(Jobs!jobVars)
  <2>1. CASE Next
    BY <2>1, JobsStep
  <2>2. ASSUME UNCHANGED vars PROVE UNCHANGED Jobs!jobVars
    BY <2>2 DEF vars, poolVars, workVars, Jobs!jobVars, Running, Busy, Taken
  <2>3. QED
    BY <2>1, <2>2
<1>3. QED
  BY <1>1, <1>2, PoolInvariance, PTL DEF Spec, ImplementsJobs, Jobs!JobsSpec

-----------------------------------------------------------------------------
(* Types.                                                                  *)

(* The text of every backend is one of the files.                          *)
LEMMA SourceIsFile ==
  ASSUME NEW b \in Names
  PROVE  SourceFile(b) \in Files
<1>1. CASE b \notin {"x86", "ARM", "RISC"}
  BY <1>1 DEF Files
<1>2. CASE b \in {"x86", "ARM"}
  <2>1. SourceFile(b) = <<"", ".acb">>
    BY <1>2 DEF SourceFile, Extension
  <2>2. NativeFile("BNY") = <<"", ".acb">>
    BY DEF NativeFile, Extension
  <2>3. QED
    BY <2>1, <2>2 DEF Files, LowLevel
<1>3. CASE b = "RISC"
  <2>1. SourceFile(b) = <<"", ".s">>
    BY <1>3 DEF SourceFile, Extension
  <2>2. NativeFile("ASM") = <<"", ".s">>
    BY DEF NativeFile
  <2>3. QED
    BY <2>1, <2>2 DEF Files, LowLevel
<1>4. QED
  BY <1>1, <1>2, <1>3

(* Writing a half of a file keeps the contents typed.                      *)
LEMMA WriteTyped ==
  ASSUME files \in [Files -> Contents], NEW f, NEW t \in Names
  PROVE  /\ WriteHead(f, t) => files' \in [Files -> Contents]
         /\ WriteTail(f, t) => files' \in [Files -> Contents]
<1>1. <<t, None>> \in Contents
  BY DEF Contents
<1>2. ASSUME WriteHead(f, t) PROVE files' \in [Files -> Contents]
  BY <1>1, <1>2 DEF WriteHead
<1>3. ASSUME WriteTail(f, t) PROVE files' \in [Files -> Contents]
  <2>1. ASSUME f \in Files PROVE [files[f] EXCEPT ![2] = t] \in Contents
    <3>1. files[f] \in Contents
      BY <2>1
    <3>2. QED
      BY <3>1 DEF Contents
  <2>2. files' = [files EXCEPT ![f] = [files[f] EXCEPT ![2] = t]]
    BY <1>3 DEF WriteTail
  <2>3. QED
    BY <2>1, <2>2
<1>4. QED
  BY <1>2, <1>3

(* No step of compileOne changes the shape of the files or of what the     *)
(* toolchains were given.                                                  *)
LEMMA WorkTypeStep ==
  ASSUME files \in [Files -> Contents], read \in [Names -> Contents],
         PoolInv, NEW w \in Workers, CompileOne(w)
  PROVE  files' \in [Files -> Contents] /\ read' \in [Names -> Contents]
<1>1. Target(w) \in Names /\ Language(Target(w)) \in Names
  <2>1. doing[w] = "compile"
    BY CompileOneStep DEF PoolInv, Compiling
  <2>2. job[w] \in 1..Len(Backends)
    BY <2>1, CountTyped DEF PoolInv, PoolTypeOK, N
  <2>3. Target(w) \in Names
    BY <2>2, BackendsAssumption DEF Target
  <2>4. QED
    BY <2>3 DEF Language, Names
<1>2. \A t \in Names : Text(t) \in Contents
  BY DEF Text, Contents
<1>3. Missing \in Contents
  BY DEF Missing, Contents
<1>4. CASE Front(w)
  BY <1>4 DEF Front
<1>5. CASE WriteLir(w)
  BY <1>1, <1>5, WriteTyped DEF WriteLir
<1>6. CASE Check(w)
  BY <1>6 DEF Check
<1>7. CASE EmitNative(w)
  BY <1>1, <1>7, WriteTyped DEF EmitNative
<1>8. CASE EmitText(w)
  BY <1>1, <1>8, WriteTyped DEF EmitText
<1>9. CASE RunToolchain(w)
  <2>1. files[SourceFile(Target(w))] \in Contents
    BY <1>1, SourceIsFile
  <2>2. Text(Target(w)) \in Contents
    BY <1>1, <1>2
  <2>3. QED
    BY <1>9, <2>1, <2>2 DEF RunToolchain
<1>10. CASE WriteHeader(w)
  <2>1. Text("LIB") \in Contents
    BY <1>2 DEF Names
  <2>2. QED
    BY <1>10, <2>1 DEF WriteHeader
<1>11. CASE Tidy(w)
  BY <1>3, <1>11 DEF Tidy
<1>12. QED
  BY <1>4, <1>5, <1>6, <1>7, <1>8, <1>9, <1>10, <1>11 DEF CompileOne

(* Every variable keeps its shape, for any list of backends, any number of *)
(* threads and either host.                                                *)
THEOREM TypeCorrect == Spec => []TypeOK
<1>1. Init => TypeOK
  <2> SUFFICES ASSUME Init PROVE TypeOK
    OBVIOUS
  <2>1. PoolTypeOK
    BY CountTyped DEF Init, PoolTypeOK, Stages
  <2>2. Missing \in Contents
    BY DEF Missing, Contents
  <2>3. QED
    BY <2>1, <2>2 DEF Init, TypeOK
<1>2. PoolInv /\ TypeOK /\ [Next]_vars => TypeOK'
  <2>1. ASSUME PoolInv, TypeOK, Join PROVE TypeOK'
    BY <2>1, PoolTypeStep DEF Join, TypeOK, workVars, Next
  <2>2. ASSUME PoolInv, TypeOK, NEW w \in Workers, Worker(w) PROVE TypeOK'
    <3>1. PoolTypeOK'
      BY <2>2, PoolTypeStep DEF Next
    <3>2. UNCHANGED prog
      BY <2>2 DEF Worker, Claim, Leave, Finish, CompileOne
    <3>3. files' \in [Files -> Contents] /\ read' \in [Names -> Contents]
      <4>1. CASE CompileOne(w)
        BY <2>2, <4>1, WorkTypeStep DEF TypeOK
      <4>2. CASE Claim(w) \/ Leave(w) \/ Finish(w)
        BY <2>2, <4>2 DEF Claim, Leave, Finish, TypeOK, workVars
      <4>3. QED
        BY <2>2, <4>1, <4>2 DEF Worker
    <3>4. QED
      BY <2>2, <3>1, <3>2, <3>3 DEF TypeOK
  <2>3. ASSUME TypeOK, UNCHANGED vars PROVE TypeOK'
    BY <2>3 DEF TypeOK, PoolTypeOK, vars, poolVars, workVars
  <2>4. QED
    BY <2>1, <2>2, <2>3 DEF Next
<1>3. QED
  BY <1>1, <1>2, PoolInvariance, PTL DEF Spec
-----------------------------------------------------------------------------
(* The files.                                                              *)

(* A backend goes through a text unless its code is written directly; BNY  *)
(* does so on an ARM host, when its own code generator refused.            *)
ByText(b) == b \notin Native \/ (b = "BNY" /\ HostIsArm)

(* The files that compileOne writes for a backend, the shared .lir apart.  *)
Writes(b) ==
  (IF b \in Native THEN {NativeFile(b)} ELSE {})
    \cup (IF ByText(b) THEN {SourceFile(b)} ELSE {})
    \cup (IF ByText(b) /\ b \in Toolchain THEN {BinaryFile(b)} ELSE {})
    \cup (IF b = "LIB" THEN {HeaderFile} ELSE {})

(* No other backend of the list writes the file.                           *)
Own(i, f) == \A j \in 1..N : j # i => f \notin Writes(Backends[j])

(* No other backend of the list writes a file of backend i.                *)
Lone(i) == \A f \in Writes(Backends[i]) : Own(i, f)

(* The text that the toolchain of backend i reads is its own.              *)
TextOwn(i) ==
  ByText(Backends[i]) /\ Backends[i] \in Toolchain => Own(i, SourceFile(Backends[i]))

(* Each stage of compileOne is on the way of its backend.                  *)
OnTheWay ==
  \A w \in Workers :
    /\ stage[w] \in {"native", "nativeTail"} => Target(w) \in Native
    /\ stage[w] \in {"text", "textTail", "toolchain"} => ByText(Target(w))
    /\ stage[w] = "toolchain" => Target(w) \in Toolchain
    /\ stage[w] = "header" => Target(w) = "LIB"
    /\ stage[w] = "tidy" => Target(w) = "BNY" /\ HostIsArm

(* What a thread wrote to a text of its own is still there, a backend with *)
(* such a text fails for a reason of its own, and its toolchain read it.   *)
TextsKept ==
  /\ \A w \in Workers : doing[w] = "compile" /\ Own(job[w], SourceFile(Target(w))) =>
       /\ stage[w] = "textTail" =>
            files[SourceFile(Target(w))] = <<Language(Target(w)), None>>
       /\ stage[w] = "toolchain" =>
            files[SourceFile(Target(w))] = Text(Language(Target(w)))
  /\ \A w \in Workers :
       stage[w] = "bad" /\ TextOwn(job[w]) => OwnFault(Target(w))
  /\ \A b \in Names :
       (\A i \in 1..N : Backends[i] = b => TextOwn(i))
         => read[b] \in {Missing, Text(Language(b))}

(* A backend that shares no file has what was promised of it as soon as it *)
(* is done.                                                                *)
OutputsKept ==
  /\ \A w \in Workers : doing[w] = "compile" /\ Lone(job[w]) =>
       /\ stage[w] = "nativeTail" =>
            files[NativeFile(Target(w))] = <<Target(w), None>>
       /\ stage[w] \in {"header", "tidy"} =>
            files[BinaryFile(Target(w))] = Text(Target(w))
       /\ stage[w] = "good" => files[Deliverable(Target(w))] = Text(Target(w))
  /\ fail = 0 => \A i \in 1..N : i < next /\ i \notin Running /\ Lone(i) =>
       files[Deliverable(Backends[i])] = Text(Backends[i])
  /\ exit = 0 => fail = 0

FileInv == TypeOK /\ PoolInv /\ OnTheWay /\ TextsKept /\ OutputsKept

-----------------------------------------------------------------------------
(* The names of a backend's files differ and none is the shared .lir.      *)
LEMMA NamesDiffer ==
  ASSUME NEW b \in Names
  PROVE  /\ b \in Toolchain => SourceFile(b) # BinaryFile(b)
         /\ SourceFile(b) # LirFile /\ SourceFile(b) # HeaderFile
         /\ b \in Native => NativeFile(b) # LirFile /\ NativeFile(b) # HeaderFile
         /\ b \in Toolchain => BinaryFile(b) # LirFile /\ BinaryFile(b) # HeaderFile
         /\ HeaderFile # LirFile
         /\ BinaryFile("BNY") = NativeFile("BNY")
BY DEF Names, Toolchain, SourceFile, BinaryFile, NativeFile, Extension, LirFile,
       HeaderFile, Native

(* The files a backend writes are files of the model.                      *)
LEMMA WritesAreFiles ==
  ASSUME NEW b \in Names
  PROVE  /\ Writes(b) \subseteq Files
         /\ b \in Native => NativeFile(b) \in Files
         /\ b \in Toolchain => BinaryFile(b) \in Files
         /\ HeaderFile \in Files /\ LirFile \in Files
<1>1. b \in Native => NativeFile(b) \in Files
  BY DEF Native, Files, LowLevel
<1>2. b \in Toolchain => BinaryFile(b) \in Files
  BY DEF Files
<1>3. HeaderFile \in Files /\ LirFile \in Files
  BY DEF Files
<1>4. QED
  BY <1>1, <1>2, <1>3, SourceIsFile DEF Writes

(* What the user wants of a backend is among the files it writes.          *)
LEMMA DeliverableWritten ==
  ASSUME NEW b \in Names
  PROVE  Deliverable(b) \in Writes(b)
BY DEF Deliverable, Writes, ByText

(* The host does not change, and neither does who writes what.             *)
LEMMA SameWriters ==
  ASSUME prog' = prog
  PROVE  /\ \A b : Writes(b)' = Writes(b) /\ (ByText(b)' <=> ByText(b))
         /\ \A b : Deliverable(b)' = Deliverable(b)
         /\ \A b : OwnFault(b)' <=> OwnFault(b)
         /\ \A i, f : Own(i, f)' <=> Own(i, f)
         /\ \A i : (Lone(i)' <=> Lone(i)) /\ (TextOwn(i)' <=> TextOwn(i))
         /\ Native' = Native /\ (HostIsArm' <=> HostIsArm)
<1>1. Native' = Native /\ (HostIsArm' <=> HostIsArm)
  BY DEF Native, HostIsArm
<1>2. \A b : Writes(b)' = Writes(b) /\ (ByText(b)' <=> ByText(b))
  BY <1>1 DEF Writes, ByText
<1>3. \A b : Deliverable(b)' = Deliverable(b)
  BY <1>1 DEF Deliverable
<1>4. \A b : OwnFault(b)' <=> OwnFault(b)
  BY DEF OwnFault, Refused
<1>5. \A i, f : Own(i, f)' <=> Own(i, f)
  BY <1>2 DEF Own
<1>6. \A i : (Lone(i)' <=> Lone(i)) /\ (TextOwn(i)' <=> TextOwn(i))
  BY <1>2, <1>5 DEF Lone, TextOwn
<1>7. QED
  BY <1>1, <1>2, <1>3, <1>4, <1>5, <1>6

(* A thread that compiles has a backend of the list.                       *)
LEMMA TargetTyped ==
  ASSUME PoolInv, NEW w \in Workers, doing[w] = "compile"
  PROVE  /\ job[w] \in 1..N /\ Target(w) \in Names
         /\ Target(w) = Backends[job[w]] /\ Language(Target(w)) \in Names
<1>1. job[w] \in 1..Len(Backends)
  BY CountTyped DEF PoolInv, PoolTypeOK, N
<1>2. Target(w) \in Names
  BY <1>1, BackendsAssumption DEF Target
<1>3. QED
  BY <1>1, <1>2 DEF Target, Language, Names, N

(* The program never changes.                                              *)
LEMMA ProgramFixed ==
  ASSUME Next
  PROVE  prog' = prog
BY DEF Next, Join, Worker, Claim, Leave, Finish, CompileOne

(* compileOne of a backend leaves the files alone that are not its own.    *)
LEMMA OthersFiles ==
  ASSUME PoolInv, OnTheWay, files \in [Files -> Contents],
         NEW w \in Workers, CompileOne(w),
         NEW f \in Files, f \notin Writes(Target(w)), f # LirFile
  PROVE  files'[f] = files[f]
<1>0. doing[w] = "compile"
  BY CompileOneStep DEF PoolInv, Compiling
<1>1. Target(w) \in Names
  BY <1>0, TargetTyped
<1>2. CASE Front(w)
  BY <1>2 DEF Front
<1>3. CASE WriteLir(w)
  BY <1>3 DEF WriteLir, WriteHead, WriteTail
<1>4. CASE Check(w)
  BY <1>4 DEF Check
<1>5. CASE EmitNative(w)
  <2>1. files' = files \/ f # NativeFile(Target(w))
    BY <1>5 DEF EmitNative, OnTheWay, Writes
  <2>2. QED
    BY <1>5, <2>1 DEF EmitNative, WriteHead, WriteTail
<1>6. CASE EmitText(w)
  <2>1. f # SourceFile(Target(w))
    BY <1>6 DEF EmitText, OnTheWay, Writes
  <2>2. QED
    BY <1>6, <2>1 DEF EmitText, WriteHead, WriteTail
<1>7. CASE RunToolchain(w)
  <2>1. f # BinaryFile(Target(w))
    BY <1>7 DEF RunToolchain, OnTheWay, Writes
  <2>2. QED
    BY <1>7, <2>1 DEF RunToolchain
<1>8. CASE WriteHeader(w)
  <2>1. f # HeaderFile
    BY <1>8 DEF WriteHeader, OnTheWay, Writes
  <2>2. QED
    BY <1>8, <2>1 DEF WriteHeader
<1>9. CASE Tidy(w)
  <2>1. f # SourceFile(Target(w))
    BY <1>9 DEF Tidy, OnTheWay, Writes, ByText
  <2>2. QED
    BY <1>9, <2>1 DEF Tidy
<1>10. QED
  BY <1>2, <1>3, <1>4, <1>5, <1>6, <1>7, <1>8, <1>9 DEF CompileOne

(* The file of a backend that no other one writes survives what the other  *)
(* threads do.                                                             *)
LEMMA OwnSurvives ==
  ASSUME PoolInv, OnTheWay, files \in [Files -> Contents],
         NEW w \in Workers, CompileOne(w),
         NEW i \in 1..N, i # job[w],
         NEW f \in Files, Own(i, f), f # LirFile
  PROVE  files'[f] = files[f]
<1>1. doing[w] = "compile"
  BY CompileOneStep DEF PoolInv, Compiling
<1>2. f \notin Writes(Target(w))
  BY <1>1, TargetTyped DEF Own
<1>3. QED
  BY <1>2, OthersFiles

(* Each stage leads to one on the way of the same backend.                 *)
LEMMA WayStep ==
  ASSUME PoolInv, OnTheWay, Next
  PROVE  OnTheWay'
<1>0. prog' = prog
  BY ProgramFixed
<1>1. CASE Join
  BY <1>0, <1>1, SameWriters DEF Join, OnTheWay, workVars, Target
<1>2. ASSUME NEW w \in Workers, Worker(w) PROVE OnTheWay'
  <2>1. CASE Claim(w)
    <3>1. \A v \in Workers : stage'[v] = "front" \/ (stage'[v] = stage[v] /\ job'[v] = job[v])
      BY <2>1 DEF Claim, PoolInv, PoolTypeOK
    <3>2. QED
      BY <1>0, <3>1, SameWriters DEF OnTheWay, Target
  <2>2. CASE Leave(w)
    BY <1>0, <2>2, SameWriters DEF Leave, OnTheWay, workVars, Target
  <2>3. CASE Finish(w)
    <3>1. \A v \in Workers : stage'[v] = "idle" \/ (stage'[v] = stage[v] /\ job'[v] = job[v])
      BY <2>3 DEF Finish, PoolInv, PoolTypeOK
    <3>2. QED
      BY <1>0, <3>1, SameWriters DEF OnTheWay, Target
  <2>4. CASE CompileOne(w)
    <3>0. \A v \in Workers : Target(v)' = Target(v) /\ (v # w => stage'[v] = stage[v])
      BY <2>4, CompileOneStep DEF Compiling, poolVars, Target, PoolInv, PoolTypeOK
    <3>1. stage \in [Workers -> Stages]
      BY DEF PoolInv, PoolTypeOK
    <3>2. /\ stage'[w] \in {"native", "nativeTail"} => Target(w) \in Native
          /\ stage'[w] \in {"text", "textTail", "toolchain"} => ByText(Target(w))
          /\ stage'[w] = "toolchain" => Target(w) \in Toolchain
          /\ stage'[w] = "header" => Target(w) = "LIB"
          /\ stage'[w] = "tidy" => Target(w) = "BNY" /\ HostIsArm
      <4>1. CASE Front(w)
        BY <4>1, <3>1 DEF Front, Goto
      <4>2. CASE WriteLir(w)
        BY <4>2, <3>1 DEF WriteLir, Goto
      <4>3. CASE Check(w)
        BY <4>3, <3>1 DEF Check, Goto, ByText
      <4>4. CASE EmitNative(w)
        BY <4>4, <3>1 DEF EmitNative, Goto, OnTheWay, ByText
      <4>5. CASE EmitText(w)
        BY <4>5, <3>1 DEF EmitText, Goto, OnTheWay
      <4>6. CASE RunToolchain(w)
        <5>1. AfterToolchain(Target(w)) = IF Target(w) = "BNY" THEN "tidy"
                ELSE IF Target(w) = "LIB" THEN "header" ELSE "good"
          BY DEF AfterToolchain
        <5>2. Target(w) = "BNY" => HostIsArm
          BY <4>6 DEF RunToolchain, OnTheWay, ByText, Native
        <5>3. QED
          BY <4>6, <3>1, <5>1, <5>2 DEF RunToolchain, Goto
      <4>7. CASE WriteHeader(w)
        BY <4>7, <3>1 DEF WriteHeader, Goto
      <4>8. CASE Tidy(w)
        BY <4>8, <3>1 DEF Tidy, Goto
      <4>9. QED
        BY <2>4, <4>1, <4>2, <4>3, <4>4, <4>5, <4>6, <4>7, <4>8 DEF CompileOne
    <3>3. QED
      BY <1>0, <3>0, <3>2, SameWriters DEF OnTheWay
  <2>5. QED
    BY <1>2, <2>1, <2>2, <2>3, <2>4 DEF Worker
<1>3. QED
  BY <1>1, <1>2 DEF Next

(* What compileOne of a thread writes to its own text, gives to its        *)
(* toolchain and fails for.                                                *)
LEMMA OwnTextStep ==
  ASSUME TypeOK, PoolInv, OnTheWay, TextsKept, NEW w \in Workers, CompileOne(w)
  PROVE  LET b == Target(w) IN
         /\ Own(job[w], SourceFile(b)) =>
              /\ stage'[w] = "textTail" =>
                   files'[SourceFile(b)] = <<Language(b), None>>
              /\ stage'[w] = "toolchain" =>
                   files'[SourceFile(b)] = Text(Language(b))
         /\ stage'[w] = "bad" /\ TextOwn(job[w]) => OwnFault(b)
         /\ TextOwn(job[w]) /\ read[b] \in {Missing, Text(Language(b))}
              => read'[b] \in {Missing, Text(Language(b))}
<1> DEFINE b == Target(w)
<1>0. /\ doing[w] = "compile" /\ job[w] \in 1..N /\ b \in Names
      /\ b = Backends[job[w]] /\ Language(b) \in Names
  <2>1. doing[w] = "compile"
    BY CompileOneStep DEF Compiling, PoolInv
  <2>2. QED
    BY <2>1, TargetTyped
<1>1. /\ stage \in [Workers -> Stages] /\ read \in [Names -> Contents]
      /\ files \in [Files -> Contents] /\ SourceFile(b) \in Files
  BY <1>0, SourceIsFile DEF TypeOK, PoolTypeOK
<1>2. None \notin Names
  BY FlagsAssumption
<1>3. CASE Front(w)
  <2>1. stage'[w] \in {"bad", "lir", "check"} /\ UNCHANGED <<files, read>>
    BY <1>1, <1>3 DEF Front, Goto
  <2>2. stage'[w] = "bad" => OwnFault(b)
    BY <1>1, <1>3 DEF Front, Goto, OwnFault
  <2>3. QED
    BY <2>1, <2>2
<1>4. CASE WriteLir(w)
  <2>1. stage'[w] \in {"lirTail", "check"} /\ UNCHANGED read
    BY <1>1, <1>4 DEF WriteLir, Goto
  <2>2. QED
    BY <2>1
<1>5. CASE Check(w)
  <2>1. stage'[w] \in {"bad", "native", "text"} /\ UNCHANGED <<files, read>>
    BY <1>1, <1>5 DEF Check, Goto
  <2>2. stage'[w] = "bad" => OwnFault(b)
    BY <1>1, <1>5 DEF Check, Goto, OwnFault
  <2>3. QED
    BY <2>1, <2>2
<1>6. CASE EmitNative(w)
  <2>1. stage'[w] \in {"bad", "text", "nativeTail", "good"} /\ UNCHANGED read
    BY <1>1, <1>6 DEF EmitNative, Goto
  <2>2. stage'[w] = "bad" => OwnFault(b)
    BY <1>1, <1>6 DEF EmitNative, Goto, OwnFault
  <2>3. QED
    BY <2>1, <2>2
<1>7. CASE EmitText(w)
  <2>1. stage'[w] \in {"bad", "textTail", "toolchain", "good"} /\ UNCHANGED read
    BY <1>1, <1>7 DEF EmitText, Goto
  <2>2. stage'[w] = "bad" => OwnFault(b)
    BY <1>1, <1>7 DEF EmitText, Goto, OwnFault
  <2>3. stage'[w] = "textTail" => files'[SourceFile(b)] = <<Language(b), None>>
    BY <1>1, <1>7 DEF EmitText, Goto, WriteHead
  <2>4. ASSUME stage'[w] = "toolchain", Own(job[w], SourceFile(b))
        PROVE  files'[SourceFile(b)] = Text(Language(b))
    <3>1. stage[w] = "textTail" /\ WriteTail(SourceFile(b), Language(b))
      BY <1>1, <1>7, <2>4 DEF EmitText, Goto
    <3>2. files[SourceFile(b)] = <<Language(b), None>>
      BY <1>0, <2>4, <3>1 DEF TextsKept
    <3>3. QED
      BY <1>1, <3>1, <3>2 DEF WriteTail, Text
  <2>5. QED
    BY <2>1, <2>2, <2>3, <2>4
<1>8. CASE RunToolchain(w)
  <2>1. stage'[w] \in {"bad", "tidy", "header", "good"}
    <3>1. AfterToolchain(b) \in {"tidy", "header", "good"}
      BY DEF AfterToolchain
    <3>2. QED
      BY <1>1, <1>8, <3>1 DEF RunToolchain, Goto
  <2>2. ASSUME TextOwn(job[w]) PROVE files[SourceFile(b)] = Text(Language(b))
    <3>1. Own(job[w], SourceFile(b))
      BY <1>0, <1>8, <2>2 DEF TextOwn, RunToolchain, OnTheWay
    <3>2. QED
      BY <1>0, <1>8, <3>1 DEF RunToolchain, TextsKept
  <2>3. Whole(Text(Language(b)))
    BY <1>0, <1>2 DEF Whole, Text, Missing
  <2>4. stage'[w] = "bad" /\ TextOwn(job[w]) => OwnFault(b)
    <3>1. stage'[w] = "bad" => b \in MayFail \/ ~Whole(files[SourceFile(b)])
      <4>1. AfterToolchain(b) # "bad"
        BY DEF AfterToolchain
      <4>2. QED
        BY <1>1, <1>8, <4>1 DEF RunToolchain, Goto
    <3>2. QED
      BY <2>2, <2>3, <3>1 DEF OwnFault
  <2>5. read'[b] = files[SourceFile(b)]
    BY <1>0, <1>1, <1>8 DEF RunToolchain
  <2>6. QED
    BY <2>1, <2>2, <2>4, <2>5
<1>9. CASE WriteHeader(w) \/ Tidy(w)
  <2>1. stage'[w] = "good" /\ UNCHANGED read
    BY <1>1, <1>9 DEF WriteHeader, Tidy, Goto
  <2>2. QED
    BY <2>1
<1>10. QED
  BY <1>3, <1>4, <1>5, <1>6, <1>7, <1>8, <1>9 DEF CompileOne

(* A step keeps the texts of the threads, their faults and what the        *)
(* toolchains read.                                                        *)
LEMMA TextsStep ==
  ASSUME TypeOK, PoolInv, OnTheWay, TextsKept, Next
  PROVE  TextsKept'
<1>0. prog' = prog
  BY ProgramFixed
<1>1. ASSUME UNCHANGED <<files, read>>,
             \A v \in Workers :
               \/ stage'[v] \in {"idle", "front"}
               \/ /\ stage'[v] = stage[v] /\ job'[v] = job[v]
                  /\ doing'[v] = "compile" => doing[v] = "compile"
      PROVE  TextsKept'
  <2>1. \A v \in Workers : stage'[v] \in {"textTail", "toolchain", "bad"} =>
          /\ Target(v)' = Target(v) /\ job'[v] = job[v] /\ stage'[v] = stage[v]
          /\ doing'[v] = "compile" => doing[v] = "compile"
    BY <1>1 DEF Target
  <2>2. QED
    BY <1>0, <1>1, <2>1, SameWriters DEF TextsKept
<1>2. CASE Join
  BY <1>1, <1>2 DEF Join, workVars
<1>3. ASSUME NEW w \in Workers, Worker(w) PROVE TextsKept'
  <2>1. CASE Claim(w)
    BY <1>1, <2>1 DEF Claim, PoolInv, PoolTypeOK
  <2>2. CASE Leave(w)
    BY <1>1, <2>2 DEF Leave, workVars, PoolInv, PoolTypeOK
  <2>3. CASE Finish(w)
    BY <1>1, <2>3 DEF Finish, PoolInv, PoolTypeOK
  <2>4. CASE CompileOne(w)
    <3>0. /\ \A v \in Workers : Target(v)' = Target(v) /\ (v # w => stage'[v] = stage[v])
          /\ job' = job /\ doing' = doing /\ doing[w] = "compile"
      BY <2>4, CompileOneStep DEF Compiling, poolVars, Target, PoolInv, PoolTypeOK
    <3>1. files \in [Files -> Contents]
      BY DEF TypeOK
    <3>2. \A v \in Workers : doing'[v] = "compile" /\ Own(job[v], SourceFile(Target(v))) =>
            /\ stage'[v] = "textTail" =>
                 files'[SourceFile(Target(v))] = <<Language(Target(v)), None>>
            /\ stage'[v] = "toolchain" =>
                 files'[SourceFile(Target(v))] = Text(Language(Target(v)))
      <4> TAKE v \in Workers
      <4>1. CASE v = w
        BY <2>4, <4>1, OwnTextStep
      <4>2. ASSUME v # w, doing[v] = "compile", Own(job[v], SourceFile(Target(v)))
            PROVE  files'[SourceFile(Target(v))] = files[SourceFile(Target(v))]
        <5>1. job[v] \in 1..N /\ Target(v) \in Names
          BY <4>2, TargetTyped
        <5>2. job[v] # job[w]
          BY <4>2, <5>1, CountTyped DEF PoolInv, ClaimedOnce
        <5>3. SourceFile(Target(v)) \in Files /\ SourceFile(Target(v)) # LirFile
          BY <5>1, SourceIsFile, NamesDiffer
        <5>4. QED
          BY <2>4, <3>1, <4>2, <5>1, <5>2, <5>3, OwnSurvives
      <4>3. QED
        BY <3>0, <4>1, <4>2 DEF TextsKept
    <3>3. \A v \in Workers : stage'[v] = "bad" /\ TextOwn(job[v]) => OwnFault(Target(v))
      BY <2>4, <3>0, OwnTextStep DEF TextsKept
    <3>4. \A b \in Names : (\A i \in 1..N : Backends[i] = b => TextOwn(i))
            => read'[b] \in {Missing, Text(Language(b))}
      <4> SUFFICES ASSUME NEW b \in Names, \A i \in 1..N : Backends[i] = b => TextOwn(i)
                   PROVE  read'[b] \in {Missing, Text(Language(b))}
        OBVIOUS
      <4>1. read[b] \in {Missing, Text(Language(b))}
        BY DEF TextsKept
      <4>2. CASE b = Target(w)
        <5>1. TextOwn(job[w])
          BY <3>0, <4>2, TargetTyped
        <5>2. QED
          BY <2>4, <4>1, <4>2, <5>1, OwnTextStep
      <4>3. CASE b # Target(w)
        <5>1. read'[b] = read[b]
          BY <2>4, <4>3 DEF CompileOne, Front, WriteLir, Check, EmitNative, EmitText,
             RunToolchain, WriteHeader, Tidy, TypeOK
        <5>2. QED
          BY <4>1, <5>1
      <4>4. QED
        BY <4>2, <4>3
    <3>5. QED
      BY <1>0, <3>0, <3>2, <3>3, <3>4, SameWriters DEF TextsKept
  <2>5. QED
    BY <1>3, <2>1, <2>2, <2>3, <2>4 DEF Worker
<1>4. QED
  BY <1>2, <1>3 DEF Next

(* A backend that writes a file of its own writes it in whole before it is *)
(* done.                                                                   *)
LEMMA OwnOutputStep ==
  ASSUME TypeOK, PoolInv, OnTheWay, TextsKept, OutputsKept,
         NEW w \in Workers, CompileOne(w), Lone(job[w])
  PROVE  LET b == Target(w) IN
         /\ stage'[w] = "nativeTail" => files'[NativeFile(b)] = <<b, None>>
         /\ stage'[w] \in {"header", "tidy"} => files'[BinaryFile(b)] = Text(b)
         /\ stage'[w] = "good" => files'[Deliverable(b)] = Text(b)
<1> DEFINE b == Target(w)
<1>0. doing[w] = "compile" /\ job[w] \in 1..N /\ b \in Names /\ b = Backends[job[w]]
  <2>1. doing[w] = "compile"
    BY CompileOneStep DEF Compiling, PoolInv
  <2>2. QED
    BY <2>1, TargetTyped
<1>1. /\ stage \in [Workers -> Stages] /\ files \in [Files -> Contents]
      /\ SourceFile(b) \in Files /\ HeaderFile \in Files
      /\ b \in Native => NativeFile(b) \in Files
      /\ b \in Toolchain => BinaryFile(b) \in Files
  BY <1>0, SourceIsFile, WritesAreFiles DEF TypeOK, PoolTypeOK
<1>2. CASE Front(w) \/ WriteLir(w) \/ Check(w)
  <2>1. stage'[w] \in {"bad", "lir", "check", "lirTail", "native", "text"}
    BY <1>1, <1>2 DEF Front, WriteLir, Check, Goto
  <2>2. QED
    BY <2>1
<1>3. CASE EmitNative(w)
  <2>1. CASE stage[w] = "native"
    <3>1. stage'[w] \in {"bad", "text", "nativeTail"}
      BY <1>1, <1>3, <2>1 DEF EmitNative, Goto
    <3>2. b \in Native
      BY <2>1 DEF OnTheWay
    <3>3. stage'[w] = "nativeTail" => files'[NativeFile(b)] = <<b, None>>
      BY <1>1, <1>3, <2>1, <3>2 DEF EmitNative, Goto, WriteHead
    <3>4. QED
      BY <3>1, <3>3
  <2>2. CASE stage[w] = "nativeTail"
    <3>1. stage'[w] = "good" /\ WriteTail(NativeFile(b), b)
      BY <1>1, <1>3, <2>2 DEF EmitNative, Goto
    <3>2. b \in Native /\ Deliverable(b) = NativeFile(b)
      BY <2>2 DEF OnTheWay, Deliverable
    <3>3. files[NativeFile(b)] = <<b, None>>
      BY <1>0, <2>2 DEF OutputsKept
    <3>4. files'[NativeFile(b)] = Text(b)
      BY <1>1, <3>1, <3>2, <3>3 DEF WriteTail, Text
    <3>5. QED
      BY <3>1, <3>2, <3>4
  <2>3. QED
    BY <1>3, <2>1, <2>2 DEF EmitNative
<1>4. CASE EmitText(w)
  <2>1. CASE stage[w] = "text"
    <3>1. stage'[w] \in {"bad", "textTail"}
      BY <1>1, <1>4, <2>1 DEF EmitText, Goto
    <3>2. QED
      BY <3>1
  <2>2. CASE stage[w] = "textTail"
    <3>1. stage'[w] \in {"toolchain", "good"} /\ WriteTail(SourceFile(b), Language(b))
      BY <1>1, <1>4, <2>2 DEF EmitText, Goto
    <3>2. ASSUME stage'[w] = "good" PROVE files'[Deliverable(b)] = Text(b)
      <4>1. b \notin Toolchain
        BY <1>1, <1>4, <2>2, <3>2 DEF EmitText, Goto
      <4>2. b # "BNY" /\ ByText(b)
        BY <2>2, <4>1 DEF Toolchain, OnTheWay
      <4>3. Deliverable(b) = SourceFile(b) /\ Language(b) = b
        BY <4>1, <4>2 DEF Deliverable, Language, ByText
      <4>4. Own(job[w], SourceFile(b))
        BY <1>0, <4>2 DEF Lone, Writes
      <4>5. files[SourceFile(b)] = <<b, None>>
        BY <1>0, <2>2, <4>3, <4>4 DEF TextsKept
      <4>6. QED
        BY <1>1, <3>1, <4>3, <4>5 DEF WriteTail, Text
    <3>3. QED
      BY <3>1, <3>2
  <2>3. QED
    BY <1>4, <2>1, <2>2 DEF EmitText
<1>5. CASE RunToolchain(w)
  <2>1. stage[w] = "toolchain" /\ b \in Toolchain /\ ByText(b)
    BY <1>5 DEF RunToolchain, OnTheWay
  <2>2. Own(job[w], SourceFile(b))
    BY <1>0, <2>1 DEF Lone, Writes
  <2>3. files[SourceFile(b)] = Text(Language(b))
    BY <1>0, <2>1, <2>2 DEF TextsKept
  <2>4. AfterToolchain(b) \in {"tidy", "header", "good"}
    BY DEF AfterToolchain
  <2>5. \/ stage'[w] = "bad"
        \/ stage'[w] = AfterToolchain(b) /\ files' = [files EXCEPT ![BinaryFile(b)] = Text(b)]
    BY <1>1, <1>5, <2>3 DEF RunToolchain, Goto
  <2>6. stage'[w] # "bad" => files'[BinaryFile(b)] = Text(b)
    BY <1>1, <2>1, <2>5
  <2>7. ASSUME stage'[w] = "good" PROVE Deliverable(b) = BinaryFile(b)
    <3>1. b # "BNY"
      BY <2>5, <2>7 DEF AfterToolchain
    <3>2. b \notin Native
      BY <2>1, <3>1 DEF ByText
    <3>3. QED
      BY <2>1, <3>2 DEF Deliverable
  <2>8. QED
    BY <2>4, <2>5, <2>6, <2>7
<1>6. CASE WriteHeader(w)
  <2>1. b = "LIB" /\ stage'[w] = "good"
    BY <1>1, <1>6 DEF WriteHeader, OnTheWay, Goto
  <2>2. files[BinaryFile(b)] = Text(b)
    BY <1>0, <1>6 DEF WriteHeader, OutputsKept
  <2>3. Deliverable(b) = BinaryFile(b) /\ BinaryFile(b) # HeaderFile
    BY <1>0, <2>1, NamesDiffer DEF Deliverable, Native, Toolchain
  <2>4. files'[BinaryFile(b)] = files[BinaryFile(b)]
    BY <1>1, <1>6, <2>1, <2>3 DEF WriteHeader, Toolchain
  <2>5. QED
    BY <2>1, <2>2, <2>3, <2>4
<1>7. CASE Tidy(w)
  <2>1. b = "BNY" /\ stage'[w] = "good"
    BY <1>1, <1>7 DEF Tidy, OnTheWay, Goto
  <2>2. files[BinaryFile(b)] = Text(b)
    BY <1>0, <1>7 DEF Tidy, OutputsKept
  <2>3. Deliverable(b) = BinaryFile(b) /\ BinaryFile(b) # SourceFile(b)
    BY <1>0, <2>1, NamesDiffer DEF Deliverable, Native, Toolchain
  <2>4. files'[BinaryFile(b)] = files[BinaryFile(b)]
    BY <1>1, <1>7, <2>1, <2>3 DEF Tidy, Toolchain
  <2>5. QED
    BY <2>1, <2>2, <2>3, <2>4
<1>8. QED
  BY <1>2, <1>3, <1>4, <1>5, <1>6, <1>7 DEF CompileOne

(* The files that a backend shares with none stay as another thread's      *)
(* compileOne goes on.                                                     *)
LEMMA LoneSurvives ==
  ASSUME TypeOK, PoolInv, OnTheWay, NEW w \in Workers, CompileOne(w),
         NEW i \in 1..N, i # job[w], Lone(i), NEW f \in Writes(Backends[i])
  PROVE  files'[f] = files[f]
<1>1. Backends[i] \in Names
  BY BackendsAssumption DEF N
<1>2. f \in Files /\ f # LirFile
  BY <1>1, WritesAreFiles, NamesDiffer DEF Writes
<1>3. Own(i, f) /\ files \in [Files -> Contents]
  BY DEF Lone, TypeOK
<1>4. QED
  BY <1>2, <1>3, OwnSurvives

(* A step keeps the outputs of the backends that share no file.            *)
LEMMA OutputsStep ==
  ASSUME TypeOK, PoolInv, OnTheWay, TextsKept, OutputsKept, Next
  PROVE  OutputsKept'
<1>0. prog' = prog /\ next \in Nat /\ fail \in Nat /\ N \in Nat
  BY ProgramFixed, CountTyped DEF PoolInv, PoolTypeOK
<1>1. CASE Join
  <2>1. UNCHANGED <<files, stage, job, doing, fail, next>> /\ (exit' = 0 => fail = 0)
    BY <1>0, <1>1 DEF Join, workVars
  <2>2. Running' = Running /\ \A v \in Workers : Target(v)' = Target(v)
    BY <2>1 DEF Running, Busy, Target
  <2>3. QED
    BY <1>0, <2>1, <2>2, SameWriters DEF OutputsKept
<1>2. ASSUME NEW w \in Workers, Worker(w) PROVE OutputsKept'
  <2>1. CASE Claim(w)
    <3>1. \A v \in Workers :
            \/ stage'[v] = "front"
            \/ /\ stage'[v] = stage[v] /\ job'[v] = job[v] /\ doing'[v] = doing[v]
               /\ Target(v)' = Target(v)
      BY <2>1 DEF Claim, PoolInv, PoolTypeOK, Target
    <3>2. UNCHANGED <<files, fail, exit>> /\ next' = next + 1
      BY <2>1 DEF Claim
    <3>3. \A i \in 1..N : i < next' /\ i \notin Running' => i < next /\ i \notin Running
      <4>1. Running' = Running \cup {next}
        <5>1. Busy' = Busy \cup {w} /\ w \notin Busy /\ w \in Workers /\ Busy \subseteq Workers
          BY <2>1, BusyStep, BusyFinite
        <5>2. \A v \in Workers : job'[v] = IF v = w THEN next ELSE job[v]
          BY <2>1 DEF Claim, PoolInv, PoolTypeOK
        <5>3. QED
          BY <5>1, <5>2 DEF Running
      <4>2. QED
        BY <1>0, <3>2, <4>1
    <3>4. QED
      BY <1>0, <3>1, <3>2, <3>3, SameWriters DEF OutputsKept
  <2>2. CASE Leave(w)
    <3>1. UNCHANGED <<files, fail, exit, stage, job>> /\ next' = next + 1 /\ next > N
      BY <2>2 DEF Leave, workVars
    <3>2. Running' = Running
      <4>1. Busy' = Busy
        BY <2>2, BusyStep
      <4>2. QED
        BY <3>1, <4>1 DEF Running
    <3>3. \A v \in Workers : Target(v)' = Target(v) /\ (doing'[v] = "compile" => doing[v] = "compile")
      BY <2>2 DEF Leave, PoolInv, PoolTypeOK, Target
    <3>4. \A i \in 1..N : i < next
      BY <1>0, <3>1
    <3>5. QED
      BY <1>0, <3>1, <3>2, <3>3, <3>4, SameWriters DEF OutputsKept
  <2>3. CASE Finish(w)
    <3>1. \A v \in Workers :
            \/ stage'[v] = "idle"
            \/ /\ stage'[v] = stage[v] /\ job'[v] = job[v] /\ doing'[v] = doing[v]
               /\ Target(v)' = Target(v)
      BY <2>3 DEF Finish, PoolInv, PoolTypeOK, Target
    <3>2. UNCHANGED <<files, exit, next>> /\ exit = -1 /\ doing[w] = "compile"
      BY <2>3 DEF Finish, PoolInv, LeaveLast
    <3>3. ASSUME fail' = 0, NEW i \in 1..N, i < next, i \notin Running', Lone(i)
          PROVE  files[Deliverable(Backends[i])] = Text(Backends[i])
      <4>1. stage[w] = "good" /\ fail = 0
        BY <1>0, <2>3, <3>3 DEF Finish
      <4>2. CASE i \in Running
        <5>1. i = job[w]
          <6>1. Busy' = Busy \ {w} /\ Busy \subseteq Workers
            BY <2>3, BusyStep, BusyFinite
          <6>2. \A v \in Workers : v # w => job'[v] = job[v]
            BY <2>3 DEF Finish, PoolInv, PoolTypeOK
          <6>3. QED
            BY <3>3, <4>2, <6>1, <6>2 DEF Running
        <5>2. QED
          BY <3>2, <3>3, <4>1, <5>1 DEF OutputsKept, Target
      <4>3. CASE i \notin Running
        BY <3>3, <4>1, <4>3 DEF OutputsKept
      <4>4. QED
        BY <4>2, <4>3
    <3>4. QED
      BY <1>0, <3>1, <3>2, <3>3, SameWriters DEF OutputsKept
  <2>4. CASE CompileOne(w)
    <3>0. /\ \A v \in Workers : Target(v)' = Target(v) /\ (v # w => stage'[v] = stage[v])
          /\ UNCHANGED <<job, doing, fail, exit, next>> /\ doing[w] = "compile"
          /\ Running' = Running
      BY <2>4, CompileOneStep
         DEF Compiling, poolVars, Target, PoolInv, PoolTypeOK, Running, Busy
    <3>1. \A v \in Workers : doing'[v] = "compile" /\ Lone(job[v]) =>
            /\ stage'[v] = "nativeTail" =>
                 files'[NativeFile(Target(v))] = <<Target(v), None>>
            /\ stage'[v] \in {"header", "tidy"} =>
                 files'[BinaryFile(Target(v))] = Text(Target(v))
            /\ stage'[v] = "good" => files'[Deliverable(Target(v))] = Text(Target(v))
      <4> SUFFICES ASSUME NEW v \in Workers, doing[v] = "compile", Lone(job[v])
          PROVE  /\ stage'[v] = "nativeTail" =>
                      files'[NativeFile(Target(v))] = <<Target(v), None>>
                 /\ stage'[v] \in {"header", "tidy"} =>
                      files'[BinaryFile(Target(v))] = Text(Target(v))
                 /\ stage'[v] = "good" => files'[Deliverable(Target(v))] = Text(Target(v))
        BY <3>0
      <4>1. CASE v = w
        BY <2>4, <4>1, OwnOutputStep
      <4>2. CASE v # w
        <5>1. job[v] \in 1..N /\ Target(v) \in Names /\ Target(v) = Backends[job[v]]
          BY TargetTyped
        <5>2. job[v] # job[w]
          BY <4>2, <5>1, CountTyped DEF PoolInv, ClaimedOnce
        <5>3. \A f \in Writes(Target(v)) : files'[f] = files[f]
          BY <2>4, <5>1, <5>2, LoneSurvives
        <5>4. stage[v] = "nativeTail" => NativeFile(Target(v)) \in Writes(Target(v))
          BY DEF OnTheWay, Writes
        <5>5. stage[v] \in {"header", "tidy"} => BinaryFile(Target(v)) \in Writes(Target(v))
          BY DEF OnTheWay, Writes, ByText, Native, Toolchain
        <5>6. Deliverable(Target(v)) \in Writes(Target(v))
          BY <5>1, DeliverableWritten
        <5>7. QED
          BY <3>0, <4>2, <5>3, <5>4, <5>5, <5>6 DEF OutputsKept
      <4>3. QED
        BY <4>1, <4>2
    <3>2. ASSUME fail = 0, NEW i \in 1..N, i < next, i \notin Running, Lone(i)
          PROVE  files'[Deliverable(Backends[i])] = Text(Backends[i])
      <4>1. i # job[w]
        BY <3>0, <3>2 DEF Running, Busy
      <4>2. Deliverable(Backends[i]) \in Writes(Backends[i])
        <5>1. Backends[i] \in Names
          BY BackendsAssumption DEF N
        <5>2. QED
          BY <5>1, DeliverableWritten
      <4>3. QED
        BY <2>4, <3>2, <4>1, <4>2, LoneSurvives DEF OutputsKept
    <3>3. QED
      BY <1>0, <3>0, <3>1, <3>2, SameWriters DEF OutputsKept
  <2>5. QED
    BY <1>2, <2>1, <2>2, <2>3, <2>4 DEF Worker
<1>3. QED
  BY <1>1, <1>2 DEF Next

(* The invariant of the files.                                             *)
LEMMA FileInvariance == Spec => []FileInv
<1>1. Init => OnTheWay /\ TextsKept /\ OutputsKept
  <2> SUFFICES ASSUME Init PROVE OnTheWay /\ TextsKept /\ OutputsKept
    OBVIOUS
  <2>1. \A w \in Workers : stage[w] = "idle" /\ doing[w] = "claim"
    BY DEF Init
  <2>2. OnTheWay
    BY <2>1 DEF OnTheWay
  <2>3. TextsKept
    BY <2>1 DEF TextsKept, Init
  <2>4. \A i \in 1..N : ~(i < next)
    BY CountTyped DEF Init
  <2>5. OutputsKept
    BY <2>1, <2>4 DEF OutputsKept, Init
  <2>6. QED
    BY <2>2, <2>3, <2>5
<1>2. FileInv /\ TypeOK' /\ PoolInv' /\ [Next]_vars => FileInv'
  <2>1. CASE Next
    BY <2>1, WayStep, TextsStep, OutputsStep DEF FileInv
  <2>2. ASSUME FileInv, UNCHANGED vars, TypeOK', PoolInv' PROVE FileInv'
    <3>1. UNCHANGED <<next, ok, fail, exit, doing, job, stage, files, read, prog>>
      BY <2>2 DEF vars, poolVars, workVars
    <3>2. Running' = Running /\ \A w \in Workers : Target(w)' = Target(w)
      BY <3>1 DEF Running, Busy, Target
    <3>3. QED
      BY <2>2, <3>1, <3>2, SameWriters DEF FileInv, OnTheWay, TextsKept, OutputsKept
  <2>3. QED
    BY <2>1, <2>2
<1>3. QED
  BY <1>1, <1>2, TypeCorrect, PoolInvariance, PTL DEF Spec, FileInv

-----------------------------------------------------------------------------
(* The lists of backends.                                                  *)

Listed == {Backends[i] : i \in 1..N}

(* The registry is a map: it lists a name once.                            *)
ListedOnce == \A i, j \in 1..N : Backends[i] = Backends[j] => i = j

SomeArmHost == \E p \in Programs : p.arm

(* Only on an ARM host may two backends write a text that one compiles.    *)
TextsApart == SomeArmHost => ~({"C", "BNY"} \subseteq Listed)

(* BNY and ARM name their images alike, and ASM and RISC their listings on *)
(* an ARM host.                                                            *)
FilesApart ==
  /\ TextsApart
  /\ ~({"BNY", "ARM"} \subseteq Listed)
  /\ SomeArmHost => ~({"ASM", "RISC"} \subseteq Listed)

(* The name of a file that a backend writes, half by half.                 *)
HasName(b, x, y) ==
  /\ b = "PY" => x = "" /\ y = ".py"
  /\ b = "JS" => x = "" /\ y = ".js"
  /\ b = "HTML" => x = "" /\ y = ".html"
  /\ b = "Java" => x = "" /\ y \in {".java", ".class"}
  /\ b = "C++" => x = "_cxx" /\ y \in {".cpp", ""}
  /\ b = "CPP" => x \in {"", "_cpp"} /\ y = IF x = "" THEN ".cpp" ELSE ""
  /\ b = "C" => x \in {"", "_c"} /\ y = IF x = "" THEN ".c" ELSE ""
  /\ b = "ASM" => x = "" /\ y = IF HostIsArm THEN ".s" ELSE ".asm"
  /\ b = "RS" => x = "" /\ y \in {".rs", ""}
  /\ b = "GO" => x = "" /\ y = ".go"
  /\ b = "V" => x = "" /\ y = ".v"
  /\ b = "BNY" => x = "" /\ y \in IF HostIsArm THEN {".acb", ".c"} ELSE {".acb"}
  /\ b = "x86" => x = ".x86" /\ y = ".acb"
  /\ b = "ARM" => x = "" /\ y = ".acb"
  /\ b = "RISC" => x = "" /\ y = ".s"
  /\ b = "LIB" => x \in {"", "_lib"} /\ y \in IF x = "" THEN {".so", ".h"} ELSE {".cpp"}

(* A file that a backend writes has a name of that table.                  *)
LEMMA WritesNames ==
  ASSUME NEW b \in Names, NEW f \in Writes(b)
  PROVE  HasName(b, f[1], f[2])
<1>1. CASE b \in Native /\ f = NativeFile(b)
  <2>1. CASE b = "x86"
    BY <1>1, <2>1 DEF HasName, NativeFile
  <2>2. CASE b = "ASM"
    BY <1>1, <2>2 DEF HasName, NativeFile, Native
  <2>3. CASE b \in {"BNY", "ARM", "RISC"}
    <3>1. f = <<"", Extension(b)>>
      BY <1>1, <2>3 DEF NativeFile
    <3>2. Extension(b) = IF b = "RISC" THEN ".s" ELSE ".acb"
      BY <2>3 DEF Extension
    <3>3. QED
      BY <2>3, <3>1, <3>2 DEF HasName
  <2>4. QED
    BY <1>1, <2>1, <2>2, <2>3 DEF Native
<1>2. CASE ByText(b) /\ f = SourceFile(b)
  <2>1. CASE b \in {"C++", "LIB"}
    BY <1>2, <2>1 DEF HasName, SourceFile
  <2>2. CASE b = "BNY"
    BY <1>2, <2>2 DEF HasName, SourceFile, ByText, Native
  <2>3. CASE b \in {"PY", "JS", "HTML", "Java", "CPP", "C", "ASM", "RS", "GO", "V"}
    <3>1. f = <<"", Extension(b)>>
      BY <1>2, <2>3 DEF SourceFile
    <3>2. HasName(b, "", Extension(b))
      BY <1>2, <2>3 DEF HasName, Extension, ByText, Native
    <3>3. QED
      BY <3>1, <3>2
  <2>4. QED
    BY <1>2, <2>1, <2>2, <2>3 DEF Names, ByText, Native
<1>3. CASE ByText(b) /\ b \in Toolchain /\ f = BinaryFile(b)
  <2>1. CASE b = "BNY"
    <3>1. f = <<"", ".acb">>
      BY <1>3, <2>1 DEF BinaryFile, NativeFile, Extension
    <3>2. QED
      BY <2>1, <3>1 DEF HasName
  <2>2. CASE b # "BNY"
    BY <1>3, <2>2 DEF HasName, Toolchain, BinaryFile
  <2>3. QED
    BY <2>1, <2>2
<1>4. CASE b = "LIB" /\ f = HeaderFile
  BY <1>4 DEF HasName, HeaderFile
<1>5. QED
  BY <1>1, <1>2, <1>3, <1>4 DEF Writes

(* The two backends are the two that are named.                            *)
Pair(a, b, p, q) == (a = p /\ b = q) \/ (a = q /\ b = p)

(* Two different backends write the same file only if they are one of the  *)
(* pairs above.                                                            *)
LEMMA WritesMeet ==
  ASSUME NEW a \in Names, NEW b \in Names, a # b,
         NEW f \in Writes(a), f \in Writes(b)
  PROVE  \/ Pair(a, b, "BNY", "ARM")
         \/ HostIsArm /\ (Pair(a, b, "C", "BNY") \/ Pair(a, b, "ASM", "RISC"))
<1> DEFINE x == f[1]
           y == f[2]
<1>1. HasName(a, x, y) /\ HasName(b, x, y)
  BY WritesNames
<1> HIDE DEF x, y
<1>2. CASE a \in {"PY", "JS", "HTML", "Java", "C++", "CPP", "RS", "GO"}
  BY <1>1, <1>2 DEF HasName, Pair, Names
<1>3. CASE a \in {"C", "ASM", "V", "x86", "LIB"}
  BY <1>1, <1>3 DEF HasName, Pair, Names
<1>4. CASE a \in {"BNY", "ARM", "RISC"}
  BY <1>1, <1>4 DEF HasName, Pair, Names
<1>5. QED
  BY <1>2, <1>3, <1>4 DEF Names

(* A backend has its text for itself in a list that keeps the texts apart. *)
LEMMA TextsAreOwn ==
  ASSUME prog \in Programs, ListedOnce, TextsApart, NEW i \in 1..N
  PROVE  TextOwn(i)
<1> SUFFICES ASSUME ByText(Backends[i]), Backends[i] \in Toolchain,
                    NEW j \in 1..N, j # i,
                    SourceFile(Backends[i]) \in Writes(Backends[j])
             PROVE  FALSE
  BY DEF TextOwn, Own
<1>1. /\ Backends[i] \in Names /\ Backends[j] \in Names /\ Backends[i] # Backends[j]
      /\ Backends[i] \in Listed /\ Backends[j] \in Listed
  BY BackendsAssumption DEF N, ListedOnce, Listed
<1>2. SourceFile(Backends[i]) \in Writes(Backends[i])
  BY DEF Writes
<1>3. \/ Pair(Backends[i], Backends[j], "BNY", "ARM")
      \/ HostIsArm /\ Pair(Backends[i], Backends[j], "C", "BNY")
      \/ Pair(Backends[i], Backends[j], "ASM", "RISC")
  BY <1>1, <1>2, WritesMeet
<1>4. HostIsArm => SomeArmHost
  BY DEF HostIsArm, SomeArmHost
<1>5. CASE Pair(Backends[i], Backends[j], "BNY", "ARM")
  <2>1. Backends[i] = "BNY" /\ Backends[j] = "ARM"
    BY <1>5 DEF Toolchain, Pair
  <2>2. HasName("ARM", SourceFile("BNY")[1], SourceFile("BNY")[2])
    BY <1>1, <2>1, WritesNames
  <2>3. QED
    BY <2>2 DEF SourceFile, HasName
<1>6. CASE HostIsArm /\ Pair(Backends[i], Backends[j], "C", "BNY")
  BY <1>1, <1>4, <1>6 DEF TextsApart, Pair
<1>7. CASE Pair(Backends[i], Backends[j], "ASM", "RISC")
  BY <1>7 DEF Toolchain, Pair
<1>8. QED
  BY <1>3, <1>5, <1>6, <1>7

(* A backend has all its files for itself in a list that keeps the files   *)
(* apart.                                                                  *)
LEMMA FilesAreOwn ==
  ASSUME prog \in Programs, ListedOnce, FilesApart, NEW i \in 1..N
  PROVE  Lone(i)
<1> SUFFICES ASSUME NEW f \in Writes(Backends[i]), NEW j \in 1..N, j # i,
                    f \in Writes(Backends[j])
             PROVE  FALSE
  BY DEF Lone, Own
<1>1. /\ Backends[i] \in Names /\ Backends[j] \in Names /\ Backends[i] # Backends[j]
      /\ Backends[i] \in Listed /\ Backends[j] \in Listed
  BY BackendsAssumption DEF N, ListedOnce, Listed
<1>2. HostIsArm => SomeArmHost
  BY DEF HostIsArm, SomeArmHost
<1>3. \/ Pair(Backends[i], Backends[j], "BNY", "ARM")
      \/ HostIsArm /\ (Pair(Backends[i], Backends[j], "C", "BNY")
                        \/ Pair(Backends[i], Backends[j], "ASM", "RISC"))
  BY <1>1, WritesMeet
<1>4. QED
  BY <1>1, <1>2, <1>3 DEF FilesApart, TextsApart, Pair

-----------------------------------------------------------------------------
(* With every backend that is registered on an x86 host, or with a list    *)
(* without C or BNY on an ARM host, for any number of threads: a backend   *)
(* fails only for a reason of its own.                                     *)
THEOREM NoneHarmsAnother == ListedOnce /\ TextsApart => (Spec => []NoCollateral)
<1> SUFFICES ASSUME ListedOnce, TextsApart PROVE Spec => []NoCollateral
  OBVIOUS
<1>1. FileInv => NoCollateral
  <2> SUFFICES ASSUME FileInv, NEW w \in Workers, stage[w] = "bad"
               PROVE  OwnFault(Target(w))
    BY DEF NoCollateral
  <2>1. doing[w] = "compile" /\ prog \in Programs
    BY DEF FileInv, TypeOK, PoolTypeOK
  <2>2. TextOwn(job[w])
    BY <2>1, TargetTyped, TextsAreOwn DEF FileInv
  <2>3. QED
    BY <2>2 DEF FileInv, TextsKept
<1>2. QED
  BY <1>1, FileInvariance, PTL

(* For such lists and any number of threads, a toolchain is only given the *)
(* whole text of its own backend.                                          *)
THEOREM OwnTextCompiled == ListedOnce /\ TextsApart => (Spec => []CompilesOwnText)
<1> SUFFICES ASSUME ListedOnce, TextsApart PROVE Spec => []CompilesOwnText
  OBVIOUS
<1>1. FileInv => CompilesOwnText
  <2> SUFFICES ASSUME FileInv, NEW b \in Names
               PROVE  read[b] \in {Missing, Text(Language(b))}
    BY DEF CompilesOwnText
  <2>1. \A i \in 1..N : TextOwn(i)
    BY TextsAreOwn DEF FileInv, TypeOK
  <2>2. QED
    BY <2>1 DEF FileInv, TextsKept
<1>2. QED
  BY <1>1, FileInvariance, PTL

(* Exit code 0 promises the whole output of every backend that shares no   *)
(* file, whatever the others of the list share.                            *)
LoneDelivered ==
  exit = 0 => \A i \in 1..N :
    Lone(i) => files[Deliverable(Backends[i])] = Text(Backends[i])

(* For any list of backends at all: after exit code 0 the output of every  *)
(* backend that shares no file with another is there and whole.            *)
THEOREM LoneOutputsDelivered == Spec => []LoneDelivered
<1>1. FileInv => LoneDelivered
  <2> SUFFICES ASSUME FileInv, exit = 0, NEW i \in 1..N, Lone(i)
               PROVE  files[Deliverable(Backends[i])] = Text(Backends[i])
    BY DEF LoneDelivered
  <2>1. \A w \in Workers : doing[w] = "gone"
    BY DEF FileInv, PoolInv, LeaveLast
  <2>2. next > N
    BY <2>1, WorkersAssumption DEF FileInv, PoolInv, LeaveLast
  <2>3. i < next /\ i \notin Running
    BY <2>1, <2>2, CountTyped DEF Running, Busy, FileInv, TypeOK, PoolTypeOK
  <2>4. QED
    BY <2>3 DEF FileInv, OutputsKept
<1>2. QED
  BY <1>1, FileInvariance, PTL

(* When the list keeps the files apart, exit code 0 means that every       *)
(* output is there and whole.                                              *)
THEOREM EverythingDelivered == ListedOnce /\ FilesApart => (Spec => []AllDelivered)
<1> SUFFICES ASSUME ListedOnce, FilesApart PROVE Spec => []AllDelivered
  OBVIOUS
<1>1. TypeOK /\ LoneDelivered => AllDelivered
  BY FilesAreOwn DEF TypeOK, LoneDelivered, AllDelivered
<1>2. QED
  BY <1>1, TypeCorrect, LoneOutputsDelivered, PTL
=============================================================================
