------------------------ MODULE CrossListParamsProofs ------------------------
(***************************************************************************)
(* What the race on g_crossListParams cannot do, for every program, any    *)
(* number of threads and every interleaving: declare a scalar parameter as *)
(* a list, or forget one that its own function indexes.                    *)
(***************************************************************************)
EXTENDS CrossListParams, FiniteSetTheorems, TLAPS

(* The functions that a loop over the functions has passed.                *)
Passed(b, i) == i \in 1..Len(prog.functions) /\ i < at[b]

(* The own uses that the texts hold so far: while a loop runs, those of    *)
(* the functions it has passed; after it, all.                             *)
ProtoAt(b) ==
  /\ pc[b] = "proto" =>
       \A i \in Nat : Passed(b, i) /\ prog.functions[i] \in prog.direct
                        => prog.functions[i] \in proto[b]
  /\ pc[b] \in {"define", "done"} => prog.direct \subseteq proto[b]
ProtoSoFar == \A b \in Backends : ProtoAt(b)

DefinedAt(b) ==
  /\ pc[b] = "define" =>
       \A i \in Nat : Passed(b, i) /\ prog.functions[i] \in prog.direct
                        => prog.functions[i] \in defined[b]
  /\ pc[b] = "done" => prog.direct \subseteq defined[b]
DefinedSoFar == \A b \in Backends : DefinedAt(b)

(* OnlyLists is inductive with the types; OwnUsesKept needs the loops'     *)
(* progress besides.                                                       *)
IInv == TypeOK /\ OnlyLists /\ ProtoSoFar /\ DefinedSoFar

-----------------------------------------------------------------------------
(* The program's parts have their types.                                   *)
LEMMA ProgramTyped ==
  ASSUME TypeOK
  PROVE  /\ prog.functions \in Seq(Functions) /\ prog.direct \subseteq Functions
         /\ prog.calls \in Seq(Functions \X Functions)
         /\ Len(prog.functions) \in Nat /\ Len(prog.calls) \in Nat
         /\ \A f \in prog.direct : \E i \in 1..Len(prog.functions) : f = prog.functions[i]
<1>1. prog \in Programs
  BY DEF TypeOK
<1>2. prog.functions \in Seq(Functions) /\ prog.calls \in Seq(Functions \X Functions)
  BY <1>1, ProgramsAssumption
<1>3. \A f \in prog.direct : \E i \in 1..Len(prog.functions) : f = prog.functions[i]
  BY <1>1, ProgramsAssumption
<1>4. prog.direct \subseteq Functions
  BY <1>2, <1>3
<1>5. QED
  BY <1>2, <1>3, <1>4

(* The function a loop is at is one of the program's.                      *)
LEMMA FunctionTyped ==
  ASSUME TypeOK, NEW b \in Backends, at[b] <= Len(prog.functions)
  PROVE  Function(b) \in Functions
<1>1. at[b] \in 1..Len(prog.functions)
  BY ProgramTyped DEF TypeOK
<1>2. QED
  BY <1>1, ProgramTyped DEF Function

(* Parameters that are used as lists are list parameters.                  *)
LEMMA DirectAreLists ==
  ASSUME TypeOK
  PROVE  prog.direct \subseteq ListParams
BY ProgramTyped DEF ListParams, Closed

(* A caller that forwards its parameter to a list parameter has one.       *)
LEMMA ForwardedAreLists ==
  ASSUME TypeOK, NEW i \in 1..Len(prog.calls), prog.calls[i][2] \in ListParams
  PROVE  prog.calls[i][1] \in ListParams
<1>1. prog.calls[i] \in Functions \X Functions
  BY ProgramTyped
<1>2. prog.calls[i][1] \in Functions
  BY <1>1
<1>3. QED
  BY <1>2 DEF ListParams, Closed

(* ListParams depends on the program only, which never changes.            *)
LEMMA ListParamsFixed ==
  ASSUME prog' = prog
  PROVE  ListParams' = ListParams
BY DEF ListParams, Closed

-----------------------------------------------------------------------------
(* No step changes the shape of a variable.                                *)
LEMMA TypeStep ==
  ASSUME TypeOK, Next
  PROVE  TypeOK'
<1>1. CASE Collide
  BY <1>1 DEF Collide, TypeOK, local, text
<1>2. ASSUME NEW b \in Backends, Generate(b) PROVE TypeOK'
  <2>0. prog' = prog /\ aborted' = aborted /\ at[b] + 1 \in Nat \ {0}
    BY <1>2 DEF Generate, TypeOK
  <2>1. CASE Clear(b)
    BY <2>0, <2>1 DEF Clear, Goto, TypeOK, text
  <2>2. CASE Seed(b)
    <3>1. CASE at[b] <= Len(prog.functions)
      BY <2>0, <2>2, <3>1, FunctionTyped DEF Seed, Advance, TypeOK, text
    <3>2. CASE ~(at[b] <= Len(prog.functions))
      <4>1. 1 \in 0..MaxRounds
        BY RoundsAssumption
      <4>2. /\ pc' = [pc EXCEPT ![b] = "forward"] /\ at' = [at EXCEPT ![b] = 1]
            /\ round' = [round EXCEPT ![b] = 1]
            /\ UNCHANGED <<changed, lists, proto, defined>>
        BY <2>2, <3>2 DEF Seed, Goto, text
      <4>3. QED
        BY <2>0, <4>1, <4>2 DEF TypeOK
    <3>3. QED
      BY <3>1, <3>2
  <2>3. CASE Forward(b)
    <3>1. at[b] \in 1..Len(prog.calls)
      BY <2>3, ProgramTyped DEF Forward, TypeOK
    <3>2. prog.calls[at[b]] \in Functions \X Functions
      BY <3>1, ProgramTyped
    <3>3. prog.calls[at[b]][1] \in Functions
      BY <3>2
    <3>4. QED
      BY <2>0, <2>3, <3>3 DEF Forward, Advance, TypeOK, text
  <2>4. CASE EndRound(b)
    <3>1. CASE Again(b)
      <4>1. round[b] + 1 \in 0..MaxRounds
        BY <3>1, RoundsAssumption DEF Again, TypeOK
      <4>2. /\ pc' = [pc EXCEPT ![b] = "forward"] /\ at' = [at EXCEPT ![b] = 1]
            /\ round' = [round EXCEPT ![b] = round[b] + 1]
            /\ changed' = [changed EXCEPT ![b] = FALSE]
            /\ UNCHANGED <<lists, proto, defined>>
        BY <2>4, <3>1 DEF EndRound, Goto, text
      <4>3. QED
        BY <2>0, <4>1, <4>2 DEF TypeOK
    <3>2. CASE ~Again(b)
      <4>1. 0 \in 0..MaxRounds
        BY RoundsAssumption
      <4>2. /\ pc' = [pc EXCEPT ![b] = "proto"] /\ at' = [at EXCEPT ![b] = 1]
            /\ round' = [round EXCEPT ![b] = 0]
            /\ changed' = [changed EXCEPT ![b] = FALSE]
            /\ UNCHANGED <<lists, proto, defined>>
        BY <2>4, <3>2 DEF EndRound, Goto, text
      <4>3. QED
        BY <2>0, <4>1, <4>2 DEF TypeOK
    <3>3. QED
      BY <3>1, <3>2
  <2>5. CASE Prototype(b)
    <3>0. UNCHANGED <<round, changed, lists, defined>>
      BY <2>5 DEF Prototype
    <3>1. CASE at[b] <= Len(prog.functions)
      <4>1. Function(b) \in Functions
        BY <3>1, FunctionTyped
      <4>2. /\ UNCHANGED pc /\ at' = [at EXCEPT ![b] = at[b] + 1]
            /\ proto' = [proto EXCEPT ![b] = IF Declares(Function(b))
                                          THEN proto[b] \cup {Function(b)} ELSE proto[b]]
        BY <2>5, <3>1 DEF Prototype, Advance
      <4>3. (IF Declares(Function(b)) THEN proto[b] \cup {Function(b)} ELSE proto[b])
              \in SUBSET Functions
        BY <4>1 DEF TypeOK
      <4>4. QED
        BY <2>0, <3>0, <4>2, <4>3 DEF TypeOK
    <3>2. CASE ~(at[b] <= Len(prog.functions))
      <4>1. /\ pc' = [pc EXCEPT ![b] = "define"] /\ at' = [at EXCEPT ![b] = 1]
            /\ UNCHANGED proto
        BY <2>5, <3>2 DEF Prototype, Goto
      <4>2. QED
        BY <2>0, <3>0, <4>1 DEF TypeOK
    <3>3. QED
      BY <3>1, <3>2
  <2>6. CASE Define(b)
    <3>0. UNCHANGED <<round, changed, lists, proto>>
      BY <2>6 DEF Define
    <3>1. CASE at[b] <= Len(prog.functions)
      <4>1. Function(b) \in Functions
        BY <3>1, FunctionTyped
      <4>2. /\ UNCHANGED pc /\ at' = [at EXCEPT ![b] = at[b] + 1]
            /\ defined' = [defined EXCEPT ![b] = IF Declares(Function(b))
                                          THEN defined[b] \cup {Function(b)} ELSE defined[b]]
        BY <2>6, <3>1 DEF Define, Advance
      <4>3. (IF Declares(Function(b)) THEN defined[b] \cup {Function(b)} ELSE defined[b])
              \in SUBSET Functions
        BY <4>1 DEF TypeOK
      <4>4. QED
        BY <2>0, <3>0, <4>2, <4>3 DEF TypeOK
    <3>2. CASE ~(at[b] <= Len(prog.functions))
      <4>1. /\ pc' = [pc EXCEPT ![b] = "done"] /\ at' = [at EXCEPT ![b] = 1]
            /\ UNCHANGED defined
        BY <2>6, <3>2 DEF Define, Goto
      <4>2. QED
        BY <2>0, <3>0, <4>1 DEF TypeOK
    <3>3. QED
      BY <3>1, <3>2
  <2>7. QED
    BY <1>2, <2>1, <2>2, <2>3, <2>4, <2>5, <2>6 DEF Generate
<1>3. QED
  BY <1>1, <1>2 DEF Next

(* No step adds a parameter that is no list, whatever the others do.       *)
LEMMA OnlyListsStep ==
  ASSUME TypeOK, OnlyLists, Next
  PROVE  OnlyLists'
<1>1. CASE Collide
  BY <1>1, ListParamsFixed DEF Collide, OnlyLists, text
<1>2. ASSUME NEW b \in Backends, Generate(b) PROVE OnlyLists'
  <2>0. ListParams' = ListParams
    BY <1>2, ListParamsFixed DEF Generate
  <2>1. CASE Clear(b)
    BY <2>0, <2>1 DEF Clear, OnlyLists, text
  <2>2. CASE Seed(b)
    BY <2>0, <2>2, DirectAreLists DEF Seed, OnlyLists, text
  <2>3. CASE Forward(b)
    <3>1. at[b] \in 1..Len(prog.calls)
      BY <2>3, ProgramTyped DEF Forward, TypeOK
    <3>2. Forwards(prog.calls[at[b]]) => prog.calls[at[b]][1] \in ListParams
      BY <3>1, ForwardedAreLists DEF Forwards, OnlyLists
    <3>3. QED
      BY <2>0, <2>3, <3>2 DEF Forward, OnlyLists, text
  <2>4. CASE EndRound(b)
    BY <2>0, <2>4 DEF EndRound, OnlyLists, text
  <2>5. ASSUME Declares(Function(b)) PROVE Function(b) \in ListParams
    BY <2>5, DirectAreLists DEF Declares, OnlyLists
  <2>6. CASE Prototype(b)
    <3>1. UNCHANGED <<lists, defined>>
      BY <2>6 DEF Prototype
    <3>2. \A c \in Backends : proto'[c] \subseteq
            proto[c] \cup (IF Declares(Function(b)) THEN {Function(b)} ELSE {})
      BY <2>6 DEF Prototype, TypeOK
    <3>3. QED
      BY <2>0, <2>5, <3>1, <3>2 DEF OnlyLists
  <2>7. CASE Define(b)
    <3>1. UNCHANGED <<lists, proto>>
      BY <2>7 DEF Define
    <3>2. \A c \in Backends : defined'[c] \subseteq
            defined[c] \cup (IF Declares(Function(b)) THEN {Function(b)} ELSE {})
      BY <2>7 DEF Define, TypeOK
    <3>3. QED
      BY <2>0, <2>5, <3>1, <3>2 DEF OnlyLists
  <2>8. QED
    BY <1>2, <2>1, <2>2, <2>3, <2>4, <2>6, <2>7 DEF Generate
<1>3. QED
  BY <1>1, <1>2 DEF Next
(* A thread changes nothing that is another backend's own.                 *)
LEMMA OthersKeep ==
  ASSUME TypeOK, NEW b \in Backends, Generate(b), NEW c \in Backends, c # b
  PROVE  pc'[c] = pc[c] /\ at'[c] = at[c] /\ proto'[c] = proto[c] /\ defined'[c] = defined[c]
<1>1. CASE Clear(b)
  BY <1>1 DEF Clear, Goto, TypeOK, text
<1>2. CASE Seed(b)
  BY <1>2 DEF Seed, Goto, Advance, TypeOK, text
<1>3. CASE Forward(b)
  BY <1>3 DEF Forward, Advance, TypeOK, text
<1>4. CASE EndRound(b)
  BY <1>4 DEF EndRound, Goto, TypeOK, text
<1>5. CASE Prototype(b)
  BY <1>5 DEF Prototype, Goto, Advance, TypeOK
<1>6. CASE Define(b)
  BY <1>6 DEF Define, Goto, Advance, TypeOK
<1>7. QED
  BY <1>1, <1>2, <1>3, <1>4, <1>5, <1>6 DEF Generate

(* No step loses what the texts hold.                                      *)
LEMMA ProtoSoFarStep ==
  ASSUME TypeOK, ProtoSoFar, Next
  PROVE  ProtoSoFar'
<1>1. CASE Collide
  BY <1>1 DEF Collide, ProtoSoFar, ProtoAt, Passed, local, text
<1>2. ASSUME NEW b \in Backends, Generate(b) PROVE ProtoSoFar'
  <2>0. prog' = prog
    BY <1>2 DEF Generate
  <2>1. ASSUME NEW c \in Backends, c # b, ProtoAt(c) PROVE ProtoAt(c)'
    BY <1>2, <2>0, <2>1, OthersKeep DEF ProtoAt, Passed
  <2>2. ASSUME ProtoAt(b) PROVE ProtoAt(b)'
    <3>1. CASE Prototype(b) /\ at[b] <= Len(prog.functions)
      <4>1. /\ pc' = pc /\ at' = [at EXCEPT ![b] = at[b] + 1]
            /\ proto' = [proto EXCEPT ![b] = IF Declares(Function(b))
                                          THEN proto[b] \cup {Function(b)} ELSE proto[b]]
        BY <3>1 DEF Prototype, Advance
      <4>2. pc[b] = "proto" /\ pc'[b] = "proto" /\ at'[b] = at[b] + 1 /\ at[b] \in Nat
        BY <3>1, <4>1 DEF Prototype, TypeOK
      <4>3. proto[b] \subseteq proto'[b]
        BY <4>1 DEF TypeOK
      <4>4. Function(b) \in prog.direct => Function(b) \in proto'[b]
        BY <4>1 DEF TypeOK, Declares
      <4>5. ASSUME NEW i \in Nat, i \in 1..Len(prog.functions), i < at[b] + 1,
                   prog.functions[i] \in prog.direct
            PROVE  prog.functions[i] \in proto'[b]
        <5>1. CASE i < at[b]
          BY <2>2, <4>2, <4>3, <4>5, <5>1 DEF ProtoAt, Passed
        <5>2. CASE ~(i < at[b])
          <6>1. i = at[b]
            BY <4>2, <4>5, <5>2
          <6>2. QED
            BY <4>4, <4>5, <6>1 DEF Function
        <5>3. QED
          BY <5>1, <5>2
      <4>6. QED
        BY <2>0, <4>2, <4>5 DEF ProtoAt, Passed
    <3>2. CASE Prototype(b) /\ ~(at[b] <= Len(prog.functions))
      <4>1. pc'[b] = "define" /\ proto'[b] = proto[b] /\ pc[b] = "proto"
        BY <3>2 DEF Prototype, Goto, TypeOK
      <4>2. ASSUME NEW f \in prog.direct PROVE f \in proto[b]
        <5>1. PICK i \in 1..Len(prog.functions) : f = prog.functions[i]
          BY ProgramTyped
        <5>2. i \in Nat /\ i < at[b]
          BY <3>2, ProgramTyped DEF TypeOK
        <5>3. QED
          BY <2>2, <4>1, <5>1, <5>2 DEF ProtoAt, Passed
      <4>3. QED
        BY <2>0, <4>1, <4>2 DEF ProtoAt
    <3>3. CASE ~Prototype(b)
      <4>1. CASE Clear(b)
        BY <4>1 DEF Clear, Goto, TypeOK, ProtoAt
      <4>2. CASE Seed(b)
        BY <4>2 DEF Seed, Goto, Advance, TypeOK, ProtoAt
      <4>3. CASE Forward(b)
        BY <4>3 DEF Forward, Advance, TypeOK, ProtoAt
      <4>4. CASE EndRound(b)
        <5>1. pc[b] = "forward" /\ at'[b] = 1 /\ pc'[b] \in {"forward", "proto"}
          BY <4>4 DEF EndRound, Goto, TypeOK
        <5>2. \A i \in Nat : ~Passed(b, i)'
          BY <5>1 DEF Passed
        <5>3. QED
          BY <5>1, <5>2 DEF ProtoAt
      <4>5. CASE Define(b)
        <5>1. /\ pc[b] = "define" /\ pc'[b] \in {"define", "done"} /\ proto'[b] = proto[b]
          BY <4>5 DEF Define, Goto, Advance, TypeOK
        <5>2. QED
          BY <2>0, <2>2, <5>1 DEF ProtoAt
      <4>6. QED
        BY <1>2, <3>3, <4>1, <4>2, <4>3, <4>4, <4>5 DEF Generate
    <3>4. QED
      BY <3>1, <3>2, <3>3
  <2>3. QED
    BY <2>1, <2>2 DEF ProtoSoFar
<1>3. QED
  BY <1>1, <1>2 DEF Next

(* No step loses what the texts hold.                                      *)
LEMMA DefinedSoFarStep ==
  ASSUME TypeOK, DefinedSoFar, Next
  PROVE  DefinedSoFar'
<1>1. CASE Collide
  BY <1>1 DEF Collide, DefinedSoFar, DefinedAt, Passed, local, text
<1>2. ASSUME NEW b \in Backends, Generate(b) PROVE DefinedSoFar'
  <2>0. prog' = prog
    BY <1>2 DEF Generate
  <2>1. ASSUME NEW c \in Backends, c # b, DefinedAt(c) PROVE DefinedAt(c)'
    BY <1>2, <2>0, <2>1, OthersKeep DEF DefinedAt, Passed
  <2>2. ASSUME DefinedAt(b) PROVE DefinedAt(b)'
    <3>1. CASE Define(b) /\ at[b] <= Len(prog.functions)
      <4>1. /\ pc' = pc /\ at' = [at EXCEPT ![b] = at[b] + 1]
            /\ defined' = [defined EXCEPT ![b] = IF Declares(Function(b))
                                          THEN defined[b] \cup {Function(b)} ELSE defined[b]]
        BY <3>1 DEF Define, Advance
      <4>2. pc[b] = "define" /\ pc'[b] = "define" /\ at'[b] = at[b] + 1 /\ at[b] \in Nat
        BY <3>1, <4>1 DEF Define, TypeOK
      <4>3. defined[b] \subseteq defined'[b]
        BY <4>1 DEF TypeOK
      <4>4. Function(b) \in prog.direct => Function(b) \in defined'[b]
        BY <4>1 DEF TypeOK, Declares
      <4>5. ASSUME NEW i \in Nat, i \in 1..Len(prog.functions), i < at[b] + 1,
                   prog.functions[i] \in prog.direct
            PROVE  prog.functions[i] \in defined'[b]
        <5>1. CASE i < at[b]
          BY <2>2, <4>2, <4>3, <4>5, <5>1 DEF DefinedAt, Passed
        <5>2. CASE ~(i < at[b])
          <6>1. i = at[b]
            BY <4>2, <4>5, <5>2
          <6>2. QED
            BY <4>4, <4>5, <6>1 DEF Function
        <5>3. QED
          BY <5>1, <5>2
      <4>6. QED
        BY <2>0, <4>2, <4>5 DEF DefinedAt, Passed
    <3>2. CASE Define(b) /\ ~(at[b] <= Len(prog.functions))
      <4>1. pc'[b] = "done" /\ defined'[b] = defined[b] /\ pc[b] = "define"
        BY <3>2 DEF Define, Goto, TypeOK
      <4>2. ASSUME NEW f \in prog.direct PROVE f \in defined[b]
        <5>1. PICK i \in 1..Len(prog.functions) : f = prog.functions[i]
          BY ProgramTyped
        <5>2. i \in Nat /\ i < at[b]
          BY <3>2, ProgramTyped DEF TypeOK
        <5>3. QED
          BY <2>2, <4>1, <5>1, <5>2 DEF DefinedAt, Passed
      <4>3. QED
        BY <2>0, <4>1, <4>2 DEF DefinedAt
    <3>3. CASE ~Define(b)
      <4>1. CASE Clear(b)
        BY <4>1 DEF Clear, Goto, TypeOK, DefinedAt
      <4>2. CASE Seed(b)
        BY <4>2 DEF Seed, Goto, Advance, TypeOK, DefinedAt
      <4>3. CASE Forward(b)
        BY <4>3 DEF Forward, Advance, TypeOK, DefinedAt
      <4>4. CASE EndRound(b)
        <5>1. pc[b] = "forward" /\ at'[b] = 1 /\ pc'[b] \in {"forward", "proto"}
          BY <4>4 DEF EndRound, Goto, TypeOK
        <5>2. \A i \in Nat : ~Passed(b, i)'
          BY <5>1 DEF Passed
        <5>3. QED
          BY <5>1, <5>2 DEF DefinedAt
      <4>5. CASE Prototype(b)
        <5>1. /\ pc[b] = "proto" /\ pc'[b] \in {"proto", "define"}
              /\ pc'[b] = "define" => at'[b] = 1
          BY <4>5 DEF Prototype, Goto, Advance, TypeOK
        <5>2. pc'[b] = "define" => \A i \in Nat : ~Passed(b, i)'
          BY <5>1 DEF Passed
        <5>3. QED
          BY <5>1, <5>2 DEF DefinedAt
      <4>6. QED
        BY <1>2, <3>3, <4>1, <4>2, <4>3, <4>4, <4>5 DEF Generate
    <3>4. QED
      BY <3>1, <3>2, <3>3
  <2>3. QED
    BY <2>1, <2>2 DEF DefinedSoFar
<1>3. QED
  BY <1>1, <1>2 DEF Next

-----------------------------------------------------------------------------
(* The invariant of the race.                                              *)
LEMMA Invariance == Spec => []IInv
<1>1. Init => IInv
  <2> SUFFICES ASSUME Init PROVE IInv
    OBVIOUS
  <2>1. 0 \in 0..MaxRounds /\ 1 \in Nat \ {0}
    BY RoundsAssumption
  <2>2. TypeOK
    BY <2>1 DEF Init, TypeOK
  <2>3. OnlyLists
    BY DEF Init, OnlyLists
  <2>4. ProtoSoFar /\ DefinedSoFar
    BY DEF Init, ProtoSoFar, DefinedSoFar, ProtoAt, DefinedAt
  <2>5. QED
    BY <2>2, <2>3, <2>4 DEF IInv
<1>2. IInv /\ [Next]_vars => IInv'
  <2>1. CASE Next
    BY <2>1, TypeStep, OnlyListsStep, ProtoSoFarStep, DefinedSoFarStep DEF IInv
  <2>2. ASSUME IInv, UNCHANGED vars PROVE IInv'
    <3>1. UNCHANGED <<prog, pc, at, round, changed, lists, proto, defined, aborted>>
      BY <2>2 DEF vars, local, text
    <3>2. TypeOK'
      BY <2>2, <3>1 DEF IInv, TypeOK
    <3>3. OnlyLists'
      BY <2>2, <3>1, ListParamsFixed DEF IInv, OnlyLists
    <3>4. ProtoSoFar' /\ DefinedSoFar'
      BY <2>2, <3>1 DEF IInv, ProtoSoFar, DefinedSoFar, ProtoAt, DefinedAt, Passed
    <3>5. QED
      BY <3>2, <3>3, <3>4 DEF IInv
  <2>3. QED
    BY <2>1, <2>2
<1>3. QED
  BY <1>1, <1>2, PTL DEF Spec

(* The variables keep their types, and the fixpoint loop its bound.        *)
THEOREM TypeCorrect == Spec => []TypeOK
<1>1. IInv => TypeOK
  BY DEF IInv
<1>2. QED
  BY <1>1, Invariance, PTL

(* For every program and every interleaving of any number of threads, the  *)
(* texts declare as lists only parameters that are lists.                  *)
THEOREM NeverTooMany == Spec => []OnlyLists
<1>1. IInv => OnlyLists
  BY DEF IInv
<1>2. QED
  BY <1>1, Invariance, PTL

(* For every program and every interleaving, a finished text declares, in  *)
(* the prototypes and in the definitions, every parameter that its own     *)
(* function uses as a list: the race loses forwarded lists only.           *)
THEOREM OwnUsesSurvive == Spec => []OwnUsesKept
<1>1. IInv => OwnUsesKept
  BY DEF IInv, ProtoSoFar, DefinedSoFar, ProtoAt, DefinedAt, OwnUsesKept, Done
<1>2. QED
  BY <1>1, Invariance, PTL

-----------------------------------------------------------------------------
(* One thread.  The fixpoint is reached when a round adds nothing, and it  *)
(* is when the bound stops the loop, if every round adds a parameter and   *)
(* there are no more to add than rounds.                                   *)

(* The functions that can be in the map by forwarding alone.               *)
Forwarders == {prog.calls[i][1] : i \in 1..Len(prog.calls)} \ prog.direct
EnoughRounds == \A p \in Programs :
  Cardinality({p.calls[i][1] : i \in 1..Len(p.calls)} \ p.direct) <= MaxRounds

Added == lists \ prog.direct
Handed(i) == prog.calls[i][2] \in lists => prog.calls[i][1] \in lists

(* The functions that the loop has passed and are in S are in T.           *)
Looped(b, S, T) ==
  \A i \in 1..Len(prog.functions) :
    i < at[b] /\ prog.functions[i] \in S => prog.functions[i] \in T

(* What the thread has done, at each place of generateFromIR.              *)
SeedAt(b) ==
  pc[b] = "seed" =>
    /\ lists \subseteq prog.direct
    /\ ~changed[b]
    /\ Looped(b, prog.direct, lists)
ForwardAt(b) ==
  pc[b] = "forward" =>
    /\ prog.direct \subseteq lists
    /\ Added \subseteq Forwarders
    /\ Cardinality(Added) + 1 >= round[b]
    /\ changed[b] => Cardinality(Added) >= round[b]
    /\ ~changed[b] => \A i \in 1..Len(prog.calls) : i < at[b] => Handed(i)
TextAt(b) ==
  /\ pc[b] = "proto" =>
       /\ lists = ListParams
       /\ Looped(b, ListParams, proto[b])
  /\ pc[b] = "define" =>
       /\ lists = ListParams
       /\ Looped(b, ListParams, defined[b])
  /\ pc[b] \in {"define", "done"} => ListParams \subseteq proto[b]
  /\ pc[b] = "done" => ListParams \subseteq defined[b]
ReadyAt(b) == pc[b] = "wait" => ~changed[b]
AloneAt(b) == SeedAt(b) /\ ForwardAt(b) /\ TextAt(b) /\ ReadyAt(b)
OneActive == \A b, c \in Active : b = c
AloneInv == prog.slots = 1 => OneActive /\ \A b \in Backends : AloneAt(b)

(* A set of parameters is closed only if it has the list parameters.       *)
LEMMA ClosedHasLists ==
  ASSUME TypeOK, Closed(lists), OnlyLists
  PROVE  lists = ListParams
BY DEF TypeOK, ListParams, OnlyLists

(* There are finitely many callers, and each is one of the functions.      *)
LEMMA ForwardersFinite ==
  ASSUME TypeOK
  PROVE  /\ IsFiniteSet(Forwarders) /\ Cardinality(Forwarders) \in Nat
         /\ \A f \in Forwarders : \E i \in 1..Len(prog.functions) : f = prog.functions[i]
<1>1. prog \in Programs
  BY DEF TypeOK
<1>2. \A c \in 1..Len(prog.calls) :
        \E i \in 1..Len(prog.functions) : prog.calls[c][1] = prog.functions[i]
  BY <1>1, ProgramsAssumption
<1>3. \A f \in Forwarders : \E i \in 1..Len(prog.functions) : f = prog.functions[i]
  BY <1>2 DEF Forwarders
<1>4. IsFiniteSet({prog.calls[i][1] : i \in 1..Len(prog.calls)})
  <2>1. Len(prog.calls) \in Nat
    BY ProgramTyped
  <2>2. IsFiniteSet(1..Len(prog.calls))
    BY <2>1, FS_Interval
  <2>3. [i \in 1..Len(prog.calls) |-> prog.calls[i][1]] \in
          Surjection(1..Len(prog.calls), {prog.calls[i][1] : i \in 1..Len(prog.calls)})
    BY DEF Surjection
  <2>4. QED
    BY <2>2, <2>3, FS_Surjection
<1>5. IsFiniteSet(Forwarders) /\ Cardinality(Forwarders) \in Nat
  BY <1>4, FS_Subset, FS_CardinalityType DEF Forwarders
<1>6. QED
  BY <1>3, <1>5

(* What the steps leave alone keeps what is said of it.                    *)
LEMMA AloneKept ==
  ASSUME prog' = prog, NEW b \in Backends, AloneAt(b), pc[b] \in {"wait", "done"},
         pc'[b] = pc[b], changed'[b] = changed[b],
         proto'[b] = proto[b], defined'[b] = defined[b]
  PROVE  AloneAt(b)'
BY ListParamsFixed DEF AloneAt, SeedAt, ForwardAt, TextAt, ReadyAt

(* One thread at a time begins, and begins when no other is active.        *)
LEMMA OneActiveStep ==
  ASSUME TypeOK, OneActive, prog.slots = 1, IsFiniteSet(Backends),
         NEW b \in Backends, Generate(b)
  PROVE  /\ OneActive'
         /\ \A c \in Backends \ {b} : pc[c] \in {"wait", "done"} /\ changed'[c] = changed[c]
         /\ pc[b] # "wait" => b \in Active
<1>1. CASE Clear(b)
  <2>1. IsFiniteSet(Active)
    BY FS_Subset DEF Active
  <2>2. Cardinality(Active) \in Nat /\ Cardinality(Active) < 1
    BY <1>1, <2>1, FS_CardinalityType DEF Clear
  <2>3. Cardinality(Active) = 0
    BY <2>2
  <2>4. Active = {}
    BY <2>1, <2>3, FS_EmptySet
  <2>5. \A c \in Backends : pc[c] \in {"wait", "done"}
    BY <2>4 DEF Active, TypeOK
  <2>6. pc' = [pc EXCEPT ![b] = "seed"] /\ changed' = changed
    BY <1>1 DEF Clear, Goto
  <2>7. Active' = {b}
    BY <2>5, <2>6 DEF Active, TypeOK
  <2>8. QED
    BY <1>1, <2>5, <2>6, <2>7 DEF OneActive, Clear
<1>2. CASE ~Clear(b)
  <2>1. pc[b] \in {"seed", "forward", "proto", "define"}
    BY <1>2 DEF Generate, Seed, Forward, EndRound, Prototype, Define
  <2>2. b \in Active
    BY <2>1 DEF Active
  <2>3. \A c \in Backends \ {b} : pc[c] \in {"wait", "done"}
    BY <2>2 DEF OneActive, Active, TypeOK
  <2>4. \A c \in Backends \ {b} : pc'[c] = pc[c]
    BY OthersKeep
  <2>5. \A c \in Backends \ {b} : changed'[c] = changed[c]
    <3>1. CASE Seed(b)
      BY <3>1 DEF Seed
    <3>2. CASE Forward(b)
      BY <3>2 DEF Forward, TypeOK
    <3>3. CASE EndRound(b)
      BY <3>3 DEF EndRound, TypeOK
    <3>4. CASE Prototype(b) \/ Define(b)
      BY <3>4 DEF Prototype, Define
    <3>5. QED
      BY <1>2, <3>1, <3>2, <3>3, <3>4 DEF Generate
  <2>6. Active' \subseteq {b}
    BY <2>3, <2>4 DEF Active
  <2>7. QED
    BY <2>2, <2>3, <2>5, <2>6 DEF OneActive
<1>3. QED
  BY <1>1, <1>2

-----------------------------------------------------------------------------
(* Each step of the one thread keeps what is said of it.                   *)

(* The pass that seeds the shared set has put into it, as far as it has    *)
(* got, the parameters that bodies use as lists.                           *)
LEMMA SeedAlone ==
  ASSUME TypeOK, NEW b \in Backends, AloneAt(b), Seed(b), prog' = prog
  PROVE  AloneAt(b)'
<1>0. /\ pc[b] = "seed" /\ lists \subseteq prog.direct /\ ~changed[b]
      /\ Looped(b, prog.direct, lists) /\ changed' = changed
  BY DEF Seed, AloneAt, SeedAt
<1>1. CASE at[b] <= Len(prog.functions)
  <2>1. /\ pc'[b] = "seed" /\ at'[b] = at[b] + 1 /\ at[b] \in Nat
        /\ lists' = IF Function(b) \in prog.direct
                    THEN lists \cup {Function(b)} ELSE lists \ {Function(b)}
    BY <1>0, <1>1 DEF Seed, Advance, TypeOK
  <2>2. lists \subseteq lists' /\ lists' \subseteq prog.direct
    BY <1>0, <2>1
  <2>3. Looped(b, prog.direct, lists)'
    <3> SUFFICES ASSUME NEW i \in 1..Len(prog.functions), i < at[b] + 1,
                        prog.functions[i] \in prog.direct
                 PROVE  prog.functions[i] \in lists'
      BY <2>1 DEF Looped
    <3>1. CASE i < at[b]
      BY <1>0, <2>2, <3>1 DEF Looped
    <3>2. CASE i = at[b]
      BY <2>1, <3>2 DEF Function
    <3>3. QED
      BY <2>1, <3>1, <3>2
  <2>4. QED
    BY <1>0, <2>1, <2>2, <2>3 DEF AloneAt, SeedAt, ForwardAt, TextAt, ReadyAt
<1>2. CASE ~(at[b] <= Len(prog.functions))
  <2>1. /\ pc'[b] = "forward" /\ at'[b] = 1 /\ round'[b] = 1 /\ lists' = lists
    BY <1>0, <1>2 DEF Seed, Goto, TypeOK
  <2>2. ASSUME NEW f \in prog.direct PROVE f \in lists
    <3>1. PICK i \in 1..Len(prog.functions) : f = prog.functions[i]
      BY ProgramTyped
    <3>2. i < at[b]
      BY <1>2, ProgramTyped DEF TypeOK
    <3>3. QED
      BY <1>0, <3>1, <3>2 DEF Looped
  <2>3. Added' = {}
    BY <1>0, <2>1 DEF Added
  <2>4. Cardinality(Added') = 0 /\ Added' \subseteq Forwarders'
    BY <2>3, FS_EmptySet
  <2>5. ForwardAt(b)'
    BY <1>0, <2>1, <2>2, <2>4 DEF ForwardAt
  <2>6. QED
    BY <2>1, <2>5 DEF AloneAt, SeedAt, TextAt, ReadyAt
<1>3. QED
  BY <1>1, <1>2

(* A call that is handed on adds a caller that only forwards and marks the *)
(* round, or there was nothing to add.                                     *)
LEMMA ForwardAlone ==
  ASSUME TypeOK, NEW b \in Backends, AloneAt(b), Forward(b), prog' = prog
  PROVE  AloneAt(b)'
<1>0. /\ pc[b] = "forward" /\ ForwardAt(b) /\ at[b] \in 1..Len(prog.calls)
      /\ pc'[b] = "forward" /\ at'[b] = at[b] + 1 /\ round' = round
      /\ at[b] \in Nat /\ round[b] \in Nat
  BY ProgramTyped DEF Forward, AloneAt, Advance, TypeOK
<1>1. IsFiniteSet(Added) /\ Cardinality(Added) \in Nat
  BY <1>0, ForwardersFinite, FS_Subset, FS_CardinalityType DEF ForwardAt
<1>2. CASE Forwards(prog.calls[at[b]]) /\ prog.calls[at[b]][1] \notin lists
  <2>1. /\ lists' = lists \cup {prog.calls[at[b]][1]} /\ changed'[b] = TRUE
    BY <1>2 DEF Forward, TypeOK
  <2>2. /\ prog.calls[at[b]][1] \in Forwarders
        /\ prog.calls[at[b]][1] \notin prog.direct
    BY <1>0, <1>2 DEF ForwardAt, Forwarders
  <2>3. Added' = Added \cup {prog.calls[at[b]][1]} /\ prog.calls[at[b]][1] \notin Added
    BY <1>2, <2>1, <2>2 DEF Added
  <2>4. Cardinality(Added') = Cardinality(Added) + 1
    BY <1>1, <2>3, FS_AddElement
  <2>5. Added' \subseteq Forwarders'
    BY <1>0, <2>2, <2>3 DEF ForwardAt, Forwarders
  <2>6. ForwardAt(b)'
    BY <1>0, <1>1, <2>1, <2>4, <2>5 DEF ForwardAt
  <2>7. QED
    BY <1>0, <2>6 DEF AloneAt, SeedAt, TextAt, ReadyAt
<1>3. CASE ~(Forwards(prog.calls[at[b]]) /\ prog.calls[at[b]][1] \notin lists)
  <2>1. lists' = lists /\ changed' = changed
    BY <1>3 DEF Forward
  <2>2. Handed(at[b])
    BY <1>3 DEF Handed, Forwards
  <2>3. ~changed[b] => \A i \in 1..Len(prog.calls) : i < at[b] + 1 => Handed(i)
    <3> SUFFICES ASSUME ~changed[b], NEW i \in 1..Len(prog.calls), i < at[b] + 1
                 PROVE  Handed(i)
      OBVIOUS
    <3>1. i < at[b] \/ i = at[b]
      BY <1>0
    <3>2. QED
      BY <1>0, <2>2, <3>1 DEF ForwardAt
  <2>4. Added' = Added /\ Forwarders' = Forwarders /\ \A i : Handed(i) => Handed(i)'
    BY <2>1 DEF Added, Forwarders, Handed
  <2>5. ForwardAt(b)'
    BY <1>0, <2>1, <2>3, <2>4 DEF ForwardAt
  <2>6. QED
    BY <1>0, <2>5 DEF AloneAt, SeedAt, TextAt, ReadyAt
<1>4. QED
  BY <1>2, <1>3

(* When the loop ends, the map is closed: the round has added nothing, or  *)
(* the rounds have added all that there is to add.                         *)
LEMMA LoopCloses ==
  ASSUME TypeOK, EnoughRounds, NEW b \in Backends, ForwardAt(b), EndRound(b), ~Again(b)
  PROVE  Closed(lists)
<1>0. /\ pc[b] = "forward" /\ at[b] > Len(prog.calls) /\ prog.direct \subseteq lists
      /\ round[b] \in 0..MaxRounds /\ at[b] \in Nat /\ Len(prog.calls) \in Nat
  BY ProgramTyped DEF EndRound, ForwardAt, TypeOK
<1>1. CASE ~changed[b]
  <2>1. \A i \in 1..Len(prog.calls) : i < at[b]
    BY <1>0
  <2>2. \A i \in 1..Len(prog.calls) : Handed(i)
    BY <1>0, <1>1, <2>1 DEF ForwardAt
  <2>3. QED
    BY <1>0, <2>2 DEF Closed, Handed
<1>2. CASE changed[b]
  <2>1. round[b] = MaxRounds /\ MaxRounds \in Nat
    BY <1>0, <1>2, RoundsAssumption DEF Again
  <2>2. Cardinality(Added) >= MaxRounds /\ Added \subseteq Forwarders
    BY <1>0, <1>2, <2>1 DEF ForwardAt
  <2>3. prog \in Programs
    BY DEF TypeOK
  <2>4. Cardinality(Forwarders) <= MaxRounds
    BY <2>3 DEF EnoughRounds, Forwarders
  <2>5. IsFiniteSet(Forwarders) /\ Cardinality(Forwarders) \in Nat
    BY ForwardersFinite
  <2>6. /\ Cardinality(Added) <= Cardinality(Forwarders) /\ IsFiniteSet(Added)
        /\ Cardinality(Forwarders) = Cardinality(Added) => Forwarders = Added
    BY <2>2, <2>5, FS_Subset
  <2>7. Cardinality(Added) \in Nat
    BY <2>6, FS_CardinalityType
  <2>8. Forwarders = Added
    BY <2>1, <2>2, <2>4, <2>5, <2>6, <2>7
  <2>9. \A i \in 1..Len(prog.calls) : prog.calls[i][1] \in lists
    BY <1>0, <2>8 DEF Forwarders, Added
  <2>10. QED
    BY <1>0, <2>9 DEF Closed
<1>3. QED
  BY <1>1, <1>2

(* A round that added nothing leaves a closed set, and one that added      *)
(* something leaves callers to add within the bound.                       *)
LEMMA EndRoundAlone ==
  ASSUME TypeOK, OnlyLists, EnoughRounds, NEW b \in Backends, AloneAt(b), EndRound(b),
         prog' = prog
  PROVE  AloneAt(b)'
<1>0. /\ pc[b] = "forward" /\ ForwardAt(b) /\ lists' = lists
      /\ changed'[b] = FALSE /\ at'[b] = 1 /\ round[b] \in Nat
  BY DEF EndRound, AloneAt, Goto, TypeOK
<1>1. CASE Again(b)
  <2>1. pc'[b] = "forward" /\ round'[b] = round[b] + 1 /\ changed[b]
    BY <1>0, <1>1 DEF EndRound, Goto, Again, TypeOK
  <2>2. Added' = Added /\ Forwarders' = Forwarders
    BY <1>0 DEF Added, Forwarders
  <2>3. ForwardAt(b)'
    <3>1. Cardinality(Added) >= round[b] /\ IsFiniteSet(Added)
      BY <1>0, <2>1, ForwardersFinite, FS_Subset DEF ForwardAt
    <3>2. Cardinality(Added) \in Nat
      BY <3>1, FS_CardinalityType
    <3>3. Cardinality(Added') + 1 >= round'[b]
      BY <1>0, <2>1, <2>2, <3>1, <3>2
    <3>4. \A i \in 1..Len(prog.calls) : ~(i < at'[b])
      BY <1>0
    <3>5. QED
      BY <1>0, <2>1, <2>2, <3>3, <3>4 DEF ForwardAt
  <2>4. QED
    BY <2>1, <2>3 DEF AloneAt, SeedAt, TextAt, ReadyAt
<1>2. CASE ~Again(b)
  <2>1. pc'[b] = "proto"
    BY <1>0, <1>2 DEF EndRound, Goto, TypeOK
  <2>2. lists' = ListParams'
    BY <1>0, <1>2, LoopCloses, ClosedHasLists, ListParamsFixed
  <2>3. Looped(b, ListParams, proto[b])'
    BY <1>0 DEF Looped
  <2>4. QED
    BY <2>1, <2>2, <2>3 DEF AloneAt, SeedAt, ForwardAt, TextAt, ReadyAt
<1>3. QED
  BY <1>1, <1>2

(* A loop over the functions that declares by the map: what it has passed  *)
(* is declared, and at its end all list parameters are.                    *)
LEMMA LoopEnds ==
  ASSUME TypeOK, NEW b \in Backends, NEW T, Looped(b, lists, T),
         lists \subseteq prog.direct \cup Forwarders,
         ~(at[b] <= Len(prog.functions))
  PROVE  lists \subseteq T
<1> SUFFICES ASSUME NEW f \in lists PROVE f \in T
  OBVIOUS
<1>1. PICK i \in 1..Len(prog.functions) : f = prog.functions[i]
  BY ProgramTyped, ForwardersFinite
<1>2. i < at[b]
  BY ProgramTyped DEF TypeOK
<1>3. QED
  BY <1>1, <1>2 DEF Looped

(* The list parameters are those of functions that use or forward them.    *)
LEMMA ListsAreOwned ==
  ASSUME TypeOK
  PROVE  ListParams \subseteq prog.direct \cup Forwarders
<1> DEFINE S == prog.direct \cup Forwarders
<1>1. S \in SUBSET Functions
  BY ProgramTyped, ForwardersFinite DEF Forwarders
<1>2. Closed(S)
  BY DEF Closed, Forwarders
<1>3. QED
  BY <1>1, <1>2 DEF ListParams

(* The prototypes declare the list parameters, from the first function to  *)
(* the one before the next.                                                *)
LEMMA PrototypeAlone ==
  ASSUME TypeOK, NEW b \in Backends, AloneAt(b), Prototype(b), prog' = prog
  PROVE  AloneAt(b)'
<1>0. /\ pc[b] = "proto" /\ lists = ListParams /\ Looped(b, ListParams, proto[b])
      /\ lists' = lists /\ defined' = defined /\ ListParams' = ListParams
  BY ListParamsFixed DEF Prototype, AloneAt, TextAt
<1>1. CASE at[b] <= Len(prog.functions)
  <2>1. /\ pc'[b] = "proto" /\ at'[b] = at[b] + 1 /\ at[b] \in Nat
        /\ proto'[b] = IF Declares(Function(b)) THEN proto[b] \cup {Function(b)} ELSE proto[b]
    BY <1>0, <1>1 DEF Prototype, Advance, TypeOK
  <2>2. Looped(b, ListParams, proto[b])'
    <3> SUFFICES ASSUME NEW i \in 1..Len(prog.functions), i < at[b] + 1,
                        prog.functions[i] \in ListParams
                 PROVE  prog.functions[i] \in proto'[b]
      BY <1>0, <2>1 DEF Looped
    <3>1. CASE i < at[b]
      BY <1>0, <2>1, <3>1 DEF Looped
    <3>2. CASE i = at[b]
      BY <1>0, <2>1, <3>2 DEF Function, Declares
    <3>3. QED
      BY <2>1, <3>1, <3>2
  <2>3. QED
    BY <1>0, <2>1, <2>2 DEF AloneAt, SeedAt, ForwardAt, TextAt, ReadyAt
<1>2. CASE ~(at[b] <= Len(prog.functions))
  <2>1. pc'[b] = "define" /\ at'[b] = 1 /\ proto' = proto
    BY <1>0, <1>2 DEF Prototype, Goto, TypeOK
  <2>2. ListParams \subseteq proto[b]
    BY <1>0, <1>2, LoopEnds, ListsAreOwned
  <2>3. Looped(b, ListParams, defined[b])'
    BY <2>1 DEF Looped
  <2>4. QED
    BY <1>0, <2>1, <2>2, <2>3 DEF AloneAt, SeedAt, ForwardAt, TextAt, ReadyAt
<1>3. QED
  BY <1>1, <1>2

(* So do the definitions.                                                  *)
LEMMA DefineAlone ==
  ASSUME TypeOK, NEW b \in Backends, AloneAt(b), Define(b), prog' = prog
  PROVE  AloneAt(b)'
<1>0. /\ pc[b] = "define" /\ lists = ListParams /\ Looped(b, ListParams, defined[b])
      /\ ListParams \subseteq proto[b]
      /\ lists' = lists /\ proto' = proto /\ ListParams' = ListParams
  BY ListParamsFixed DEF Define, AloneAt, TextAt
<1>1. CASE at[b] <= Len(prog.functions)
  <2>1. /\ pc'[b] = "define" /\ at'[b] = at[b] + 1 /\ at[b] \in Nat
        /\ defined'[b] = IF Declares(Function(b))
                         THEN defined[b] \cup {Function(b)} ELSE defined[b]
    BY <1>0, <1>1 DEF Define, Advance, TypeOK
  <2>2. Looped(b, ListParams, defined[b])'
    <3> SUFFICES ASSUME NEW i \in 1..Len(prog.functions), i < at[b] + 1,
                        prog.functions[i] \in ListParams
                 PROVE  prog.functions[i] \in defined'[b]
      BY <1>0, <2>1 DEF Looped
    <3>1. CASE i < at[b]
      BY <1>0, <2>1, <3>1 DEF Looped
    <3>2. CASE i = at[b]
      BY <1>0, <2>1, <3>2 DEF Function, Declares
    <3>3. QED
      BY <2>1, <3>1, <3>2
  <2>3. QED
    BY <1>0, <2>1, <2>2 DEF AloneAt, SeedAt, ForwardAt, TextAt, ReadyAt
<1>2. CASE ~(at[b] <= Len(prog.functions))
  <2>1. pc'[b] = "done" /\ at'[b] = 1 /\ defined' = defined
    BY <1>0, <1>2 DEF Define, Goto, TypeOK
  <2>2. ListParams \subseteq defined[b]
    BY <1>0, <1>2, LoopEnds, ListsAreOwned
  <2>3. QED
    BY <1>0, <2>1, <2>2 DEF AloneAt, SeedAt, ForwardAt, TextAt, ReadyAt
<1>3. QED
  BY <1>1, <1>2

(* Clearing the shared set begins a pass with nothing in it.               *)
LEMMA ClearAlone ==
  ASSUME TypeOK, NEW b \in Backends, AloneAt(b), Clear(b), prog' = prog
  PROVE  AloneAt(b)'
<1>1. /\ pc'[b] = "seed" /\ at'[b] = 1 /\ lists' = {} /\ ~changed'[b]
  BY DEF Clear, Goto, TypeOK, AloneAt, ReadyAt
<1>2. Looped(b, prog.direct, lists)'
  BY <1>1 DEF Looped
<1>3. QED
  BY <1>1, <1>2 DEF AloneAt, SeedAt, ForwardAt, TextAt, ReadyAt

(* Every step keeps the invariant of the one thread.                       *)
LEMMA AloneNext ==
  ASSUME TypeOK, OnlyLists, AloneInv, EnoughRounds, IsFiniteSet(Backends), [Next]_vars
  PROVE  AloneInv'
<1> SUFFICES ASSUME prog'.slots = 1
             PROVE  OneActive' /\ \A b \in Backends : AloneAt(b)'
  BY DEF AloneInv
<1>1. CASE UNCHANGED vars \/ Collide
  <2>1. UNCHANGED <<prog, pc, at, round, changed, lists, proto, defined>>
    BY <1>1 DEF vars, Collide, local, text
  <2>2. OneActive /\ \A b \in Backends : AloneAt(b)
    BY <2>1 DEF AloneInv
  <2>3. OneActive'
    BY <2>1, <2>2 DEF OneActive, Active
  <2>4. ASSUME NEW b \in Backends PROVE AloneAt(b)'
    <3>1. AloneAt(b) /\ ListParams' = ListParams /\ Added' = Added /\ Forwarders' = Forwarders
      BY <2>1, <2>2, ListParamsFixed DEF Added, Forwarders
    <3>2. SeedAt(b)'
      BY <2>1, <3>1 DEF AloneAt, SeedAt, Looped
    <3>3. ForwardAt(b)'
      BY <2>1, <3>1 DEF AloneAt, ForwardAt, Handed
    <3>4. TextAt(b)' /\ ReadyAt(b)'
      BY <2>1, <3>1 DEF AloneAt, TextAt, ReadyAt, Looped
    <3>5. QED
      BY <3>2, <3>3, <3>4 DEF AloneAt
  <2>5. QED
    BY <2>3, <2>4
<1>2. ASSUME NEW b \in Backends, Generate(b)
      PROVE  OneActive' /\ \A c \in Backends : AloneAt(c)'
  <2>0. prog' = prog
    BY <1>2 DEF Generate
  <2>1. prog.slots = 1 /\ OneActive /\ \A c \in Backends : AloneAt(c)
    BY <2>0 DEF AloneInv
  <2>2. /\ OneActive'
        /\ \A c \in Backends \ {b} : pc[c] \in {"wait", "done"} /\ changed'[c] = changed[c]
    BY <1>2, <2>1, OneActiveStep
  <2>3. ASSUME NEW c \in Backends, c # b PROVE AloneAt(c)'
    BY <1>2, <2>0, <2>1, <2>2, <2>3, OthersKeep, AloneKept
  <2>4. AloneAt(b)'
    BY <1>2, <2>0, <2>1, ClearAlone, SeedAlone, ForwardAlone, EndRoundAlone,
       PrototypeAlone, DefineAlone DEF Generate
  <2>5. QED
    BY <2>2, <2>3, <2>4
<1>3. QED
  BY <1>1, <1>2 DEF Next

(* With one thread, and with no more parameters to add than the loop has   *)
(* rounds, every list parameter is declared as one and no other is, for    *)
(* every program, whatever is left in the map and in whatever order the    *)
(* calls come.                                                             *)
THEOREM AloneComplete ==
  EnoughRounds /\ IsFiniteSet(Backends) => (Spec => []AloneDeclared)
<1> SUFFICES ASSUME EnoughRounds, IsFiniteSet(Backends) PROVE Spec => []AloneDeclared
  OBVIOUS
<1>1. Init => AloneInv
  <2> SUFFICES ASSUME Init PROVE AloneInv
    OBVIOUS
  <2>1. Active = {}
    BY DEF Init, Active
  <2>2. \A b \in Backends : pc[b] = "wait" /\ ~changed[b]
    BY DEF Init
  <2>3. QED
    BY <2>1, <2>2 DEF AloneInv, OneActive, AloneAt, SeedAt, ForwardAt, TextAt, ReadyAt
<1>2. IInv /\ AloneInv /\ [Next]_vars => AloneInv'
  BY AloneNext DEF IInv
<1>3. IInv /\ AloneInv => AloneDeclared
  <2> SUFFICES ASSUME IInv, AloneInv, prog.slots = 1, NEW b \in Backends, Done(b)
               PROVE  proto[b] = ListParams /\ defined[b] = ListParams
    BY DEF AloneDeclared, AllDeclared
  <2>1. ListParams \subseteq proto[b] /\ ListParams \subseteq defined[b]
    BY DEF AloneInv, AloneAt, TextAt, Done
  <2>2. QED
    BY <2>1 DEF IInv, OnlyLists
<1>4. QED
  BY <1>1, <1>2, <1>3, Invariance, PTL DEF Spec
=============================================================================
