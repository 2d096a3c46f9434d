--------------------------- MODULE CrossListParams ---------------------------
(***************************************************************************)
(* generateFromIR of the text backends under `--all`.  Each first fills    *)
(* the map g_crossListParams with the functions whose parameter is a list  *)
(* because they hand it to one that uses it as a list, and then generates  *)
(* text that declares the parameters by that map.  The map is one static   *)
(* variable, which all the threads of the pool clear, fill and read.       *)
(*                                                                         *)
(* A function stands for its one parameter, and the map for the set of the *)
(* functions in it.  A call instruction is one step.  The reads of the map *)
(* for the argument flags of calls and for return types are left out: they *)
(* go with those of the definitions.                                       *)
(***************************************************************************)
EXTENDS Integers, Sequences, FiniteSets

CONSTANTS
  Backends,    \* the text backends
  Functions,   \* the names of functions
  Programs,    \* records: the functions in order; those that use their
               \* parameter as a list themselves; and the calls in order,
               \* <<caller, callee>>, which forward the caller's parameter;
               \* with `slots`, how many backends the pool runs at once
  MaxRounds    \* the bound of the fixpoint loop, 50 in the code

ASSUME RoundsAssumption == MaxRounds \in Nat \ {0}
ASSUME ProgramsAssumption ==
  \A p \in Programs : /\ p.functions \in Seq(Functions)
                      /\ \A f \in p.direct : \E i \in 1..Len(p.functions) : f = p.functions[i]
                      /\ p.calls \in Seq(Functions \X Functions)
                      /\ \A c \in 1..Len(p.calls) :
                           \E i \in 1..Len(p.functions) : p.calls[c][1] = p.functions[i]
                      /\ p.slots \in Nat \ {0}

VARIABLES
  prog,     \* the program, the same for all
  pc,       \* where generateFromIR of a backend is
  at,       \* the function or the call its loop is at
  round,    \* the rounds of its fixpoint loop so far
  changed,  \* whether this round added a parameter
  lists,    \* g_crossListParams
  proto,    \* the list parameters its text declares in the prototypes
  defined,  \* those it declares in the definitions
  aborted   \* the process died of the race on the map

local == <<at, round, changed>>
text == <<proto, defined>>
vars == <<prog, pc, local, lists, text, aborted>>

Init ==
  /\ prog \in Programs
  /\ pc = [b \in Backends |-> "wait"]
  /\ at = [b \in Backends |-> 1]
  /\ round = [b \in Backends |-> 0]
  /\ changed = [b \in Backends |-> FALSE]
  /\ lists = {}
  /\ proto = [b \in Backends |-> {}]
  /\ defined = [b \in Backends |-> {}]
  /\ aborted = FALSE

Active == {b \in Backends : pc[b] \notin {"wait", "done"}}

Goto(b, p) == pc' = [pc EXCEPT ![b] = p] /\ at' = [at EXCEPT ![b] = 1]
Advance(b) == at' = [at EXCEPT ![b] = @ + 1] /\ UNCHANGED pc
Function(b) == prog.functions[at[b]]

-----------------------------------------------------------------------------
(* Plausible faults, for judging the properties.                           *)

Bug_Again(b) == FALSE                \* one pass only
Bug_Declares(f) == f \in lists       \* the function's own uses are forgotten
Bug_EndRound(b) ==                   \* `changed` stays and `guard` is not counted
  /\ pc[b] = "forward" /\ at[b] > Len(prog.calls)
  /\ IF changed[b] THEN Goto(b, "forward") ELSE Goto(b, "proto")
  /\ UNCHANGED <<round, changed, lists, text>>

-----------------------------------------------------------------------------
(* computeCrossListParams.                                                 *)

Clear(b) ==
  /\ pc[b] = "wait"
  /\ Cardinality(Active) < prog.slots
  /\ lists' = {}
  /\ Goto(b, "seed")
  /\ UNCHANGED <<round, changed, text>>

(* g_crossListParams[f.name] = detectListParams(f), by assignment.         *)
Seed(b) ==
  /\ pc[b] = "seed"
  /\ IF at[b] <= Len(prog.functions)
     THEN /\ lists' = IF Function(b) \in prog.direct
                      THEN lists \cup {Function(b)} ELSE lists \ {Function(b)}
          /\ Advance(b)
          /\ UNCHANGED round
     ELSE /\ Goto(b, "forward")
          /\ round' = [round EXCEPT ![b] = 1]
          /\ UNCHANGED lists
  /\ UNCHANGED <<changed, text>>

(* The callee's parameter is a list, so the argument is one.               *)
Forwards(call) == call[2] \in lists

Forward(b) ==
  LET call == prog.calls[at[b]]
  IN /\ pc[b] = "forward"
     /\ at[b] <= Len(prog.calls)
     /\ IF Forwards(call) /\ call[1] \notin lists
        THEN /\ lists' = lists \cup {call[1]}
             /\ changed' = [changed EXCEPT ![b] = TRUE]
        ELSE UNCHANGED <<lists, changed>>
     /\ Advance(b)
     /\ UNCHANGED <<round, text>>

(* while (changed && guard++ < 50)                                         *)
Again(b) == changed[b] /\ round[b] < MaxRounds

EndRound(b) ==
  /\ pc[b] = "forward"
  /\ at[b] > Len(prog.calls)
  /\ changed' = [changed EXCEPT ![b] = FALSE]
  /\ IF Again(b)
     THEN /\ round' = [round EXCEPT ![b] = @ + 1]
          /\ Goto(b, "forward")
     ELSE /\ round' = [round EXCEPT ![b] = 0]
          /\ Goto(b, "proto")
  /\ UNCHANGED <<lists, text>>

-----------------------------------------------------------------------------
(* UnifiedIRCodeGen::generate: all the prototypes, then the definitions.   *)

(* listParamsFor: the function's own uses and the map's entry.             *)
Declares(f) == f \in prog.direct \/ f \in lists

Prototype(b) ==
  /\ pc[b] = "proto"
  /\ IF at[b] <= Len(prog.functions)
     THEN /\ proto' = [proto EXCEPT ![b] =
                         IF Declares(Function(b)) THEN @ \cup {Function(b)} ELSE @]
          /\ Advance(b)
     ELSE Goto(b, "define") /\ UNCHANGED proto
  /\ UNCHANGED <<round, changed, lists, defined>>

Define(b) ==
  /\ pc[b] = "define"
  /\ IF at[b] <= Len(prog.functions)
     THEN /\ defined' = [defined EXCEPT ![b] =
                           IF Declares(Function(b)) THEN @ \cup {Function(b)} ELSE @]
          /\ Advance(b)
     ELSE Goto(b, "done") /\ UNCHANGED defined
  /\ UNCHANGED <<round, changed, lists, proto>>

Generate(b) ==
  /\ ~aborted
  /\ Clear(b) \/ Seed(b) \/ Forward(b) \/ EndRound(b) \/ Prototype(b) \/ Define(b)
  /\ UNCHANGED <<prog, aborted>>

(* A thread that changes the nodes of a std::map while another uses them:  *)
(* besides the outcomes above, the process may die of it.                  *)
Collide ==
  /\ ~aborted
  /\ prog.functions # <<>>
  /\ \E b, c \in Active : b # c /\ pc[b] \in {"seed", "forward"}
  /\ aborted' = TRUE
  /\ UNCHANGED <<prog, pc, local, lists, text>>

Next == Collide \/ \E b \in Backends : Generate(b)

Spec == Init /\ [][Next]_vars

(* Every thread runs on.                                                   *)
FairSpec == Spec /\ \A b \in Backends : WF_vars(Generate(b))

-----------------------------------------------------------------------------
(* Properties.                                                             *)

(* Every variable keeps its shape, and the guard of the fixpoint loop      *)
(* bounds its rounds.                                                      *)
TypeOK ==
  /\ prog \in Programs
  /\ pc \in [Backends -> {"wait", "seed", "forward", "proto", "define", "done"}]
  /\ at \in [Backends -> Nat \ {0}]
  /\ round \in [Backends -> 0..MaxRounds]
  /\ changed \in [Backends -> BOOLEAN]
  /\ lists \subseteq Functions
  /\ proto \in [Backends -> SUBSET Functions]
  /\ defined \in [Backends -> SUBSET Functions]
  /\ aborted \in BOOLEAN

(* What the map is for: the least set that has the functions that use      *)
(* their parameter as a list, and with a callee the callers that forward   *)
(* theirs to it.                                                           *)
Closed(S) ==
  /\ prog.direct \subseteq S
  /\ \A i \in 1..Len(prog.calls) : prog.calls[i][2] \in S => prog.calls[i][1] \in S
ListParams == {f \in Functions : \A S \in SUBSET Functions : Closed(S) => f \in S}

Done(b) == pc[b] = "done"

(* However the threads race, no scalar parameter is declared a list.       *)
OnlyLists ==
  /\ lists \subseteq ListParams
  /\ \A b \in Backends : proto[b] \cup defined[b] \subseteq ListParams

(* However the threads race, a parameter that its own function indexes is  *)
(* declared a list.                                                        *)
OwnUsesKept ==
  \A b \in Backends : Done(b) => /\ prog.direct \subseteq proto[b]
                                 /\ prog.direct \subseteq defined[b]

(* Every list parameter is declared as one, in the prototype and in the    *)
(* definition ("the forwarding function declared `xs` as a scalar" is what *)
(* the map was made against; "so the forward declaration and the           *)
(* definition agree on every parameter's type").                           *)
AllDeclared ==
  \A b \in Backends : Done(b) => proto[b] = ListParams /\ defined[b] = ListParams

(* They are where the pool has one thread, whatever the backend before has *)
(* left in the map and in whatever order the calls come.                   *)
AloneDeclared == prog.slots = 1 => AllDeclared

(* The loop ends, with an outcome of the race or without.                  *)
Ends == <>(aborted \/ \A b \in Backends : Done(b))
=============================================================================
