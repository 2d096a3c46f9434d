-------------------------- MODULE UncachedCompiler --------------------------
(***************************************************************************)
(* The abstract specification of the driver: every compilation sees one    *)
(* source text and one state of the imports, and delivers exactly what     *)
(* those and its own command line determine.  There is no disk.            *)
(***************************************************************************)
EXTENDS BuildModel

CONSTANT Procs
VARIABLES text, deps, build, stage, req, snap, outcome

absVars == <<text, deps, build, stage, req, snap, outcome>>

AbsInit ==
  /\ text \in Texts /\ deps \in Deps /\ build \in Builds
  /\ stage = [p \in Procs |-> "idle"]
  /\ req \in [Procs -> Requests]
  /\ snap = [p \in Procs |-> [text |-> text, deps |-> deps, build |-> build]]
  /\ outcome = [p \in Procs |-> NoOutcome]

Begin(p) ==
  /\ stage[p] = "idle"
  /\ stage' = [stage EXCEPT ![p] = "source"]
  /\ \E r \in Requests : req' = [req EXCEPT ![p] = r]
  /\ snap' = [snap EXCEPT ![p] = [@ EXCEPT !.text = text, !.build = build]]
  /\ outcome' = [outcome EXCEPT ![p] = NoOutcome]
  /\ UNCHANGED <<text, deps, build>>

Resolve(p) ==
  /\ stage[p] = "source"
  /\ ~SyntaxRejected(snap[p].text, req[p].lenient)
  /\ stage' = [stage EXCEPT ![p] = "imports"]
  /\ snap' = [snap EXCEPT ![p].deps = deps]
  /\ UNCHANGED <<text, deps, build, req, outcome>>

Deliver(p) ==
  /\ \/ stage[p] = "imports"
     \/ stage[p] = "source" /\ SyntaxRejected(snap[p].text, req[p].lenient)
  /\ stage' = [stage EXCEPT ![p] = "idle"]
  /\ outcome' = [outcome EXCEPT ![p] =
       FreshOutcome(snap[p].text, snap[p].deps, snap[p].build, req[p])]
  /\ UNCHANGED <<text, deps, build, req, snap>>

Abandon(p) ==
  /\ stage[p] # "idle"
  /\ stage' = [stage EXCEPT ![p] = "idle"]
  /\ UNCHANGED <<text, deps, build, req, snap, outcome>>

Change ==
  /\ text' \in Texts /\ deps' \in Deps /\ build' \in Builds
  /\ UNCHANGED <<stage, req, snap, outcome>>

AbsNext ==
  \/ Change
  \/ \E p \in Procs : Begin(p) \/ Resolve(p) \/ Deliver(p) \/ Abandon(p)

AbsSpec == AbsInit /\ [][AbsNext]_absVars
=============================================================================
