----------------------------- MODULE BackendJobs -----------------------------
(***************************************************************************)
(* What `ac f.ac --all` promises, whatever its threads do: backends are    *)
(* taken in order, each once; a backend that was taken ends as a success   *)
(* or as a failure; the exit code is given when all have ended and is 1    *)
(* exactly if one of them failed.                                          *)
(***************************************************************************)
EXTENDS Integers

CONSTANT Count   \* how many backends there are

VARIABLES
  taken,     \* the first `taken` backends were taken
  running,   \* the numbers of the backends that have not ended
  ok, fail,  \* how many succeeded, how many failed
  exit       \* the process's exit code, -1 while it runs

jobVars == <<taken, running, ok, fail, exit>>

JobsInit ==
  /\ taken = 0
  /\ running = {}
  /\ ok = 0
  /\ fail = 0
  /\ exit = -1

Take ==
  /\ exit = -1
  /\ taken < Count
  /\ taken' = taken + 1
  /\ running' = running \cup {taken + 1}
  /\ UNCHANGED <<ok, fail, exit>>

End(j) ==
  /\ running' = running \ {j}
  /\ \/ ok' = ok + 1 /\ UNCHANGED fail
     \/ fail' = fail + 1 /\ UNCHANGED ok
  /\ UNCHANGED <<taken, exit>>

Report ==
  /\ exit = -1
  /\ taken = Count
  /\ running = {}
  /\ exit' = IF fail > 0 THEN 1 ELSE 0
  /\ UNCHANGED <<taken, running, ok, fail>>

JobsNext == Take \/ (\E j \in running : End(j)) \/ Report

JobsSpec == JobsInit /\ [][JobsNext]_jobVars
=============================================================================
