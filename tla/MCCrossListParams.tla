-------------------------- MODULE MCCrossListParams --------------------------
(***************************************************************************)
(* Two backends and programs of three functions.                           *)
(***************************************************************************)
EXTENDS CrossListParams, SequencesExt

MCFunctions == {"f", "g", "h"}
Program(direct, calls, slots) ==
  [functions |-> <<"f", "g", "h">>, direct |-> direct, calls |-> calls,
   slots |-> slots]

(* One thread and all programs with up to three forwarding calls.          *)
Sequential ==
  {Program(d, c, 1) : d \in SUBSET MCFunctions,
                      c \in SeqOf(MCFunctions \X MCFunctions, 3)}

(* Two threads and a chain whose calls come in the order that needs a      *)
(* round for each, two functions that forward to each other, and a chain   *)
(* that needs one round.                                                   *)
Racing ==
  {Program({"h"}, <<<<"f", "g">>, <<"g", "h">>>>, 2),
   Program({"g"}, <<<<"f", "g">>, <<"g", "f">>, <<"h", "f">>>>, 2),
   Program({}, <<<<"g", "h">>>>, 2)}

SequentialAndRacing == Sequential \cup Racing
=============================================================================
