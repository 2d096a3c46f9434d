---------------------------- MODULE MCAllBackends ----------------------------
(***************************************************************************)
(* A pool of two threads, every kind of program, and both kinds of host.   *)
(***************************************************************************)
EXTENDS AllBackends

AnyProgram ==
  [cycles : BOOLEAN, entry : BOOLEAN, infinite : BOOLEAN, arm : BOOLEAN]

(* std::sort of the sixteen names.                                         *)
Sixteen == <<"ARM", "ASM", "BNY", "C", "C++", "CPP", "GO", "HTML", "JS",
             "Java", "LIB", "PY", "RISC", "RS", "V", "x86">>

(* The ones whose files do not meet: ARM's image has the name of BNY's, and *)
(* on an ARM host ASM's text that of RISC's and BNY's intermediary C's.     *)
Apart == SelectSeq(Sixteen, LAMBDA b : b \notin {"ARM", "ASM", "C"})
=============================================================================
