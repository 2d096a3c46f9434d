----------------------------- MODULE MCBnyMachine -----------------------------
(* Instances: every main with every f and every g below.  Temporaries are  *)
(* numbers, 0 for none, and the pool has two registers, so that three      *)
(* values at once do not fit.                                              *)
EXTENDS BnyMachine

I(op, res, uses) == [op |-> op, res |-> res, uses |-> uses, lab |-> "-"]
L(op, res, uses, lab) == [op |-> op, res |-> res, uses |-> uses, lab |-> lab]
Do(op) == I(op, 0, {})

Mains == {
  << I("MAKE", 1, {}), I("MAKE", 2, {}), L("CALL", 3, {1}, "f"),
     I("MAKE", 4, {2, 3}), I("MAKE", 5, {1, 4}) >>,
  << I("MAKE", 1, {}), Do("TRY_BEGIN"), L("CALL", 2, {}, "f"), I("MAKE", 3, {2}),
     Do("CATCH_BEGIN"), I("MAKE", 4, {1}), Do("AFTER_BEGIN"), I("MAKE", 5, {1}),
     Do("TRY_END"), I("DIVIDE", 6, {1}) >>,
  << I("GEN_CREATE", 1, {}), I("MAKE", 2, {}), L("LABEL", 0, {}, "a"),
     I("GEN_NEXT", 3, {1}), I("MAKE", 4, {2, 3}), L("JUMP_IF_TRUE", 0, {4}, "a"),
     L("CALL", 5, {4}, "f") >>,
  << I("GEN_CREATE", 1, {}), I("MAKE", 2, {}), I("GEN_NEXT", 6, {1}), Do("TRY_BEGIN"),
     I("GEN_NEXT", 3, {1}), I("DIVIDE", 4, {3}), Do("CATCH_BEGIN"), I("MAKE", 5, {2}),
     Do("TRY_END"), I("GEN_NEXT", 5, {1}), I("DIVIDE", 6, {2, 5}) >>,
  << I("GEN_CREATE", 1, {}), I("GEN_CREATE", 2, {}), I("GEN_NEXT", 3, {1}),
     I("GEN_NEXT", 4, {2}), I("MAKE", 5, {3, 4}), I("GEN_NEXT", 6, {1}), I("MAKE", 0, {5, 6}) >>,
  << I("MAKE", 1, {}), L("LABEL", 0, {}, "a"), Do("LOCK_BEGIN"), I("MAKE", 2, {1}),
     Do("LOCK_END"), I("RANGE", 3, {2}), L("JUMP_IF_TRUE", 0, {3}, "a"),
     I("MAKE", 4, {}), L("CALL", 5, {}, "f"), I("MAKE", 6, {4, 5}) >>,
  << Do("TRY_BEGIN"), Do("LOCK_BEGIN"), I("DIVIDE", 1, {}), Do("LOCK_END"), Do("CATCH_BEGIN"),
     Do("TRY_END"), Do("LOCK_BEGIN"), Do("LOCK_END"), I("CONSTRUCT", 2, {}), I("MAKE", 3, {2}) >>,
  << I("MAKE", 1, {}), Do("TRY_BEGIN"), Do("TRY_BEGIN"), I("DIVIDE", 2, {1}), Do("CATCH_BEGIN"),
     I("DIVIDE", 3, {1}), Do("AFTER_BEGIN"), L("CALL", 4, {1}, "f"), Do("TRY_END"),
     Do("CATCH_BEGIN"), I("MAKE", 5, {1}), Do("TRY_END"), I("MAKE", 6, {1}) >>,
  << I("DIVIDE", 1, {}), Do("TRY_BEGIN"), I("DIVIDE", 2, {1}), Do("CATCH_BEGIN"), Do("TRY_BEGIN"),
     L("CALL", 3, {}, "f"), Do("CATCH_BEGIN"), Do("AFTER_BEGIN"), Do("TRY_END"), I("MAKE", 4, {1}),
     Do("TRY_END") >>,
  << I("GEN_CREATE", 1, {}), I("CONSTRUCT", 2, {}), I("GEN_NEXT", 3, {1}), I("MAKE", 4, {2, 3}) >> }

Fs == {
  << I("DIVIDE", 1, {}), I("MAKE", 2, {}), I("MAKE", 3, {1}), I("MAKE", 4, {1, 2, 3}), I("RETURN", 0, {4}) >>,
  << Do("TRY_BEGIN"), I("MAKE", 1, {}), I("RETURN", 0, {1}), Do("CATCH_BEGIN"), Do("TRY_END") >>,
  << I("MAKE", 1, {}), Do("TRY_BEGIN"), I("DIVIDE", 2, {1}), Do("CATCH_BEGIN"), Do("TRY_END"),
     I("MAKE", 3, {1}), I("RETURN", 0, {3}) >>,
  << I("MAKE", 1, {}), I("RANGE", 2, {1}), I("MAKE", 3, {2}) >>,
  << I("MAKE", 1, {}), Do("TRY_BEGIN"), L("JUMP_IF_TRUE", 0, {1}, "c"), L("CALL", 2, {}, "f"),
     I("DIVIDE", 3, {1, 2}), L("LABEL", 0, {}, "c"), Do("CATCH_BEGIN"), Do("TRY_END"), I("RETURN", 0, {1}) >> }

Gs == {
  << I("MAKE", 1, {}), I("YIELD", 0, {1}), I("MAKE", 2, {1}), I("YIELD", 0, {2}) >>,
  << I("MAKE", 1, {}), L("LABEL", 0, {}, "b"), L("CALL", 2, {1}, "f"), I("MAKE", 3, {1, 2}),
     I("YIELD", 0, {3}), L("JUMP_IF_TRUE", 0, {2}, "b") >>,
  << Do("TRY_BEGIN"), I("MAKE", 1, {}), I("YIELD", 0, {1}), Do("CATCH_BEGIN"), Do("TRY_END"),
     I("DIVIDE", 2, {}) >>,
  << Do("TRY_BEGIN"), I("DIVIDE", 1, {}), Do("CATCH_BEGIN"), Do("TRY_END"), I("MAKE", 2, {}),
     I("YIELD", 0, {2}), Do("RETURN") >> }

MCPrograms == {[main |-> m, f |-> f, g |-> g] : m \in Mains, f \in Fs, g \in Gs}
MCCodes == Mains \cup Fs \cup Gs
MCTemps == 1..6

(* What the proofs suppose of programs holds of these.                     *)
ASSUME HypothesesMet == Nested /\ OneGenerator /\ Assigned
=============================================================================
