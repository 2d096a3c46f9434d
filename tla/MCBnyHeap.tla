------------------------------ MODULE MCBnyHeap ------------------------------
(* Instances: two variables that may share, two keys, small seeds so that  *)
(* lists and dicts outgrow their blocks, regions that fill up, and ranges     *)
(* with an element and without one.                                        *)
EXTENDS BnyHeap, TLC

CONSTANTS v1, v2
MCVars == {v1, v2}
VarsAlike == Permutations(MCVars)

MCLiterals == {<<1, 2>>}
MCRanges == {<<>>, <<1>>}
MCPairs == {<<<<3, 1>>, <<3, 2>>>>}
=============================================================================
