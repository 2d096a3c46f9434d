----------------------------- MODULE MCDataImports -----------------------------
(***************************************************************************)
(* A program R and three files A, B, C.  Every file defines f, which calls *)
(* the private h and the f of what it imports, g, which nothing of its own *)
(* file calls, and a variable v set from those of its imports.             *)
(***************************************************************************)
EXTENDS DataImports

Node(kind, name, f, refs) ==
  [kind |-> kind, name |-> name, file |-> f, exported |-> FALSE, refs |-> refs]
Use(f, g) == [kind |-> "use", target |-> g, file |-> f]
Exported(n) == [n EXCEPT !.exported = TRUE]

Kinds == {"plain", "prefix", "list", "lib"}

(* The nodes of file f that imports the sequence us.                       *)
Nodes(f, kind, us) ==
  LET seen == ToSet(us)
      F == Node("func", <<"f", f>>, f, {<<"h", f>>} \cup {<<"f", g>> : g \in seen})
      G == Node("func", <<"g", f>>, f, {})
      H == Node("func", <<"h", f>>, f, {})
      V == Node("var", <<"v", f>>, f, {<<"v", g>> : g \in seen})
      S == Node("stmt", "none", f, {<<"g", g>> : g \in seen} \cup {<<"v", g>> : g \in seen})
      E == Node("export", "none", f, {<<"f", f>>, <<"g", f>>})
      head == Node("backend", IF kind = "lib" THEN "LIB" ELSE "PY", f, {})
  IN <<head>> \o [i \in 1..Len(us) |-> Use(f, us[i])]
       \o CASE kind = "prefix" -> <<Exported(F), Exported(G), H, Exported(V)>>
            [] kind = "list"   -> <<F, G, H, V, E>>
            [] OTHER           -> <<H, F, V, G>>
       \o <<S>>

Content(f, kind, us, opens) ==
  [opens |-> opens, dir |-> "src", nodes |-> Nodes(f, kind, us)]

Lists(S, lo, hi) == {s \in BoundedSeq(S, hi) : Len(s) >= lo /\ IsInjective(s)}

MCFiles == {"R", "A", "B", "C"}

(* All ways R, A, B and C may import each other, two imports at most.      *)
Graphs ==
  {[f \in MCFiles |->
      CASE f = "R" -> Content("R", "plain", r, TRUE)
        [] f = "A" -> Content("A", ka, a, TRUE)
        [] f = "B" -> Content("B", kb, b, TRUE)
        [] f = "C" -> Content("C", kc, c, kc # "missing")] :
     r \in {<<"A">>, <<"B", "A">>}, a \in Lists({"B", "C"}, 0, 2),
     b \in Lists({"A", "C", "R"}, 0, 2), c \in {<<>>, <<"A">>},
     ka \in {"plain", "prefix", "lib"}, kb \in {"list", "lib"},
     kc \in {"plain", "prefix", "missing"}}

-----------------------------------------------------------------------------
(* The data files: tables of up to two rows over the keys id, pid and      *)
(* name, each row on a line or on several, with and without blank lines.   *)
MCKeys == {"id", "pid", "name"}
MCTailOf == {<<k, k>> : k \in MCKeys} \cup {<<"id", "pid">>}

Plain(k) == [key |-> k, odd |-> FALSE, says |-> {}]
Says(k, l) == [key |-> k, odd |-> FALSE, says |-> {l}]

L(kind, fs) == [kind |-> kind, fields |-> fs]

(* The lines of one row.                                                   *)
Layouts == {"line", "spread", "half"}
RowLines(r, layout, blank) ==
  (CASE layout = "line" -> <<L("fields", r)>>
     [] layout = "spread" -> [i \in 1..Len(r) |-> L("fields", <<r[i]>>)]
     [] layout = "half" ->
          IF Len(r) < 3 THEN <<L("fields", r)>>
          ELSE <<L("fields", SubSeq(r, 1, 2)), L("fields", SubSeq(r, 3, Len(r)))>>)
    \o (IF blank THEN <<L("blank", <<>>)>> ELSE <<>>)

(* The document of the rows rs; `first` puts the first row behind "{".     *)
Document(rs, layouts, blanks, closed, first) ==
  LET body(n) == RowLines(rs[n], layouts[n], blanks[n])
      start == IF first /\ rs # <<>> THEN 2 ELSE 1
  IN [rows  |-> rs,
      lines |-> <<L("schema", <<>>), L("open", IF start = 2 THEN rs[1] ELSE <<>>)>>
                \o FlattenSeq([n \in 1..(Len(rs) - start + 1) |-> body(n + start - 1)])
                \o (IF closed THEN <<L("close", <<>>), L("blank", <<>>)>> ELSE <<>>)]

AllDocuments(rowSet, layouts, first) ==
  UNION {{Document(rs, ls, bs, c, f) :
            rs \in [1..n -> rowSet], ls \in [1..n -> layouts],
            bs \in [1..n -> BOOLEAN], c \in BOOLEAN, f \in first} : n \in 0..2}

(* Rows with the same first key and no key or value that hides another.    *)
CleanRows == {<<Plain("id")>>, <<Plain("id"), Plain("name")>>,
              <<Plain("id"), Plain("pid"), Plain("name")>>,
              <<Says("id", "pid"), Plain("name")>>}
CleanDocuments == AllDocuments(CleanRows, Layouts, BOOLEAN)

(* The program imports two data files, one after the other, either of      *)
(* which may be missing; the first may be any.                             *)
Data(name, files) ==
  [kind |-> "datac", name |-> name, file |-> "R", refs |-> {}, exported |-> FALSE, data |-> files]
Small == {<<>>, "src" :> Document(<<<<Plain("id")>>>>, <<"line">>, <<FALSE>>, TRUE, FALSE)}
DataPrograms ==
  {[f \in MCFiles |->
      CASE f = "R" -> [Content("R", "plain", us, TRUE) EXCEPT
                         !.nodes = InsertAt(InsertAt(@, 2, Data("d", d)), 2, Data("e", e))]
        [] OTHER   -> Content(f, "lib", <<>>, TRUE)] :
     us \in {<<"A">>}, d \in Small, e \in {"src" :> x : x \in CleanDocuments}}

GraphsAndData == Graphs \cup DataPrograms

(* What the proofs suppose of programs holds of these.                     *)
ASSUME VariablesImported == MentionsImported
=============================================================================
