------------------------------ MODULE FlibInject ------------------------------
(***************************************************************************)
(* injectFlibModules and injectDatacImports: the AC source files a program *)
(* imports with `use flib` (elib and clib packages that are installed are  *)
(* rewritten to the same form) are spliced into its syntax tree before     *)
(* lowering, then each `use datac` becomes the assignments of its rows.    *)
(*                                                                         *)
(* The recursion of injectFlibModules is a stack: stack[d] is the file     *)
(* being injected at depth d, next[d] the child that call looks at and     *)
(* work[d] its other locals.  Imports may be shared, cyclic, or missing.   *)
(***************************************************************************)
EXTENDS Naturals, FiniteSets, SequencesExt

CONSTANTS
  Files,      \* canonical paths of AC source files
  Root,       \* the program given on the command line
  Dirs,       \* source directories
  Programs    \* what the files may hold: functions from Files to contents

ASSUME RootAssumption == Root \in Files
ASSUME ProgramsAssumption ==
  \A p \in Programs :
    /\ DOMAIN p = Files
    /\ \A f \in Files :
         /\ p[f].opens \in BOOLEAN /\ p[f].dir \in Dirs
         /\ p[f].nodes \in Seq(Range(p[f].nodes))
         /\ \A n \in Range(p[f].nodes) :
              /\ {"kind", "file"} \subseteq DOMAIN n /\ n.file = f
              /\ n.kind \in {"func", "var", "datac"} => "name" \in DOMAIN n
              /\ n.kind \in {"var", "stmt"} => "refs" \in DOMAIN n
              /\ n.kind = "use" => n.target \in Files

VARIABLES
  prog,       \* the files on disk, which do not change
  stack,      \* the calls of injectFlibModules in progress, innermost last
  next,       \* the child each of them looks at
  work,       \* their other locals
  visited,    \* files some import has reached
  chain,      \* g_importStack
  sources,    \* g_injectedSources: the files that were read
  cyclic,     \* files reported as cyclic imports
  at,         \* the child injectDatacImports looks at, 0 before it starts
  result      \* the program's tree, empty until the imports are in

vars == <<prog, stack, next, work, visited, chain, sources, cyclic, at, result>>

-----------------------------------------------------------------------------
(* Top-level nodes of a file.  kind is one of                              *)
(*   backend  the AC->X line, name "LIB" for a library                     *)
(*   use      `use flib` of an AC file not yet looked at                   *)
(*   inlined  the same, marked __inlined__                                 *)
(*   lib      any other library import      datac   a data file import     *)
(*   export   `export a, b`                 func    a function or bundle   *)
(*   var      a top-level assignment        stmt    anything else          *)
(* refs are the identifiers mentioned inside the node.                     *)

Defs(nodes) == {i \in 1..Len(nodes) : nodes[i].kind = "func"}
DefNames(nodes) == {nodes[i].name : i \in Defs(nodes)}
IsLibraryUse(n) == n.kind \in {"use", "inlined", "lib", "datac"}
IsHeader(n) == n.kind = "backend" \/ IsLibraryUse(n)

(* The export scan, made before the nested imports are spliced in.         *)
Exporters(nodes) ==
  {i \in 1..Len(nodes) :
     \/ nodes[i].kind = "export"
     \/ nodes[i].kind = "func" /\ nodes[i].exported}
ExportedNames(nodes) ==
  UNION {IF nodes[i].kind = "export" THEN nodes[i].refs ELSE {nodes[i].name} :
           i \in Exporters(nodes)}

IsLibFile(nodes) ==
  \E i \in 1..Len(nodes) :
    nodes[i].kind = "backend" /\ nodes[i].name = "LIB"

(* An exported definition takes along what it mentions, transitively.  Of  *)
(* two definitions of one name the map keeps the later.                    *)
Mentioned(nodes, name) ==
  IF name \notin DefNames(nodes) THEN {}
  ELSE LET last == SelectLastInSeq(nodes,
                     LAMBDA n : n.kind = "func" /\ n.name = name)
       IN nodes[last].refs \cap DefNames(nodes)

Bug_Needed(nodes, seeds) == seeds
Needed(nodes, seeds) ==
  LET grow[k \in 0..Len(nodes)] ==
        IF k = 0 THEN seeds
        ELSE UNION {{m} \cup Mentioned(nodes, m) : m \in grow[k - 1]}
  IN grow[Len(nodes)]

(* The nodes of a list that `keep` holds for, in their order.              *)
Kept(nodes, keep) ==
  LET kept[k \in 0..Len(nodes)] ==
        IF k = 0 THEN <<>>
        ELSE IF keep[k] THEN Append(kept[k - 1], nodes[k]) ELSE kept[k - 1]
  IN kept[Len(nodes)]

(* The library imports and the definitions with the names S.               *)
Shown(nodes, S) ==
  Kept(nodes, [i \in 1..Len(nodes) |->
                 \/ IsLibraryUse(nodes[i])
                 \/ nodes[i].kind = "func" /\ nodes[i].name \in S])

(* What an importer receives of a file whose own imports are done.         *)
Bug_Forwarded(nodes, original) ==
  LET all == IsLibFile(nodes) \/ Exporters(nodes) = {}
      needed == Needed(nodes, ExportedNames(nodes))
  IN Shown(nodes, IF all THEN DefNames(nodes) ELSE needed)
Forwarded(nodes, original) ==
  LET all == IsLibFile(nodes) \/ Exporters(original) = {}
      needed == Needed(nodes, ExportedNames(original))
  IN Shown(nodes, IF all THEN DefNames(nodes) ELSE needed)

ForwardedVars(nodes) ==
  LET taken == Kept(nodes, [i \in 1..Len(nodes) |->
                 nodes[i].kind = "var" /\ (IsLibFile(nodes) \/ nodes[i].exported)])
  IN [i \in 1..Len(taken) |-> [taken[i] EXCEPT !.exported = TRUE]]

(* The end of a call: imports are marked, definitions go to the end and    *)
(* library variables after the header lines.                               *)
Marked(nodes, w) ==
  [i \in 1..Len(nodes) |->
     IF i \in w.inlined THEN [nodes[i] EXCEPT !.kind = "inlined"] ELSE nodes[i]]

Bug_Spliced(nodes, w) == Marked(nodes, w) \o w.toAppend \o w.toVars
Spliced(nodes, w) ==
  LET all == Marked(nodes, w) \o w.toAppend
      body == SelectInSeq(all, LAMBDA n : ~IsHeader(n))
      header == IF body = 0 THEN Len(all) ELSE body - 1
  IN SubSeq(all, 1, header) \o w.toVars \o SubSeq(all, header + 1, Len(all))

-----------------------------------------------------------------------------
NewCall == [inlined |-> {}, toAppend |-> <<>>, toVars |-> <<>>]

Init ==
  /\ prog \in Programs
  /\ stack = <<Root>> /\ next = <<1>> /\ work = <<NewCall>>
  /\ visited = {} /\ chain = {} /\ sources = {} /\ cyclic = {}
  /\ at = 0 /\ result = <<>>

Depth == Len(stack)
Here == prog[stack[Depth]].nodes
Child == Here[next[Depth]]
InCall == Depth > 0
AtChild == InCall /\ next[Depth] <= Len(Here)
AtImport == AtChild /\ Child.kind = "use"
AtEnd == InCall /\ next[Depth] > Len(Here)

Bug_Advance == next
Advance == [next EXCEPT ![Depth] = @ + 1]
MarkInlined(w, i) == [w EXCEPT !.inlined = @ \cup {i}]

(* A child that is no AC import.                                           *)
Skip ==
  /\ AtChild /\ Child.kind # "use"
  /\ next' = Advance
  /\ UNCHANGED <<prog, stack, work, visited, chain, sources, cyclic, at, result>>

(* A file some import has reached before, on this chain or beside it.      *)
Bug_Seen(f) == f \in chain
Seen(f) == f \in visited

Reimport ==
  /\ AtImport /\ Seen(Child.target)
  /\ next' = Advance
  /\ work' = [work EXCEPT ![Depth] = MarkInlined(@, next[Depth])]
  /\ cyclic' = IF Child.target \in chain THEN cyclic \cup {Child.target}
               ELSE cyclic
  /\ UNCHANGED <<prog, stack, visited, chain, sources, at, result>>

(* The import stays unresolved.                                            *)
CannotOpen ==
  /\ AtImport /\ ~Seen(Child.target) /\ ~prog[Child.target].opens
  /\ visited' = visited \cup {Child.target}
  /\ next' = Advance
  /\ UNCHANGED <<prog, stack, work, chain, sources, cyclic, at, result>>

Visit(f) == visited \cup {f}

(* Read, parse and recur into the file.                                    *)
Enter ==
  /\ AtImport /\ ~Seen(Child.target) /\ prog[Child.target].opens
  /\ visited' = Visit(Child.target)
  /\ sources' = sources \cup {Child.target}
  /\ chain' = chain \cup {Child.target}
  /\ stack' = Append(stack, Child.target)
  /\ next' = Append(next, 1)
  /\ work' = Append(work, NewCall)
  /\ UNCHANGED <<prog, cyclic, at, result>>

Receive(w, i, nodes, original) ==
  [inlined  |-> w.inlined \cup {i},
   toAppend |-> w.toAppend \o Forwarded(nodes, original),
   toVars   |-> w.toVars \o ForwardedVars(nodes)]

Unchain(f) == chain \ {f}

(* The recursive call returns; the importer takes what it may see.         *)
Return ==
  /\ AtEnd /\ Depth > 1
  /\ chain' = Unchain(stack[Depth])
  /\ stack' = Front(stack)
  /\ next' = [Front(next) EXCEPT ![Depth - 1] = @ + 1]
  /\ \E nodes \in {Spliced(Here, work[Depth])} :
       work' = [Front(work) EXCEPT ![Depth - 1] =
                  Receive(@, next[Depth - 1], nodes, Here)]
  /\ UNCHANGED <<prog, visited, sources, cyclic, at, result>>

(* The outermost call returns and injectDatacImports starts.               *)
ImportsDone ==
  /\ AtEnd /\ Depth = 1
  /\ stack' = <<>> /\ next' = <<>> /\ work' = <<>>
  /\ result' = Spliced(Here, work[1])
  /\ at' = 1
  /\ UNCHANGED <<prog, visited, chain, sources, cyclic>>

(* dc_<alias>_<r> = {...} for each row, then <alias> = [dc_<alias>_0, ...]. *)
DatacNodes(n, rows) ==
  Append([r \in 1..Len(rows) |->
            [n EXCEPT !.kind = "var", !.name = <<n.name, r>>, !.refs = {}, !.data = rows[r]]],
         [n EXCEPT !.kind = "var", !.data = <<>>,
                   !.refs = {<<n.name, r>> : r \in 1..Len(rows)}])

(* A data file is looked for from the program's own directory, whichever   *)
(* file imports it.                                                        *)
Readable(n) == prog[Root].dir \in DOMAIN n.data
IsData == Depth = 0 /\ at <= Len(result) /\ result[at].kind = "datac" /\ Readable(result[at])
DataFile == result[at].data[prog[Root].dir]

Bug_Expand(rows) ==          \* the index is one too far behind an expansion
  /\ IsData
  /\ result' = SubSeq(result, 1, at - 1) \o DatacNodes(result[at], rows)
                 \o SubSeq(result, at + 1, Len(result))
  /\ at' = at + Len(rows) + 2
  /\ UNCHANGED <<prog, stack, next, work, visited, chain, sources, cyclic>>
Expand(rows) ==
  /\ IsData
  /\ result' = SubSeq(result, 1, at - 1) \o DatacNodes(result[at], rows)
                 \o SubSeq(result, at + 1, Len(result))
  /\ at' = at + Len(rows) + 1
  /\ UNCHANGED <<prog, stack, next, work, visited, chain, sources, cyclic>>

PassNode ==
  /\ Depth = 0 /\ at <= Len(result) /\ ~ IsData
  /\ at' = at + 1
  /\ UNCHANGED <<prog, stack, next, work, visited, chain, sources, cyclic, result>>

(* What parseDatacRows finds in a file is left open here; DataImports      *)
(* composes the injection with the parser.                                 *)
InjectDatac == PassNode \/ \E rows : Len(rows) \in Nat /\ Expand(rows)

Finished == Depth = 0 /\ at > Len(result)

Next == \/ Skip \/ Reimport \/ CannotOpen \/ Enter \/ Return \/ ImportsDone
        \/ InjectDatac

Spec == Init /\ [][Next]_vars

-----------------------------------------------------------------------------
(* What the proofs suppose of programs.                                    *)

(* The files a file imports, itself and through those that can be read.    *)
TargetsIn(p, f) ==
  {p[f].nodes[i].target : i \in {j \in 1..Len(p[f].nodes) : p[f].nodes[j].kind = "use"}}
Imports(p, f, g) ==
  \A S \in SUBSET Files :
    TargetsIn(p, f) \subseteq S /\ (\A h \in S : p[h].opens => TargetsIn(p, h) \subseteq S)
      => g \in S

(* What is mentioned of another file's variables is imported.              *)
MentionsImported ==
  \A p \in Programs : \A f, g \in Files : f # g =>
    \A m \in Range(p[f].nodes), n \in Range(p[g].nodes) :
      m.kind \in {"var", "stmt"} /\ n.kind = "var" /\ n.name \in m.refs => Imports(p, f, g)

-----------------------------------------------------------------------------
(* Properties *)

Targets(f) == {prog[f].nodes[i].target :
                 i \in {j \in 1..Len(prog[f].nodes) : prog[f].nodes[j].kind = "use"}}
Opened(S) == {f \in S : prog[f].opens}
Reached ==
  LET grow[k \in 0..Cardinality(Files)] ==
        IF k = 0 THEN {Root}
        ELSE LET S == grow[k - 1]
             IN S \cup Opened(UNION {Targets(f) : f \in S})
  IN grow[Cardinality(Files)]

(* The definitions of its own that a file shows to those that import it.   *)
Provides(f) ==
  LET nodes == prog[f].nodes IN
  IF IsLibFile(nodes) \/ Exporters(nodes) = {} THEN DefNames(nodes)
  ELSE ExportedNames(nodes) \cap DefNames(nodes)

Importers(f) == {g \in Reached : f \in Targets(g)}
ImportedOnce ==
  Importers(Root) = {} /\ \A f \in Files : Cardinality(Importers(f)) <= 1
Below(f) ==
  LET grow[k \in 0..Cardinality(Files)] ==
        IF k = 0 THEN Targets(f)
        ELSE LET S == grow[k - 1] IN S \cup UNION {Targets(g) : g \in S}
  IN grow[Cardinality(Files)]
Acyclic == \A f \in Reached : f \notin Below(f)

InResult(kinds) == {i \in 1..Len(result) : result[i].kind \in kinds}

(* The call stack, the locals, the import chain and the sets of files      *)
(* agree: the chain holds the files of the calls below the outermost one,  *)
(* no file twice, each of them visited and read.                           *)
TypeOK ==
  /\ stack \in Seq(Files)
  /\ next \in Seq(Nat \ {0}) /\ Len(next) = Len(stack)
  /\ visited \subseteq Files /\ sources \subseteq visited
  /\ chain \subseteq sources /\ cyclic \subseteq visited

(* g_importStack is exactly the chain of files being injected, and the     *)
(* recursion enters no file a second time, so that cyclic imports cannot   *)
(* exhaust the stack.                                                      *)
ChainIsStack ==
  /\ chain = {stack[d] : d \in 2..Len(stack)}
  /\ \A d, e \in 2..Len(stack) : stack[d] = stack[e] => d = e

(* However often and along however many paths a file is imported, its      *)
(* definitions are spliced into the program at most once.                  *)
OnceEach ==
  \A i, j \in InResult({"func", "var"}) :
    result[i].file # Root /\ result[j].file # Root /\ result[i].name = result[j].name
      => i = j

(* A definition that reached the program finds the private helpers of its  *)
(* own file there, through any number of export filters on the way.        *)
HelpersFollow ==
  at = 1 => \A i \in InResult({"func"}) :
    LET f == result[i].file IN
    f # Root =>
      result[i].refs \cap DefNames(prog[f].nodes) \subseteq DefNames(result)

(* Where every file is imported from one place, whatever a definition or a *)
(* statement of the program mentions of a file it imports is there.        *)
NothingDangles ==
  at = 1 /\ ImportedOnce =>
    \A i \in InResult({"func", "stmt"}) : \A f \in Opened(Targets(result[i].file)) :
      result[i].refs \cap Provides(f) \subseteq DefNames(result)

(* A variable of a library is set after the variables of the libraries it  *)
(* imports, and all of them before the program's own statements.           *)
LibVarsOrdered ==
  at = 1 /\ Acyclic =>
    \A i, j \in InResult({"var", "stmt"}) :
      /\ result[i].file # result[j].file
      /\ result[i].kind = "var" /\ result[i].name \in result[j].refs
      => i < j

(* Injection ends, on cyclic imports too.                                  *)
Ends == <>Finished
=============================================================================
