------------------------------ MODULE MCParser ------------------------------
(***************************************************************************)
(* Files for the parser: blocks in blocks, with broken lines, comments and *)
(* lines out of place; every statement alone, in a body and in pairs; and  *)
(* assignments of up to three operators.                                   *)
(***************************************************************************)
EXTENDS ParserPromises

L(w, words) == [w |-> w, kind |-> "code", words |-> words]
Silent(w) == [w |-> w, kind |-> "silent", words |-> <<>>]
Blank == [w |-> 0, kind |-> "blank", words |-> <<>>]

Good == <<"x", "=", "1">>
IfX == <<"IF", "x">>
Other == <<"OTHER">>
Func == <<"Make", "x", "func", "(", "x", ",", "value", ")">>

MCBroken == {
  <<"x">>, <<"x", "=">>, <<"x", "=", "dquote">>, <<"x", "=", "1", "#|", "1">>,
  <<"const", "1">>, <<"bind", "x", "x">>, <<"x", "=", "(", "1">>, <<"catch">>,
  <<"return", "*", "1">>, <<"sequence", "1">>, <<"x", ",", "x">>, <<"fn", "x">>,
  <<"x", "[", "1", "]", "+=">>,
  <<"IF">>, <<"WHILST">>, <<"FOR", "x", "in">>,
  <<"Make", "x", "func", "(", "1", ")">>, <<"bundle">>,
  <<"fetch", "x">>, <<"save", "x">>, <<"quickthread", "1">>, <<"bound", "x", "x">>,
  <<"math", ".", "GoodDec", "x", "=", "{", "1", "}">>,
  <<"x", "=", "(", "1", ",", "1", ";", "1", ")">> }

MCGarbled == {
  <<"x", "=", "-", "x", "(", "1">>, <<"x", "=", "x", "(", "1", "]", ")">>,
  <<"x", "=", "1", "+", "x", "(", ":", ")">>, <<"x", "(", "1">>, <<"x", "=", "[", "1">>,
  <<"x", "[", "1">>, <<"x", "=", "{", "1">>, <<"{", "x", ":">>, <<"<foo>">>, <<"OTHER">>,
  <<"Make", "x", "func", "(", "value">>, <<"fn", "x", "(", "x">>, <<"to_int", "(", "1">>,
  <<"configure", "x">>, <<"LineUp", "x">>, <<"LineUp", "x", "{", "1", ":">>,
  <<"x", "=", "x", "(", "1">>,
  <<"x", "[", "1", "]", "(", "1", "]", ")">>, <<"x", ".", "x", "(", "1">>, <<"try">>,
  <<"bundle", "x">>, <<"<mainloop>">>, <<"eval", "(", "1">>,
  <<"quickthread", "x", "(", "1">> }

MCGreedy == {
  <<"use", "x">>, <<"use", "ilib", "x">>, <<"use", "datac", "x">>, <<"conglomer", "x">>,
  <<"using", "header", "x">>, <<"/halt", "1">>, <<"Make", "x", "x">>, <<"x", ".", "x">>,
  <<"x", ".", "x", "=", "1">>, <<"x", ".", "config", "x", "=", "1">>,
  <<"export", "Make", "x", "x">>, <<"/halt">>, <<"x", "[", "1", "]", "=", "1">>,
  <<"x", ".", "x", "[", "1", "]", "=", "1">>, <<"using", "math", ".", "x">>,
  <<"using", "math", ".", "x", "math", ".", "x">> }

\* Each statement of one line.
MCWhole == MCGreedy \cup {
  Good, <<"x", "+=", "1">>, <<"x", "@=", "x", "+", "1">>, <<"x", "(", "1", ")">>,
  <<"x", ",", "x", "=", "1", ",", "1">>, <<"pass">>, <<"return">>,
  <<"return", "1", ",", "x">>, <<"yield", "x">>, <<"const", "x", "=", "1">>,
  <<"free", "x", "=", "1">>, <<"free", "x", ",", "x">>, <<"to_int", "x">>,
  <<"to_int", "x", "=", "1">>, <<"bind", "x", "to", "x">>,
  <<"export", "x", ",", "x">>, <<"raise", "ERR", "(", "$s$", ")">>, <<"raise", "ERR">>,
  <<"raise", "x">>, <<"raise", "x", "(", "$s$", ")">>,
  <<"x", ".", "display", "x", "+", "1">>, <<"x", ".", "x", "(", "1", ",", "x", "*", "1", ")">>,
  <<"x", ".", "x", "+=", "1">>, <<"x", "[", "1", "]", "+=", "1">>,
  <<"x", "[", "1", "]", "=", "$s$">>, <<"x", "[", "x", "(", "1", ")", "]">>,
  <<"x", "[", "1", "]", "(", "1", ")">>, <<"x", "=", "x", "(", "x", "=", "1", ",", "1", ")">>,
  <<"x", "=", "[", "1", ",", "[", "1", "]", "]">>, <<"x", "=", "[", "1", "]", "@", "1">>,
  <<"x", "=", "{", "1", ",", "1", "}">>, <<"x", "=", "{", "x", ":", "1", ",", "x", ":", "1", "}">>,
  <<"x", "=", "(", "1", ",", "x", ")">>, <<"x", "=", "x", "|", "1", ",", "#", "1">>,
  <<"x", "=", "x", ".", "x", "(", "1", ",", "1", ")">>, <<"x", "=", "x", ".", "x">>,
  <<"x", "=", "sequence", "(", "1", ",", "1", ",", "1", ")">>,
  <<"fn", "x", "(", "x", ")", "=", "x", "+", "1">>,
  <<"eval", "(", "1", ")">>, <<"range", "1">>, <<"True">>,
  <<"[", "1", "]">>, <<"{", "1", "}">>, <<"value", "=", "1">>, <<"x", "=", "eval", "(", "1", ")">>,
  <<"x", "=", "x", "[", "1", "]", "(", "1", ")">>, <<"cond", "=", "1">>,
  <<"LineUp", "x", "{", "1", ":", "x", "=", "1", ",", "default", ":", "pass", "}">>,
  <<"x", "=", "x", ".", "x", "$s$">>, <<"DEG", "x", "=", "1">>, <<"/end">>,
  <<"skip">>, <<"destroy", "x", ",", "value">>, <<"input", "x">>, <<"input">>,
  <<"use", "datac", "x", "as", "x">>, <<"use", "datac", "$s$">>,
  <<"conglomer", "<", "x", ">">>, <<"from", "ilib", "x", "use", "x", ",", "x", "-", "x">>,
  <<"fetch", "math", ".", "x">>, <<"save", "as", "x">>, <<"save", "as", "x", ".", "x">>,
  <<"alias", "value", "=", "x">>, <<"quickthread", "x", "(", "1", ",", "x", ")">>,
  <<"bound", "x", "+=", "1">>, <<"bound", "x", ",", "x">>, <<"alert", "$s$">>,
  <<"x", "=", "sure", "$s$">>, <<"x", "=", "iota", "1">>, <<"math", ".", "GoodDec", "x", "=", "1">>,
  <<"x", "=", "dict", "-", "{", "x", ":", "1", "}">>,
  <<"x", "=", "(", "1", ",", "1", ";", "any", ")">>,
  <<"x", "=", "x", ".", "x", "1">>, <<"x", "=", "x", ".", "x", "[", "1", "]">> }

-----------------------------------------------------------------------------
\* Headers of one block, and what stands behind the block.
Singles == {
  <<IfX, <<>>>>, <<<<"FOR", "x", "in", "range", "1">>, <<>>>>,
  <<<<"WHILST", "x", "<", "1">>, <<>>>>, <<<<"WHILST", "many", "x">>, <<>>>>,
  <<Func, <<>>>>, <<<<"bundle">>, <<>>>>,
  <<<<"IF">>, <<>>>>, <<<<"FOR", "x", "in">>, <<>>>>,
  <<<<"<mainloop>">>, <<<<"<mainloop>">>>>>>, <<<<"<StartHere>">>, <<<<"<EndHere>">>>>>>,
  <<<<"<StartHere>">>, <<>>>>, <<<<"export", "Make", "x", "func", "(", ")">>, <<>>>> }

Doubles == {<<IfX, Other>>, <<IfX, <<"ELSEIF", "x">>>>, <<<<"WHILST", "x">>, Other>>,
            <<<<"try">>, <<"catch", "x">>>>}

Triples == {<<IfX, <<"ELSEIF", "x">>, Other>>, <<<<"try">>, <<"catch">>, <<"after">>>>}

Behind(w, s) == IF s = <<>> THEN <<>> ELSE <<L(w, s[1])>>

\* What stands at width w over blocks of A, B and C.
One(w, A) ==
  {<<L(w, s[1])>> \o a \o Behind(w, s[2]) : s \in Singles, a \in A}

Two(w, A, B) ==
  {<<L(w, s[1])>> \o a \o <<L(w, s[2])>> \o b : s \in Doubles, a \in A, b \in B}

Three(w, A, B, C) ==
  {<<L(w, s[1])>> \o a \o <<L(w, s[2])>> \o b \o <<L(w, s[3])>> \o c :
     s \in Triples, a \in A, b \in B, c \in C}

Leaf(w) == {<<L(w, Good)>>, <<L(w, <<"x">>)>>, <<L(w, <<"x", "=">>), L(w, Good)>>}

Nest(w) == Leaf(w) \cup One(w, Leaf(w + 4)) \cup Two(w, Leaf(w + 4), Leaf(w + 4))
             \cup Three(w, Leaf(w + 4), Leaf(w + 4), Leaf(w + 4))

Ended(files) == {f \o <<L(0, Good)>> : f \in files}

Deep == Ended(One(0, Nest(4)) \cup Three(0, Leaf(4), Nest(4), {<<L(4, Good)>>}))
          \cup Two(0, Nest(4), Leaf(4)) \cup Two(0, {<<L(4, Good)>>}, Nest(4))

\* Blocks of one header only.
Cased(w, A) ==
  {<<L(w, <<"cond", "x">>), L(w + 4, <<"is", "1">>)>> \o a
     \o <<L(w + 4, Other)>> \o a : a \in A}

Unmarked(w, A) ==
  {<<L(w, <<"bundle", "x">>)>> \o a \o a : a \in A}

Marked(w) ==
  {<<L(w, <<"bundle", "x">>), L(w + 4, <<m>> \o Good), L(w + 4, <<n>> \o Good)>> :
     m, n \in {"private", "public"}}

Told(w) ==
  <<L(w, <<"try">>), L(w + 4, Good), L(w, <<"catch">>),
    L(w + 4, <<"report", "x">>), L(w + 4, Good)>>

OwnTag(A) ==
  {<<L(0, <<"def", "tag", "<mine>">>), L(4, Good), L(0, <<"<mine>">>)>> \o a
     \o <<L(0, <<"<mine>">>)>> : a \in A}

Listener ==
  {<<L(0, <<"configure", "event-listener">>), L(4, <<"establish", "listener", "of", "x">>),
     L(8, <<"on", "value", "is", "x">>)>> \o a : a \in {<<>>} \cup Leaf(12)}

Special == Cased(0, Nest(8)) \cup Unmarked(0, Leaf(4)) \cup Marked(0) \cup {Told(0)}
             \cup One(0, Cased(4, Leaf(12)) \cup {Told(4)} \cup Marked(4)) \cup OwnTag(Nest(4))
             \cup Listener

\* A line more in between, or one that is not where it was.
With(files, lines) ==
  UNION {{SubSeq(f, 1, i) \o <<l>> \o SubSeq(f, i + 1, Len(f)) :
            i \in 0..Len(f), l \in lines} : f \in files}

Moved(files, widths) ==
  UNION {{[f EXCEPT ![i].w = w] : i \in 2..Len(f), w \in widths} : f \in files}

Noise == {Blank} \cup {Silent(w) : w \in {0, 2, 4, 8}}

Disturbed ==
  With(Ended(One(0, {<<L(4, Good)>>}) \cup Two(0, Leaf(4), {<<L(4, Good)>>})), Noise)
    \cup Moved(Ended(One(0, One(4, {<<L(8, Good)>>}))), {0, 2, 6, 8})
    \cup With({<<L(0, IfX), L(4, Good), L(0, Other), L(4, Good)>>},
              {L(w, g) : w \in {0, 4}, g \in MCGarbled})

-----------------------------------------------------------------------------
Statements ==
  LET all == MCWhole \cup MCBroken \cup MCGarbled
  IN  {<<L(0, a), L(0, b)>> : a \in all, b \in {Good, <<"return">>, <<"[", "1", "]">>}}
        \cup {<<L(0, Func), L(4, a), L(4, Good), L(0, Good)>> : a \in all}
        \cup {<<L(0, IfX), L(4, Good), L(4, a), L(0, Other), L(4, Good)>> : a \in all}
        \cup {<<L(0, IfX), L(4, a)>> : a \in all}

Atoms == {<<"x">>, <<"x", "(", "x", "or", "1", ",", "x", ")">>, <<"(", "x", "or", "1", ")">>,
          <<"x", "[", "1", "or", "x", "]">>, <<"-", "x">>, <<"not", "x">>, <<"bnot", "x">>,
          <<"length", "x">>, <<"range", "x">>}

Ops == {"or", "xor", "and", "bor", "bxor", "band", "is", "in", "<", ">", "+", "-",
        "xsub", "*", "/", "@", "^"}

Assigned(e) == <<L(0, <<"x", "=">> \o e)>>

Expressions ==
  {Assigned(a \o <<o>> \o <<"1">> \o <<p>> \o b) :
     a \in {a \in Atoms : ~IsPrefix(<<"x", "(">>, a)}, b \in Atoms \ {<<"not", "x">>},
     o, p \in {"or", "is", "+", "^"}}
  \cup {Assigned(<<"x", o>> \o a \o <<p, "1">>) :
          a \in Atoms, o \in Ops \ {"is"}, p \in Ops}
  \cup {Assigned(<<"1", o, "1", p, "1", q, "1">>) :
          o, p, q \in {"or", "band", "is", "-", "/", "^"}}
  \cup {Assigned(<<"(", "1", o, "1", ")", p, "1">>) : o, p \in Ops}
  \cup {Assigned(u \o <<"(", "1", o, "1", ")", p, "1">>) :
          u \in {<<"not">>, <<"length">>, <<"1", "*", "-">>, <<"-", "-">>},
          o, p \in {"or", "is", "+", "^"}}

MCSources == Deep \cup Special \cup Disturbed \cup Statements \cup Expressions

MCWords ==
  Identifiers \cup Commands \cup Literals \cup Tags \cup Ops \cup Compound \cup Branches \cup
  {"value", "IF", "FOR", "WHILST", "many", "try", "report", "Make", "func", "bundle",
   "private", "public", "return", "yield", "export", "pass", "bind", "to", "use",
   "raise", "ERR", "def", "tag", "configure", "event-listener", "establish",
   "listener", "of", "on", "cond", "const", "to_int", "free", "fn", "eval", "range",
   "sequence", "length", "DEG", "skip", "destroy", "input", "datac", "as", "conglomer",
   "using", "from", "ilib", "fetch", "save", "alias", "quickthread", "bound", "alert",
   "sure", "iota", ";", "LineUp", "not", "bnot", "#", "#|", "=", "|", ",", ":", ".",
   "(", ")", "[", "]", "{", "}", "dquote"}
=============================================================================
