------------------------------- MODULE MCControl -------------------------------
(* Programs that leave the blocks of a mainloop and of its function in     *)
(* every way; 9 is said by `after` only.                                   *)
EXTENDS ControlPromise

Fs == {
  <<Set("x", 2)>>,
  <<Fail, Say(1)>>,
  <<Try(<<Leave>>, <<<<Say(5)>>>>, <<>>), Say(6)>>,
  <<Try(<<Fail>>, <<<<Leave>>>>, <<<<Say(9)>>>>), Say(6)>>,
  <<For(2, <<Try(<<Fail>>, <<<<End>>>>, <<<<Say(9)>>>>)>>), Say(4)>>,
  <<Try(<<Fail>>, <<<<Say(5), Fail>>>>, <<<<Say(9)>>>>)>>,
  <<Set("x", 2), Try(<<Set("x", 0), Fail>>, <<<<Show("x")>>>>, <<>>)>>,
  <<For(2, <<Try(<<Say(1), End>>, <<<<Say(5)>>>>, <<>>)>>)>>,
  <<For(2, <<If("x", <<Leave>>, <<Say(3)>>), Set("x", 2)>>)>>,
  <<Try(<<Try(<<Fail>>, <<<<Say(5)>>>>, <<>>), Fail>>, <<<<Leave>>>>, <<>>), Say(6)>> }

Tried == Try(<<Call, Say(1)>>, <<<<Say(7)>>>>, <<<<Say(9)>>>>)
Looped == For(2, <<Call, Show("x")>>)
Firsts == {
  <<Tried>>, <<Looped>>,
  <<Try(<<Set("y", 2), Call, Fail>>, <<<<Show("y")>>>>, <<>>)>>,
  <<Try(<<Fail>>, <<<<Call>>>>, <<<<Say(9)>>>>)>>,
  <<Try(<<Try(<<Call>>, <<<<Say(7), Fail>>>>, <<<<Say(9)>>>>), Say(1)>>, <<<<Say(8)>>>>, <<>>)>>,
  <<Try(<<Call>>, <<<<Say(7)>>, <<Say(8)>>>>, <<>>)>>,
  <<For(2, <<Tried, End>>)>>,
  <<For(2, <<Set("x", 2), Call, Try(<<Fail>>, <<<<End>>>>, <<>>)>>)>>,
  <<For(2, <<If("x", <<Looped>>, <<>>), Call>>), For(2, <<Looped>>)>>,
  <<If("x", <<Set("z", 2), Show("z")>>, <<Set("z", 3)>>)>>,
  <<Set("y", 0), If("y", <<Set("z", 2), Show("z")>>, <<>>)>>,
  <<If("y", <<Looped>>, <<>>)>>,
  <<Try(<<Set("z", 2), Looped>>, <<<<Show("z")>>>>, <<>>)>>,
  <<Try(<<Set("z", 2), Call>>, <<<<Say(7)>>>>, <<>>), Set("z", 3), Show("z")>>,
  <<Try(<<Atomic(<<Fail, Set("w", 2)>>)>>, <<<<Say(7)>>>>, <<>>)>> }
Seconds == { <<>>, <<Tried>>, <<Looped>>, <<Atomic(<<Set("w", 3)>>)>> }

MCVariables == {"w", "x", "y", "z"}
MCPrograms ==
  { Program(<<Set("x", 1), Set("y", 1), Set("w", 1)>> \o k \o l \o <<Show("x"), Show("y")>>, f,
            {s.v : s \in {t \in Within(f) : t.op \in {"set", "show", "if"}}}) :
      k \in Firsts, l \in Seconds, f \in Fs }
=============================================================================
