------------------------------- MODULE AcSource -------------------------------
(***************************************************************************)
(* Programs of the language as far as control goes: assignment, output,    *)
(* a division that fails, the call of one function, `return`, /end, IF,    *)
(* FOR, an `atomic` assignment and try/catch/after.  Lower is what ir.cpp  *)
(* makes of them; Meaning is what the language promises of them.           *)
(***************************************************************************)
EXTENDS ControlText, TLC

Set(v, n) == Ins("set", v, n)
Show(v) == Ins("show", v, 0)
Say(n) == Ins("say", "", n)
Fail == Ins("div", "", 0)
Call == Ins("call", "", 0)
Leave == Ins("return", "", 0)
End == Ins("break", "", 0)
If(v, body, other) == [op |-> "if", v |-> v, body |-> body, other |-> other]
For(n, body) == [op |-> "loop", n |-> n, body |-> body]
Atomic(body) == [op |-> "atomic", body |-> body]
Try(body, catches, after) == [op |-> "try", body |-> body, catches |-> catches, after |-> after]

RECURSIVE Lower(_)
Lower(block) ==
  FlattenSeq([i \in 1..Len(block) |->
    LET s == block[i]
    IN CASE s.op = "if" ->
              <<Ins("if", s.v, 0)>> \o Lower(s.body)
                \o (IF s.other = <<>> THEN <<>> ELSE <<Ins("else", "", 0)>> \o Lower(s.other))
                \o <<Ins("endif", "", 0)>>
         [] s.op = "loop" -> <<Ins("loop", "", s.n)>> \o Lower(s.body) \o <<Ins("endloop", "", 0)>>
         [] s.op = "atomic" -> <<Ins("lock", "", 0)>> \o s.body \o <<Ins("unlock", "", 0)>>
         [] s.op = "try" ->
              <<Ins("try", "", 0)>> \o Lower(s.body)
                \o FlattenSeq([c \in 1..Len(s.catches) |->
                                 <<Ins("catch", "", 0)>> \o Lower(s.catches[c])])
                \o FlattenSeq([c \in 1..Len(s.after) |->
                                 <<Ins("after", "", 0)>> \o Lower(s.after[c])])
                \o <<Ins("endtry", "", 0)>>
         [] OTHER -> <<s>>])

-----------------------------------------------------------------------------
(* The promise.  A state is what the variables hold, what was printed, and *)
(* how control goes on.                                                    *)

RECURSIVE Exec(_, _, _), Repeat(_, _, _, _)
Does(s, st, f) ==
  CASE s.op = "set" -> [st EXCEPT !.vars[s.v] = s.n]
    [] s.op = "show" -> IF st.vars[s.v] = Unset
                        THEN [st EXCEPT !.how = "unset"]
                        ELSE [st EXCEPT !.out = Append(@, st.vars[s.v])]
    [] s.op = "say" -> [st EXCEPT !.out = Append(@, s.n)]
    [] s.op = "div" -> [st EXCEPT !.how = "throw"]
    [] s.op \in {"return", "break"} -> [st EXCEPT !.how = s.op]
    [] s.op = "call" -> LET r == Exec(f, st, f)
                        IN IF r.how = "return" THEN [r EXCEPT !.how = "go"] ELSE r
    [] s.op = "if" -> Exec(IF st.vars[s.v] > 0 THEN s.body ELSE s.other, st, f)
    [] s.op = "loop" -> Repeat(s.n, s.body, st, f)
    [] s.op = "atomic" -> Exec(s.body, st, f)
    [] s.op = "try" ->
         LET tried == Exec(s.body, st, f)
             caught == IF tried.how = "throw"
                       THEN Exec(s.catches[1], [tried EXCEPT !.how = "go"], f) ELSE tried
             last == Exec(s.after[1], [caught EXCEPT !.how = "go"], f)
         IN IF s.after = <<>> THEN caught
            ELSE IF last.how = "go" THEN [last EXCEPT !.how = caught.how] ELSE last
Exec(block, st, f) ==
  IF block = <<>> \/ st.how # "go" THEN st ELSE Exec(Tail(block), Does(Head(block), st, f), f)
Repeat(n, body, st, f) ==
  IF n = 0 THEN st
  ELSE LET r == Exec(body, st, f)
       IN CASE r.how = "break" -> [r EXCEPT !.how = "go"]
            [] r.how = "go" -> Repeat(n - 1, body, r, f)
            [] OTHER -> r

Meaning(main, f) ==
  Exec(main, [vars |-> [v \in Variables |-> Unset], out |-> <<>>, how |-> "go"], f)

-----------------------------------------------------------------------------
(* Shapes of programs.                                                     *)

(* The blocks of a statement, and the statements of a block at any depth.  *)
BlocksOf(s) ==
  CASE s.op = "if" -> {s.body, s.other}
    [] s.op \in {"loop", "atomic"} -> {s.body}
    [] s.op = "try" -> {s.body} \cup Range(s.catches) \cup Range(s.after)
    [] OTHER -> {}
RECURSIVE Within(_)
Within(block) ==
  UNION {{block[i]} \cup UNION {Within(b) : b \in BlocksOf(block[i])} : i \in 1..Len(block)}

RECURSIVE Leaves(_)
(* Control can leave the block by `return` or /end.                        *)
Leaves(block) ==
  \E i \in 1..Len(block) :
    LET s == block[i]
    IN CASE s.op \in {"return", "break"} -> TRUE
         [] s.op = "loop" -> Leave \in Within(s.body)
         [] OTHER -> \E b \in BlocksOf(s) : Leaves(b)

Program(main, f, free) ==
  [main |-> Lower(main), f |-> Lower(f), free |-> free, src |-> [main |-> main, f |-> f]]
=============================================================================
