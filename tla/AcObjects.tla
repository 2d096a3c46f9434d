------------------------------ MODULE AcObjects ------------------------------
(***************************************************************************)
(* What the native backend promises of lists, dicts and events: a variable *)
(* has what was put into it, in the order it was put; variables assigned   *)
(* from one another change together, until one of them is given room of    *)
(* its own; an event runs the first function bound to its key.             *)
(***************************************************************************)
EXTENDS Naturals, Sequences

CONSTANTS
  Vars, Values, Keys, Functions, NoKey, Nothing,
  Lists,  \* the elements that lists are made with, each <<NoKey, value>>
  Pairs   \* the pairs that dicts are made of, each <<key, value>>

VARIABLES
  kind,   \* "none", "list" or "dict", of each variable
  items,  \* its elements, as <<key, value>>, those of a list without key
  with,   \* the variables it changes together with
  bound,  \* the functions bound, as <<key, function>>
  fired   \* the function that the last event ran

objects == <<kind, items, with, bound, fired>>

ObjectsInit ==
  /\ kind = [v \in Vars |-> "none"]
  /\ items = [v \in Vars |-> <<>>]
  /\ with = [v \in Vars |-> {v}]
  /\ bound = <<>> /\ fired = Nothing

Alone(v) == [w \in Vars |-> IF w = v THEN {v} ELSE with[w] \ {v}]

Create(v, k, its) ==
  /\ kind' = [kind EXCEPT ![v] = k]
  /\ items' = [items EXCEPT ![v] = its]
  /\ with' = Alone(v)
  /\ UNCHANGED <<bound, fired>>

Assign(v, w) ==
  /\ kind[w] # "none"
  /\ kind' = [kind EXCEPT ![v] = kind[w]]
  /\ items' = [items EXCEPT ![v] = items[w]]
  /\ with' = [x \in Vars |-> IF x \in with[w] \cup {v} THEN with[w] \cup {v} ELSE with[x] \ {v}]
  /\ UNCHANGED <<bound, fired>>

(* All that share it see the change, or v leaves them with its own.        *)
Change(v, its) ==
  /\ \/ items' = [w \in Vars |-> IF w \in with[v] THEN its ELSE items[w]] /\ UNCHANGED with
     \/ items' = [items EXCEPT ![v] = its] /\ with' = Alone(v)
  /\ UNCHANGED <<kind, bound, fired>>

Put(its, k, x) ==
  IF \E i \in 1..Len(its) : its[i][1] = k
  THEN [i \in 1..Len(its) |-> IF its[i][1] = k THEN <<k, x>> ELSE its[i]]
  ELSE Append(its, <<k, x>>)

(* A dict has each key of its pairs once, with the value of the last.      *)
Filled(pairs) ==
  LET put[i \in 0..Len(pairs)] ==
        IF i = 0 THEN <<>> ELSE Put(put[i-1], pairs[i][1], pairs[i][2])
  IN put[Len(pairs)]

Add(v) == kind[v] = "list" /\ \E x \in Values : Change(v, Append(items[v], <<NoKey, x>>))
Set(v) == kind[v] = "list" /\ \E i \in 1..Len(items[v]), x \in Values :
                               Change(v, [items[v] EXCEPT ![i] = <<NoKey, x>>])
SetKey(v) == kind[v] = "dict" /\ \E k \in Keys, x \in Values : Change(v, Put(items[v], k, x))

BindEvent == \E k \in Keys, f \in Functions :
  bound' = Append(bound, <<k, f>>) /\ UNCHANGED <<kind, items, with, fired>>
Fire == \E k \in Keys :
  /\ \/ \E i \in 1..Len(bound) :
          /\ bound[i][1] = k /\ \A j \in 1..i-1 : bound[j][1] # k
          /\ fired' = bound[i][2]
     \/ (\A i \in 1..Len(bound) : bound[i][1] # k) /\ fired' = fired
  /\ UNCHANGED <<kind, items, with, bound>>

ObjectsNext ==
  \/ \E v \in Vars : \/ \E its \in Lists : Create(v, "list", its)
                     \/ \E pairs \in Pairs : Create(v, "dict", Filled(pairs))
                     \/ \E w \in Vars : Assign(v, w)
                     \/ Add(v) \/ Set(v) \/ SetKey(v)
  \/ BindEvent \/ Fire

ObjectsSpec == ObjectsInit /\ [][ObjectsNext]_objects
=============================================================================
