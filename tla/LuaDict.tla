------------------------------- MODULE LuaDict -------------------------------
(***************************************************************************)
(* What a Lua table promises to the code the generator emits and to the    *)
(* prelude: a map from keys to values, and a traversal that, while the     *)
(* program only changes or removes entries that exist, visits every entry  *)
(* still there exactly once, in any order.                                 *)
(***************************************************************************)
CONSTANTS Key, Nil

VARIABLES
    map,      \* the value of every key, Nil when it has none
    loop,     \* the traversal: "none", "running", or "over" when it has ended
    visited   \* the keys the running traversal has returned

vars == <<map, loop, visited>>

Live == {k \in Key : map[k] # Nil}

Init == map = [k \in Key |-> Nil] /\ loop = "none" /\ visited = {}

Same == \A k \in Key : map'[k] = map[k]

NoLoop == loop' = "none" /\ visited' = {}

(* One key is given a value, a new one or nil included; a new entry ends   *)
(* the traversal: the manual gives it no meaning.                          *)
Assign ==
    LET changed == {k \in Key : map'[k] # map[k]}
    IN  \E k \in Key :
          /\ changed \subseteq {k}
          /\ IF loop = "running" /\ map[k] # Nil THEN UNCHANGED <<loop, visited>>
             ELSE NoLoop

Clear == (\A k \in Key : map'[k] = Nil) /\ NoLoop

Begin == loop # "running" /\ loop' = "running" /\ visited' = {} /\ Same

(* A break, or an operation that lays the table out anew. *)
Leave == NoLoop /\ Same

Visit == \E k \in Live :
    /\ loop = "running"
    /\ k \notin visited
    /\ visited' = visited \union {k}
    /\ UNCHANGED loop /\ Same

Finish ==
    /\ loop = "running"
    /\ Live \subseteq visited
    /\ loop' = "over" /\ visited' = {}
    /\ Same

Next ==
    \/ Assign
    \/ Clear
    \/ Leave
    \/ Begin
    \/ Visit
    \/ Finish

Spec == Init /\ [][Next]_vars
=============================================================================
