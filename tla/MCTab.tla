------------------------------- MODULE MCTab -------------------------------
(***************************************************************************)
(* A table with a few integers and strings, every assignment of anchors.   *)
(***************************************************************************)
EXTENDS Tab, TLC

(* The hash of a string the table does not hold can be any when it is next *)
(* stored: states that differ in it alone have the same future.            *)
Future ==
    <<tab.array, tab.node, tab.freetop, reads, loop, cursor, visited,
      [k \in Key |-> IF k \in Names /\ reads[k] = Nil /\ cursor # k THEN 0
                      ELSE tab.hash[k]]>>

Symmetric == Permutations(Names) \union Permutations(Values)
=============================================================================
