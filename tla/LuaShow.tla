------------------------------- MODULE LuaShow -------------------------------
(* What the prelude's print makes of a value.                              *)
EXTENDS LuaValue

(* __print0(v), what is put into the buffer.                               *)
RECURSIVE Shown(_)
Shown(v) ==
  CASE v[1] \in {"closure", "builtin"} -> "<#closure>"
    [] v[1] = "pair" -> "(" \o Shown(v[3]) \o ", " \o Shown(v[4]) \o ")"
    [] OTHER -> ToStr(v)

=============================================================================
