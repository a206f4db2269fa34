----------------------------- MODULE LuaBytecode -----------------------------
(***************************************************************************)
(* Instructions (src/luajit/src/lj_bc.h), as lj_parse.c emits them and     *)
(* vm_x86.dasc runs them.                                                  *)
(***************************************************************************)
EXTENDS LuaValue

NO_REG == 255
NO_JMP == 0      \* the target of a jump that is still in a list
LJ_FR2 == 0      \* the Makefile disables LJ_GC64: a frame has one slot below its base

(* An instruction.  The one at position 1 of a function is its header.     *)
Ins(op, a, b, d) == [op |-> op, a |-> a, b |-> b, d |-> d]

Reg(r) == <<"reg", r>>
Const(v) == <<"const", v>>

Compares == {"ISLT", "ISGE", "ISLE", "ISGT", "ISEQ", "ISNE"}
Copies == {"ISTC", "ISFC"}
Tests == {"IST", "ISF"} \cup Copies \cup Compares

CallOps == {"CALL", "CALLM"}
TailCallOps == {"CALLT", "CALLMT"}
ReturnOps == {"RET0", "RET1"}

(* How many arguments a call passes when the call before gave n results.   *)
ArgCount(ins, n) == IF ins.op \in {"CALLM", "CALLMT"} THEN ins.d + n ELSE ins.d - 1

=============================================================================
