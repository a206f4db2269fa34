------------------------------- MODULE LuaFlow -------------------------------
(***************************************************************************)
(* What the interpreter of LuaJIT takes on trust from its compiler.  It    *)
(* does not verify bytecode: it neither checks that a register was written *)
(* before it is read, nor that the variables that functions refer to are   *)
(* closed before their slots are used again.                               *)
(*                                                                         *)
(* A chunk c is the table of prototypes that luaL_loadstring makes.  Facts *)
(* about it are given as a table by prototype:                             *)
(*   flow     what holds, on every way there, whenever control is at an    *)
(*            instruction that can be reached:                             *)
(*              w     registers that were written,                         *)
(*              held  <<register, immutable>> of every variable that has   *)
(*                    an open upvalue (it may have others),                *)
(*              open  the register from which on all results of the last   *)
(*                    call lie, if they are still to be used;              *)
(*   frozen   the upvalues that may be declared immutable.                 *)
(* Accepts says that such facts agree with the code and that, if they      *)
(* hold, no instruction does what the interpreter does not expect.         *)
(***************************************************************************)
EXTENDS LuaBytecode

(* What a slot holds that nothing was put in since its function was        *)
(* called, or since a call above which it is.                              *)
Stale == <<"stale">>

(* A value that refers to no other.                                        *)
Plain(v) == v # Stale /\ v[1] \notin {"closure", "pair"}

RegsOf(operands) == {x[2] : x \in {y \in operands : y[1] = "reg"}}

(* The registers of the variables that the functions of a prototype        *)
(* refer to in the function that creates them.                             *)
Locals(proto) == {i \in DOMAIN proto.uvs : proto.uvs[i].local}

(* The registers that an instruction reads when the last call gave n       *)
(* results.                                                                *)
RegsRead(c, ins, n) ==
  CASE ins.op \in {"MOV", "NOT", "IST", "ISF", "ISTC", "ISFC"} -> {ins.d}
    [] ins.op = "ARITH" -> RegsOf({ins.b, ins.d[2]})
    [] ins.op = "USET"  -> RegsOf({ins.d})
    [] ins.op = "TGETB" -> {ins.b}
    [] ins.op = "TSETB" -> {ins.a, ins.b}
    [] ins.op = "TSETM" -> (ins.a - 1)..(ins.a + n - 1)
    [] ins.op = "FNEW"  -> {c.protos[ins.d].uvs[i].at : i \in Locals(c.protos[ins.d])}
    [] ins.op \in Compares -> {ins.a} \cup RegsOf({ins.d})
    [] ins.op \in CallOps \cup TailCallOps ->
         {ins.a} \cup {ins.a + LJ_FR2 + i : i \in 1..ArgCount(ins, n)}
    [] ins.op \in {"GSET", "RET1"} -> {ins.a}
    [] OTHER -> {}

(* The registers that it writes, if it is not a call.                      *)
Written(ins) ==
  CASE ins.op \in {"MOV", "CONST", "UGET", "GGET", "TGETB", "ARITH", "NOT",
                   "TNEW", "TDUP", "FNEW"} \cup Copies -> {ins.a}
    [] ins.op = "KNIL"  -> ins.a..ins.d
    [] ins.op = "TSETB" -> {ins.b}
    [] ins.op = "TSETM" -> {ins.a - 1}
    [] OTHER -> {}

-----------------------------------------------------------------------------
(* Facts behind an instruction, from the facts s in front of it            *)

Captured(c, ins) ==
  {<<c.protos[ins.d].uvs[i].at, c.protos[ins.d].uvs[i].immutable>> : i \in Locals(c.protos[ins.d])}

WrittenAfter(ins, s) ==
  IF ins.op \in CallOps
  THEN {r \in s.w : r < ins.a} \cup (IF ins.b = 0 THEN {} ELSE ins.a..(ins.a + ins.b - 2))
  ELSE s.w \cup Written(ins)

HeldAfter(c, ins, s) ==
  CASE ins.op = "FNEW" -> s.held \cup Captured(c, ins)
    [] ins.op = "UCLO" -> {h \in s.held : h[1] < ins.a}
    [] OTHER -> s.held

OpenAfter(ins, s) ==
  CASE ins.op \in CallOps /\ ins.b = 0 -> {ins.a}
    [] ins.op \in {"JMP", "UCLO"}    -> s.open
    [] OTHER -> {}

After(c, ins, s) ==
  [w |-> WrittenAfter(ins, s), held |-> HeldAfter(c, ins, s), open |-> OpenAfter(ins, s)]

(* Where control can go next, with what holds there.  A test that does not *)
(* hold copies nothing.                                                    *)
Edges(c, key, pc, s) ==
  LET code == c.protos[key].code
      ins == code[pc]
      after == After(c, ins, s)
  IN  CASE ins.op \in ReturnOps \cup TailCallOps -> {}
        [] ins.op \in {"JMP", "UCLO"} -> {<<ins.d, after>>}
        [] ins.op \in Tests -> {<<code[pc + 1].d, after>>, <<pc + 2, [after EXCEPT !.w = s.w]>>}
        [] OTHER -> {<<pc + 1, after>>}

-----------------------------------------------------------------------------
(* What an instruction needs                                               *)

(* Its operands are of the form that the interpreter expects.              *)
Formed(c, key, pc) ==
  LET code == c.protos[key].code
      ins == code[pc]
      uvs == DOMAIN c.protos[key].uvs
  IN  /\ ins.a \in Nat
      /\ ins.op = "CONST" => Plain(ins.d)
      /\ ins.op = "KNIL"  => ins.d \in Nat
      /\ ins.op = "ARITH" => ins.d[1] \in {"+", "-", "*", "/", "%"}
      /\ ins.op = "TGETB" => ins.d \in {1, 2}
      /\ ins.op \in {"TNEW", "TDUP"} => \A j \in DOMAIN ins.d : Plain(ins.d[j][2])
      /\ ins.op \in {"TSETB", "TSETM"} => ins.d \in Nat
      /\ ins.op = "UGET"  => ins.d \in uvs
      /\ ins.op = "USET"  => ins.a \in uvs /\ (ins.d[1] = "reg" \/ Plain(ins.d[2]))
      /\ ins.op = "FNEW"  => ins.d \in DOMAIN c.protos
      /\ ins.op \in Tests => pc + 1 \in DOMAIN code /\ code[pc + 1].op = "JMP"
      /\ ins.op \in CallOps => ins.b \in Nat
      /\ ins.op \in CallOps \cup TailCallOps => ins.d \in Nat

(* Registers are written before they are read.                             *)
ReadsWritten(c, ins, s) ==
  /\ RegsRead(c, ins, 0) \subseteq s.w
  /\ {h[1] : h \in s.held} \subseteq s.w
  /\ ins.op \in {"CALLM", "CALLMT"} => ins.a + LJ_FR2 + ins.d + 1 \in s.open
  /\ ins.op = "TSETM" => ins.a \in s.open

(* A variable that functions refer to stays where it is, until it is       *)
(* closed, and if it is declared immutable it stays what it is.            *)
HeldStays(ins, s) ==
  /\ ins.op \in CallOps => \A h \in s.held : h[1] < ins.a
  /\ ins.op \in TailCallOps \cup ReturnOps => s.held = {}
  /\ \A h \in s.held : h[2] => h[1] \notin Written(ins)

(* A variable is one upvalue of a function, and declared the same each     *)
(* time; variables of outer functions are known to the creating one.       *)
CapturesAgree(c, key, ins, s) ==
  ins.op = "FNEW" =>
    LET uvs == c.protos[ins.d].uvs
    IN  /\ \A i, j \in Locals(c.protos[ins.d]) : uvs[i].at = uvs[j].at => i = j
        /\ \A i \in Locals(c.protos[ins.d]) :
             /\ uvs[i].at \in Nat /\ uvs[i].immutable \in BOOLEAN
             /\ \A h \in s.held : h[1] = uvs[i].at => h[2] = uvs[i].immutable
        /\ \A i \in DOMAIN uvs \ Locals(c.protos[ins.d]) :
             uvs[i].at \in DOMAIN c.protos[key].uvs

(* What a function refers to and may be immutable is known to be so, and   *)
(* not assigned.                                                           *)
FrozenKept(c, F, key, ins) ==
  /\ ins.op = "USET" => ins.a \notin F[key].frozen
  /\ ins.op = "FNEW" =>
       LET uvs == c.protos[ins.d].uvs
       IN  \A i \in DOMAIN uvs :
             (IF uvs[i].local THEN uvs[i].immutable ELSE uvs[i].at \in F[key].frozen)
               => i \in F[ins.d].frozen

Safe(c, key, pc, s) ==
  LET ins == c.protos[key].code[pc]
  IN  /\ Formed(c, key, pc)
      /\ ReadsWritten(c, ins, s)
      /\ HeldStays(ins, s)
      /\ CapturesAgree(c, key, ins, s)

-----------------------------------------------------------------------------

(* What holds where a function is entered: it has its parameters.          *)
AtEntry(proto) == [w |-> 0..(proto.numparams - 1), held |-> {}, open |-> {}]

(* Facts s say no more than t.                                             *)
NoStronger(s, t) == s.w \subseteq t.w /\ t.held \subseteq s.held /\ s.open \subseteq t.open

PrototypeAccepted(c, F, key) ==
  LET flow == F[key].flow
      code == c.protos[key].code
  IN  /\ DOMAIN flow \subseteq DOMAIN code \cap (Nat \ {0})
      /\ 2 \in DOMAIN flow
      /\ c.protos[key].numparams \in Nat
      /\ NoStronger(flow[2], AtEntry(c.protos[key]))
      /\ \A pc \in DOMAIN flow :
           /\ flow[pc].w \subseteq Nat
           /\ Safe(c, key, pc, flow[pc])
           /\ FrozenKept(c, F, key, code[pc])
           /\ \A e \in Edges(c, key, pc, flow[pc]) :
                e[1] \in DOMAIN flow /\ NoStronger(flow[e[1]], e[2])

Accepts(c, F) ==
  /\ <<>> \in DOMAIN c.protos
  /\ c.protos[<<>>].numparams = 0 /\ c.protos[<<>>].uvs = <<>>
  /\ DOMAIN F = DOMAIN c.protos
  /\ \A key \in DOMAIN c.protos : PrototypeAccepted(c, F, key)

=============================================================================
