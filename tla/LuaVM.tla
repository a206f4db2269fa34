------------------------------- MODULE LuaVM -------------------------------
(***************************************************************************)
(* The interpreter of LuaJIT (src/luajit/src/vm_x86.dasc) on the bytecode  *)
(* of LuaCompile: lua_pcall on the function that luaL_loadstring made.     *)
(* It runs any bytecode.                                                   *)
(*                                                                         *)
(* The slots of all activations are one stack; a callee's registers begin  *)
(* above the one that holds it.  A variable that a closure refers to stays *)
(* in its slot while it is open, and moves into its upvalue object when it *)
(* is closed (lj_func.c).                                                  *)
(***************************************************************************)
EXTENDS LuaFlow

CONSTANTS
  Print0(_),  \* what __print0 makes of a value
  Flow(_)     \* facts about the code of a chunk, as LuaFlow has them

VARIABLES
  chunk,     \* what luaL_loadstring made of the text
  stack,     \* the values of the slots
  frames,    \* the activations, the running one last
  upvals,    \* the upvalue objects made so far
  globals,   \* the environment of the main function: value by name
  made,      \* how many objects and activations were made: their identities
  multres,   \* MULTRES, how many results the last call gave
  out,       \* the print buffer of the prelude
  outcome    \* "unloaded", "refused", "running", "returned" or "failed"

runVars == <<chunk, stack, frames, upvals, globals, made, multres, out, outcome>>

Empty == [x \in {} |-> Nil]

(* A closure of the prototype with this name, with its upvalue objects.    *)
Closure(id, key, uvs) == <<"closure", id, key, uvs>>

Frame(id, fn, base) == [id |-> id, fn |-> fn, base |-> base, pc |-> 2]

RunInit ==
  /\ chunk = <<>> /\ stack = <<>> /\ frames = <<>>
  /\ upvals = Empty /\ globals = Empty
  /\ made = 0 /\ multres = 0
  /\ out = <<>>
  /\ outcome = "unloaded"

(* luaL_loadstring, and lua_pcall(L, 0, LUA_MULTRET, 0) of the function    *)
(* that it gives, unless it gives the message of a limit.                  *)
StartRun(c) ==
  /\ outcome = "unloaded"
  /\ chunk' = c
  /\ IF c.ok
     THEN /\ outcome' = "running"
          /\ frames' = << Frame(0, Closure(0, <<>>, <<>>), 0) >>
          /\ made' = 1
     ELSE /\ outcome' = "refused"
          /\ UNCHANGED <<frames, made>>
  /\ UNCHANGED <<stack, upvals, globals, multres, out>>

-----------------------------------------------------------------------------
(* The running function                                                    *)

ProtoOf(fn) == chunk.protos[fn[3]]

Top == frames[Len(frames)]

Callers == SubSeq(frames, 1, Len(frames) - 1)

Code == ProtoOf(Top.fn).code

This == Code[Top.pc]

Now(ops) == outcome = "running" /\ This.op \in ops

Slot(r) == Top.base + r + 1

R(r) == IF Slot(r) \in DOMAIN stack THEN stack[Slot(r)] ELSE Stale

Value(operand) == IF operand[1] = "reg" THEN R(operand[2]) ELSE operand[2]

(* The slots with v in those from lo to hi; what it passes over is stale.  *)
PutAll(s, lo, hi, v) ==
  [j \in 1..(IF hi > Len(s) THEN hi ELSE Len(s)) |->
     IF j \in lo..hi THEN v ELSE IF j <= Len(s) THEN s[j] ELSE Stale]

Put(s, i, v) == PutAll(s, i, i, v)

Goto(pc) == frames' = [frames EXCEPT ![Len(frames)].pc = pc]

Next_ == Goto(Top.pc + 1)

(* A Lua error: lua_pcall gives the message.                               *)
Fail ==
  /\ outcome' = "failed"
  /\ UNCHANGED <<chunk, stack, frames, upvals, globals, made, multres, out>>

(* The instruction leaves v in register r.                                 *)
Result(r, v) ==
  IF v = Fault THEN Fail
  ELSE /\ stack' = Put(stack, Slot(r), v)
       /\ Next_
       /\ UNCHANGED <<chunk, upvals, globals, made, multres, out, outcome>>

-----------------------------------------------------------------------------
(* Instructions without calls                                              *)

UpvalueOf(i) == Top.fn[4][i]

UpvalueValue(u) == IF u.open THEN stack[u.at] ELSE u.value

GlobalValue(x) == IF x \in DOMAIN globals THEN globals[x] ELSE Nil

(* A constant, or what the prelude computes into one of its locals.        *)
Load ==
  /\ Now({"MOV", "CONST", "UGET", "GGET", "TGETB"})
  /\ Result(This.a, CASE This.op = "MOV"   -> R(This.d)
                      [] This.op = "CONST" -> This.d
                      [] This.op = "UGET"  -> UpvalueValue(upvals[UpvalueOf(This.d)])
                      [] This.op = "GGET"  -> GlobalValue(This.d)
                      [] This.op = "TGETB" -> Component(R(This.b), This.d))

LoadNils ==
  /\ Now({"KNIL"})
  /\ stack' = PutAll(stack, Slot(This.a), Slot(This.d), Nil)
  /\ Next_
  /\ UNCHANGED <<chunk, upvals, globals, made, multres, out, outcome>>

Compute ==
  /\ Now({"ARITH", "NOT"})
  /\ Result(This.a, IF This.op = "NOT" THEN Bool(~Truthy(R(This.d)))
                    ELSE Operate(This.d[1], Value(This.b), Value(This.d[2])))

(* A table with the constants of its template.                             *)
NewTable ==
  /\ Now({"TNEW", "TDUP"})
  /\ LET Given(k) == {j \in DOMAIN This.d : This.d[j][1] = k}
         Item(k) == IF Given(k) = {} THEN Nil ELSE This.d[CHOOSE j \in Given(k) : TRUE][2]
     IN  stack' = Put(stack, Slot(This.a), Pair(made, Item(1), Item(2)))
  /\ made' = made + 1
  /\ Next_
  /\ UNCHANGED <<chunk, upvals, globals, multres, out, outcome>>

(* TSETM stores all results of the last call, of which two can be seen.    *)
StoreItem ==
  /\ Now({"TSETB", "TSETM"})
  /\ LET t == IF This.op = "TSETM" THEN This.a - 1 ELSE This.b
         n == IF This.op = "TSETM" THEN multres ELSE 1
         Item(k) == IF k \in This.d..(This.d + n - 1) THEN R(This.a + k - This.d)
                    ELSE Component(R(t), k)
     IN  stack' = Put(stack, Slot(t), Pair(R(t)[2], Item(1), Item(2)))
  /\ Next_
  /\ UNCHANGED <<chunk, upvals, globals, made, multres, out, outcome>>

Store ==
  /\ Now({"USET", "GSET"})
  /\ IF This.op = "GSET"
     THEN /\ globals' = [x \in DOMAIN globals \cup {This.d} |->
                         IF x = This.d THEN R(This.a) ELSE globals[x]]
          /\ UNCHANGED <<stack, upvals>>
     ELSE LET i == UpvalueOf(This.a)
              u == upvals[i]
          IN  IF u.open
              THEN stack' = Put(stack, u.at, Value(This.d)) /\ UNCHANGED <<upvals, globals>>
              ELSE upvals' = [upvals EXCEPT ![i].value = Value(This.d)]
                   /\ UNCHANGED <<stack, globals>>
  /\ Next_
  /\ UNCHANGED <<chunk, made, multres, out, outcome>>

(* lj_func_newL_gc and func_finduv: an upvalue object for each variable of *)
(* the running function that the new one refers to, one for all closures;  *)
(* for other variables, the objects of the running function.               *)
NewClosure ==
  /\ Now({"FNEW"})
  /\ LET proto == chunk.protos[This.d]
         uvs == proto.uvs
         Known(i) == {k \in DOMAIN upvals : upvals[k].open /\ upvals[k].at = Slot(uvs[i].at)}
         fresh == {i \in Locals(proto) : Known(i) = {}}
         Object(i) == CASE i \notin Locals(proto) -> UpvalueOf(uvs[i].at)
                        [] i \in fresh -> <<made, i>>
                        [] i \in Locals(proto) \ fresh -> CHOOSE k \in Known(i) : TRUE
         New(i) == [open |-> TRUE, at |-> Slot(uvs[i].at), value |-> Nil,
                    immutable |-> uvs[i].immutable, owner |-> Top.id]
         Refound(k) == {i \in Locals(proto) : k \in Known(i)}
         Marked(k) == IF Refound(k) = {} THEN upvals[k]
                      ELSE [upvals[k] EXCEPT !.immutable =
                              uvs[CHOOSE i \in Refound(k) : TRUE].immutable]
     IN  /\ upvals' = [k \in DOMAIN upvals \cup {<<made, i>> : i \in fresh} |->
                         IF k \in DOMAIN upvals THEN Marked(k) ELSE New(k[2])]
         /\ stack' = Put(stack, Slot(This.a),
                         Closure(made, This.d, [i \in DOMAIN uvs |-> Object(i)]))
  /\ made' = made + 1
  /\ Next_
  /\ UNCHANGED <<chunk, globals, multres, out, outcome>>

-----------------------------------------------------------------------------
(* Jumps.  A test and the jump behind it are one step.                     *)

Holds(ins) ==
  CASE ins.op \in {"IST", "ISTC"} -> Bool(Truthy(R(ins.d)))
    [] ins.op \in {"ISF", "ISFC"} -> Bool(~Truthy(R(ins.d)))
    [] ins.op \in {"ISEQ", "ISNE"} ->
         Bool(Same(R(ins.a), Value(ins.d)) = (ins.op = "ISEQ"))
    [] OTHER ->
         LET v == Operate(IF ins.op \in {"ISLT", "ISGE"} THEN "<" ELSE "<=",
                          R(ins.a), Value(ins.d))
         IN  IF v # Fault /\ ins.op \in {"ISGE", "ISGT"} THEN Bool(~Truthy(v)) ELSE v

Test ==
  /\ Now(Tests)
  /\ LET taken == Holds(This)
     IN  IF taken = Fault THEN Fail
         ELSE /\ Goto(IF Truthy(taken) THEN Code[Top.pc + 1].d ELSE Top.pc + 2)
              /\ stack' = IF Truthy(taken) /\ This.op \in Copies
                          THEN Put(stack, Slot(This.a), R(This.d)) ELSE stack
              /\ UNCHANGED <<chunk, upvals, globals, made, multres, out, outcome>>

(* A slip: the variable in the slot itself stays open.                     *)
ClosedSlip(level) ==
  [k \in DOMAIN upvals |->
     IF upvals[k].open /\ upvals[k].at > level
     THEN [upvals[k] EXCEPT !.open = FALSE, !.value = stack[upvals[k].at], !.at = 0]
     ELSE upvals[k]]

(* lj_func_closeuv: upvalues at this slot and above.                       *)
Closed(level) ==
  [k \in DOMAIN upvals |->
     IF upvals[k].open /\ upvals[k].at >= level
     THEN [upvals[k] EXCEPT !.open = FALSE, !.value = stack[upvals[k].at], !.at = 0]
     ELSE upvals[k]]

Jump ==
  /\ Now({"JMP", "UCLO"})
  /\ upvals' = IF This.op = "UCLO" THEN Closed(Slot(This.a)) ELSE upvals
  /\ Goto(This.d)
  /\ UNCHANGED <<chunk, stack, globals, made, multres, out, outcome>>

-----------------------------------------------------------------------------
(* Calls                                                                     *)

Calling == Now(CallOps \cup TailCallOps)

InTail == This.op \in TailCallOps

Callee == R(This.a)

NumArgs == ArgCount(This, multres)

Args == [i \in 1..NumArgs |-> R(This.a + LJ_FR2 + i)]

(* The first n slots.                                                      *)
Below(n) == [i \in 1..n |-> IF i <= Len(stack) THEN stack[i] ELSE Stale]

(* FUNCF: missing arguments are nil, extra ones are dropped.               *)
Parameters(fn) ==
  [i \in 1..ProtoOf(fn).numparams |-> IF i <= NumArgs THEN Args[i] ELSE Nil]

(* The activations that wait for what the running function calls: not     *)
(* itself if it makes a tail call.                                         *)
Waiting ==
  IF InTail THEN Callers ELSE [frames EXCEPT ![Len(frames)].pc = @ + 1]

(* A tail call moves callee and arguments down to where the running        *)
(* function has its own.                                                   *)
EnterFunction ==
  /\ Calling
  /\ Callee[1] = "closure"
  /\ LET base == IF InTail THEN Top.base ELSE Slot(This.a) + LJ_FR2
     IN  /\ stack' = Below(base) \o Parameters(Callee)
         /\ frames' = Append(Waiting, Frame(made, Callee, base))
  /\ made' = made + 1
  /\ UNCHANGED <<chunk, upvals, globals, multres, out, outcome>>

(* The caller gets as many results as its call instruction asks for; the   *)
(* function that has returned is gone with all above it.                   *)
GiveResults(callers, results) ==
  LET top == callers[Len(callers)]
      call == ProtoOf(top.fn).code[top.pc - 1]
      wanted == IF call.b = 0 THEN Len(results) ELSE call.b - 1
  IN  /\ frames' = callers
      /\ stack' = Below(top.base + call.a) \o
                    [i \in 1..wanted |-> IF i <= Len(results) THEN results[i] ELSE Nil]
      /\ multres' = Len(results)

(* A function without callers gives the result of the run.                 *)
Leave(callers, results) ==
  IF callers = <<>> THEN outcome' = "returned" /\ UNCHANGED <<stack, frames, multres>>
  ELSE GiveResults(callers, results) /\ UNCHANGED outcome

Return ==
  /\ Now(ReturnOps)
  /\ Leave(Callers, IF This.op = "RET1" THEN << R(This.a) >> ELSE <<>>)
  /\ UNCHANGED <<chunk, upvals, globals, made, out>>

(* The functions of the prelude: results, or an error.                     *)
BuiltinResults(f, args) ==
  LET x == IF args = <<>> THEN Nil ELSE args[1]
      One(v) == IF v = Fault THEN Fault ELSE << v >>
  IN  CASE f = "__to_bit"  -> One(ToBit(x))
        [] f = "__floor"   -> One(Floor(x))
        [] f = "__assert"  -> IF Truthy(x) THEN args ELSE Fault
        [] f = "__new_str" -> << Str(x[2]) >>
        [] f = "__print"   -> << x >>
        [] f = "__buffer_tostring" -> <<>>
        [] OTHER           -> Fault          \* not called by generated code

CallBuiltin ==
  /\ Calling
  /\ Callee[1] = "builtin"
  /\ LET f == Callee[2]
         v == BuiltinResults(f, Args)
     IN  IF v = Fault THEN Fail
         ELSE /\ Leave(Waiting, v)
              /\ out' = IF f = "__print" THEN Append(out, Print0(v[1])) ELSE out
              /\ UNCHANGED <<chunk, upvals, globals, made>>

CallOther ==
  /\ Calling
  /\ Callee[1] \notin {"closure", "builtin"}
  /\ Fail

RunNext ==
  \/ Load \/ LoadNils \/ Compute \/ NewTable \/ StoreItem \/ Store \/ NewClosure
  \/ Test \/ Jump
  \/ EnterFunction \/ CallBuiltin \/ CallOther \/ Return

MachineSpec == RunInit /\ [][(\E c : StartRun(c)) \/ RunNext]_runVars

-----------------------------------------------------------------------------
(* Properties                                                              *)

(* Stack, activations and upvalues fit each other, and control never       *)
(* leaves the code of a function: every jump got its target.               *)
RunTypeOK ==
  /\ outcome \in {"unloaded", "refused", "running", "returned", "failed"}
  /\ made \in Nat /\ multres \in Nat
  /\ \A i \in DOMAIN frames :
       /\ frames[i].pc \in DOMAIN ProtoOf(frames[i].fn).code
       /\ \A k \in DOMAIN frames[i].fn[4] : frames[i].fn[4][k] \in DOMAIN upvals
       /\ i > 1 => frames[i].base > frames[i - 1].base

(* Nothing was run yet of the chunk that was loaded.                       *)
JustStarted == outcome = "running" /\ made = 1 /\ Top.pc = 2

(* The one-pass compiler makes code that the interpreter can trust: there  *)
(* are facts about each instruction of it that Accepts agrees with.        *)
CodeVerified == JustStarted => Accepts(chunk, Flow(chunk))

(* No instruction reads a register that was not written since its function *)
(* was called, or that a call below it has clobbered, on whatever way      *)
(* control got there.                                                      *)
RegistersWritten ==
  outcome = "running" => \A r \in RegsRead(chunk, This, multres) : R(r) # Stale

(* An open upvalue is a variable of an activation that has not returned    *)
(* nor made a tail call, and the only one for that variable: every way out *)
(* of a scope closes the variables that functions refer to.                *)
OpenUpvaluesLive ==
  \A k \in DOMAIN upvals : upvals[k].open =>
    /\ upvals[k].at \in DOMAIN stack
    /\ \E i \in DOMAIN frames :
         /\ frames[i].id = upvals[k].owner
         /\ upvals[k].at > frames[i].base
         /\ i < Len(frames) => upvals[k].at < frames[i + 1].base
    /\ \A j \in DOMAIN upvals \ {k} : ~(upvals[j].open /\ upvals[j].at = upvals[k].at)

(* A variable that the compiler declares immutable is not assigned while   *)
(* a closure refers to it; the trace compiler takes its value for a        *)
(* constant.                                                               *)
ImmutableKept ==
  [][\A k \in DOMAIN upvals :
       upvals[k].immutable => UpvalueValue(upvals[k])' = UpvalueValue(upvals[k])]_runVars

=============================================================================
