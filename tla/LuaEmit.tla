------------------------------ MODULE LuaEmit ------------------------------
(***************************************************************************)
(* The one-pass code generator in src/luajit/src/lj_parse.c: from the tree *)
(* that LuaParse reads to prototypes of bytecode, for the part of Lua that *)
(* is generated.  An operator is a function of lj_parse.c; it takes the    *)
(* state f of the function being compiled (FuncState, the enclosing one in *)
(* f.prev) and gives the next one, with an expression descriptor e where   *)
(* the C function updates one.                                             *)
(*                                                                         *)
(* A jump list, threaded through its instructions in the source, is a set  *)
(* of positions; constants stand in the instruction; a jump holds its      *)
(* target.  The limits that are exceeded are collected in f.err, a failed  *)
(* lj_assertFS, which release builds do not compile, in f.asserted.  The   *)
(* limits on constants and instructions are left out.                      *)
(***************************************************************************)
EXTENDS FiniteSets, LuaParse, LuaBytecode

CONSTANTS
  N_TEMPS,       \* how many temporaries gen_prog declares
  MAX_LOCVAR,    \* LJ_MAX_LOCVAR, locals of a function
  MAX_UPVAL,     \* LJ_MAX_UPVAL, variables of other functions it refers to
  MAX_SLOTS,     \* LJ_MAX_SLOTS, registers of a function
  MAX_XLEVEL,    \* LJ_MAX_XLEVEL, how deep blocks and expressions nest
  MAX_JUMP       \* BCMAX_D - BCBIAS_J, how many instructions a jump skips

ASSUME LimitsArePositive ==
  /\ N_TEMPS \in Nat
  /\ {MAX_LOCVAR, MAX_UPVAL, MAX_SLOTS, MAX_XLEVEL, MAX_JUMP} \subseteq Nat \ {0}

FuncInit(prev, depth) ==
  [code |-> <<>>, lasttarget |-> 1, jpc |-> {}, freereg |-> 0, framesize |-> 1,
   vars |-> <<>>, uvs |-> <<>>, scopes |-> <<>>, made |-> 0, rw |-> {},
   child |-> FALSE, hasreturn |-> FALSE, fixup |-> FALSE, numparams |-> 0,
   prev |-> prev, depth |-> depth, err |-> {}, asserted |-> TRUE]

Pc(f) == Len(f.code) + 1

NActVar(f) == Len(f.vars)

Assert_(f, c) == [f EXCEPT !.asserted = @ /\ c]

CheckLimit(f, exceeded, what) == IF exceeded THEN [f EXCEPT !.err = @ \cup {what}] ELSE f

(* An expression: its kind, primary and secondary info, and the jumps out  *)
(* of it when it is true and when it is false.                             *)
Expr0(k, info, aux) == [k |-> k, info |-> info, aux |-> aux, t |-> {}, f |-> {}]

With(f, e) == [f |-> f, e |-> e]

(* What is done with the result of the call before.                        *)
On(result, Continue(_)) == Continue(result)

HasJump(e) == e.t # e.f
IsK(e) == e.k = "const"
IsKNoJump(e) == IsK(e) /\ ~HasJump(e)
IsNumK(e) == IsK(e) /\ e.info[1] = "num"

-----------------------------------------------------------------------------
(* Jump lists                                                              *)

(* TLC is to compute a sequence at once, not each element when it is used: *)
(* it loses all but the first of several EXCEPT for one field otherwise.   *)
AsTuple(s) == s \o <<>>

(* A test that copies what it tests, or a constant without a register.     *)
Patchable(ins) == ins.op \in {"ISTC", "ISFC"} \/ ins.a = NO_REG

JmpNoValue(f, list) == \E pc \in list : ~Patchable(f.code[pc - 1])

(* jmp_patchtestreg: let the test in front of a jump leave its value in    *)
(* reg, or nowhere.                                                        *)
PatchTestReg(ins, pc, reg) ==
  LET copies == ins.op \in {"ISTC", "ISFC"}
      Plain == IF ins.op = "ISTC" THEN "IST" ELSE "ISF"
  IN  CASE copies /\ reg \notin {NO_REG, ins.d} -> [ins EXCEPT !.a = reg]
        [] copies /\ reg \in {NO_REG, ins.d}    -> Ins(Plain, 0, 0, ins.d)
        [] ~copies /\ ins.a = NO_REG /\ reg = NO_REG -> Ins("JMP", 0, 0, pc + 1)
        [] ~copies /\ ins.a = NO_REG /\ reg # NO_REG -> [ins EXCEPT !.a = reg]
        [] ~copies /\ ins.a # NO_REG -> ins

(* jmp_patchins: the distance has to fit into the instruction.             *)
TooFar(pc, target) == target - (pc + 1) > MAX_JUMP

(* The jumps of the list go to vtarget when their test leaves a value, and *)
(* to dtarget otherwise.                                                   *)
JmpPatchVal(f, list, vtarget, reg, dtarget) ==
  LET Target(pc) == IF Patchable(f.code[pc - 1]) THEN vtarget ELSE dtarget
      Patched(pc) == IF pc \in list THEN [f.code[pc] EXCEPT !.d = Target(pc)] ELSE f.code[pc]
      checked == CheckLimit(f, \E pc \in list : TooFar(pc, Target(pc)), "jumps")
  IN  IF list = {} THEN f
      ELSE [checked EXCEPT !.code = AsTuple([pc \in DOMAIN @ |->
              IF pc + 1 \in list THEN PatchTestReg(Patched(pc), pc, reg) ELSE Patched(pc)])]

JmpDropVal(f, list) ==
  [f EXCEPT !.code = AsTuple([pc \in DOMAIN @ |->
     IF pc + 1 \in list THEN PatchTestReg(f.code[pc], pc, NO_REG) ELSE f.code[pc]])]

(* Jump to the next instruction, whatever it will be.                      *)
JmpToHere(f, list) == [f EXCEPT !.lasttarget = Pc(f), !.jpc = @ \cup list]

-----------------------------------------------------------------------------
(* Registers and instructions                                              *)

BcregBump(f, n) ==
  LET sz == f.freereg + n
  IN  IF sz <= f.framesize THEN f
      ELSE [CheckLimit(f, sz >= MAX_SLOTS, "slots") EXCEPT !.framesize = sz]

BcregReserve(f, n) == [BcregBump(f, n) EXCEPT !.freereg = @ + n]

BcregFree(f, reg) ==
  IF reg < NActVar(f) THEN f
  ELSE Assert_([f EXCEPT !.freereg = @ - 1], reg = f.freereg - 1)

ExprFree(f, e) == IF e.k = "nonreloc" THEN BcregFree(f, e.info) ELSE f

(* A slip: the register of the right operand stays in use.                 *)
FreeOperandsSlip(f, e1, e2) == ExprFree(f, e1)

(* The registers of both operands, in an order that the assertion of       *)
(* bcreg_free does not know.                                               *)
FreeOperands(f, e1, e2) ==
  [f EXCEPT !.freereg = @ - Cardinality({i \in 1..2 :
     LET e == <<e1, e2>>[i] IN e.k = "nonreloc" /\ e.info >= NActVar(f)})]

(* bcemit_INS, where every pending jump gets its target.                   *)
Emit(f, ins) ==
  LET g == JmpPatchVal(f, f.jpc, Pc(f), NO_REG, Pc(f))
  IN  [g EXCEPT !.code = Append(@, ins), !.jpc = {}]

(* An expression that the instruction just emitted computes.               *)
Relocable(f) == With(f, Expr0("relocable", Len(f.code), 0))

SetA(f, pc, reg) == [f EXCEPT !.code[pc].a = reg]

(* bcemit_jmp: the jump, with those that were to come here, in list.  A    *)
(* UCLO just emitted, which nothing jumps behind, becomes the jump.        *)
BcemitJmp(f) ==
  LET j == Len(f.code)
      g == [f EXCEPT !.jpc = {}]
  IN  IF j >= f.lasttarget /\ f.code[j].op = "UCLO"
      THEN [f |-> [g EXCEPT !.code[j].d = NO_JMP, !.lasttarget = j + 1],
            list |-> {j} \cup f.jpc]
      ELSE [f |-> Emit(g, Ins("JMP", 0, 0, NO_JMP)), list |-> {j + 1} \cup f.jpc]

(* bcemit_nil: registers from..from+n-1 are set to nil, by the instruction *)
(* before if that sets a neighbour to nil and no jump comes between.       *)
BcemitNil(f, from, n) ==
  LET j == Len(f.code)
      ins == f.code[j]
      to == from + n - 1
      KNil(lo, hi) == IF lo = hi THEN Ins("CONST", lo, 0, Nil) ELSE Ins("KNIL", lo, 0, hi)
      alone == Pc(f) > f.lasttarget
  IN  CASE alone /\ ins.op = "CONST" /\ ins.d = Nil /\ from \in {ins.a, ins.a + 1} ->
             [f EXCEPT !.code[j] = KNil(ins.a, to)]
        [] alone /\ ins.op = "KNIL" /\ ins.a <= from /\ from <= ins.d + 1 ->
             [f EXCEPT !.code[j].d = IF to > @ THEN to ELSE @]
        [] OTHER -> Emit(f, KNil(from, to))

-----------------------------------------------------------------------------
(* Discharging expressions to registers                                    *)

ExprDischarge(f, e) ==
  LET op == [upval |-> "UGET", global |-> "GGET", indexed |-> "TGETB"][e.k]
      ins == IF e.k = "indexed" THEN Ins(op, 0, e.info, e.aux) ELSE Ins(op, 0, 0, e.info)
  IN  CASE e.k \in {"upval", "global", "indexed"} ->
             On(IF e.k = "indexed" THEN BcregFree(f, e.info) ELSE f, LAMBDA g :
               With(Emit(g, ins), [e EXCEPT !.k = "relocable", !.info = Pc(g)]))
        [] e.k = "call"  -> With(f, [e EXCEPT !.k = "nonreloc", !.info = e.aux])
        [] e.k = "local" -> With(f, [e EXCEPT !.k = "nonreloc"])
        [] OTHER         -> With(f, e)

ExprToRegNoBranch(f, e0, reg) ==
  On(ExprDischarge(f, e0), LAMBDA r :
    LET e == r.e
        ins == IF IsK(e) THEN Ins("CONST", reg, 0, e.info) ELSE Ins("MOV", reg, 0, e.info)
        g == CASE IsK(e) /\ e.info = Nil -> BcemitNil(r.f, reg, 1)
               [] e.k = "relocable"      -> SetA(r.f, e.info, reg)
               [] e.k = "nonreloc" /\ reg = e.info -> r.f
               [] OTHER                  -> Emit(r.f, ins)
    IN  IF IsK(e) \/ e.k \in {"relocable", "nonreloc"}
        THEN With(g, [e EXCEPT !.k = "nonreloc", !.info = reg])
        ELSE With(Assert_(r.f, e.k = "jmp"), e))

(* For jumps that bring no value: false and true are put into reg here,    *)
(* and what falls through is led around them.                              *)
LoadBooleans(j, reg) ==
  On(Emit(j.f, Ins("CONST", reg, 0, Bool(FALSE))), LAMBDA g :
    JmpToHere(Emit(Emit(g, Ins("JMP", 0, 0, Pc(g) + 2)), Ins("CONST", reg, 0, Bool(TRUE))),
              j.list))

(* A slip: the jumps for true get behind the constant.                     *)
PatchListsSlip(f, tlist, flist, reg, jfalse) ==
  JmpPatchVal(JmpPatchVal([f EXCEPT !.lasttarget = Pc(f)], flist, Pc(f), reg, jfalse),
              tlist, Pc(f), reg, jfalse + 3)

(* The jumps get to here if they bring their value, and to the constants   *)
(* at jfalse otherwise.                                                    *)
PatchLists(f, tlist, flist, reg, jfalse) ==
  JmpPatchVal(JmpPatchVal([f EXCEPT !.lasttarget = Pc(f)], flist, Pc(f), reg, jfalse),
              tlist, Pc(f), reg, jfalse + 2)

(* The value is in reg however the expression is left: by falling through, *)
(* by a jump that brings its value, or by one that stands for a boolean.   *)
FinishInReg(f, isjmp, tlist, flist, reg) ==
  CASE tlist \cup flist = {} -> f
    [] tlist \cup flist # {} /\ ~(JmpNoValue(f, tlist) \/ JmpNoValue(f, flist)) ->
         PatchLists(f, tlist, flist, reg, NO_JMP)
    [] JmpNoValue(f, tlist) \/ JmpNoValue(f, flist) ->
         On(IF isjmp THEN [f |-> f, list |-> {}] ELSE BcemitJmp(f), LAMBDA j :
           PatchLists(LoadBooleans(j, reg), tlist, flist, reg, Pc(j.f)))

ExprToReg(f, e, reg) ==
  On(ExprToRegNoBranch(f, e, reg), LAMBDA r :
    LET jump == IF r.e.k = "jmp" THEN {r.e.info} ELSE {}
    IN  With(FinishInReg(r.f, jump # {}, r.e.t \cup jump, r.e.f, reg),
             Expr0("nonreloc", reg, 0)))

ExprToNextReg(f, e0) ==
  On(ExprDischarge(f, e0), LAMBDA r :
    On(BcregReserve(ExprFree(r.f, r.e), 1), LAMBDA g : ExprToReg(g, r.e, g.freereg - 1)))

ExprToAnyReg(f, e0) ==
  On(ExprDischarge(f, e0), LAMBDA r :
    CASE r.e.k = "nonreloc" /\ ~HasJump(r.e) -> r
      [] r.e.k = "nonreloc" /\ HasJump(r.e) /\ r.e.info >= NActVar(r.f) ->
           ExprToReg(r.f, r.e, r.e.info)
      [] OTHER -> ExprToNextReg(r.f, r.e))

ExprToVal(f, e) == IF HasJump(e) THEN ExprToAnyReg(f, e) ELSE ExprDischarge(f, e)

(* A slip: the assignment of an upvalue does not count as one.             *)
MarkWrittenSlip(f, var) ==
  IF var.k = "local" THEN [f EXCEPT !.rw = @ \cup {var.aux}] ELSE f

(* VSTACK_VAR_RW: the variable is assigned somewhere.                      *)
MarkWritten(f, var) ==
  IF var.k \in {"local", "upval"} THEN [f EXCEPT !.rw = @ \cup {var.aux}] ELSE f

BcemitStore(f0, var, e) ==
  LET f == MarkWritten(f0, var)
      Store(r, op, a, b, d) == ExprFree(Emit(r.f, Ins(op, a, b, d)), r.e)
  IN  CASE var.k = "local" -> ExprToReg(ExprFree(f, e), e, var.info).f
        [] var.k = "upval" ->
             On(ExprToVal(f, e), LAMBDA v :
               IF IsK(v.e) THEN Store(v, "USET", var.info, 0, Const(v.e.info))
               ELSE On(ExprToAnyReg(v.f, v.e), LAMBDA r :
                      Store(r, "USET", var.info, 0, Reg(r.e.info))))
        [] var.k \in {"global", "indexed"} ->
             On(ExprToAnyReg(f, e), LAMBDA r :
               IF var.k = "global" THEN Store(r, "GSET", r.e.info, 0, var.info)
               ELSE Store(r, "TSETB", r.e.info, var.info, var.aux))

-----------------------------------------------------------------------------
(* Branches                                                                *)

Inverse_ == [ISLT |-> "ISGE", ISGE |-> "ISLT", ISLE |-> "ISGT", ISGT |-> "ISLE",
             ISEQ |-> "ISNE", ISNE |-> "ISEQ"]

InvertCond(f, e) == [f EXCEPT !.code[e.info - 1].op = Inverse_[@]]

(* bcemit_branch: jump when the expression is true (cond) or false.        *)
BcemitBranch(f, e, cond) ==
  LET not == e.k = "relocable" /\ f.code[e.info].op = "NOT"
      Test(reg) == Ins(IF cond THEN "ISTC" ELSE "ISFC", NO_REG, 0, reg)
  IN  IF not
      THEN BcemitJmp([f EXCEPT !.code[e.info] =
                        Ins(IF cond THEN "ISF" ELSE "IST", 0, 0, @.d)])
      ELSE On(IF e.k = "nonreloc" THEN With(f, e)
              ELSE ExprToRegNoBranch(BcregReserve(f, 1), e, f.freereg), LAMBDA r :
             On(BcemitJmp(Emit(r.f, Test(r.e.info))), LAMBDA j :
               [f |-> ExprFree(j.f, r.e), list |-> j.list]))

(* The jumps of an expression that is left when it is "cond": it never,    *)
(* always or sometimes is.                                                 *)
BranchJumps(f, e, cond) ==
  CASE IsK(e) /\ Truthy(e.info) # cond -> [f |-> f, list |-> {}]
    [] IsK(e) /\ Truthy(e.info) = cond -> BcemitJmp(ExprToRegNoBranch(f, e, NO_REG).f)
    [] e.k = "jmp" -> [f |-> IF cond THEN f ELSE InvertCond(f, e), list |-> {e.info}]
    [] OTHER -> BcemitBranch(f, e, cond)

BcemitBranchT(f, e) ==
  On(ExprDischarge(f, e), LAMBDA r :
    On(BranchJumps(r.f, r.e, FALSE), LAMBDA j :
      With(JmpToHere(j.f, e.t), [r.e EXCEPT !.f = @ \cup j.list, !.t = {}])))

BcemitBranchF(f, e) ==
  On(ExprDischarge(f, e), LAMBDA r :
    On(BranchJumps(r.f, r.e, TRUE), LAMBDA j :
      With(JmpToHere(j.f, e.f), [r.e EXCEPT !.t = @ \cup j.list, !.f = {}])))

-----------------------------------------------------------------------------
(* Operators                                                               *)

(* foldarith: an operation on constants, unless it gives NaN.              *)
Folds(op, e1, e2) ==
  /\ IsNumK(e1) /\ IsNumK(e2) /\ ~HasJump(e1) /\ ~HasJump(e2)
  /\ Operate(op, e1.info, e2.info) # NaN

(* The value of an operand that may stay a number constant.                *)
Operand(e) == IF IsK(e) THEN Const(e.info) ELSE Reg(e.info)

(* An operand in a register, or a constant that may stay one.              *)
OperandToVal(f, e, MayStay(_)) ==
  On(ExprToVal(f, e), LAMBDA v : IF MayStay(v.e) THEN v ELSE ExprToAnyReg(v.f, v.e))

BcemitArith(f, op, e1, e2) ==
  IF Folds(op, e1, e2) THEN With(f, [e1 EXCEPT !.info = Operate(op, @, e2.info)])
  ELSE On(OperandToVal(f, e2, IsNumK), LAMBDA r :
         On(OperandToVal(Assert_(r.f, IsNumK(e1) \/ e1.k = "nonreloc"), e1,
                         LAMBDA e : IsNumK(e) /\ ~IsNumK(r.e)), LAMBDA l :
           Relocable(Emit(FreeOperands(l.f, l.e, r.e),
                          Ins("ARITH", 0, Operand(l.e), <<op, Operand(r.e)>>)))))

(* A comparison ends in a jump that is taken when it holds.                *)
Compare(f, op, a, d, e1, e2) ==
  On(BcemitJmp(Emit(FreeOperands(f, e1, e2), Ins(op, a, 0, d))), LAMBDA j :
    With(j.f, Expr0("jmp", Len(j.f.code), 0)))

(* Equality wants its constant, if there is one, as second operand.        *)
BcemitEquality(f, op, e1, e2) ==
  On(ExprToVal(f, e1), LAMBDA v :
    On(ExprToAnyReg(v.f, IF IsK(v.e) THEN e2 ELSE v.e), LAMBDA l :
      On(OperandToVal(l.f, IF IsK(v.e) THEN v.e ELSE e2, IsK), LAMBDA r :
        Compare(r.f, op, l.e.info, Operand(r.e), l.e, r.e))))

(* ">" and ">=" are "<" and "<=" with the operands swapped; the right one  *)
(* of the source is put into a register first either way.                  *)
BcemitOrder(f, op, e1, e2) ==
  LET swap == op \in {">", ">="}
      ins == IF op \in {"<", ">"} THEN "ISLT" ELSE "ISLE"
  IN  On(ExprToVal(f, e1), LAMBDA v :
        On(IF swap THEN ExprToVal(v.f, e2) ELSE With(v.f, e2), LAMBDA w :
          On(ExprToAnyReg(w.f, w.e), LAMBDA r :
            On(ExprToAnyReg(r.f, v.e), LAMBDA l :
              LET a == IF swap THEN r.e ELSE l.e
                  d == IF swap THEN l.e ELSE r.e
              IN  Compare(l.f, ins, a.info, Reg(d.info), a, d)))))

BcemitComp(f, op, e1, e2) ==
  IF op \in {"==", "~="}
  THEN BcemitEquality(f, IF op = "==" THEN "ISEQ" ELSE "ISNE", e1, e2)
  ELSE BcemitOrder(f, op, e1, e2)

(* The left operand, before the right one is read: it is in a register, or *)
(* a constant; a local is in its own, and not copied.                      *)
BcemitBinopLeft(f, op, e) ==
  LET stays == ~HasJump(e) /\ IF op \in {"==", "~="} THEN IsK(e) ELSE IsNumK(e)
  IN  CASE op = "and" -> BcemitBranchT(f, e)
        [] op = "or"  -> BcemitBranchF(f, e)
        [] OTHER      -> IF stays THEN With(f, e) ELSE ExprToAnyReg(f, e)

(* A slip: the jumps out of the first operand are forgotten.               *)
BcemitBinopSlip(f, op, e1, e2) ==
  CASE op \in {"and", "or"} -> ExprDischarge(f, e2)
    [] op \in {"+", "-", "*", "/", "%"} -> BcemitArith(f, op, e1, e2)
    [] OTHER -> BcemitComp(f, op, e1, e2)

BcemitBinop(f, op, e1, e2) ==
  CASE op \in {"and", "or"} ->
         On(ExprDischarge(f, e2), LAMBDA d :
           IF op = "and"
           THEN With(Assert_(d.f, e1.t = {}), [d.e EXCEPT !.f = @ \cup e1.f])
           ELSE With(Assert_(d.f, e1.f = {}), [d.e EXCEPT !.t = @ \cup e1.t]))
    [] op \in {"+", "-", "*", "/", "%"} -> BcemitArith(f, op, e1, e2)
    [] OTHER -> BcemitComp(f, op, e1, e2)

(* not: the jumps change sides, and what they bring is lost.               *)
BcemitNot(f, e) ==
  On(ExprDischarge(JmpDropVal(f, e.t \cup e.f), [e EXCEPT !.t = e.f, !.f = e.t]), LAMBDA r :
    CASE IsK(r.e)      -> With(r.f, [r.e EXCEPT !.info = Bool(~Truthy(@))])
      [] r.e.k = "jmp" -> With(InvertCond(r.f, r.e), r.e)
      [] OTHER         ->
           On(IF r.e.k = "relocable"
              THEN With(SetA(BcregReserve(r.f, 1), r.e.info, r.f.freereg),
                        [r.e EXCEPT !.k = "nonreloc", !.info = r.f.freereg])
              ELSE With(Assert_(r.f, r.e.k = "nonreloc"), r.e), LAMBDA x :
             On(Emit(ExprFree(x.f, x.e), Ins("NOT", 0, 0, x.e.info)), LAMBDA g :
               With(g, [x.e EXCEPT !.k = "relocable", !.info = Len(g.code)]))))

=============================================================================
