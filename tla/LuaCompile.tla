----------------------------- MODULE LuaCompile -----------------------------
(***************************************************************************)
(* Variables, scopes, functions and statements in                          *)
(* src/luajit/src/lj_parse.c, over the instructions of LuaEmit: what       *)
(* luaL_loadstring makes of a chunk.                                       *)
(*                                                                         *)
(* A variable is identified by the depth of its function and a number.     *)
(* The level of an operator is ls->level: how many calls of expr_binop and *)
(* parse_chunk are active.                                                 *)
(***************************************************************************)
EXTENDS LuaEmit
LOCAL SE == INSTANCE SequencesExt
LOCAL INSTANCE TLC

-----------------------------------------------------------------------------
(* Variables                                                               *)

(* var_new and var_add: a local in the next register.                      *)
VarAdd(f, name) ==
  LET g == CheckLimit(f, NActVar(f) >= MAX_LOCVAR, "locals")
  IN  [g EXCEPT !.vars = Append(@, [name |-> name, id |-> <<f.depth, f.made>>]),
                !.made = @ + 1]

(* fscope_uvmark: the scope of the variable in register "level".           *)
FscopeUvMark(f, level) ==
  LET bl == SE!SelectLastInSeq(f.scopes, LAMBDA s : s.nactvar <= level)
  IN  [f EXCEPT !.scopes[bl].upval = TRUE]

(* A slip: every use of a variable is another upvalue.                     *)
VarLookupUvSlip(f, e) ==
  LET g == CheckLimit(f, Len(f.uvs) >= MAX_UPVAL, "upvalues")
  IN  With([g EXCEPT !.uvs = Append(@, [id |-> e.aux, local |-> e.k = "local",
                                        at |-> e.info])],
           Expr0("upval", Len(f.uvs) + 1, e.aux))

(* The index of the upvalue for variable e of the enclosing function.      *)
VarLookupUv(f, e) ==
  LET i == SE!SelectInSeq(f.uvs, LAMBDA u : u.id = e.aux)
      g == CheckLimit(f, Len(f.uvs) >= MAX_UPVAL, "upvalues")
  IN  IF i # 0 THEN With(f, Expr0("upval", i, e.aux))
      ELSE With([g EXCEPT !.uvs = Append(@, [id |-> e.aux, local |-> e.k = "local",
                                             at |-> e.info])],
                Expr0("upval", Len(f.uvs) + 1, e.aux))

RECURSIVE VarLookup(_, _, _)
VarLookup(f, name, first) ==
  LET reg == SE!SelectLastInSeq(f.vars, LAMBDA v : v.name = name) - 1
  IN  CASE reg >= 0 -> With(IF first THEN f ELSE FscopeUvMark(f, reg),
                            Expr0("local", reg, f.vars[reg + 1].id))
        [] reg < 0 /\ f.depth = 0 -> With(f, Expr0("global", name, 0))
        [] reg < 0 /\ f.depth > 0 ->
             On(VarLookup(f.prev, name, FALSE), LAMBDA outer :
               IF outer.e.k = "global" THEN With(f, outer.e)
               ELSE VarLookupUv([f EXCEPT !.prev = outer.f], outer.e))

-----------------------------------------------------------------------------
(* Scopes                                                                  *)

FscopeBegin(f) ==
  Assert_([f EXCEPT !.scopes = Append(@, [nactvar |-> NActVar(f), upval |-> FALSE])],
          f.freereg = NActVar(f))

(* A slip: a scope ends without closing its variables.                     *)
FscopeEndSlip(f, close) ==
  LET bl == f.scopes[Len(f.scopes)]
      g == [f EXCEPT !.scopes = SE!Front(@), !.vars = SubSeq(@, 1, bl.nactvar),
                     !.freereg = bl.nactvar]
  IN  g

(* The variables of the scope go, and if a function refers to one of them, *)
(* they are closed, unless the returns have done that.                     *)
FscopeEnd(f, close) ==
  LET bl == f.scopes[Len(f.scopes)]
      g == [f EXCEPT !.scopes = SE!Front(@), !.vars = SubSeq(@, 1, bl.nactvar),
                     !.freereg = bl.nactvar]
  IN  IF bl.upval /\ close THEN Emit(g, Ins("UCLO", bl.nactvar, 0, Pc(g) + 1)) ELSE g

-----------------------------------------------------------------------------
(* Functions                                                               *)

IsRet(ins) == ins.op \in {"CALLT", "CALLMT", "RET0", "RET1"}

(* Returns before the first function of this one was created do not close  *)
(* variables: each is moved to the end, behind a UCLO that jumps there.    *)
FixupReturns(f, lastpc) ==
  LET fnew == SE!SelectInSeq(f.code, LAMBDA ins : ins.op = "FNEW")
      early == SelectSeq([i \in 1..(lastpc - 1) |-> i],
                         LAMBDA pc : IsRet(f.code[pc]) /\ (fnew = 0 \/ pc < fnew))
      Checked(g, pc) == CheckLimit(g, TooFar(pc, Pc(g)), "jumps")
      Move(g, pc) ==
        Emit([Checked(g, pc) EXCEPT !.code[pc] = Ins("UCLO", 0, 0, Pc(g))], f.code[pc])
  IN  IF f.fixup THEN SE!FoldLeft(Move, f, early) ELSE f

FsFixupRet(f) ==
  LET open == Pc(f) <= f.lasttarget \/ ~IsRet(f.code[Len(f.code)])
      Close(g) == IF g.scopes[1].upval THEN Emit(g, Ins("UCLO", 0, 0, Pc(g) + 1)) ELSE g
      Left == IF open THEN Emit(Close(f), Ins("RET0", 0, 0, 1)) ELSE f
  IN  FixupReturns(FscopeEnd(Left, FALSE), Pc(f))

(* fs_fixup_uv2: now that the whole function is read, it is known which of *)
(* its variables the functions in it may take for constant.                *)
MarkImmutable(f, proto) ==
  LET Immutable(uv) == uv.local /\ uv.id \notin f.rw
  IN  [proto EXCEPT !.uvs = [i \in DOMAIN @ |->
         [@[i] EXCEPT !.immutable = Immutable(proto.uvs[i])]]]

FsFinish(f0) ==
  LET Finished(ins, f) == IF ins.op = "FNEW" THEN [ins EXCEPT !.d = MarkImmutable(f, @)] ELSE ins
      Upvalue(uv) == [id |-> uv.id, local |-> uv.local, at |-> uv.at, immutable |-> FALSE]
  IN  On(FsFixupRet(f0), LAMBDA f :
        [f |-> f,
         proto |-> [code |-> [pc \in DOMAIN f.code |-> Finished(f.code[pc], f)],
                    uvs |-> [i \in DOMAIN f.uvs |-> Upvalue(f.uvs[i])],
                    numparams |-> f.numparams, framesize |-> f.framesize]])

(* synlevel_begin                                                          *)
SynLevel(f, level) == CheckLimit(f, level + 1 >= MAX_XLEVEL, "levels")

RECURSIVE Expr_(_, _, _), ExprIn(_, _, _), ExprListTo(_, _, _), TableItems(_, _, _, _, _, _),
          ParseBlock_(_, _, _), ParseChunk_(_, _, _), ParseStmt_(_, _, _),
          ParseStmts(_, _, _)

(* parse_body: the prototype is a constant of the enclosing function.      *)
ParseBody_(f, params, block, level) ==
  LET Declared_(g) == BcregReserve([SE!FoldLeft(VarAdd, g, params) EXCEPT
                                      !.numparams = Len(params)], Len(params))
      new == Declared_(FscopeBegin(FuncInit(f, f.depth + 1)))
      (* What the enclosing function has to know of the one read.          *)
      Outer(g, inner) == [g.prev EXCEPT !.rw = @ \cup g.rw, !.err = @ \cup inner.err,
                                        !.asserted = @ /\ inner.asserted]
      Created(g) == [g EXCEPT !.child = TRUE, !.fixup = @ \/ (~g.child /\ g.hasreturn)]
  IN  On(ParseChunk_(Emit(new, Ins("FUNCF", 0, 0, 0)), block, level), LAMBDA g :
        On(FsFinish(g), LAMBDA fin :
          Relocable(Created(Emit(Outer(g, fin.f), Ins("FNEW", 0, 0, fin.proto))))))

-----------------------------------------------------------------------------
(* Expressions                                                             *)

(* A call passes on all results of a call that is its last argument.       *)
ParseArgs(f, e, args, level) ==
  LET base == e.info
      Call(g, ins) == On(Emit(Assert_(g, e.k = "nonreloc"), ins), LAMBDA h :
                        With([h EXCEPT !.freereg = base + 1],
                             Expr0("call", Len(h.code), base)))
      Fixed(g) == Call(g, Ins("CALL", base, 2, g.freereg - base - LJ_FR2))
      Passing(r) == Call([r.f EXCEPT !.code[r.e.info].b = 0],
                         Ins("CALLM", base, 2, r.e.aux - base - 1 - LJ_FR2))
  IN  IF args = <<>> THEN Fixed(f)
      ELSE On(ExprListTo(f, args, level), LAMBDA r :
             IF r.e.k = "call" THEN Passing(r) ELSE Fixed(ExprToNextReg(r.f, r.e).f))

(* expr_list: all but the last expression are put into registers.          *)
ExprListTo(f, exprs, level) ==
  On(ExprIn(f, Head(exprs), level), LAMBDA r :
    IF Len(exprs) = 1 THEN r
    ELSE ExprListTo(ExprToNextReg(r.f, r.e).f, Tail(exprs), level))

(* Item i of the table that tnew creates in register t: constants go into  *)
(* a template, the others are stored one by one.                           *)
TableItem(f, e, i, t, tnew) ==
  IF IsKNoJump(e)
  THEN [f EXCEPT !.code[tnew] = Ins("TDUP", @.a, 0, Append(@.d, <<i, e.info>>))]
  ELSE BcemitStore(f, Expr0("indexed", t, i), e)

(* The items from number i on.  The result tells whether the last one is a *)
(* call, all of whose results are items.                                   *)
TableItems(f, items, i, t, tnew, level) ==
  On(ExprIn(f, Head(items), level), LAMBDA r :
    On([TableItem(r.f, r.e, i, t, tnew) EXCEPT !.freereg = t + 1], LAMBDA g :
      IF Len(items) > 1 THEN TableItems(g, Tail(items), i + 1, t, tnew, level)
      ELSE [f |-> g, vcall |-> r.e.k = "call", n |-> i]))

ExprTable(f, items, level) ==
  LET t == f.freereg
      tnew == Pc(f)
      AllResults(g, n) ==
        [g EXCEPT !.code[Len(g.code)] = Ins("TSETM", t + 1, 0, n),
                  !.code[Len(g.code) - 1].b = 0]
      Made(g) == IF tnew = Len(g.code)
                 THEN With([SetA(g, tnew, 0) EXCEPT !.freereg = @ - 1],
                           Expr0("relocable", tnew, 0))
                 ELSE With(g, Expr0("nonreloc", t, 0))
  IN  On(TableItems(BcregReserve(Emit(f, Ins("TNEW", t, 0, <<>>)), 1), items, 1, t, tnew, level),
         LAMBDA r : Made(IF r.vcall THEN AllResults(r.f, r.n) ELSE r.f))

(* The key, a constant, is an expression of its own (expr_bracket).        *)
ExprIndex_(f, e, key, level) ==
  On(ExprToAnyReg(f, e), LAMBDA t :
    With(SynLevel(t.f, level), Expr0("indexed", t.e.info, key)))

ExprCall_(f, e, args, level) ==
  On(ExprToNextReg(f, e), LAMBDA callee :
    ParseArgs(BcregReserve(callee.f, LJ_FR2), callee.e, args, level))

ExprOperation_(f, op, e, right, level) ==
  On(BcemitBinopLeft(f, op, e), LAMBDA l :
    On(ExprIn(l.f, right, level), LAMBDA r : BcemitBinop(r.f, op, l.e, r.e)))

(* An expression; what is behind a parenthesis or "not" is one of its own, *)
(* what is before a suffix or an operator belongs to this one.             *)
Expr_(f, node, level) ==
  LET kids == node.kids
  IN  CASE node.tag = "const" -> With(f, Expr0("const", Constant(node.val), 0))
        [] node.tag = "name"  -> VarLookup(f, node.val, TRUE)
        [] node.tag = "table" -> ExprTable(f, kids, level)
        [] node.tag = "function" -> ParseBody_(f, node.val, kids, level)
        [] node.tag \in {"paren", "unop"} ->
             On(ExprIn(f, kids[1], level), LAMBDA r :
               IF node.tag = "paren" THEN ExprDischarge(r.f, r.e) ELSE BcemitNot(r.f, r.e))
        [] node.tag \in {"index", "call", "binop"} ->
             On(Expr_(f, kids[1], level), LAMBDA r :
               CASE node.tag = "index" ->
                      ExprIndex_(r.f, r.e, IF node.val = Sym("[1]") THEN 1 ELSE 2, level)
                 [] node.tag = "call"  -> ExprCall_(r.f, r.e, Tail(kids), level)
                 [] node.tag = "binop" ->
                      ExprOperation_(r.f, node.val[1], r.e, kids[2], level))

(* expr_binop: an expression of its own, one level deeper.                 *)
ExprIn(f, node, level) == Expr_(SynLevel(f, level), node, level + 1)

(* expr_cond: the jumps taken when the condition is false.                 *)
ExprCond(f, node, level) ==
  On(ExprIn(f, node, level), LAMBDA r :
    On(BcemitBranchT(r.f, r.e), LAMBDA b : [f |-> b.f, list |-> b.e.f]))

-----------------------------------------------------------------------------
(* Statements                                                              *)

(* local name: assign_adjust sets it to nil.                               *)
ParseLocal(f, name) ==
  VarAdd(BcemitNil(BcregReserve(f, 1), f.freereg, 1), name)

ParseCallAssign_(f, node, level) ==
  LET Single(e) == IF e.k = "call" THEN [e EXCEPT !.k = "nonreloc", !.info = e.aux] ELSE e
  IN  IF node.tag = "callstat"
      THEN On(Expr_(f, node.kids[1], level), LAMBDA c : [c.f EXCEPT !.code[c.e.info].b = 1])
      ELSE On(VarLookup(f, node.val, TRUE), LAMBDA var :
             On(ExprIn(var.f, node.kids[1], level), LAMBDA r :
               BcemitStore(r.f, var.e, Single(r.e))))

(* A call that is returned becomes a tail call.  Once this function has    *)
(* made one, its variables are closed before it is left.                   *)
ParseReturn_(f, node, level) ==
  LET Leave(g, ins) ==
        LET Close(h) == IF h.child THEN Emit(h, Ins("UCLO", 0, 0, Pc(h) + 1)) ELSE h
        IN  Emit(Close([g EXCEPT !.hasreturn = TRUE]), ins)
      TailCall(g, call) ==
        Leave([g EXCEPT !.code = SE!Front(@)],
              Ins(IF call.op = "CALL" THEN "CALLT" ELSE "CALLMT", call.a, 0, call.d))
  IN  IF node.kids = <<>> THEN Leave(f, Ins("RET0", 0, 0, 1))
      ELSE On(ExprIn(f, node.kids[1], level), LAMBDA r :
             IF r.e.k = "call" THEN TailCall(r.f, r.f.code[r.e.info])
             ELSE On(ExprToAnyReg(r.f, r.e), LAMBDA x : Leave(x.f, Ins("RET1", x.e.info, 0, 2))))

ParseBlock_(f, block, level) == FscopeEnd(ParseChunk_(FscopeBegin(f), block, level), TRUE)

ParseIf_(f, node, level) ==
  On(ExprCond(f, node.kids[1], level), LAMBDA cond :
    On(ParseBlock_(cond.f, node.kids[2], level), LAMBDA then :
      IF node.kids[3] = <<>> THEN JmpToHere(then, cond.list)
      ELSE On(BcemitJmp(then), LAMBDA escape :
             JmpToHere(ParseBlock_(JmpToHere(escape.f, cond.list), node.kids[3], level),
                       escape.list))))

(* The locals of the prelude, in the order it declares them, but __ret.    *)
PreludeLocals == <<"__to_bit", "__buffer", "__buffer_put", "__buffer_tostring", "__new_str",
                   "__str_mt", "__print0", "__print", "__assert", "__floor">>

(* How the prelude computes its locals is left out; its functions refer to *)
(* some of them, and one, __new_str, is assigned after it is declared.     *)
Prelude(f) ==
  LET Add(g, x) == VarAdd(Emit(BcregReserve(g, 1), Ins("CONST", g.freereg, 0, <<"builtin", x>>)),
                          Sym(x))
  IN  On(SE!FoldLeft(Add, f, PreludeLocals), LAMBDA g :
        LET reg == SE!SelectLastInSeq(g.vars, LAMBDA v : v.name = Sym("__new_str")) - 1
        IN  ParseLocal([FscopeUvMark(g, reg) EXCEPT
                          !.child = TRUE, !.rw = @ \cup {g.vars[reg + 1].id}], Ret))

(* local __temp_0 and so on.                                               *)
Temporaries(f) ==
  SE!FoldLeft(ParseLocal, f, [i \in 1..N_TEMPS |-> Temp(i - 1)])

(* return __buffer_tostring(__buffer)                                      *)
Postlude ==
  LET Name_(x) == Node("name", Sym(x), <<>>)
  IN  Node("return", Sym("return"),
           <<Node("call", Sym("("), <<Name_("__buffer_tostring"), Name_("__buffer")>>)>>)

ParseStmt_(f, node, level) ==
  CASE node.tag = "if"     -> ParseIf_(f, node, level)
    [] node.tag = "do"     -> ParseBlock_(f, node.kids, level)
    [] node.tag = "local"  -> ParseLocal(f, node.val)
    [] node.tag = "return" -> ParseReturn_(f, node, level)
    [] node.tag \in {"assign", "callstat"} -> ParseCallAssign_(f, node, level)
    [] node = Node("given", Sym("PRELUDE"), <<>>) -> Prelude(f)
    [] node = Node("given", Sym("TEMPS"), <<>>)   -> Temporaries(f)
    [] node = Node("given", Sym("POSTLUDE"), <<>>) -> ParseReturn_(f, Postlude, level)

(* Every statement leaves the registers to the variables alone; an error   *)
(* ends the parse.                                                         *)
ParseStmts(f, stmts, level) ==
  LET Checked(g) == Assert_(g, g.framesize >= g.freereg /\ g.freereg >= NActVar(g))
  IN  IF f.err # {} \/ stmts = <<>> THEN f
      ELSE On(Checked(ParseStmt_(f, Head(stmts), level)), LAMBDA g :
             ParseStmts([g EXCEPT !.freereg = NActVar(g)], Tail(stmts), level))

ParseChunk_(f, stmts, level) ==
  ParseStmts(SynLevel(f, level), stmts, level + 1)

(* The prototypes of a function and of those in it.  Each is named by the  *)
(* FNEW instructions that lead to it, which refer to it by this name.      *)
RECURSIVE Protos(_, _)
Protos(key, proto) ==
  LET fnews == SelectSeq([pc \in DOMAIN proto.code |-> pc],
                         LAMBDA pc : proto.code[pc].op = "FNEW")
      Named(pc) == IF proto.code[pc].op = "FNEW" THEN Append(key, pc) ELSE proto.code[pc].d
      own == [proto EXCEPT !.code = [pc \in DOMAIN @ |-> [@[pc] EXCEPT !.d = Named(pc)]]]
  IN  SE!FoldLeft(LAMBDA all, pc : all @@ Protos(Append(key, pc), proto.code[pc].d),
                  key :> own, fnews)

(* lj_parse: the prototypes, if no limit is exceeded; the main one is <<>>.*)
LoadString(stmts) ==
  On(FsFinish(ParseChunk_(Emit(FscopeBegin(FuncInit(<<>>, 0)), Ins("FUNCV", 0, 0, 0)), stmts, 0)),
     LAMBDA fin :
       [ok |-> fin.f.err = {}, limits |-> fin.f.err, asserted |-> fin.f.asserted,
        protos |-> Protos(<<>>, fin.proto)])

=============================================================================
