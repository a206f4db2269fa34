------------------------------ MODULE LuaParse ------------------------------
(***************************************************************************)
(* What the generated text means to LuaJIT: the parser of                  *)
(* src/luajit/src/lj_parse.c, over the tokens of LuaTokens and the part of *)
(* the grammar that the compiler writes into.  Each operator is a function *)
(* of lj_parse.c that takes the tokens and a position, and gives the next  *)
(* position and a tree; code emission and registers are left out.          *)
(* The prelude, the declarations of the temporaries and the postlude are   *)
(* statements of their own; the last one is a return.                      *)
(***************************************************************************)
EXTENDS LuaTokens

Node(tag, val, kids) == [tag |-> tag, val |-> val, kids |-> kids]

Parsed(pos, tree) == [ok |-> TRUE, pos |-> pos, tree |-> tree]

SyntaxError == [ok |-> FALSE, pos |-> 0, tree |-> Node("error", <<>>, <<>>)]

(* Go on with a result unless it is an error.                              *)
Then(r, Go(_)) == IF r.ok THEN Go(r) ELSE r

Eof == Sym("eof")

Tok(ts, p) == IF p <= Len(ts) THEN ts[p] ELSE Eof

(* lex_match: the next token has to be this one.                           *)
Match(ts, r, word) ==
  Then(r, LAMBDA s : IF Tok(ts, s.pos) = Sym(word) THEN Parsed(s.pos + 1, s.tree)
                     ELSE SyntaxError)

Names == {Sym(w) : w \in {"__to_bit", "__floor", "__print", "__assert",
                          "__new_str", "__ret", "__sentinel"}}

IsName(t) == t[1] \in {"temp", "var"} \/ t \in Names

IsConst(t) == t[1] \in {"int", "str", "true", "false", "nil",
                        "'wrong argument count'"}

Priority ==
  [o \in {"+", "-", "*", "/", "%", "==", "~=", "<", ">", "<=", ">=", "and", "or"} |->
     CASE o \in {"+", "-"}      -> 6
       [] o \in {"*", "/", "%"} -> 7
       [] o = "and"             -> 2
       [] o = "or"              -> 1
       [] OTHER                 -> 3]

UNARY_PRIORITY == 8

RECURSIVE Expr(_, _), ExprBinop(_, _, _), BinopRest(_, _, _), ExprUnop(_, _),
          ExprSimple(_, _), ExprPrimary(_, _), Suffixes(_, _), ExprList(_, _, _),
          ParseBody(_, _), ParseParams(_, _, _), ParseChunk(_, _, _),
          ParseStmt(_, _), ParseIf(_, _), ParseReturn(_, _), ParseCallAssign(_, _)

Expr(ts, p) == ExprBinop(ts, p, 0)

ExprBinop(ts, p, limit) ==
  Then(ExprUnop(ts, p), LAMBDA lhs : BinopRest(ts, lhs, limit))

BinopRest(ts, lhs, limit) ==
  LET op == Tok(ts, lhs.pos)
  IN  IF op[1] \in DOMAIN Priority /\ Priority[op[1]] > limit
      THEN Then(ExprBinop(ts, lhs.pos + 1, Priority[op[1]]), LAMBDA rhs :
             BinopRest(ts, Parsed(rhs.pos, Node("binop", op, <<lhs.tree, rhs.tree>>)),
                       limit))
      ELSE lhs

ExprUnop(ts, p) ==
  IF Tok(ts, p) \in {Sym("not"), Sym("-")}
  THEN Then(ExprBinop(ts, p + 1, UNARY_PRIORITY), LAMBDA r :
         Parsed(r.pos, Node("unop", Tok(ts, p), <<r.tree>>)))
  ELSE ExprSimple(ts, p)

ExprSimple(ts, p) ==
  LET t == Tok(ts, p)
  IN  CASE IsConst(t)         -> Parsed(p + 1, Node("const", t, <<>>))
        [] t = Sym("{")       -> Match(ts, Then(ExprList(ts, p + 1, <<>>),
                                   LAMBDA r : Parsed(r.pos, Node("table", t, r.tree))),
                                 "}")
        [] t = Sym("function") -> ParseBody(ts, p + 1)
        [] OTHER              -> ExprPrimary(ts, p)

(* A name or an expression in parentheses, and its suffixes.               *)
ExprPrimary(ts, p) ==
  LET t == Tok(ts, p)
  IN  CASE t = Sym("(") ->
             Then(Match(ts, Expr(ts, p + 1), ")"), LAMBDA r :
               Suffixes(ts, Parsed(r.pos, Node("paren", t, <<r.tree>>))))
        [] IsName(t)    -> Suffixes(ts, Parsed(p + 1, Node("name", t, <<>>)))
        [] OTHER        -> SyntaxError

Suffixes(ts, r) ==
  LET t == Tok(ts, r.pos)
  IN  CASE t \in {Sym("[1]"), Sym("[2]")} ->
             Suffixes(ts, Parsed(r.pos + 1, Node("index", t, <<r.tree>>)))
        [] t = Sym("(") ->
             LET args == IF Tok(ts, r.pos + 1) = Sym(")")
                         THEN Parsed(r.pos + 1, <<>>)
                         ELSE ExprList(ts, r.pos + 1, <<>>)
             IN  Then(Match(ts, args, ")"), LAMBDA a :
                   Suffixes(ts, Parsed(a.pos, Node("call", t, <<r.tree>> \o a.tree))))
        [] OTHER -> r

ExprList(ts, p, before) ==
  Then(Expr(ts, p), LAMBDA r :
    IF Tok(ts, r.pos) = Sym(",")
    THEN ExprList(ts, r.pos + 1, before \o <<r.tree>>)
    ELSE Parsed(r.pos, before \o <<r.tree>>))

(* ( params ) block end, after the word function.                          *)
ParseBody(ts, p) ==
  IF Tok(ts, p) # Sym("(") THEN SyntaxError
  ELSE Then(ParseParams(ts, p + 1, <<>>), LAMBDA ps :
         Match(ts, Then(ParseChunk(ts, ps.pos, <<>>), LAMBDA b :
           Parsed(b.pos, Node("function", ps.tree, b.tree))), "end"))

ParseParams(ts, p, before) ==
  LET t == Tok(ts, p)
  IN  CASE t = Sym(")") /\ before = <<>> -> Parsed(p + 1, <<>>)
        [] IsName(t) /\ Tok(ts, p + 1) = Sym(",") ->
             ParseParams(ts, p + 2, before \o <<t>>)
        [] IsName(t) /\ Tok(ts, p + 1) = Sym(")") ->
             Parsed(p + 2, before \o <<t>>)
        [] OTHER -> SyntaxError

IsEnd(t) == t \in {Sym("else"), Sym("end"), Eof}

(* Statements up to the end of the block; a return has to be the last.     *)
ParseChunk(ts, p, before) ==
  IF IsEnd(Tok(ts, p)) THEN Parsed(p, before)
  ELSE Then(ParseStmt(ts, p), LAMBDA r :
         IF Tok(ts, p) \in {Sym("return"), Sym("POSTLUDE")}
         THEN Parsed(r.pos, before \o <<r.tree>>)
         ELSE ParseChunk(ts, r.pos, before \o <<r.tree>>))

ParseStmt(ts, p) ==
  LET t == Tok(ts, p)
  IN  CASE t = Sym("if") -> ParseIf(ts, p)
        [] t = Sym("do") ->
             Match(ts, Then(ParseChunk(ts, p + 1, <<>>), LAMBDA b :
               Parsed(b.pos, Node("do", t, b.tree))), "end")
        [] t = Sym("local") ->
             IF IsName(Tok(ts, p + 1))
             THEN Parsed(p + 2, Node("local", Tok(ts, p + 1), <<>>))
             ELSE SyntaxError
        [] t = Sym("return") -> ParseReturn(ts, p + 1)
        [] t \in {Sym("PRELUDE"), Sym("TEMPS"), Sym("POSTLUDE")} ->
             Parsed(p + 1, Node("given", t, <<>>))
        [] OTHER -> ParseCallAssign(ts, p)

ParseIf(ts, p) ==
  Then(Match(ts, Expr(ts, p + 1), "then"), LAMBDA c :
    Then(ParseChunk(ts, c.pos, <<>>), LAMBDA b :
      IF Tok(ts, b.pos) = Sym("else")
      THEN Match(ts, Then(ParseChunk(ts, b.pos + 1, <<>>), LAMBDA e :
             Parsed(e.pos, Node("if", Tok(ts, p), <<c.tree, b.tree, e.tree>>))), "end")
      ELSE Match(ts, Parsed(b.pos, Node("if", Tok(ts, p), <<c.tree, b.tree, <<>> >>)),
                 "end")))

ParseReturn(ts, p) ==
  IF IsEnd(Tok(ts, p)) THEN Parsed(p, Node("return", Sym("return"), <<>>))
  ELSE Then(ExprList(ts, p, <<>>), LAMBDA r :
         Parsed(r.pos, Node("return", Sym("return"), r.tree)))

(* A call, or an assignment to a variable.                                 *)
ParseCallAssign(ts, p) ==
  Then(ExprPrimary(ts, p), LAMBDA r :
    CASE r.tree.tag = "call" -> Parsed(r.pos, Node("callstat", Sym("("), <<r.tree>>))
      [] r.tree.tag \in {"name", "index"} ->
           IF Tok(ts, r.pos) # Sym("=") THEN SyntaxError
           ELSE Then(ExprList(ts, r.pos + 1, <<>>), LAMBDA e :
                  Parsed(e.pos, Node("assign", r.tree.val, e.tree)))
      [] OTHER -> SyntaxError)

(* lj_parse: the whole text is one block.                                  *)
Parse(ts) ==
  Then(ParseChunk(ts, 1, <<>>), LAMBDA r :
    IF Tok(ts, r.pos) = Eof THEN r ELSE SyntaxError)

=============================================================================
