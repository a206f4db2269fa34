---------------------------- MODULE GeneratedLua ----------------------------
(***************************************************************************)
(* What gen_prog returns, read by the lexer and the parser of LuaJIT.  The *)
(* compiler never parenthesises an operand, decides between statements and *)
(* expressions term by term, and writes strings as they are, so whether    *)
(* its output is Lua at all, and Lua that groups as the source does,       *)
(* depends on combinations of arms and on the data of the program.         *)
(***************************************************************************)
EXTENDS Generate, LuaLex, LuaParse, FiniteSets

Chunk == Parse(Lexed(code))

(* The release of the program is the text gen_prog returns: it is Lua.     *)
ChunkIsLua == status = "done" => Chunk.ok

(* Terms that the compiler puts "(", "[1]" or "[2]" after, in expressions. *)
Suffixed(n) == prog[n].kind \in {"Call", "First", "Second"}

(* Operators whose expression is not wrapped in a call.                    *)
Bare == {"Add", "Rem", "Eq", "Neq", "Lt", "Gt", "Lte", "Gte"}

(* Lua takes a suffix after a name, a call or parentheses only.            *)
SuffixOfNonPrefix(n) ==
  /\ Suffixed(n)
  /\ LET base == prog[Kid(prog, n, 1)]
     IN  \/ base.kind \in {"Int", "Bool", "Function"}
         \/ base.kind = "Binary" /\ base.op \in Bare \cup {"And", "Or"}

(* A string whose value, between quotes, is another literal or none.       *)
StringNotKept ==
  \E n \in Terms(prog) : prog[n].kind = "Str" /\ Mangled(prog[n].value)

(* The causes of text that is not Lua are these four and no other: a logic *)
(* operator compiled to statements, whose not not ( goes around them; a    *)
(* tail call through a temporary, whose return is followed by the return   *)
(* of the function; a suffix after a literal or an operator; a string with *)
(* a quote, a backslash or a line break in it.                             *)
SyntaxErrorCause ==
  \/ StringNotKept
  \/ \E n \in Terms(prog) :
       \/ prog[n].kind = "Binary" /\ prog[n].op \in {"And", "Or"} /\ ~InPlace(n)
       \/ prog[n].kind = "Call" /\ last[n] /\ binds[Kid(prog, n, 1)]
       \/ SuffixOfNonPrefix(n)

NotLuaOnlyFromCauses == ChunkIsLua \/ SyntaxErrorCause

-----------------------------------------------------------------------------
(* The value an expression of the source denotes, as a tree.               *)
RECURSIVE Meaning(_, _)
Meaning(p, n) ==
  LET kids == [k \in KidSlots(p, n) |-> Meaning(p, Kid(p, n, k))]
      t    == p[n]
  IN  CASE t.kind = "Binary"  -> Node("binary", Sym(LuaOp(t.op)), kids)
        [] t.kind = "Call"    -> Node("call", <<>>, kids)
        [] t.kind = "First"   -> Node("index", Sym("[1]"), kids)
        [] t.kind = "Second"  -> Node("index", Sym("[2]"), kids)
        [] t.kind = "Print"   -> Node("print", <<>>, kids)
        [] t.kind = "Tuple"   -> Node("tuple", <<>>, kids)
        [] t.kind = "Str"     -> Node("value", <<"str", t.value>>, <<>>)
        [] OTHER              -> Node("value", LeafText(t)[1], <<>>)

Calls(t, word) == /\ t.tag = "call"
                  /\ Len(t.kids) = 2
                  /\ t.kids[1] = Node("name", Sym(word), <<>>)

Negates(t) == t.tag = "unop" /\ t.val = Sym("not")

(* not not ( ... ), what a logic operator is written as.                   *)
IsLogic(t) == /\ Negates(t) /\ Negates(t.kids[1])
              /\ t.kids[1].kids[1].tag = "paren"

(* The value a Lua expression denotes: the calls of the prelude that       *)
(* convert a result, and parentheses, add nothing to the tree.             *)
RECURSIVE Denotes(_)
Denotes(t) ==
  LET kids == [k \in DOMAIN t.kids |-> Denotes(t.kids[k])]
  IN  CASE t.tag \in {"const", "name"} -> Node("value", t.val, <<>>)
        [] t.tag = "paren"             -> kids[1]
        [] t.tag = "table"             -> Node("tuple", <<>>, kids)
        [] t.tag = "binop"             -> Node("binary", t.val, kids)
        [] Calls(t, "__to_bit") \/ Calls(t, "__floor") \/ Calls(t, "__new_str")
                                       -> kids[2]
        [] Calls(t, "__print")         -> Node("print", <<>>, <<kids[2]>>)
        [] IsLogic(t)                  -> Denotes(t.kids[1].kids[1])
        [] OTHER                       -> Node(t.tag, IF t.tag = "call" THEN <<>>
                                                      ELSE t.val, kids)

(* The whole program is one expression, written as __ret = expression.     *)
IsExpression ==
  /\ status = "done"
  /\ InPlace(Root(prog))
  /\ \A n \in Terms(prog) : prog[n].kind # "Function"

MainBlock == Chunk.tree[2].kids

SameMeaning ==
  /\ Chunk.ok
  /\ Len(MainBlock) = 3
  /\ MainBlock[3].tag = "assign"
  /\ Denotes(MainBlock[3].kids[1]) = Meaning(prog, Root(prog))

(* An operand whose operator binds less tightly than the one it is under:  *)
(* only parentheses, which are not written, would keep it together.        *)
LooseOperand ==
  \E m \in Terms(prog) :
    /\ prog[m].kind = "Binary"
    /\ \E k \in 1..2 :
         LET c == Kid(prog, m, k)
         IN  /\ prog[c].kind = "Binary"
             /\ prog[c].op \in Bare
             /\ Priority[LuaOp(prog[c].op)] < Priority[LuaOp(prog[m].op)] + k - 1

(* The text of an expression means what the source means.                  *)
GroupingKept == IsExpression => SameMeaning

(* And exactly when it does: no operand is looser than its operator, no    *)
(* suffix follows a literal or an operator, and no string has a quote, a   *)
(* backslash or a line break, which lex_string reads as something else.    *)
GroupingKeptExactly ==
  IsExpression =>
    (SameMeaning <=> /\ ~LooseOperand
                     /\ ~\E n \in Terms(prog) : SuffixOfNonPrefix(n)
                     /\ ~StringNotKept)

-----------------------------------------------------------------------------
(* The functions of the text that take parameters and do not check how     *)
(* many arguments they got.  Functions without parameters are left out:    *)
(* none of them checks.                                                    *)
Unchecked ==
  { i \in DOMAIN code :
      /\ code[i] = Sym("function")
      /\ code[i + 2] \notin {Sym(")"), Sym("__sentinel")}
      /\ LET close == Least({j \in i..Len(code) : code[j] = Sym(")")})
         IN  code[close + 1] # Sym("__assert") }

(* A function literal with parameters checks how many arguments it got,    *)
(* which the tests count on, unless its body is so deep that it is         *)
(* compiled to statements (generate_term writes no check).  One without    *)
(* parameters never checks, and nothing is said of it here.                *)
ArityCheckedUnlessDeep ==
  status = "done" =>
    Cardinality(Unchecked) <=
      Cardinality({ n \in Terms(prog) : /\ prog[n].kind = "Function"
                                        /\ prog[n].parameters # <<>>
                                        /\ depth[n] >= MAX_DEPTH })

=============================================================================
