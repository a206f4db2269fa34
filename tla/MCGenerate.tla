----------------------------- MODULE MCGenerate -----------------------------
(***************************************************************************)
(* The programs TLC compiles.  The operands below are one of each sort     *)
(* the generator tells apart: a leaf, an expression too deep to be written *)
(* in place, the two statements that bind, and a function literal.         *)
(***************************************************************************)
EXTENDS Generate, RinhaPrograms

DeepTerm[deep \in Nat] ==
  IF deep = 0 THEN VarTerm("x") ELSE FirstTerm(DeepTerm[deep - 1])

Operands ==
  { VarTerm("x"),
    DeepTerm[MAX_DEPTH],
    IfTerm(VarTerm("x"), IntTerm(1), IntTerm(2)),
    LetTerm("y", IntTerm(1), VarTerm("y")),
    FunctionTerm(<<"p">>, VarTerm("p")) }

Operators == {"Add", "Div", "Eq", "And"}

ArgumentLists ==
  {<<>>} \cup { <<t>> : t \in Operands } \cup { <<t, u>> : t, u \in Operands }

(* Every kind of term over every choice of operands.                       *)
OneLevel ==
  {ErrorTerm, StrTerm("s"), BoolTerm(FALSE)}
  \cup { BinaryTerm(op, t, u) : op \in Operators, t, u \in Operands }
  \cup { CallTerm(f, args) : f \in Operands, args \in ArgumentLists }
  \cup { FunctionTerm(ps, t) : ps \in {<<>>, <<"p">>, <<"p", "q">>},
                               t \in Operands }
  \cup { LetTerm(x, t, u) : x \in {"z", "_"}, t, u \in Operands }
  \cup { IfTerm(c, t, u) : c, t, u \in Operands }
  \cup { PrintTerm(t) : t \in Operands }
  \cup { FirstTerm(t) : t \in Operands }
  \cup { TupleTerm(t, u) : t, u \in Operands }

(* Terms that are the first too deep, over an operand that is not.         *)
AtMaxDepth ==
  LET edge == DeepTerm[MAX_DEPTH - 1]
  IN  { BinaryTerm(op, edge, t) : op \in Operators, t \in Operands }
        \cup { BinaryTerm(op, t, edge) : op \in Operators, t \in Operands }
        \cup { TupleTerm(edge, t) : t \in Operands } \cup { TupleTerm(t, edge) : t \in Operands }
        \cup { CallTerm(edge, <<t>>) : t \in Operands }
        \cup { CallTerm(VarTerm("f"), <<t, edge>>) : t \in Operands }
        \cup { LetTerm("z", edge, edge), IfTerm(edge, edge, edge), PrintTerm(edge),
               FirstTerm(edge), FunctionTerm(<<"p">>, edge) }

(* The places a term can be in that change how it is compiled.             *)
InContext(t) ==
  { t,
    FunctionTerm(<<"p">>, t),
    FunctionTerm(<<"p">>, IfTerm(VarTerm("p"), t, VarTerm("p"))),
    FunctionTerm(<<"p">>, LetTerm("z", VarTerm("p"), t)),
    FunctionTerm(<<"p">>, LetTerm("z", t, VarTerm("p"))),
    TupleTerm(VarTerm("x"), t),
    BinaryTerm("Sub", t, IfTerm(VarTerm("x"), IntTerm(1), IntTerm(2))),
    CallTerm(VarTerm("f"), <<t, VarTerm("x")>>) }

SmallPrograms == UNION { InContext(t) : t \in OneLevel \cup AtMaxDepth }

(* A callee without arguments to keep, whose result is called: the loop    *)
(* over the arguments before the last is empty.                            *)
CalledCall ==
  CallTerm(CallTerm(VarTerm("f"), <<LetTerm("y", IntTerm(1), VarTerm("y"))>>), <<>>)

MCPrograms == SmallPrograms \cup TestPrograms \cup {CalledCall}

=============================================================================
