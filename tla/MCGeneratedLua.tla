--------------------------- MODULE MCGeneratedLua ---------------------------
(***************************************************************************)
(* The programs of MCGenerate, expressions of up to three operators, for   *)
(* the precedence of operators, with a MAX_DEPTH that lets them be written *)
(* in place, and strings with characters that mean something to a lexer.   *)
(***************************************************************************)
EXTENDS GeneratedLua, MCGenerate

OperatorKinds == {"Add", "Sub", "Div", "Rem", "Eq", "And", "Or"}

Atoms == {VarTerm("x"), IntTerm(1)}

Compound ==
  Atoms \cup {StrTerm("s")}
    \cup { BinaryTerm(op, VarTerm("x"), IntTerm(1)) : op \in OperatorKinds }
    \cup { FirstTerm(VarTerm("x")), TupleTerm(IntTerm(1), VarTerm("x")),
           CallTerm(VarTerm("x"), <<IntTerm(1)>>), PrintTerm(VarTerm("x")) }

Expressions ==
  { BinaryTerm(op, t, u) : op \in OperatorKinds, t, u \in Compound }
    \cup { FirstTerm(t) : t \in Compound } \cup { SecondTerm(t) : t \in Compound }
    \cup { PrintTerm(t) : t \in Compound }
    \cup { CallTerm(t, args) : t \in Compound, args \in {<<>>, <<IntTerm(1)>>} }
    \cup { CallTerm(VarTerm("x"), <<t, u>>) : t, u \in Compound }
    \cup { TupleTerm(t, u) : t, u \in Compound }

(* A third level, over expressions that bind differently.                  *)
Nested ==
  { BinaryTerm(op, BinaryTerm(op2, t, VarTerm("y")), VarTerm("z")) :
      op, op2 \in OperatorKinds, t \in Compound }
  \cup
  { BinaryTerm(op, VarTerm("y"), BinaryTerm(op2, VarTerm("z"), t)) :
      op, op2 \in OperatorKinds, t \in Compound }

(* A string that is kept, escapes that are known or not, what ends it, and *)
(* an escaped quote; at the places where a literal is written.             *)
Strings == {"a b", "a\\nb", "\\\\", "\\q", "a\\", "a\"b", "a\nb", "\\\"", "\r", ""}

Quoted ==
  UNION { { StrTerm(s), PrintTerm(StrTerm(s)), BinaryTerm("Add", StrTerm(s), VarTerm("x")),
            FirstTerm(TupleTerm(StrTerm(s), IntTerm(1))), FirstTerm(StrTerm(s)),
            CallTerm(VarTerm("x"), <<StrTerm(s), StrTerm("s")>>),
            LetTerm("y", StrTerm(s), VarTerm("y")),
            IfTerm(VarTerm("x"), StrTerm(s), IntTerm(1)),
            FunctionTerm(<<"p">>, StrTerm(s)) } : s \in Strings }

AllTexts == MCPrograms \cup Expressions \cup Nested \cup Quoted

(* TLC keeps the value of AllTexts, but not that of what a constant is     *)
(* replaced by.                                                            *)
MCTexts == AllTexts

=============================================================================
