--------------------------- MODULE RinhaPrograms ---------------------------
(***************************************************************************)
(* Building syntax trees, for the instances that TLC checks.  A builder    *)
(* puts the trees of the subterms one after the other and adds the term    *)
(* itself, which is the postfix order of RinhaAst.                         *)
(***************************************************************************)
EXTENDS Integers, Sequences
LOCAL INSTANCE SequencesExt
LOCAL INSTANCE TLC

(* The term with these fields over the trees subterms.                     *)
TermOver(fields, subterms) ==
  LET After(k) == Len(FlattenSeq(SubSeq(subterms, k + 1, Len(subterms))))
  IN  FlattenSeq(subterms)
        \o << fields @@ [back |-> [k \in 1..Len(subterms) |-> 1 + After(k)]] >>

ErrorTerm     == TermOver([kind |-> "Error"], <<>>)
IntTerm(i)    == TermOver([kind |-> "Int", value |-> i], <<>>)
StrTerm(s)    == TermOver([kind |-> "Str", value |-> s], <<>>)
BoolTerm(b)   == TermOver([kind |-> "Bool", value |-> b], <<>>)
VarTerm(x)    == TermOver([kind |-> "Var", text |-> x], <<>>)
PrintTerm(t)  == TermOver([kind |-> "Print"], <<t>>)
FirstTerm(t)  == TermOver([kind |-> "First"], <<t>>)
SecondTerm(t) == TermOver([kind |-> "Second"], <<t>>)
TupleTerm(t, u)     == TermOver([kind |-> "Tuple"], <<t, u>>)
BinaryTerm(op, t, u) == TermOver([kind |-> "Binary", op |-> op], <<t, u>>)
LetTerm(x, t, u)    == TermOver([kind |-> "Let", name |-> x], <<t, u>>)
IfTerm(c, t, u)     == TermOver([kind |-> "If"], <<c, t, u>>)
CallTerm(f, args)   == TermOver([kind |-> "Call"], <<f>> \o args)
FunctionTerm(ps, t) == TermOver([kind |-> "Function", parameters |-> ps], <<t>>)

-----------------------------------------------------------------------------
(* Programs of src/tests/test-jsons.                                       *)

n_1 == BinaryTerm("Sub", VarTerm("n"), IntTerm(1))

(* let fib = fn (n) => { if (n < 2) { n } else { fib(n-1) + fib(n-2) } };  *)
(* next                                                                    *)
LetFib(next) ==
  LetTerm("fib",
    FunctionTerm(<<"n">>,
      IfTerm(BinaryTerm("Lt", VarTerm("n"), IntTerm(2)),
        VarTerm("n"),
        BinaryTerm("Add",
          CallTerm(VarTerm("fib"), <<n_1>>),
          CallTerm(VarTerm("fib"),
                   <<BinaryTerm("Sub", VarTerm("n"), IntTerm(2))>>)))),
    next)

FibProgram == LetFib(PrintTerm(CallTerm(VarTerm("fib"), <<IntTerm(10)>>)))

ClosureProgram == LetFib(CallTerm(PrintTerm(VarTerm("fib")), <<IntTerm(30)>>))

(* loop1 of tco.json, and a loop whose tail calls are in nested branches.  *)
TcoProgram ==
  LetTerm("loop",
    FunctionTerm(<<"n">>,
      IfTerm(BinaryTerm("Eq", VarTerm("n"), IntTerm(0)),
        VarTerm("n"),
        LetTerm("_", IntTerm(2),
          IfTerm(BoolTerm(TRUE), CallTerm(VarTerm("loop"), <<n_1>>),
                                 CallTerm(VarTerm("loop"), <<n_1>>))))),
    LetTerm("_", CallTerm(VarTerm("loop"), <<IntTerm(9)>>), VarTerm("_")))

TupleProgram ==
  LetTerm("t", TupleTerm(IntTerm(1), IntTerm(2)),
    LetTerm("_", PrintTerm(FirstTerm(VarTerm("t"))),
      PrintTerm(SecondTerm(VarTerm("t")))))

(* test("add num boxed num", 123 + (if (true) {456} else {""}), 579) of    *)
(* crazy1.rinha, and its variants with a boxed lhs and both boxed.         *)
Boxed(i) == IfTerm(BoolTerm(TRUE), IntTerm(i), StrTerm(""))

BoxedProgram(op, lhs, rhs) ==
  LetTerm("_", CallTerm(VarTerm("test"),
                 <<StrTerm("name"), BinaryTerm(op, lhs, rhs), IntTerm(579)>>),
    PrintTerm(StrTerm("OK")))

BoxedPrograms(ops) ==
  { BoxedProgram(op, p[1], p[2]) :
      op \in ops,
      p \in { <<Boxed(1), IntTerm(2)>>, <<IntTerm(1), Boxed(2)>>,
              <<Boxed(1), Boxed(2)>> } }

TestPrograms ==
  {FibProgram, ClosureProgram, TcoProgram, TupleProgram}
    \cup BoxedPrograms({"Add", "Sub"})

=============================================================================
