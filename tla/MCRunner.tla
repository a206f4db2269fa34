------------------------------ MODULE MCRunner ------------------------------
(***************************************************************************)
(* Closed programs for Runner: a function f, with each of a few bodies,    *)
(* and a main expression that calls it in each of a few ways.  Prints show *)
(* the order of evaluation; some programs are in error after they printed. *)
(***************************************************************************)
EXTENDS Runner, RinhaPrograms

N == VarTerm("n")
One == IntTerm(1)
F(t) == CallTerm(VarTerm("f"), <<t>>)
Choice(t) == IfTerm(BoolTerm(TRUE), t, IntTerm(0))     \* a term that binds

(* f(n - 1) in a use, down to 0.                                           *)
Recursive(use(_)) ==
  IfTerm(BinaryTerm("Eq", N, IntTerm(0)), N, use(F(n_1)))

Plus1(t, u) == BinaryTerm("Add", t, u)

Lt(t, u) == BinaryTerm("Lt", t, u)
Show(x) == PrintTerm(VarTerm(x))

Bodies ==
  { N, PrintTerm(N), TupleTerm(N, PrintTerm(N)),
    Plus1(N, Choice(One)), Choice(PrintTerm(N)),
    Plus1(Choice(N), PrintTerm(N)),
    LetTerm("m", PrintTerm(N), Plus1(VarTerm("m"), N)),
    FunctionTerm(<<"k">>, Plus1(N, VarTerm("k"))),
    Recursive(LAMBDA t : t),
    IfTerm(BinaryTerm("Eq", N, IntTerm(0)), N, F(Plus1(Plus1(Plus1(n_1, IntTerm(0)), IntTerm(0)), IntTerm(0)))),
    Recursive(LAMBDA t : Plus1(N, t)),
    Recursive(LAMBDA t : Plus1(t, N)),
    Recursive(LAMBDA t : Plus1(Choice(N), t)),
    Recursive(LAMBDA t : Plus1(N, Choice(t))),
    Recursive(LAMBDA t : LetTerm("m", t, Plus1(VarTerm("m"), PrintTerm(N)))),
    Recursive(LAMBDA t : LetTerm("_", PrintTerm(N), t)),
    (* a return before the first function; a function before a return       *)
    IfTerm(Lt(N, IntTerm(2)), N, FunctionTerm(<<"k">>, Plus1(N, VarTerm("k")))),
    LetTerm("h", FunctionTerm(<<"k">>, Plus1(N, VarTerm("k"))),
            IfTerm(Lt(IntTerm(1), N), CallTerm(VarTerm("h"), <<N>>), N)),
    (* a function in a branch; branches on values; constants in a tuple     *)
    LetTerm("h", Choice(FunctionTerm(<<"k">>, Plus1(N, VarTerm("k")))),
            Plus1(CallTerm(VarTerm("h"), <<One>>), N)),
    LetTerm("b", BinaryTerm("Gte", N, One),
            IfTerm(BinaryTerm("And", VarTerm("b"), BinaryTerm("Neq", N, IntTerm(2))),
                   TupleTerm(One, One),
                   IfTerm(VarTerm("b"), BinaryTerm("Or", VarTerm("b"), BinaryTerm("Gt", N, One)),
                          BoolTerm(FALSE)))) }

Mains ==
  { PrintTerm(F(One)),
    PrintTerm(F(F(One))),
    PrintTerm(Plus1(F(One), F(IntTerm(2)))),
    LetTerm("x", Plus1(F(One), Choice(F(IntTerm(2)))), Show("x")),
    LetTerm("x", Plus1(Choice(One), F(IntTerm(2))), Show("x")),
    LetTerm("x", TupleTerm(Choice(One), F(One)),
            LetTerm("y", FirstTerm(VarTerm("x")),
                    LetTerm("z", SecondTerm(VarTerm("x")), Show("y")))),
    LetTerm("x", TupleTerm(TupleTerm(Choice(One), Choice(IntTerm(2))), F(One)),
            PrintTerm(FirstTerm(FirstTerm(VarTerm("x"))))),
    LetTerm("x", Lt(PrintTerm(One), Choice(IntTerm(2))), Show("x")),
    LetTerm("x", PrintTerm(Choice(One)), Show("x")),
    LetTerm("x", One, LetTerm("y", LetTerm("x", F(One), VarTerm("x")), Show("x"))),
    LetTerm("w", One, LetTerm("x", F(One), LetTerm("y", One, LetTerm("z", One, Show("x"))))),
    PrintTerm(Plus1(StrTerm("s"), F(One))),
    CallTerm(VarTerm("f"), <<Choice(One)>>),
    CallTerm(Choice(VarTerm("f")), <<One>>),
    LetTerm("g", FunctionTerm(<<"a", "b">>, PrintTerm(BinaryTerm("Sub", VarTerm("a"), VarTerm("b")))),
            CallTerm(VarTerm("g"), <<F(IntTerm(2)), PrintTerm(One)>>)),
    LetTerm("g", FunctionTerm(<<"a">>, FunctionTerm(<<"b">>, Plus1(VarTerm("a"), F(VarTerm("b"))))),
            PrintTerm(CallTerm(CallTerm(VarTerm("g"), <<One>>), <<IntTerm(2)>>))),
    PrintTerm(VarTerm("f")),
    LetTerm("_", PrintTerm(One), LetTerm("_", F(IntTerm(2)), PrintTerm(BoolTerm(TRUE)))),
    PrintTerm(BinaryTerm("And", Lt(One, IntTerm(2)), Lt(F(One), IntTerm(9)))),
    LetTerm("_", PrintTerm(F(One)), CallTerm(VarTerm("x"), <<>>)),
    LetTerm("x", One, LetTerm("_", PrintTerm(F(VarTerm("x"))), FirstTerm(VarTerm("x")))) }

WithF(body, main) == LetTerm("f", FunctionTerm(<<"n">>, body), main)

X == VarTerm("x")
LetX(t, u) == LetTerm("x", t, u)
AddX(t) == FunctionTerm(<<"n">>, Plus1(X, t))

(* Names bound twice: one after the other, in a branch, in a function, by  *)
(* a parameter, beside each other, and (the last six) where the text      *)
(* means another binding than the source.                                  *)
Shadowing ==
  { LetX(One, LetX(IntTerm(2), Show("x"))),
    LetX(One, LetTerm("f", AddX(N), LetX(IntTerm(2), PrintTerm(F(X))))),
    LetX(One, LetTerm("y", Choice(LetX(IntTerm(2), X)), PrintTerm(Plus1(X, VarTerm("y"))))),
    LetX(One, LetTerm("y", IfTerm(BoolTerm(FALSE), LetX(One, X), LetX(IntTerm(2), X)),
                      PrintTerm(Plus1(VarTerm("y"), X)))),
    LetX(One, LetTerm("f", FunctionTerm(<<"n">>, LetX(N, Plus1(X, One))),
                      PrintTerm(Plus1(F(IntTerm(5)), X)))),
    LetX(One, LetTerm("f", FunctionTerm(<<"x">>, X), PrintTerm(Plus1(F(IntTerm(5)), X)))),
    LetX(One, LetTerm("f", FunctionTerm(<<"n">>, LetTerm("y", LetX(N, X), VarTerm("y"))),
                      PrintTerm(Plus1(X, F(IntTerm(5)))))),
    LetX(One, LetTerm("y", LetX(IntTerm(2), X), LetX(IntTerm(3), PrintTerm(Plus1(X, VarTerm("y")))))),
    LetTerm("y", Plus1(LetX(One, X), LetX(IntTerm(2), X)), Show("y")),
    LetX(One, LetTerm("y", LetTerm("f", AddX(IntTerm(3)), LetX(IntTerm(2), F(X))), Show("y"))),
    LetX(One, LetTerm("f", AddX(N), PrintTerm(Plus1(Choice(LetX(IntTerm(5), F(X))), X)))),
    LetX(LetX(One, Plus1(X, One)), Show("x")),
    LetX(LetX(One, AddX(N)), PrintTerm(CallTerm(X, <<One>>))),
    LetX(Choice(LetX(One, X)), Show("x")),
    LetX(One, LetTerm("y", Plus1(LetX(IntTerm(2), X), IntTerm(0)), Show("x"))),
    LetX(One, IfTerm(Lt(LetX(IntTerm(2), X), IntTerm(3)), Show("x"), One)),
    LetX(FunctionTerm(<<"a", "b">>, VarTerm("a")),
         PrintTerm(CallTerm(X, <<LetX(One, X), One>>))) }

(* Strings that are kept, read as others, and not read as one.             *)
Quoting == { PrintTerm(StrTerm(s)) : s \in {"s t", "s\\nt", "s\"t", "s\\"} }

(* Ifs and functions nested so deep, and branches so long, that some       *)
(* programs keep a limit of LuaJIT, one meets it, and the others exceed    *)
(* it; and a call with more arguments than there are registers.            *)
Ifs[k \in Nat] == IF k = 0 THEN One ELSE Choice(Ifs[k - 1])

Curried[k \in Nat] == IF k = 0 THEN One ELSE FunctionTerm(<<>>, Curried[k - 1])

Prints[k \in Nat] ==
  IF k = 0 THEN One ELSE LetTerm("_", PrintTerm(One), Prints[k - 1])

AtLimits ==
  { PrintTerm(Ifs[k]) : k \in 9..12 } \cup { Curried[k] : k \in 3..6 }
    \cup { IfTerm(Lt(One, IntTerm(2)), Prints[k], One) : k \in 3..9 }
    \cup { LetTerm("f", FunctionTerm(<<>>, N), CallTerm(VarTerm("f"), [i \in 1..9 |-> One])) }

ClosedPrograms ==
  { WithF(b, m) : b \in Bodies, m \in Mains } \cup Shadowing \cup Quoting \cup AtLimits

(* f(n) is n + f(n - 1), the call in a branch: n waits in a temporary,     *)
(* which the recursive activation overwrites.                              *)
SharedTemps == { WithF(Recursive(LAMBDA t : Plus1(N, Choice(t))), PrintTerm(F(IntTerm(2)))) }

=============================================================================
