-------------------------------- MODULE Meta --------------------------------
(***************************************************************************)
(* The meta compiler (src/src/generate_meta.rs) and the interpreter it     *)
(* puts in front of a program (src/src/meta-eval, src/src/meta-run), which *)
(* is the only definition in the repository of what a rinha program means. *)
(* The interpreter is itself a rinha program, so its values sit on those   *)
(* of LuaValue: a meta value is a pair <<kind, data>>.                     *)
(*                                                                         *)
(* Eval is the recursive function eval; the world w it passes along holds  *)
(* what has been printed, whether every value so far was proper (no        *)
(* ValErr), how the run goes, and the fuel that ends a recursion without   *)
(* end.                                                                    *)
(***************************************************************************)
EXTENDS RinhaAst, LuaShow
LOCAL INSTANCE SequencesExt

(* The names that meta-eval defines, with their values.                    *)
ExpName == {"ExpU", "ExpK", "ExpS", "ExpB", "ExpT", "ExpVar", "ExpAdd", "ExpSub",
            "ExpMul", "ExpDiv", "ExpRem", "ExpEq", "ExpNeq", "ExpGt", "ExpGte",
            "ExpLt", "ExpLte", "ExpAnd", "ExpOr", "ExpIf", "ExpApp", "ExpLambda",
            "ExpLet", "ExpPrint", "ExpFirst", "ExpSecond"}

ValueOf(name) == CASE name = "ExpOr"      -> "ExOr"
                   [] name \notin ExpName -> "nil"
                   [] OTHER               -> name

-----------------------------------------------------------------------------
(* generate_meta.rs: a term as the text of a rinha pair.  A string is      *)
(* written between quotes as it is (line 38); it is taken to be read back  *)
(* as the same, so Interpreted is what the value in the tree means.        *)

BinName == [op \in BinaryOp |-> IF op = "And" THEN "ExpAns" ELSE "Exp" \o op]

RECURSIVE Encode(_, _)
Encode(p, n) ==
  LET t == p[n]
      Sub(k) == Encode(p, Kid(p, n, k))
  IN  CASE t.kind = "Int"      -> <<"ExpK", Num(t.value)>>
        [] t.kind = "Str"      -> <<"ExpS", Str(t.value)>>
        [] t.kind = "Bool"     -> <<"ExpB", Bool(t.value)>>
        [] t.kind = "Var"      -> <<"ExpVar", t.text>>
        [] t.kind = "Binary"   -> <<BinName[t.op], <<Sub(1), Sub(2)>> >>
        [] t.kind = "Call"     ->
             FoldLeft(LAMBDA s, a : <<"ExpApp", <<s, Encode(p, a)>> >>,
                      <<"ExpApp", <<Sub(1), <<"ExpU", 0>> >> >>, Arguments(p, n))
        [] t.kind = "Function" ->
             <<"ExpLambda", <<"unit",
               FoldRight(LAMBDA x, body : <<"ExpLambda", <<x, body>> >>,
                         t.parameters, Sub(1))>> >>
        [] t.kind = "Let"      -> <<"ExpLet", <<t.name, <<Sub(1), Sub(2)>> >> >>
        [] t.kind = "If"       -> <<"ExpIf", <<Sub(1), <<Sub(2), Sub(3)>> >> >>
        [] t.kind = "Tuple"    -> <<"ExpT", <<Sub(1), Sub(2)>> >>
        [] t.kind \in {"Print", "First", "Second"} -> <<"Exp" \o t.kind, Sub(1)>>

(* The names an encoding uses.                                             *)
RECURSIVE NamesUsed(_)
NamesUsed(e) ==
  {e[1]} \cup
  CASE e[1] \in {"ExpU", "ExpK", "ExpS", "ExpB", "ExpVar"} -> {}
    [] e[1] = "ExpLambda" -> NamesUsed(e[2][2])
    [] e[1] = "ExpLet"    -> NamesUsed(e[2][2][1]) \cup NamesUsed(e[2][2][2])
    [] e[1] = "ExpIf"     -> NamesUsed(e[2][1]) \cup NamesUsed(e[2][2][1])
                               \cup NamesUsed(e[2][2][2])
    [] e[1] \in {"ExpPrint", "ExpFirst", "ExpSecond"} -> NamesUsed(e[2])
    [] OTHER              -> NamesUsed(e[2][1]) \cup NamesUsed(e[2][2])

-----------------------------------------------------------------------------
(* meta-eval                                                               *)

NewWorld(fuel) == [out |-> <<>>, proper |-> TRUE, run |-> "going", fuel |-> fuel]

Give(v, w) ==
  [val |-> v, w |-> [w EXCEPT !.proper = @ /\ v[1] # "val_err"]]

Error(message, w) == Give(<<"val_err", Str(message)>>, w)

(* The interpreter itself stops with a Lua error.                          *)
Crash(w) == [val |-> <<"val_err", Str("")>>, w |-> [w EXCEPT !.run = "crashed"]]

(* Go on with a value in the world its evaluation left.                    *)
With(r, Go(_, _)) == IF r.w.run = "going" THEN Go(r.val, r.w) ELSE r

(* bind and env(v): the nearest binding; empty_env answers with an error.  *)
Bind(x, v, env) == << <<x, v>> >> \o env

Lookup(x, env, w) ==
  LET found == SelectInSeq(env, LAMBDA b : b[1] = x)
  IN  IF found = 0 THEN Error("undefined variable " \o x, w)
                   ELSE [val |-> env[found][2], w |-> w]

Kinds(l, r, k) == l[1] = k /\ r[1] = k

(* data of a value as an operand of the host's +.                          *)
HostData(v) == IF v[1] \in {"val_int", "val_str", "val_bool", "val_err"} THEN v[2]
               ELSE IF v[1] = "val_unit" THEN Num(0) ELSE <<"table">>

SumOp(l, r, w) ==
  CASE Kinds(l, r, "val_int") -> Give(<<"val_int", Plus(l[2], r[2])>>, w)
    [] l[1] = "val_str" \/ r[1] = "val_str" ->
         Give(<<"val_str", Plus(HostData(l), HostData(r))>>, w)
    [] OTHER -> Error("binary operand is not a number", w)

BinOp(op, l, r, w) ==
  IF Kinds(l, r, "val_int")
  THEN LET v == Operate(op, l[2], r[2])
       IN  Give(<<"val_int", IF op = "%" THEN v ELSE ToBit(v)>>, w)
  ELSE Error("binary operand is not a number", w)

(* The order of two strings is a Lua error.                                *)
CompOp(op, l, r, w) ==
  IF Kinds(l, r, "val_int") \/ Kinds(l, r, "val_str")
  THEN LET v == Operate(op, l[2], r[2])
       IN  IF v = Fault THEN Crash(w) ELSE Give(<<"val_bool", v>>, w)
  ELSE Error("comp operands are not compatible", w)

(* Printing a tuple reads a variable that is not bound.                    *)
MetaPrint(v, w) ==
  CASE v[1] \in {"val_int", "val_str", "val_bool"} ->
         Give(v, [w EXCEPT !.out = @ \o <<Shown(v[2])>>])
    [] v[1] = "val_tuple" -> Crash(w)
    [] v[1] = "val_func"  -> Give(v, [w EXCEPT !.out = @ \o <<"<#closure>">>])
    [] OTHER -> Error("print kind not recognized: " \o v[1], w)

(* And goes on to the right operand on true, Or on false.                  *)
HostOp == [k \in {"ExpSub", "ExpMul", "ExpDiv", "ExpRem", "ExpEq", "ExpNeq",
                  "ExpLt", "ExpLte", "ExpGt", "ExpGte"} |->
             CASE k = "ExpSub" -> "-"  [] k = "ExpMul" -> "*"
               [] k = "ExpDiv" -> "/"  [] k = "ExpRem" -> "%"
               [] k = "ExpEq"  -> "==" [] k = "ExpNeq" -> "~="
               [] k = "ExpLt"  -> "<"  [] k = "ExpLte" -> "<="
               [] k = "ExpGt"  -> ">"  [] k = "ExpGte" -> ">="]

RECURSIVE Eval(_, _, _), Logic(_, _, _, _), Force(_, _)

(* second(x)(): the value expression again, each time it is used.          *)
Force(rec, w) ==
  Eval(rec.value, Bind(rec.var, <<"val_rec", rec>>, rec.env), w)

Logic(goOn, data, env, w) ==
  With(Eval(data[1], env, w), LAMBDA l, w1 :
    CASE l[1] # "val_bool" -> Error("and lhs operand not a bool: " \o l[1], w1)
      [] l[2] # Bool(goOn) -> Give(l, w1)
      [] OTHER -> With(Eval(data[2], env, w1), LAMBDA r, w2 :
           IF r[1] = "val_bool" THEN Give(r, w2)
           ELSE Error("and rhs operand not a bool: " \o r[1], w2)))

Eval(e, env, w0) ==
  LET k == ValueOf(e[1])
      d == e[2]
      w == [w0 EXCEPT !.fuel = @ - 1]
      Both(Go(_, _, _)) ==
        With(Eval(d[1], env, w), LAMBDA l, w1 :
          With(Eval(d[2], env, w1), LAMBDA r, w2 : Go(l, r, w2)))
      Component2(i) ==
        With(Eval(d, env, w), LAMBDA v, w1 :
          IF v[1] = "val_tuple" THEN Give(v[2][i], w1)
          ELSE Error("not a tuple", w1))
  IN
  CASE w0.fuel = 0   -> [val |-> <<"val_unit", 0>>, w |-> [w EXCEPT !.run = "endless"]]
    [] k = "ExpU"    -> Give(<<"val_unit", 0>>, w)
    [] k = "ExpK"    -> Give(<<"val_int", d>>, w)
    [] k = "ExpS"    -> Give(<<"val_str", d>>, w)
    [] k = "ExpB"    -> Give(<<"val_bool", d>>, w)
    [] k = "ExpT"    -> Both(LAMBDA l, r, w2 : Give(<<"val_tuple", <<l, r>> >>, w2))
    [] k = "ExpVar"  -> With(Lookup(d, env, w), LAMBDA x, w1 :
                          IF x[1] = "val_rec" THEN Force(x[2], w1) ELSE Give(x, w1))
    [] k = "ExpAdd"  -> Both(SumOp)
    [] k \in {"ExpSub", "ExpMul", "ExpDiv", "ExpRem"} ->
         Both(LAMBDA l, r, w2 : BinOp(HostOp[k], l, r, w2))
    [] k \in DOMAIN HostOp ->
         Both(LAMBDA l, r, w2 : CompOp(HostOp[k], l, r, w2))
    [] k = "ExpAnd"  -> Logic(TRUE, d, env, w)
    [] k = "ExOr"    -> Logic(FALSE, d, env, w)
    [] k = "ExpIf"   ->
         With(Eval(d[1], env, w), LAMBDA c, w1 :
           IF c[1] = "val_bool"
           THEN Eval(IF c[2] = Bool(TRUE) THEN d[2][1] ELSE d[2][2], env, w1)
           ELSE Error("condition not a bool: " \o c[1], w1))
    [] k = "ExpApp"  ->        \* the argument first, then the function
         With(Eval(d[2], env, w), LAMBDA arg, w1 :
           With(Eval(d[1], env, w1), LAMBDA f, w2 :
             IF f[1] = "val_func"
             THEN Eval(f[2].body, Bind(f[2].param, arg, f[2].env), w2)
             ELSE Error("calling a non-function value", w2)))
    [] k = "ExpLambda" ->
         Give(<<"val_func", [param |-> d[1], body |-> d[2], env |-> env]>>, w)
    [] k = "ExpLet"  ->
         With(Force([var |-> d[1], value |-> d[2][1], env |-> env], w),
              LAMBDA v, w1 : Eval(d[2][2], Bind(d[1], v, env), w1))
    [] k = "ExpPrint"  -> With(Eval(d, env, w), MetaPrint)
    [] k = "ExpFirst"  -> Component2(1)
    [] k = "ExpSecond" -> Component2(2)
    [] OTHER           -> Error("exp malformed: " \o k, w)

(* meta-run: the program's prints, and a last line if its value is an      *)
(* error.                                                                  *)
Interpreted(p, fuel) ==
  LET r == Eval(Encode(p, Root(p)), <<>>, NewWorld(fuel))
  IN  IF r.w.run = "going" /\ r.val[1] = "val_err"
      THEN [r.w EXCEPT !.out = @ \o <<"error: " \o r.val[2][2]>>]
      ELSE r.w

=============================================================================
