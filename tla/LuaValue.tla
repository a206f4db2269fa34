------------------------------ MODULE LuaValue ------------------------------
(***************************************************************************)
(* The values of generated code and what the prelude of generate.rs does   *)
(* with them.  A rinha string is a table with a metatable (__str_mt) that  *)
(* adds and compares contents; a pair is a table without one, so it has an *)
(* identity; a number is a double (LuaNumber).                             *)
(***************************************************************************)
EXTENDS LuaNumber, Sequences
LOCAL INSTANCE TLC

Nil         == <<"nil">>
NaN         == <<"nan">>
Num(i)      == <<"num", i>>
Bool(b)     == <<"bool", b>>
Str(s)      == <<"str", s>>            \* __new_str(s)
Raw(s)      == <<"raw", s>>            \* the Lua string inside it
Pair(id, a, b) == <<"pair", id, a, b>>

(* What an operation that raises a Lua error gives.                        *)
Fault == <<"fault">>

(* The value of a literal token.                                           *)
Constant(t) ==
  CASE t[1] = "int" -> Num(t[2])
    [] t[1] = "str" -> Raw(t[2])
    [] t[1] = "nil" -> Nil
    [] t[1] \in {"true", "false"} -> Bool(t[1] = "true")
    [] OTHER        -> Raw(t[1])

IsNum(v) == v[1] \in {"num", "nan"}
IsStr(v) == v[1] = "str"

(* Lua's test of a condition.                                              *)
Truthy(v) == v \notin {Nil, Bool(FALSE)}

(* tostring(v); the address of a table or function is not modelled.        *)
ToStr(v) ==
  CASE v[1] = "num"           -> ToString(v[2])
    [] v[1] = "bool"          -> IF v[2] THEN "true" ELSE "false"
    [] v[1] \in {"str", "raw"} -> v[2]
    [] v[1] \in {"nil", "nan"} -> v[1]
    [] OTHER                  -> "address"

(* v[k].  A string's first slot holds the Lua string.                      *)
Component(v, k) ==
  CASE v[1] = "pair" -> v[k + 2]
    [] v[1] = "str"  -> IF k = 1 THEN Raw(v[2]) ELSE Nil
    [] OTHER         -> Fault

(* Arithmetic and order are for numbers only: __str_mt has no __lt.  The   *)
(* quotient is the one that __floor makes of it.                           *)
OnNumbers(op, x, y) ==
  CASE op = "+"  -> Num(Round(x + y))
    [] op = "-"  -> Num(Round(x - y))
    [] op = "*"  -> Num(Round(x * y))
    [] op = "/"  -> IF y = 0 THEN NaN ELSE Num(FloorDiv(x, y))
    [] op = "%"  -> IF y = 0 THEN NaN ELSE Num(Modulo(x, y))
    [] op = "<"  -> Bool(x < y)
    [] op = ">"  -> Bool(x > y)
    [] op = "<=" -> Bool(x <= y)
    [] op = ">=" -> Bool(x >= y)

Arith(op, a, b) ==
  CASE ~IsNum(a) \/ ~IsNum(b)  -> Fault
    [] a # NaN /\ b # NaN      -> OnNumbers(op, a[2], b[2])
    [] op \in {"<", ">", "<=", ">="} -> Bool(FALSE)
    [] OTHER                   -> NaN

(* a + b: __add of __str_mt if either operand is a string.                 *)
Plus(a, b) ==
  IF IsStr(a) \/ IsStr(b) THEN Str(ToStr(a) \o ToStr(b)) ELSE Arith("+", a, b)

(* a == b: __eq of __str_mt, or identity.                                  *)
Same(a, b) ==
  CASE a = NaN \/ b = NaN                 -> FALSE
    [] a[1] = "pair" /\ b[1] = "pair"     -> a[2] = b[2]
    [] OTHER                              -> a = b

(* a op b, for every operator but "and" and "or".                          *)
Operate(op, a, b) ==
  CASE op = "+"  -> Plus(a, b)
    [] op = "==" -> Bool(Same(a, b))
    [] op = "~=" -> Bool(~Same(a, b))
    [] OTHER     -> Arith(op, a, b)

(* __to_bit(v) and __floor(v).                                             *)
ToBit(v) ==
  CASE v = NaN  -> Num(0)
    [] IsNum(v) -> Num(NumToBit(v[2]))
    [] OTHER    -> Fault

Floor(v) == IF IsNum(v) THEN v ELSE Fault

=============================================================================
