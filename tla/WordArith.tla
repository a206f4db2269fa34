------------------------------ MODULE WordArith -----------------------------
(***************************************************************************)
(* What arithmetic on 32 bit integers promises: a register that holds a    *)
(* word, and instructions, each an operator with an operand, that wrap     *)
(* around.  Division rounds down and the remainder has the sign of the     *)
(* divisor, as in Lua.  Once exact is false nothing is promised any more.  *)
(***************************************************************************)
EXTENDS LuaNumber

VARIABLES acc, exact, did     \* did is the last instruction

wordVars == <<acc, exact, did>>

Op == {"+", "-", "*", "/", "%"}

Init == acc \in IntWord /\ exact = TRUE

Result(op, c) ==
  CASE op = "+" -> Wrap(acc + c)
    [] op = "-" -> Wrap(acc - c)
    [] op = "*" -> Wrap(acc * c)
    [] op = "/" -> Wrap(FloorDiv(acc, c))
    [] op = "%" -> Wrap(Modulo(acc, c))

Compute(op, c) ==
  /\ exact /\ exact' = TRUE
  /\ op \in {"/", "%"} => c # 0
  /\ did' = <<op, c>>
  /\ acc' = Result(op, c)

Lose == exact' = FALSE

Next == Lose \/ \E op \in Op, c \in IntWord : Compute(op, c)

Spec == Init /\ [][Next]_wordVars

=============================================================================
