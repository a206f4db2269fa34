------------------------------ MODULE LuaArith ------------------------------
(***************************************************************************)
(* A chain of integer operations of a rinha program as the generated code  *)
(* computes it: generate_bin_op and generate_free_bin_op wrap differences, *)
(* products and quotients with __to_bit, and leave sums and remainders as  *)
(* they are.  A sum can therefore be larger than a word when the next      *)
(* operation reads it, on its left or on its right.                        *)
(***************************************************************************)
EXTENDS LuaNumber

CONSTANT LARGEST    \* bound on the sums that are followed

ASSUME LargestIsExact == LARGEST \in Nat /\ LARGEST < 4 * Q

(* Doubles have a unit for every magnitude that a product of two sums can  *)
(* have, with room for the rounding and the bias.                          *)
ASSUME ScalesReach ==
  \A m \in 1..(128 * Q * Q) :
    /\ m < 2 * Q  => \E s \in Scales : 2 * Q <= m * s /\ m * s < 4 * Q
    /\ m >= 4 * Q => \E s \in Scales : 2 * Q * s <= m /\ m < 4 * Q * s

VARIABLES
  num,      \* the double the program holds
  did,      \* the last operation, its operator and operand
  exact     \* no operation so far read a number it was not made for

vars == <<num, did, exact>>

(* The numbers a term can have: words, and numbers that are not wrapped.   *)
Followed == IntWord \cup (-LARGEST)..LARGEST

Init == num \in IntWord /\ did = <<"none", 0>> /\ exact = TRUE

(* Where adding 2^52 + 2^51 stays among the doubles with unit 1.           *)
Convertible(n) == -Q <= n /\ n < Q

Add(c) ==
  /\ Abs(num + c) <= LARGEST
  /\ did' = <<"+", c>>
  /\ num' = Round(num + c)
  /\ exact' = (exact /\ Convertible(num + c))

Sub(c) ==
  /\ did' = <<"-", c>>
  /\ num' = NumToBit(Round(num - c))
  /\ exact' = (exact /\ Convertible(num - c))

(* A product not converted back.                                           *)
MulSlip(c) ==
  /\ did' = <<"*", c>>
  /\ num' = Round(num * c)
  /\ exact' = (exact /\ Convertible(num * c))

Mul(c) ==
  /\ did' = <<"*", c>>
  /\ num' = NumToBit(Round(num * c))
  /\ exact' = (exact /\ Convertible(num * c))

(* The low word of an infinity or of a NaN is 0.                           *)
DivByZero ==
  /\ did' = <<"/", 0>>
  /\ num' = 0
  /\ exact' = FALSE

Div(c) ==
  /\ c # 0
  /\ did' = <<"/", c>>
  /\ num' = NumToBit(FloorDiv(num, c))
  /\ exact' = (exact /\ num \in IntWord /\ c \in IntWord)

(* A remainder by zero is a NaN, no integer: not followed.                 *)
Rem(c) ==
  /\ c # 0
  /\ did' = <<"%", c>>
  /\ num' = Modulo(num, c)
  /\ exact' = (exact /\ num \in IntWord /\ c \in IntWord)

(* The right operand is a term like the left one.                          *)
Next ==
  \/ \E c \in Followed : Add(c) \/ Sub(c) \/ Mul(c) \/ Div(c) \/ Rem(c)
  \/ DivByZero

Spec == Init /\ [][Next]_vars

-----------------------------------------------------------------------------
(* Properties                                                              *)

TypeOK == num \in Followed /\ exact \in BOOLEAN

(* Only a sum is ever larger than a word, and a remainder by one that is:  *)
(* generate_bin_op converts everything else.                               *)
OnlySumsExceedWords ==
  num \notin IntWord => \/ did[1] = "+"
                        \/ did[1] = "%" /\ did[2] \notin IntWord

(* Leaving sums unwrapped is harmless for what wraps next: any chain of    *)
(* sums, differences and products ends in the word that 32 bit arithmetic  *)
(* ends in, as long as every value converted is below 2^51, which is one   *)
(* product of a sum away; quotients and remainders need both operands to   *)
(* be words.                                                               *)
Words == INSTANCE WordArith WITH acc <- NumToBit(num), did <- <<did[1], Wrap(did[2])>>

ImplementsWords == Words!Spec

(* A trace computes the remainder that the interpreter computes: the W-bit *)
(* routine of the JIT agrees with the one on doubles at every word.        *)
TracesComputeSameRemainder ==
  num \in IntWord => \A c \in IntWord \ {0} : ModI(num, c) = Modulo(num, c)

=============================================================================
