------------------------------ MODULE LuaNumber -----------------------------
(***************************************************************************)
(* The numbers of generated code.  Rinha has 32 bit integers (Int::value   *)
(* of ast.rs); Lua has doubles, and the prelude's __to_bit takes a double  *)
(* back to 32 bits by adding 2^52 + 2^51 and reading the low word of the   *)
(* sum's representation (lj_num2bit).  The widths are constants; in the    *)
(* program W = 2^32 and Q = 2^51.  Only doubles that are integers occur: a *)
(* quotient is always under __floor.                                       *)
(***************************************************************************)
EXTENDS Integers

CONSTANTS
  W,        \* how many values a machine word has
  Q,        \* a quarter of 2^53: doubles are exact up to 4 * Q
  Scales    \* the units in the last place of the doubles considered

ASSUME WidthsFit ==
  /\ W \in Nat \ {0} /\ W % 2 = 0
  /\ Q \in Nat /\ \E k \in 1..Q : Q = k * W
  /\ Scales \subseteq Nat \ {0} /\ 1 \in Scales
  /\ \A s, t \in Scales : s < t => 2 * s <= t

H == W \div 2

(* The value of a W-bit pattern as a signed integer.                       *)
Signed(u) == IF u < H THEN u ELSE u - W

IntWord == (-H)..(H-1)

(* Two's complement wrap-around: what a W-bit machine makes of n.          *)
Wrap(n) == Signed(n % W)

Abs(x) == IF x < 0 THEN -x ELSE x

(* The unit in the last place of a double of magnitude m.                  *)
Scale(m) == IF m < 4 * Q THEN 1
            ELSE CHOOSE s \in Scales : 2 * Q * s <= m /\ m < 4 * Q * s

(* The nearest double, ties to even.                                       *)
Nearest(x, s) ==
  LET q == x \div s
      r == x % s
  IN  IF 2 * r < s \/ (2 * r = s /\ q % 2 = 0) THEN q * s ELSE (q + 1) * s

Round(x) == Nearest(x, Scale(Abs(x)))

(* The low word of the representation of a double: its mantissa without    *)
(* the leading bit is in units of its scale.  Below 2 * Q, where lower     *)
(* bits than those of an integer exist, the mantissa is scaled up.         *)
LowWord(x) ==
  LET m == Abs(x)
  IN  CASE x = 0                -> 0
        [] x # 0 /\ m < 2 * Q   -> (m * (CHOOSE s \in Scales :
                                           2 * Q <= m * s /\ m * s < 4 * Q)) % W
        [] OTHER                -> (m \div Scale(m)) % W

(* lj_num2bit: the bias is 2^52 + 2^51, so that a negative n does not      *)
(* borrow from the leading bit.                                            *)
NumToBitSlip(n) == Signed(LowWord(Round(n + 2 * Q)))

NumToBit(n) == Signed(LowWord(Round(n + 3 * Q)))

(* floor(a / b), for b # 0.  A quotient of doubles below 4 * Q never       *)
(* rounds up to the next integer.                                         *)
FloorDiv(a, b) == IF b > 0 THEN a \div b ELSE (-a) \div (-b)

(* x % y of Lua, lj_vm_foldarith: x - floor(x / y) * y.                    *)
Modulo(a, b) == a - FloorDiv(a, b) * b

(* lj_vm_modi, the modulo of compiled traces, in W-bit unsigned arithmetic:*)
(* the signs are taken off, and put back on the result.                    *)
Unsigned(n) == n % W

ModISlip(a, b) ==
  LET ua == Unsigned(IF a < 0 THEN -a ELSE a)
      ub == Unsigned(IF b < 0 THEN -b ELSE b)
      y0 == ua % ub
      y  == IF (a < 0) # (b < 0) THEN Unsigned(y0 - ub) ELSE y0
  IN  Signed(IF (Signed(y) < 0) # (b < 0) THEN Unsigned(-y) ELSE y)

ModI(a, b) ==
  LET ua == Unsigned(IF a < 0 THEN -a ELSE a)
      ub == Unsigned(IF b < 0 THEN -b ELSE b)
      y0 == ua % ub
      y  == IF y0 # 0 /\ (a < 0) # (b < 0) THEN Unsigned(y0 - ub) ELSE y0
  IN  Signed(IF (Signed(y) < 0) # (b < 0) THEN Unsigned(-y) ELSE y)

=============================================================================
