--------------------------- MODULE LuaArithProofs ---------------------------
(***************************************************************************)
(* For every width: generated code that leaves sums unwrapped implements   *)
(* W-bit arithmetic as long as it is exact.                                *)
(***************************************************************************)
EXTENDS LuaArith, TLAPS

(* Half a word, and the two facts about a bias that is a whole number of   *)
(* words.                                                                  *)
LEMMA Widths ==
  /\ W \in Nat \ {0} /\ H \in Nat \ {0} /\ W = 2 * H
  /\ Q \in Nat \ {0} /\ W <= Q
  /\ \E k \in Nat \ {0} : Q = k * W
BY WidthsFit DEF H

(* Dividing leaves a remainder below the divisor.                          *)
LEMMA DivMod ==
  ASSUME NEW n \in Int, NEW d \in Nat \ {0}
  PROVE  /\ n \div d \in Int /\ n % d \in 0..(d - 1)
         /\ n = d * (n \div d) + (n % d)
OBVIOUS

(* A remainder is what is left below the divisor, in one way only.         *)
LEMMA ModUnique ==
  ASSUME NEW n \in Int, NEW d \in Nat \ {0}, NEW q \in Int, NEW r \in 0..(d - 1),
         n = d * q + r
  PROVE  n % d = r
OBVIOUS

(* The same for the width, with the quotient and the remainder named.      *)
LEMMA WordParts ==
  ASSUME NEW n \in Int
  PROVE  \E r \in 0..(W - 1), q \in Int : r = n % W /\ n = W * q + r
<1>1. W \in Nat \ {0}
  BY Widths
<1>2. n \div W \in Int /\ n % W \in 0..(W - 1) /\ n = W * (n \div W) + (n % W)
  BY ONLY <1>1, DivMod, n \in Int
<1> QED BY ONLY <1>2

(* Units of 1 lose nothing.                                                *)
LEMMA DivOne ==
  ASSUME NEW n \in Int
  PROVE  n \div 1 = n /\ n % 1 = 0
OBVIOUS

(* Linear arithmetic for the products below.                               *)
LEMMA Distribute ==
  ASSUME NEW a \in Int, NEW b \in Int, NEW c \in Int
  PROVE  /\ a * (b + c) = (a * b) + (a * c)
         /\ (b + c) * a = (b * a) + (c * a)
         /\ a * (-b) = -(a * b) /\ (-b) * a = -(b * a)
         /\ a * b \in Int /\ (a * b) * c = a * (b * c)
OBVIOUS

(* Adding whole words does not change the wrapped value.                   *)
LEMMA WrapPeriodic ==
  ASSUME NEW n \in Int, NEW k \in Int
  PROVE  Wrap(n + W * k) = Wrap(n)
<1>1. PICK r \in 0..(W - 1), q \in Int : r = n % W /\ n = W * q + r
  BY WordParts
<1>2. W * (q + k) = W * q + W * k /\ W * q \in Int /\ W * k \in Int
  BY Distribute, Widths
<1>3. n + W * k = W * (q + k) + r
  BY <1>1, <1>2, Widths
<1>4. n + W * k \in Int /\ q + k \in Int
  BY <1>2
<1>5. (n + W * k) % W = r
  BY <1>3, <1>4, ModUnique, Widths
<1> QED BY <1>1, <1>5 DEF Wrap

(* A wrapped value is a word, a whole number of words away.                *)
LEMMA WrapIsWord ==
  ASSUME NEW n \in Int
  PROVE  /\ Wrap(n) \in IntWord
         /\ \E k \in Int : Wrap(n) = n + W * k
<1>1. PICK r \in 0..(W - 1), q \in Int : r = n % W /\ n = W * q + r
  BY WordParts
<1>2. Wrap(n) = IF r < H THEN r ELSE r - W
  BY <1>1 DEF Wrap, Signed
<1>3. Wrap(n) \in IntWord
  BY <1>2, Widths DEF IntWord
<1>4. W * (-q) = -(W * q) /\ W * (-q - 1) = -(W * q) - W /\ W * q \in Int
  BY Distribute, Widths
<1>5. CASE r < H
  <2>1. Wrap(n) = n + W * (-q)
    BY <1>1, <1>2, <1>4, <1>5, Widths
  <2> QED BY <1>3, <2>1
<1>6. CASE ~(r < H)
  <2>1. Wrap(n) = n + W * (-q - 1)
    BY <1>1, <1>2, <1>4, <1>6, Widths
  <2> QED BY <1>3, <2>1
<1> QED BY <1>5, <1>6

(* A word is its own wrapped value.                                        *)
LEMMA WrapOfWord ==
  ASSUME NEW n \in IntWord
  PROVE  Wrap(n) = n
<1>1. n \in Int /\ -H <= n /\ n < H
  BY Widths DEF IntWord
<1>2. CASE n >= 0
  <2>1. n % W = n
    BY <1>1, <1>2, ModUnique, Widths
  <2> QED BY <1>1, <2>1 DEF Wrap, Signed
<1>3. CASE n < 0
  <2>1. n = W * (-1) + (n + W) /\ n + W \in 0..(W - 1)
    BY <1>1, <1>3, Widths
  <2>2. n % W = n + W
    BY <1>1, <2>1, ModUnique, Widths
  <2> QED BY <1>1, <1>3, <2>2, Widths DEF Wrap, Signed
<1> QED BY <1>1, <1>2, <1>3

(* Wrapping an operand first does not change a wrapped sum, difference or  *)
(* product.                                                                *)
LEMMA WrapOperand ==
  ASSUME NEW n \in Int, NEW c \in Int
  PROVE  /\ Wrap(Wrap(n) + c) = Wrap(n + c)
         /\ Wrap(Wrap(n) - c) = Wrap(n - c)
         /\ Wrap(Wrap(n) * c) = Wrap(n * c)
<1>1. PICK k \in Int : Wrap(n) = n + W * k
  BY WrapIsWord
<1>2. W * k \in Int /\ n * c \in Int /\ k * c \in Int
  BY Distribute, Widths
<1>3. Wrap(n) + c = (n + c) + W * k /\ Wrap(n) - c = (n - c) + W * k
  BY <1>1, <1>2
<1>4. Wrap(n) * c = n * c + W * (k * c)
  <2>1. (n + W * k) * c = n * c + (W * k) * c
    BY <1>2, Distribute
  <2>2. (W * k) * c = W * (k * c)
    BY Distribute, Widths
  <2> QED BY <1>1, <2>1, <2>2
<1> QED BY <1>2, <1>3, <1>4, WrapPeriodic

(* The same with both operands wrapped.                                    *)
LEMMA WrapOperands ==
  ASSUME NEW n \in Int, NEW c \in Int
  PROVE  /\ Wrap(Wrap(n) + Wrap(c)) = Wrap(n + c)
         /\ Wrap(Wrap(n) - Wrap(c)) = Wrap(n - c)
         /\ Wrap(Wrap(n) * Wrap(c)) = Wrap(n * c)
<1>1. PICK k \in Int : Wrap(c) = c + W * k
  BY WrapIsWord
<1>2. W * k \in Int /\ n * c \in Int /\ n * k \in Int /\ -k \in Int
  BY Distribute, Widths
<1>3. n + Wrap(c) = (n + c) + W * k /\ n - Wrap(c) = (n - c) + W * (-k)
  <2>1. W * (-k) = -(W * k)
    BY Distribute, Widths
  <2> QED BY <1>1, <1>2, <2>1
<1>4. n * Wrap(c) = n * c + W * (n * k)
  <2>1. n * (c + W * k) = n * c + n * (W * k)
    BY <1>2, Distribute
  <2>2. n * (W * k) = W * (n * k)
    BY <1>2, Widths
  <2> QED BY <1>1, <2>1, <2>2
<1>5. /\ Wrap(n + Wrap(c)) = Wrap(n + c)
      /\ Wrap(n - Wrap(c)) = Wrap(n - c)
      /\ Wrap(n * Wrap(c)) = Wrap(n * c)
  BY <1>2, <1>3, <1>4, WrapPeriodic
<1>6. Wrap(c) \in Int
  BY <1>1, <1>2
<1> QED BY <1>5, <1>6, WrapOperand

(* __to_bit wraps every number below 2^51.                                 *)
LEMMA NumToBitWraps ==
  ASSUME NEW n \in Int, Convertible(n)
  PROVE  NumToBit(n) = Wrap(n)
<1> DEFINE x == n + 3 * Q
<1>1. x \in Int /\ 2 * Q <= x /\ x < 4 * Q /\ 0 < x /\ Abs(x) = x
  BY Widths DEF Convertible, Abs
<1>2. Scale(Abs(x)) = 1
  BY <1>1 DEF Scale
<1>3. x \div 1 = x /\ x % 1 = 0
  BY <1>1, DivOne
<1>4. Round(x) = x
  BY <1>1, <1>2, <1>3 DEF Round, Nearest
<1>5. LowWord(x) = x % W
  BY <1>1, <1>2, <1>3, Widths DEF LowWord
<1>6. \E k \in Int : x = n + W * k
  <2>1. PICK k \in Nat \ {0} : Q = k * W
    BY Widths
  <2>2. 3 * Q = W * (3 * k)
    BY <2>1, Widths
  <2> QED BY <2>2
<1>7. Wrap(x) = Wrap(n)
  BY <1>6, WrapPeriodic
<1>8. NumToBit(n) = Signed(x % W)
  BY <1>4, <1>5 DEF NumToBit
<1> QED BY <1>7, <1>8 DEF Wrap

(* A double below 2^53 is not rounded.                                     *)
LEMMA RoundExact ==
  ASSUME NEW n \in Int, Convertible(n)
  PROVE  Round(n) = n
<1>1. Abs(n) < 4 * Q
  BY Widths DEF Convertible, Abs
<1>2. Scale(Abs(n)) = 1
  BY <1>1 DEF Scale
<1>3. n \div 1 = n /\ n % 1 = 0
  BY DivOne
<1> QED BY <1>2, <1>3 DEF Round, Nearest

(* Every word is far below 2^51.                                           *)
LEMMA WordConvertible ==
  ASSUME NEW n \in IntWord
  PROVE  n \in Int /\ Convertible(n)
BY Widths DEF IntWord, Convertible

(* What is converted back to a word is the wrapped value and stays it.     *)
LEMMA ConvertedBack ==
  ASSUME NEW n \in Int, Convertible(n)
  PROVE  /\ NumToBit(Round(n)) = Wrap(n)
         /\ Wrap(n) \in Int /\ Convertible(Wrap(n))
         /\ NumToBit(Wrap(n)) = Wrap(n)
<1>1. Wrap(n) \in IntWord
  BY WrapIsWord
<1>2. Wrap(n) \in Int /\ Convertible(Wrap(n))
  BY <1>1, WordConvertible
<1>3. Wrap(Wrap(n)) = Wrap(n)
  BY <1>1, WrapOfWord
<1> QED BY <1>2, <1>3, NumToBitWraps, RoundExact

(* A quotient is not larger than its dividend.                             *)
LEMMA QuotientBound ==
  ASSUME NEW a \in IntWord, NEW b \in IntWord \ {0}
  PROVE  FloorDiv(a, b) \in (-H)..H
<1>1. a \in Int /\ b \in Int /\ -H <= a /\ a < H /\ H \in Nat
  BY Widths DEF IntWord
<1>2. CASE b > 0
  BY <1>1, <1>2 DEF FloorDiv
<1>3. CASE ~(b > 0)
  <2>1. -b \in Nat \ {0} /\ -a \in Int /\ -H <= -a /\ -a <= H
    BY <1>1, <1>3
  <2>2. (-a) \div (-b) \in (-H)..H
    BY <1>1, <2>1
  <2> QED BY <1>3, <2>2 DEF FloorDiv
<1> QED BY <1>2, <1>3

(* A remainder is smaller than its divisor and has its sign.               *)
LEMMA RemainderBound ==
  ASSUME NEW a \in Int, NEW b \in Int \ {0}
  PROVE  /\ b > 0 => Modulo(a, b) \in 0..(b - 1)
         /\ b < 0 => Modulo(a, b) \in (b + 1)..0
<1>1. CASE b > 0
  <2>0. b \in Nat \ {0}
    BY <1>1
  <2>1. a % b \in 0..(b - 1) /\ a = b * (a \div b) + (a % b) /\ a \div b \in Int
    BY ONLY <2>0, a \in Int, DivMod
  <2>2. Modulo(a, b) = a % b
    BY <1>1, <2>1 DEF Modulo, FloorDiv
  <2> QED BY <1>1, <2>1, <2>2
<1>2. CASE ~(b > 0)
  <2> DEFINE q == (-a) \div (-b)
             r == (-a) % (-b)
  <2>1. -b \in Nat \ {0} /\ -a \in Int /\ b < 0
    BY <1>2
  <2>2. q \in Int /\ r \in 0..(-b - 1) /\ -a = (-b) * q + r
    BY <2>1, DivMod
  <2> HIDE DEF q, r
  <2>3. (-b) * q = -(q * b) /\ q * b \in Int
    BY ONLY b \in Int, <2>2
  <2>4. Modulo(a, b) = -r
    <3>1. Modulo(a, b) = a - (q * b)
      BY <1>2 DEF Modulo, FloorDiv, q
    <3> QED BY <2>2, <2>3, <3>1
  <2> QED BY <1>2, <2>1, <2>2, <2>4
<1> QED BY <1>1, <1>2

(* So a remainder by a word is a word.                                     *)
LEMMA RemainderIsWord ==
  ASSUME NEW a \in Int, NEW b \in IntWord \ {0}
  PROVE  Modulo(a, b) \in IntWord
<1>1. b \in Int \ {0} /\ -H <= b /\ b < H /\ H \in Nat \ {0}
  BY Widths DEF IntWord
<1>2. CASE b > 0
  BY <1>1, <1>2, RemainderBound DEF IntWord
<1>3. CASE b < 0
  BY <1>1, <1>3, RemainderBound DEF IntWord
<1> QED BY <1>1, <1>2, <1>3

-----------------------------------------------------------------------------
(* The numbers that are followed are exact doubles.                        *)
LEMMA FollowedBound ==
  ASSUME NEW n \in Followed
  PROVE  n \in Int /\ -(4 * Q) <= n /\ n <= 4 * Q
<1>1. H <= Q /\ LARGEST \in Nat /\ LARGEST < 4 * Q /\ Q \in Nat /\ H \in Nat
  BY Widths, LargestIsExact
<1> QED BY <1>1 DEF Followed, IntWord

(* As long as nothing was lost, the double can be converted.               *)
Inv == /\ exact \in BOOLEAN
       /\ exact => num \in Int /\ Convertible(num)

(* Every initial number is a word.                                         *)
LEMMA InitInv == Init => Inv
BY WordConvertible DEF Init, Inv

(* The words of the two modules are the same.                              *)
LEMMA SameWords ==
  /\ Words!IntWord = IntWord
  /\ \A n : Words!Wrap(n) = Wrap(n)
  /\ \A a, b : /\ Words!FloorDiv(a, b) = FloorDiv(a, b)
               /\ Words!Modulo(a, b) = Modulo(a, b)
BY DEF Words!IntWord, IntWord, Words!Wrap, Wrap, Words!Signed, Signed, Words!H, H,
       Words!FloorDiv, FloorDiv, Words!Modulo, Modulo

(* The results of the instructions on words.                               *)
LEMMA WordResults ==
  ASSUME NEW c
  PROVE  /\ Words!Result("+", c) = Wrap(NumToBit(num) + c)
         /\ Words!Result("-", c) = Wrap(NumToBit(num) - c)
         /\ Words!Result("*", c) = Wrap(NumToBit(num) * c)
         /\ Words!Result("/", c) = Wrap(FloorDiv(NumToBit(num), c))
         /\ Words!Result("%", c) = Wrap(Modulo(NumToBit(num), c))
<1>1. /\ Words!Result("+", c) = Words!Wrap(NumToBit(num) + c)
      /\ Words!Result("-", c) = Words!Wrap(NumToBit(num) - c)
      /\ Words!Result("*", c) = Words!Wrap(NumToBit(num) * c)
      /\ Words!Result("/", c) = Words!Wrap(Words!FloorDiv(NumToBit(num), c))
      /\ Words!Result("%", c) = Words!Wrap(Words!Modulo(NumToBit(num), c))
  BY DEF Words!Result
<1> QED BY <1>1, SameWords, Zenon

(* The last operation is this instruction, on the word its operand stands  *)
(* for, and this is its result.                                            *)
Did(op, c) ==
  /\ op \in {"/", "%"} => c # 0
  /\ did'[1] = op /\ Wrap(did'[2]) = c
  /\ Wrap(num') = Words!Result(op, c)

(* What each operation that loses nothing does, as a wrapped value.        *)
LEMMA ExactStep ==
  ASSUME Inv, Next, exact'
  PROVE  /\ exact /\ num \in Int /\ Convertible(num)
         /\ num' \in Int /\ Convertible(num')
         /\ \E op \in Words!Op, c \in IntWord : Did(op, c)
<1>1. exact
  BY DEF Next, Add, Sub, Mul, Div, DivByZero, Rem
<1>2. num \in Int /\ Convertible(num) /\ NumToBit(num) = Wrap(num)
  BY <1>1, NumToBitWraps DEF Inv
<1>3. ~DivByZero
  BY DEF DivByZero
<1>4. PICK c \in Followed : Add(c) \/ Sub(c) \/ Mul(c) \/ Div(c) \/ Rem(c)
  BY <1>3 DEF Next
<1>5. c \in Int /\ Wrap(c) \in IntWord
  BY FollowedBound, WrapIsWord
<1> SUFFICES /\ num' \in Int /\ Convertible(num')
             /\ \E op \in Words!Op : Did(op, Wrap(c))
  BY <1>1, <1>2, <1>5
<1>6. CASE Add(c)
  <2>0. Convertible(num + c) /\ num' = Round(num + c)
    BY <1>6, Zenon DEF Add
  <2>1. num + c \in Int /\ Convertible(num + c) /\ num' = num + c
    BY <1>2, <1>5, <2>0, RoundExact
  <2>2. Wrap(num') = Wrap(NumToBit(num) + Wrap(c))
    BY <1>2, <1>5, <2>1, WrapOperands
  <2>7. did' = <<"+", c>>
    BY <1>6 DEF Add
  <2>8. Did("+", Wrap(c))
    BY <2>1, <2>2, <2>7, WordResults DEF Did
  <2> QED BY <2>1, <2>2, <2>8 DEF Words!Op
<1>7. CASE Sub(c)
  <2>0. Convertible(num - c)
    BY <1>7, Zenon DEF Sub
  <2>1. num - c \in Int /\ Convertible(num - c)
    BY <1>2, <1>5, <2>0
  <2>2. num' = Wrap(num - c) /\ num' \in Int /\ Convertible(num')
    BY <1>7, <2>1, ConvertedBack DEF Sub
  <2>3. Wrap(num') = Wrap(NumToBit(num) - Wrap(c))
    BY <1>2, <1>5, <2>1, <2>2, WrapOperands, ConvertedBack, NumToBitWraps
  <2>7. did' = <<"-", c>>
    BY <1>7 DEF Sub
  <2>8. Did("-", Wrap(c))
    BY <2>2, <2>3, <2>7, WordResults DEF Did
  <2> QED BY <2>2, <2>3, <2>8 DEF Words!Op
<1>8. CASE Mul(c)
  <2>0. Convertible(num * c)
    BY <1>8, Zenon DEF Mul
  <2>1. num * c \in Int /\ Convertible(num * c)
    BY <1>2, <1>5, <2>0
  <2>2. num' = Wrap(num * c) /\ num' \in Int /\ Convertible(num')
    BY <1>8, <2>1, ConvertedBack DEF Mul
  <2>3. Wrap(num') = Wrap(NumToBit(num) * Wrap(c))
    BY <1>2, <1>5, <2>1, <2>2, WrapOperands, ConvertedBack, NumToBitWraps
  <2>7. did' = <<"*", c>>
    BY <1>8 DEF Mul
  <2>8. Did("*", Wrap(c))
    BY <2>2, <2>3, <2>7, WordResults DEF Did
  <2> QED BY <2>2, <2>3, <2>8 DEF Words!Op
<1>9. CASE Div(c)
  <2> DEFINE d == FloorDiv(num, c)
  <2>1. num \in IntWord /\ c \in IntWord \ {0} /\ c # 0 /\ Wrap(c) = c
    BY <1>9, WrapOfWord DEF Div
  <2>2. d \in Int /\ Convertible(d)
    BY <2>1, QuotientBound, Widths DEF Convertible
  <2> HIDE DEF d
  <2>3. num' = Wrap(d) /\ num' \in Int /\ Convertible(num') /\ Wrap(num') = Wrap(d)
    <3>1. num' = NumToBit(d)
      BY <1>9 DEF Div, d
    <3> QED BY <2>2, <3>1, ConvertedBack, NumToBitWraps
  <2>4. NumToBit(num) = num
    BY <1>2, <2>1, WrapOfWord
  <2>5. d = FloorDiv(NumToBit(num), c)
    BY <2>4 DEF d
  <2>7. did' = <<"/", c>>
    BY <1>9 DEF Div
  <2>8. Did("/", Wrap(c))
    BY <2>1, <2>3, <2>5, <2>7, WordResults DEF Did
  <2> QED BY <2>1, <2>3, <2>5, <2>8 DEF Words!Op
<1>10. CASE Rem(c)
  <2>1. /\ num \in IntWord /\ c \in IntWord \ {0} /\ c # 0 /\ Wrap(c) = c
        /\ num' = Modulo(num, c)
    BY <1>10, WrapOfWord DEF Rem
  <2>2. num' \in Int /\ Convertible(num')
    BY <2>1, RemainderIsWord, WordConvertible
  <2>3. NumToBit(num) = num
    BY <1>2, <2>1, WrapOfWord
  <2>4. Wrap(num') = Wrap(Modulo(NumToBit(num), c))
    BY <2>1, <2>3
  <2>7. did' = <<"%", c>>
    BY <1>10 DEF Rem
  <2>8. Did("%", Wrap(c))
    BY <2>1, <2>2, <2>4, <2>7, WordResults DEF Did
  <2> QED BY <2>1, <2>2, <2>4, <2>8 DEF Words!Op
<1> QED BY <1>4, <1>6, <1>7, <1>8, <1>9, <1>10

(* No operation spoils the invariant.                                      *)
LEMMA StepInv == Inv /\ [Next]_vars => Inv'
<1> SUFFICES ASSUME Inv, [Next]_vars PROVE Inv'
  OBVIOUS
<1>1. CASE UNCHANGED vars
  BY <1>1 DEF vars, Inv, Convertible
<1>2. CASE Next
  <2>1. exact' \in BOOLEAN
    BY <1>2 DEF Next, Add, Sub, Mul, Div, DivByZero, Rem, Inv
  <2>2. exact' => num' \in Int /\ Convertible(num')
    BY <1>2, ExactStep
  <2> QED BY <2>1, <2>2 DEF Inv, Convertible
<1> QED BY <1>1, <1>2

(* An initial number is its own word.                                      *)
LEMMA InitMaps == Init => Words!Init
<1> SUFFICES ASSUME Init PROVE Words!Init
  OBVIOUS
<1>1. num \in IntWord /\ exact = TRUE
  BY DEF Init
<1>2. NumToBit(num) = num
  BY <1>1, WordConvertible, NumToBitWraps, WrapOfWord
<1> QED BY <1>1, <1>2, SameWords DEF Words!Init

(* Every operation on doubles is the operation on words, or loses.         *)
LEMMA StepMaps == Inv /\ [Next]_vars => [Words!Next]_(Words!wordVars)
<1> SUFFICES ASSUME Inv, [Next]_vars PROVE [Words!Next]_(Words!wordVars)
  OBVIOUS
<1>1. CASE UNCHANGED vars
  BY <1>1 DEF vars, Words!wordVars
<1>2. CASE Next
  <2>1. CASE exact' = TRUE
    <3>1. exact = TRUE
      BY <1>2, <2>1, ExactStep DEF Inv
    <3>2. PICK op \in Words!Op, c \in IntWord : Did(op, c)
      BY <1>2, <2>1, ExactStep
    <3>3. NumToBit(num') = Wrap(num')
      BY <1>2, <2>1, ExactStep, NumToBitWraps
    <3>4. Words!Compute(op, c)
      BY <2>1, <3>1, <3>2, <3>3 DEF Words!Compute, Did
    <3> QED BY <3>2, <3>4, SameWords DEF Words!Next
  <2>2. CASE exact' = FALSE
    BY <2>2 DEF Words!Next, Words!Lose
  <2>3. exact' \in BOOLEAN
    BY <1>2, StepInv DEF Inv
  <2> QED BY <2>1, <2>2, <2>3
<1> QED BY <1>1, <1>2

(* For every width: chains of generated operations implement wrapping      *)
(* W-bit arithmetic, sums left unwrapped included.                         *)
THEOREM ImplementsWordArith == Spec => ImplementsWords
<1>1. Init => Inv
  BY InitInv
<1>2. Inv /\ [Next]_vars => Inv'
  BY StepInv
<1>3. Init => Words!Init
  BY InitMaps
<1>4. Inv /\ [Next]_vars => [Words!Next]_(Words!wordVars)
  BY StepMaps
<1> QED BY <1>1, <1>2, <1>3, <1>4, PTL DEF Spec, ImplementsWords, Words!Spec

-----------------------------------------------------------------------------
(* The modulo of compiled traces.                                          *)

(* Numbers below a word are their own pattern, and the pattern of a small  *)
(* negative number is a word up.                                           *)
LEMMA Patterns ==
  ASSUME NEW n \in (-H)..H
  PROVE  /\ n >= 0 => Unsigned(n) = n
         /\ n < 0 => Unsigned(n) = W + n
<1>1. n \in Int /\ -H <= n /\ n <= H
  BY Widths
<1>2. CASE n >= 0
  <2>1. n = W * 0 + n /\ n \in 0..(W - 1)
    BY <1>1, <1>2, Widths
  <2>2. n % W = n
    BY <1>1, <2>1, ModUnique, Widths
  <2> QED BY <1>2, <2>2 DEF Unsigned
<1>3. CASE n < 0
  <2>1. n = W * (-1) + (W + n) /\ W + n \in 0..(W - 1)
    BY <1>1, <1>3, Widths
  <2>2. n % W = W + n
    BY <1>1, <2>1, ModUnique, Widths
  <2> QED BY <1>3, <2>2 DEF Unsigned
<1> QED BY <1>1, <1>2, <1>3

(* The pattern of the other sign of a pattern.                             *)
LEMMA Negated ==
  ASSUME NEW n \in 1..(W - 1)
  PROVE  Unsigned(-n) = W - n
<1>1. -n = W * (-1) + (W - n) /\ W - n \in 0..(W - 1) /\ -n \in Int
  BY Widths
<1>2. (-n) % W = W - n
  BY <1>1, ModUnique, Widths
<1> QED BY <1>2 DEF Unsigned

(* The remainder of the numbers without their signs gives Lua's, one sign  *)
(* at a time.                                                              *)
LEMMA ModuloBySigns ==
  ASSUME NEW a \in Int, NEW b \in Int, b # 0,
         NEW r, r = (IF a < 0 THEN -a ELSE a) % (IF b < 0 THEN -b ELSE b)
  PROVE  /\ r \in 0..((IF b < 0 THEN -b ELSE b) - 1)
         /\ a >= 0 /\ b > 0 => Modulo(a, b) = r
         /\ a < 0 /\ b > 0  => Modulo(a, b) = IF r = 0 THEN 0 ELSE b - r
         /\ a >= 0 /\ b < 0 => Modulo(a, b) = IF r = 0 THEN 0 ELSE r + b
         /\ a < 0 /\ b < 0  => Modulo(a, b) = -r
<1> DEFINE m == IF a < 0 THEN -a ELSE a
           d == IF b < 0 THEN -b ELSE b
<1>1. m \in Int /\ d \in Nat \ {0} /\ r = m % d
  OBVIOUS
<1>2. (a < 0 => m = -a) /\ (a >= 0 => m = a) /\ (b < 0 => d = -b) /\ (b > 0 => d = b)
  OBVIOUS
<1> HIDE DEF m, d
<1>3. r \in 0..(d - 1) /\ m \div d \in Int /\ m = d * (m \div d) + r
  BY ONLY <1>1, DivMod
<1>4. PICK q \in Int : m = d * q + r
  BY ONLY <1>3
<1>5. d * (-q) = -(d * q) /\ d * (-q - 1) = -(d * q) - d /\ d * q \in Int
  BY <1>1, Distribute
(* The remainder of the other sign.                                        *)
<1>6. -m = d * (-q) - r /\ -m = d * (-q - 1) + (d - r) /\ -m \in Int
  <2> DEFINE p == d * q
             v == d * (-q)
             w == d * (-q - 1)
  <2>1. m = p + r /\ v = -p /\ w = -p - d /\ p \in Int /\ m \in Int /\ d \in Int /\ r \in Int
    <3>1. v = -p /\ w = -p - d /\ p \in Int
      BY ONLY <1>5
    <3>2. m = p + r /\ m \in Int
      BY ONLY <1>1, <1>4
    <3>3. d \in Int /\ r \in Int
      BY ONLY <1>1, <1>3
    <3> QED BY ONLY <3>1, <3>2, <3>3
  <2> HIDE DEF p, v, w
  <2>2. -m = v - r /\ -m = w + (d - r) /\ -m \in Int
    BY ONLY <2>1
  <2> QED BY ONLY <2>2 DEF v, w
<1>7. (-m) % d = IF r = 0 THEN 0 ELSE d - r
  <2>1. CASE r = 0
    <3> DEFINE n == -m
               k == -q
    <3>1. n = d * k + 0 /\ 0 \in 0..(d - 1) /\ k \in Int /\ n \in Int /\ d \in Nat \ {0}
      BY <1>1, <1>5, <1>6, <2>1
    <3> HIDE DEF n, k
    <3>2. n % d = 0
      BY ONLY <3>1, ModUnique
    <3> QED BY <2>1, <3>2 DEF n
  <2>2. CASE r # 0
    <3> DEFINE n == -m
               k == -q - 1
               s == d - r
    <3>1. s \in 0..(d - 1) /\ k \in Int /\ n \in Int /\ d \in Nat \ {0}
      BY <1>1, <1>3, <1>6, <2>2
    <3>2. n = d * k + s
      BY ONLY <1>6
    <3> HIDE DEF n, k, s
    <3>3. n % d = s
      BY ONLY <3>1, <3>2, ModUnique
    <3> QED BY <2>2, <3>3 DEF n, s
  <2> QED BY <2>1, <2>2
(* Subtracting the whole quotients leaves the remainder.                   *)
<1>8. \A n \in Int : n - (n \div d) * d = n % d
  <2> TAKE n \in Int
  <2>1. n \div d \in Int /\ n = d * (n \div d) + (n % d) /\ n % d \in 0..(d - 1)
    BY ONLY <1>1, n \in Int, DivMod
  <2> DEFINE e == n \div d
             x == n % d
  <2>2. e \in Int /\ n = d * e + x /\ x \in Int
    BY <2>1
  <2> HIDE DEF e, x
  <2>3. d * e = e * d /\ e * d \in Int
    BY ONLY <1>1, <2>2
  <2>4. n - e * d = x
    BY ONLY <2>2, <2>3, n \in Int
  <2> QED BY <2>4 DEF e, x
<1>9. CASE b > 0
  <2>1. Modulo(a, b) = a % d
    BY <1>2, <1>8, <1>9 DEF Modulo, FloorDiv
  <2>2. a >= 0 => Modulo(a, b) = r
    BY <1>1, <1>2, <2>1
  <2>3. a < 0 => a = -m
    BY <1>2
  <2>4. a < 0 => Modulo(a, b) = IF r = 0 THEN 0 ELSE b - r
    BY <1>2, <1>7, <1>9, <2>1, <2>3
  <2> QED BY <1>2, <1>3, <1>9, <2>2, <2>4 DEF d
<1>10. CASE b < 0
  <2>1. ~(b > 0) /\ -b = d /\ -a \in Int /\ b = -d
    BY <1>2, <1>10
  <2>2. Modulo(a, b) = a - ((-a) \div d) * b
    BY <2>1 DEF Modulo, FloorDiv
  <2>3. Modulo(a, b) = -((-a) % d)
    <3> DEFINE e == (-a) \div d
               x == (-a) % d
    <3>1. (-a) - e * d = x /\ e \in Int /\ x \in Int
      BY ONLY <1>1, <1>8, <2>1, DivMod
    <3>2. Modulo(a, b) = a - e * b
      BY <2>2
    <3> HIDE DEF e, x
    <3>3. e * b = -(e * d) /\ e * d \in Int
      BY ONLY <1>1, <2>1, <3>1, Distribute
    <3>4. Modulo(a, b) = -x
      BY ONLY <3>1, <3>2, <3>3, a \in Int
    <3> QED BY <3>4 DEF x
  <2>4. a >= 0 => -a = -m
    BY <1>2
  <2>5. a < 0 => -a = m
    BY <1>2
  <2>6. a < 0 => Modulo(a, b) = -r
    BY <1>1, <2>3, <2>5
  <2>7. a >= 0 => Modulo(a, b) = IF r = 0 THEN 0 ELSE r + b
    BY <1>1, <1>3, <1>7, <2>1, <2>3, <2>4
  <2> QED BY <1>2, <1>3, <1>10, <2>6, <2>7 DEF d
<1> QED BY <1>9, <1>10

(* lj_vm_modi computes it without signs: for every width, the remainder of *)
(* compiled code is the remainder of the interpreter.                      *)
LEMMA ModIIsModulo ==
  ASSUME NEW a \in IntWord, NEW b \in IntWord \ {0}
  PROVE  ModI(a, b) = Modulo(a, b)
<1> DEFINE m  == IF a < 0 THEN -a ELSE a
           d  == IF b < 0 THEN -b ELSE b
           r  == m % d
           y  == IF r # 0 /\ (a < 0) # (b < 0) THEN Unsigned(r - d) ELSE r
           z  == IF (Signed(y) < 0) # (b < 0) THEN Unsigned(-y) ELSE y
<1>1. a \in Int /\ b \in Int /\ b # 0 /\ -H <= a /\ a < H /\ -H <= b /\ b < H
  BY Widths DEF IntWord
<1>2. m \in (-H)..H /\ d \in (-H)..H /\ m >= 0 /\ d >= 1
  BY <1>1, Widths
<1>3. Unsigned(m) = m /\ Unsigned(d) = d
  BY <1>2, Patterns
<1>4. ModI(a, b) = Signed(z)
  BY <1>3 DEF ModI
<1>5. r \in 0..(d - 1)
  BY <1>1, ModuloBySigns
<1>6. /\ a >= 0 /\ b > 0 => Modulo(a, b) = r
      /\ a < 0 /\ b > 0  => Modulo(a, b) = IF r = 0 THEN 0 ELSE b - r
      /\ a >= 0 /\ b < 0 => Modulo(a, b) = IF r = 0 THEN 0 ELSE r + b
      /\ a < 0 /\ b < 0  => Modulo(a, b) = -r
  BY <1>1, ModuloBySigns
<1>7. (b < 0 => d = -b) /\ (b > 0 => d = b)
  BY <1>1
<1> HIDE DEF m, d, r
<1>8. r \in 0..(H - 1) /\ d \in 1..H /\ r < d
  BY <1>2, <1>5, Widths
<1>9. Signed(r) = r
  BY <1>8, Widths DEF Signed
<1>10. r # 0 => /\ r - d \in (-H)..H /\ r - d < 0
                /\ Unsigned(r - d) = W + (r - d)
  BY <1>8, Patterns, Widths
<1>11. r # 0 => Unsigned(-r) = W - r
  <2>1. r # 0 => r \in 1..(W - 1)
    BY <1>8, Widths
  <2> QED BY <2>1, Negated
<1>12. Unsigned(0) = 0 /\ Signed(0) = 0
  BY Patterns, Widths DEF Signed
<1>13. CASE (a < 0) # (b < 0) /\ r # 0
  <2>1. y = W + (r - d) /\ y \in 1..(W - 1) /\ ~(y < H)
    BY <1>8, <1>10, <1>13, Widths
  <2>2. Signed(y) = r - d /\ Signed(y) < 0
    BY <1>8, <2>1, Widths DEF Signed
  <2>3. CASE b < 0
    <3>1. z = y /\ a >= 0
      BY <1>1, <1>13, <2>2, <2>3
    <3> QED BY <1>1, <1>4, <1>6, <1>7, <1>8, <1>13, <2>2, <2>3, <3>1
  <2>4. CASE b > 0
    <3>1. z = Unsigned(-y) /\ a < 0
      BY <1>1, <1>13, <2>2, <2>4
    <3> HIDE DEF y, z
    <3>2. Unsigned(-y) = W - y
      BY <2>1, Negated
    <3>3. z = d - r /\ z \in 0..(H - 1)
      BY <1>8, <1>13, <2>1, <3>1, <3>2, Widths
    <3>4. Signed(z) = d - r
      BY <3>3, Widths DEF Signed
    <3> QED BY <1>4, <1>6, <1>7, <1>13, <2>4, <3>1, <3>4
  <2> QED BY <1>1, <2>3, <2>4
<1>14. CASE (a < 0) # (b < 0) /\ r = 0
  <2>1. y = 0
    BY <1>14
  <2>2. z = 0
    BY <1>12, <2>1
  <2> QED BY <1>1, <1>4, <1>6, <1>12, <1>14, <2>2
<1>15. CASE ~((a < 0) # (b < 0))
  <2>1. y = r /\ ~(Signed(y) < 0)
    BY <1>8, <1>9, <1>15
  <2>2. CASE b > 0
    <3>1. z = r /\ a >= 0
      BY <1>1, <1>15, <2>1, <2>2
    <3> QED BY <1>4, <1>6, <1>9, <2>2, <3>1
  <2>3. CASE b < 0
    <3>1. z = Unsigned(-r) /\ a < 0
      BY <1>1, <1>15, <2>1, <2>3
    <3>2. CASE r = 0
      BY <1>4, <1>6, <1>12, <2>3, <3>1, <3>2
    <3>3. CASE r # 0
      <4> HIDE DEF y, z
      <4>1. z = W - r /\ ~(z < H)
        BY <1>8, <1>11, <3>1, <3>3, Widths
      <4>2. Signed(z) = -r
        BY <1>8, <4>1, Widths DEF Signed
      <4> QED BY <1>4, <1>6, <2>3, <3>1, <4>2
    <3> QED BY <3>2, <3>3
  <2> QED BY <1>1, <2>2, <2>3
<1> QED BY <1>13, <1>14, <1>15

(* For every width and every word: a trace computes the remainder that the *)
(* interpreter computes, whatever the signs, the smallest word included.   *)
THEOREM TraceRemainderIsLuas == Spec => []TracesComputeSameRemainder
<1>1. TracesComputeSameRemainder
  BY ModIIsModulo DEF TracesComputeSameRemainder
<1> QED BY <1>1, PTL

-----------------------------------------------------------------------------
(* Only a sum is larger than a word.                                       *)

(* The largest magnitude for which units are known.                        *)
Reach == 128 * Q * Q

Reachable(n) == n \in Int /\ -Reach <= n /\ n <= Reach

(* The reach is many times the bias and the product of two sums.           *)
LEMMA Reaches ==
  /\ Q * Q \in Nat /\ Reach = 128 * (Q * Q)
  /\ Q <= Q * Q /\ 1 <= Q * Q
<1>1. Q \in Nat \ {0}
  BY Widths
<1>2. Q * Q \in Nat /\ Q <= Q * Q /\ 1 <= Q * Q
  BY <1>1
<1>3. 128 * Q * Q = 128 * (Q * Q)
  BY ONLY <1>1
<1> QED BY <1>2, <1>3 DEF Reach

(* The unit of a double is a positive number below its magnitude.          *)
LEMMA UnitOf ==
  ASSUME NEW x \in Int, Reachable(x)
  PROVE  /\ Scale(Abs(x)) \in Nat \ {0}
         /\ Abs(x) < 4 * Q => Scale(Abs(x)) = 1
         /\ Abs(x) >= 4 * Q => Scale(Abs(x)) <= Abs(x)
<1> DEFINE m == Abs(x)
<1>1. m \in Nat /\ m <= Reach
  BY Reaches DEF Reachable, Abs
<1>2. Q \in Nat \ {0} /\ Scales \subseteq Nat \ {0}
  BY Widths, WidthsFit
<1> HIDE DEF m
<1>3. CASE m < 4 * Q
  <2>1. Scale(m) = 1
    BY <1>3 DEF Scale
  <2> QED BY <1>1, <1>2, <1>3, <2>1 DEF m
<1>4. CASE ~(m < 4 * Q)
  <2>1. m \in 1..(128 * Q * Q) /\ m >= 4 * Q
    BY <1>1, <1>2, <1>4, Reaches DEF Reach
  <2>2. \E s \in Scales : 2 * Q * s <= m /\ m < 4 * Q * s
    BY <2>1, ScalesReach
  <2> DEFINE t == CHOOSE s \in Scales : 2 * Q * s <= m /\ m < 4 * Q * s
  <2>3. t \in Scales /\ 2 * Q * t <= m
    BY <2>2
  <2>4. Scale(m) = t
    BY <1>4 DEF Scale
  <2> HIDE DEF t
  <2>5. t \in Nat \ {0}
    BY <1>2, <2>3
  <2>6. t <= 2 * Q * t
    BY ONLY <1>2, <2>5
  <2>7. t <= m
    <3> DEFINE u == 2 * Q * t
    <3>1. u \in Int
      BY ONLY <1>2, <2>5
    <3>2. t <= u /\ u <= m /\ t \in Nat
      BY <2>3, <2>5, <2>6
    <3> HIDE DEF u
    <3> QED BY ONLY <1>1, <3>1, <3>2
  <2> QED BY <1>4, <2>4, <2>5, <2>7 DEF m
<1> QED BY <1>3, <1>4

(* Rounding at most doubles a magnitude.                                   *)
LEMMA RoundBound ==
  ASSUME NEW x \in Int, Reachable(x), NEW b \in Nat, -b <= x, x <= b
  PROVE  Round(x) \in Int /\ -(2 * b) <= Round(x) /\ Round(x) <= 2 * b
<1> DEFINE s == Scale(Abs(x))
           q == x \div s
           r == x % s
<1>1. /\ s \in Nat \ {0}
      /\ Abs(x) < 4 * Q => s = 1
      /\ Abs(x) >= 4 * Q => s <= Abs(x)
  BY UnitOf
<1>2. Round(x) = q * s \/ Round(x) = (q + 1) * s
  BY DEF Round, Nearest
<1>3. Abs(x) \in Nat /\ Abs(x) <= b /\ Q \in Nat
  BY Widths DEF Abs
<1>4. CASE Abs(x) < 4 * Q
  <2>1. x \div 1 = x /\ x % 1 = 0
    BY DivOne
  <2>2. Round(x) = x
    BY <1>1, <1>4, <2>1 DEF Round, Nearest
  <2> QED BY <2>2
<1>5. CASE ~(Abs(x) < 4 * Q)
  <2>1. s <= b
    BY <1>1, <1>3, <1>5
  <2> HIDE DEF s
  <2>2. q \in Int /\ r \in 0..(s - 1) /\ x = s * q + r
    BY ONLY <1>1, x \in Int, DivMod
  <2> HIDE DEF q, r
  <2>3. q * s = s * q /\ (q + 1) * s = s * q + s /\ s * q \in Int
    BY ONLY <1>1, <2>2
  <2>4. Round(x) = x - r \/ Round(x) = (x - r) + s
    BY <1>1, <1>2, <2>2, <2>3
  <2> QED BY <1>1, <2>1, <2>2, <2>4
<1> QED BY <1>4, <1>5

(* The low word of a double is a pattern.                                  *)
LEMMA LowWordIsPattern ==
  ASSUME NEW x \in Int, Reachable(x)
  PROVE  LowWord(x) \in 0..(W - 1)
<1> DEFINE m == Abs(x)
<1>1. m \in Nat /\ m <= Reach /\ (x # 0 => m >= 1)
  BY Reaches DEF Reachable, Abs
<1>2. Q \in Nat \ {0} /\ W \in Nat \ {0} /\ Scales \subseteq Nat \ {0}
  BY Widths, WidthsFit
<1>3. \A n \in Int : n % W \in 0..(W - 1)
  BY <1>2, DivMod
<1>4. CASE x = 0
  BY <1>2, <1>4 DEF LowWord
<1>5. CASE x # 0 /\ m < 2 * Q
  <2>1. m \in 1..(128 * Q * Q) /\ m < 2 * Q
    BY <1>1, <1>5 DEF Reach
  <2>2. \E s \in Scales : 2 * Q <= m * s /\ m * s < 4 * Q
    BY <2>1, ScalesReach
  <2> DEFINE t == CHOOSE s \in Scales : 2 * Q <= m * s /\ m * s < 4 * Q
  <2>3. t \in Scales
    BY <2>2
  <2>4. LowWord(x) = (m * t) % W
    BY <1>5 DEF LowWord
  <2> HIDE DEF t, m
  <2>5. m * t \in Int
    BY <1>1, <1>2, <2>3
  <2> QED BY <1>3, <2>4, <2>5
<1>6. CASE x # 0 /\ ~(m < 2 * Q)
  <2> DEFINE s == Scale(m)
  <2>1. s \in Nat \ {0}
    BY UnitOf
  <2>2. LowWord(x) = (m \div s) % W
    BY <1>6 DEF LowWord
  <2> HIDE DEF s, m
  <2>3. m \div s \in Int
    BY ONLY <1>1, <2>1, DivMod
  <2> QED BY <1>3, <2>2, <2>3
<1> QED BY <1>4, <1>5, <1>6

(* So __to_bit returns a word.                                             *)
LEMMA NumToBitIsWord ==
  ASSUME NEW n \in Int, -(32 * (Q * Q)) <= n, n <= 32 * (Q * Q)
  PROVE  NumToBit(n) \in IntWord
<1> DEFINE x == n + 3 * Q
           b == 35 * (Q * Q)
           y == Round(x)
<1>1. Q * Q \in Nat /\ Reach = 128 * (Q * Q) /\ Q <= Q * Q /\ Q \in Nat
  BY Reaches, Widths
<1>2. x \in Int /\ b \in Nat /\ -b <= x /\ x <= b /\ Reachable(x)
  BY <1>1 DEF Reachable
<1> HIDE DEF x
<1>3. y \in Int /\ -(2 * b) <= y /\ y <= 2 * b
  BY ONLY <1>2, RoundBound
<1>4. Reachable(y)
  <2> HIDE DEF y
  <2> QED BY <1>1, <1>3 DEF Reachable
<1>5. LowWord(y) \in 0..(W - 1)
  BY <1>3, <1>4, LowWordIsPattern
<1>6. NumToBit(n) = Signed(LowWord(y))
  BY DEF NumToBit, x
<1> HIDE DEF y
<1> QED BY <1>5, <1>6, Widths DEF Signed, IntWord

(* Dividing by an integer does not make a number larger.                   *)
LEMMA FloorDivBound ==
  ASSUME NEW a \in Int, NEW m \in Nat, -m <= a, a <= m, NEW b \in Int \ {0}
  PROVE  FloorDiv(a, b) \in Int /\ -m <= FloorDiv(a, b) /\ FloorDiv(a, b) <= m
<1>1. ASSUME NEW n \in Int, -m <= n, n <= m, NEW d \in Nat \ {0}
      PROVE  n \div d \in Int /\ -m <= n \div d /\ n \div d <= m
  BY ONLY m \in Nat, n \in Int, d \in Nat \ {0}, <1>1
<1>2. CASE b > 0
  BY <1>1, <1>2 DEF FloorDiv
<1>3. CASE ~(b > 0)
  <2>1. -b \in Nat \ {0} /\ -a \in Int /\ -m <= -a /\ -a <= m
    BY <1>3
  <2> QED BY <1>1, <1>3, <2>1 DEF FloorDiv
<1> QED BY <1>2, <1>3

(* The product of numbers within bounds.                                   *)
LEMMA ProductBound ==
  ASSUME NEW m \in Nat, NEW n \in Nat, NEW a \in Int, NEW b \in Int,
         -m <= a, a <= m, -n <= b, b <= n
  PROVE  a * b \in Int /\ -(m * n) <= a * b /\ a * b <= m * n /\ m * n \in Nat
OBVIOUS

(* What is converted after an operation on numbers that are followed is a  *)
(* word.                                                                   *)
LEMMA ConvertedIsWord ==
  ASSUME NEW n \in Int, -(16 * (Q * Q)) <= n, n <= 16 * (Q * Q)
  PROVE  NumToBit(Round(n)) \in IntWord
<1> DEFINE b == 16 * (Q * Q)
           y == Round(n)
<1>1. b \in Nat /\ Reachable(n) /\ -b <= n /\ n <= b
  BY Reaches DEF Reachable
<1>2. y \in Int /\ -(2 * b) <= y /\ y <= 2 * b
  BY ONLY <1>1, n \in Int, RoundBound
<1> HIDE DEF y
<1>3. -(32 * (Q * Q)) <= y /\ y <= 32 * (Q * Q)
  BY <1>2, Reaches
<1>4. NumToBit(y) \in IntWord
  BY <1>2, <1>3, NumToBitIsWord
<1> QED BY <1>4 DEF y

(* A sum that is followed is not rounded.                                  *)
LEMMA SumFollowed ==
  ASSUME NEW n \in Int, Abs(n) <= LARGEST
  PROVE  Round(n) \in (-LARGEST)..LARGEST
<1>1. n \in (-LARGEST)..LARGEST /\ Abs(n) < 4 * Q
  BY LargestIsExact, Widths DEF Abs
<1>2. Scale(Abs(n)) = 1
  BY <1>1 DEF Scale
<1>3. n \div 1 = n /\ n % 1 = 0
  BY DivOne
<1>4. Round(n) = n
  BY <1>2, <1>3 DEF Round, Nearest
<1> QED BY <1>1, <1>4

(* A remainder by a number that is followed is followed.                   *)
LEMMA RemainderFollowed ==
  ASSUME NEW a \in Int, NEW b \in Followed \ {0}
  PROVE  Modulo(a, b) \in Followed
<1>1. CASE b \in IntWord
  BY <1>1, RemainderIsWord DEF Followed
<1>2. CASE b \in (-LARGEST)..LARGEST
  <2>1. b \in Int \ {0} /\ -LARGEST <= b /\ b <= LARGEST /\ LARGEST \in Nat
    BY <1>2, LargestIsExact
  <2>2. Modulo(a, b) \in (-LARGEST)..LARGEST
    <3>1. CASE b > 0
      BY <2>1, <3>1, RemainderBound
    <3>2. CASE b < 0
      BY <2>1, <3>2, RemainderBound
    <3> QED BY <2>1, <3>1, <3>2
  <2> QED BY <2>2 DEF Followed
<1> QED BY <1>1, <1>2 DEF Followed

(* The number is followed, and is a word unless the last operation was one *)
(* of the two that can exceed words.                                       *)
SumInv == TypeOK /\ OnlySumsExceedWords

(* Each operation, whatever went before, leaves the number as it says.     *)
LEMMA SumStep ==
  ASSUME SumInv, [Next]_vars
  PROVE  SumInv'
<1>1. CASE UNCHANGED vars
  BY <1>1 DEF vars, SumInv, TypeOK, OnlySumsExceedWords, Followed, IntWord, H
<1>2. CASE DivByZero
  <2>1. num' = 0 /\ exact' \in BOOLEAN
    BY <1>2 DEF DivByZero
  <2>2. 0 \in IntWord
    BY Widths DEF IntWord
  <2> QED BY <2>1, <2>2 DEF SumInv, TypeOK, OnlySumsExceedWords, Followed
<1>3. ASSUME NEW c \in Followed, Add(c) \/ Sub(c) \/ Mul(c) \/ Div(c) \/ Rem(c)
      PROVE  SumInv'
  <2>1. /\ num \in Int /\ -(4 * Q) <= num /\ num <= 4 * Q
        /\ c \in Int /\ -(4 * Q) <= c /\ c <= 4 * Q
    BY FollowedBound DEF SumInv, TypeOK
  <2>2. Q \in Nat \ {0} /\ 4 * Q \in Nat /\ Q * Q \in Nat /\ Q <= Q * Q
    BY Widths, Reaches
  <2>3. exact' \in BOOLEAN
    BY <1>3 DEF Add, Sub, Mul, Div, Rem, SumInv, TypeOK
  <2>4. num' \in IntWord => SumInv'
    BY <2>3 DEF SumInv, TypeOK, OnlySumsExceedWords, Followed
  <2>5. CASE Add(c)
    <3>1. Abs(num + c) <= LARGEST /\ num' = Round(num + c) /\ did' = <<"+", c>>
      BY <2>5, Zenon DEF Add
    <3> DEFINE n == num + c
    <3>2. n \in Int /\ Abs(n) <= LARGEST /\ num' = Round(n)
      BY <2>1, <3>1
    <3> HIDE DEF n
    <3>3. num' \in (-LARGEST)..LARGEST
      BY <3>2, SumFollowed
    <3> QED BY <2>3, <3>1, <3>3 DEF SumInv, TypeOK, OnlySumsExceedWords, Followed
  <2>6. CASE Sub(c)
    <3>1. num' = NumToBit(Round(num - c))
      BY <2>6 DEF Sub
    <3>2. num - c \in Int /\ -(16 * (Q * Q)) <= num - c /\ num - c <= 16 * (Q * Q)
      BY <2>1, <2>2
    <3>3. num' \in IntWord
      BY <3>1, <3>2, ConvertedIsWord
    <3> QED BY <2>4, <3>3
  <2>7. CASE Mul(c)
    <3>1. num' = NumToBit(Round(num * c))
      BY <2>7 DEF Mul
    <3> DEFINE v == num * c
               u == (4 * Q) * (4 * Q)
    <3>2. v \in Int /\ -u <= v /\ v <= u
      BY <2>1, <2>2, ProductBound
    <3>3. u = 16 * (Q * Q)
      BY <2>2
    <3> HIDE DEF u, v
    <3>4. NumToBit(Round(v)) \in IntWord
      <4>1. -(16 * (Q * Q)) <= v /\ v <= 16 * (Q * Q)
        BY <3>2, <3>3
      <4> QED BY <3>2, <4>1, ConvertedIsWord
    <3> QED BY <2>4, <3>1, <3>4 DEF v
  <2>8. CASE Div(c)
    <3> DEFINE d == FloorDiv(num, c)
    <3>1. num' = NumToBit(d) /\ c # 0
      BY <2>8 DEF Div
    <3>2. d \in Int /\ -(4 * Q) <= d /\ d <= 4 * Q
      BY <2>1, <2>2, <3>1, FloorDivBound
    <3> HIDE DEF d
    <3>3. -(32 * (Q * Q)) <= d /\ d <= 32 * (Q * Q)
      BY <2>2, <3>2
    <3>4. num' \in IntWord
      BY <3>1, <3>2, <3>3, NumToBitIsWord
    <3> QED BY <2>4, <3>4
  <2>9. CASE Rem(c)
    <3>1. c # 0 /\ num' = Modulo(num, c) /\ did' = <<"%", c>>
      BY <2>9 DEF Rem
    <3>2. num' \in Followed
      BY <2>1, <3>1, RemainderFollowed
    <3>3. c \in IntWord => num' \in IntWord
      BY <2>1, <3>1, RemainderIsWord
    <3>4. did'[1] = "%" /\ did'[2] = c
      BY <3>1
    <3>5. CASE c \in IntWord
      BY <2>4, <3>3, <3>5
    <3>6. CASE c \notin IntWord
      <4>1. OnlySumsExceedWords'
        BY <3>4, <3>6 DEF OnlySumsExceedWords, IntWord, H
      <4> QED BY <2>3, <3>2, <4>1 DEF SumInv, TypeOK, Followed, IntWord, H
    <3> QED BY <3>5, <3>6
  <2> QED BY <1>3, <2>5, <2>6, <2>7, <2>8, <2>9
<1> QED BY <1>1, <1>2, <1>3 DEF Next

(* For every width and every chain of operations, also after a number was  *)
(* lost: a number larger than a word is a sum, or a remainder by a number  *)
(* that was larger than a word.                                            *)
THEOREM LargerThanWordsOnlySums == Spec => []OnlySumsExceedWords
<1>1. Init => SumInv
  BY DEF Init, SumInv, TypeOK, OnlySumsExceedWords, Followed
<1>2. SumInv /\ [Next]_vars => SumInv'
  BY SumStep
<1>3. SumInv => OnlySumsExceedWords
  BY DEF SumInv
<1> QED BY <1>1, <1>2, <1>3, PTL DEF Spec

=============================================================================
