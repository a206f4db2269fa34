--------------------------- MODULE GenerateProofs ---------------------------
(***************************************************************************)
(* Proofs about the generator, for every set of programs and every         *)
(* MAX_DEPTH: its variables keep their types, and the assertion of         *)
(* generate_free_term can fail only on the last argument of a call.        *)
(*                                                                         *)
(* The argument.  When the annotation is over, a term whose kind folds the *)
(* marks of its subterms binds if one of them does, and the statements     *)
(* bind (Marked).  From then on the marks do not change, and every         *)
(* expression the generator still has to write is one that does not bind,  *)
(* or the last argument of a call (SafeTask): an arm of generate_free_term *)
(* hands on subterms of a term that does not bind, an arm of generate_term *)
(* looks at the mark first, and the scan for last_binds leaves arguments   *)
(* that do not bind and the last one.                                      *)
(***************************************************************************)
EXTENDS Generate, WellFoundedInduction, SequenceTheorems, TLAPS

-----------------------------------------------------------------------------
(* Programs.                                                               *)

(* A subterm of a term is a term of the program, and precedes it.          *)
LEMMA KidIsTerm ==
  ASSUME NEW p, WellFormed(p), NEW n \in Terms(p), NEW k \in KidSlots(p, n)
  PROVE  /\ Kid(p, n, k) \in 1..(n-1)
         /\ Kid(p, n, k) \in Terms(p)
BY DEF WellFormed, Terms, KidSlots, Kid

(* Which subterms a term has, by kind.                                     *)
LEMMA Slots ==
  ASSUME NEW p, WellFormed(p), NEW n \in Terms(p)
  PROVE  /\ Len(p[n].back) \in Nat
         /\ p[n].kind \in {"Function", "Print", "First", "Second"}
              => KidSlots(p, n) = {1}
         /\ p[n].kind \in {"Binary", "Let", "Tuple"} => KidSlots(p, n) = {1, 2}
         /\ p[n].kind = "If" => KidSlots(p, n) = {1, 2, 3}
         /\ p[n].kind = "Call" => 1 \in KidSlots(p, n)
<1>1. /\ p[n].back \in Seq(1..(n-1)) /\ ArityOk(p[n].kind, Len(p[n].back))
  BY DEF WellFormed
<1>2. Len(p[n].back) \in Nat
  BY <1>1
<1> DEFINE kind == p[n].kind
           arity == Len(p[n].back)
<1>3. KidSlots(p, n) = 1..arity
  BY DEF KidSlots
<1>4. ArityOk(kind, arity) /\ arity \in Nat
  BY <1>1, <1>2
<1> HIDE DEF kind, arity
<1>5. /\ kind \in {"Function", "Print", "First", "Second"} => arity = 1
      /\ kind \in {"Binary", "Let", "Tuple"} => arity = 2
      /\ kind = "If" => arity = 3
      /\ kind = "Call" => arity >= 1
  BY <1>4 DEF ArityOk, LeafKind
<1>6. /\ kind \in {"Function", "Print", "First", "Second"} => 1..arity = {1}
      /\ kind \in {"Binary", "Let", "Tuple"} => 1..arity = {1, 2}
      /\ kind = "If" => 1..arity = {1, 2, 3}
      /\ kind = "Call" => 1 \in 1..arity
  BY <1>4, <1>5
<1> QED BY <1>2, <1>3, <1>6 DEF kind

(* The arguments of a call are subterms of it.                             *)
LEMMA ArgumentsAreKids ==
  ASSUME NEW p, WellFormed(p), NEW n \in Terms(p), p[n].kind = "Call"
  PROVE  /\ Arguments(p, n) \in Seq(Terms(p))
         /\ Len(Arguments(p, n)) = Len(p[n].back) - 1
         /\ \A i \in 1..Len(Arguments(p, n)) :
              /\ i + 1 \in KidSlots(p, n)
              /\ Arguments(p, n)[i] = Kid(p, n, i + 1)
<1>1. Len(p[n].back) \in Nat \ {0}
  BY Slots DEF KidSlots
<1>2. \A i \in 1..(Len(p[n].back) - 1) : i + 1 \in KidSlots(p, n)
  BY <1>1 DEF KidSlots
<1>3. \A i \in 1..(Len(p[n].back) - 1) : Kid(p, n, i + 1) \in Terms(p)
  BY <1>2, KidIsTerm
<1> QED BY <1>1, <1>2, <1>3 DEF Arguments

-----------------------------------------------------------------------------
(* Sequences, tokens and texts.                                            *)

(* An element put in front of a sequence.                                  *)
LEMMA Prepend ==
  ASSUME NEW S, NEW s \in Seq(S), s # <<>>, NEW c \in Seq(S)
  PROVE  /\ c \o Tail(s) \in Seq(S)
         /\ Head(s) \in S
         /\ Tail(s) \in Seq(S)
OBVIOUS

(* The concatenation of two sequences over a set is one over that set.     *)
LEMMA Concat ==
  ASSUME NEW S, NEW s \in Seq(S), NEW t \in Seq(S)
  PROVE  s \o t \in Seq(S)
OBVIOUS

(* A sequence of one element.                                              *)
LEMMA SingletonType == ASSUME NEW S, NEW x \in S PROVE <<x>> \in Seq(S)
OBVIOUS

(* The first task of s is replaced by calls: where each task is then.      *)
LEMMA Replaced ==
  ASSUME NEW S, NEW s \in Seq(S), s # <<>>,
         NEW T, NEW calls \in Seq(T), NEW next, next = calls \o Tail(s)
  PROVE  /\ next \in Seq(S \cup T)
         /\ Len(calls) \in Nat /\ Len(s) \in Nat /\ Len(s) >= 1
         /\ Len(next) = Len(calls) + Len(s) - 1
         /\ \A i \in 1..Len(calls) : next[i] = calls[i]
         /\ \A i \in 2..Len(s) : next[i + Len(calls) - 1] = s[i]
         /\ Head(s) = s[1] /\ Head(s) \in S
<1> DEFINE t == Tail(s)
<1>1. /\ Len(s) \in Nat /\ Len(s) >= 1 /\ Len(calls) \in Nat
      /\ t \in Seq(S) /\ Len(t) = Len(s) - 1
      /\ \A i \in 1..Len(t) : t[i] = s[i + 1]
      /\ Head(s) = s[1] /\ Head(s) \in S
  OBVIOUS
<1>2. t \in Seq(S \cup T) /\ calls \in Seq(S \cup T)
  <2>1. \A i \in 1..Len(t) : t[i] \in S \cup T
    BY <1>1
  <2>2. \A i \in 1..Len(calls) : calls[i] \in S \cup T
    OBVIOUS
  <2> QED BY <1>1, <2>1, <2>2
<1> HIDE DEF t
<1>3. /\ next \in Seq(S \cup T)
      /\ Len(next) = Len(calls) + Len(t)
      /\ \A i \in 1..Len(calls) : next[i] = calls[i]
      /\ \A i \in 1..Len(t) : next[i + Len(calls)] = t[i]
  BY <1>2 DEF t
<1>4. ASSUME NEW i \in 2..Len(s) PROVE next[i + Len(calls) - 1] = s[i]
  <2>1. i - 1 \in 1..Len(t) /\ (i - 1) + Len(calls) = i + Len(calls) - 1
        /\ (i - 1) + 1 = i
    BY <1>1
  <2> QED BY <1>1, <1>3, <2>1
<1> QED BY <1>1, <1>3, <1>4

(* s is a sequence, whatever its elements are.                             *)
IsSeq(s) == s \in Seq({s[i] : i \in DOMAIN s})

(* A sequence over any set is a sequence over the set of its elements.     *)
LEMMA SeqIsSeq == ASSUME NEW S, NEW s \in Seq(S) PROVE IsSeq(s)
BY DEF IsSeq

(* One sequence after the other: where each element is then.               *)
LEMMA ConcatParts ==
  ASSUME NEW s, IsSeq(s), NEW t, IsSeq(t)
  PROVE  /\ IsSeq(s \o t)
         /\ Len(s) \in Nat /\ Len(t) \in Nat /\ Len(s \o t) = Len(s) + Len(t)
         /\ \A i \in 1..Len(s) : (s \o t)[i] = s[i]
         /\ \A i \in 1..Len(t) : (s \o t)[i + Len(s)] = t[i]
<1> DEFINE R == {s[i] : i \in DOMAIN s} \cup {t[i] : i \in DOMAIN t}
<1>1. s \in Seq(R) /\ t \in Seq(R)
  <2>1. s \in Seq({s[i] : i \in DOMAIN s}) /\ t \in Seq({t[i] : i \in DOMAIN t})
    BY DEF IsSeq
  <2>2. /\ Len(s) \in Nat /\ DOMAIN s = 1..Len(s)
        /\ Len(t) \in Nat /\ DOMAIN t = 1..Len(t)
    BY <2>1
  <2>3. (\A i \in 1..Len(s) : s[i] \in R) /\ (\A i \in 1..Len(t) : t[i] \in R)
    BY <2>2
  <2> HIDE DEF R
  <2> QED BY <2>1, <2>2, <2>3
<1> HIDE DEF R
<1>2. s \o t \in Seq(R)
  BY <1>1
<1>3. /\ Len(s) \in Nat /\ Len(t) \in Nat /\ Len(s \o t) = Len(s) + Len(t)
      /\ \A i \in 1..Len(s) : (s \o t)[i] = s[i]
      /\ \A i \in 1..Len(t) : (s \o t)[i + Len(s)] = t[i]
  BY <1>1
<1> QED BY <1>2, <1>3, SeqIsSeq

(* A run of reserved words is a text.                                      *)
LEMMA TextType ==
  ASSUME NEW words \in Seq(Word)
  PROVE  Text(words) \in Seq(Token)
BY DEF Text, Token, Sym

(* The name of a temporary (generate_binding) is a token.                  *)
LEMMA TempType == ASSUME NEW i \in Nat PROVE Temp(i) \in Token
BY DEF Temp, Token

(* The name of a variable of the source is a token.                        *)
LEMMA VarNameType == ASSUME NEW x \in Name PROVE VarName(x) \in Token
BY DEF VarName, Token

(* A reserved word is a token.                                             *)
LEMMA SymType == ASSUME NEW w \in Word PROVE Sym(w) \in Token
BY DEF Sym, Token

(* The bind of a term in tail position is a token.                         *)
LEMMA RetType == Ret \in Token
BY SymType DEF Ret, Word

(* The least element of a set of numbers is one of them.                   *)
LEMMA LeastIsMember ==
  ASSUME NEW S \in SUBSET Nat, S # {}
  PROVE  Least(S) \in S
<1> DEFINE Less == {p \in Nat \X Nat : p[1] < p[2]}
<1>1. IsWellFoundedOn(Less, Nat)
  BY NatLessThanWellFounded DEF OpToRel
<1> HIDE DEF Less
<1>2. PICK k \in S : \A j \in S : <<j, k>> \notin Less
  BY <1>1, WFMin
<1>3. ASSUME NEW j \in Nat, NEW i \in Nat, j < i
      PROVE  <<j, i>> \in Less
  BY <1>3 DEF Less
<1>4. \A j \in S : k <= j
  <2> TAKE j \in S
  <2>1. j \in Nat /\ k \in Nat
    OBVIOUS
  <2>2. ~ j < k
    BY <1>2, <1>3, <2>1
  <2> QED BY <2>1, <2>2
<1> QED BY <1>4 DEF Least

(* The constant texts of the generator.                                    *)
LEMMA ConstantTexts ==
  /\ Text(<<"PRELUDE", "do", "TEMPS", "local">>) \in Seq(Token)
  /\ Text(<<"end", "POSTLUDE">>) \in Seq(Token)
  /\ Text(<<"not", "not", "(">>) \in Seq(Token)
  /\ Text(<<"do", "return">>) \in Seq(Token)
  /\ Text(<<"__print", "(">>) \in Seq(Token)
  /\ Text(<<"(", "{">>) \in Seq(Token)
  /\ Text(<<"}", ")">>) \in Seq(Token)
  /\ Text(<<"(", ")">>) \in Seq(Token)
  /\ Text(<<"=", "(", "{">>) \in Seq(Token)
  /\ Text(<<"=", "{">>) \in Seq(Token)
  /\ Text(<<"=", "function", "(">>) \in Seq(Token)
  /\ Text(<<"function", "(">>) \in Seq(Token)
  /\ Text(<<"__sentinel", ")">>) \in Seq(Token)
<1>1. /\ <<"PRELUDE", "do", "TEMPS", "local">> \in Seq(Word)
      /\ <<"end", "POSTLUDE">> \in Seq(Word)
      /\ <<"not", "not", "(">> \in Seq(Word)
      /\ <<"do", "return">> \in Seq(Word)
      /\ <<"__print", "(">> \in Seq(Word)
      /\ <<"(", "{">> \in Seq(Word)
      /\ <<"}", ")">> \in Seq(Word)
      /\ <<"(", ")">> \in Seq(Word)
      /\ <<"=", "(", "{">> \in Seq(Word)
      /\ <<"=", "{">> \in Seq(Word)
      /\ <<"=", "function", "(">> \in Seq(Word)
      /\ <<"function", "(">> \in Seq(Word)
      /\ <<"__sentinel", ")">> \in Seq(Word)
  BY DEF Word
<1> QED BY <1>1, TextType

(* A single word is a text.                                                *)
LEMMA WordTexts == ASSUME NEW w \in Word PROVE Text(<<w>>) \in Seq(Token)
<1>1. <<w>> \in Seq(Word)
  OBVIOUS
<1> QED BY <1>1, TextType

(* What generate_bin_op writes around and between operands is text.        *)
LEMMA OperatorTexts ==
  ASSUME NEW op \in BinaryOp
  PROVE  /\ LuaOp(op) \in Word
         /\ FreeOpening(op) \in Seq(Token)
         /\ FreeClosing(op) \in Seq(Token)
         /\ Opening(op) \in Seq(Token)
         /\ Closing(op) \in Seq(Token)
<1>1. LuaOp(op) \in Word
  BY DEF LuaOp, BinaryOp, Word
<1>2. /\ <<"__to_bit", "(">> \in Seq(Word)
      /\ <<"__to_bit", "(", "__floor", "(">> \in Seq(Word)
      /\ <<"__to_bit", "(", "__floor", "(", "__floor", "(">> \in Seq(Word)
      /\ <<"not", "not", "(">> \in Seq(Word)
      /\ <<")">> \in Seq(Word)
      /\ <<")", ")">> \in Seq(Word)
      /\ <<")", ")", ")">> \in Seq(Word)
  BY DEF Word
<1>3. <<>> \in Seq(Token)
  OBVIOUS
<1>4. FreeOpening(op) \in Seq(Token)
  BY <1>2, <1>3, TextType DEF FreeOpening
<1>5. FreeClosing(op) \in Seq(Token)
  BY <1>2, <1>3, TextType DEF FreeClosing
<1>6. Opening(op) \in Seq(Token)
  BY <1>2, <1>3, TextType DEF Opening
<1>7. Closing(op) \in Seq(Token)
  BY <1>2, <1>3, TextType DEF Closing
<1> QED BY <1>1, <1>4, <1>5, <1>6, <1>7

(* The parameter list of a function literal is text, for any parameters.   *)
LEMMA ParameterTextType ==
  ASSUME NEW ps \in Seq(STRING)
  PROVE  /\ ParameterText(ps) \in Seq(Token)
         /\ Len(ParameterText(ps)) = 2 * Len(ps)
<1> DEFINE m == 2 * Len(ps)
           token(i) == IF i % 2 = 1 THEN VarName(ps[(i + 1) \div 2]) ELSE Sym(",")
<1>1. m \in Nat
  OBVIOUS
<1>2. ASSUME NEW i \in 1..m, i % 2 = 1
      PROVE  (i + 1) \div 2 \in 1..Len(ps)
  BY <1>1, <1>2
<1>3. ASSUME NEW i \in 1..m
      PROVE  token(i) \in Token
  <2>1. Sym(",") \in Token
    BY SymType DEF Word
  <2>2. CASE i % 2 = 1
    <3>1. ps[(i + 1) \div 2] \in STRING
      BY <1>2, <2>2
    <3> QED BY <3>1, <2>2, VarNameType DEF Name
  <2> QED BY <2>1, <2>2
<1>4. ParameterText(ps) = [i \in 1..m |-> token(i)]
  BY DEF ParameterText
<1> HIDE DEF m, token
<1>5. ParameterText(ps) \in Seq(Token) /\ Len(ParameterText(ps)) = m
  BY <1>1, <1>3, <1>4
<1> QED BY <1>5 DEF m

(* A list of consecutive temporaries passed as arguments is text.          *)
LEMMA TempArgumentsType ==
  ASSUME NEW first \in Nat, NEW count \in Nat
  PROVE  TempArguments(first, count) \in Seq(Token)
<1> DEFINE m == 2 * count
           token(i) == IF i % 2 = 1 THEN Temp(first + (i - 1) \div 2) ELSE Sym(",")
<1>1. m \in Nat
  OBVIOUS
<1>2. ASSUME NEW i \in 1..m
      PROVE  token(i) \in Token
  <2>1. Sym(",") \in Token
    BY SymType DEF Word
  <2>2. first + (i - 1) \div 2 \in Nat
    BY <1>1
  <2> QED BY <2>1, <2>2, TempType
<1>3. TempArguments(first, count) = [i \in 1..m |-> token(i)]
  BY DEF TempArguments
<1> HIDE DEF m, token
<1> QED BY <1>1, <1>2, <1>3

(* The parameter list of a function literal that is too deep is text.      *)
LEMMA PlainParametersType ==
  ASSUME NEW ps \in Seq(STRING)
  PROVE  PlainParameters(ps) \in Seq(Token)
<1>1. CASE ps = <<>>
  BY <1>1 DEF PlainParameters
<1>2. CASE ps # <<>>
  <2>1. Len(ps) \in Nat /\ Len(ps) >= 1
    BY <1>2
  <2>2. 2 * Len(ps) - 1 \in 1..Len(ParameterText(ps))
    BY <2>1, ParameterTextType
  <2>3. SubSeq(ParameterText(ps), 1, 2 * Len(ps) - 1) \in Seq(Token)
    BY <2>2, ParameterTextType
  <2> QED BY <1>2, <2>3 DEF PlainParameters
<1> QED BY <1>1, <1>2

(* The __assert lines at the start of a function literal are text.         *)
LEMMA ArityCheckType ==
  ASSUME NEW ps \in Seq(STRING)
  PROVE  ArityCheck(ps) \in Seq(Token)
<1>1. CASE ps = <<>>
  BY <1>1 DEF ArityCheck
<1>2. CASE ps # <<>>
  <2> DEFINE named == VarName(ps[Len(ps)])
  <2>1. named \in Token
    <3>1. ps[Len(ps)] \in STRING
      BY <1>2
    <3> QED BY <3>1, VarNameType DEF Name
  <2>2. <<named>> \in Seq(Token)
    BY <2>1, SingletonType
  <2>3. /\ <<"__assert", "(">> \in Seq(Word)
        /\ <<"~=", "nil", "and", "__sentinel", "==", "nil", ",",
             "'wrong argument count'", ")">> \in Seq(Word)
    BY DEF Word
  <2>4. /\ Text(<<"__assert", "(">>) \in Seq(Token)
        /\ Text(<<"~=", "nil", "and", "__sentinel", "==", "nil", ",",
                  "'wrong argument count'", ")">>) \in Seq(Token)
    BY <2>3, TextType
  <2> QED BY <1>2, <2>2, <2>4, Concat DEF ArityCheck
<1> QED BY <1>1, <1>2

(* What is written for a leaf is text: its payload has the type its kind   *)
(* asks for.                                                               *)
LEMMA LeafTextType ==
  ASSUME NEW t, PayloadOk(t), t.kind \in {"Int", "Str", "Bool", "Var"}
  PROVE  LeafText(t) \in Seq(Token)
<1>1. CASE t.kind = "Int"
  <2>1. t.value \in Int
    BY <1>1 DEF PayloadOk
  <2>2. <<"int", t.value>> \in Token
    BY <2>1 DEF Token
  <2>3. LeafText(t) = << <<"int", t.value>> >>
    BY <1>1 DEF LeafText
  <2> QED BY <2>2, <2>3, SingletonType
<1>2. CASE t.kind = "Str"
  <2>1. << <<"str", t.value>> >> \in Seq(Token)
    <3>1. t.value \in Name
      BY <1>2 DEF PayloadOk, Name
    <3>2. <<"str", t.value>> \in Token
      BY <3>1 DEF Token
    <3> QED BY <3>2, SingletonType
  <2>2. /\ <<"__new_str", "(">> \in Seq(Word)
        /\ <<")">> \in Seq(Word)
    BY DEF Word
  <2>3. /\ Text(<<"__new_str", "(">>) \in Seq(Token)
        /\ Text(<<")">>) \in Seq(Token)
    BY <2>2, TextType
  <2> QED BY <1>2, <2>1, <2>3, Concat DEF LeafText
<1>3. CASE t.kind = "Bool"
  <2>1. "true" \in Word /\ "false" \in Word
    BY DEF Word
  <2> QED BY <1>3, <2>1, WordTexts DEF LeafText
<1>4. CASE t.kind = "Var"
  <2>1. t.text \in Name
    BY <1>4 DEF PayloadOk, Name
  <2>2. LeafText(t) = << VarName(t.text) >>
    BY <1>4 DEF LeafText
  <2> QED BY <2>1, <2>2, VarNameType, SingletonType
<1> QED BY <1>1, <1>2, <1>3, <1>4

(* The end of a function literal is text.                                  *)
LEMMA FunctionEndType == FunctionEnd.text \in Seq(Token)
<1>1. "return" \in Word /\ "end" \in Word
  BY DEF Word
<1>2. <<Temp(0)>> \in Seq(Token)
  BY TempType, SingletonType
<1> QED BY <1>1, <1>2, WordTexts, Concat DEF FunctionEnd, Write

-----------------------------------------------------------------------------
(* The inductive invariant.                                                *)

(* n is the last argument of a call.                                       *)
IsLastArgument(n) ==
  \E c \in Terms(prog) : /\ prog[c].kind = "Call"
                         /\ Len(prog[c].back) > 1
                         /\ n = Kid(prog, c, Len(prog[c].back))

MayBeFree(n) == binds[n] => IsLastArgument(n)

(* The calls the generator may have pending.                               *)
SafeTask ==
  { t \in Task : /\ t.do = "free" => MayBeFree(t.n)
                 /\ t.do = "frees" => \A x \in DOMAIN t.ns : MayBeFree(t.ns[x]) }

(* anotate has returned from n.                                            *)
Marked(n) ==
  /\ prog[n].kind \in {"If", "Let"} => binds[n]
  /\ prog[n].kind \in Folding =>
       \A k \in KidSlots(prog, n) : binds[Kid(prog, n, k)] => binds[n]

Annotated ==
  /\ pass = "down" => slot = 1
  /\ pass = "up" =>
       /\ \A n \in 1..(at-1) : Marked(n)
       /\ prog[at].kind \in Folding =>
            \A k \in KidSlots(prog, at) :
              (k < slot /\ binds[Kid(prog, at, k)]) => binds[at]
  /\ pass = "annotated" => \A n \in Terms(prog) : Marked(n)

AnnotateTypeOK ==
  /\ prog \in Programs
  /\ last \in [Terms(prog) -> BOOLEAN]
  /\ binds \in [Terms(prog) -> BOOLEAN]
  /\ depth \in [Terms(prog) -> Nat]
  /\ pass \in {"down", "up", "annotated"}
  /\ at \in Terms(prog)
  /\ slot \in Nat \ {0}

Status == {"annotating", "generating", "done", "error", "panicked"}

Generating ==
  /\ todo \in Seq(SafeTask)
  /\ code \in Seq(Token)
  /\ status \in Status
  /\ status = "annotating" => todo = <<>> /\ code = <<>>
  /\ status # "annotating" => pass = "annotated"
  /\ status = "panicked" =>
       /\ todo # <<>>
       /\ Head(todo).do = "free"
       /\ binds[Head(todo).n]

Inv == AnnotateTypeOK /\ Annotated /\ Generating

(* What makes a pending call safe.                                         *)
LEMMA TermIsSafe ==
  ASSUME NEW n \in Terms(prog), NEW temps \in Nat, NEW bind \in Token
  PROVE  Term(n, temps, bind) \in SafeTask
BY DEF Term, SafeTask, Task

(* A pending generate_free_term call is safe if its term may be free: it   *)
(* does not bind, or it is the last argument of a call.                    *)
LEMMA FreeIsSafe ==
  ASSUME NEW n \in Terms(prog), MayBeFree(n)
  PROVE  Free(n) \in SafeTask
BY DEF Free, SafeTask, Task

(* A pending write! of a text is safe.                                     *)
LEMMA WriteIsSafe ==
  ASSUME NEW text \in Seq(Token)
  PROVE  Write(text) \in SafeTask
BY DEF Write, SafeTask, Task

(* A loop of generate_term calls over terms of the program is safe.        *)
LEMMA TermLoopIsSafe ==
  ASSUME NEW ns \in Seq(Terms(prog)), NEW temps \in Nat, NEW temp \in Nat
  PROVE  TermLoop(ns, temps, temp) \in SafeTask
BY DEF TermLoop, SafeTask, Task

(* A loop of generate_free_term calls over terms that may be free is       *)
(* safe.                                                                   *)
LEMMA FreeLoopIsSafe ==
  ASSUME NEW ns \in Seq(Terms(prog)), \A x \in DOMAIN ns : MayBeFree(ns[x])
  PROVE  FreeLoop(ns) \in SafeTask
BY DEF FreeLoop, SafeTask, Task

(* What is known of a pending call.                                        *)
LEMMA SafeTaskFields ==
  ASSUME NEW t \in SafeTask
  PROVE  /\ t \in Task
         /\ t.do = "term" => t.n \in Terms(prog) /\ t.temps \in Nat /\ t.bind \in Token
         /\ t.do = "free" => t.n \in Terms(prog) /\ MayBeFree(t.n)
         /\ t.do = "write" => t.text \in Seq(Token)
         /\ t.do = "terms" => /\ t.ns \in Seq(Terms(prog))
                              /\ t.temps \in Nat
                              /\ t.temp \in Nat
         /\ t.do = "frees" => /\ t.ns \in Seq(Terms(prog))
                              /\ \A x \in DOMAIN t.ns : MayBeFree(t.ns[x])
BY DEF SafeTask, Task

(* A step that enters an arm keeps the invariant if the calls of the arm   *)
(* are safe.                                                               *)
LEMMA EnterKeepsInv ==
  ASSUME Inv, status = "generating", todo # <<>>,
         NEW calls \in Seq(SafeTask), Enter(calls)
  PROVE  Inv'
<1>1. /\ UNCHANGED <<prog, last, binds, depth, pass, at, slot, code, status>>
      /\ todo' = calls \o Tail(todo)
  BY DEF Enter, annotateVars
<1>2. AnnotateTypeOK' /\ Annotated'
  BY <1>1 DEF Inv, AnnotateTypeOK, Annotated, Marked
<1>3. SafeTask' = SafeTask
  BY <1>1 DEF SafeTask, Task, MayBeFree, IsLastArgument
<1>4. todo' \in Seq(SafeTask)
  BY <1>1, Prepend DEF Inv, Generating
<1>5. Generating'
  BY <1>1, <1>3, <1>4 DEF Inv, Generating
<1> QED BY <1>2, <1>5 DEF Inv

(* The invariant keeps the program one of the given trees.                 *)
LEMMA InvProgram ==
  ASSUME Inv
  PROVE  WellFormed(prog) /\ Len(prog) \in Nat /\ Len(prog) >= 1
<1>1. WellFormed(prog)
  BY ProgramsAreTrees DEF Inv, AnnotateTypeOK
<1> QED BY <1>1 DEF WellFormed

(* The invariant holds at the start of gen_prog.                           *)
LEMMA InitInv == Init => Inv
<1> SUFFICES ASSUME Init PROVE Inv
  OBVIOUS
<1>1. WellFormed(prog)
  BY ProgramsAreTrees DEF Init, AnnotateInit
<1>2. Root(prog) \in Terms(prog)
  <2>1. Len(prog) \in Nat \ {0}
    BY <1>1 DEF WellFormed
  <2> QED BY <2>1 DEF Root, Terms
<1>3. AnnotateTypeOK
  BY <1>2 DEF Init, AnnotateInit, AnnotateTypeOK
<1>4. Annotated
  BY DEF Init, AnnotateInit, Annotated
<1>5. Generating
  BY DEF Init, AnnotateInit, Generating, Status
<1> QED BY <1>3, <1>4, <1>5 DEF Inv

-----------------------------------------------------------------------------
(* The annotation keeps the invariant.                                     *)

(* The mark last passed down by anotate keeps the marks right.             *)
LEMMA DescendKeepsAnnotated ==
  ASSUME Inv, Descend
  PROVE  AnnotateTypeOK' /\ Annotated'
<1>1. WellFormed(prog) /\ Len(prog) \in Nat /\ Len(prog) >= 1
  BY InvProgram
<1>2. slot = 1
  BY DEF Inv, Annotated, Descend
<1>3. last' \in [Terms(prog) -> BOOLEAN]
  <2> DEFINE mark(n) == IF n = at THEN last[at] /\ prog[at].kind # "Let"
                        ELSE IF n \in Kids(prog, at)
                             THEN \E k \in KidSlots(prog, at) :
                                    n = Kid(prog, at, k) /\ PassedLast(at, k)
                             ELSE last[n]
  <2>1. ASSUME NEW n \in Terms(prog) PROVE mark(n) \in BOOLEAN
    BY <2>1 DEF Inv, AnnotateTypeOK
  <2>2. last' = [n \in Terms(prog) |-> mark(n)]
    BY DEF Descend
  <2> HIDE DEF mark
  <2> QED BY <2>1, <2>2
<1>4. CASE at > 1
  <2>1. at' = at - 1 /\ pass' = "down"
    BY <1>4 DEF Descend
  <2>2. at' \in Terms(prog)
    BY <1>4, <2>1 DEF Inv, AnnotateTypeOK, Terms
  <2> QED BY <1>2, <1>3, <2>1, <2>2
          DEF Descend, Inv, AnnotateTypeOK, Annotated
<1>5. CASE ~ at > 1
  <2>1. at' = 1 /\ pass' = "up"
    BY <1>5 DEF Descend
  <2>2. at' \in Terms(prog)
    BY <1>1, <2>1 DEF Terms
  <2>3. AnnotateTypeOK'
    BY <1>3, <2>1, <2>2 DEF Descend, Inv, AnnotateTypeOK
  <2>4. Annotated'
    BY <1>2, <2>1 DEF Descend, Annotated, KidSlots
  <2> QED BY <2>3, <2>4
<1> QED BY <1>4, <1>5

(* Folding the marks of one more subterm into its parent's keeps the       *)
(* marks right.                                                            *)
LEMMA FoldKeepsAnnotated ==
  ASSUME Inv, FoldSubterm
  PROVE  AnnotateTypeOK' /\ Annotated'
<1> DEFINE c == Kid(prog, at, slot)
<1>1. /\ WellFormed(prog)
      /\ at \in Terms(prog)
      /\ slot \in KidSlots(prog, at)
      /\ slot \in Nat
  BY InvProgram DEF Inv, AnnotateTypeOK, FoldSubterm
<1>2. c \in Terms(prog) /\ c # at
  BY <1>1, KidIsTerm DEF Terms
<1>3. /\ binds' = [binds EXCEPT ![at] = binds[c] \/ binds[at]]
      /\ depth' = [depth EXCEPT ![at] = Larger(depth[at], depth[c] + 1)]
      /\ slot' = slot + 1
      /\ UNCHANGED <<prog, last, pass, at>>
  BY DEF FoldSubterm
<1>4. AnnotateTypeOK'
  <2>1. Larger(depth[at], depth[c] + 1) \in Nat
    BY <1>1, <1>2 DEF Inv, AnnotateTypeOK, Larger
  <2>2. depth' \in [Terms(prog) -> Nat]
    BY <1>1, <1>3, <2>1 DEF Inv, AnnotateTypeOK
  <2>3. binds' \in [Terms(prog) -> BOOLEAN]
    BY <1>1, <1>2, <1>3 DEF Inv, AnnotateTypeOK
  <2> QED BY <1>1, <1>3, <2>2, <2>3 DEF Inv, AnnotateTypeOK
<1>5. \A n \in Terms(prog) : n # at => binds'[n] = binds[n]
  BY <1>3 DEF Inv, AnnotateTypeOK
<1>6. binds'[at] = (binds[c] \/ binds[at])
  BY <1>1, <1>3 DEF Inv, AnnotateTypeOK
<1>7. \A n \in 1..(at-1) : Marked(n)'
  <2> SUFFICES ASSUME NEW n \in 1..(at-1) PROVE Marked(n)'
    OBVIOUS
  <2>1. n \in Terms(prog) /\ n # at /\ Marked(n)
    BY <1>1 DEF Terms, Inv, Annotated, FoldSubterm
  <2>2. \A k \in KidSlots(prog, n) :
          Kid(prog, n, k) \in Terms(prog) /\ Kid(prog, n, k) # at
    BY <1>1, <2>1, KidIsTerm DEF Terms
  <2> QED BY <1>3, <1>5, <2>1, <2>2 DEF Marked
<1>8. \A k \in KidSlots(prog, at) :
        (k < slot + 1 /\ binds'[Kid(prog, at, k)]) => binds'[at]
  <2> SUFFICES ASSUME NEW k \in KidSlots(prog, at), k < slot + 1,
                      binds'[Kid(prog, at, k)]
               PROVE  binds'[at]
    OBVIOUS
  <2>1. Kid(prog, at, k) \in Terms(prog) /\ Kid(prog, at, k) # at
    BY <1>1, KidIsTerm DEF Terms
  <2>2. k = slot \/ k < slot
    BY <1>1 DEF KidSlots
  <2> QED BY <1>5, <1>6, <2>1, <2>2 DEF Inv, Annotated, FoldSubterm
<1> QED BY <1>3, <1>4, <1>7, <1>8 DEF Annotated, FoldSubterm

(* The recursion returns from term m and goes on with the next one.        *)
LEMMA LeaveKeepsAnnotated ==
  ASSUME Inv, pass = "up", NEW m, m = at, LeaveTo(at + 1),
         UNCHANGED <<prog, last>>,
         binds' \in [Terms(prog) -> BOOLEAN],
         depth' \in [Terms(prog) -> Nat],
         \A n \in Terms(prog) : n # m => binds'[n] = binds[n],
         Marked(m)'
  PROVE  AnnotateTypeOK' /\ Annotated'
<1>1. /\ WellFormed(prog) /\ Len(prog) \in Nat /\ Len(prog) >= 1
      /\ m \in Terms(prog) /\ m \in Nat
  BY InvProgram DEF Inv, AnnotateTypeOK, Terms
<1>2. \A n \in 1..(m-1) : Marked(n)'
  <2> SUFFICES ASSUME NEW n \in 1..(m-1) PROVE Marked(n)'
    OBVIOUS
  <2>1. n \in Terms(prog) /\ n # m /\ Marked(n)
    BY <1>1 DEF Terms, Inv, Annotated
  <2>2. \A k \in KidSlots(prog, n) :
          Kid(prog, n, k) \in Terms(prog) /\ Kid(prog, n, k) # m
    BY <1>1, <2>1, KidIsTerm DEF Terms
  <2> QED BY <2>1, <2>2 DEF Marked
<1>3. \A n \in 1..m : Marked(n)'
  <2> SUFFICES ASSUME NEW n \in 1..m PROVE Marked(n)'
    OBVIOUS
  <2>1. n = m \/ n \in 1..(m-1)
    BY <1>1
  <2> QED BY <1>2, <2>1
<1>4. CASE m + 1 <= Len(prog)
  <2>1. at' = m + 1 /\ pass' = "up" /\ slot' = 1
    BY <1>4 DEF LeaveTo
  <2>2. at' \in Terms(prog) /\ at' - 1 = m
    BY <1>1, <1>4, <2>1 DEF Terms
  <2>3. AnnotateTypeOK'
    BY <2>1, <2>2 DEF Inv, AnnotateTypeOK
  <2>4. \A k \in KidSlots(prog, at)' : ~ k < 1
    BY DEF KidSlots
  <2>5. Annotated'
    BY <1>3, <2>1, <2>2, <2>4 DEF Annotated
  <2> QED BY <2>3, <2>5
<1>5. CASE ~ m + 1 <= Len(prog)
  <2>1. at' = Root(prog) /\ pass' = "annotated" /\ slot' = 1
    BY <1>5 DEF LeaveTo
  <2>2. m = Len(prog)
    BY <1>1, <1>5 DEF Terms
  <2>3. AnnotateTypeOK'
    BY <1>1, <2>1 DEF Inv, AnnotateTypeOK, Root, Terms
  <2>4. \A n \in Terms(prog) : Marked(n)'
    BY <1>3, <2>2 DEF Terms
  <2>5. Annotated'
    BY <2>1, <2>4 DEF Annotated
  <2> QED BY <2>3, <2>5
<1> QED BY <1>4, <1>5

(* Each way anotate returns leaves the term with the marks its kind asks   *)
(* for.                                                                    *)
LEMMA ReturnKeepsAnnotated ==
  ASSUME Inv, ReturnFolded \/ ReturnLeaf \/ ReturnFunction \/ ReturnStatement
  PROVE  AnnotateTypeOK' /\ Annotated'
<1>1. /\ WellFormed(prog)
      /\ at \in Terms(prog)
      /\ binds \in [Terms(prog) -> BOOLEAN]
      /\ depth \in [Terms(prog) -> Nat]
      /\ slot \in Nat \ {0}
  BY InvProgram DEF Inv, AnnotateTypeOK
<1>2. PICK m : m = at
  OBVIOUS
<1>3. CASE ReturnFolded
  <2>1. /\ pass = "up" /\ LeaveTo(at + 1)
        /\ UNCHANGED <<prog, last, binds, depth>>
        /\ prog[m].kind \in Folding
        /\ slot \notin KidSlots(prog, m)
    BY <1>2, <1>3 DEF ReturnFolded
  <2>2. Len(prog[m].back) \in Nat
    BY <1>1, <1>2, Slots
  <2>3. \A k \in KidSlots(prog, m) : k < slot
    BY <1>1, <2>1, <2>2 DEF KidSlots
  <2>4. Marked(m)
    BY <1>2, <2>1, <2>3 DEF Marked, Folding, Inv, Annotated
  <2>5. Marked(m)'
    BY <2>1, <2>4 DEF Marked
  <2> QED BY <1>1, <1>2, <2>1, <2>5, LeaveKeepsAnnotated
<1>4. CASE ReturnLeaf
  <2>1. /\ pass = "up" /\ LeaveTo(at + 1)
        /\ UNCHANGED <<prog, last>>
        /\ prog[m].kind \in LeafKind
        /\ binds' = [binds EXCEPT ![m] = FALSE]
        /\ depth' = [depth EXCEPT ![m] = 0]
    BY <1>2, <1>4 DEF ReturnLeaf
  <2>2. Marked(m)'
    BY <2>1 DEF Marked, Folding, LeafKind
  <2> QED BY <1>1, <1>2, <2>1, <2>2, LeaveKeepsAnnotated
<1>5. CASE ReturnFunction
  <2>1. /\ pass = "up" /\ LeaveTo(at + 1)
        /\ UNCHANGED <<prog, last>>
        /\ prog[m].kind = "Function"
        /\ binds' = [binds EXCEPT ![m] = FALSE]
        /\ depth' = [depth EXCEPT ![m] = depth[Kid(prog, m, 1)]]
    BY <1>2, <1>5 DEF ReturnFunction
  <2>2. Marked(m)'
    BY <2>1 DEF Marked, Folding
  <2>3. Kid(prog, m, 1) \in Terms(prog)
    BY <1>1, <1>2, <2>1, Slots, KidIsTerm
  <2> QED BY <1>1, <1>2, <2>1, <2>2, <2>3, LeaveKeepsAnnotated
<1>6. CASE ReturnStatement
  <2>1. /\ pass = "up" /\ LeaveTo(at + 1)
        /\ UNCHANGED <<prog, last>>
        /\ prog[m].kind \in {"If", "Let"}
        /\ binds' = [binds EXCEPT ![m] = TRUE]
        /\ depth' = [depth EXCEPT ![m] = 0]
    BY <1>2, <1>6 DEF ReturnStatement
  <2>2. binds'[m] = TRUE
    BY <1>1, <1>2, <2>1
  <2>3. Marked(m)'
    BY <2>1, <2>2 DEF Marked, Folding
  <2> QED BY <1>1, <1>2, <2>1, <2>3, LeaveKeepsAnnotated
<1> QED BY <1>3, <1>4, <1>5, <1>6

(* A step of anotate keeps the invariant.                                  *)
LEMMA AnnotateKeepsInv ==
  ASSUME Inv, AnnotateStep
  PROVE  Inv'
<1>1. AnnotateTypeOK' /\ Annotated'
  BY DescendKeepsAnnotated, FoldKeepsAnnotated, ReturnKeepsAnnotated
     DEF AnnotateStep, AnnotateNext
<1>2. /\ status = "annotating" /\ status' = status
      /\ todo = <<>> /\ todo' = <<>>
      /\ code = <<>> /\ code' = <<>>
  BY DEF AnnotateStep, genVars, Inv, Generating
<1>3. Generating'
  BY <1>2 DEF Generating, Status
<1> QED BY <1>1, <1>3 DEF Inv

-----------------------------------------------------------------------------
(* Generating: what the arms rely on.                                      *)

(* While generating, the marks of the whole program are final and the      *)
(* first pending call is safe.                                             *)
LEMMA Pending ==
  ASSUME Inv, NEW what, Doing(what)
  PROVE  /\ WellFormed(prog)
         /\ status = "generating"
         /\ todo # <<>>
         /\ Head(todo) \in SafeTask
         /\ Head(todo).do = what
         /\ \A n \in Terms(prog) : Marked(n)
<1>1. /\ status = "generating" /\ todo # <<>> /\ Head(todo).do = what
      /\ todo \in Seq(SafeTask)
  BY DEF Doing, Inv, Generating
<1>2. \A n \in Terms(prog) : Marked(n)
  BY <1>1 DEF Inv, Generating, Annotated
<1> QED BY <1>1, <1>2, Prepend, InvProgram

(* A term that folds its subterms and does not bind has none that does.    *)
LEMMA KidsDoNotBind ==
  ASSUME \A n \in Terms(prog) : Marked(n),
         NEW n \in Terms(prog), ~binds[n], prog[n].kind \in Folding,
         NEW k \in KidSlots(prog, n)
  PROVE  MayBeFree(Kid(prog, n, k))
BY DEF Marked, MayBeFree

(* A term that may be free and is no last argument of a call does not      *)
(* bind.                                                                   *)
LEMMA FreeTermDoesNotBind ==
  ASSUME NEW n, ~binds[n] PROVE MayBeFree(n)
BY DEF MayBeFree

(* The data of a term is what its kind asks for.                           *)
LEMMA PayloadOfTerm ==
  ASSUME WellFormed(prog), NEW n \in Terms(prog)
  PROVE  PayloadOk(prog[n])
BY DEF WellFormed

(* Sequences of two to five elements, as the arms write them.              *)
LEMMA Sequences2to5 ==
  ASSUME NEW S, NEW a \in S, NEW b \in S
  PROVE  /\ <<a, b>> \in Seq(S)
         /\ \A c \in S : <<a, b, c>> \in Seq(S)
         /\ \A c, d \in S : <<a, b, c, d>> \in Seq(S)
         /\ \A c, d, e \in S : <<a, b, c, d, e>> \in Seq(S)
OBVIOUS

(* The elements of a suffix.                                               *)
LEMMA Suffix ==
  ASSUME NEW S, NEW s \in Seq(S), NEW b \in 0..Len(s)
  PROVE  /\ SubSeq(s, b + 1, Len(s)) \in Seq(S)
         /\ \A x \in DOMAIN SubSeq(s, b + 1, Len(s)) :
              /\ x + b \in (b+1)..Len(s)
              /\ SubSeq(s, b + 1, Len(s))[x] = s[x + b]
<1> DEFINE t == SubSeq(s, b + 1, Len(s))
           l == Len(s)
<1>1. l \in Nat /\ b \in Nat /\ b <= l
  OBVIOUS
<1>2. \A i \in (b+1)..l : s[i] \in S
  BY <1>1
<1>3. /\ t \in Seq(S)
      /\ Len(t) = IF b + 1 <= l THEN l - (b + 1) + 1 ELSE 0
      /\ \A i \in 1..(l - (b + 1) + 1) : t[i] = s[(b + 1) + i - 1]
  BY <1>1, <1>2, SubSeqProperties
<1>4. DOMAIN t = 1..Len(t)
  BY <1>3
<1> HIDE DEF t
<1>5. ASSUME NEW x \in DOMAIN t
      PROVE  x + b \in (b+1)..l /\ t[x] = s[x + b]
  BY <1>1, <1>3, <1>4
<1> QED BY <1>3, <1>5

(* The scan for last_binds: the arguments after it are free, or the last.  *)
LEMMA LastBindsSplits ==
  ASSUME WellFormed(prog), NEW n \in Terms(prog), prog[n].kind = "Call",
         NEW args, args = Arguments(prog, n), args # <<>>,
         NEW b, b = LastBinds(args)
  PROVE  /\ b \in 0..(Len(args) - 1)
         /\ SubSeq(args, 1, b) \in Seq(Terms(prog))
         /\ SubSeq(args, b + 1, Len(args)) \in Seq(Terms(prog))
         /\ \A x \in DOMAIN SubSeq(args, b + 1, Len(args)) :
              MayBeFree(SubSeq(args, b + 1, Len(args))[x])
<1>1. /\ args \in Seq(Terms(prog))
      /\ Len(args) = Len(prog[n].back) - 1
      /\ \A i \in 1..Len(args) : args[i] = Kid(prog, n, i + 1)
  BY ArgumentsAreKids
<1>2. Len(args) \in Nat /\ Len(args) >= 1
  BY <1>1
<1> DEFINE S == {Len(args) - 1} \cup
                {k \in 0..(Len(args) - 1) :
                   \A j \in (k+1)..Len(args) : ~binds[args[j]]}
<1>3. S \in SUBSET Nat /\ S # {}
  BY <1>2
<1>4. b \in S
  BY <1>3, LeastIsMember DEF LastBinds
<1>5. b \in 0..(Len(args) - 1)
  BY <1>2, <1>4
<1>6. \A i \in (b+1)..Len(args) : MayBeFree(args[i])
  <2> SUFFICES ASSUME NEW i \in (b+1)..Len(args) PROVE MayBeFree(args[i])
    OBVIOUS
  <2>1. CASE \A j \in (b+1)..Len(args) : ~binds[args[j]]
    BY <2>1 DEF MayBeFree
  <2>2. CASE b = Len(args) - 1
    <3>1. i = Len(args) /\ i + 1 = Len(prog[n].back) /\ Len(prog[n].back) > 1
      BY <1>1, <1>2, <2>2
    <3>2. args[i] = Kid(prog, n, Len(prog[n].back))
      BY <1>1, <1>2, <3>1
    <3> QED BY <3>1, <3>2 DEF MayBeFree, IsLastArgument
  <2> QED BY <1>4, <2>1, <2>2
<1>7. SubSeq(args, 1, b) \in Seq(Terms(prog))
  BY <1>1, <1>2, <1>5
<1>8. /\ SubSeq(args, b + 1, Len(args)) \in Seq(Terms(prog))
      /\ \A x \in DOMAIN SubSeq(args, b + 1, Len(args)) :
           /\ x + b \in (b+1)..Len(args)
           /\ SubSeq(args, b + 1, Len(args))[x] = args[x + b]
  <2>1. b \in 0..Len(args) /\ args \in Seq(Terms(prog))
    BY <1>1, <1>2, <1>5
  <2> QED BY ONLY <2>1, Suffix
<1> QED BY <1>5, <1>6, <1>7, <1>8

-----------------------------------------------------------------------------
(* The arms of generate_free_term.                                         *)

(* What a step of FreeArm starts from.                                     *)
LEMMA FreePending ==
  ASSUME Inv, NEW kinds, FreeArm(kinds), NEW n, n = Head(todo).n
  PROVE  /\ WellFormed(prog) /\ status = "generating" /\ todo # <<>>
         /\ n \in Terms(prog) /\ ~binds[n] /\ prog[n].kind \in kinds
         /\ PayloadOk(prog[n])
         /\ \A k \in KidSlots(prog, n) :
              /\ Kid(prog, n, k) \in Terms(prog)
              /\ prog[n].kind \in Folding => Free(Kid(prog, n, k)) \in SafeTask
<1>1. Doing("free") /\ ~binds[n] /\ prog[n].kind \in kinds
  BY DEF FreeArm
<1>2. /\ WellFormed(prog) /\ status = "generating" /\ todo # <<>>
      /\ n \in Terms(prog)
      /\ \A m \in Terms(prog) : Marked(m)
  BY <1>1, Pending, SafeTaskFields
<1> QED BY <1>1, <1>2, KidIsTerm, KidsDoNotBind, FreeIsSafe, PayloadOfTerm

(* generate_free_term of a leaf keeps the invariant.                       *)
LEMMA FreeLeafKeepsInv == ASSUME Inv, FreeLeaf PROVE Inv'
<1> DEFINE n == Head(todo).n
<1>1. /\ PayloadOk(prog[n]) /\ prog[n].kind \in {"Int", "Str", "Bool", "Var"}
      /\ status = "generating" /\ todo # <<>>
  BY FreePending DEF FreeLeaf
<1>2. <<Write(LeafText(prog[n]))>> \in Seq(SafeTask)
  BY <1>1, LeafTextType, WriteIsSafe, SingletonType
<1> QED BY <1>1, <1>2, EnterKeepsInv DEF FreeLeaf

(* generate_free_term of a call keeps the invariant: no subterm of it      *)
(* binds.                                                                  *)
LEMMA FreeCallKeepsInv == ASSUME Inv, FreeCall PROVE Inv'
<1> DEFINE n == Head(todo).n
           args == Arguments(prog, n)
<1>1. /\ WellFormed(prog) /\ n \in Terms(prog) /\ prog[n].kind = "Call"
      /\ status = "generating" /\ todo # <<>> /\ ~binds[n]
      /\ \A k \in KidSlots(prog, n) : Free(Kid(prog, n, k)) \in SafeTask
      /\ \A m \in Terms(prog) : Marked(m)
  BY FreePending, Pending DEF FreeCall, Folding, FreeArm
<1>2. Free(Kid(prog, n, 1)) \in SafeTask
  BY <1>1, Slots
<1>3. /\ args \in Seq(Terms(prog))
      /\ \A x \in DOMAIN args : MayBeFree(args[x])
  <2>1. /\ args \in Seq(Terms(prog))
        /\ \A x \in 1..Len(args) : /\ x + 1 \in KidSlots(prog, n)
                                   /\ args[x] = Kid(prog, n, x + 1)
    BY <1>1, ArgumentsAreKids
  <2>2. \A x \in 1..Len(args) : MayBeFree(Kid(prog, n, x + 1))
    BY <1>1, <2>1, KidsDoNotBind DEF Folding
  <2> QED BY <2>1, <2>2
<1>4. FreeLoop(args) \in SafeTask
  BY <1>3, FreeLoopIsSafe
<1>5. Write(Text(<<"(">>)) \in SafeTask /\ Write(Text(<<")">>)) \in SafeTask
  <2>1. "(" \in Word /\ ")" \in Word
    BY DEF Word
  <2> QED BY <2>1, WordTexts, WriteIsSafe
<1>6. <<Free(Kid(prog, n, 1)), Write(Text(<<"(">>)), FreeLoop(args),
        Write(Text(<<")">>))>> \in Seq(SafeTask)
  BY <1>2, <1>4, <1>5, Sequences2to5
<1> QED BY <1>1, <1>6, EnterKeepsInv DEF FreeCall

(* A run of words is a safe write.                                         *)
LEMMA WriteWord ==
  ASSUME NEW w \in Word PROVE Write(Text(<<w>>)) \in SafeTask
BY WordTexts, WriteIsSafe

(* The end of a function literal is a safe write.                          *)
LEMMA FunctionEndIsSafe == FunctionEnd \in SafeTask
<1>1. FunctionEnd = Write(FunctionEnd.text)
  BY DEF FunctionEnd, Write
<1> QED BY <1>1, FunctionEndType, WriteIsSafe

(* generate_free_term of a binary operator keeps the invariant.            *)
LEMMA FreeBinaryKeepsInv == ASSUME Inv, FreeBinary PROVE Inv'
<1> DEFINE n == Head(todo).n
           op == prog[n].op
<1>1. /\ WellFormed(prog) /\ n \in Terms(prog) /\ prog[n].kind = "Binary"
      /\ status = "generating" /\ todo # <<>> /\ PayloadOk(prog[n])
      /\ \A k \in KidSlots(prog, n) : Free(Kid(prog, n, k)) \in SafeTask
  BY FreePending DEF FreeBinary, Folding
<1>2. /\ Free(Kid(prog, n, 1)) \in SafeTask
      /\ Free(Kid(prog, n, 2)) \in SafeTask
  BY <1>1, Slots
<1>3. op \in BinaryOp
  BY <1>1 DEF PayloadOk
<1>4. /\ Write(FreeOpening(op)) \in SafeTask
      /\ Write(Text(<<LuaOp(op)>>)) \in SafeTask
      /\ Write(FreeClosing(op)) \in SafeTask
  BY <1>3, OperatorTexts, WriteWord, WriteIsSafe
<1>5. << Write(FreeOpening(op)), Free(Kid(prog, n, 1)),
         Write(Text(<<LuaOp(op)>>)), Free(Kid(prog, n, 2)),
         Write(FreeClosing(op)) >> \in Seq(SafeTask)
  BY <1>2, <1>4, Sequences2to5
<1> QED BY <1>1, <1>5, EnterKeepsInv DEF FreeBinary

(* generate_free_term of a function literal keeps the invariant: its       *)
(* body goes to generate_term, so it may bind.                             *)
LEMMA FreeFunctionKeepsInv == ASSUME Inv, FreeFunction PROVE Inv'
<1> DEFINE n == Head(todo).n
           ps == prog[n].parameters
           head == Text(<<"function", "(">>) \o ParameterText(ps)
                     \o Text(<<"__sentinel", ")">>) \o ArityCheck(ps)
<1>1. /\ WellFormed(prog) /\ n \in Terms(prog) /\ prog[n].kind = "Function"
      /\ status = "generating" /\ todo # <<>> /\ PayloadOk(prog[n])
      /\ \A k \in KidSlots(prog, n) : Kid(prog, n, k) \in Terms(prog)
  BY FreePending DEF FreeFunction
<1>2. Term(Kid(prog, n, 1), 1, Temp(0)) \in SafeTask
  BY <1>1, Slots, TempType, TermIsSafe
<1>3. ps \in Seq(STRING)
  BY <1>1 DEF PayloadOk
<1>4. head \in Seq(Token)
  BY <1>3, ParameterTextType, ArityCheckType, ConstantTexts, Concat
<1>5. Write(head) \in SafeTask
  BY <1>4, WriteIsSafe
<1>6. << Write(head), Term(Kid(prog, n, 1), 1, Temp(0)), FunctionEnd >>
        \in Seq(SafeTask)
  BY <1>2, <1>5, FunctionEndIsSafe, Sequences2to5
<1> QED BY <1>1, <1>6, EnterKeepsInv DEF FreeFunction

(* generate_free_term of a print keeps the invariant.                      *)
LEMMA FreePrintKeepsInv == ASSUME Inv, FreePrint PROVE Inv'
<1> DEFINE n == Head(todo).n
<1>1. /\ WellFormed(prog) /\ n \in Terms(prog) /\ prog[n].kind = "Print"
      /\ status = "generating" /\ todo # <<>>
      /\ \A k \in KidSlots(prog, n) : Free(Kid(prog, n, k)) \in SafeTask
  BY FreePending DEF FreePrint, Folding
<1>2. Free(Kid(prog, n, 1)) \in SafeTask
  BY <1>1, Slots
<1>3. ")" \in Word
  BY DEF Word
<1>4. << Write(Text(<<"__print", "(">>)), Free(Kid(prog, n, 1)),
         Write(Text(<<")">>)) >> \in Seq(SafeTask)
  BY <1>2, <1>3, ConstantTexts, WriteIsSafe, WriteWord, Sequences2to5
<1> QED BY <1>1, <1>4, EnterKeepsInv DEF FreePrint

(* generate_free_term of first and second keeps the invariant.             *)
LEMMA FreeProjectionKeepsInv == ASSUME Inv, FreeProjection PROVE Inv'
<1> DEFINE n == Head(todo).n
<1>1. /\ WellFormed(prog) /\ n \in Terms(prog)
      /\ prog[n].kind \in {"First", "Second"}
      /\ status = "generating" /\ todo # <<>>
      /\ \A k \in KidSlots(prog, n) : Free(Kid(prog, n, k)) \in SafeTask
  BY FreePending DEF FreeProjection, Folding
<1>2. Free(Kid(prog, n, 1)) \in SafeTask
  BY <1>1, Slots
<1>3. Selector(prog[n].kind) \in Word
  BY DEF Selector, Word
<1>4. << Free(Kid(prog, n, 1)), Write(Text(<<Selector(prog[n].kind)>>)) >>
        \in Seq(SafeTask)
  BY <1>2, <1>3, WriteWord, Sequences2to5
<1> QED BY <1>1, <1>4, EnterKeepsInv DEF FreeProjection

(* generate_free_term of a tuple keeps the invariant.                      *)
LEMMA FreeTupleKeepsInv == ASSUME Inv, FreeTuple PROVE Inv'
<1> DEFINE n == Head(todo).n
<1>1. /\ WellFormed(prog) /\ n \in Terms(prog) /\ prog[n].kind = "Tuple"
      /\ status = "generating" /\ todo # <<>>
      /\ \A k \in KidSlots(prog, n) : Free(Kid(prog, n, k)) \in SafeTask
  BY FreePending DEF FreeTuple, Folding
<1>2. /\ Free(Kid(prog, n, 1)) \in SafeTask
      /\ Free(Kid(prog, n, 2)) \in SafeTask
  BY <1>1, Slots
<1>3. "," \in Word
  BY DEF Word
<1>4. << Write(Text(<<"(", "{">>)), Free(Kid(prog, n, 1)), Write(Text(<<",">>)),
         Free(Kid(prog, n, 2)), Write(Text(<<"}", ")">>)) >> \in Seq(SafeTask)
  BY <1>2, <1>3, ConstantTexts, WriteIsSafe, WriteWord, Sequences2to5
<1> QED BY <1>1, <1>4, EnterKeepsInv DEF FreeTuple

(* A statement that reaches the assertion binds, as a marked If or Let.    *)
LEMMA FreeStopsKeepInv ==
  ASSUME Inv, FreePanics \/ FreeError
  PROVE  Inv'
<1>1. /\ UNCHANGED <<prog, last, binds, depth, pass, at, slot, todo, code>>
      /\ status' \in {"panicked", "error"}
      /\ Doing("free")
  BY DEF FreePanics, FreeError, annotateVars
<1>2. /\ todo # <<>> /\ Head(todo).do = "free" /\ status = "generating"
      /\ Head(todo).n \in Terms(prog)
      /\ \A n \in Terms(prog) : Marked(n)
  BY <1>1, Pending, SafeTaskFields
<1>3. status' = "panicked" => binds[Head(todo).n]
  BY <1>2 DEF FreePanics, FreeError, Marked
<1>4. AnnotateTypeOK' /\ Annotated'
  BY <1>1 DEF Inv, AnnotateTypeOK, Annotated, Marked
<1>5. SafeTask' = SafeTask
  BY <1>1 DEF SafeTask, Task, MayBeFree, IsLastArgument
<1>6. Generating'
  BY <1>1, <1>2, <1>3, <1>5 DEF Inv, Generating, Status
<1> QED BY <1>4, <1>6 DEF Inv

(* Every arm of generate_free_term keeps the invariant.                    *)
LEMMA FreeNextKeepsInv == ASSUME Inv, FreeNext PROVE Inv'
BY FreeStopsKeepInv, FreeLeafKeepsInv, FreeCallKeepsInv, FreeBinaryKeepsInv,
   FreeFunctionKeepsInv, FreePrintKeepsInv, FreeProjectionKeepsInv,
   FreeTupleKeepsInv DEF FreeNext

-----------------------------------------------------------------------------
(* The arms of generate_term.                                              *)

(* What a step of generate_term starts from.                               *)
LEMMA TermPending ==
  ASSUME Inv, Doing("term"), NEW h, h = Head(todo)
  PROVE  /\ WellFormed(prog) /\ status = "generating" /\ todo # <<>>
         /\ h.n \in Terms(prog) /\ h.temps \in Nat /\ h.bind \in Token
         /\ PayloadOk(prog[h.n])
         /\ \A k \in KidSlots(prog, h.n) : Kid(prog, h.n, k) \in Terms(prog)
<1>1. /\ WellFormed(prog) /\ status = "generating" /\ todo # <<>>
      /\ h.n \in Terms(prog) /\ h.temps \in Nat /\ h.bind \in Token
  BY Pending, SafeTaskFields
<1> QED BY <1>1, KidIsTerm, PayloadOfTerm

(* The texts that deliver a value.                                         *)
LEMMA DeliveryTexts ==
  ASSUME NEW n, NEW bind \in Token
  PROVE  /\ << bind, Sym("=") >> \in Seq(Token)
         /\ << bind >> \in Seq(Token)
         /\ Deliver(n, bind) \in Seq(Token)
<1>1. "=" \in Word /\ "return" \in Word
  BY DEF Word
<1>2. Sym("=") \in Token
  BY <1>1, SymType
<1>3. << bind, Sym("=") >> \in Seq(Token) /\ << bind >> \in Seq(Token)
  BY <1>2
<1> QED BY <1>1, <1>3, WordTexts DEF Deliver

(* generate_term of a term that is shallow and does not bind keeps the     *)
(* invariant: it may be written in place.                                  *)
LEMMA TermInPlaceKeepsInv == ASSUME Inv, TermInPlace PROVE Inv'
<1> DEFINE h == Head(todo)
<1>1. /\ Doing("term") /\ ~binds[h.n]
  BY DEF TermInPlace, InPlace
<1>2. /\ status = "generating" /\ todo # <<>>
      /\ h.n \in Terms(prog) /\ h.bind \in Token
  BY <1>1, TermPending
<1>3. Free(h.n) \in SafeTask
  BY <1>1, <1>2, FreeTermDoesNotBind, FreeIsSafe
<1>4. "end" \in Word
  BY DEF Word
<1>5. << Write(Text(<<"do", "return">>)), Free(h.n), Write(Text(<<"end">>)) >>
        \in Seq(SafeTask)
  BY <1>3, <1>4, ConstantTexts, WriteIsSafe, WriteWord, Sequences2to5
<1>6. << Write(<< h.bind, Sym("=") >>), Free(h.n) >> \in Seq(SafeTask)
  BY <1>2, <1>3, DeliveryTexts, WriteIsSafe, Sequences2to5
<1> QED BY <1>2, <1>5, <1>6, EnterKeepsInv DEF TermInPlace

(* The argument list of a call in statements: the first ones through the   *)
(* temporaries from first on, the others in place.                         *)
LEMMA CallArguments ==
  ASSUME WellFormed(prog), NEW n \in Terms(prog), prog[n].kind = "Call",
         NEW args, args = Arguments(prog, n), args # <<>>,
         NEW b, b = LastBinds(args), NEW first \in Nat
  PROVE  /\ TermLoop(SubSeq(args, 1, b), first + b, first) \in SafeTask
         /\ TempArguments(first, b) \in Seq(Token)
         /\ FreeLoop(SubSeq(args, b + 1, Len(args))) \in SafeTask
<1>1. args \in Seq(Terms(prog))
  BY ArgumentsAreKids
<1>2. /\ b \in 0..(Len(args) - 1)
      /\ SubSeq(args, 1, b) \in Seq(Terms(prog))
      /\ SubSeq(args, b + 1, Len(args)) \in Seq(Terms(prog))
      /\ \A x \in DOMAIN SubSeq(args, b + 1, Len(args)) :
              MayBeFree(SubSeq(args, b + 1, Len(args))[x])
  BY LastBindsSplits
<1>3. b \in Nat /\ first + b \in Nat
  BY <1>1, <1>2
<1> QED BY <1>2, <1>3, TermLoopIsSafe, FreeLoopIsSafe, TempArgumentsType

(* generate_term of a call with a binding callee keeps the invariant:      *)
(* the arguments written in place do not bind, or are the last.            *)
LEMMA TermCallBoundCalleeKeepsInv ==
  ASSUME Inv, TermCallBoundCallee
  PROVE  Inv'
<1> DEFINE h      == Head(todo)
           callee == Kid(prog, h.n, 1)
           args   == Arguments(prog, h.n)
           holder == Temp(h.temps + 1)
           temps  == h.temps + 2
           bound  == LastBinds(args)
           bare   == Deliver(h.n, h.bind) \o << holder >> \o Text(<<"(", ")">>)
           open   == Deliver(h.n, h.bind) \o << holder, Sym("(") >>
                       \o TempArguments(temps, bound)
           calls  == << Term(callee, h.temps + 1, holder) >> \o
                     IF args = <<>>
                     THEN << Write(bare) >>
                     ELSE << TermLoop(SubSeq(args, 1, bound), temps + bound, temps),
                             Write(open),
                             FreeLoop(SubSeq(args, bound + 1, Len(args))),
                             Write(Text(<<")">>)) >>
<1>1. Doing("term") /\ prog[h.n].kind = "Call" /\ Enter(calls)
  BY DEF TermCallBoundCallee, TermArm
<1>2. /\ WellFormed(prog) /\ status = "generating" /\ todo # <<>>
      /\ h.n \in Terms(prog) /\ h.temps \in Nat /\ h.bind \in Token
      /\ \A k \in KidSlots(prog, h.n) : Kid(prog, h.n, k) \in Terms(prog)
  BY <1>1, TermPending
<1>3. holder \in Token /\ temps \in Nat /\ h.temps + 1 \in Nat
  BY <1>2, TempType
<1>4. Term(callee, h.temps + 1, holder) \in SafeTask
  BY <1>1, <1>2, <1>3, Slots, TermIsSafe
<1>5. Deliver(h.n, h.bind) \in Seq(Token)
  BY <1>2, DeliveryTexts
<1>6. "(" \in Word /\ ")" \in Word
  BY DEF Word
<1>7. CASE args = <<>>
  <2>1. bare \in Seq(Token)
    BY <1>3, <1>5, ConstantTexts, SingletonType, Concat
  <2>2. Write(bare) \in SafeTask
    BY <2>1, WriteIsSafe
  <2>3. << Term(callee, h.temps + 1, holder) >> \o << Write(bare) >> \in Seq(SafeTask)
    BY <1>4, <2>2, SingletonType, Concat
  <2>4. calls \in Seq(SafeTask)
    BY <1>7, <2>3
  <2> HIDE DEF calls
  <2> QED BY <1>1, <1>2, <2>4, EnterKeepsInv
<1>8. CASE args # <<>>
  <2>1. /\ TermLoop(SubSeq(args, 1, bound), temps + bound, temps) \in SafeTask
        /\ TempArguments(temps, bound) \in Seq(Token)
        /\ FreeLoop(SubSeq(args, bound + 1, Len(args))) \in SafeTask
    BY <1>1, <1>2, <1>3, <1>8, CallArguments
  <2>2. << holder, Sym("(") >> \in Seq(Token)
    BY <1>3, <1>6, SymType
  <2>3. open \in Seq(Token)
    BY <1>5, <2>1, <2>2, Concat
  <2>4. Write(open) \in SafeTask
    BY <2>3, WriteIsSafe
  <2>5. << TermLoop(SubSeq(args, 1, bound), temps + bound, temps),
           Write(open),
           FreeLoop(SubSeq(args, bound + 1, Len(args))),
           Write(Text(<<")">>)) >> \in Seq(SafeTask)
    BY <1>6, <2>1, <2>4, WriteWord, Sequences2to5
  <2>6. calls \in Seq(SafeTask)
    BY <1>4, <1>8, <2>5, SingletonType, Concat
  <2> HIDE DEF calls
  <2> QED BY <1>1, <1>2, <2>6, EnterKeepsInv
<1> QED BY <1>7, <1>8

(* generate_term of a call with a free callee keeps the invariant, for     *)
(* the same reason.                                                        *)
LEMMA TermCallFreeCalleeKeepsInv ==
  ASSUME Inv, TermCallFreeCallee
  PROVE  Inv'
<1> DEFINE h      == Head(todo)
           callee == Kid(prog, h.n, 1)
           args   == Arguments(prog, h.n)
           bound  == LastBinds(args)
           open   == Text(<<"(">>) \o TempArguments(h.temps, bound)
           bare   == << Write(<< h.bind, Sym("=") >>), Free(callee),
                        Write(Text(<<"(", ")">>)) >>
           full   == << TermLoop(SubSeq(args, 1, bound), h.temps + bound, h.temps),
                        Write(<< h.bind, Sym("=") >>), Free(callee),
                        Write(open),
                        FreeLoop(SubSeq(args, bound + 1, Len(args))),
                        Write(Text(<<")">>)) >>
<1>1. /\ Doing("term") /\ prog[h.n].kind = "Call" /\ ~binds[callee]
      /\ Enter(IF args = <<>> THEN bare ELSE full)
  BY DEF TermCallFreeCallee, TermArm
<1>2. /\ WellFormed(prog) /\ status = "generating" /\ todo # <<>>
      /\ h.n \in Terms(prog) /\ h.temps \in Nat /\ h.bind \in Token
      /\ \A k \in KidSlots(prog, h.n) : Kid(prog, h.n, k) \in Terms(prog)
  BY <1>1, TermPending
<1>3. Free(callee) \in SafeTask
  BY <1>1, <1>2, Slots, FreeTermDoesNotBind, FreeIsSafe
<1>4. Write(<< h.bind, Sym("=") >>) \in SafeTask
  BY <1>2, DeliveryTexts, WriteIsSafe
<1>5. "(" \in Word /\ ")" \in Word
  BY DEF Word
<1>6. CASE args = <<>>
  <2>1. bare \in Seq(SafeTask)
    BY <1>3, <1>4, ConstantTexts, WriteIsSafe, Sequences2to5
  <2> HIDE DEF bare, full
  <2> QED BY <1>1, <1>2, <1>6, <2>1, EnterKeepsInv
<1>7. CASE args # <<>>
  <2>1. /\ TermLoop(SubSeq(args, 1, bound), h.temps + bound, h.temps) \in SafeTask
        /\ TempArguments(h.temps, bound) \in Seq(Token)
        /\ FreeLoop(SubSeq(args, bound + 1, Len(args))) \in SafeTask
    BY <1>1, <1>2, <1>7, CallArguments
  <2>2. open \in Seq(Token)
    BY <1>5, <2>1, WordTexts, Concat
  <2>3. Write(open) \in SafeTask
    BY <2>2, WriteIsSafe
  <2>4. Write(Text(<<")">>)) \in SafeTask
    BY <1>5, WriteWord
  <2>5. full \in Seq(SafeTask)
    BY <1>3, <1>4, <2>1, <2>3, <2>4
  <2> HIDE DEF bare, full
  <2> QED BY <1>1, <1>2, <1>7, <2>5, EnterKeepsInv
<1> QED BY <1>6, <1>7

(* The calls of a binary operator in statements.                           *)
LEMMA OperationIsSafe ==
  ASSUME WellFormed(prog), NEW h, h.n \in Terms(prog), h.temps \in Nat,
         h.bind \in Token, prog[h.n].kind = "Binary",
         NEW other \in Nat, NEW fresh \in Nat
  PROVE  Operation(h, other, fresh) \in Seq(SafeTask)
<1> DEFINE lhs   == Temp(h.temps)
           rhs   == Kid(prog, h.n, 2)
           op    == prog[h.n].op
           start == << h.bind, Sym("=") >> \o Opening(op) \o << lhs, Sym(LuaOp(op)) >>
           whole == << h.bind, Sym("=") >> \o Opening(op)
                      \o << lhs, Sym(LuaOp(op)), Temp(other) >> \o Closing(op)
<1>1. op \in BinaryOp
  BY PayloadOfTerm DEF PayloadOk
<1>2. Kid(prog, h.n, 1) \in Terms(prog) /\ rhs \in Terms(prog)
  BY Slots, KidIsTerm
<1>3. Opening(op) \in Seq(Token) /\ Closing(op) \in Seq(Token)
  BY <1>1, OperatorTexts
<1>4. << h.bind, Sym("=") >> \in Seq(Token)
  BY DeliveryTexts
<1>5. /\ << lhs, Sym(LuaOp(op)) >> \in Seq(Token)
      /\ << lhs, Sym(LuaOp(op)), Temp(other) >> \in Seq(Token)
  <2>1. lhs \in Token /\ Temp(other) \in Token /\ Sym(LuaOp(op)) \in Token
    BY <1>1, OperatorTexts, TempType, SymType
  <2> QED BY <2>1, Sequences2to5
<1>6. Write(start) \in SafeTask /\ Write(whole) \in SafeTask
  <2>1. start \in Seq(Token) /\ whole \in Seq(Token)
    BY <1>3, <1>4, <1>5, Concat
  <2> QED BY <2>1, WriteIsSafe
<1>7. Write(Closing(op)) \in SafeTask
  BY <1>3, WriteIsSafe
<1>8. << Term(Kid(prog, h.n, 1), h.temps + 1, lhs) >> \in Seq(SafeTask)
  <2>1. lhs \in Token /\ h.temps + 1 \in Nat
    BY TempType
  <2>2. Term(Kid(prog, h.n, 1), h.temps + 1, lhs) \in SafeTask
    BY <1>2, <2>1, TermIsSafe
  <2> QED BY <2>2, SingletonType
<1>9. CASE binds[rhs]
  <2>1. Term(rhs, fresh, Temp(other)) \in SafeTask
    BY <1>2, TempType, TermIsSafe
  <2>2. << Term(rhs, fresh, Temp(other)), Write(whole) >> \in Seq(SafeTask)
    BY <1>6, <2>1, Sequences2to5
  <2> QED BY <1>8, <1>9, <2>2, Concat DEF Operation
<1>10. CASE ~binds[rhs]
  <2>1. Free(rhs) \in SafeTask
    BY <1>2, <1>10, FreeTermDoesNotBind, FreeIsSafe
  <2>2. << Write(start), Free(rhs), Write(Closing(op)) >> \in Seq(SafeTask)
    BY <1>6, <1>7, <2>1, Sequences2to5
  <2> QED BY <1>8, <1>10, <2>2, Concat DEF Operation
<1> QED BY <1>9, <1>10

(* The three forms of generate_bin_op keep the invariant.                  *)
LEMMA TermBinaryKeepsInv ==
  ASSUME Inv, TermArithmetic \/ TermInfix \/ TermLogic
  PROVE  Inv'
<1> DEFINE h == Head(todo)
<1>1. Doing("term") /\ prog[h.n].kind = "Binary"
  BY DEF TermArithmetic, TermInfix, TermLogic, TermArm
<1>2. /\ WellFormed(prog) /\ status = "generating" /\ todo # <<>>
      /\ h.n \in Terms(prog) /\ h.temps \in Nat /\ h.bind \in Token
  BY <1>1, TermPending
<1>3. Operation(h, h.temps + 2, h.temps + 3) \in Seq(SafeTask)
  <2>1. h.temps + 2 \in Nat /\ h.temps + 3 \in Nat
    BY <1>2
  <2> QED BY <1>1, <1>2, <2>1, OperationIsSafe
<1>4. Infix(h) \in Seq(SafeTask)
  <2>1. h.temps + 1 \in Nat
    BY <1>2
  <2> QED BY <1>1, <1>2, <2>1, OperationIsSafe DEF Infix
<1>5. << Write(Text(<<"not", "not", "(">>)) >> \o Infix(h)
        \o << Write(Text(<<")">>)) >> \in Seq(SafeTask)
  <2>1. ")" \in Word
    BY DEF Word
  <2>2. /\ << Write(Text(<<"not", "not", "(">>)) >> \in Seq(SafeTask)
        /\ << Write(Text(<<")">>)) >> \in Seq(SafeTask)
    BY <2>1, ConstantTexts, WriteIsSafe, WriteWord, SingletonType
  <2> QED BY <1>4, <2>2, Concat
<1>6. CASE TermArithmetic
  BY <1>2, <1>3, <1>6, EnterKeepsInv DEF TermArithmetic
<1>7. CASE TermInfix
  BY <1>2, <1>4, <1>7, EnterKeepsInv DEF TermInfix
<1>8. CASE TermLogic
  BY <1>2, <1>5, <1>8, EnterKeepsInv DEF TermLogic
<1> QED BY <1>6, <1>7, <1>8

(* generate_term of a function literal keeps the invariant.                *)
LEMMA TermFunctionKeepsInv == ASSUME Inv, TermFunction PROVE Inv'
<1> DEFINE h    == Head(todo)
           head == << h.bind >> \o Text(<<"=", "function", "(">>)
                     \o PlainParameters(prog[h.n].parameters) \o Text(<<")">>)
<1>1. Doing("term") /\ prog[h.n].kind = "Function"
  BY DEF TermFunction, TermArm
<1>2. /\ WellFormed(prog) /\ status = "generating" /\ todo # <<>>
      /\ h.n \in Terms(prog) /\ h.bind \in Token
      /\ PayloadOk(prog[h.n])
      /\ \A k \in KidSlots(prog, h.n) : Kid(prog, h.n, k) \in Terms(prog)
  BY <1>1, TermPending
<1>3. Term(Kid(prog, h.n, 1), 1, Temp(0)) \in SafeTask
  BY <1>1, <1>2, Slots, TempType, TermIsSafe
<1>4. head \in Seq(Token)
  <2>1. ")" \in Word
    BY DEF Word
  <2>2. PlainParameters(prog[h.n].parameters) \in Seq(Token)
    BY <1>1, <1>2, PlainParametersType DEF PayloadOk
  <2>3. << h.bind >> \in Seq(Token) /\ Text(<<")">>) \in Seq(Token)
    BY <1>2, <2>1, DeliveryTexts, WordTexts
  <2> QED BY <2>2, <2>3, ConstantTexts, Concat
<1>5. Write(head) \in SafeTask
  BY <1>4, WriteIsSafe
<1>6. << Write(head), Term(Kid(prog, h.n, 1), 1, Temp(0)), FunctionEnd >>
        \in Seq(SafeTask)
  BY <1>3, <1>5, FunctionEndIsSafe, Sequences2to5
<1> QED BY <1>2, <1>6, EnterKeepsInv DEF TermFunction

(* generate_term of a let keeps the invariant.                             *)
LEMMA TermLetKeepsInv == ASSUME Inv, TermLet PROVE Inv'
<1> DEFINE h     == Head(todo)
           name  == VarName(prog[h.n].name)
           local == IF prog[h.n].name = "_" THEN <<>> ELSE << Sym("local"), name >>
<1>1. Doing("term") /\ prog[h.n].kind = "Let"
  BY DEF TermLet, TermArm
<1>2. /\ WellFormed(prog) /\ status = "generating" /\ todo # <<>>
      /\ h.n \in Terms(prog) /\ h.temps \in Nat /\ h.bind \in Token
      /\ PayloadOk(prog[h.n])
      /\ \A k \in KidSlots(prog, h.n) : Kid(prog, h.n, k) \in Terms(prog)
  BY <1>1, TermPending
<1>3. name \in Token /\ h.temps + 1 \in Nat
  <2>1. prog[h.n].name \in STRING
    BY <1>1, <1>2 DEF PayloadOk
  <2>2. name \in Token
    BY <2>1, VarNameType DEF Name
  <2> QED BY <1>2, <2>2
<1>4. /\ Term(Kid(prog, h.n, 1), h.temps + 1, name) \in SafeTask
      /\ Term(Kid(prog, h.n, 2), h.temps + 1, h.bind) \in SafeTask
  BY <1>1, <1>2, <1>3, Slots, TermIsSafe
<1>5. Write(local) \in SafeTask
  <2>1. "local" \in Word
    BY DEF Word
  <2>2. << Sym("local"), name >> \in Seq(Token)
    BY <1>3, <2>1, SymType, Sequences2to5
  <2>3. <<>> \in Seq(Token)
    OBVIOUS
  <2> QED BY <2>2, <2>3, WriteIsSafe
<1>6. << Write(local), Term(Kid(prog, h.n, 1), h.temps + 1, name),
         Term(Kid(prog, h.n, 2), h.temps + 1, h.bind) >> \in Seq(SafeTask)
  BY <1>4, <1>5, Sequences2to5
<1> QED BY <1>2, <1>6, EnterKeepsInv DEF TermLet

(* generate_term of an if keeps the invariant: a condition that binds      *)
(* goes through a temporary.                                               *)
LEMMA TermIfKeepsInv == ASSUME Inv, TermIf PROVE Inv'
<1> DEFINE h     == Head(todo)
           cond  == Kid(prog, h.n, 1)
           temps == IF binds[cond] THEN h.temps + 1 ELSE h.temps
           bound == << Term(cond, h.temps + 1, Temp(h.temps)),
                       Write(<< Sym("if"), Temp(h.temps), Sym("then") >>) >>
           free  == << Write(Text(<<"if">>)), Free(cond), Write(Text(<<"then">>)) >>
           rest  == << Term(Kid(prog, h.n, 2), temps, h.bind), Else,
                       Term(Kid(prog, h.n, 3), temps, h.bind),
                       Write(Text(<<"end">>)) >>
<1>1. /\ Doing("term") /\ prog[h.n].kind = "If"
      /\ Enter((IF binds[cond] THEN bound ELSE free) \o rest)
  BY DEF TermIf, TermArm
<1>2. /\ WellFormed(prog) /\ status = "generating" /\ todo # <<>>
      /\ h.n \in Terms(prog) /\ h.temps \in Nat /\ h.bind \in Token
      /\ \A k \in KidSlots(prog, h.n) : Kid(prog, h.n, k) \in Terms(prog)
  BY <1>1, TermPending
<1>3. /\ "if" \in Word /\ "then" \in Word /\ "else" \in Word /\ "end" \in Word
  BY DEF Word
<1>4. rest \in Seq(SafeTask)
  <2>1. temps \in Nat
    BY <1>2
  <2>2. /\ Term(Kid(prog, h.n, 2), temps, h.bind) \in SafeTask
        /\ Term(Kid(prog, h.n, 3), temps, h.bind) \in SafeTask
    BY <1>1, <1>2, <2>1, Slots, TermIsSafe
  <2>3. Else \in SafeTask
    BY <1>3, WriteWord DEF Else
  <2> QED BY <1>3, <2>2, <2>3, WriteWord, Sequences2to5
<1>5. CASE binds[cond]
  <2>1. Term(cond, h.temps + 1, Temp(h.temps)) \in SafeTask
    BY <1>1, <1>2, Slots, TempType, TermIsSafe
  <2>2. << Sym("if"), Temp(h.temps), Sym("then") >> \in Seq(Token)
    BY <1>2, <1>3, SymType, TempType
  <2>3. bound \in Seq(SafeTask)
    BY <2>1, <2>2, WriteIsSafe, Sequences2to5
  <2>4. bound \o rest \in Seq(SafeTask)
    BY <1>4, <2>3, Concat
  <2> HIDE DEF bound, rest, free
  <2> QED BY <1>1, <1>2, <1>5, <2>4, EnterKeepsInv
<1>6. CASE ~binds[cond]
  <2>1. Free(cond) \in SafeTask
    BY <1>1, <1>2, <1>6, Slots, FreeTermDoesNotBind, FreeIsSafe
  <2>2. free \in Seq(SafeTask)
    BY <1>3, <2>1, WriteWord, Sequences2to5
  <2>3. free \o rest \in Seq(SafeTask)
    BY <1>4, <2>2, Concat
  <2> HIDE DEF bound, rest, free
  <2> QED BY <1>1, <1>2, <1>6, <2>3, EnterKeepsInv
<1> QED BY <1>5, <1>6

(* The first subterm into the temporary temps: how Print, the projections  *)
(* and Tuple start.                                                        *)
LEMMA FirstIntoTemp ==
  ASSUME WellFormed(prog), NEW h, h.n \in Terms(prog), h.temps \in Nat,
         prog[h.n].kind \in {"Print", "First", "Second", "Tuple"}
  PROVE  /\ Term(Kid(prog, h.n, 1), h.temps + 1, Temp(h.temps)) \in SafeTask
         /\ Temp(h.temps) \in Token
<1>1. Kid(prog, h.n, 1) \in Terms(prog)
  BY Slots, KidIsTerm
<1> QED BY <1>1, TempType, TermIsSafe

(* generate_term of a print keeps the invariant.                           *)
LEMMA TermPrintKeepsInv == ASSUME Inv, TermPrint PROVE Inv'
<1> DEFINE h    == Head(todo)
           text == Text(<<"__print", "(">>) \o << Temp(h.temps) >> \o Text(<<")">>)
<1>1. Doing("term") /\ prog[h.n].kind = "Print"
  BY DEF TermPrint, TermArm
<1>2. /\ WellFormed(prog) /\ status = "generating" /\ todo # <<>>
      /\ h.n \in Terms(prog) /\ h.temps \in Nat
  BY <1>1, TermPending
<1>3. /\ Term(Kid(prog, h.n, 1), h.temps + 1, Temp(h.temps)) \in SafeTask
      /\ Temp(h.temps) \in Token
  BY <1>1, <1>2, FirstIntoTemp
<1>4. ")" \in Word
  BY DEF Word
<1>5. text \in Seq(Token)
  BY <1>3, <1>4, ConstantTexts, WordTexts, SingletonType, Concat
<1>6. << Term(Kid(prog, h.n, 1), h.temps + 1, Temp(h.temps)), Write(text) >>
        \in Seq(SafeTask)
  BY <1>3, <1>5, WriteIsSafe, Sequences2to5
<1> QED BY <1>2, <1>6, EnterKeepsInv DEF TermPrint

(* generate_term of first and second keeps the invariant.                  *)
LEMMA TermProjectionKeepsInv == ASSUME Inv, TermProjection PROVE Inv'
<1> DEFINE h    == Head(todo)
           text == << h.bind, Sym("="), Temp(h.temps),
                      Sym(Selector(prog[h.n].kind)) >>
<1>1. Doing("term") /\ prog[h.n].kind \in {"First", "Second"}
  BY DEF TermProjection, TermArm
<1>2. /\ WellFormed(prog) /\ status = "generating" /\ todo # <<>>
      /\ h.n \in Terms(prog) /\ h.temps \in Nat /\ h.bind \in Token
  BY <1>1, TermPending
<1>3. /\ Term(Kid(prog, h.n, 1), h.temps + 1, Temp(h.temps)) \in SafeTask
      /\ Temp(h.temps) \in Token
  BY <1>1, <1>2, FirstIntoTemp
<1>4. Selector(prog[h.n].kind) \in Word /\ "=" \in Word
  BY DEF Selector, Word
<1>5. text \in Seq(Token)
  BY <1>2, <1>3, <1>4, SymType, Sequences2to5
<1>6. << Term(Kid(prog, h.n, 1), h.temps + 1, Temp(h.temps)), Write(text) >>
        \in Seq(SafeTask)
  BY <1>3, <1>5, WriteIsSafe, Sequences2to5
<1> QED BY <1>2, <1>6, EnterKeepsInv DEF TermProjection

(* generate_term of a tuple keeps the invariant: only a second component   *)
(* that does not bind is written in place.                                 *)
LEMMA TermTupleKeepsInv == ASSUME Inv, TermTuple PROVE Inv'
<1> DEFINE h      == Head(todo)
           second == Kid(prog, h.n, 2)
           temp1  == Term(Kid(prog, h.n, 1), h.temps + 1, Temp(h.temps))
           whole  == << h.bind >> \o Text(<<"=", "(", "{">>)
                       \o << Temp(h.temps), Sym(","), Temp(h.temps + 1) >>
                       \o Text(<<"}", ")">>)
           start  == << h.bind >> \o Text(<<"=", "{">>) \o << Temp(h.temps), Sym(",") >>
           bound  == << Term(second, h.temps + 2, Temp(h.temps + 1)), Write(whole) >>
           free   == << Write(start), Free(second), Write(Text(<<"}">>)) >>
<1>1. /\ Doing("term") /\ prog[h.n].kind = "Tuple"
      /\ Enter(<< temp1 >> \o IF ~InPlace(second) THEN bound ELSE free)
  BY DEF TermTuple, TermArm
<1>2. /\ WellFormed(prog) /\ status = "generating" /\ todo # <<>>
      /\ h.n \in Terms(prog) /\ h.temps \in Nat /\ h.bind \in Token
      /\ second \in Terms(prog)
  BY <1>1, TermPending, Slots
<1>3. temp1 \in SafeTask /\ Temp(h.temps) \in Token /\ Temp(h.temps + 1) \in Token
  <2>1. h.temps + 1 \in Nat
    BY <1>2
  <2>2. Temp(h.temps + 1) \in Token
    BY <2>1, TempType
  <2>3. temp1 \in SafeTask /\ Temp(h.temps) \in Token
    BY <1>1, <1>2, FirstIntoTemp
  <2> QED BY <2>2, <2>3
<1>4. "," \in Word /\ "}" \in Word
  BY DEF Word
<1>5. /\ << Temp(h.temps), Sym(","), Temp(h.temps + 1) >> \in Seq(Token)
      /\ << Temp(h.temps), Sym(",") >> \in Seq(Token)
      /\ << h.bind >> \in Seq(Token)
  BY <1>2, <1>3, <1>4, SymType, Sequences2to5, SingletonType
<1>6. CASE InPlace(second)
  <2>1. Write(start) \in SafeTask
    BY <1>5, ConstantTexts, Concat, WriteIsSafe
  <2>2. Free(second) \in SafeTask
    BY <1>2, <1>6, FreeTermDoesNotBind, FreeIsSafe DEF InPlace
  <2>3. free \in Seq(SafeTask)
    BY <1>4, <2>1, <2>2, WriteWord, Sequences2to5
  <2>4. << temp1 >> \o free \in Seq(SafeTask)
    BY <1>3, <2>3, SingletonType, Concat
  <2> HIDE DEF temp1, free, bound
  <2> QED BY <1>1, <1>2, <1>6, <2>4, EnterKeepsInv
<1>7. CASE ~InPlace(second)
  <2>1. Write(whole) \in SafeTask
    BY <1>5, ConstantTexts, Concat, WriteIsSafe
  <2>2. Term(second, h.temps + 2, Temp(h.temps + 1)) \in SafeTask
    BY <1>2, <1>3, TermIsSafe
  <2>3. bound \in Seq(SafeTask)
    BY <2>1, <2>2, Sequences2to5
  <2>4. << temp1 >> \o bound \in Seq(SafeTask)
    BY <1>3, <2>3, SingletonType, Concat
  <2> HIDE DEF temp1, free, bound
  <2> QED BY <1>1, <1>2, <1>7, <2>4, EnterKeepsInv
<1> QED BY <1>6, <1>7

(* Every arm of generate_term keeps the invariant.                         *)
LEMMA TermNextKeepsInv == ASSUME Inv, TermNext PROVE Inv'
BY TermInPlaceKeepsInv, TermCallBoundCalleeKeepsInv, TermCallFreeCalleeKeepsInv,
   TermBinaryKeepsInv, TermFunctionKeepsInv, TermLetKeepsInv, TermIfKeepsInv,
   TermPrintKeepsInv, TermProjectionKeepsInv, TermTupleKeepsInv DEF TermNext

-----------------------------------------------------------------------------
(* The other steps.                                                        *)

(* A write! keeps the invariant.                                           *)
LEMMA WriteTextKeepsInv == ASSUME Inv, WriteText PROVE Inv'
<1>1. /\ UNCHANGED <<prog, last, binds, depth, pass, at, slot, status>>
      /\ todo' = Tail(todo) /\ code' = code \o Head(todo).text
      /\ Doing("write")
  BY DEF WriteText, annotateVars
<1>2. /\ todo # <<>> /\ status = "generating"
      /\ Head(todo).text \in Seq(Token)
  BY <1>1, Pending, SafeTaskFields
<1>3. AnnotateTypeOK' /\ Annotated'
  BY <1>1 DEF Inv, AnnotateTypeOK, Annotated, Marked
<1>4. SafeTask' = SafeTask
  BY <1>1 DEF SafeTask, Task, MayBeFree, IsLastArgument
<1>5. todo' \in Seq(SafeTask)
  <2>1. todo \in Seq(SafeTask)
    BY DEF Inv, Generating
  <2> QED BY <1>1, <1>2, <2>1
<1>6. code' \in Seq(Token)
  <2>1. code \in Seq(Token)
    BY DEF Inv, Generating
  <2> QED BY <1>1, <1>2, <2>1, Concat
<1>7. Generating'
  BY <1>1, <1>2, <1>4, <1>5, <1>6 DEF Inv, Generating, Status
<1> QED BY <1>3, <1>7 DEF Inv

(* The loop that compiles arguments to statements keeps the invariant.     *)
LEMMA NextTermKeepsInv == ASSUME Inv, NextTerm PROVE Inv'
<1> DEFINE h == Head(todo)
           more == << Term(Head(h.ns), h.temps, Temp(h.temp)),
                      TermLoop(Tail(h.ns), h.temps, h.temp + 1) >>
<1>1. Doing("terms") /\ Enter(IF h.ns = <<>> THEN <<>> ELSE more)
  BY DEF NextTerm
<1>2. /\ todo # <<>> /\ status = "generating"
      /\ h.ns \in Seq(Terms(prog)) /\ h.temps \in Nat /\ h.temp \in Nat
  BY <1>1, Pending, SafeTaskFields
<1>3. CASE h.ns = <<>>
  <2>1. <<>> \in Seq(SafeTask)
    OBVIOUS
  <2> HIDE DEF more
  <2> QED BY <1>1, <1>2, <1>3, <2>1, EnterKeepsInv
<1>4. CASE h.ns # <<>>
  <2>1. Head(h.ns) \in Terms(prog) /\ Tail(h.ns) \in Seq(Terms(prog))
    BY <1>2, <1>4
  <2>2. Temp(h.temp) \in Token /\ h.temp + 1 \in Nat
    BY <1>2, TempType
  <2>3. more \in Seq(SafeTask)
    BY <1>2, <2>1, <2>2, TermIsSafe, TermLoopIsSafe, Sequences2to5
  <2> HIDE DEF more
  <2> QED BY <1>1, <1>2, <1>4, <2>3, EnterKeepsInv
<1> QED BY <1>3, <1>4

(* The loop that writes arguments in place keeps the invariant.            *)
LEMMA NextFreeKeepsInv == ASSUME Inv, NextFree PROVE Inv'
<1> DEFINE h == Head(todo)
           one == << Free(Head(h.ns)) >>
           more == << Free(Head(h.ns)), Write(Text(<<",">>)), FreeLoop(Tail(h.ns)) >>
<1>1. /\ Doing("frees")
      /\ Enter(CASE Len(h.ns) = 0 -> <<>>
                 [] Len(h.ns) = 1 -> one
                 [] OTHER -> more)
  BY DEF NextFree
<1>2. /\ todo # <<>> /\ status = "generating"
      /\ h.ns \in Seq(Terms(prog))
      /\ \A x \in DOMAIN h.ns : MayBeFree(h.ns[x])
  BY <1>1, Pending, SafeTaskFields
<1>3. Len(h.ns) \in Nat
  BY <1>2
<1>4. CASE Len(h.ns) = 0
  <2>1. <<>> \in Seq(SafeTask)
    OBVIOUS
  <2>2. Len(h.ns) # 1
    BY <1>3, <1>4
  <2>3. Enter(<<>>)
    <3> HIDE DEF one, more, h
    <3> QED BY <1>1, <1>4, <2>2, Zenon
  <2> QED BY <1>2, <2>1, <2>3, EnterKeepsInv
<1>5. CASE Len(h.ns) # 0
  <2>1. Free(Head(h.ns)) \in SafeTask
    <3>1. /\ h.ns # <<>> /\ Head(h.ns) = h.ns[1] /\ 1 \in DOMAIN h.ns
          /\ h.ns[1] \in Terms(prog)
      BY <1>2, <1>3, <1>5
    <3> QED BY <1>2, <3>1, FreeIsSafe
  <2>2. FreeLoop(Tail(h.ns)) \in SafeTask
    <3>1. Tail(h.ns) \in Seq(Terms(prog))
      BY <1>2, <1>3, <1>5
    <3>2. \A x \in DOMAIN Tail(h.ns) : x + 1 \in DOMAIN h.ns /\ Tail(h.ns)[x] = h.ns[x + 1]
      BY <1>2, <1>3, <1>5
    <3> QED BY <1>2, <3>1, <3>2, FreeLoopIsSafe
  <2>3. Write(Text(<<",">>)) \in SafeTask
    <3>1. "," \in Word
      BY DEF Word
    <3> QED BY <3>1, WriteWord
  <2>4. one \in Seq(SafeTask) /\ more \in Seq(SafeTask)
    BY <2>1, <2>2, <2>3, SingletonType, Sequences2to5
  <2>5. CASE Len(h.ns) = 1
    <3>1. Enter(one)
      BY <1>1, <2>5
    <3> HIDE DEF one
    <3> QED BY <1>2, <2>4, <3>1, EnterKeepsInv
  <2>6. CASE Len(h.ns) # 1
    <3>1. Enter(more)
      BY <1>1, <1>5, <2>6
    <3> HIDE DEF more
    <3> QED BY <1>2, <2>4, <3>1, EnterKeepsInv
  <2> QED BY <2>5, <2>6
<1> QED BY <1>4, <1>5

(* The start of generation keeps the invariant: the marks are complete     *)
(* when anotate has returned.                                              *)
LEMMA BeginProgramKeepsInv == ASSUME Inv, BeginProgram PROVE Inv'
<1> DEFINE head == Text(<<"PRELUDE", "do", "TEMPS", "local">>) \o <<VarName("_")>>
           calls == << Write(head), Term(Root(prog), 0, Ret),
                       Write(Text(<<"end", "POSTLUDE">>)) >>
<1>1. /\ UNCHANGED <<prog, last, binds, depth, pass, at, slot, code>>
      /\ status' = "generating" /\ todo' = calls
      /\ pass = "annotated"
  BY DEF BeginProgram, annotateVars
<1>2. calls \in Seq(SafeTask)
  <2>1. Root(prog) \in Terms(prog)
    BY InvProgram DEF Root, Terms
  <2>2. Term(Root(prog), 0, Ret) \in SafeTask
    BY <2>1, RetType, TermIsSafe
  <2>3. head \in Seq(Token)
    <3>1. VarName("_") \in Token
      BY VarNameType DEF Name
    <3> QED BY <3>1, ConstantTexts, SingletonType, Concat
  <2> QED BY <2>2, <2>3, ConstantTexts, WriteIsSafe, Sequences2to5
<1>3. AnnotateTypeOK' /\ Annotated'
  BY <1>1 DEF Inv, AnnotateTypeOK, Annotated, Marked
<1> HIDE DEF calls
<1>4. SafeTask' = SafeTask
  BY <1>1 DEF SafeTask, Task, MayBeFree, IsLastArgument
<1>5. Generating'
  BY <1>1, <1>2, <1>4 DEF Inv, Generating, Status
<1> QED BY <1>3, <1>5 DEF Inv

(* The end of gen_prog keeps the invariant.                                *)
LEMMA FinishKeepsInv == ASSUME Inv, Finish PROVE Inv'
<1>1. /\ UNCHANGED <<prog, last, binds, depth, pass, at, slot, todo, code>>
      /\ status = "generating" /\ status' = "done"
  BY DEF Finish, annotateVars
<1>2. AnnotateTypeOK' /\ Annotated'
  BY <1>1 DEF Inv, AnnotateTypeOK, Annotated, Marked
<1>3. SafeTask' = SafeTask
  BY <1>1 DEF SafeTask, Task, MayBeFree, IsLastArgument
<1>4. Generating'
  BY <1>1, <1>3 DEF Inv, Generating, Status
<1> QED BY <1>2, <1>4 DEF Inv

(* A step that changes nothing keeps the invariant.                        *)
LEMMA StutterKeepsInv == ASSUME Inv, UNCHANGED vars PROVE Inv'
<1>1. UNCHANGED <<prog, last, binds, depth, pass, at, slot, todo, code, status>>
  BY DEF vars, annotateVars, genVars
<1>2. AnnotateTypeOK' /\ Annotated'
  BY <1>1 DEF Inv, AnnotateTypeOK, Annotated, Marked
<1>3. SafeTask' = SafeTask
  BY <1>1 DEF SafeTask, Task, MayBeFree, IsLastArgument
<1>4. Generating'
  BY <1>1, <1>3 DEF Inv, Generating
<1> QED BY <1>2, <1>4 DEF Inv

(* Every step keeps the inductive invariant.                               *)
LEMMA NextKeepsInv == Inv /\ [Next]_vars => Inv'
<1> SUFFICES ASSUME Inv, [Next]_vars PROVE Inv'
  OBVIOUS
<1>1. CASE AnnotateStep
  BY <1>1, AnnotateKeepsInv
<1>2. CASE BeginProgram
  BY <1>2, BeginProgramKeepsInv
<1>3. CASE WriteText
  BY <1>3, WriteTextKeepsInv
<1>4. CASE NextTerm
  BY <1>4, NextTermKeepsInv
<1>5. CASE NextFree
  BY <1>5, NextFreeKeepsInv
<1>6. CASE Finish
  BY <1>6, FinishKeepsInv
<1>7. CASE FreeNext
  BY <1>7, FreeNextKeepsInv
<1>8. CASE TermNext
  BY <1>8, TermNextKeepsInv
<1>9. CASE Terminated \/ UNCHANGED vars
  BY <1>9, StutterKeepsInv DEF Terminated
<1> QED BY <1>1, <1>2, <1>3, <1>4, <1>5, <1>6, <1>7, <1>8, <1>9 DEF Next

(* The inductive invariant holds in every state.                           *)
LEMMA InvAlways == Spec => []Inv
BY InitInv, NextKeepsInv, PTL DEF Spec

-----------------------------------------------------------------------------
(* The theorems.                                                           *)

(* The passes of the compiler keep their data well typed, whatever program *)
(* they are given and from whatever depth on they write statements: every  *)
(* mark belongs to a term, every pending call names a term of the program  *)
(* and every token written is one of Lua's.                                *)
THEOREM TypeCorrect == Spec => []TypeOK
<1>1. Inv => TypeOK
  <2> SUFFICES ASSUME Inv PROVE TypeOK
    OBVIOUS
  <2>1. SafeTask \in SUBSET Task
    BY DEF SafeTask
  <2>2. todo \in Seq(Task)
    <3>1. todo \in Seq(SafeTask)
      BY DEF Inv, Generating
    <3> QED BY <2>1, <3>1
  <2> QED BY <2>2 DEF Inv, AnnotateTypeOK, Generating, Status, TypeOK
<1> QED BY <1>1, InvAlways, PTL

(* When the assertion of generate_free_term stops the compiler, the term   *)
(* is the last argument of a call and binds: for every program, the marks  *)
(* of anotate keep statements out of all the other expression positions.   *)
THEOREM PanicsOnlyFromLastArgument == Spec => []PanicOnlyFromLastArgument
<1>1. Inv => PanicOnlyFromLastArgument
  <2> SUFFICES ASSUME Inv, status = "panicked"
               PROVE  \E c \in Terms(prog) :
                        /\ prog[c].kind = "Call"
                        /\ Len(prog[c].back) > 1
                        /\ Head(todo).n = Kid(prog, c, Len(prog[c].back))
                        /\ binds[Head(todo).n]
    BY DEF PanicOnlyFromLastArgument
  <2>1. /\ todo \in Seq(SafeTask) /\ todo # <<>>
        /\ Head(todo).do = "free" /\ binds[Head(todo).n]
    BY DEF Inv, Generating
  <2>2. Head(todo) \in SafeTask
    BY <2>1
  <2>3. MayBeFree(Head(todo).n)
    BY <2>1, <2>2, SafeTaskFields
  <2> QED BY <2>1, <2>3 DEF MayBeFree, IsLastArgument
<1> QED BY <1>1, InvAlways, PTL

=============================================================================
