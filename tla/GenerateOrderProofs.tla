------------------------ MODULE GenerateOrderProofs ------------------------
(***************************************************************************)
(* Proofs about the order in which the generator visits the terms, for     *)
(* every set of programs and every MAX_DEPTH: subterms are generated in    *)
(* source order, but for the callee of a call, whose place is among or     *)
(* behind its arguments.                                                   *)
(*                                                                         *)
(* The argument.  Terms that are pending at the same time are Apart: none  *)
(* is below another.  So when a call is replaced by calls for its          *)
(* subterms, none of these has a sibling that was pending before, and what *)
(* is left to show is that an arm calls for its own subterms in order, and *)
(* for none of them twice.                                                 *)
(***************************************************************************)
EXTENDS GenerateProofs

-----------------------------------------------------------------------------
(* The terms below a term.                                                 *)

KidClosed(N) ==
  \A m \in N : \A k \in KidSlots(prog, m) : Kid(prog, m, k) \in N

(* The term n, its subterms, theirs and so on: the least closed set.       *)
Below(n) ==
  { m \in Terms(prog) :
      \A N \in SUBSET Terms(prog) : (n \in N /\ KidClosed(N)) => m \in N }

(* A term is below itself, and so is what is below it closed.              *)
LEMMA BelowClosed ==
  ASSUME WellFormed(prog), NEW n \in Terms(prog)
  PROVE  n \in Below(n) /\ KidClosed(Below(n)) /\ Below(n) \in SUBSET Terms(prog)
<1>1. n \in Below(n) /\ Below(n) \in SUBSET Terms(prog)
  BY DEF Below
<1>2. ASSUME NEW m \in Below(n), NEW k \in KidSlots(prog, m)
      PROVE  Kid(prog, m, k) \in Below(n)
  <2> SUFFICES ASSUME NEW N \in SUBSET Terms(prog), n \in N, KidClosed(N)
               PROVE  Kid(prog, m, k) \in N
    BY <1>1, KidIsTerm DEF Below
  <2>1. m \in N
    BY DEF Below
  <2> QED BY <2>1 DEF KidClosed
<1> QED BY <1>1, <1>2 DEF KidClosed

(* What is below a subterm is below the term.                              *)
LEMMA BelowKid ==
  ASSUME WellFormed(prog), NEW n \in Terms(prog), NEW k \in KidSlots(prog, n)
  PROVE  Below(Kid(prog, n, k)) \subseteq Below(n)
<1>1. Kid(prog, n, k) \in Below(n) /\ KidClosed(Below(n)) /\ Below(n) \in SUBSET Terms(prog)
  BY BelowClosed DEF KidClosed
<1> HIDE DEF Below
<1>2. ASSUME NEW m \in Below(Kid(prog, n, k)) PROVE m \in Below(n)
  BY <1>1 DEF Below
<1> QED BY <1>2

(* A term below another is a subterm of a term below that one.             *)
LEMMA BelowInverted ==
  ASSUME WellFormed(prog), NEW n \in Terms(prog), NEW m \in Below(n), m # n
  PROVE  \E p \in Below(n) : \E k \in KidSlots(prog, p) : m = Kid(prog, p, k)
<1> DEFINE From(x) == \E p \in Below(n) : \E k \in KidSlots(prog, p) : x = Kid(prog, p, k)
           N == {x \in Below(n) : x = n \/ From(x)}
<1>1. n \in Below(n) /\ KidClosed(Below(n)) /\ Below(n) \in SUBSET Terms(prog)
  BY BelowClosed
<1>2. KidClosed(N)
  <2> SUFFICES ASSUME NEW p \in N, NEW k \in KidSlots(prog, p)
               PROVE  Kid(prog, p, k) \in N
    BY DEF KidClosed
  <2>1. Kid(prog, p, k) \in Below(n)
    BY <1>1 DEF KidClosed
  <2>2. From(Kid(prog, p, k))
    OBVIOUS
  <2> QED BY <2>1, <2>2
<1>3. n \in N /\ N \in SUBSET Terms(prog)
  BY <1>1
<1>4. m \in N
  <2> HIDE DEF N
  <2> QED BY <1>2, <1>3 DEF Below
<1> QED BY <1>4

(* The terms below a term come before it in the sequence.                  *)
LEMMA BelowEarlier ==
  ASSUME WellFormed(prog), NEW n \in Terms(prog), NEW m \in Below(n)
  PROVE  m \in Int /\ m <= n
<1> DEFINE N == 1..n
<1>1. N \in SUBSET Terms(prog) /\ n \in N
  BY DEF WellFormed, Terms
<1>2. KidClosed(N)
  <2> SUFFICES ASSUME NEW p \in N, NEW k \in KidSlots(prog, p)
               PROVE  Kid(prog, p, k) \in N
    BY DEF KidClosed
  <2>1. Kid(prog, p, k) \in 1..(p-1) /\ n \in Int
    BY <1>1, KidIsTerm DEF Terms
  <2> QED BY <2>1
<1>3. m \in N
  <2> HIDE DEF N
  <2> QED BY <1>1, <1>2 DEF Below
<1> QED BY <1>3

-----------------------------------------------------------------------------
(* Which terms may be pending one before the other.                        *)

Apart(a, b) == a \notin Below(b) /\ b \notin Below(a)

(* Subterm x of n may be generated before subterm y.                       *)
Earlier(n, x, y) == x < y \/ (prog[n].kind = "Call" /\ y = 1)

(* If a and b are subterms of one term, they are in order.                 *)
InSource(a, b) ==
  \A n \in Terms(prog) : \A x, y \in KidSlots(prog, n) :
    (a = Kid(prog, n, x) /\ b = Kid(prog, n, y)) => Earlier(n, x, y)

Before(a, b) == Apart(a, b) /\ InSource(a, b)

(* A subterm is in one place.                                              *)
LEMMA OneParent ==
  ASSUME WellFormed(prog), NEW m \in Terms(prog), NEW n \in Terms(prog),
         NEW j \in KidSlots(prog, m), NEW k \in KidSlots(prog, n),
         Kid(prog, m, j) = Kid(prog, n, k)
  PROVE  m = n /\ j = k
BY DEF WellFormed

(* A term below a subterm's sibling would have their parent above it.      *)
LEMMA KidNotBelow ==
  ASSUME WellFormed(prog), NEW n \in Terms(prog), NEW k \in KidSlots(prog, n),
         NEW b \in Terms(prog), Kid(prog, n, k) \in Below(b), Kid(prog, n, k) # b
  PROVE  n \in Below(b)
<1>1. PICK p \in Below(b) : \E j \in KidSlots(prog, p) : Kid(prog, n, k) = Kid(prog, p, j)
  BY BelowInverted
<1>2. p \in Terms(prog)
  BY BelowClosed
<1> QED BY <1>1, <1>2, OneParent

(* Two subterms of a term.                                                 *)
LEMMA KidsBefore ==
  ASSUME WellFormed(prog), NEW n \in Terms(prog),
         NEW x \in KidSlots(prog, n), NEW y \in KidSlots(prog, n),
         x # y, Earlier(n, x, y)
  PROVE  Before(Kid(prog, n, x), Kid(prog, n, y))
<1>1. /\ Kid(prog, n, x) \in 1..(n-1) /\ Kid(prog, n, y) \in 1..(n-1)
      /\ Kid(prog, n, x) \in Terms(prog) /\ Kid(prog, n, y) \in Terms(prog)
      /\ n \in Int
  BY KidIsTerm DEF Terms
<1>2. Kid(prog, n, x) # Kid(prog, n, y)
  BY OneParent
<1>3. n \notin Below(Kid(prog, n, x)) /\ n \notin Below(Kid(prog, n, y))
  <2>1. ~(n <= Kid(prog, n, x)) /\ ~(n <= Kid(prog, n, y))
    BY <1>1
  <2> QED BY <1>1, <2>1, BelowEarlier
<1>4. Apart(Kid(prog, n, x), Kid(prog, n, y))
  BY <1>1, <1>2, <1>3, KidNotBelow DEF Apart
<1>5. InSource(Kid(prog, n, x), Kid(prog, n, y))
  <2> SUFFICES ASSUME NEW m \in Terms(prog), NEW u \in KidSlots(prog, m),
                      NEW v \in KidSlots(prog, m),
                      Kid(prog, n, x) = Kid(prog, m, u), Kid(prog, n, y) = Kid(prog, m, v)
               PROVE  Earlier(m, u, v)
    BY DEF InSource
  <2>1. m = n /\ u = x /\ v = y
    BY OneParent
  <2> QED BY <2>1
<1> QED BY <1>4, <1>5 DEF Before

(* What was pending behind a term has no sibling among its subterms.       *)
LEMMA KidBefore ==
  ASSUME WellFormed(prog), NEW n \in Terms(prog), NEW k \in KidSlots(prog, n),
         NEW b \in Terms(prog), Before(n, b)
  PROVE  Before(Kid(prog, n, k), b)
<1> DEFINE a == Kid(prog, n, k)
<1>1. a \in Terms(prog) /\ a \in Below(n) /\ Below(a) \subseteq Below(n)
  BY KidIsTerm, BelowKid, BelowClosed DEF KidClosed
<1>2. n \notin Below(b) /\ b \notin Below(n)
  BY DEF Before, Apart
<1>3. a # b
  BY <1>1, <1>2
<1>4. Apart(a, b)
  BY <1>1, <1>2, <1>3, KidNotBelow DEF Apart
<1>5. InSource(a, b)
  <2> SUFFICES ASSUME NEW m \in Terms(prog), NEW x \in KidSlots(prog, m),
                      NEW y \in KidSlots(prog, m),
                      a = Kid(prog, m, x), b = Kid(prog, m, y)
               PROVE  FALSE
    BY DEF InSource
  <2>1. m = n
    BY OneParent
  <2>2. b \in Below(n)
    BY <2>1, BelowClosed DEF KidClosed
  <2> QED BY <1>2, <2>2
<1> QED BY <1>4, <1>5 DEF Before

-----------------------------------------------------------------------------
(* The invariant.                                                          *)

Ahead(s, t) == \A a \in TermsOf(s) : \A b \in TermsOf(t) : Before(a, b)

InOrder(s) == \A i, j \in DOMAIN s : i < j => Ahead(s[i], s[j])

(* The terms of a loop are in order.                                       *)
LoopInOrder(t) ==
  t.do \in {"terms", "frees"} =>
    \A x, y \in DOMAIN t.ns : x < y => Before(t.ns[x], t.ns[y])

OrderInv == InOrder(todo) /\ \A i \in DOMAIN todo : LoopInOrder(todo[i])

(* A task that is for n, or for subterms of n.                             *)
Within(t, h) ==
  /\ LoopInOrder(t)
  /\ \A a \in TermsOf(t) :
       \/ a \in TermsOf(h)
       \/ \E n \in TermsOf(h) : \E k \in KidSlots(prog, n) : a = Kid(prog, n, k)

(* What calls may take the place of the task h.                            *)
OrderCalls(h, calls) ==
  /\ IsSeq(calls)
  /\ InOrder(calls)
  /\ \A i \in 1..Len(calls) : Within(calls[i], h)

(* The terms of a pending call are terms of the program.                   *)
LEMMA TermsOfTask ==
  ASSUME NEW t \in SafeTask
  PROVE  TermsOf(t) \subseteq Terms(prog)
<1>1. /\ t.do \in {"term", "free"} => t.n \in Terms(prog)
      /\ t.do \in {"terms", "frees"} => t.ns \in Seq(Terms(prog))
  BY SafeTaskFields
<1> QED BY <1>1 DEF TermsOf

(* Which terms may be pending one before the other does not change.        *)
LEMMA OrderOfNext ==
  ASSUME prog' = prog, InOrder(todo'), \A i \in DOMAIN todo' : LoopInOrder(todo'[i])
  PROVE  OrderInv'
<1>1. \A a, b : Before(a, b)' <=> Before(a, b)
  BY DEF Before, Apart, InSource, Below, KidClosed, Earlier, Terms, KidSlots, Kid
<1>2. PICK s : s = todo'
  OBVIOUS
<1>3. \A i \in DOMAIN s : LoopInOrder(s[i])'
  <2> SUFFICES ASSUME NEW i \in DOMAIN s PROVE LoopInOrder(s[i])'
    OBVIOUS
  <2>1. LoopInOrder(s[i])
    BY <1>2
  <2> QED BY <1>1, <2>1 DEF LoopInOrder
<1>4. ASSUME NEW i \in DOMAIN s, NEW j \in DOMAIN s, i < j
      PROVE  Ahead(s[i], s[j])'
  <2>1. Ahead(s[i], s[j])
    BY <1>2, <1>4 DEF InOrder
  <2>2. TermsOf(s[i])' = TermsOf(s[i]) /\ TermsOf(s[j])' = TermsOf(s[j])
    OBVIOUS
  <2> QED BY <1>1, <2>1, <2>2 DEF Ahead
<1>5. InOrder(s)'
  BY <1>4 DEF InOrder
<1> QED BY <1>2, <1>3, <1>5 DEF OrderInv, InOrder

(* Such calls keep the invariant.                                          *)
LEMMA EnterKeepsOrder ==
  ASSUME Inv, OrderInv, todo # <<>>, NEW calls, OrderCalls(Head(todo), calls),
         prog' = prog, todo' = calls \o Tail(todo)
  PROVE  OrderInv'
<1> DEFINE T == {calls[i] : i \in DOMAIN calls}
           k == Len(calls)
           next == calls \o Tail(todo)
<1>1. calls \in Seq(T) /\ todo \in Seq(SafeTask) /\ WellFormed(prog)
  BY InvProgram DEF OrderCalls, IsSeq, Inv, Generating
<1> HIDE DEF T
<1>2. /\ next \in Seq(SafeTask \cup T)
      /\ k \in Nat /\ Len(todo) \in Nat /\ Len(todo) >= 1
      /\ Len(next) = k + Len(todo) - 1
      /\ \A i \in 1..k : next[i] = calls[i]
      /\ \A i \in 2..Len(todo) : next[i + k - 1] = todo[i]
      /\ Head(todo) = todo[1] /\ Head(todo) \in SafeTask
  BY <1>1, Replaced
<1>3. DOMAIN next = 1..Len(next) /\ DOMAIN calls = 1..k /\ DOMAIN todo = 1..Len(todo)
  BY <1>1, <1>2
<1> HIDE DEF next
<1>4. ASSUME NEW i \in 1..Len(next)
      PROVE  \/ i \in 1..k /\ next[i] = calls[i]
             \/ /\ i > k /\ i - k + 1 \in 2..Len(todo)
                /\ next[i] = todo[i - k + 1]
  <2>1. CASE i \in 1..k
    BY <1>2, <2>1
  <2>2. CASE i \notin 1..k
    <3>1. i > k /\ i - k + 1 \in 2..Len(todo) /\ (i - k + 1) + k - 1 = i
      BY <1>2, <2>2
    <3> QED BY <1>2, <3>1
  <2> QED BY <2>1, <2>2
<1>5. ASSUME NEW i \in 1..k, NEW j \in 2..Len(todo)
      PROVE  Ahead(calls[i], todo[j])
  <2> SUFFICES ASSUME NEW a \in TermsOf(calls[i]), NEW b \in TermsOf(todo[j])
               PROVE  Before(a, b)
    BY DEF Ahead
  <2>1. 1 \in DOMAIN todo /\ j \in DOMAIN todo /\ 1 < j
    BY <1>2, <1>3
  <2>2. \A n \in TermsOf(Head(todo)) : Before(n, b)
    BY <1>2, <2>1 DEF OrderInv, InOrder, Ahead
  <2>3. b \in Terms(prog) /\ TermsOf(Head(todo)) \subseteq Terms(prog)
    <3>1. todo[j] \in SafeTask
      BY <1>1, <2>1
    <3> QED BY <1>2, <3>1, TermsOfTask
  <2>4. \/ a \in TermsOf(Head(todo))
        \/ \E n \in TermsOf(Head(todo)) : \E x \in KidSlots(prog, n) : a = Kid(prog, n, x)
    BY DEF OrderCalls, Within
  <2> QED BY <1>1, <2>2, <2>3, <2>4, KidBefore
<1>6. InOrder(next)
  <2> SUFFICES ASSUME NEW i \in 1..Len(next), NEW j \in 1..Len(next), i < j
               PROVE  Ahead(next[i], next[j])
    BY <1>3 DEF InOrder
  <2>1. CASE j \in 1..k
    <3>1. i \in 1..k
      BY <1>2, <2>1
    <3> QED BY <1>2, <1>3, <2>1, <3>1 DEF OrderCalls, InOrder
  <2>2. CASE i \in 1..k /\ j \notin 1..k
    BY <1>2, <1>4, <1>5, <2>2
  <2>3. CASE i \notin 1..k
    <3> DEFINE x == i - k + 1
               y == j - k + 1
    <3>1. j \notin 1..k
      BY <1>2, <2>3
    <3>2. /\ x \in 2..Len(todo) /\ next[i] = todo[x]
          /\ y \in 2..Len(todo) /\ next[j] = todo[y]
      BY <1>4, <2>3, <3>1
    <3>3. x < y
      BY <1>2
    <3> HIDE DEF x, y
    <3>4. x \in DOMAIN todo /\ y \in DOMAIN todo
      BY <1>2, <1>3, <3>2
    <3> QED BY <3>2, <3>3, <3>4 DEF OrderInv, InOrder
  <2> QED BY <2>1, <2>2, <2>3
<1>7. \A i \in DOMAIN next : LoopInOrder(next[i])
  <2> SUFFICES ASSUME NEW i \in 1..Len(next) PROVE LoopInOrder(next[i])
    BY <1>3
  <2>1. \A x \in 2..Len(todo) : x \in DOMAIN todo
    BY <1>2, <1>3
  <2> QED BY <1>4, <2>1 DEF OrderCalls, Within, OrderInv
<1>8. todo' = next
  BY DEF next
<1> QED BY <1>6, <1>7, <1>8, OrderOfNext

-----------------------------------------------------------------------------
(* What an arm calls for.                                                  *)

(* The task t is for the subterms X of n, in order.                        *)
Part(t, n, X) ==
  /\ X \subseteq KidSlots(prog, n)
  /\ LoopInOrder(t)
  /\ \A a \in TermsOf(t) : \E x \in X : a = Kid(prog, n, x)

Quiet(t) == LoopInOrder(t) /\ TermsOf(t) = {}

Precedes(n, X, Y) == \A x \in X : \A y \in Y : x # y /\ Earlier(n, x, y)

(* The calls s are for the subterms X of n, in order.                      *)
Arm(s, n, X) ==
  /\ X \subseteq KidSlots(prog, n)
  /\ IsSeq(s)
  /\ InOrder(s)
  /\ \A i \in 1..Len(s) : Part(s[i], n, X)

(* The calls and writes an arm is made of.                                 *)
LEMMA OrderOfTasks ==
  /\ \A text : Quiet(Write(text))
  /\ Quiet(FunctionEnd) /\ Quiet(Else)
  /\ \A n, temps, bind : /\ LoopInOrder(Term(n, temps, bind))
                         /\ TermsOf(Term(n, temps, bind)) = {n}
  /\ \A n : LoopInOrder(Free(n)) /\ TermsOf(Free(n)) = {n}
BY DEF Quiet, LoopInOrder, TermsOf, Write, FunctionEnd, Else, Term, Free

(* A call for one subterm.                                                 *)
LEMMA KidPart ==
  ASSUME NEW n, NEW k \in KidSlots(prog, n)
  PROVE  /\ \A temps, bind : Part(Term(Kid(prog, n, k), temps, bind), n, {k})
         /\ Part(Free(Kid(prog, n, k)), n, {k})
<1> DEFINE m == Kid(prog, n, k)
<1>1. \A temps, bind : /\ LoopInOrder(Term(m, temps, bind))
                       /\ TermsOf(Term(m, temps, bind)) = {m}
  BY OrderOfTasks
<1>2. LoopInOrder(Free(m)) /\ TermsOf(Free(m)) = {m}
  BY OrderOfTasks
<1> QED BY <1>1, <1>2 DEF Part

(* Tasks for subterms that come one after the other.                       *)
LEMMA PartsAhead ==
  ASSUME WellFormed(prog), NEW n \in Terms(prog), NEW X, NEW Y,
         NEW s, NEW t, Part(s, n, X), Part(t, n, Y), Precedes(n, X, Y)
  PROVE  Ahead(s, t)
<1> SUFFICES ASSUME NEW a \in TermsOf(s), NEW b \in TermsOf(t) PROVE Before(a, b)
  BY DEF Ahead
<1>1. PICK x \in X : a = Kid(prog, n, x)
  BY DEF Part
<1>2. PICK y \in Y : b = Kid(prog, n, y)
  BY DEF Part
<1>3. /\ x \in KidSlots(prog, n) /\ y \in KidSlots(prog, n)
      /\ x # y /\ Earlier(n, x, y)
  BY DEF Part, Precedes
<1> QED BY <1>1, <1>2, <1>3, KidsBefore

(* Writes are for no subterm.                                              *)
LEMMA QuietAhead ==
  ASSUME NEW s, NEW t, Quiet(s) \/ Quiet(t)
  PROVE  Ahead(s, t)
BY DEF Quiet, Ahead

(* One sequence of calls after the other.                                  *)
LEMMA ArmConcat ==
  ASSUME WellFormed(prog), NEW n \in Terms(prog), NEW X, NEW Y,
         NEW s, NEW t, Arm(s, n, X), Arm(t, n, Y), Precedes(n, X, Y)
  PROVE  Arm(s \o t, n, X \cup Y)
<1> DEFINE q == s \o t
<1>1. /\ IsSeq(q) /\ Len(s) \in Nat /\ Len(t) \in Nat /\ Len(q) = Len(s) + Len(t)
      /\ \A i \in 1..Len(s) : q[i] = s[i]
      /\ \A i \in 1..Len(t) : q[i + Len(s)] = t[i]
  BY ConcatParts DEF Arm
<1> HIDE DEF q
<1>2. ASSUME NEW i \in 1..Len(q)
      PROVE  \/ i \in 1..Len(s) /\ q[i] = s[i]
             \/ /\ i > Len(s) /\ i - Len(s) \in 1..Len(t)
                /\ q[i] = t[i - Len(s)]
  <2>1. CASE i \in 1..Len(s)
    BY <1>1, <2>1
  <2>2. CASE i \notin 1..Len(s)
    <3>1. i > Len(s) /\ i - Len(s) \in 1..Len(t) /\ (i - Len(s)) + Len(s) = i
      BY <1>1, <2>2
    <3> QED BY <1>1, <3>1
  <2> QED BY <2>1, <2>2
<1>3. DOMAIN q = 1..Len(q) /\ DOMAIN s = 1..Len(s) /\ DOMAIN t = 1..Len(t)
  BY <1>1 DEF Arm, IsSeq
<1>4. InOrder(q)
  <2> SUFFICES ASSUME NEW i \in 1..Len(q), NEW j \in 1..Len(q), i < j
               PROVE  Ahead(q[i], q[j])
    BY <1>3 DEF InOrder
  <2>1. CASE j \in 1..Len(s)
    <3>1. i \in 1..Len(s)
      BY <1>1, <2>1
    <3> QED BY <1>1, <1>3, <2>1, <3>1 DEF Arm, InOrder
  <2>2. CASE i \in 1..Len(s) /\ j \notin 1..Len(s)
    <3>1. Part(q[i], n, X) /\ Part(q[j], n, Y)
      BY <1>2, <2>2 DEF Arm
    <3> QED BY <3>1, PartsAhead
  <2>3. CASE i \notin 1..Len(s)
    <3> DEFINE x == i - Len(s)
               y == j - Len(s)
    <3>1. j \notin 1..Len(s)
      BY <1>1, <2>3
    <3>2. x \in 1..Len(t) /\ q[i] = t[x] /\ y \in 1..Len(t) /\ q[j] = t[y]
      BY <1>2, <2>3, <3>1
    <3>3. x < y
      BY <1>1
    <3> HIDE DEF x, y
    <3> QED BY <1>3, <3>2, <3>3 DEF Arm, InOrder
  <2> QED BY <2>1, <2>2, <2>3
<1>5. ASSUME NEW i \in 1..Len(q) PROVE Part(q[i], n, X \cup Y)
  <2>1. Part(q[i], n, X) \/ Part(q[i], n, Y)
    BY <1>2 DEF Arm
  <2>2. X \subseteq KidSlots(prog, n) /\ Y \subseteq KidSlots(prog, n)
    BY DEF Arm
  <2> QED BY <2>1, <2>2 DEF Part
<1> QED BY <1>1, <1>4, <1>5, Zenon DEF Arm, q

(* Calls for subterms in one, two or three places, writes in the others.   *)
LEMMA ArmAtThree ==
  ASSUME WellFormed(prog), NEW n \in Terms(prog), NEW s, IsSeq(s),
         NEW p \in 1..Len(s), NEW q \in 1..Len(s), NEW r \in 1..Len(s), p < q, q < r,
         NEW X, NEW Y, NEW Z,
         Part(s[p], n, X), Part(s[q], n, Y), Part(s[r], n, Z),
         Precedes(n, X, Y), Precedes(n, Y, Z), Precedes(n, X, Z),
         \A i \in 1..Len(s) : i \in {p, q, r} \/ Quiet(s[i])
  PROVE  Arm(s, n, X \cup Y \cup Z)
<1>1. DOMAIN s = 1..Len(s)
  BY DEF IsSeq
<1>2. InOrder(s)
  <2> SUFFICES ASSUME NEW i \in 1..Len(s), NEW j \in 1..Len(s), i < j
               PROVE  Ahead(s[i], s[j])
    BY <1>1 DEF InOrder
  <2>1. CASE Quiet(s[i]) \/ Quiet(s[j])
    BY <2>1, QuietAhead
  <2>2. CASE i \in {p, q, r} /\ j \in {p, q, r}
    <3>1. (i = p /\ j = q) \/ (i = q /\ j = r) \/ (i = p /\ j = r)
      BY <2>2
    <3> QED BY <3>1, PartsAhead
  <2> QED BY <2>1, <2>2
<1>3. ASSUME NEW i \in 1..Len(s) PROVE Part(s[i], n, X \cup Y \cup Z)
  BY DEF Part, Quiet
<1>4. X \cup Y \cup Z \subseteq KidSlots(prog, n)
  BY DEF Part
<1> QED BY <1>2, <1>3, <1>4 DEF Arm

(* The same, in two places.                                                *)
LEMMA ArmAtTwo ==
  ASSUME WellFormed(prog), NEW n \in Terms(prog), NEW s, IsSeq(s),
         NEW p \in 1..Len(s), NEW q \in 1..Len(s), p < q,
         NEW X, NEW Y, Part(s[p], n, X), Part(s[q], n, Y), Precedes(n, X, Y),
         \A i \in 1..Len(s) : i \in {p, q} \/ Quiet(s[i])
  PROVE  Arm(s, n, X \cup Y)
<1>1. DOMAIN s = 1..Len(s)
  BY DEF IsSeq
<1>2. InOrder(s)
  <2> SUFFICES ASSUME NEW i \in 1..Len(s), NEW j \in 1..Len(s), i < j
               PROVE  Ahead(s[i], s[j])
    BY <1>1 DEF InOrder
  <2>1. CASE Quiet(s[i]) \/ Quiet(s[j])
    BY <2>1, QuietAhead
  <2>2. CASE i \in {p, q} /\ j \in {p, q}
    <3>1. i = p /\ j = q
      BY <2>2
    <3> QED BY <3>1, PartsAhead
  <2> QED BY <2>1, <2>2
<1>3. ASSUME NEW i \in 1..Len(s) PROVE Part(s[i], n, X \cup Y)
  BY DEF Part, Quiet
<1>4. X \cup Y \subseteq KidSlots(prog, n)
  BY DEF Part
<1> QED BY <1>2, <1>3, <1>4 DEF Arm

(* The same, in one place.                                                 *)
LEMMA ArmAt ==
  ASSUME WellFormed(prog), NEW n \in Terms(prog), NEW s, IsSeq(s),
         NEW p \in 1..Len(s), NEW X, Part(s[p], n, X),
         \A i \in 1..Len(s) : i = p \/ Quiet(s[i])
  PROVE  Arm(s, n, X)
<1>1. DOMAIN s = 1..Len(s)
  BY DEF IsSeq
<1>2. InOrder(s)
  <2> SUFFICES ASSUME NEW i \in 1..Len(s), NEW j \in 1..Len(s), i < j
               PROVE  Ahead(s[i], s[j])
    BY <1>1 DEF InOrder
  <2> QED BY QuietAhead
<1>3. ASSUME NEW i \in 1..Len(s) PROVE Part(s[i], n, X)
  BY DEF Part, Quiet
<1> QED BY <1>2, <1>3 DEF Arm, Part

(* A sequence of writes.                                                   *)
LEMMA ArmOfWrites ==
  ASSUME NEW n, NEW s, IsSeq(s), \A i \in 1..Len(s) : Quiet(s[i])
  PROVE  Arm(s, n, {})
<1>1. DOMAIN s = 1..Len(s)
  BY DEF IsSeq
<1>2. InOrder(s)
  BY <1>1, QuietAhead DEF InOrder
<1> QED BY <1>2 DEF Arm, Part, Quiet

(* Such calls take the place of the call for n.                            *)
LEMMA ArmKeepsOrder ==
  ASSUME Inv, OrderInv, todo # <<>>, NEW n, TermsOf(Head(todo)) = {n},
         NEW X, NEW calls, Arm(calls, n, X), Enter(calls)
  PROVE  OrderInv'
<1>1. ASSUME NEW i \in 1..Len(calls) PROVE Within(calls[i], Head(todo))
  BY DEF Arm, Part, Within
<1>2. OrderCalls(Head(todo), calls)
  BY <1>1 DEF Arm, OrderCalls
<1> QED BY <1>2, EnterKeepsOrder DEF Enter, annotateVars

-----------------------------------------------------------------------------
(* The arms, as tuples.                                                    *)

(* Tuples with calls for one subterm, or none.                             *)
LEMMA ArmTuples ==
  ASSUME WellFormed(prog), NEW n \in Terms(prog), NEW X,
         NEW a, Part(a, n, X), NEW u, Quiet(u), NEW v, Quiet(v)
  PROVE  /\ Arm(<< u >>, n, {})
         /\ Arm(<< a >>, n, X)
         /\ Arm(<< a, v >>, n, X)
         /\ Arm(<< u, a >>, n, X)
         /\ Arm(<< u, a, v >>, n, X)
<1>1. Arm(<< u >>, n, {})
  <2> DEFINE s == << u >>
  <2>1. IsSeq(s) /\ Len(s) = 1 /\ s[1] = u
    BY DEF IsSeq
  <2> HIDE DEF s
  <2>2. \A i \in 1..Len(s) : Quiet(s[i])
    BY <2>1
  <2>3. Arm(s, n, {})
    BY <2>1, <2>2, ArmOfWrites
  <2> QED BY <2>3 DEF s
<1>2. Arm(<< a >>, n, X)
  <2> DEFINE s == << a >>
  <2>1. IsSeq(s) /\ Len(s) = 1 /\ s[1] = a
    BY DEF IsSeq
  <2> HIDE DEF s
  <2>2. 1 \in 1..Len(s) /\ \A i \in 1..Len(s) : i = 1 \/ Quiet(s[i])
    BY <2>1
  <2>3. Arm(s, n, X)
    BY <2>1, <2>2, ArmAt
  <2> QED BY <2>3 DEF s
<1>3. Arm(<< a, v >>, n, X)
  <2> DEFINE s == << a, v >>
  <2>1. IsSeq(s) /\ Len(s) = 2 /\ s[1] = a /\ s[2] = v
    BY DEF IsSeq
  <2> HIDE DEF s
  <2>2. 1 \in 1..Len(s) /\ \A i \in 1..Len(s) : i = 1 \/ Quiet(s[i])
    BY <2>1
  <2>3. Arm(s, n, X)
    BY <2>1, <2>2, ArmAt
  <2> QED BY <2>3 DEF s
<1>4. Arm(<< u, a >>, n, X)
  <2> DEFINE s == << u, a >>
  <2>1. IsSeq(s) /\ Len(s) = 2 /\ s[1] = u /\ s[2] = a
    BY DEF IsSeq
  <2> HIDE DEF s
  <2>2. 2 \in 1..Len(s) /\ \A i \in 1..Len(s) : i = 2 \/ Quiet(s[i])
    BY <2>1
  <2>3. Arm(s, n, X)
    BY <2>1, <2>2, ArmAt
  <2> QED BY <2>3 DEF s
<1>5. Arm(<< u, a, v >>, n, X)
  <2> DEFINE s == << u, a, v >>
  <2>1. IsSeq(s) /\ Len(s) = 3 /\ s[1] = u /\ s[2] = a /\ s[3] = v
    BY DEF IsSeq
  <2> HIDE DEF s
  <2>2. 2 \in 1..Len(s) /\ \A i \in 1..Len(s) : i = 2 \/ Quiet(s[i])
    BY <2>1
  <2>3. Arm(s, n, X)
    BY <2>1, <2>2, ArmAt
  <2> QED BY <2>3 DEF s
<1> QED BY <1>1, <1>2, <1>3, <1>4, <1>5

(* Tuples with calls for two subterms.                                     *)
LEMMA ArmPairs ==
  ASSUME WellFormed(prog), NEW n \in Terms(prog), NEW X, NEW Y, Precedes(n, X, Y),
         NEW a, Part(a, n, X), NEW b, Part(b, n, Y),
         NEW u, Quiet(u), NEW v, Quiet(v), NEW w, Quiet(w)
  PROVE  /\ Arm(<< u, a, v, b, w >>, n, X \cup Y)
         /\ Arm(<< a, u, b, v >>, n, X \cup Y)
         /\ Arm(<< u, a, b >>, n, X \cup Y)
<1>1. Arm(<< u, a, v, b, w >>, n, X \cup Y)
  <2> DEFINE s == << u, a, v, b, w >>
  <2>1. /\ IsSeq(s) /\ Len(s) = 5
        /\ s[1] = u /\ s[2] = a /\ s[3] = v /\ s[4] = b /\ s[5] = w
    BY DEF IsSeq
  <2> HIDE DEF s
  <2>2. /\ 2 \in 1..Len(s) /\ 4 \in 1..Len(s) /\ 2 < 4
        /\ Part(s[2], n, X) /\ Part(s[4], n, Y)
        /\ \A i \in 1..Len(s) : i \in {2, 4} \/ Quiet(s[i])
    BY <2>1
  <2>3. Arm(s, n, X \cup Y)
    BY <2>1, <2>2, ArmAtTwo
  <2> QED BY <2>3 DEF s
<1>2. Arm(<< a, u, b, v >>, n, X \cup Y)
  <2> DEFINE s == << a, u, b, v >>
  <2>1. /\ IsSeq(s) /\ Len(s) = 4
        /\ s[1] = a /\ s[2] = u /\ s[3] = b /\ s[4] = v
    BY DEF IsSeq
  <2> HIDE DEF s
  <2>2. /\ 1 \in 1..Len(s) /\ 3 \in 1..Len(s) /\ 1 < 3
        /\ Part(s[1], n, X) /\ Part(s[3], n, Y)
        /\ \A i \in 1..Len(s) : i \in {1, 3} \/ Quiet(s[i])
    BY <2>1
  <2>3. Arm(s, n, X \cup Y)
    BY <2>1, <2>2, ArmAtTwo
  <2> QED BY <2>3 DEF s
<1>3. Arm(<< u, a, b >>, n, X \cup Y)
  <2> DEFINE s == << u, a, b >>
  <2>1. IsSeq(s) /\ Len(s) = 3 /\ s[1] = u /\ s[2] = a /\ s[3] = b
    BY DEF IsSeq
  <2> HIDE DEF s
  <2>2. /\ 2 \in 1..Len(s) /\ 3 \in 1..Len(s) /\ 2 < 3
        /\ Part(s[2], n, X) /\ Part(s[3], n, Y)
        /\ \A i \in 1..Len(s) : i \in {2, 3} \/ Quiet(s[i])
    BY <2>1
  <2>3. Arm(s, n, X \cup Y)
    BY <2>1, <2>2, ArmAtTwo
  <2> QED BY <2>3 DEF s
<1> QED BY <1>1, <1>2, <1>3

(* A loop over arguments of a call.                                        *)
LEMMA LoopPart ==
  ASSUME WellFormed(prog), NEW n \in Terms(prog), NEW d \in Nat, NEW ns,
         DOMAIN ns = 1..Len(ns), Len(ns) \in Nat,
         \A x \in 1..Len(ns) : x + d \in KidSlots(prog, n) /\ ns[x] = Kid(prog, n, x + d)
  PROVE  /\ Part(FreeLoop(ns), n, (d+1)..(d+Len(ns)))
         /\ \A temps, temp : Part(TermLoop(ns, temps, temp), n, (d+1)..(d+Len(ns)))
<1> DEFINE X == (d+1)..(d+Len(ns))
<1>1. X \subseteq KidSlots(prog, n)
  <2> SUFFICES ASSUME NEW y \in X PROVE y \in KidSlots(prog, n)
    OBVIOUS
  <2>1. y - d \in 1..Len(ns) /\ (y - d) + d = y
    OBVIOUS
  <2> QED BY <2>1
<1>2. ASSUME NEW x \in DOMAIN ns, NEW y \in DOMAIN ns, x < y
      PROVE  Before(ns[x], ns[y])
  <2>1. /\ x + d \in KidSlots(prog, n) /\ ns[x] = Kid(prog, n, x + d)
        /\ y + d \in KidSlots(prog, n) /\ ns[y] = Kid(prog, n, y + d)
    OBVIOUS
  <2>2. x + d # y + d /\ Earlier(n, x + d, y + d)
    BY <1>2 DEF Earlier
  <2> QED BY <2>1, <2>2, KidsBefore
<1>3. ASSUME NEW x \in DOMAIN ns PROVE x + d \in X /\ ns[x] = Kid(prog, n, x + d)
  OBVIOUS
<1> HIDE DEF X
<1>4. Part(FreeLoop(ns), n, X)
  <2>1. FreeLoop(ns).do = "frees" /\ FreeLoop(ns).ns = ns
    BY DEF FreeLoop
  <2>2. TermsOf(FreeLoop(ns)) = {ns[x] : x \in DOMAIN ns}
    BY <2>1 DEF TermsOf
  <2> QED BY <1>1, <1>2, <1>3, <2>1, <2>2 DEF Part, LoopInOrder
<1>5. ASSUME NEW temps, NEW temp PROVE Part(TermLoop(ns, temps, temp), n, X)
  <2> DEFINE t == TermLoop(ns, temps, temp)
  <2>1. t.do = "terms" /\ t.ns = ns
    BY DEF TermLoop
  <2> HIDE DEF t
  <2>2. TermsOf(t) = {ns[x] : x \in DOMAIN ns}
    BY <2>1 DEF TermsOf
  <2>3. Part(t, n, X)
    BY <1>1, <1>2, <1>3, <2>1, <2>2 DEF Part, LoopInOrder
  <2> QED BY <2>3 DEF t
<1> QED BY <1>4, <1>5 DEF X

(* The steps of generate_free_term.                                        *)
LEMMA FreeNextKeepsOrder == ASSUME Inv, OrderInv, FreeNext PROVE OrderInv'
<1> DEFINE n == Head(todo).n
<1>1. Doing("free") /\ todo # <<>>
  BY DEF FreeNext, FreePanics, FreeError, FreeLeaf, FreeCall, FreeBinary,
         FreeFunction, FreePrint, FreeProjection, FreeTuple, FreeArm, Doing
<1>2. WellFormed(prog) /\ n \in Terms(prog) /\ TermsOf(Head(todo)) = {n}
  BY <1>1, Pending, SafeTaskFields DEF TermsOf
<1>3. (\A text : Quiet(Write(text))) /\ Quiet(FunctionEnd)
  BY OrderOfTasks
<1>4. \A k \in KidSlots(prog, n) :
        /\ Part(Free(Kid(prog, n, k)), n, {k})
        /\ \A temps, bind : Part(Term(Kid(prog, n, k), temps, bind), n, {k})
  BY KidPart
<1>5. CASE FreePanics \/ FreeError
  <2>1. prog' = prog /\ todo' = todo
    BY <1>5 DEF FreePanics, FreeError, annotateVars
  <2> QED BY <2>1, OrderOfNext DEF OrderInv
<1>6. CASE FreeLeaf
  <2> DEFINE u == Write(LeafText(prog[n]))
  <2>1. Enter(<< u >>) /\ Quiet(u)
    BY <1>3, <1>6 DEF FreeLeaf
  <2> HIDE DEF u
  <2>2. IsSeq(<< u >>) /\ \A i \in 1..Len(<< u >>) : Quiet(<< u >>[i])
    BY <2>1 DEF IsSeq
  <2>3. Arm(<< u >>, n, {})
    BY <2>2, ArmOfWrites
  <2> QED BY <1>1, <1>2, <2>1, <2>3, ArmKeepsOrder
<1>7. CASE FreeCall
  <2> DEFINE args == Arguments(prog, n)
             Y == 2..(1 + Len(args))
             a == Free(Kid(prog, n, 1))
             u == Write(Text(<<"(">>))
             b == FreeLoop(args)
             v == Write(Text(<<")">>))
  <2>1. prog[n].kind = "Call" /\ Enter(<< a, u, b, v >>)
    BY <1>7 DEF FreeCall, FreeArm
  <2>2. /\ 1 \in KidSlots(prog, n) /\ args \in Seq(Terms(prog))
        /\ \A x \in 1..Len(args) :
             x + 1 \in KidSlots(prog, n) /\ args[x] = Kid(prog, n, x + 1)
    BY <1>2, <2>1, Slots, ArgumentsAreKids
  <2>3. Part(b, n, Y)
    <3>1. DOMAIN args = 1..Len(args) /\ Len(args) \in Nat /\ 1 \in Nat
      BY <2>2
    <3> HIDE DEF args, n
    <3>2. Part(FreeLoop(args), n, (1+1)..(1+Len(args)))
      BY <1>2, <2>2, <3>1, LoopPart
    <3> QED BY <3>2
  <2>4. Part(a, n, {1}) /\ Quiet(u) /\ Quiet(v)
    BY <1>3, <1>4, <2>2
  <2>5. Precedes(n, {1}, Y)
    BY <2>2 DEF Precedes, Earlier
  <2> HIDE DEF a, b, u, v, Y, n
  <2>6. Arm(<< a, u, b, v >>, n, {1} \cup Y)
    BY <1>2, <2>3, <2>4, <2>5, ArmPairs
  <2> QED BY <1>1, <1>2, <2>1, <2>6, ArmKeepsOrder
<1>8. CASE FreeBinary
  <2> DEFINE op == prog[n].op
             u == Write(FreeOpening(op))
             a == Free(Kid(prog, n, 1))
             v == Write(Text(<<LuaOp(op)>>))
             b == Free(Kid(prog, n, 2))
             w == Write(FreeClosing(op))
  <2>1. prog[n].kind = "Binary" /\ Enter(<< u, a, v, b, w >>)
    BY <1>8 DEF FreeBinary, FreeArm
  <2>2. /\ Part(a, n, {1}) /\ Part(b, n, {2})
        /\ Quiet(u) /\ Quiet(v) /\ Quiet(w)
    <3>1. KidSlots(prog, n) = {1, 2}
      BY <1>2, <2>1, Slots
    <3>2. Part(a, n, {1}) /\ Part(b, n, {2})
      BY <1>4, <3>1
    <3> QED BY <1>3, <3>2
  <2>3. Precedes(n, {1}, {2})
    BY DEF Precedes, Earlier
  <2> HIDE DEF a, b, u, v, w, n
  <2>4. Arm(<< u, a, v, b, w >>, n, {1} \cup {2})
    BY <1>2, <2>2, <2>3, ArmPairs
  <2> QED BY <1>1, <1>2, <2>1, <2>4, ArmKeepsOrder
<1>9. CASE FreeFunction
  <2> DEFINE ps == prog[n].parameters
             u == Write(Text(<<"function", "(">>) \o ParameterText(ps)
                          \o Text(<<"__sentinel", ")">>) \o ArityCheck(ps))
             a == Term(Kid(prog, n, 1), 1, Temp(0))
  <2>1. prog[n].kind = "Function" /\ Enter(<< u, a, FunctionEnd >>)
    BY <1>9 DEF FreeFunction, FreeArm
  <2>2. Part(a, n, {1}) /\ Quiet(u)
    BY <1>2, <1>3, <1>4, <2>1, Slots
  <2> HIDE DEF a, u, n
  <2>3. Arm(<< u, a, FunctionEnd >>, n, {1})
    BY <1>2, <1>3, <2>2, ArmTuples
  <2> QED BY <1>1, <1>2, <2>1, <2>3, ArmKeepsOrder
<1>10. CASE FreePrint
  <2> DEFINE u == Write(Text(<<"__print", "(">>))
             a == Free(Kid(prog, n, 1))
             v == Write(Text(<<")">>))
  <2>1. prog[n].kind = "Print" /\ Enter(<< u, a, v >>)
    BY <1>10 DEF FreePrint, FreeArm
  <2>2. Part(a, n, {1}) /\ Quiet(u) /\ Quiet(v)
    BY <1>2, <1>3, <1>4, <2>1, Slots
  <2> HIDE DEF a, u, v, n
  <2>3. Arm(<< u, a, v >>, n, {1})
    BY <1>2, <2>2, ArmTuples
  <2> QED BY <1>1, <1>2, <2>1, <2>3, ArmKeepsOrder
<1>11. CASE FreeProjection
  <2> DEFINE a == Free(Kid(prog, n, 1))
             v == Write(Text(<<Selector(prog[n].kind)>>))
  <2>1. prog[n].kind \in {"First", "Second"} /\ Enter(<< a, v >>)
    BY <1>11 DEF FreeProjection, FreeArm
  <2>2. Part(a, n, {1}) /\ Quiet(v)
    BY <1>2, <1>3, <1>4, <2>1, Slots
  <2> HIDE DEF a, v, n
  <2>3. Arm(<< a, v >>, n, {1})
    BY <1>2, <2>2, ArmTuples
  <2> QED BY <1>1, <1>2, <2>1, <2>3, ArmKeepsOrder
<1>12. CASE FreeTuple
  <2> DEFINE u == Write(Text(<<"(", "{">>))
             a == Free(Kid(prog, n, 1))
             v == Write(Text(<<",">>))
             b == Free(Kid(prog, n, 2))
             w == Write(Text(<<"}", ")">>))
  <2>1. prog[n].kind = "Tuple" /\ Enter(<< u, a, v, b, w >>)
    BY <1>12 DEF FreeTuple, FreeArm
  <2>2. /\ Part(a, n, {1}) /\ Part(b, n, {2})
        /\ Quiet(u) /\ Quiet(v) /\ Quiet(w)
    <3>1. KidSlots(prog, n) = {1, 2}
      BY <1>2, <2>1, Slots
    <3>2. Part(a, n, {1}) /\ Part(b, n, {2})
      BY <1>4, <3>1
    <3> QED BY <1>3, <3>2
  <2>3. Precedes(n, {1}, {2})
    BY DEF Precedes, Earlier
  <2> HIDE DEF a, b, u, v, w, n
  <2>4. Arm(<< u, a, v, b, w >>, n, {1} \cup {2})
    BY <1>2, <2>2, <2>3, ArmPairs
  <2> QED BY <1>1, <1>2, <2>1, <2>4, ArmKeepsOrder
<1> QED BY <1>5, <1>6, <1>7, <1>8, <1>9, <1>10, <1>11, <1>12 DEF FreeNext

(* What a step of generate_term starts from.                               *)
LEMMA TermStep ==
  ASSUME Inv, Doing("term"), NEW h, h = Head(todo)
  PROVE  /\ todo # <<>> /\ WellFormed(prog) /\ h.n \in Terms(prog)
         /\ TermsOf(h) = {h.n}
         /\ \A k \in KidSlots(prog, h.n) :
              /\ Part(Free(Kid(prog, h.n, k)), h.n, {k})
              /\ \A temps, bind : Part(Term(Kid(prog, h.n, k), temps, bind), h.n, {k})
<1>1. h.do = "term"
  BY DEF Doing
<1>2. TermsOf(h) = {h.n}
  BY <1>1 DEF TermsOf
<1> QED BY <1>2, TermPending, KidPart

(* An expression written in place is for the term itself.                  *)
LEMMA InPlaceKeepsOrder == ASSUME Inv, OrderInv, TermInPlace PROVE OrderInv'
<1> DEFINE h == Head(todo)
           a == Free(h.n)
           u == Write(Text(<<"do", "return">>))
           v == Write(Text(<<"end">>))
           w == Write(<< h.bind, Sym("=") >>)
<1>1. Doing("term") /\ Enter(IF last[h.n] THEN << u, a, v >> ELSE << w, a >>)
  BY DEF TermInPlace
<1>2. todo # <<>> /\ TermsOf(h) = {h.n}
  BY <1>1, TermStep
<1>3. Quiet(u) /\ Quiet(v) /\ Quiet(w) /\ LoopInOrder(a) /\ TermsOf(a) = {h.n}
  BY OrderOfTasks
<1>4. TermsOf(a) = TermsOf(Head(todo))
  BY <1>2, <1>3
<1> HIDE DEF h, a, u, v, w
<1>5. Within(a, Head(todo)) /\ \A t : Quiet(t) => Within(t, Head(todo))
  BY <1>3, <1>4 DEF Within, Quiet
<1>6. OrderCalls(Head(todo), << u, a, v >>)
  <2> DEFINE s == << u, a, v >>
  <2>1. IsSeq(s) /\ Len(s) = 3 /\ DOMAIN s = 1..3 /\ s[1] = u /\ s[2] = a /\ s[3] = v
    BY DEF IsSeq
  <2> HIDE DEF s
  <2>2. \A i \in 1..3 : i = 2 \/ Quiet(s[i])
    BY <1>3, <2>1
  <2>3. InOrder(s)
    <3> SUFFICES ASSUME NEW i \in 1..3, NEW j \in 1..3, i < j
                 PROVE  Ahead(s[i], s[j])
      BY <2>1 DEF InOrder
    <3> QED BY <2>2, QuietAhead
  <2>4. \A i \in 1..Len(s) : Within(s[i], Head(todo))
    BY <1>5, <2>1, <2>2
  <2>5. OrderCalls(Head(todo), s)
    BY <2>1, <2>3, <2>4 DEF OrderCalls
  <2> QED BY <2>5 DEF s
<1>7. OrderCalls(Head(todo), << w, a >>)
  <2> DEFINE s == << w, a >>
  <2>1. IsSeq(s) /\ Len(s) = 2 /\ DOMAIN s = 1..2 /\ s[1] = w /\ s[2] = a
    BY DEF IsSeq
  <2> HIDE DEF s
  <2>2. \A i \in 1..2 : i = 2 \/ Quiet(s[i])
    BY <1>3, <2>1
  <2>3. InOrder(s)
    <3> SUFFICES ASSUME NEW i \in 1..2, NEW j \in 1..2, i < j
                 PROVE  Ahead(s[i], s[j])
      BY <2>1 DEF InOrder
    <3> QED BY <2>2, QuietAhead
  <2>4. \A i \in 1..Len(s) : Within(s[i], Head(todo))
    BY <1>5, <2>1, <2>2
  <2>5. OrderCalls(Head(todo), s)
    BY <2>1, <2>3, <2>4 DEF OrderCalls
  <2> QED BY <2>5 DEF s
<1>8. PICK calls : Enter(calls) /\ OrderCalls(Head(todo), calls)
  BY <1>1, <1>6, <1>7
<1> QED BY <1>2, <1>8, EnterKeepsOrder DEF Enter, annotateVars

(* The two loops over the arguments of a call in statements.               *)
LEMMA ArgumentParts ==
  ASSUME WellFormed(prog), NEW n \in Terms(prog), prog[n].kind = "Call",
         NEW args, args = Arguments(prog, n), args # <<>>,
         NEW b, b = LastBinds(args)
  PROVE  /\ b \in Nat
         /\ \A temps, temp :
              Part(TermLoop(SubSeq(args, 1, b), temps, temp), n, 2..(1 + b))
         /\ Part(FreeLoop(SubSeq(args, b + 1, Len(args))), n, (b+2)..(1 + Len(args)))
<1> DEFINE s == SubSeq(args, 1, b)
           t == SubSeq(args, b + 1, Len(args))
           l == Len(args)
<1>1. /\ args \in Seq(Terms(prog)) /\ l \in Nat
      /\ \A x \in 1..l : x + 1 \in KidSlots(prog, n) /\ args[x] = Kid(prog, n, x + 1)
  BY ArgumentsAreKids
<1>2. b \in Nat /\ b <= l /\ b \in 0..l
  <2>1. b \in 0..(l - 1)
    BY LastBindsSplits
  <2> QED BY <1>1, <2>1
<1>3. s \in Seq(Terms(prog)) /\ Len(s) = b /\ \A x \in 1..b : s[x] = args[x]
  BY <1>1, <1>2
<1>4. /\ t \in Seq(Terms(prog)) /\ Len(t) = l - b
      /\ \A x \in 1..(l - b) : t[x] = args[x + b]
  BY <1>1, <1>2
<1> HIDE DEF s, t, l
<1>5. \A temps, temp : Part(TermLoop(s, temps, temp), n, 2..(1 + b))
  <2> DEFINE d == 1
  <2>1. /\ d \in Nat /\ DOMAIN s = 1..Len(s) /\ Len(s) \in Nat
        /\ \A x \in 1..Len(s) : x + d \in KidSlots(prog, n) /\ s[x] = Kid(prog, n, x + d)
    BY <1>1, <1>2, <1>3
  <2> HIDE DEF d
  <2>2. \A temps, temp : Part(TermLoop(s, temps, temp), n, (d+1)..(d+Len(s)))
    BY <2>1, LoopPart
  <2>3. (d+1)..(d+Len(s)) = 2..(1 + b)
    BY <1>3 DEF d
  <2> QED BY <2>2, <2>3
<1>6. Part(FreeLoop(t), n, (b+2)..(1 + l))
  <2> DEFINE d == b + 1
  <2>1. ASSUME NEW x \in 1..Len(t)
        PROVE  x + d \in KidSlots(prog, n) /\ t[x] = Kid(prog, n, x + d)
    <3>1. x + b \in 1..l /\ (x + b) + 1 = x + d /\ x \in 1..(l - b)
      BY <1>1, <1>2, <1>4, SMTT(20)
    <3>2. t[x] = args[x + b]
      BY <1>4, <3>1
    <3> QED BY <1>1, <3>1, <3>2
  <2>2. d \in Nat /\ DOMAIN t = 1..Len(t) /\ Len(t) \in Nat
    BY <1>1, <1>2, <1>4
  <2>3. (d+1)..(d+Len(t)) = (b+2)..(1 + l)
    <3>1. l \in Nat /\ b \in Nat /\ Len(t) = l - b
      BY <1>1, <1>2, <1>4
    <3> HIDE DEF t, l
    <3>2. d + 1 = b + 2 /\ d + Len(t) = 1 + l
      BY <3>1
    <3> QED BY <3>2
  <2> HIDE DEF d
  <2>4. Part(FreeLoop(t), n, (d+1)..(d+Len(t)))
    BY <2>1, <2>2, LoopPart
  <2> QED BY <2>3, <2>4
<1> QED BY <1>2, <1>5, <1>6 DEF s, t, l

(* A call in statements: the callee comes first if it binds, else between  *)
(* the arguments that go through temporaries and the others.               *)
LEMMA BoundCalleeKeepsOrder ==
  ASSUME Inv, OrderInv, TermCallBoundCallee PROVE OrderInv'
<1> DEFINE h     == Head(todo)
           n     == h.n
           args  == Arguments(prog, n)
           temps == h.temps + 2
           bound == LastBinds(args)
           holder == Temp(h.temps + 1)
           t     == Term(Kid(prog, n, 1), h.temps + 1, holder)
           u     == TermLoop(SubSeq(args, 1, bound), temps + bound, temps)
           f     == FreeLoop(SubSeq(args, bound + 1, Len(args)))
           g     == Write(Text(<<")">>))
           bare  == Write(Deliver(n, h.bind) \o << holder >> \o Text(<<"(", ")">>))
           open  == Write(Deliver(n, h.bind) \o << holder, Sym("(") >>
                            \o TempArguments(temps, bound))
           X     == 2..(1 + bound)
           Y     == (bound+2)..(1 + Len(args))
<1>1. /\ Doing("term") /\ prog[n].kind = "Call"
      /\ Enter(<< t >> \o IF args = <<>> THEN << bare >> ELSE << u, open, f, g >>)
  BY DEF TermCallBoundCallee, TermArm
<1>2. todo # <<>> /\ WellFormed(prog) /\ n \in Terms(prog) /\ TermsOf(Head(todo)) = {n}
  BY <1>1, TermStep
<1>3. Part(t, n, {1})
  BY <1>1, TermStep, Slots
<1>4. Quiet(bare) /\ Quiet(open) /\ Quiet(g)
  BY OrderOfTasks
<1>5. Arm(<< t >>, n, {1})
  <2> HIDE DEF h, n, t, g
  <2> QED BY <1>2, <1>3, <1>4, ArmTuples
<1>6. CASE args = <<>>
  <2> HIDE DEF h, n, t, u, f, g, bare, open
  <2>1. Arm(<< bare >>, n, {})
    BY <1>2, <1>3, <1>4, ArmTuples
  <2>2. Precedes(n, {1}, {})
    BY DEF Precedes
  <2>3. Arm(<< t >> \o << bare >>, n, {1} \cup {})
    BY <1>2, <1>5, <2>1, <2>2, ArmConcat
  <2> QED BY <1>1, <1>2, <1>6, <2>3, ArmKeepsOrder
<1>7. CASE args # <<>>
  <2>1. bound \in Nat /\ Part(u, n, X) /\ Part(f, n, Y)
    BY <1>1, <1>2, <1>7, ArgumentParts
  <2>2. Precedes(n, {1}, X \cup Y) /\ Precedes(n, X, Y)
    <3>1. Len(args) \in Nat
      BY <1>1, <1>2, ArgumentsAreKids
    <3> HIDE DEF bound, args
    <3> QED BY <2>1, <3>1 DEF Precedes, Earlier
  <2> HIDE DEF h, n, t, u, f, g, bare, open, X, Y
  <2>3. Arm(<< u, open, f, g >>, n, X \cup Y)
    BY <1>2, <1>4, <2>1, <2>2, ArmPairs
  <2>4. Arm(<< t >> \o << u, open, f, g >>, n, {1} \cup (X \cup Y))
    BY <1>2, <1>5, <2>2, <2>3, ArmConcat
  <2> QED BY <1>1, <1>2, <1>7, <2>4, ArmKeepsOrder
<1> QED BY <1>6, <1>7

(* A call whose callee is written in place.                                *)
LEMMA FreeCalleeKeepsOrder ==
  ASSUME Inv, OrderInv, TermCallFreeCallee PROVE OrderInv'
<1> DEFINE h     == Head(todo)
           n     == h.n
           args  == Arguments(prog, n)
           bound == LastBinds(args)
           t     == TermLoop(SubSeq(args, 1, bound), h.temps + bound, h.temps)
           f     == Write(<< h.bind, Sym("=") >>)
           g     == Free(Kid(prog, n, 1))
           w     == Write(Text(<<"(">>) \o TempArguments(h.temps, bound))
           d     == FreeLoop(SubSeq(args, bound + 1, Len(args)))
           e     == Write(Text(<<")">>))
           c     == Write(Text(<<"(", ")">>))
           X     == 2..(1 + bound)
           Y     == (bound+2)..(1 + Len(args))
<1>1. /\ Doing("term") /\ prog[n].kind = "Call"
      /\ Enter(IF args = <<>> THEN << f, g, c >> ELSE << t, f, g, w, d, e >>)
  BY DEF TermCallFreeCallee, TermArm
<1>2. todo # <<>> /\ WellFormed(prog) /\ n \in Terms(prog) /\ TermsOf(Head(todo)) = {n}
  BY <1>1, TermStep
<1>3. Part(g, n, {1})
  BY <1>1, TermStep, Slots
<1>4. Quiet(f) /\ Quiet(w) /\ Quiet(e) /\ Quiet(c)
  BY OrderOfTasks
<1>5. CASE args = <<>>
  <2> HIDE DEF h, n, t, f, g, w, d, e, c
  <2>1. Arm(<< f, g, c >>, n, {1})
    BY <1>2, <1>3, <1>4, ArmTuples
  <2> QED BY <1>1, <1>2, <1>5, <2>1, ArmKeepsOrder
<1>6. CASE args # <<>>
  <2>1. bound \in Nat /\ Part(t, n, X) /\ Part(d, n, Y)
    BY <1>1, <1>2, <1>6, ArgumentParts
  <2>2. Precedes(n, X, {1}) /\ Precedes(n, {1}, Y) /\ Precedes(n, X, Y)
    <3>1. Len(args) \in Nat
      BY <1>1, <1>2, ArgumentsAreKids
    <3> HIDE DEF bound, args
    <3> QED BY <1>1, <2>1, <3>1 DEF Precedes, Earlier
  <2> HIDE DEF h, n, t, f, g, w, d, e, c, X, Y
  <2> DEFINE s == << t, f, g, w, d, e >>
  <2>3. /\ IsSeq(s) /\ Len(s) = 6
        /\ s[1] = t /\ s[2] = f /\ s[3] = g /\ s[4] = w /\ s[5] = d /\ s[6] = e
    BY DEF IsSeq
  <2>4. Enter(s)
    BY <1>1, <1>6
  <2> HIDE DEF s
  <2>5. /\ 1 \in 1..Len(s) /\ 3 \in 1..Len(s) /\ 5 \in 1..Len(s) /\ 1 < 3 /\ 3 < 5
        /\ Part(s[1], n, X) /\ Part(s[3], n, {1}) /\ Part(s[5], n, Y)
        /\ \A i \in 1..Len(s) : i \in {1, 3, 5} \/ Quiet(s[i])
    BY <1>3, <1>4, <2>1, <2>3
  <2>6. Arm(s, n, X \cup {1} \cup Y)
    BY <1>2, <2>2, <2>3, <2>5, ArmAtThree
  <2> QED BY <1>2, <2>4, <2>6, ArmKeepsOrder
<1> QED BY <1>5, <1>6

(* The operands of an operator.                                            *)
LEMMA OperationArm ==
  ASSUME Inv, Doing("term"), NEW h, h = Head(todo), prog[h.n].kind = "Binary",
         NEW other, NEW fresh
  PROVE  Arm(Operation(h, other, fresh), h.n, {1} \cup {2})
<1> DEFINE n   == h.n
           op  == prog[n].op
           rhs == Kid(prog, n, 2)
           lhs == Temp(h.temps)
           a   == Term(Kid(prog, n, 1), h.temps + 1, lhs)
           b   == Term(rhs, fresh, Temp(other))
           c   == Free(rhs)
           u   == Write(<< h.bind, Sym("=") >> \o Opening(op)
                          \o << lhs, Sym(LuaOp(op)), Temp(other) >> \o Closing(op))
           v   == Write(<< h.bind, Sym("=") >> \o Opening(op)
                          \o << lhs, Sym(LuaOp(op)) >>)
           w   == Write(Closing(op))
<1>1. Operation(h, other, fresh) = << a >> \o IF binds[rhs] THEN << b, u >> ELSE << v, c, w >>
  BY DEF Operation
<1>2. WellFormed(prog) /\ n \in Terms(prog)
  BY TermStep
<1>3. 1 \in KidSlots(prog, n) /\ 2 \in KidSlots(prog, n)
  BY <1>2, Slots
<1>4. Part(a, n, {1}) /\ Part(b, n, {2}) /\ Part(c, n, {2})
  BY <1>3, TermStep
<1>5. Quiet(u) /\ Quiet(v) /\ Quiet(w)
  BY OrderOfTasks
<1>6. Precedes(n, {1}, {2})
  BY DEF Precedes, Earlier
<1> HIDE DEF n, a, b, c, u, v, w
<1>7. Arm(<< a >>, n, {1}) /\ Arm(<< b, u >>, n, {2}) /\ Arm(<< v, c, w >>, n, {2})
  BY <1>2, <1>4, <1>5, ArmTuples
<1>8. /\ Arm(<< a >> \o << b, u >>, n, {1} \cup {2})
      /\ Arm(<< a >> \o << v, c, w >>, n, {1} \cup {2})
  BY <1>2, <1>6, <1>7, ArmConcat
<1> QED BY <1>1, <1>8 DEF n

(* The operators.                                                          *)
LEMMA BinaryKeepsOrder ==
  ASSUME Inv, OrderInv, TermArithmetic \/ TermInfix \/ TermLogic PROVE OrderInv'
<1> DEFINE h == Head(todo)
           n == h.n
           X == {1} \cup {2}
<1>1. Doing("term") /\ prog[n].kind = "Binary"
  BY DEF TermArithmetic, TermInfix, TermLogic, TermArm
<1>2. todo # <<>> /\ WellFormed(prog) /\ n \in Terms(prog) /\ TermsOf(Head(todo)) = {n}
  BY <1>1, TermStep
<1>3. \A other, fresh : Arm(Operation(h, other, fresh), n, X)
  BY <1>1, OperationArm
<1>4. CASE TermArithmetic
  <2>1. Enter(Operation(h, h.temps + 2, h.temps + 3))
    BY <1>4 DEF TermArithmetic
  <2> QED BY <1>2, <1>3, <2>1, ArmKeepsOrder
<1>5. Arm(Infix(h), n, X)
  BY <1>3 DEF Infix
<1>6. CASE TermInfix
  <2>1. Enter(Infix(h))
    BY <1>6 DEF TermInfix
  <2> QED BY <1>2, <1>5, <2>1, ArmKeepsOrder
<1>7. CASE TermLogic
  <2> DEFINE u == Write(Text(<<"not", "not", "(">>))
             v == Write(Text(<<")">>))
  <2>1. Enter(<< u >> \o Infix(h) \o << v >>)
    BY <1>7 DEF TermLogic
  <2>2. Quiet(u) /\ Quiet(v)
    BY OrderOfTasks
  <2> HIDE DEF u, v
  <2>3. Arm(<< u >>, n, {}) /\ Arm(<< v >>, n, {})
    <3>1. 1 \in KidSlots(prog, n)
      BY <1>1, <1>2, Slots
    <3>2. Part(Free(Kid(prog, n, 1)), n, {1})
      BY <1>1, <3>1, TermStep
    <3> HIDE DEF n
    <3> QED BY <1>2, <2>2, <3>2, ArmTuples
  <2>4. Precedes(n, {}, X) /\ Precedes(n, {} \cup X, {})
    BY DEF Precedes
  <2> HIDE DEF h, n, X
  <2>5. Arm(<< u >> \o Infix(h), n, {} \cup X)
    BY <1>2, <1>5, <2>3, <2>4, ArmConcat
  <2>6. Arm((<< u >> \o Infix(h)) \o << v >>, n, ({} \cup X) \cup {})
    BY <1>2, <2>3, <2>4, <2>5, ArmConcat
  <2> QED BY <1>2, <2>1, <2>6, ArmKeepsOrder
<1> QED BY <1>4, <1>6, <1>7

(* The arms with one or two subterms.                                      *)
LEMMA PlainKeepsOrder ==
  ASSUME Inv, OrderInv, TermFunction \/ TermLet \/ TermPrint \/ TermProjection
  PROVE  OrderInv'
<1> DEFINE h == Head(todo)
           n == h.n
<1>1. /\ Doing("term")
      /\ prog[n].kind \in {"Function", "Let", "Print", "First", "Second"}
  BY DEF TermFunction, TermLet, TermPrint, TermProjection, TermArm
<1>2. todo # <<>> /\ WellFormed(prog) /\ n \in Terms(prog) /\ TermsOf(Head(todo)) = {n}
  BY <1>1, TermStep
<1>3. (\A text : Quiet(Write(text))) /\ Quiet(FunctionEnd)
  BY OrderOfTasks
<1>4. 1 \in KidSlots(prog, n) /\ (prog[n].kind = "Let" => 2 \in KidSlots(prog, n))
  BY <1>1, <1>2, Slots
<1>5. \A k \in KidSlots(prog, n) :
        \A temps, bind : Part(Term(Kid(prog, n, k), temps, bind), n, {k})
  BY <1>1, TermStep
<1>6. CASE TermFunction
  <2> DEFINE u == Write(<< h.bind >> \o Text(<<"=", "function", "(">>)
                          \o PlainParameters(prog[h.n].parameters)
                          \o Text(<<")">>))
             a == Term(Kid(prog, n, 1), 1, Temp(0))
  <2>1. Enter(<< u, a, FunctionEnd >>)
    BY <1>6 DEF TermFunction
  <2>2. Part(a, n, {1}) /\ Quiet(u)
    BY <1>3, <1>4, <1>5
  <2> HIDE DEF a, u, n
  <2>3. Arm(<< u, a, FunctionEnd >>, n, {1})
    BY <1>2, <1>3, <2>2, ArmTuples
  <2> QED BY <1>2, <2>1, <2>3, ArmKeepsOrder
<1>7. CASE TermLet
  <2> DEFINE name == VarName(prog[h.n].name)
             u == Write(IF prog[h.n].name = "_" THEN <<>> ELSE << Sym("local"), name >>)
             a == Term(Kid(prog, n, 1), h.temps + 1, name)
             b == Term(Kid(prog, n, 2), h.temps + 1, h.bind)
  <2>1. prog[n].kind = "Let" /\ Enter(<< u, a, b >>)
    BY <1>7 DEF TermLet, TermArm
  <2>2. Part(a, n, {1}) /\ Part(b, n, {2}) /\ Quiet(u)
    BY <1>3, <1>4, <1>5, <2>1
  <2>3. Precedes(n, {1}, {2})
    BY DEF Precedes, Earlier
  <2> HIDE DEF a, b, u, n
  <2>4. Arm(<< u, a, b >>, n, {1} \cup {2})
    BY <1>2, <2>2, <2>3, ArmPairs
  <2> QED BY <1>2, <2>1, <2>4, ArmKeepsOrder
<1>8. CASE TermPrint \/ TermProjection
  <2>1. \E temps, bind, text :
          Enter(<< Term(Kid(prog, n, 1), temps, bind), Write(text) >>)
    BY <1>8 DEF TermPrint, TermProjection
  <2>2. PICK temps, bind, text :
          Enter(<< Term(Kid(prog, n, 1), temps, bind), Write(text) >>)
    BY <2>1
  <2> DEFINE a == Term(Kid(prog, n, 1), temps, bind)
             v == Write(text)
  <2>3. Part(a, n, {1}) /\ Quiet(v) /\ Enter(<< a, v >>)
    BY <1>3, <1>4, <1>5, <2>2
  <2> HIDE DEF a, v, n
  <2>4. Arm(<< a, v >>, n, {1})
    BY <1>2, <2>3, ArmTuples
  <2> QED BY <1>2, <2>3, <2>4, ArmKeepsOrder
<1> QED BY <1>6, <1>7, <1>8

(* An if: the condition, then the branches.                                *)
LEMMA IfKeepsOrder == ASSUME Inv, OrderInv, TermIf PROVE OrderInv'
<1> DEFINE h     == Head(todo)
           n     == h.n
           cond  == Kid(prog, n, 1)
           temps == IF binds[cond] THEN h.temps + 1 ELSE h.temps
           a     == Term(cond, h.temps + 1, Temp(h.temps))
           b     == Free(cond)
           u     == Write(<< Sym("if"), Temp(h.temps), Sym("then") >>)
           v     == Write(Text(<<"if">>))
           w     == Write(Text(<<"then">>))
           c     == Term(Kid(prog, n, 2), temps, h.bind)
           d     == Term(Kid(prog, n, 3), temps, h.bind)
           e     == Write(Text(<<"end">>))
           X     == {2} \cup {3}
<1>1. /\ Doing("term") /\ prog[n].kind = "If"
      /\ Enter((IF binds[cond] THEN << a, u >> ELSE << v, b, w >>) \o << c, Else, d, e >>)
  BY DEF TermIf, TermArm
<1>2. todo # <<>> /\ WellFormed(prog) /\ n \in Terms(prog) /\ TermsOf(Head(todo)) = {n}
  BY <1>1, TermStep
<1>3. Quiet(u) /\ Quiet(v) /\ Quiet(w) /\ Quiet(e) /\ Quiet(Else)
  BY OrderOfTasks
<1>4. KidSlots(prog, n) = {1, 2, 3}
  BY <1>1, <1>2, Slots
<1>5. /\ Part(a, n, {1}) /\ Part(b, n, {1})
      /\ Part(c, n, {2}) /\ Part(d, n, {3})
  BY <1>1, <1>4, TermStep
<1>6. Precedes(n, {1}, X) /\ Precedes(n, {2}, {3})
  BY DEF Precedes, Earlier
<1> HIDE DEF h, n, a, b, c, d, e, u, v, w, X
<1>7. Arm(<< a, u >>, n, {1}) /\ Arm(<< v, b, w >>, n, {1})
  BY <1>2, <1>3, <1>5, ArmTuples
<1>8. Arm(<< c, Else, d, e >>, n, X)
  BY <1>2, <1>3, <1>5, <1>6, ArmPairs DEF X
<1>9. /\ Arm(<< a, u >> \o << c, Else, d, e >>, n, {1} \cup X)
      /\ Arm(<< v, b, w >> \o << c, Else, d, e >>, n, {1} \cup X)
  BY <1>2, <1>6, <1>7, <1>8, ArmConcat
<1> QED BY <1>1, <1>2, <1>9, ArmKeepsOrder

(* A tuple.                                                                *)
LEMMA TupleKeepsOrder == ASSUME Inv, OrderInv, TermTuple PROVE OrderInv'
<1> DEFINE h      == Head(todo)
           n      == h.n
           second == Kid(prog, n, 2)
           a      == Term(Kid(prog, n, 1), h.temps + 1, Temp(h.temps))
           b      == Term(second, h.temps + 2, Temp(h.temps + 1))
           c      == Free(second)
           u      == Write(<< h.bind >> \o Text(<<"=", "(", "{">>)
                             \o << Temp(h.temps), Sym(","), Temp(h.temps + 1) >>
                             \o Text(<<"}", ")">>))
           v      == Write(<< h.bind >> \o Text(<<"=", "{">>)
                             \o << Temp(h.temps), Sym(",") >>)
           w      == Write(Text(<<"}">>))
<1>1. /\ Doing("term") /\ prog[n].kind = "Tuple"
      /\ Enter(<< a >> \o IF ~InPlace(second) THEN << b, u >> ELSE << v, c, w >>)
  BY DEF TermTuple, TermArm
<1>2. todo # <<>> /\ WellFormed(prog) /\ n \in Terms(prog) /\ TermsOf(Head(todo)) = {n}
  BY <1>1, TermStep
<1>3. Quiet(u) /\ Quiet(v) /\ Quiet(w)
  BY OrderOfTasks
<1>4. KidSlots(prog, n) = {1, 2}
  BY <1>1, <1>2, Slots
<1>5. Part(a, n, {1}) /\ Part(b, n, {2}) /\ Part(c, n, {2})
  BY <1>1, <1>4, TermStep
<1>6. Precedes(n, {1}, {2})
  BY DEF Precedes, Earlier
<1> HIDE DEF h, n, a, b, c, u, v, w
<1>7. Arm(<< a >>, n, {1}) /\ Arm(<< b, u >>, n, {2}) /\ Arm(<< v, c, w >>, n, {2})
  BY <1>2, <1>3, <1>5, ArmTuples
<1>8. /\ Arm(<< a >> \o << b, u >>, n, {1} \cup {2})
      /\ Arm(<< a >> \o << v, c, w >>, n, {1} \cup {2})
  BY <1>2, <1>6, <1>7, ArmConcat
<1> QED BY <1>1, <1>2, <1>8, ArmKeepsOrder

-----------------------------------------------------------------------------
(* The other steps.                                                        *)

(* The calls that take the place of a loop: its first term, and a loop     *)
(* over the others.                                                        *)
LoopsOn(h, a, b) == Within(a, h) /\ Within(b, h) /\ Ahead(a, b)

LEMMA LoopGoesOn ==
  ASSUME Inv, todo # <<>>, OrderInv, NEW h, h = Head(todo), h.do \in {"terms", "frees"},
         h.ns \in Seq(Terms(prog)), h.ns # <<>>
  PROVE  /\ \A temps, bind, temp : LoopsOn(h, Term(Head(h.ns), temps, bind),
                                             TermLoop(Tail(h.ns), temps, temp))
         /\ LoopsOn(h, Free(Head(h.ns)), FreeLoop(Tail(h.ns)))
<1> DEFINE ns == h.ns
           rest == Tail(ns)
           l == Len(ns)
<1>1. /\ DOMAIN ns = 1..l /\ l \in Nat /\ l >= 1 /\ Head(ns) = ns[1]
      /\ DOMAIN rest = 1..(l - 1) /\ \A x \in 1..(l - 1) : rest[x] = ns[x + 1]
  OBVIOUS
<1>2. LoopInOrder(h)
  <2>1. todo \in Seq(SafeTask)
    BY DEF Inv, Generating
  <2>2. 1 \in DOMAIN todo /\ h = todo[1]
    BY <2>1
  <2> QED BY <2>2 DEF OrderInv
<1>3. \A x, y \in 1..l : x < y => Before(ns[x], ns[y])
  BY <1>1, <1>2 DEF LoopInOrder
<1>4. TermsOf(h) = {ns[x] : x \in 1..l}
  BY <1>1 DEF TermsOf
<1>5. ASSUME NEW a, LoopInOrder(a), TermsOf(a) = {Head(ns)},
             NEW b, b.do \in {"terms", "frees"}, b.ns = rest
      PROVE  LoopsOn(h, a, b)
  <2> HIDE DEF ns, rest, l
  <2>1. TermsOf(b) = {rest[x] : x \in 1..(l - 1)}
    BY <1>1, <1>5 DEF TermsOf
  <2>2. \A x \in 1..(l - 1) : x + 1 \in 1..l /\ 1 < x + 1
    BY <1>1
  <2>3. Within(a, h)
    <3>1. 1 \in 1..l
      BY <1>1
    <3> QED BY <1>1, <1>4, <1>5, <3>1 DEF Within
  <2>4. LoopInOrder(b)
    <3> SUFFICES ASSUME NEW x \in 1..(l - 1), NEW y \in 1..(l - 1), x < y
                 PROVE  Before(rest[x], rest[y])
      BY <1>1, <1>5 DEF LoopInOrder
    <3>1. x + 1 < y + 1
      BY <1>1
    <3> QED BY <1>1, <1>3, <2>2, <3>1
  <2>5. Within(b, h)
    BY <1>1, <1>4, <2>1, <2>2, <2>4 DEF Within
  <2>6. Ahead(a, b)
    <3> SUFFICES ASSUME NEW x \in 1..(l - 1) PROVE Before(ns[1], rest[x])
      BY <1>1, <1>5, <2>1 DEF Ahead
    <3>1. 1 \in 1..l
      BY <1>1
    <3> QED BY <1>1, <1>3, <2>2, <3>1
  <2> QED BY <2>3, <2>5, <2>6 DEF LoopsOn
<1>6. ASSUME NEW temps, NEW bind, NEW temp
      PROVE  LoopsOn(h, Term(Head(ns), temps, bind), TermLoop(rest, temps, temp))
  <2> DEFINE a == Term(Head(ns), temps, bind)
             b == TermLoop(rest, temps, temp)
  <2>1. LoopInOrder(a) /\ TermsOf(a) = {Head(ns)}
    BY OrderOfTasks
  <2>2. b.do \in {"terms", "frees"} /\ b.ns = rest
    BY DEF TermLoop
  <2> HIDE DEF a, b, ns, rest
  <2>3. LoopsOn(h, a, b)
    BY <1>5, <2>1, <2>2
  <2> QED BY <2>3 DEF a, b
<1>7. LoopsOn(h, Free(Head(ns)), FreeLoop(rest))
  <2> DEFINE a == Free(Head(ns))
             b == FreeLoop(rest)
  <2>1. LoopInOrder(a) /\ TermsOf(a) = {Head(ns)}
    BY OrderOfTasks
  <2>2. b.do \in {"terms", "frees"} /\ b.ns = rest
    BY DEF FreeLoop
  <2> HIDE DEF a, b, ns, rest
  <2>3. LoopsOn(h, a, b)
    BY <1>5, <2>1, <2>2
  <2> QED BY <2>3 DEF a, b
<1> QED BY <1>6, <1>7

(* The loop that generates arguments into temporaries.                     *)
LEMMA NextTermKeepsOrder == ASSUME Inv, OrderInv, NextTerm PROVE OrderInv'
<1> DEFINE h == Head(todo)
           a == Term(Head(h.ns), h.temps, Temp(h.temp))
           b == TermLoop(Tail(h.ns), h.temps, h.temp + 1)
<1>1. Doing("terms") /\ Enter(IF h.ns = <<>> THEN <<>> ELSE << a, b >>)
  BY DEF NextTerm
<1>2. todo # <<>> /\ h \in SafeTask /\ h.do = "terms"
  BY <1>1, Pending
<1>3. h.ns \in Seq(Terms(prog))
  BY <1>2, SafeTaskFields
<1>4. CASE h.ns = <<>>
  <2>1. OrderCalls(Head(todo), <<>>)
    BY DEF OrderCalls, InOrder, IsSeq
  <2> QED BY <1>1, <1>2, <1>4, <2>1, EnterKeepsOrder DEF Enter, annotateVars
<1>5. CASE h.ns # <<>>
  <2>1. LoopsOn(h, a, b)
    BY <1>2, <1>3, <1>5, LoopGoesOn
  <2>2. OrderCalls(h, << a, b >>)
    <3> DEFINE s == << a, b >>
    <3>1. IsSeq(s) /\ Len(s) = 2 /\ DOMAIN s = 1..2 /\ s[1] = a /\ s[2] = b
      BY DEF IsSeq
    <3> HIDE DEF s, a, b, h
    <3>2. \A i, j \in 1..2 : i < j => i = 1 /\ j = 2
      OBVIOUS
    <3>3. InOrder(s)
      BY <2>1, <3>1, <3>2 DEF InOrder, LoopsOn
    <3>4. \A i \in 1..2 : i = 1 \/ i = 2
      OBVIOUS
    <3>5. OrderCalls(h, s)
      BY <2>1, <3>1, <3>3, <3>4 DEF OrderCalls, LoopsOn
    <3> QED BY <3>5 DEF s
  <2> QED BY <1>1, <1>2, <1>5, <2>2, EnterKeepsOrder DEF Enter, annotateVars
<1> QED BY <1>4, <1>5

(* The loop that writes arguments in place.                                *)
LEMMA NextFreeKeepsOrder == ASSUME Inv, OrderInv, NextFree PROVE OrderInv'
<1> DEFINE h == Head(todo)
           a == Free(Head(h.ns))
           w == Write(Text(<<",">>))
           b == FreeLoop(Tail(h.ns))
<1>1. /\ Doing("frees")
      /\ Enter(CASE Len(h.ns) = 0 -> <<>> [] Len(h.ns) = 1 -> << a >>
                 [] OTHER -> << a, w, b >>)
  BY DEF NextFree
<1>2. todo # <<>> /\ h \in SafeTask /\ h.do = "frees"
  BY <1>1, Pending
<1>3. h.ns \in Seq(Terms(prog))
  BY <1>2, SafeTaskFields
<1>4. CASE h.ns = <<>>
  <2>1. OrderCalls(Head(todo), <<>>)
    BY DEF OrderCalls, InOrder, IsSeq
  <2>2. Len(h.ns) = 0
    BY <1>4
  <2>3. (CASE Len(h.ns) = 0 -> <<>> [] Len(h.ns) = 1 -> << a >>
           [] OTHER -> << a, w, b >>) = <<>>
    <3> HIDE DEF a, w, b, h
    <3> QED BY <2>2
  <2>4. Enter(<<>>)
    BY <1>1, <2>3
  <2> QED BY <1>2, <2>1, <2>4, EnterKeepsOrder DEF Enter, annotateVars
<1>5. CASE h.ns # <<>>
  <2>1. LoopsOn(h, a, b)
    BY <1>2, <1>3, <1>5, LoopGoesOn
  <2>2. Quiet(w)
    BY OrderOfTasks
  <2>3. Within(w, h)
    BY <2>2 DEF Quiet, Within
  <2>4. OrderCalls(h, << a >>)
    <3> DEFINE s == << a >>
    <3>1. IsSeq(s) /\ Len(s) = 1 /\ DOMAIN s = 1..1 /\ s[1] = a
      BY DEF IsSeq
    <3> HIDE DEF s, a, b, h
    <3>2. OrderCalls(h, s)
      BY <2>1, <3>1 DEF OrderCalls, LoopsOn, InOrder
    <3> QED BY <3>2 DEF s
  <2>5. OrderCalls(h, << a, w, b >>)
    <3> DEFINE s == << a, w, b >>
    <3> HIDE DEF a, w, b, h
    <3>1. IsSeq(s) /\ Len(s) = 3 /\ DOMAIN s = 1..3 /\ s[1] = a /\ s[2] = w /\ s[3] = b
      BY DEF IsSeq
    <3> HIDE DEF s
    <3>2. Ahead(a, w) /\ Ahead(w, b)
      BY <2>2, QuietAhead
    <3>3. \A i, j \in 1..3 : i < j => \/ i = 1 /\ j = 2
                                      \/ i = 2 /\ j = 3
                                      \/ i = 1 /\ j = 3
      OBVIOUS
    <3>4. InOrder(s)
      BY <2>1, <3>1, <3>2, <3>3 DEF InOrder, LoopsOn
    <3>5. \A i \in 1..3 : i = 1 \/ i = 2 \/ i = 3
      OBVIOUS
    <3>6. OrderCalls(h, s)
      BY <2>1, <2>3, <3>1, <3>4, <3>5 DEF OrderCalls, LoopsOn
    <3> QED BY <3>6 DEF s
  <2>6. Len(h.ns) # 0
    BY <1>3, <1>5
  <2>7. PICK calls : Enter(calls) /\ OrderCalls(Head(todo), calls)
    BY <1>1, <2>4, <2>5, <2>6
  <2> QED BY <1>2, <2>7, EnterKeepsOrder DEF Enter, annotateVars
<1> QED BY <1>4, <1>5

(* A text is written.                                                      *)
LEMMA WriteKeepsOrder == ASSUME Inv, OrderInv, WriteText PROVE OrderInv'
<1>1. todo # <<>> /\ prog' = prog /\ todo' = Tail(todo)
  BY DEF WriteText, Doing, annotateVars
<1>2. todo \in Seq(SafeTask)
  BY DEF Inv, Generating
<1>3. todo' = <<>> \o Tail(todo)
  BY <1>1, <1>2
<1>4. OrderCalls(Head(todo), <<>>)
  BY DEF OrderCalls, InOrder, IsSeq
<1> QED BY <1>1, <1>3, <1>4, EnterKeepsOrder

(* The program starts with its root.                                       *)
LEMMA BeginKeepsOrder == ASSUME Inv, OrderInv, BeginProgram PROVE OrderInv'
<1> DEFINE u == Write(Text(<<"PRELUDE", "do", "TEMPS", "local">>) \o << VarName("_") >>)
           t == Term(Root(prog), 0, Ret)
           v == Write(Text(<<"end", "POSTLUDE">>))
           s == << u, t, v >>
<1>1. todo' = s /\ prog' = prog
  BY DEF BeginProgram, annotateVars
<1>2. Quiet(u) /\ Quiet(v) /\ LoopInOrder(t)
  BY OrderOfTasks
<1>3. Len(s) = 3 /\ DOMAIN s = 1..3 /\ s[1] = u /\ s[2] = t /\ s[3] = v
  OBVIOUS
<1> HIDE DEF u, t, v, s
<1>4. \A i \in 1..3 : i = 2 \/ Quiet(s[i])
  BY <1>2, <1>3
<1>5. InOrder(s)
  <2> SUFFICES ASSUME NEW i \in 1..3, NEW j \in 1..3, i < j
               PROVE  Ahead(s[i], s[j])
    BY <1>3 DEF InOrder
  <2> QED BY <1>4, QuietAhead
<1>6. \A i \in DOMAIN s : LoopInOrder(s[i])
  BY <1>2, <1>3, <1>4 DEF Quiet
<1> QED BY <1>1, <1>5, <1>6, OrderOfNext

(* The steps of generate_term.                                             *)
LEMMA TermNextKeepsOrder == ASSUME Inv, OrderInv, TermNext PROVE OrderInv'
BY InPlaceKeepsOrder, BoundCalleeKeepsOrder, FreeCalleeKeepsOrder, BinaryKeepsOrder,
   PlainKeepsOrder, IfKeepsOrder, TupleKeepsOrder DEF TermNext

(* Every step keeps the invariant.                                         *)
LEMMA NextKeepsOrder == Inv /\ OrderInv /\ [Next]_vars => OrderInv'
<1> SUFFICES ASSUME Inv, OrderInv, [Next]_vars PROVE OrderInv'
  OBVIOUS
<1>1. CASE AnnotateStep
  <2>1. todo' = <<>>
    BY <1>1 DEF AnnotateStep, Inv, Generating, genVars
  <2> QED BY <2>1 DEF OrderInv, InOrder
<1>2. CASE BeginProgram
  BY <1>2, BeginKeepsOrder
<1>3. CASE WriteText
  BY <1>3, WriteKeepsOrder
<1>4. CASE NextTerm
  BY <1>4, NextTermKeepsOrder
<1>5. CASE NextFree
  BY <1>5, NextFreeKeepsOrder
<1>6. CASE FreeNext
  BY <1>6, FreeNextKeepsOrder
<1>7. CASE TermNext
  BY <1>7, TermNextKeepsOrder
<1>8. CASE Finish \/ Terminated \/ UNCHANGED vars
  <2>1. prog' = prog /\ todo' = todo
    BY <1>8 DEF Finish, Terminated, vars, annotateVars, genVars
  <2> QED BY <2>1, OrderOfNext DEF OrderInv
<1> QED BY <1>1, <1>2, <1>3, <1>4, <1>5, <1>6, <1>7, <1>8 DEF Next

(* The subterms of every term are generated in the order of the source,    *)
(* for every program and every MAX_DEPTH; only the callee of a call may    *)
(* come after arguments of it.                                             *)
THEOREM TermsInSourceOrder == Spec => []SourceOrder
<1>1. Init => OrderInv
  BY DEF Init, OrderInv, InOrder
<1>2. OrderInv => SourceOrder
  BY DEF OrderInv, InOrder, Ahead, Before, InSource, Earlier, SourceOrder
<1> QED BY <1>1, <1>2, NextKeepsOrder, InvAlways, PTL DEF Spec

==============================================================================
