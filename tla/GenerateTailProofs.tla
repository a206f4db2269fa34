------------------------- MODULE GenerateTailProofs -------------------------
(***************************************************************************)
(* Proofs about what the arms of generate_term do with a value, for every  *)
(* set of programs and every MAX_DEPTH: returning early skips nothing, and *)
(* every arm but the one of print leaves the value of its term.            *)
(*                                                                         *)
(* The argument for the first.  The terms in tail position of a function   *)
(* body are the least set that holds every body, and with a Let what       *)
(* follows it, with an If both branches (TailTerms).  anotate puts the     *)
(* mark last only on terms of that set.  The generator reaches a term of   *)
(* that set either as the body of a function, with the end of the literal  *)
(* as its very next task, or from a Let or an If of the set, to which it   *)
(* hands on the bind and adds only the other branch: so after such a term  *)
(* there is nothing to do but the branches not taken, until the function   *)
(* ends (EndsFunction).  It cannot be reached in any other way, because a  *)
(* term is the subterm of one term, in one place.                          *)
(***************************************************************************)
EXTENDS GenerateProofs

-----------------------------------------------------------------------------
(* The terms in tail position.                                             *)

(* Subterm k of m is called with the mark last if m is in tail position.   *)
PassesTail(m, k) ==
  \/ prog[m].kind = "Let" /\ k = 2
  \/ prog[m].kind = "If" /\ k \in {2, 3}

TailClosed(N) ==
  \A m \in Terms(prog) : \A k \in KidSlots(prog, m) :
    (prog[m].kind = "Function" \/ (m \in N /\ PassesTail(m, k)))
      => Kid(prog, m, k) \in N

(* The terms in tail position of a function body: the least closed set.    *)
TailTerms ==
  { n \in Terms(prog) :
      \A N \in SUBSET Terms(prog) : TailClosed(N) => n \in N }

(* The body of a function is in tail position, and so are what follows a   *)
(* let that is and the branches of an if that is.                          *)
LEMMA TailTermsClosed ==
  ASSUME WellFormed(prog)
  PROVE  TailClosed(TailTerms)
<1> SUFFICES ASSUME NEW m \in Terms(prog), NEW k \in KidSlots(prog, m),
                    prog[m].kind = "Function" \/ (m \in TailTerms /\ PassesTail(m, k)),
                    NEW N \in SUBSET Terms(prog), TailClosed(N)
             PROVE  Kid(prog, m, k) \in N
  BY KidIsTerm DEF TailClosed, TailTerms
<1>1. m \in TailTerms => m \in N
  BY DEF TailTerms
<1> QED BY <1>1 DEF TailClosed

(* Nothing else is in tail position: a term that is, is the body of a      *)
(* function, or its parent is in tail position and passes that on.         *)
LEMMA TailTermsInverted ==
  ASSUME WellFormed(prog), NEW n \in TailTerms
  PROVE  \E m \in Terms(prog) : \E k \in KidSlots(prog, m) :
           /\ n = Kid(prog, m, k)
           /\ prog[m].kind = "Function" \/ (m \in TailTerms /\ PassesTail(m, k))
<1> DEFINE From(x) == \E m \in Terms(prog) : \E k \in KidSlots(prog, m) :
                        /\ x = Kid(prog, m, k)
                        /\ \/ prog[m].kind = "Function"
                           \/ m \in TailTerms /\ PassesTail(m, k)
           N == {x \in TailTerms : From(x)}
<1>1. TailClosed(N)
  <2> SUFFICES ASSUME NEW m \in Terms(prog), NEW k \in KidSlots(prog, m),
                      prog[m].kind = "Function" \/ (m \in N /\ PassesTail(m, k))
               PROVE  Kid(prog, m, k) \in N
    BY DEF TailClosed
  <2>1. prog[m].kind = "Function" \/ (m \in TailTerms /\ PassesTail(m, k))
    OBVIOUS
  <2>2. Kid(prog, m, k) \in TailTerms
    BY <2>1, TailTermsClosed DEF TailClosed
  <2>3. From(Kid(prog, m, k))
    BY <2>1
  <2> QED BY <2>2, <2>3
<1>2. N \in SUBSET Terms(prog)
  BY DEF TailTerms
<1>3. n \in N
  <2> HIDE DEF N
  <2> QED BY <1>1, <1>2 DEF TailTerms
<1> QED BY <1>3

(* A subterm in tail position: as it is a subterm in one place only, its   *)
(* parent is a function, or passes its own tail position on.               *)
LEMMA TailKid ==
  ASSUME WellFormed(prog), NEW m \in Terms(prog), NEW k \in KidSlots(prog, m),
         Kid(prog, m, k) \in TailTerms
  PROVE  prog[m].kind = "Function" \/ (m \in TailTerms /\ PassesTail(m, k))
<1>1. PICK p \in Terms(prog) : \E j \in KidSlots(prog, p) :
        /\ Kid(prog, m, k) = Kid(prog, p, j)
        /\ prog[p].kind = "Function" \/ (p \in TailTerms /\ PassesTail(p, j))
  BY TailTermsInverted
<1>2. PICK j \in KidSlots(prog, p) :
        /\ Kid(prog, m, k) = Kid(prog, p, j)
        /\ prog[p].kind = "Function" \/ (p \in TailTerms /\ PassesTail(p, j))
  BY <1>1
<1>3. m = p /\ k = j
  BY <1>2 DEF WellFormed
<1> QED BY <1>2, <1>3

(* The whole program is in no function's tail position.                    *)
LEMMA RootNotInTail ==
  ASSUME WellFormed(prog), Len(prog) \in Nat
  PROVE  Root(prog) \notin TailTerms
<1> SUFFICES ASSUME Root(prog) \in TailTerms PROVE FALSE
  OBVIOUS
<1>1. PICK m \in Terms(prog) : \E k \in KidSlots(prog, m) : Root(prog) = Kid(prog, m, k)
  BY TailTermsInverted
<1>2. Root(prog) \in 1..(m-1)
  BY <1>1, KidIsTerm
<1> QED BY <1>2 DEF Root, Terms

-----------------------------------------------------------------------------
(* The marks.                                                              *)

(* anotate puts the mark last only on terms in tail position.              *)
LastInTail == \A n \in Terms(prog) : last[n] => n \in TailTerms

(* A step of anotate on the way down marks only terms in tail position.    *)
LEMMA DescendKeepsLastInTail ==
  ASSUME Inv, LastInTail, Descend
  PROVE  LastInTail'
<1>1. WellFormed(prog) /\ at \in Terms(prog) /\ prog' = prog
  BY InvProgram DEF Inv, AnnotateTypeOK, Descend
<1>2. TailTerms' = TailTerms
  BY <1>1 DEF TailTerms, TailClosed, PassesTail
<1> SUFFICES ASSUME NEW n \in Terms(prog), last'[n] PROVE n \in TailTerms
  BY <1>1, <1>2 DEF LastInTail
<1>3. last'[n] = (IF n = at THEN last[at] /\ prog[at].kind # "Let"
                  ELSE IF n \in Kids(prog, at)
                       THEN \E k \in KidSlots(prog, at) :
                              n = Kid(prog, at, k) /\ PassedLast(at, k)
                       ELSE last[n])
  BY DEF Descend
<1>4. CASE n = at \/ n \notin Kids(prog, at)
  BY <1>1, <1>3, <1>4 DEF LastInTail
<1>5. CASE n # at /\ n \in Kids(prog, at)
  <2>1. PICK k \in KidSlots(prog, at) : n = Kid(prog, at, k) /\ PassedLast(at, k)
    BY <1>3, <1>5
  <2>2. /\ prog[at].kind = "Function" \/ PassesTail(at, k)
        /\ prog[at].kind # "Function" => last[at]
    BY <2>1 DEF PassedLast, PassesTail
  <2>3. prog[at].kind = "Function" \/ (at \in TailTerms /\ PassesTail(at, k))
    BY <1>1, <2>2 DEF LastInTail
  <2> QED BY <1>1, <2>1, <2>3, TailTermsClosed DEF TailClosed
<1> QED BY <1>4, <1>5

-----------------------------------------------------------------------------
(* What is still to do after a term in tail position.                      *)

(* The other branch of an If: cur is generated, but never executed after   *)
(* what precedes it has returned.                                          *)
Skipped(prev, cur) ==
  \/ cur = Else \/ cur = Write(Text(<<"end">>))
  \/ cur.do = "term" /\ prev = Else

(* The i-th task leaves its value in the result of the function, and all   *)
(* that is still to do before the function ends is skipped.                *)
EndsFunction(s, i) ==
  \E j \in (i+1)..Len(s) :
    /\ s[j] = FunctionEnd
    /\ s[i].bind = Temp(0)
    /\ \A m \in (i+1)..(j-1) : Skipped(s[m-1], s[m])

(* A task that generates statements for no term in tail position.          *)
Clean(task) ==
  /\ task.do = "term" => task.n \notin TailTerms
  /\ task.do = "terms" => \A x \in DOMAIN task.ns : task.ns[x] \notin TailTerms

TailTodo ==
  \A i \in DOMAIN todo :
    Clean(todo[i]) \/ (todo[i].do = "term" /\ EndsFunction(todo, i))

TailInv == LastInTail /\ TailTodo

(* A call in the body of a function literal, and one that an arm hands its *)
(* own place on to.                                                        *)
Literal(calls, i) ==
  /\ i + 1 \in 1..Len(calls)
  /\ calls[i + 1] = FunctionEnd
  /\ calls[i].bind = Temp(0)

Handed(h, calls, i) ==
  /\ h.do = "term" /\ ~Clean(h)
  /\ calls[i].bind = h.bind
  /\ \A m \in (i+1)..Len(calls) : Skipped(calls[m-1], calls[m])

TailCalls(h, calls) ==
  \A i \in 1..Len(calls) :
    \/ Clean(calls[i])
    \/ calls[i].do = "term" /\ (Literal(calls, i) \/ Handed(h, calls, i))

(* The end of an If is not what ends a function.                           *)
LEMMA TaskKinds ==
  /\ Else.do = "write" /\ FunctionEnd.do = "write"
  /\ \A n, temps, bind : Term(n, temps, bind).do = "term"
BY DEF Else, FunctionEnd, Write, Term

(* Naming the end of the function.                                         *)
LEMMA EndsAt ==
  ASSUME NEW s, NEW i, NEW j \in (i+1)..Len(s),
         s[j] = FunctionEnd, s[i].bind = Temp(0),
         \A m \in (i+1)..(j-1) : Skipped(s[m-1], s[m])
  PROVE  EndsFunction(s, i)
BY DEF EndsFunction

(* The tasks behind the first one keep what ends their function.           *)
LEMMA SuffixEndsFunction ==
  ASSUME NEW S, NEW s \in Seq(S), s # <<>>,
         NEW T, NEW calls \in Seq(T), NEW next, next = calls \o Tail(s),
         NEW i \in 2..Len(s), EndsFunction(s, i)
  PROVE  EndsFunction(next, i + Len(calls) - 1)
<1> DEFINE k == Len(calls)
<1>1. /\ k \in Nat /\ Len(s) \in Nat /\ Len(next) = k + Len(s) - 1
      /\ \A x \in 2..Len(s) : next[x + k - 1] = s[x]
  <2>1. /\ Len(calls) \in Nat /\ Len(s) \in Nat
        /\ Len(next) = Len(calls) + Len(s) - 1
        /\ \A x \in 2..Len(s) : next[x + Len(calls) - 1] = s[x]
    BY Replaced, SMTT(20)
  <2>2. \A x \in 2..Len(s) : x + k - 1 = x + Len(calls) - 1
    OBVIOUS
  <2> QED BY <2>1, <2>2
<1>2. PICK j \in (i+1)..Len(s) :
        /\ s[j] = FunctionEnd
        /\ s[i].bind = Temp(0)
        /\ \A m \in (i+1)..(j-1) : Skipped(s[m-1], s[m])
  BY DEF EndsFunction
<1> HIDE DEF k
<1>3. j + k - 1 \in (i + k - 1 + 1)..Len(next)
  BY <1>1
<1>4. next[j + k - 1] = FunctionEnd /\ next[i + k - 1].bind = Temp(0)
  <2>1. j \in 2..Len(s) /\ i \in 2..Len(s)
    BY <1>1
  <2>2. next[j + k - 1] = s[j] /\ next[i + k - 1] = s[i]
    BY <1>1, <2>1
  <2> QED BY <1>2, <2>2
<1>5. ASSUME NEW m \in (i + k - 1 + 1)..(j + k - 1 - 1)
      PROVE  Skipped(next[m-1], next[m])
  <2>1. /\ m - k + 1 \in (i+1)..(j-1) /\ (m - k + 1) - 1 = m - k
        /\ m - k + 1 \in 2..Len(s) /\ m - k \in 2..Len(s)
        /\ (m - k + 1) + k - 1 = m /\ (m - k) + k - 1 = m - 1
    BY <1>1
  <2>2. next[m] = s[m - k + 1] /\ next[m - 1] = s[m - k]
    BY <1>1, <2>1
  <2> QED BY <1>2, <2>1, <2>2
<1>6. EndsFunction(next, i + k - 1)
  <2> DEFINE p == i + k - 1
             e == j + k - 1
  <2>1. /\ e \in (p+1)..Len(next)
        /\ next[e] = FunctionEnd /\ next[p].bind = Temp(0)
        /\ \A m \in (p+1)..(e-1) : Skipped(next[m-1], next[m])
    <3>1. e \in (p+1)..Len(next)
      BY <1>3
    <3>2. next[e] = FunctionEnd /\ next[p].bind = Temp(0)
      BY <1>4
    <3>3. e - 1 = j + k - 1 - 1 /\ p + 1 = i + k - 1 + 1
      BY <1>1
    <3> HIDE DEF p, e
    <3> QED BY <1>5, <3>1, <3>2, <3>3, Zenon
  <2> HIDE DEF p, e
  <2>2. EndsFunction(next, p)
    BY <2>1, EndsAt, Zenon
  <2> QED BY <2>2 DEF p
<1> QED BY <1>6 DEF k

(* A call that takes the place of the first task ends the function as the  *)
(* first task did.                                                         *)
LEMMA HandedEndsFunction ==
  ASSUME NEW S, NEW s \in Seq(S), s # <<>>,
         NEW T, NEW calls \in Seq(T), NEW next, next = calls \o Tail(s),
         EndsFunction(s, 1), NEW i \in 1..Len(calls), Handed(s[1], calls, i)
  PROVE  EndsFunction(next, i)
<1> DEFINE k == Len(calls)
<1>1. /\ k \in Nat /\ Len(s) \in Nat /\ Len(next) = k + Len(s) - 1
      /\ \A x \in 1..k : next[x] = calls[x]
      /\ \A x \in 2..Len(s) : next[x + k - 1] = s[x]
  BY Replaced
<1>2. PICK j \in 2..Len(s) :
        /\ s[j] = FunctionEnd
        /\ s[1].bind = Temp(0)
        /\ \A m \in 2..(j-1) : Skipped(s[m-1], s[m])
  BY DEF EndsFunction
<1>3. /\ s[1].do = "term"
      /\ calls[i].bind = s[1].bind
      /\ \A m \in (i+1)..k : Skipped(calls[m-1], calls[m])
  BY DEF Handed
<1> HIDE DEF k
<1>4. i \in Nat /\ i >= 1 /\ i <= k
  BY <1>1 DEF k
<1>5. j + k - 1 \in (i+1)..Len(next)
  BY <1>1, <1>4
<1>6. next[j + k - 1] = FunctionEnd /\ next[i].bind = Temp(0)
  BY <1>1, <1>2, <1>3, <1>4
<1>7. ASSUME NEW m \in (i+1)..(j + k - 1 - 1)
      PROVE  Skipped(next[m-1], next[m])
  <2>1. CASE m <= k
    <3>1. m \in 1..k /\ m - 1 \in 1..k /\ m \in (i+1)..k
      BY <1>1, <1>4, <2>1
    <3> QED BY <1>1, <1>3, <3>1
  <2>2. CASE m = k + 1
    <3>1. 2 \in 2..(j-1) /\ 2 \in 2..Len(s) /\ 2 + k - 1 = m /\ 2 - 1 = 1
      BY <1>1, <2>2
    <3>2. next[m] = s[2] /\ Skipped(s[1], s[2])
      BY <1>1, <1>2, <3>1
    <3>3. s[1] # Else
      BY <1>3, TaskKinds
    <3> QED BY <3>2, <3>3 DEF Skipped
  <2>3. CASE m > k + 1
    <3>1. /\ m - k + 1 \in 2..(j-1) /\ (m - k + 1) - 1 = m - k
          /\ m - k + 1 \in 2..Len(s) /\ m - k \in 2..Len(s)
          /\ (m - k + 1) + k - 1 = m /\ (m - k) + k - 1 = m - 1
      BY <1>1, <1>4, <2>3
    <3>2. next[m] = s[m - k + 1] /\ next[m - 1] = s[m - k]
      BY <1>1, <3>1
    <3> QED BY <1>2, <3>1, <3>2
  <2>4. m <= k \/ m = k + 1 \/ m > k + 1
    BY <1>1, <1>4
  <2> QED BY <2>1, <2>2, <2>3, <2>4, Zenon
<1>8. EndsFunction(next, i)
  <2> DEFINE e == j + k - 1
  <2>1. /\ e \in (i+1)..Len(next)
        /\ next[e] = FunctionEnd /\ next[i].bind = Temp(0)
        /\ \A m \in (i+1)..(e-1) : Skipped(next[m-1], next[m])
    <3>1. e \in (i+1)..Len(next)
      BY <1>5
    <3>2. next[e] = FunctionEnd /\ next[i].bind = Temp(0)
      BY <1>6
    <3>3. e - 1 = j + k - 1 - 1
      BY <1>1, <1>4
    <3> HIDE DEF e
    <3> QED BY <1>7, <3>1, <3>2, <3>3, Zenon
  <2> HIDE DEF e
  <2> QED BY <2>1, EndsAt, Zenon
<1> QED BY <1>8

(* Replacing the first task by the calls of its arm keeps the invariant.   *)
LEMMA CallsKeepTail ==
  ASSUME Inv, TailInv, todo # <<>>, UNCHANGED <<prog, last>>,
         NEW T, NEW calls \in Seq(T), todo' = calls \o Tail(todo),
         TailCalls(Head(todo), calls)
  PROVE  TailInv'
<1> DEFINE k == Len(calls)
<1>1. todo \in Seq(SafeTask)
  BY DEF Inv, Generating
<1>2. TailTerms' = TailTerms
  BY DEF TailTerms, TailClosed, PassesTail
<1>3. LastInTail'
  BY <1>2 DEF TailInv, LastInTail
<1>4. /\ todo' \in Seq(SafeTask \cup T)
      /\ k \in Nat /\ Len(todo) \in Nat /\ Len(todo) >= 1
      /\ Len(todo') = k + Len(todo) - 1
      /\ \A x \in 1..k : todo'[x] = calls[x]
      /\ \A x \in 2..Len(todo) : todo'[x + k - 1] = todo[x]
      /\ Head(todo) = todo[1]
  BY <1>1, Replaced
<1> HIDE DEF k
<1>5. ASSUME NEW i \in 1..Len(todo')
      PROVE  Clean(todo'[i]) \/ (todo'[i].do = "term" /\ EndsFunction(todo', i))
  <2>1. CASE i \in 1..k
    <3>1. todo'[i] = calls[i]
      BY <1>4, <2>1
    <3>2. CASE Clean(calls[i])
      BY <3>1, <3>2
    <3>3. CASE calls[i].do = "term" /\ Literal(calls, i)
      <4>1. /\ i + 1 \in 1..k /\ calls[i + 1] = FunctionEnd
            /\ calls[i].bind = Temp(0)
        BY <3>3 DEF Literal, k
      <4>2. i + 1 \in (i+1)..Len(todo') /\ todo'[i + 1] = FunctionEnd
        BY <1>4, <4>1
      <4>3. \A m \in (i+1)..((i+1)-1) : FALSE
        OBVIOUS
      <4>4. EndsFunction(todo', i)
        BY <3>1, <4>1, <4>2, <4>3 DEF EndsFunction
      <4> QED BY <3>1, <3>3, <4>4
    <3>4. CASE calls[i].do = "term" /\ Handed(Head(todo), calls, i)
      <4>1. 1 \in DOMAIN todo /\ ~Clean(todo[1])
        BY <1>4, <3>4 DEF Handed
      <4>2. EndsFunction(todo, 1)
        BY <4>1 DEF TailInv, TailTodo
      <4>3. EndsFunction(todo', i)
        BY <1>1, <1>4, <2>1, <3>4, <4>2, HandedEndsFunction DEF k
      <4> QED BY <3>1, <3>4, <4>3
    <3> QED BY <2>1, <3>2, <3>3, <3>4 DEF TailCalls, k
  <2>2. CASE i \notin 1..k
    <3> DEFINE x == i - k + 1
    <3>1. x \in 2..Len(todo) /\ x + k - 1 = i /\ x \in DOMAIN todo
      BY <1>1, <1>4, <2>2
    <3> HIDE DEF x
    <3>2. todo'[i] = todo[x]
      BY <1>4, <3>1
    <3>3. EndsFunction(todo, x) => EndsFunction(todo', i)
      BY <1>1, <3>1, SuffixEndsFunction DEF k
    <3> QED BY <3>1, <3>2, <3>3 DEF TailInv, TailTodo
  <2> QED BY <2>1, <2>2
<1>6. TailTodo'
  <2>1. DOMAIN todo' = 1..Len(todo')
    BY <1>4
  <2> QED BY <1>2, <1>5, <2>1 DEF TailTodo, Clean, EndsFunction, Skipped
<1> QED BY <1>3, <1>6 DEF TailInv

-----------------------------------------------------------------------------
(* Arms that reach no term in tail position.                               *)

AllClean(s) == IsSeq(s) /\ \A i \in 1..Len(s) : Clean(s[i])

(* A sequence over a set of clean tasks.                                   *)
LEMMA CleanSet ==
  ASSUME NEW S, \A x \in S : Clean(x), NEW s \in Seq(S)
  PROVE  AllClean(s)
<1>1. \A i \in 1..Len(s) : s[i] \in S
  OBVIOUS
<1> QED BY <1>1, SeqIsSeq DEF AllClean

(* Sequences of clean tasks.                                               *)
LEMMA CleanTuples ==
  /\ AllClean(<<>>)
  /\ \A a : Clean(a) => AllClean(<<a>>)
  /\ \A a, b : Clean(a) /\ Clean(b) => AllClean(<<a, b>>)
  /\ \A a, b, c : Clean(a) /\ Clean(b) /\ Clean(c) => AllClean(<<a, b, c>>)
  /\ \A a, b, c, d : Clean(a) /\ Clean(b) /\ Clean(c) /\ Clean(d)
       => AllClean(<<a, b, c, d>>)
  /\ \A a, b, c, d, e : Clean(a) /\ Clean(b) /\ Clean(c) /\ Clean(d) /\ Clean(e)
       => AllClean(<<a, b, c, d, e>>)
  /\ \A a, b, c, d, e, f :
       Clean(a) /\ Clean(b) /\ Clean(c) /\ Clean(d) /\ Clean(e) /\ Clean(f)
         => AllClean(<<a, b, c, d, e, f>>)
<1>1. AllClean(<<>>)
  BY DEF AllClean, IsSeq
<1>2. ASSUME NEW a, Clean(a) PROVE AllClean(<<a>>)
  <2>1. <<a>> \in Seq({a})
    OBVIOUS
  <2>2. \A x \in {a} : Clean(x)
    BY <1>2
  <2> QED BY <2>1, <2>2, CleanSet
<1>3. ASSUME NEW a, NEW b, Clean(a), Clean(b) PROVE AllClean(<<a, b>>)
  <2>1. <<a, b>> \in Seq({a, b})
    OBVIOUS
  <2>2. \A x \in {a, b} : Clean(x)
    BY <1>3
  <2> QED BY <2>1, <2>2, CleanSet
<1>4. ASSUME NEW a, NEW b, NEW c, Clean(a), Clean(b), Clean(c)
      PROVE  AllClean(<<a, b, c>>)
  <2>1. <<a, b, c>> \in Seq({a, b, c})
    OBVIOUS
  <2>2. \A x \in {a, b, c} : Clean(x)
    BY <1>4
  <2> QED BY <2>1, <2>2, CleanSet
<1>5. ASSUME NEW a, NEW b, NEW c, NEW d, Clean(a), Clean(b), Clean(c), Clean(d)
      PROVE  AllClean(<<a, b, c, d>>)
  <2>1. <<a, b, c, d>> \in Seq({a, b, c, d})
    OBVIOUS
  <2>2. \A x \in {a, b, c, d} : Clean(x)
    BY <1>5
  <2> QED BY <2>1, <2>2, CleanSet
<1>6. ASSUME NEW a, NEW b, NEW c, NEW d, NEW e,
             Clean(a), Clean(b), Clean(c), Clean(d), Clean(e)
      PROVE  AllClean(<<a, b, c, d, e>>)
  <2>1. <<a, b, c, d, e>> \in Seq({a, b, c, d, e})
    OBVIOUS
  <2>2. \A x \in {a, b, c, d, e} : Clean(x)
    BY <1>6
  <2> QED BY <2>1, <2>2, CleanSet
<1>7. ASSUME NEW a, NEW b, NEW c, NEW d, NEW e, NEW f,
             Clean(a), Clean(b), Clean(c), Clean(d), Clean(e), Clean(f)
      PROVE  AllClean(<<a, b, c, d, e, f>>)
  <2>1. <<a, b, c, d, e, f>> \in Seq({a, b, c, d, e, f})
    OBVIOUS
  <2>2. \A x \in {a, b, c, d, e, f} : Clean(x)
    BY <1>7
  <2> QED BY <2>1, <2>2, CleanSet
<1> QED BY <1>1, <1>2, <1>3, <1>4, <1>5, <1>6, <1>7, Zenon

(* One after the other.                                                    *)
LEMMA CleanConcat ==
  ASSUME NEW s, AllClean(s), NEW t, AllClean(t)
  PROVE  AllClean(s \o t)
<1>1. IsSeq(s) /\ IsSeq(t)
  BY DEF AllClean
<1>2. /\ IsSeq(s \o t)
      /\ Len(s) \in Nat /\ Len(t) \in Nat /\ Len(s \o t) = Len(s) + Len(t)
      /\ \A i \in 1..Len(s) : (s \o t)[i] = s[i]
      /\ \A i \in 1..Len(t) : (s \o t)[i + Len(s)] = t[i]
  BY <1>1, ConcatParts
<1>3. ASSUME NEW i \in 1..Len(s \o t) PROVE Clean((s \o t)[i])
  <2>1. CASE i <= Len(s)
    <3>1. i \in 1..Len(s)
      BY <1>2, <2>1
    <3> QED BY <1>2, <3>1 DEF AllClean
  <2>2. CASE i > Len(s)
    <3>1. i - Len(s) \in 1..Len(t) /\ (i - Len(s)) + Len(s) = i
      BY <1>2, <2>2
    <3> QED BY <1>2, <3>1 DEF AllClean
  <2> QED BY <1>2, <2>1, <2>2
<1> QED BY <1>2, <1>3 DEF AllClean

(* Writes and expressions are clean.                                       *)
LEMMA CleanTasks ==
  /\ \A text : Clean(Write(text))
  /\ \A n : Clean(Free(n))
  /\ \A ns : Clean(FreeLoop(ns))
BY DEF Clean, Write, Free, FreeLoop

(* A subterm whose parent does not pass on its tail position.              *)
LEMMA CleanKid ==
  ASSUME WellFormed(prog), NEW m \in Terms(prog), NEW k \in KidSlots(prog, m),
         prog[m].kind # "Function", ~PassesTail(m, k), NEW temps, NEW bind
  PROVE  Clean(Term(Kid(prog, m, k), temps, bind))
BY TailKid DEF Clean, Term

(* The arms that only have clean calls keep the invariant.                 *)
LEMMA CleanKeepsTail ==
  ASSUME Inv, TailInv, todo # <<>>, NEW calls, AllClean(calls), Enter(calls)
  PROVE  TailInv'
<1> DEFINE T == {calls[i] : i \in DOMAIN calls}
<1>1. calls \in Seq(T) /\ TailCalls(Head(todo), calls)
  BY DEF AllClean, IsSeq, TailCalls
<1>2. UNCHANGED <<prog, last>> /\ todo' = calls \o Tail(todo)
  BY DEF Enter, annotateVars
<1> HIDE DEF T
<1> QED BY <1>1, <1>2, CallsKeepTail

-----------------------------------------------------------------------------
(* The arms.                                                               *)

(* The calls of generate_free_term write expressions, except for the body  *)
(* of a function, which ends with the literal.                             *)
LEMMA BodyKeepsTail ==
  ASSUME Inv, TailInv, todo # <<>>, NEW text, NEW n, NEW temps,
         Enter(<< Write(text), Term(n, temps, Temp(0)), FunctionEnd >>)
  PROVE  TailInv'
<1> DEFINE a == Write(text)
           b == Term(n, temps, Temp(0))
           calls == << a, b, FunctionEnd >>
<1>1. /\ Clean(a) /\ Clean(FunctionEnd)
      /\ b.do = "term" /\ b.bind = Temp(0)
  BY DEF Clean, Write, Term, FunctionEnd
<1> HIDE DEF a, b
<1>2. calls \in Seq({a, b, FunctionEnd}) /\ Len(calls) = 3
  OBVIOUS
<1>3. Literal(calls, 2)
  BY <1>1, <1>2 DEF Literal
<1>4. TailCalls(Head(todo), calls)
  <2> SUFFICES ASSUME NEW i \in 1..3
               PROVE  Clean(calls[i]) \/ (calls[i].do = "term" /\ Literal(calls, i))
    BY <1>2 DEF TailCalls
  <2>1. i = 1 \/ i = 2 \/ i = 3
    OBVIOUS
  <2>2. calls[1] = a /\ calls[2] = b /\ calls[3] = FunctionEnd
    OBVIOUS
  <2> HIDE DEF calls
  <2> QED BY <1>1, <1>3, <2>1, <2>2
<1>5. UNCHANGED <<prog, last>> /\ todo' = calls \o Tail(todo)
  BY DEF Enter, annotateVars, a, b
<1> HIDE DEF calls
<1> QED BY <1>2, <1>4, <1>5, CallsKeepTail

(* Every arm of generate_free_term keeps the invariant.                    *)
LEMMA FreeNextKeepsTail == ASSUME Inv, TailInv, FreeNext PROVE TailInv'
<1>1. Doing("free") /\ todo # <<>>
  BY DEF FreeNext, FreePanics, FreeError, FreeLeaf, FreeCall, FreeBinary,
         FreeFunction, FreePrint, FreeProjection, FreeTuple, FreeArm, Doing
<1>2. CASE FreePanics \/ FreeError
  <2>1. UNCHANGED <<prog, last, todo>>
    BY <1>2 DEF FreePanics, FreeError, annotateVars
  <2> QED BY <2>1 DEF TailInv, LastInTail, TailTodo, Clean, TailTerms, TailClosed,
                      PassesTail
<1>3. CASE FreeLeaf
  BY <1>1, <1>3, CleanKeepsTail, CleanTuples, CleanTasks DEF FreeLeaf
<1>4. CASE FreeCall
  BY <1>1, <1>4, CleanKeepsTail, CleanTuples, CleanTasks DEF FreeCall
<1>5. CASE FreeBinary
  BY <1>1, <1>5, CleanKeepsTail, CleanTuples, CleanTasks DEF FreeBinary
<1>6. CASE FreeFunction
  BY <1>1, <1>6, BodyKeepsTail DEF FreeFunction
<1>7. CASE FreePrint
  BY <1>1, <1>7, CleanKeepsTail, CleanTuples, CleanTasks DEF FreePrint
<1>8. CASE FreeProjection
  BY <1>1, <1>8, CleanKeepsTail, CleanTuples, CleanTasks DEF FreeProjection
<1>9. CASE FreeTuple
  BY <1>1, <1>9, CleanKeepsTail, CleanTuples, CleanTasks DEF FreeTuple
<1> QED BY <1>2, <1>3, <1>4, <1>5, <1>6, <1>7, <1>8, <1>9 DEF FreeNext

(* The leading arguments of a call, which go through temporaries.          *)
LEMMA CleanLoop ==
  ASSUME WellFormed(prog), NEW n \in Terms(prog), prog[n].kind = "Call",
         NEW args, args = Arguments(prog, n), args # <<>>,
         NEW b, b = LastBinds(args), NEW temps, NEW temp
  PROVE  Clean(TermLoop(SubSeq(args, 1, b), temps, temp))
<1>1. /\ args \in Seq(Terms(prog))
      /\ \A i \in 1..Len(args) : /\ i + 1 \in KidSlots(prog, n)
                                 /\ args[i] = Kid(prog, n, i + 1)
  BY ArgumentsAreKids
<1>2. b \in 0..(Len(args) - 1)
  BY LastBindsSplits
<1>3. \A i \in 1..Len(args) : args[i] \notin TailTerms
  BY <1>1, TailKid DEF PassesTail
<1>4. \A x \in DOMAIN SubSeq(args, 1, b) :
        x \in 1..Len(args) /\ SubSeq(args, 1, b)[x] = args[x]
  BY <1>1, <1>2
<1>5. \A x \in DOMAIN SubSeq(args, 1, b) : SubSeq(args, 1, b)[x] \notin TailTerms
  BY <1>3, <1>4
<1> QED BY <1>5 DEF Clean, TermLoop

(* What a step of generate_term starts from: a term of another kind than   *)
(* function, let and if has only clean subterms.                           *)
LEMMA TermKidsClean ==
  ASSUME Inv, Doing("term"), NEW h, h = Head(todo),
         prog[h.n].kind \notin {"Function", "Let", "If"}
  PROVE  \A k \in KidSlots(prog, h.n) : \A temps, bind :
           Clean(Term(Kid(prog, h.n, k), temps, bind))
BY TermPending, CleanKid DEF PassesTail

(* The arms that write an expression, and the calls.                       *)
LEMMA TermCallsKeepTail ==
  ASSUME Inv, TailInv, TermInPlace \/ TermCallBoundCallee \/ TermCallFreeCallee
  PROVE  TailInv'
<1> DEFINE h      == Head(todo)
           callee == Kid(prog, h.n, 1)
           args   == Arguments(prog, h.n)
           bound  == LastBinds(args)
<1>1. Doing("term") /\ todo # <<>>
  BY DEF TermInPlace, TermCallBoundCallee, TermCallFreeCallee, TermArm, Doing
<1>2. CASE TermInPlace
  BY <1>1, <1>2, CleanKeepsTail, CleanTuples, CleanTasks DEF TermInPlace
<1>3. ASSUME prog[h.n].kind = "Call"
      PROVE  /\ \A temps, bind : Clean(Term(callee, temps, bind))
             /\ args # <<>> =>
                  \A temps, temp : Clean(TermLoop(SubSeq(args, 1, bound), temps, temp))
  <2>1. WellFormed(prog) /\ h.n \in Terms(prog)
    BY <1>1, TermPending
  <2>2. 1 \in KidSlots(prog, h.n)
    BY <1>3, <2>1, Slots
  <2> QED BY <1>1, <1>3, <2>1, <2>2, TermKidsClean, CleanLoop
<1>4. CASE TermCallBoundCallee
  <2> DEFINE holder == Temp(h.temps + 1)
             temps  == h.temps + 2
             first  == Term(callee, h.temps + 1, holder)
             bare   == << Write(Deliver(h.n, h.bind) \o << holder >>
                                  \o Text(<<"(", ")">>)) >>
             full   == << TermLoop(SubSeq(args, 1, bound), temps + bound, temps),
                          Write(Deliver(h.n, h.bind) \o << holder, Sym("(") >>
                                  \o TempArguments(temps, bound)),
                          FreeLoop(SubSeq(args, bound + 1, Len(args))),
                          Write(Text(<<")">>)) >>
  <2>1. /\ prog[h.n].kind = "Call"
        /\ Enter(<< first >> \o IF args = <<>> THEN bare ELSE full)
    BY <1>4 DEF TermCallBoundCallee, TermArm
  <2>2. AllClean(<< first >>) /\ AllClean(bare)
    BY <1>3, <2>1, CleanTuples, CleanTasks
  <2>3. args # <<>> => AllClean(full)
    BY <1>3, <2>1, CleanTuples, CleanTasks
  <2> HIDE DEF first, bare, full
  <2>4. AllClean(<< first >> \o IF args = <<>> THEN bare ELSE full)
    BY <2>2, <2>3, CleanConcat
  <2> QED BY <1>1, <2>1, <2>4, CleanKeepsTail
<1>5. CASE TermCallFreeCallee
  <2> DEFINE bare == << Write(<< h.bind, Sym("=") >>), Free(callee),
                        Write(Text(<<"(", ")">>)) >>
             full == << TermLoop(SubSeq(args, 1, bound), h.temps + bound, h.temps),
                        Write(<< h.bind, Sym("=") >>), Free(callee),
                        Write(Text(<<"(">>) \o TempArguments(h.temps, bound)),
                        FreeLoop(SubSeq(args, bound + 1, Len(args))),
                        Write(Text(<<")">>)) >>
  <2>1. prog[h.n].kind = "Call" /\ Enter(IF args = <<>> THEN bare ELSE full)
    BY <1>5 DEF TermCallFreeCallee, TermArm
  <2>2. AllClean(bare)
    BY CleanTuples, CleanTasks
  <2>3. args # <<>> => AllClean(full)
    BY <1>3, <2>1, CleanTuples, CleanTasks
  <2> HIDE DEF bare, full
  <2>4. AllClean(IF args = <<>> THEN bare ELSE full)
    BY <2>2, <2>3
  <2> QED BY <1>1, <2>1, <2>4, CleanKeepsTail
<1> QED BY <1>2, <1>4, <1>5

(* The arms of the operators: the operands are in no tail position.        *)
LEMMA TermBinaryKeepsTail ==
  ASSUME Inv, TailInv, TermArithmetic \/ TermInfix \/ TermLogic
  PROVE  TailInv'
<1> DEFINE h == Head(todo)
<1>1. Doing("term") /\ todo # <<>> /\ prog[h.n].kind = "Binary"
  BY DEF TermArithmetic, TermInfix, TermLogic, TermArm, Doing
<1>2. KidSlots(prog, h.n) = {1, 2}
  BY <1>1, TermPending, Slots
<1>3. \A k \in {1, 2} : \A temps, bind : Clean(Term(Kid(prog, h.n, k), temps, bind))
  BY <1>1, <1>2, TermKidsClean
<1>4. ASSUME NEW other, NEW fresh PROVE AllClean(Operation(h, other, fresh))
  <2> DEFINE lhs   == Temp(h.temps)
             rhs   == Kid(prog, h.n, 2)
             op    == prog[h.n].op
             first == Term(Kid(prog, h.n, 1), h.temps + 1, lhs)
             bound == << Term(rhs, fresh, Temp(other)),
                         Write(<< h.bind, Sym("=") >> \o Opening(op)
                           \o << lhs, Sym(LuaOp(op)), Temp(other) >> \o Closing(op)) >>
             free  == << Write(<< h.bind, Sym("=") >> \o Opening(op)
                           \o << lhs, Sym(LuaOp(op)) >>),
                         Free(rhs), Write(Closing(op)) >>
  <2>1. AllClean(<< first >>) /\ AllClean(bound) /\ AllClean(free)
    BY <1>3, CleanTuples, CleanTasks
  <2>2. Operation(h, other, fresh) = << first >> \o IF binds[rhs] THEN bound ELSE free
    BY DEF Operation
  <2> HIDE DEF first, bound, free
  <2> QED BY <2>1, <2>2, CleanConcat
<1>5. CASE TermArithmetic
  BY <1>1, <1>4, <1>5, CleanKeepsTail DEF TermArithmetic
<1>6. CASE TermInfix
  BY <1>1, <1>4, <1>6, CleanKeepsTail DEF TermInfix, Infix
<1>7. CASE TermLogic
  <2> DEFINE opening == Write(Text(<<"not", "not", "(">>))
             closing == Write(Text(<<")">>))
  <2>1. Enter(<< opening >> \o Infix(h) \o << closing >>)
    BY <1>7 DEF TermLogic
  <2>2. AllClean(<< opening >>) /\ AllClean(<< closing >>) /\ AllClean(Infix(h))
    BY <1>4, CleanTuples, CleanTasks DEF Infix
  <2> HIDE DEF opening, closing
  <2>3. AllClean(<< opening >> \o Infix(h) \o << closing >>)
    BY <2>2, CleanConcat
  <2> QED BY <1>1, <2>1, <2>3, CleanKeepsTail
<1> QED BY <1>5, <1>6, <1>7

(* print, first, second and the tuple: their subterms are in no tail       *)
(* position either.                                                        *)
LEMMA TermPartsKeepTail ==
  ASSUME Inv, TailInv, TermPrint \/ TermProjection \/ TermTuple
  PROVE  TailInv'
<1> DEFINE h     == Head(todo)
           first == Term(Kid(prog, h.n, 1), h.temps + 1, Temp(h.temps))
<1>1. /\ Doing("term") /\ todo # <<>>
      /\ prog[h.n].kind \in {"Print", "First", "Second", "Tuple"}
  BY DEF TermPrint, TermProjection, TermTuple, TermArm, Doing
<1>2. /\ 1 \in KidSlots(prog, h.n)
      /\ prog[h.n].kind = "Tuple" => 2 \in KidSlots(prog, h.n)
  BY <1>1, TermPending, Slots
<1>3. \A k \in KidSlots(prog, h.n) : \A temps, bind :
        Clean(Term(Kid(prog, h.n, k), temps, bind))
  BY <1>1, TermKidsClean
<1>4. Clean(first)
  BY <1>2, <1>3
<1>5. CASE TermPrint
  BY <1>1, <1>4, <1>5, CleanKeepsTail, CleanTuples, CleanTasks DEF TermPrint
<1>6. CASE TermProjection
  BY <1>1, <1>4, <1>6, CleanKeepsTail, CleanTuples, CleanTasks DEF TermProjection
<1>7. CASE TermTuple
  <2> DEFINE second == Kid(prog, h.n, 2)
             bound  == << Term(second, h.temps + 2, Temp(h.temps + 1)),
                          Write(<< h.bind >> \o Text(<<"=", "(", "{">>)
                                  \o << Temp(h.temps), Sym(","), Temp(h.temps + 1) >>
                                  \o Text(<<"}", ")">>)) >>
             free   == << Write(<< h.bind >> \o Text(<<"=", "{">>)
                                  \o << Temp(h.temps), Sym(",") >>),
                          Free(second), Write(Text(<<"}">>)) >>
  <2>1. /\ prog[h.n].kind = "Tuple"
        /\ Enter(<< first >> \o IF ~InPlace(second) THEN bound ELSE free)
    BY <1>7 DEF TermTuple, TermArm
  <2>2. AllClean(<< first >>) /\ AllClean(bound) /\ AllClean(free)
    BY <1>2, <1>3, <1>4, <2>1, CleanTuples, CleanTasks
  <2> HIDE DEF first, bound, free
  <2>3. AllClean(<< first >> \o IF ~InPlace(second) THEN bound ELSE free)
    BY <2>2, CleanConcat
  <2> QED BY <1>1, <2>1, <2>3, CleanKeepsTail
<1> QED BY <1>5, <1>6, <1>7

(* A subterm in tail position of a let or an if: the term itself is in     *)
(* tail position.                                                          *)
LEMMA TailParent ==
  ASSUME WellFormed(prog), NEW h, h.do = "term", h.n \in Terms(prog),
         prog[h.n].kind # "Function", NEW k \in KidSlots(prog, h.n),
         NEW temps, NEW bind
  PROVE  Clean(Term(Kid(prog, h.n, k), temps, bind)) \/ ~Clean(h)
BY TailKid DEF Clean, Term

(* A let hands its place on to what follows it.                            *)
LEMMA TermLetKeepsTail == ASSUME Inv, TailInv, TermLet PROVE TailInv'
<1> DEFINE h    == Head(todo)
           name == VarName(prog[h.n].name)
           a == Write(IF prog[h.n].name = "_" THEN <<>> ELSE << Sym("local"), name >>)
           b == Term(Kid(prog, h.n, 1), h.temps + 1, name)
           c == Term(Kid(prog, h.n, 2), h.temps + 1, h.bind)
           calls == << a, b, c >>
<1>1. /\ Doing("term") /\ todo # <<>> /\ h.do = "term" /\ prog[h.n].kind = "Let"
      /\ Enter(calls)
  BY DEF TermLet, TermArm, Doing
<1>2. /\ WellFormed(prog) /\ h.n \in Terms(prog)
      /\ 1 \in KidSlots(prog, h.n) /\ 2 \in KidSlots(prog, h.n)
  BY <1>1, TermPending, Slots
<1>3. Clean(a) /\ Clean(b)
  <2>1. Clean(b)
    <3> HIDE DEF h, name
    <3>1. prog[h.n].kind # "Function" /\ ~PassesTail(h.n, 1)
      <4>1. prog[h.n].kind = "Let"
        BY <1>1
      <4> QED BY <4>1 DEF PassesTail
    <3> QED BY <1>2, <3>1, CleanKid
  <2>2. Clean(a)
    BY CleanTasks
  <2> QED BY <2>1, <2>2
<1>4. Clean(c) \/ ~Clean(h)
  BY <1>1, <1>2, TailParent
<1>5. c.do = "term" /\ c.bind = h.bind
  BY DEF Term
<1> HIDE DEF a, b, c, h
<1>6. calls \in Seq({a, b, c}) /\ Len(calls) = 3
  OBVIOUS
<1>7. calls[1] = a /\ calls[2] = b /\ calls[3] = c
  OBVIOUS
<1> HIDE DEF calls
<1>8. TailCalls(h, calls)
  <2>1. \A m \in (3+1)..Len(calls) : FALSE
    BY <1>6
  <2>2. Clean(c) \/ Handed(h, calls, 3)
    BY <1>1, <1>4, <1>5, <1>7, <2>1 DEF Handed
  <2>3. \A i \in 1..Len(calls) : i = 1 \/ i = 2 \/ i = 3
    BY <1>6
  <2> QED BY <1>3, <1>5, <1>7, <2>2, <2>3 DEF TailCalls
<1>9. UNCHANGED <<prog, last>> /\ todo' = calls \o Tail(todo)
  BY <1>1 DEF Enter, annotateVars
<1> QED BY <1>1, <1>6, <1>8, <1>9, CallsKeepTail DEF h

(* Clean calls in front of the branches of an if.                          *)
LEMMA BranchesKeepTail ==
  ASSUME NEW h, NEW cond, AllClean(cond), h.do = "term",
         NEW yes, NEW no, yes.do = "term", no.do = "term",
         yes.bind = h.bind, no.bind = h.bind,
         Clean(yes) \/ ~Clean(h), Clean(no) \/ ~Clean(h),
         NEW rest, rest = << yes, Else, no, Write(Text(<<"end">>)) >>
  PROVE  IsSeq(cond \o rest) /\ TailCalls(h, cond \o rest)
<1> DEFINE end == Write(Text(<<"end">>))
           calls == cond \o rest
           k == Len(cond)
           R == {cond[i] : i \in DOMAIN cond} \cup {yes, Else, no, end}
<1>1. Clean(Else) /\ Clean(end)
  BY CleanTasks DEF Else
<1> HIDE DEF end
<1>2. /\ rest[1] = yes /\ rest[2] = Else /\ rest[3] = no /\ rest[4] = end
      /\ Len(rest) = 4 /\ rest \in Seq({yes, Else, no, end})
  BY DEF end
<1>3. cond \in Seq(R) /\ rest \in Seq(R)
  <2>1. cond \in Seq({cond[i] : i \in DOMAIN cond})
    BY DEF AllClean, IsSeq
  <2>2. Len(cond) \in Nat /\ DOMAIN cond = 1..Len(cond)
    BY <2>1
  <2>3. \A i \in 1..Len(cond) : cond[i] \in R
    BY <2>2
  <2>4. \A i \in 1..Len(rest) : rest[i] \in R
    BY <1>2
  <2> HIDE DEF R
  <2> QED BY <1>2, <2>1, <2>2, <2>3, <2>4
<1> HIDE DEF R
<1>4. /\ calls \in Seq(R) /\ k \in Nat /\ Len(calls) = k + 4
      /\ \A i \in 1..k : calls[i] = cond[i]
      /\ calls[k + 1] = yes /\ calls[k + 2] = Else
      /\ calls[k + 3] = no /\ calls[k + 4] = end
  <2>1. /\ calls \in Seq(R) /\ k \in Nat /\ Len(calls) = k + 4
        /\ \A i \in 1..k : calls[i] = cond[i]
        /\ \A i \in 1..4 : calls[k + i] = rest[i]
    BY <1>2, <1>3
  <2> HIDE DEF calls, k
  <2> QED BY <1>2, <2>1
<1> HIDE DEF calls, k
<1>5. Clean(yes) \/ Handed(h, calls, k + 1)
  <2>1. \A m \in (k + 1 + 1)..Len(calls) : m = k + 2 \/ m = k + 3 \/ m = k + 4
    BY <1>4
  <2>2. (k + 3) - 1 = k + 2
    BY <1>4
  <2>3. \A m \in (k + 1 + 1)..Len(calls) : Skipped(calls[m-1], calls[m])
    BY <1>4, <2>1, <2>2 DEF Skipped, end
  <2> QED BY <1>4, <2>3 DEF Handed
<1>6. Clean(no) \/ Handed(h, calls, k + 3)
  <2>1. \A m \in (k + 3 + 1)..Len(calls) : m = k + 4
    BY <1>4
  <2>2. \A m \in (k + 3 + 1)..Len(calls) : Skipped(calls[m-1], calls[m])
    BY <1>4, <2>1 DEF Skipped, end
  <2> QED BY <1>4, <2>2 DEF Handed
<1>7. TailCalls(h, calls)
  <2> SUFFICES ASSUME NEW i \in 1..Len(calls)
               PROVE  \/ Clean(calls[i])
                      \/ calls[i].do = "term" /\ Handed(h, calls, i)
    BY DEF TailCalls
  <2>1. i \in 1..k \/ i = k + 1 \/ i = k + 2 \/ i = k + 3 \/ i = k + 4
    BY <1>4
  <2>2. CASE i \in 1..k
    BY <1>4, <2>2 DEF AllClean, k
  <2> QED BY <1>1, <1>4, <1>5, <1>6, <2>1, <2>2
<1> QED BY <1>4, <1>7, SeqIsSeq DEF calls

(* An if hands its place on to its branches.                               *)
LEMMA TermIfKeepsTail == ASSUME Inv, TailInv, TermIf PROVE TailInv'
<1> DEFINE h     == Head(todo)
           cond  == Kid(prog, h.n, 1)
           temps == IF binds[cond] THEN h.temps + 1 ELSE h.temps
           bound == << Term(cond, h.temps + 1, Temp(h.temps)),
                       Write(<< Sym("if"), Temp(h.temps), Sym("then") >>) >>
           free  == << Write(Text(<<"if">>)), Free(cond), Write(Text(<<"then">>)) >>
           first == IF binds[cond] THEN bound ELSE free
           yes   == Term(Kid(prog, h.n, 2), temps, h.bind)
           no    == Term(Kid(prog, h.n, 3), temps, h.bind)
           calls == first \o << yes, Else, no, Write(Text(<<"end">>)) >>
<1>1. /\ Doing("term") /\ todo # <<>> /\ h.do = "term" /\ prog[h.n].kind = "If"
      /\ Enter(calls)
  BY DEF TermIf, TermArm, Doing
<1>2. /\ WellFormed(prog) /\ h.n \in Terms(prog) /\ 1 \in KidSlots(prog, h.n)
      /\ 2 \in KidSlots(prog, h.n) /\ 3 \in KidSlots(prog, h.n)
  BY <1>1, TermPending, Slots
<1>3. Clean(Term(cond, h.temps + 1, Temp(h.temps)))
  BY <1>1, <1>2, CleanKid DEF PassesTail
<1>4. AllClean(bound) /\ AllClean(free)
  BY <1>3, CleanTuples, CleanTasks
<1>5. AllClean(first)
  <2> HIDE DEF bound, free
  <2> QED BY <1>4
<1>6. (Clean(yes) \/ ~Clean(h)) /\ (Clean(no) \/ ~Clean(h))
  BY <1>1, <1>2, TailParent
<1>7. yes.do = "term" /\ no.do = "term" /\ yes.bind = h.bind /\ no.bind = h.bind
  BY DEF Term
<1> HIDE DEF first, yes, no, h
<1>8. IsSeq(calls) /\ TailCalls(h, calls)
  BY <1>1, <1>5, <1>6, <1>7, BranchesKeepTail
<1>9. UNCHANGED <<prog, last>> /\ todo' = calls \o Tail(todo)
  BY <1>1 DEF Enter, annotateVars
<1> HIDE DEF calls
<1> QED BY <1>1, <1>8, <1>9, CallsKeepTail DEF h, IsSeq

(* Every arm of generate_term keeps the invariant.                         *)
LEMMA TermNextKeepsTail == ASSUME Inv, TailInv, TermNext PROVE TailInv'
<1>1. CASE TermFunction
  <2>1. todo # <<>>
    BY <1>1 DEF TermFunction, TermArm, Doing
  <2> QED BY <1>1, <2>1, BodyKeepsTail DEF TermFunction
<1> QED BY <1>1, TermCallsKeepTail, TermBinaryKeepsTail, TermPartsKeepTail,
           TermLetKeepsTail, TermIfKeepsTail DEF TermNext

-----------------------------------------------------------------------------
(* The other steps.                                                        *)

(* A step of the argument loops keeps the invariant.                       *)
LEMMA LoopsKeepTail == ASSUME Inv, TailInv, NextTerm \/ NextFree PROVE TailInv'
<1> DEFINE h == Head(todo)
<1>1. CASE NextTerm
  <2> DEFINE a == Term(Head(h.ns), h.temps, Temp(h.temp))
             b == TermLoop(Tail(h.ns), h.temps, h.temp + 1)
  <2>1. /\ Doing("terms") /\ todo # <<>> /\ h.do = "terms"
        /\ Enter(IF h.ns = <<>> THEN <<>> ELSE << a, b >>)
    BY <1>1 DEF NextTerm, Doing
  <2>2. h.ns \in Seq(Terms(prog))
    BY <2>1, Pending, SafeTaskFields
  <2>3. \A x \in DOMAIN h.ns : h.ns[x] \notin TailTerms
    <3>1. todo \in Seq(SafeTask)
      BY DEF Inv, Generating
    <3>2. 1 \in DOMAIN todo /\ h = todo[1]
      BY <2>1, <3>1
    <3>3. Clean(h)
      BY <2>1, <3>2 DEF TailInv, TailTodo
    <3> QED BY <2>1, <3>3 DEF Clean
  <2>4. h.ns # <<>> => Clean(a) /\ Clean(b)
    <3> SUFFICES ASSUME h.ns # <<>> PROVE Clean(a) /\ Clean(b)
      OBVIOUS
    <3>1. /\ Head(h.ns) = h.ns[1] /\ 1 \in DOMAIN h.ns
          /\ \A x \in DOMAIN Tail(h.ns) :
               x + 1 \in DOMAIN h.ns /\ Tail(h.ns)[x] = h.ns[x + 1]
      BY <2>2
    <3> QED BY <2>3, <3>1 DEF Clean, Term, TermLoop
  <2> HIDE DEF a, b
  <2>5. AllClean(IF h.ns = <<>> THEN <<>> ELSE << a, b >>)
    BY <2>4, CleanTuples
  <2> QED BY <2>1, <2>5, CleanKeepsTail
<1>2. CASE NextFree
  <2> DEFINE one == << Free(Head(h.ns)) >>
             more == << Free(Head(h.ns)), Write(Text(<<",">>)), FreeLoop(Tail(h.ns)) >>
  <2>1. /\ todo # <<>>
        /\ Enter(CASE Len(h.ns) = 0 -> <<>>
                   [] Len(h.ns) = 1 -> one
                   [] OTHER -> more)
    BY <1>2 DEF NextFree, Doing
  <2>2. AllClean(<<>>) /\ AllClean(one) /\ AllClean(more)
    BY CleanTuples, CleanTasks
  <2>3. 0 # 1
    OBVIOUS
  <2> HIDE DEF one, more, h
  <2>4. AllClean(CASE Len(h.ns) = 0 -> <<>>
                   [] Len(h.ns) = 1 -> one
                   [] OTHER -> more)
    BY <2>2, <2>3
  <2> QED BY <2>1, <2>4, CleanKeepsTail
<1> QED BY <1>1, <1>2

(* The first step of the generator, and the steps that write or stop.      *)
LEMMA BeginKeepsTail == ASSUME Inv, TailInv, BeginProgram PROVE TailInv'
<1> DEFINE a == Write(Text(<<"PRELUDE", "do", "TEMPS", "local">>)
                        \o <<VarName("_")>>)
           b == Term(Root(prog), 0, Ret)
           c == Write(Text(<<"end", "POSTLUDE">>))
           calls == <<a, b, c>>
<1>1. UNCHANGED <<prog, last>> /\ todo' = calls /\ todo = <<>>
  BY DEF BeginProgram, annotateVars, Inv, Generating
<1>2. Root(prog) \notin TailTerms
  BY InvProgram, RootNotInTail
<1>3. AllClean(calls)
  BY <1>2, CleanTuples, CleanTasks DEF Clean, Term
<1> HIDE DEF calls
<1>4. TailTerms' = TailTerms
  BY <1>1 DEF TailTerms, TailClosed, PassesTail
<1>5. LastInTail'
  BY <1>1, <1>4 DEF TailInv, LastInTail
<1>6. TailTodo'
  BY <1>1, <1>3, <1>4 DEF TailTodo, AllClean, IsSeq, Clean
<1> QED BY <1>5, <1>6 DEF TailInv

(* A write! takes a clean task away.                                       *)
LEMMA WriteKeepsTail == ASSUME Inv, TailInv, WriteText PROVE TailInv'
<1>1. /\ todo # <<>> /\ todo' = Tail(todo) /\ UNCHANGED <<prog, last>>
      /\ todo \in Seq(SafeTask)
  BY DEF WriteText, Doing, annotateVars, Inv, Generating
<1>2. todo' = <<>> \o Tail(todo) /\ <<>> \in Seq(SafeTask)
  BY <1>1
<1>3. TailCalls(Head(todo), <<>>)
  BY DEF TailCalls
<1> QED BY <1>1, <1>2, <1>3, CallsKeepTail

(* A step that changes neither the marks nor the tasks.                    *)
LEMMA UnchangedKeepsTail ==
  ASSUME Inv, TailInv, UNCHANGED <<prog, last, todo>>
  PROVE  TailInv'
BY DEF TailInv, LastInTail, TailTodo, Clean, TailTerms, TailClosed, PassesTail

(* A step of anotate.                                                      *)
LEMMA AnnotateKeepsTail == ASSUME Inv, TailInv, AnnotateStep PROVE TailInv'
<1>1. todo = <<>> /\ todo' = <<>>
  BY DEF AnnotateStep, Inv, Generating, genVars
<1>2. CASE Descend
  <2>1. LastInTail'
    BY <1>2, DescendKeepsLastInTail DEF TailInv
  <2>2. TailTodo'
    BY <1>1 DEF TailTodo
  <2> QED BY <2>1, <2>2 DEF TailInv
<1>3. CASE ~Descend
  <2>1. UNCHANGED <<prog, last, todo>>
    BY <1>1, <1>3 DEF AnnotateStep, AnnotateNext, FoldSubterm, ReturnFolded,
                      ReturnLeaf, ReturnFunction, ReturnStatement
  <2> QED BY <2>1, UnchangedKeepsTail
<1> QED BY <1>2, <1>3

(* The invariant holds in every state.                                     *)
LEMMA TailInvAlways == Spec => []TailInv
<1>1. Init => TailInv
  BY DEF Init, AnnotateInit, TailInv, LastInTail, TailTodo
<1>2. Inv /\ TailInv /\ [Next]_vars => TailInv'
  <2> SUFFICES ASSUME Inv, TailInv, [Next]_vars PROVE TailInv'
    OBVIOUS
  <2>1. CASE Finish \/ Terminated \/ UNCHANGED vars
    <3>1. UNCHANGED <<prog, last, todo>>
      BY <2>1 DEF Finish, Terminated, vars, annotateVars, genVars
    <3> QED BY <3>1, UnchangedKeepsTail
  <2> QED BY <2>1, AnnotateKeepsTail, BeginKeepsTail, WriteKeepsTail,
             LoopsKeepTail, FreeNextKeepsTail, TermNextKeepsTail DEF Next
<1> QED BY <1>1, <1>2, InvAlways, PTL DEF Spec

(* Returning early skips nothing, for every program: whenever the          *)
(* generator writes a return in the middle of a function, all that is      *)
(* still to be generated of that function are the branches not taken.      *)
THEOREM ReturnsSkipNothing == Spec => []EarlyReturnSkipsNothing
<1>1. Inv /\ TailInv => EarlyReturnSkipsNothing
  <2> SUFFICES ASSUME Inv, TailInv, NEW i \in DOMAIN todo,
                      todo[i].do = "term", last[todo[i].n]
               PROVE  EndsFunction(todo, i)
    BY DEF EarlyReturnSkipsNothing, EndsFunction, Skipped
  <2>1. todo \in Seq(SafeTask)
    BY DEF Inv, Generating
  <2>2. todo[i] \in SafeTask
    BY <2>1
  <2>3. todo[i].n \in TailTerms
    BY <2>2, SafeTaskFields DEF TailInv, LastInTail
  <2> QED BY <2>3 DEF TailInv, TailTodo, Clean
<1> QED BY <1>1, InvAlways, TailInvAlways, PTL

-----------------------------------------------------------------------------
(* The value of a term.                                                    *)

(* text starts with a return, or with an assignment to bind.               *)
Delivers(text, bind) ==
  /\ text \in Seq(Token) /\ Len(text) >= 1
  /\ \/ text[1] = Sym("return")
     \/ Len(text) >= 2 /\ text[1] = bind /\ text[2] = Sym("=")

(* More text behind it changes nothing.                                    *)
LEMMA DeliversMore ==
  ASSUME NEW s, NEW bind, Delivers(s, bind), NEW t \in Seq(Token)
  PROVE  Delivers(s \o t, bind)
<1>1. s \in Seq(Token) /\ Len(s) >= 1
  BY DEF Delivers
<1>2. /\ s \o t \in Seq(Token) /\ Len(s \o t) >= Len(s)
      /\ \A i \in 1..Len(s) : (s \o t)[i] = s[i]
      /\ Len(s) \in Nat
  BY <1>1
<1> QED BY <1>1, <1>2 DEF Delivers

(* Texts that deliver a value.                                             *)
LEMMA DeliversTexts ==
  ASSUME NEW bind \in Token
  PROVE  /\ Delivers(<< bind, Sym("=") >>, bind)
         /\ \A n : Delivers(Deliver(n, bind), bind)
<1>1. Delivers(<< bind, Sym("=") >>, bind)
  BY DeliveryTexts DEF Delivers
<1>2. Delivers(Text(<<"return">>), bind)
  <2>1. "return" \in Word
    BY DEF Word
  <2>2. Len(Text(<<"return">>)) = 1 /\ Text(<<"return">>)[1] = Sym("return")
    BY DEF Text
  <2> QED BY <2>1, <2>2, WordTexts DEF Delivers
<1> QED BY <1>1, <1>2 DEF Deliver

(* A write that starts like that leaves the value, and is no else.         *)
LEMMA DeliversLeaves ==
  ASSUME NEW text, NEW bind, Delivers(text, bind)
  PROVE  Leaves(Write(text), bind) /\ Write(text) # Else
<1>1. text \in Seq(Token) /\ Len(text) >= 1 /\ 1 \in DOMAIN text
  BY DEF Delivers
<1>2. Leaves(Write(text), bind)
  <2>1. Write(text).do = "write" /\ Write(text).text = text
    BY DEF Write
  <2>2. \E x \in DOMAIN text :
          \/ text[x] = Sym("return")
          \/ text[x] = bind /\ x < Len(text) /\ text[x + 1] = Sym("=")
    <3>1. CASE text[1] = Sym("return")
      BY <1>1, <3>1
    <3>2. CASE Len(text) >= 2 /\ text[1] = bind /\ text[2] = Sym("=")
      <4>1. 1 < Len(text) /\ text[1 + 1] = Sym("=")
        BY <1>1, <3>2
      <4> QED BY <1>1, <3>2, <4>1
    <3> QED BY <3>1, <3>2 DEF Delivers
  <2> QED BY <2>1, <2>2 DEF Leaves
<1>3. Write(text) # Else
  <2> SUFFICES ASSUME text = Text(<<"else">>) PROVE FALSE
    BY DEF Else, Write
  <2>1. Len(text) = 1 /\ text[1] = <<"else">>
    BY DEF Text, Sym
  <2> QED BY <2>1 DEF Delivers, Sym
<1> QED BY <1>2, <1>3

(* Tasks that are no else.                                                 *)
LEMMA NotElse ==
  /\ \A n, temps, bind : Term(n, temps, bind) # Else
  /\ \A n : Free(n) # Else
  /\ \A ns, temps, temp : TermLoop(ns, temps, temp) # Else
  /\ \A ns : FreeLoop(ns) # Else
  /\ FunctionEnd # Else
<1>1. Delivers(Text(<<"return">>) \o << Temp(0) >> \o Text(<<"end">>), Temp(0))
  <2>1. Temp(0) \in Token /\ << Temp(0) >> \in Seq(Token)
    BY TempType, SingletonType
  <2>2. "return" \in Word /\ "end" \in Word
    BY DEF Word
  <2>3. Delivers(Text(<<"return">>), Temp(0))
    <3>1. Len(Text(<<"return">>)) = 1 /\ Text(<<"return">>)[1] = Sym("return")
      BY DEF Text
    <3> QED BY <2>2, <3>1, WordTexts DEF Delivers
  <2>4. Delivers(Text(<<"return">>) \o << Temp(0) >>, Temp(0))
    BY <2>1, <2>3, DeliversMore
  <2> QED BY <2>2, <2>4, WordTexts, DeliversMore
<1>2. FunctionEnd # Else
  BY <1>1, DeliversLeaves DEF FunctionEnd
<1> QED BY <1>2 DEF Term, Free, TermLoop, FreeLoop, Else, Write

(* A text that does not start with the word else.                          *)
LEMMA OtherTextNotElse ==
  ASSUME NEW text, text = <<>> \/ text[1] # <<"else">>
  PROVE  Write(text) # Else
<1> SUFFICES ASSUME text = Text(<<"else">>) PROVE FALSE
  BY DEF Else, Write
<1>1. Len(text) = 1 /\ text[1] = <<"else">>
  BY DEF Text, Sym
<1> QED BY <1>1

(* The words the arms write by themselves.                                 *)
LEMMA WordsNotElse ==
  ASSUME NEW w, w # "else"
  PROVE  /\ Write(Text(<<w>>)) # Else
         /\ \A v : Write(Text(<<w, v>>)) # Else
         /\ \A v, u : Write(Text(<<w, v, u>>)) # Else
<1>1. Text(<<w>>)[1] = <<w>>
  BY DEF Text, Sym
<1>2. \A v : Text(<<w, v>>)[1] = <<w>>
  BY DEF Text, Sym
<1>3. \A v, u : Text(<<w, v, u>>)[1] = <<w>>
  BY DEF Text, Sym
<1>4. <<w>> # <<"else">>
  OBVIOUS
<1> QED BY <1>1, <1>2, <1>3, <1>4, OtherTextNotElse

(* Sequences of tasks with no else among them.                             *)
NoElse(s) == IsSeq(s) /\ \A i \in 1..Len(s) : s[i] # Else

(* A sequence over a set of such tasks.                                    *)
LEMMA NoElseSet ==
  ASSUME NEW S, Else \notin S, NEW s \in Seq(S)
  PROVE  NoElse(s)
<1>1. \A i \in 1..Len(s) : s[i] \in S
  OBVIOUS
<1> QED BY <1>1, SeqIsSeq DEF NoElse

(* Short sequences of such tasks.                                          *)
LEMMA NoElseTuples ==
  /\ \A a : a # Else
       => NoElse(<<a>>)
  /\ \A a, b : a # Else /\ b # Else
       => NoElse(<<a, b>>)
  /\ \A a, b, c : a # Else /\ b # Else /\ c # Else
       => NoElse(<<a, b, c>>)
  /\ \A a, b, c, d : a # Else /\ b # Else /\ c # Else /\ d # Else
       => NoElse(<<a, b, c, d>>)
  /\ \A a, b, c, d, e : a # Else /\ b # Else /\ c # Else /\ d # Else /\ e # Else
       => NoElse(<<a, b, c, d, e>>)
  /\ \A a, b, c, d, e, f :
       a # Else /\ b # Else /\ c # Else /\ d # Else /\ e # Else /\ f # Else
         => NoElse(<<a, b, c, d, e, f>>)
<1>1. ASSUME NEW a,
             a # Else
      PROVE  NoElse(<<a>>)
  <2>1. <<a>> \in Seq({a}) /\ Else \notin {a}
    BY <1>1
  <2> QED BY <2>1, NoElseSet
<1>2. ASSUME NEW a, NEW b,
             a # Else, b # Else
      PROVE  NoElse(<<a, b>>)
  <2>1. <<a, b>> \in Seq({a, b}) /\ Else \notin {a, b}
    BY <1>2
  <2> QED BY <2>1, NoElseSet
<1>3. ASSUME NEW a, NEW b, NEW c,
             a # Else, b # Else, c # Else
      PROVE  NoElse(<<a, b, c>>)
  <2>1. <<a, b, c>> \in Seq({a, b, c}) /\ Else \notin {a, b, c}
    BY <1>3
  <2> QED BY <2>1, NoElseSet
<1>4. ASSUME NEW a, NEW b, NEW c, NEW d,
             a # Else, b # Else, c # Else, d # Else
      PROVE  NoElse(<<a, b, c, d>>)
  <2>1. <<a, b, c, d>> \in Seq({a, b, c, d}) /\ Else \notin {a, b, c, d}
    BY <1>4
  <2> QED BY <2>1, NoElseSet
<1>5. ASSUME NEW a, NEW b, NEW c, NEW d, NEW e,
             a # Else, b # Else, c # Else, d # Else, e # Else
      PROVE  NoElse(<<a, b, c, d, e>>)
  <2>1. <<a, b, c, d, e>> \in Seq({a, b, c, d, e}) /\ Else \notin {a, b, c, d, e}
    BY <1>5
  <2> QED BY <2>1, NoElseSet
<1>6. ASSUME NEW a, NEW b, NEW c, NEW d, NEW e, NEW f,
             a # Else, b # Else, c # Else, d # Else, e # Else, f # Else
      PROVE  NoElse(<<a, b, c, d, e, f>>)
  <2>1. <<a, b, c, d, e, f>> \in Seq({a, b, c, d, e, f}) /\ Else \notin {a, b, c, d, e, f}
    BY <1>6
  <2> QED BY <2>1, NoElseSet
<1> QED BY <1>1, <1>2, <1>3, <1>4, <1>5, <1>6, Zenon

(* Calls that leave the value, in one place.                               *)
LeftBy(s, bind) == NoElse(s) /\ \E m \in 1..Len(s) : Leaves(s[m], bind)

(* Concatenation keeps these two.                                          *)
LEMMA NoElseConcat ==
  ASSUME NEW s, NoElse(s), NEW t, NoElse(t)
  PROVE  NoElse(s \o t)
<1>1. IsSeq(s) /\ IsSeq(t)
  BY DEF NoElse
<1>2. /\ IsSeq(s \o t)
      /\ Len(s) \in Nat /\ Len(t) \in Nat /\ Len(s \o t) = Len(s) + Len(t)
      /\ \A i \in 1..Len(s) : (s \o t)[i] = s[i]
      /\ \A i \in 1..Len(t) : (s \o t)[i + Len(s)] = t[i]
  BY <1>1, ConcatParts
<1>3. ASSUME NEW i \in 1..Len(s \o t) PROVE (s \o t)[i] # Else
  <2>1. CASE i <= Len(s)
    <3>1. i \in 1..Len(s)
      BY <1>2, <2>1
    <3> QED BY <1>2, <3>1 DEF NoElse
  <2>2. CASE i > Len(s)
    <3>1. i - Len(s) \in 1..Len(t) /\ (i - Len(s)) + Len(s) = i
      BY <1>2, <2>2
    <3> QED BY <1>2, <3>1 DEF NoElse
  <2> QED BY <1>2, <2>1, <2>2
<1> QED BY <1>2, <1>3 DEF NoElse

(* The value stays left.                                                   *)
LEMMA LeftConcat ==
  ASSUME NEW s, NoElse(s), NEW t, NoElse(t), NEW bind,
         LeftBy(s, bind) \/ LeftBy(t, bind)
  PROVE  LeftBy(s \o t, bind)
<1>1. IsSeq(s) /\ IsSeq(t)
  BY DEF NoElse
<1>2. /\ Len(s) \in Nat /\ Len(t) \in Nat /\ Len(s \o t) = Len(s) + Len(t)
      /\ \A i \in 1..Len(s) : (s \o t)[i] = s[i]
      /\ \A i \in 1..Len(t) : (s \o t)[i + Len(s)] = t[i]
  BY <1>1, ConcatParts
<1>3. CASE LeftBy(s, bind)
  <2>1. PICK m \in 1..Len(s) : Leaves(s[m], bind)
    BY <1>3 DEF LeftBy
  <2>2. m \in 1..Len(s \o t) /\ (s \o t)[m] = s[m]
    BY <1>2
  <2> QED BY <2>1, <2>2, NoElseConcat DEF LeftBy
<1>4. CASE LeftBy(t, bind)
  <2>1. PICK m \in 1..Len(t) : Leaves(t[m], bind)
    BY <1>4 DEF LeftBy
  <2>2. m + Len(s) \in 1..Len(s \o t) /\ (s \o t)[m + Len(s)] = t[m]
    BY <1>2
  <2> QED BY <2>1, <2>2, NoElseConcat DEF LeftBy
<1> QED BY <1>3, <1>4

(* The text that a step of generate_term enters is the calls of its arm.   *)
LEMMA EnteredCalls ==
  ASSUME Inv, todo # <<>>, NEW calls, IsSeq(calls), Enter(calls)
  PROVE  Entered = calls
<1> DEFINE T == {calls[i] : i \in DOMAIN calls}
           k == Len(calls)
<1>1. todo \in Seq(SafeTask) /\ calls \in Seq(T) /\ todo' = calls \o Tail(todo)
  BY DEF Inv, Generating, Enter, IsSeq
<1> HIDE DEF T
<1>2. /\ todo' \in Seq(SafeTask \cup T)
      /\ k \in Nat /\ Len(todo) \in Nat /\ Len(todo) >= 1
      /\ Len(todo') = k + Len(todo) - 1
      /\ \A i \in 1..k : todo'[i] = calls[i]
  BY <1>1, Replaced
<1>3. Len(todo') - Len(todo) + 1 = k /\ k <= Len(todo')
  BY <1>2
<1> DEFINE e == SubSeq(todo', 1, k)
<1>4. e \in Seq(SafeTask \cup T) /\ Len(e) = k /\ \A i \in 1..k : e[i] = todo'[i]
  BY <1>2, <1>3
<1> HIDE DEF e
<1>5. \A i \in 1..k : e[i] = calls[i]
  BY <1>2, <1>4
<1>6. e = calls
  BY <1>1, <1>4, <1>5 DEF k
<1> QED BY <1>3, <1>6 DEF Entered, e

(* An arm without branches leaves the value in one place.                  *)
LEMMA LeftByArm ==
  ASSUME Inv, todo # <<>>, NEW calls, LeftBy(calls, Head(todo).bind), Enter(calls)
  PROVE  ValueLeft(Head(todo), Entered)
<1>1. IsSeq(calls)
  BY DEF LeftBy, NoElse
<1>2. Entered = calls /\ DOMAIN calls = 1..Len(calls)
  BY <1>1, EnteredCalls DEF IsSeq
<1> HIDE DEF Entered
<1> QED BY <1>2 DEF LeftBy, NoElse, ValueLeft

(* What delivers a value does so wherever it stands.                       *)
LEMMA LeftByWrite ==
  ASSUME NEW text, NEW bind, Delivers(text, bind)
  PROVE  /\ LeftBy(<< Write(text) >>, bind)
         /\ \A b : b # Else => LeftBy(<< Write(text), b >>, bind)
         /\ \A b, c : b # Else /\ c # Else => LeftBy(<< Write(text), b, c >>, bind)
         /\ \A b, c, d : b # Else /\ c # Else /\ d # Else
              => LeftBy(<< Write(text), b, c, d >>, bind)
         /\ \A b, c, d, e : b # Else /\ c # Else /\ d # Else /\ e # Else
              => LeftBy(<< Write(text), b, c, d, e >>, bind)
<1> DEFINE w == Write(text)
<1>1. Leaves(w, bind) /\ w # Else
  BY DeliversLeaves
<1> HIDE DEF w
<1>2. LeftBy(<< w >>, bind)
  BY <1>1, NoElseTuples DEF LeftBy
<1>3. \A b : b # Else => LeftBy(<< w, b >>, bind)
  BY <1>1, NoElseTuples DEF LeftBy
<1>4. \A b, c : b # Else /\ c # Else => LeftBy(<< w, b, c >>, bind)
  BY <1>1, NoElseTuples DEF LeftBy
<1>5. \A b, c, d : b # Else /\ c # Else /\ d # Else => LeftBy(<< w, b, c, d >>, bind)
  BY <1>1, NoElseTuples DEF LeftBy
<1>6. \A b, c, d, e : b # Else /\ c # Else /\ d # Else /\ e # Else
        => LeftBy(<< w, b, c, d, e >>, bind)
  BY <1>1, NoElseTuples DEF LeftBy
<1> QED BY <1>2, <1>3, <1>4, <1>5, <1>6 DEF w

(* The arms that write an expression in place leave its value.             *)
LEMMA InPlaceLeaves ==
  ASSUME Inv, TermInPlace
  PROVE  ValueLeft(Head(todo), Entered)
<1> DEFINE h == Head(todo)
           a == Write(Text(<<"do", "return">>))
           b == Free(h.n)
           c == Write(Text(<<"end">>))
<1>1. Doing("term") /\ todo # <<>>
  BY DEF TermInPlace, Doing
<1>2. h.bind \in Token
  BY <1>1, TermPending
<1>3. CASE last[h.n]
  <2>1. Enter(<<a, b, c>>)
    BY <1>3 DEF TermInPlace
  <2>2. Leaves(a, h.bind)
    <3>1. a.do = "write" /\ a.text = Text(<<"do", "return">>)
      BY DEF Write
    <3>2. 2 \in DOMAIN Text(<<"do", "return">>)
          /\ Text(<<"do", "return">>)[2] = Sym("return")
      BY DEF Text
    <3> HIDE DEF a
    <3> QED BY <3>1, <3>2 DEF Leaves
  <2>3. a # Else /\ b # Else /\ c # Else
    BY NotElse, WordsNotElse
  <2> HIDE DEF a, b, c
  <2>4. LeftBy(<<a, b, c>>, h.bind)
    BY <2>2, <2>3, NoElseTuples DEF LeftBy
  <2> QED BY <1>1, <2>1, <2>4, LeftByArm
<1>4. CASE ~last[h.n]
  <2> DEFINE d == Write(<< h.bind, Sym("=") >>)
  <2>1. Enter(<<d, b>>)
    BY <1>4 DEF TermInPlace
  <2>2. LeftBy(<<d, b>>, h.bind)
    BY <1>2, DeliversTexts, LeftByWrite, NotElse
  <2> HIDE DEF d, b
  <2> QED BY <1>1, <2>1, <2>2, LeftByArm
<1> QED BY <1>3, <1>4

(* A call leaves its value.                                                *)
LEMMA BoundCallLeaves ==
  ASSUME Inv, TermCallBoundCallee
  PROVE  ValueLeft(Head(todo), Entered)
<1> DEFINE h      == Head(todo)
           callee == Kid(prog, h.n, 1)
           args   == Arguments(prog, h.n)
           holder == Temp(h.temps + 1)
           temps  == h.temps + 2
           bound  == LastBinds(args)
           out    == Deliver(h.n, h.bind) \o << holder >> \o Text(<<"(", ")">>)
           open   == Deliver(h.n, h.bind) \o << holder, Sym("(") >>
                       \o TempArguments(temps, bound)
           first  == Term(callee, h.temps + 1, holder)
           loop   == TermLoop(SubSeq(args, 1, bound), temps + bound, temps)
           frees  == FreeLoop(SubSeq(args, bound + 1, Len(args)))
           close  == Write(Text(<<")">>))
           calls  == << first >> \o IF args = <<>> THEN << Write(out) >>
                                    ELSE << loop, Write(open), frees, close >>
<1>1. /\ Doing("term") /\ todo # <<>> /\ prog[h.n].kind = "Call" /\ Enter(calls)
  BY DEF TermCallBoundCallee, TermArm, Doing
<1>2. WellFormed(prog) /\ h.n \in Terms(prog) /\ h.temps \in Nat /\ h.bind \in Token
  BY <1>1, TermPending
<1>3. first # Else /\ loop # Else /\ frees # Else /\ close # Else
  BY NotElse, WordsNotElse
<1>4. holder \in Token /\ temps \in Nat
  BY <1>2, TempType
<1>5. Delivers(Deliver(h.n, h.bind), h.bind)
  BY <1>2, DeliversTexts
<1>6. Delivers(out, h.bind)
  <2>1. << holder >> \in Seq(Token) /\ Text(<<"(", ")">>) \in Seq(Token)
    BY <1>4, SingletonType, ConstantTexts
  <2>2. Delivers(Deliver(h.n, h.bind) \o << holder >>, h.bind)
    BY <1>5, <2>1, DeliversMore
  <2> QED BY <2>1, <2>2, DeliversMore
<1>7. args # <<>> => Delivers(open, h.bind)
  <2> SUFFICES ASSUME args # <<>> PROVE Delivers(open, h.bind)
    OBVIOUS
  <2>1. TempArguments(temps, bound) \in Seq(Token)
    BY <1>1, <1>2, <1>4, CallArguments
  <2>2. << holder, Sym("(") >> \in Seq(Token)
    <3>1. Sym("(") \in Token
      BY SymType DEF Word
    <3> QED BY <1>4, <3>1, Sequences2to5
  <2>3. Delivers(Deliver(h.n, h.bind) \o << holder, Sym("(") >>, h.bind)
    BY <1>5, <2>2, DeliversMore
  <2> QED BY <2>1, <2>3, DeliversMore
<1> HIDE DEF first, loop, frees, close, out, open
<1>8. NoElse(<< first >>)
  BY <1>3, NoElseTuples
<1>9. LeftBy(<< Write(out) >>, h.bind)
  BY <1>6, LeftByWrite
<1>10. args # <<>> => LeftBy(<< loop, Write(open), frees, close >>, h.bind)
  <2> SUFFICES ASSUME args # <<>>
               PROVE  LeftBy(<< loop, Write(open), frees, close >>, h.bind)
    OBVIOUS
  <2>1. Leaves(Write(open), h.bind) /\ Write(open) # Else
    BY <1>7, DeliversLeaves
  <2> QED BY <1>3, <2>1, NoElseTuples DEF LeftBy
<1>11. LeftBy(calls, h.bind)
  BY <1>8, <1>9, <1>10, LeftConcat DEF LeftBy
<1> HIDE DEF calls
<1> QED BY <1>1, <1>11, LeftByArm

(* So does a call whose callee is written in place.                        *)
LEMMA FreeCallLeaves ==
  ASSUME Inv, TermCallFreeCallee
  PROVE  ValueLeft(Head(todo), Entered)
<1> DEFINE h      == Head(todo)
           callee == Kid(prog, h.n, 1)
           args   == Arguments(prog, h.n)
           bound  == LastBinds(args)
           set    == << h.bind, Sym("=") >>
           what   == Free(callee)
           empty  == Write(Text(<<"(", ")">>))
           loop   == TermLoop(SubSeq(args, 1, bound), h.temps + bound, h.temps)
           open   == Write(Text(<<"(">>) \o TempArguments(h.temps, bound))
           frees  == FreeLoop(SubSeq(args, bound + 1, Len(args)))
           close  == Write(Text(<<")">>))
           bare   == << Write(set), what, empty >>
           full   == << loop, Write(set), what, open, frees, close >>
<1>1. /\ Doing("term") /\ todo # <<>> /\ prog[h.n].kind = "Call"
      /\ Enter(IF args = <<>> THEN bare ELSE full)
  BY DEF TermCallFreeCallee, TermArm, Doing
<1>2. WellFormed(prog) /\ h.n \in Terms(prog) /\ h.temps \in Nat /\ h.bind \in Token
  BY <1>1, TermPending
<1>3. /\ what # Else /\ empty # Else /\ loop # Else
      /\ frees # Else /\ close # Else
  BY NotElse, WordsNotElse
<1>4. args # <<>> => open # Else
  <2> SUFFICES ASSUME args # <<>> PROVE open # Else
    OBVIOUS
  <2>1. TempArguments(h.temps, bound) \in Seq(Token)
    BY <1>1, <1>2, CallArguments
  <2>2. Text(<<"(">>) \in Seq(Token) /\ Len(Text(<<"(">>)) = 1
        /\ Text(<<"(">>)[1] = <<"(">>
    <3>1. "(" \in Word
      BY DEF Word
    <3> QED BY <3>1, WordTexts DEF Text, Sym
  <2> DEFINE text == Text(<<"(">>) \o TempArguments(h.temps, bound)
  <2>3. text[1] = <<"(">>
    BY <2>1, <2>2
  <2>4. <<"(">> # <<"else">>
    OBVIOUS
  <2> HIDE DEF text
  <2>5. Write(text) # Else
    BY <2>3, <2>4, OtherTextNotElse
  <2> QED BY <2>5 DEF text
<1>5. Delivers(set, h.bind)
  BY <1>2, DeliversTexts
<1>6. Leaves(Write(set), h.bind) /\ Write(set) # Else
  BY <1>5, DeliversLeaves
<1>7. CASE args = <<>>
  <2>1. LeftBy(bare, h.bind)
    BY <1>3, <1>5, LeftByWrite
  <2> HIDE DEF bare, full
  <2> QED BY <1>1, <1>7, <2>1, LeftByArm
<1>8. CASE args # <<>>
  <2>1. NoElse(full)
    BY <1>3, <1>4, <1>6, <1>8, NoElseTuples
  <2>2. Len(full) = 6 /\ full[2] = Write(set)
    OBVIOUS
  <2>3. 2 \in 1..Len(full)
    BY <2>2
  <2>4. LeftBy(full, h.bind)
    <3> HIDE DEF full
    <3> QED BY <1>6, <2>1, <2>2, <2>3 DEF LeftBy
  <2> HIDE DEF bare, full
  <2> QED BY <1>1, <1>8, <2>4, LeftByArm
<1> QED BY <1>7, <1>8

(* What closes an arithmetic operation is no else.                         *)
LEMMA ClosingNotElse == \A op : Write(Closing(op)) # Else
<1>1. /\ Text(<<")">>)[1] = <<")">>
      /\ Text(<<")", ")">>)[1] = <<")">>
  BY DEF Text, Sym
<1>2. <<")">> # <<"else">>
  OBVIOUS
<1> QED BY <1>1, <1>2, OtherTextNotElse DEF Closing

(* The binary operators leave their value.                                 *)
LEMMA OperationLeaves ==
  ASSUME WellFormed(prog), NEW h, h.n \in Terms(prog), h.temps \in Nat,
         h.bind \in Token, prog[h.n].kind = "Binary",
         NEW other \in Nat, NEW fresh
  PROVE  LeftBy(Operation(h, other, fresh), h.bind)
<1> DEFINE lhs   == Temp(h.temps)
           rhs   == Kid(prog, h.n, 2)
           op    == prog[h.n].op
           set   == << h.bind, Sym("=") >>
           start == set \o Opening(op) \o << lhs, Sym(LuaOp(op)) >>
           whole == set \o Opening(op) \o << lhs, Sym(LuaOp(op)), Temp(other) >>
                      \o Closing(op)
           first == Term(Kid(prog, h.n, 1), h.temps + 1, lhs)
           right == Term(rhs, fresh, Temp(other))
           what  == Free(rhs)
           close == Write(Closing(op))
<1>1. op \in BinaryOp
  BY PayloadOfTerm DEF PayloadOk
<1>2. Opening(op) \in Seq(Token) /\ Closing(op) \in Seq(Token)
  BY <1>1, OperatorTexts
<1>3. /\ << lhs, Sym(LuaOp(op)) >> \in Seq(Token)
      /\ << lhs, Sym(LuaOp(op)), Temp(other) >> \in Seq(Token)
  <2>1. lhs \in Token /\ Temp(other) \in Token /\ Sym(LuaOp(op)) \in Token
    BY <1>1, OperatorTexts, TempType, SymType
  <2> QED BY <2>1, Sequences2to5
<1>4. Delivers(set \o Opening(op), h.bind)
  <2>1. Delivers(set, h.bind)
    BY DeliversTexts
  <2> HIDE DEF set
  <2> QED BY <1>2, <2>1, DeliversMore
<1>5. Delivers(start, h.bind)
  <2> HIDE DEF set
  <2> QED BY <1>3, <1>4, DeliversMore
<1>6. Delivers(whole, h.bind)
  <2> HIDE DEF set
  <2>1. Delivers(set \o Opening(op) \o << lhs, Sym(LuaOp(op)), Temp(other) >>, h.bind)
    BY <1>3, <1>4, DeliversMore
  <2> QED BY <1>2, <2>1, DeliversMore
<1>7. first # Else /\ right # Else /\ what # Else /\ close # Else
  BY NotElse, ClosingNotElse
<1>8. Operation(h, other, fresh)
        = << first >> \o IF binds[rhs] THEN << right, Write(whole) >>
                         ELSE << Write(start), what, close >>
  BY DEF Operation
<1> HIDE DEF first, right, what, close, start, whole
<1>9. NoElse(<< first >>)
  BY <1>7, NoElseTuples
<1>10. LeftBy(<< Write(start), what, close >>, h.bind)
  BY <1>5, <1>7, LeftByWrite
<1>11. LeftBy(<< right, Write(whole) >>, h.bind)
  <2>1. Leaves(Write(whole), h.bind) /\ Write(whole) # Else
    BY <1>6, DeliversLeaves
  <2> QED BY <1>7, <2>1, NoElseTuples DEF LeftBy
<1> QED BY <1>8, <1>9, <1>10, <1>11, LeftConcat DEF LeftBy

(* The arms of generate_bin_op leave their value.                          *)
LEMMA BinaryLeaves ==
  ASSUME Inv, TermArithmetic \/ TermInfix \/ TermLogic
  PROVE  ValueLeft(Head(todo), Entered)
<1> DEFINE h == Head(todo)
<1>1. Doing("term") /\ todo # <<>> /\ prog[h.n].kind = "Binary"
  BY DEF TermArithmetic, TermInfix, TermLogic, TermArm, Doing
<1>2. WellFormed(prog) /\ h.n \in Terms(prog) /\ h.temps \in Nat /\ h.bind \in Token
  BY <1>1, TermPending
<1>3. \A other \in Nat : \A fresh : LeftBy(Operation(h, other, fresh), h.bind)
  BY <1>1, <1>2, OperationLeaves
<1>4. h.temps + 2 \in Nat
  BY <1>2
<1> HIDE DEF h
<1>5. CASE TermArithmetic
  BY <1>1, <1>3, <1>4, <1>5, LeftByArm DEF TermArithmetic, h
<1>6. CASE TermInfix
  BY <1>1, <1>2, <1>3, <1>6, LeftByArm DEF TermInfix, Infix, h
<1>7. CASE TermLogic
  <2> DEFINE opening == Write(Text(<<"not", "not", "(">>))
             closing == Write(Text(<<")">>))
  <2>1. Enter(<< opening >> \o Infix(h) \o << closing >>)
    BY <1>7 DEF TermLogic, h
  <2>2. opening # Else /\ closing # Else
    BY WordsNotElse
  <2>3. LeftBy(Infix(h), h.bind)
    BY <1>2, <1>3 DEF Infix
  <2> HIDE DEF opening, closing
  <2>4. NoElse(<< opening >>) /\ NoElse(<< closing >>)
    BY <2>2, NoElseTuples
  <2>5. LeftBy(<< opening >> \o Infix(h), h.bind)
    BY <2>3, <2>4, LeftConcat DEF LeftBy
  <2>6. LeftBy(<< opening >> \o Infix(h) \o << closing >>, h.bind)
    BY <2>4, <2>5, LeftConcat DEF LeftBy
  <2> QED BY <1>1, <2>1, <2>6, LeftByArm DEF h
<1> QED BY <1>5, <1>6, <1>7

(* A bind with an assignment behind it.                                    *)
LEMMA DeliversAssignment ==
  ASSUME NEW bind \in Token, NEW t \in Seq(Token), Len(t) >= 1, t[1] = Sym("=")
  PROVE  Delivers(<< bind >> \o t, bind)
<1>1. << bind >> \o t \in Seq(Token)
  BY SingletonType, Concat
<1>2. Len(<< bind >> \o t) >= 2 /\ (<< bind >> \o t)[1] = bind
      /\ (<< bind >> \o t)[2] = Sym("=")
  OBVIOUS
<1>3. Len(<< bind >> \o t) >= 1
  OBVIOUS
<1> QED BY <1>1, <1>2, <1>3 DEF Delivers

(* The texts that follow the bind of a function literal and of a tuple.    *)
LEMMA DeliversLiterals ==
  ASSUME NEW bind \in Token
  PROVE  /\ Delivers(<< bind >> \o Text(<<"=", "function", "(">>), bind)
         /\ Delivers(<< bind >> \o Text(<<"=", "(", "{">>), bind)
         /\ Delivers(<< bind >> \o Text(<<"=", "{">>), bind)
<1> DEFINE t == Text(<<"=", "function", "(">>)
           u == Text(<<"=", "(", "{">>)
           v == Text(<<"=", "{">>)
<1>1. Len(t) = 3 /\ Len(u) = 3 /\ Len(v) = 2
  BY DEF Text
<1>2. t[1] = Sym("=") /\ u[1] = Sym("=") /\ v[1] = Sym("=")
  <2>1. \A w, x, y : Text(<<w, x, y>>)[1] = Sym(w)
    BY DEF Text, Sym
  <2>2. \A w, x : Text(<<w, x>>)[1] = Sym(w)
    BY DEF Text, Sym
  <2> QED BY <2>1, <2>2, Zenon
<1>3. t \in Seq(Token) /\ u \in Seq(Token) /\ v \in Seq(Token)
  BY ConstantTexts
<1> HIDE DEF t, u, v
<1>4. Len(t) >= 1 /\ Len(u) >= 1 /\ Len(v) >= 1
  BY <1>1
<1>5. /\ Delivers(<< bind >> \o t, bind)
      /\ Delivers(<< bind >> \o u, bind)
      /\ Delivers(<< bind >> \o v, bind)
  BY <1>2, <1>3, <1>4, DeliversAssignment
<1> QED BY <1>5 DEF t, u, v

(* A function literal leaves its value.                                    *)
LEMMA FunctionLeaves ==
  ASSUME Inv, TermFunction
  PROVE  ValueLeft(Head(todo), Entered)
<1> DEFINE h    == Head(todo)
           head == << h.bind >> \o Text(<<"=", "function", "(">>)
                     \o PlainParameters(prog[h.n].parameters) \o Text(<<")">>)
           body == Term(Kid(prog, h.n, 1), 1, Temp(0))
<1>1. /\ Doing("term") /\ todo # <<>> /\ prog[h.n].kind = "Function"
      /\ Enter(<< Write(head), body, FunctionEnd >>)
  BY DEF TermFunction, TermArm, Doing
<1>2. h.bind \in Token /\ PayloadOk(prog[h.n])
  BY <1>1, TermPending
<1>3. Delivers(<< h.bind >> \o Text(<<"=", "function", "(">>), h.bind)
  BY <1>2, DeliversLiterals
<1>4. Delivers(head, h.bind)
  <2>1. ")" \in Word
    BY DEF Word
  <2>2. PlainParameters(prog[h.n].parameters) \in Seq(Token)
    BY <1>1, <1>2, PlainParametersType DEF PayloadOk
  <2>3. Delivers(<< h.bind >> \o Text(<<"=", "function", "(">>)
                   \o PlainParameters(prog[h.n].parameters), h.bind)
    BY <1>3, <2>2, DeliversMore
  <2> QED BY <2>1, <2>3, WordTexts, DeliversMore
<1>5. body # Else /\ FunctionEnd # Else
  BY NotElse
<1> HIDE DEF head, body
<1>6. LeftBy(<< Write(head), body, FunctionEnd >>, h.bind)
  BY <1>4, <1>5, LeftByWrite
<1> QED BY <1>1, <1>6, LeftByArm

(* A let leaves the value of what follows it.                              *)
LEMMA LetLeaves ==
  ASSUME Inv, TermLet
  PROVE  ValueLeft(Head(todo), Entered)
<1> DEFINE h    == Head(todo)
           name == VarName(prog[h.n].name)
           text == IF prog[h.n].name = "_" THEN <<>> ELSE << Sym("local"), name >>
           b == Term(Kid(prog, h.n, 1), h.temps + 1, name)
           c == Term(Kid(prog, h.n, 2), h.temps + 1, h.bind)
<1>1. Doing("term") /\ todo # <<>> /\ Enter(<< Write(text), b, c >>)
  BY DEF TermLet, TermArm, Doing
<1>2. Write(text) # Else
  <2>1. text = <<>> \/ text[1] = Sym("local")
    OBVIOUS
  <2>2. Sym("local") # <<"else">>
    BY DEF Sym
  <2> HIDE DEF text
  <2> QED BY <2>1, <2>2, OtherTextNotElse
<1>3. b # Else /\ c # Else
  BY NotElse
<1>4. Leaves(c, h.bind)
  BY DEF Leaves, Term
<1> HIDE DEF text, b, c
<1>5. LeftBy(<< Write(text), b, c >>, h.bind)
  BY <1>2, <1>3, <1>4, NoElseTuples DEF LeftBy
<1> QED BY <1>1, <1>5, LeftByArm

(* The projections and the tuple leave their value.                        *)
LEMMA ProjectionLeaves ==
  ASSUME Inv, TermProjection
  PROVE  ValueLeft(Head(todo), Entered)
<1> DEFINE h     == Head(todo)
           first == Term(Kid(prog, h.n, 1), h.temps + 1, Temp(h.temps))
           text  == << h.bind, Sym("="), Temp(h.temps), Sym(Selector(prog[h.n].kind)) >>
<1>1. /\ Doing("term") /\ todo # <<>> /\ Enter(<< first, Write(text) >>)
  BY DEF TermProjection, TermArm, Doing
<1>2. h.bind \in Token /\ h.temps \in Nat
  BY <1>1, TermPending
<1>3. Delivers(text, h.bind)
  <2>1. Selector(prog[h.n].kind) \in Word /\ "=" \in Word
    BY DEF Selector, Word
  <2>2. text \in Seq(Token)
    BY <1>2, <2>1, SymType, TempType, Sequences2to5
  <2> QED BY <2>2 DEF Delivers
<1>4. Leaves(Write(text), h.bind) /\ Write(text) # Else /\ first # Else
  BY <1>3, DeliversLeaves, NotElse
<1> HIDE DEF first, text
<1>5. LeftBy(<< first, Write(text) >>, h.bind)
  BY <1>4, NoElseTuples DEF LeftBy
<1> QED BY <1>1, <1>5, LeftByArm

(* Both forms of a tuple leave it.                                         *)
LEMMA TupleLeaves ==
  ASSUME Inv, TermTuple
  PROVE  ValueLeft(Head(todo), Entered)
<1> DEFINE h      == Head(todo)
           second == Kid(prog, h.n, 2)
           first  == Term(Kid(prog, h.n, 1), h.temps + 1, Temp(h.temps))
           pair   == << Temp(h.temps), Sym(","), Temp(h.temps + 1) >>
           whole  == << h.bind >> \o Text(<<"=", "(", "{">>) \o pair
                       \o Text(<<"}", ")">>)
           start  == << h.bind >> \o Text(<<"=", "{">>) \o << Temp(h.temps), Sym(",") >>
           right  == Term(second, h.temps + 2, Temp(h.temps + 1))
           what   == Free(second)
           close  == Write(Text(<<"}">>))
           calls  == << first >> \o IF ~InPlace(second) THEN << right, Write(whole) >>
                                    ELSE << Write(start), what, close >>
<1>1. Doing("term") /\ todo # <<>> /\ Enter(calls)
  BY DEF TermTuple, TermArm, Doing
<1>2. h.bind \in Token /\ h.temps \in Nat
  BY <1>1, TermPending
<1>3. /\ Delivers(<< h.bind >> \o Text(<<"=", "(", "{">>), h.bind)
      /\ Delivers(<< h.bind >> \o Text(<<"=", "{">>), h.bind)
  BY <1>2, DeliversLiterals
<1>4. /\ pair \in Seq(Token)
      /\ << Temp(h.temps), Sym(",") >> \in Seq(Token)
  <2>1. Temp(h.temps) \in Token /\ Temp(h.temps + 1) \in Token /\ Sym(",") \in Token
    <3>1. h.temps + 1 \in Nat /\ "," \in Word
      BY <1>2 DEF Word
    <3> QED BY <1>2, <3>1, TempType, SymType
  <2> QED BY <2>1, Sequences2to5
<1> HIDE DEF pair
<1>5. Delivers(whole, h.bind)
  <2>1. Delivers(<< h.bind >> \o Text(<<"=", "(", "{">>) \o pair, h.bind)
    BY <1>3, <1>4, DeliversMore
  <2> QED BY <2>1, ConstantTexts, DeliversMore
<1>6. Delivers(start, h.bind)
  BY <1>3, <1>4, DeliversMore
<1>7. first # Else /\ right # Else /\ what # Else /\ close # Else
  BY NotElse, WordsNotElse
<1> HIDE DEF first, right, what, close, start, whole
<1>8. NoElse(<< first >>)
  BY <1>7, NoElseTuples
<1>9. LeftBy(<< Write(start), what, close >>, h.bind)
  BY <1>6, <1>7, LeftByWrite
<1>10. LeftBy(<< right, Write(whole) >>, h.bind)
  <2>1. Leaves(Write(whole), h.bind) /\ Write(whole) # Else
    BY <1>5, DeliversLeaves
  <2> QED BY <1>7, <2>1, NoElseTuples DEF LeftBy
<1>11. LeftBy(calls, h.bind)
  BY <1>8, <1>9, <1>10, LeftConcat DEF LeftBy
<1> HIDE DEF calls
<1> QED BY <1>1, <1>11, LeftByArm

(* Both branches of an if leave its value.                                 *)
LEMMA IfLeaves ==
  ASSUME Inv, TermIf
  PROVE  ValueLeft(Head(todo), Entered)
<1> DEFINE h     == Head(todo)
           cond  == Kid(prog, h.n, 1)
           temps == IF binds[cond] THEN h.temps + 1 ELSE h.temps
           a     == Term(cond, h.temps + 1, Temp(h.temps))
           b     == Write(<< Sym("if"), Temp(h.temps), Sym("then") >>)
           c     == Write(Text(<<"if">>))
           d     == Free(cond)
           e     == Write(Text(<<"then">>))
           first == IF binds[cond] THEN << a, b >> ELSE << c, d, e >>
           yes   == Term(Kid(prog, h.n, 2), temps, h.bind)
           no    == Term(Kid(prog, h.n, 3), temps, h.bind)
           end   == Write(Text(<<"end">>))
           rest  == << yes, Else, no, end >>
           calls == first \o rest
           k     == Len(first)
<1>1. todo # <<>> /\ Enter(calls)
  BY DEF TermIf, TermArm, Doing
<1>2. a # Else /\ c # Else /\ d # Else /\ e # Else
      /\ yes # Else /\ no # Else /\ end # Else
  BY NotElse, WordsNotElse
<1>3. b # Else
  <2>1. << Sym("if"), Temp(h.temps), Sym("then") >>[1] = Sym("if")
    OBVIOUS
  <2>2. Sym("if") # <<"else">>
    BY DEF Sym
  <2> QED BY <2>1, <2>2, OtherTextNotElse
<1>4. Leaves(yes, h.bind) /\ Leaves(no, h.bind)
  BY DEF Leaves, Term
<1> HIDE DEF a, b, c, d, e, yes, no, end
<1>5. NoElse(first)
  BY <1>2, <1>3, NoElseTuples
<1>6. IsSeq(rest) /\ Len(rest) = 4
  <2>1. rest \in Seq({yes, Else, no, end}) /\ Len(rest) = 4
    OBVIOUS
  <2> QED BY <2>1, SeqIsSeq
<1>7. rest[1] = yes /\ rest[2] = Else /\ rest[3] = no /\ rest[4] = end
  OBVIOUS
<1> HIDE DEF first, rest
<1>8. /\ IsSeq(calls) /\ k \in Nat /\ Len(calls) = k + Len(rest)
      /\ \A i \in 1..k : calls[i] = first[i]
      /\ \A i \in 1..Len(rest) : calls[i + k] = rest[i]
  <2>1. IsSeq(first)
    BY <1>5 DEF NoElse
  <2>2. IsSeq(rest)
    BY <1>6
  <2>3. IsSeq(first \o rest)
    BY <2>1, <2>2, ConcatParts, Zenon
  <2>4. Len(first) \in Nat /\ Len(first \o rest) = Len(first) + Len(rest)
    BY <2>1, <2>2, ConcatParts, Zenon
  <2>5. \A i \in 1..Len(first) : (first \o rest)[i] = first[i]
    BY <2>1, <2>2, ConcatParts, Zenon
  <2>6. ASSUME NEW i \in 1..Len(rest)
        PROVE  (first \o rest)[i + Len(first)] = rest[i]
    BY <2>1, <2>2, ConcatParts
  <2> QED BY <2>3, <2>4, <2>5, <2>6, Zenon
<1> HIDE DEF calls, k
<1>9. /\ calls[1 + k] = yes /\ calls[2 + k] = Else
      /\ calls[3 + k] = no /\ calls[4 + k] = end
      /\ Len(calls) = k + 4
  <2>1. 1 \in 1..4 /\ 2 \in 1..4 /\ 3 \in 1..4 /\ 4 \in 1..4
    OBVIOUS
  <2> QED BY <1>6, <1>7, <1>8, <2>1
<1>10. Entered = calls
  BY <1>1, <1>8, EnteredCalls DEF calls
<1>11. DOMAIN calls = 1..Len(calls)
  BY <1>8 DEF IsSeq
<1> HIDE DEF Entered
<1>12. ASSUME NEW x \in 1..Len(calls), calls[x] = Else
       PROVE  x = 2 + k
  <2>1. x \in 1..k \/ x = 1 + k \/ x = 2 + k \/ x = 3 + k \/ x = 4 + k
    BY <1>8, <1>9
  <2>2. x \notin 1..k
    BY <1>5, <1>8, <1>12 DEF NoElse, k
  <2> QED BY <1>2, <1>9, <1>12, <2>1, <2>2
<1>13. /\ 1 + k \in 1..Len(calls) /\ 1 + k \in 1..((2 + k) - 1)
       /\ 3 + k \in ((2 + k) + 1)..Len(calls)
  BY <1>8, <1>9
<1> QED BY <1>4, <1>9, <1>10, <1>11, <1>12, <1>13 DEF ValueLeft

(* Every arm of generate_term but the one of print leaves the value of its *)
(* term, for every program: the calls and writes that take its place       *)
(* assign its bind or return, in both branches of an If.                   *)
THEOREM EveryArmLeavesItsValue == Spec => ValueLeftOutsidePrint
<1>1. Inv /\ [Next]_vars => [LeavesValue(Kind \ {"Print"})]_vars
  <2> SUFFICES ASSUME Inv, Next, Doing("term"),
                      prog[Head(todo).n].kind \in Kind \ {"Print"}
               PROVE  ValueLeft(Head(todo), Entered) \/ UNCHANGED vars
    BY DEF LeavesValue
  <2>1. status = "generating" /\ todo # <<>> /\ Head(todo).do = "term"
    BY DEF Doing
  <2>2. TermNext \/ UNCHANGED vars
    BY <2>1 DEF Next, AnnotateStep, BeginProgram, WriteText, NextTerm, NextFree,
                Finish, Terminated, FreeNext, FreePanics, FreeError, FreeLeaf,
                FreeCall, FreeBinary, FreeFunction, FreePrint, FreeProjection,
                FreeTuple, FreeArm, Doing
  <2>3. ~TermPrint
    BY DEF TermPrint, TermArm
  <2> HIDE DEF Entered
  <2> QED BY <2>2, <2>3, InPlaceLeaves, BoundCallLeaves, FreeCallLeaves,
             BinaryLeaves, FunctionLeaves, LetLeaves, IfLeaves,
             ProjectionLeaves, TupleLeaves DEF TermNext
<1> QED BY <1>1, InvAlways, PTL DEF Spec, ValueLeftOutsidePrint

==============================================================================
