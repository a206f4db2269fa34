------------------------- MODULE GenerateTempsProofs -------------------------
(***************************************************************************)
(* Proofs about the temporaries of the generator, for every set of         *)
(* programs and every MAX_DEPTH: no call is given a temporary as scratch   *)
(* that holds a result still to be read, and outside generate_infix no     *)
(* result is overwritten before it is read.                                *)
(*                                                                         *)
(* The argument.  Both properties are about two pending calls of the same  *)
(* function body.  An arm puts calls in the place of the first task, so a  *)
(* new pair is two of these calls, which is a matter of the arm alone, or  *)
(* one of them and a task that was pending before.  For the second it is   *)
(* enough that the calls of an arm promise what the task they replace      *)
(* promised (TempsCalls): as scratch they use only what it could use, and  *)
(* what they leave a result in is read within the arm, or is where the     *)
(* task itself left its result.  That needs one more fact about pending    *)
(* calls: a call leaves its result in no temporary above the first it uses *)
(* as scratch (Bounded).                                                   *)
(***************************************************************************)
EXTENDS GenerateProofs

-----------------------------------------------------------------------------
(* The invariant.                                                          *)

(* The result of a call goes to its own scratch or below, and the          *)
(* arguments of a loop end below its scratch.                              *)
Bounded(t) ==
  /\ t.do = "term" => t.temps \in Nat /\ \A k \in Assigns(t) : k <= t.temps
  /\ t.do = "terms" => t.temps \in Nat /\ t.temp + Len(t.ns) <= t.temps

(* SameFunction, ScratchAboveHeld and ResultsKept of any sequence.         *)
Together(s, i, j) == i < j /\ \A m \in i..(j-1) : s[m] # FunctionEnd

Held(s) ==
  \A i, j \in DOMAIN s :
    (Together(s, i, j) /\ NeedsScratch(s[i])) =>
      \A k \in Reads(s[j]) :
        k < s[i].temps \/ \E m \in i..(j-1) : k \in Assigns(s[m])

Kept(s) ==
  \A i, j \in DOMAIN s :
    Together(s, i, j) =>
      \A k \in Assigns(s[i]) \cap Assigns(s[j]) :
        \E m \in (i+1)..(j-1) : s[m] = Else \/ k \in Reads(s[m])

TempsInv ==
  /\ \A i \in DOMAIN todo : Bounded(todo[i])
  /\ Held(todo)
  /\ InfixWithBoundRhs \/ Kept(todo)

(* A function literal ends behind call i.                                  *)
Ended(calls, i) == \E m \in i..Len(calls) : calls[m] = FunctionEnd

(* What calls may take the place of the task h.                            *)
ScratchOf(h, calls, i) ==
  NeedsScratch(calls[i]) =>
    \/ Ended(calls, i)
    \/ /\ NeedsScratch(h)
       /\ h.temps <= calls[i].temps
       /\ \A k \in Assigns(h) :
            k < calls[i].temps \/ \E m \in i..Len(calls) : k \in Assigns(calls[m])

ResultsOf(h, calls, i) ==
  \A k \in Assigns(calls[i]) :
    \/ Ended(calls, i)
    \/ k \in Assigns(h)
    \/ \E m \in (i+1)..Len(calls) : k \in Reads(calls[m])

TempsCalls(h, calls) ==
  /\ \A i \in 1..Len(calls) : Bounded(calls[i]) /\ ScratchOf(h, calls, i)
  /\ Held(calls)
  /\ \/ InfixWithBoundRhs
     \/ /\ Kept(calls)
        /\ \A i \in 1..Len(calls) : ResultsOf(h, calls, i)

-----------------------------------------------------------------------------
(* A step that puts calls in the place of the first task.                  *)

(* The kinds of tasks, and what tells them apart.                          *)
LEMMA TaskShapes ==
  /\ FunctionEnd.do = "write" /\ Else.do = "write"
  /\ \A t : t.do = "write" => Assigns(t) = {} /\ ~NeedsScratch(t) /\ Bounded(t)
  /\ \A t : t.do \notin {"term", "terms"} =>
              Assigns(t) = {} /\ ~NeedsScratch(t) /\ Bounded(t)
BY DEF FunctionEnd, Else, Write, Assigns, NeedsScratch, Bounded

(* next is s with calls in the place of its first task.                    *)
Follows(s, calls, next) ==
  /\ Len(calls) \in Nat /\ DOMAIN calls = 1..Len(calls)
  /\ Len(s) \in Nat /\ Len(s) >= 1 /\ DOMAIN s = 1..Len(s)
  /\ DOMAIN next = 1..Len(next) /\ Len(next) = Len(calls) + Len(s) - 1
  /\ \A x \in 1..Len(calls) : next[x] = calls[x]
  /\ \A x \in 2..Len(s) : next[x + Len(calls) - 1] = s[x]

(* That is what a step does with todo.                                     *)
LEMMA StepFollows ==
  ASSUME NEW S, NEW s \in Seq(S), s # <<>>,
         NEW T, NEW calls \in Seq(T), NEW next, next = calls \o Tail(s)
  PROVE  Follows(s, calls, next)
<1>1. /\ next \in Seq(S \cup T)
      /\ Len(calls) \in Nat /\ Len(s) \in Nat /\ Len(s) >= 1
      /\ Len(next) = Len(calls) + Len(s) - 1
      /\ \A x \in 1..Len(calls) : next[x] = calls[x]
      /\ \A x \in 2..Len(s) : next[x + Len(calls) - 1] = s[x]
  <2>1. s \in Seq(S) /\ s # <<>> /\ calls \in Seq(T) /\ next = calls \o Tail(s)
    OBVIOUS
  <2> QED BY ONLY <2>1, Replaced
<1>2. DOMAIN calls = 1..Len(calls) /\ DOMAIN s = 1..Len(s)
  OBVIOUS
<1>3. DOMAIN next = 1..Len(next)
  BY ONLY <1>1
<1> QED BY <1>1, <1>2, <1>3, Zenon DEF Follows

(* Two tasks that stay pending are as far apart as before.                 *)
LEMMA OldPairs ==
  ASSUME NEW s, NEW calls, NEW next, Follows(s, calls, next),
         NEW i \in (Len(calls)+1)..Len(next), NEW j \in (Len(calls)+1)..Len(next),
         Together(next, i, j)
  PROVE  /\ i - Len(calls) + 1 \in 2..Len(s) /\ j - Len(calls) + 1 \in 2..Len(s)
         /\ next[i] = s[i - Len(calls) + 1] /\ next[j] = s[j - Len(calls) + 1]
         /\ Together(s, i - Len(calls) + 1, j - Len(calls) + 1)
         /\ \A m \in (i - Len(calls) + 1)..((j - Len(calls) + 1) - 1) :
              m + Len(calls) - 1 \in i..(j-1) /\ next[m + Len(calls) - 1] = s[m]
<1> DEFINE k == Len(calls)
<1>1. /\ k \in Nat /\ Len(s) \in Nat /\ Len(s) >= 1
      /\ Len(next) = k + Len(s) - 1
      /\ \A x \in 2..Len(s) : next[x + k - 1] = s[x]
  BY DEF Follows
<1> DEFINE x == i - k + 1
           y == j - k + 1
<1>2. /\ i \in Int /\ j \in Int
      /\ x \in 2..Len(s) /\ y \in 2..Len(s) /\ x + k - 1 = i /\ y + k - 1 = j
  BY <1>1
<1>3. next[i] = s[x] /\ next[j] = s[y]
  <2> HIDE DEF x, y
  <2> QED BY <1>1, <1>2
<1>4. i < j /\ \A m \in i..(j-1) : next[m] # FunctionEnd
  BY DEF Together
<1>5. ASSUME NEW m \in x..(y - 1)
      PROVE  m + k - 1 \in i..(j-1) /\ next[m + k - 1] = s[m]
  <2>1. m + k - 1 \in i..(j-1) /\ m \in 2..Len(s)
    BY <1>1, <1>2
  <2> QED BY <1>1, <2>1
<1>6. x < y
  BY <1>1, <1>2, <1>4
<1> HIDE DEF x, y
<1>7. Together(s, x, y)
  BY <1>4, <1>5, <1>6, Zenon DEF Together
<1> QED BY <1>2, <1>3, <1>5, <1>7 DEF x, y

(* A call of the arm and a task that was pending before: the first task    *)
(* and that task were in the same function body, unless a literal ends in  *)
(* the arm.                                                                *)
LEMMA MixedPairs ==
  ASSUME NEW s, NEW calls, NEW next, Follows(s, calls, next),
         NEW i \in 1..Len(calls), NEW j \in (Len(calls)+1)..Len(next),
         Together(next, i, j)
  PROVE  /\ j - Len(calls) + 1 \in 2..Len(s) /\ next[j] = s[j - Len(calls) + 1]
         /\ next[i] = calls[i]
         /\ ~Ended(calls, i)
         /\ s[1] # FunctionEnd => Together(s, 1, j - Len(calls) + 1)
         /\ \A m \in 2..((j - Len(calls) + 1) - 1) :
              m + Len(calls) - 1 \in (i+1)..(j-1) /\ next[m + Len(calls) - 1] = s[m]
         /\ \A m \in i..Len(calls) : m \in i..(j-1) /\ next[m] = calls[m]
<1> DEFINE k == Len(calls)
<1>1. /\ k \in Nat /\ Len(s) \in Nat /\ Len(s) >= 1
      /\ Len(next) = k + Len(s) - 1
      /\ \A x \in 1..k : next[x] = calls[x]
      /\ \A x \in 2..Len(s) : next[x + k - 1] = s[x]
  BY DEF Follows
<1> DEFINE y == j - k + 1
<1>2. /\ i \in Int /\ j \in Int /\ y \in 2..Len(s) /\ y + k - 1 = j
  BY <1>1
<1>3. next[i] = calls[i] /\ next[j] = s[y]
  <2> HIDE DEF y
  <2> QED BY <1>1, <1>2
<1>4. i < j /\ \A m \in i..(j-1) : next[m] # FunctionEnd
  BY DEF Together
<1>5. ASSUME NEW m \in i..k PROVE m \in i..(j-1) /\ next[m] = calls[m]
  <2>1. m \in i..(j-1) /\ m \in 1..k
    BY <1>1, <1>2
  <2> QED BY <1>1, <2>1
<1>6. ~Ended(calls, i)
  BY <1>4, <1>5 DEF Ended
<1>7. ASSUME NEW m \in 2..(y - 1)
      PROVE  m + k - 1 \in (i+1)..(j-1) /\ m + k - 1 \in i..(j-1)
             /\ next[m + k - 1] = s[m]
  <2>1. m + k - 1 \in (i+1)..(j-1) /\ m + k - 1 \in i..(j-1) /\ m \in 2..Len(s)
    BY <1>1, <1>2
  <2> QED BY <1>1, <2>1
<1>8. s[1] # FunctionEnd => Together(s, 1, y)
  <2>1. 1 < y
    BY <1>1, <1>2
  <2>2. \A m \in 1..(y-1) : m = 1 \/ m \in 2..(y-1)
    BY <1>1, <1>2
  <2> HIDE DEF y
  <2> QED BY <1>4, <1>7, <2>1, <2>2 DEF Together
<1> QED BY <1>2, <1>3, <1>5, <1>6, <1>7, <1>8

(* Two calls of the arm are as far apart as in the arm.                    *)
LEMMA NewPairs ==
  ASSUME NEW s, NEW calls, NEW next, Follows(s, calls, next),
         NEW i \in 1..Len(calls), NEW j \in 1..Len(calls),
         Together(next, i, j)
  PROVE  /\ next[i] = calls[i] /\ next[j] = calls[j]
         /\ Together(calls, i, j)
         /\ \A m \in i..(j-1) : next[m] = calls[m]
<1>1. Len(calls) \in Nat /\ \A x \in 1..Len(calls) : next[x] = calls[x]
  BY DEF Follows
<1>2. i < j /\ \A m \in i..(j-1) : next[m] # FunctionEnd
  BY DEF Together
<1>3. \A m \in i..(j-1) : m \in 1..Len(calls)
  BY <1>1
<1> QED BY <1>1, <1>2, <1>3, Zenon DEF Together

(* What is held stays out of scratch.                                      *)
LEMMA CallsKeepHeld ==
  ASSUME NEW s, NEW calls, NEW next, Follows(s, calls, next),
         Held(s), Held(calls),
         \A i \in 1..Len(s) : NeedsScratch(s[i]) => s[i].temps \in Nat,
         \A i \in 1..Len(calls) : NeedsScratch(calls[i]) => calls[i].temps \in Nat,
         \A i \in 1..Len(s) : \A k \in Reads(s[i]) : k \in Nat,
         \A i \in 1..Len(calls) : ScratchOf(s[1], calls, i)
  PROVE  Held(next)
<1> DEFINE c == Len(calls)
<1>1. /\ c \in Nat /\ Len(s) \in Nat /\ Len(s) >= 1
      /\ DOMAIN next = 1..Len(next) /\ Len(next) = c + Len(s) - 1
      /\ DOMAIN s = 1..Len(s) /\ DOMAIN calls = 1..c
  BY DEF Follows
<1> HIDE DEF c
<1> SUFFICES ASSUME NEW i \in 1..Len(next), NEW j \in 1..Len(next),
                    Together(next, i, j), NeedsScratch(next[i]),
                    NEW k \in Reads(next[j])
             PROVE  k < next[i].temps \/ \E m \in i..(j-1) : k \in Assigns(next[m])
  BY <1>1, Zenon DEF Held
<1>2. i < j
  BY DEF Together
<1>3. CASE i \in 1..c /\ j \in 1..c
  <2>1. /\ next[i] = calls[i] /\ next[j] = calls[j] /\ Together(calls, i, j)
        /\ \A m \in i..(j-1) : next[m] = calls[m]
    <3>1. Follows(s, calls, next) /\ Together(next, i, j) /\ i \in 1..Len(calls) /\ j \in 1..Len(calls)
      BY <1>3 DEF c
    <3> QED BY ONLY <3>1, NewPairs
  <2>2. k < calls[i].temps \/ \E m \in i..(j-1) : k \in Assigns(calls[m])
    BY <1>1, <1>3, <2>1, Zenon DEF Held
  <2> QED BY <2>1, <2>2, Zenon
<1>4. CASE i \in (c+1)..Len(next) /\ j \in (c+1)..Len(next)
  <2> DEFINE x == i - c + 1
             y == j - c + 1
  <2>1. /\ x \in 2..Len(s) /\ y \in 2..Len(s) /\ next[i] = s[x] /\ next[j] = s[y]
        /\ Together(s, x, y)
        /\ \A m \in x..(y-1) : m + c - 1 \in i..(j-1) /\ next[m + c - 1] = s[m]
    <3>1. /\ Follows(s, calls, next) /\ Together(next, i, j)
          /\ i \in (Len(calls)+1)..Len(next) /\ j \in (Len(calls)+1)..Len(next)
      BY <1>4 DEF c
    <3> QED BY ONLY <3>1, OldPairs DEF c
  <2>2. x \in DOMAIN s /\ y \in DOMAIN s
    BY <1>1, <2>1
  <2> HIDE DEF x, y
  <2>3. k < s[x].temps \/ \E m \in x..(y-1) : k \in Assigns(s[m])
    BY <2>1, <2>2, Zenon DEF Held
  <2> QED BY <2>1, <2>3, Zenon
<1>5. CASE i \in 1..c /\ j \in (c+1)..Len(next)
  <2> DEFINE y == j - c + 1
  <2>1. /\ y \in 2..Len(s) /\ next[j] = s[y] /\ next[i] = calls[i]
        /\ ~Ended(calls, i)
        /\ s[1] # FunctionEnd => Together(s, 1, y)
        /\ \A m \in 2..(y-1) : m + c - 1 \in (i+1)..(j-1) /\ next[m + c - 1] = s[m]
        /\ \A m \in i..c : m \in i..(j-1) /\ next[m] = calls[m]
    <3>1. /\ Follows(s, calls, next) /\ Together(next, i, j)
          /\ i \in 1..Len(calls) /\ j \in (Len(calls)+1)..Len(next)
      BY <1>5 DEF c
    <3> QED BY ONLY <3>1, MixedPairs DEF c
  <2>2. 1 \in DOMAIN s /\ y \in DOMAIN s /\ \A m \in 1..(y-1) : m = 1 \/ m \in 2..(y-1)
    BY <1>1, <2>1
  <2>3. \A m \in (i+1)..(j-1) : m \in i..(j-1)
    BY <1>1
  <2> HIDE DEF y
  <2>4. /\ NeedsScratch(s[1]) /\ s[1].temps <= calls[i].temps
        /\ \A a \in Assigns(s[1]) :
             a < calls[i].temps \/ \E m \in i..c : a \in Assigns(calls[m])
    BY <1>5, <2>1, Zenon DEF ScratchOf, c
  <2>5. s[1] # FunctionEnd
    BY <2>4, TaskShapes
  <2>6. k < s[1].temps \/ \E m \in 1..(y-1) : k \in Assigns(s[m])
    BY <2>1, <2>2, <2>4, <2>5, Zenon DEF Held
  <2>7. CASE k < s[1].temps
    <3>1. k \in Nat /\ s[1].temps \in Nat /\ calls[i].temps \in Nat
      BY <1>1, <1>5, <2>1, <2>2, <2>4, Zenon DEF c
    <3>2. k < calls[i].temps
      BY <2>4, <2>7, <3>1
    <3> QED BY <2>1, <3>2, Zenon
  <2>8. CASE \E m \in 1..(y-1) : k \in Assigns(s[m])
    <3>1. k \in Assigns(s[1]) \/ \E m \in 2..(y-1) : k \in Assigns(s[m])
      BY <2>2, <2>8, Zenon
    <3> QED BY <2>1, <2>3, <2>4, <3>1, Zenon
  <2> QED BY <2>6, <2>7, <2>8
<1>6. \/ i \in 1..c /\ j \in 1..c
      \/ i \in (c+1)..Len(next) /\ j \in (c+1)..Len(next)
      \/ i \in 1..c /\ j \in (c+1)..Len(next)
  BY <1>1, <1>2
<1> QED BY <1>3, <1>4, <1>5, <1>6

(* No result is overwritten before it is read.                             *)
LEMMA CallsKeepKept ==
  ASSUME NEW s, NEW calls, NEW next, Follows(s, calls, next),
         Kept(s), Kept(calls),
         \A i \in 1..Len(calls) : ResultsOf(s[1], calls, i)
  PROVE  Kept(next)
<1> DEFINE c == Len(calls)
<1>1. /\ c \in Nat /\ Len(s) \in Nat /\ Len(s) >= 1
      /\ DOMAIN next = 1..Len(next) /\ Len(next) = c + Len(s) - 1
      /\ DOMAIN s = 1..Len(s) /\ DOMAIN calls = 1..c
  BY DEF Follows
<1> HIDE DEF c
<1> SUFFICES ASSUME NEW i \in 1..Len(next), NEW j \in 1..Len(next),
                    Together(next, i, j),
                    NEW k \in Assigns(next[i]) \cap Assigns(next[j])
             PROVE  \E m \in (i+1)..(j-1) : next[m] = Else \/ k \in Reads(next[m])
  BY <1>1, Zenon DEF Kept
<1>2. i < j
  BY DEF Together
<1>3. CASE i \in 1..c /\ j \in 1..c
  <2>1. /\ next[i] = calls[i] /\ next[j] = calls[j] /\ Together(calls, i, j)
        /\ \A m \in i..(j-1) : next[m] = calls[m]
    <3>1. Follows(s, calls, next) /\ Together(next, i, j) /\ i \in 1..Len(calls) /\ j \in 1..Len(calls)
      BY <1>3 DEF c
    <3> QED BY ONLY <3>1, NewPairs
  <2>2. \E m \in (i+1)..(j-1) : calls[m] = Else \/ k \in Reads(calls[m])
    BY <1>1, <1>3, <2>1, Zenon DEF Kept
  <2>3. \A m \in (i+1)..(j-1) : m \in i..(j-1)
    BY <1>1
  <2> QED BY <2>1, <2>2, <2>3, Zenon
<1>4. CASE i \in (c+1)..Len(next) /\ j \in (c+1)..Len(next)
  <2> DEFINE x == i - c + 1
             y == j - c + 1
  <2>1. /\ x \in 2..Len(s) /\ y \in 2..Len(s) /\ next[i] = s[x] /\ next[j] = s[y]
        /\ Together(s, x, y)
        /\ \A m \in x..(y-1) : m + c - 1 \in i..(j-1) /\ next[m + c - 1] = s[m]
    <3>1. /\ Follows(s, calls, next) /\ Together(next, i, j)
          /\ i \in (Len(calls)+1)..Len(next) /\ j \in (Len(calls)+1)..Len(next)
      BY <1>4 DEF c
    <3> QED BY ONLY <3>1, OldPairs DEF c
  <2>2. x \in DOMAIN s /\ y \in DOMAIN s
    BY <1>1, <2>1
  <2>3. \A m \in (x+1)..(y-1) : m \in x..(y-1) /\ m + c - 1 \in (i+1)..(j-1)
    BY <1>1, <1>4
  <2> HIDE DEF x, y
  <2>4. \E m \in (x+1)..(y-1) : s[m] = Else \/ k \in Reads(s[m])
    BY <2>1, <2>2, Zenon DEF Kept
  <2> QED BY <2>1, <2>3, <2>4, Zenon
<1>5. CASE i \in 1..c /\ j \in (c+1)..Len(next)
  <2> DEFINE y == j - c + 1
  <2>1. /\ y \in 2..Len(s) /\ next[j] = s[y] /\ next[i] = calls[i]
        /\ ~Ended(calls, i)
        /\ s[1] # FunctionEnd => Together(s, 1, y)
        /\ \A m \in 2..(y-1) : m + c - 1 \in (i+1)..(j-1) /\ next[m + c - 1] = s[m]
        /\ \A m \in i..c : m \in i..(j-1) /\ next[m] = calls[m]
    <3>1. /\ Follows(s, calls, next) /\ Together(next, i, j)
          /\ i \in 1..Len(calls) /\ j \in (Len(calls)+1)..Len(next)
      BY <1>5 DEF c
    <3> QED BY ONLY <3>1, MixedPairs DEF c
  <2>2. 1 \in DOMAIN s /\ y \in DOMAIN s /\ 1 + 1 = 2
    BY <1>1, <2>1
  <2>3. \A m \in (i+1)..c : m \in i..c /\ (m \in i..(j-1) => m \in (i+1)..(j-1))
    BY <1>1
  <2> HIDE DEF y
  <2>4. k \in Assigns(s[1]) \/ \E m \in (i+1)..c : k \in Reads(calls[m])
    BY <1>5, <2>1, Zenon DEF ResultsOf, c
  <2>5. CASE k \in Assigns(s[1])
    <3>1. s[1] # FunctionEnd
      BY <2>5, TaskShapes
    <3>2. \E m \in 2..(y-1) : s[m] = Else \/ k \in Reads(s[m])
      BY <2>1, <2>2, <2>5, <3>1, Zenon DEF Kept
    <3> QED BY <2>1, <3>2, Zenon
  <2>6. CASE \E m \in (i+1)..c : k \in Reads(calls[m])
    BY <2>1, <2>3, <2>6, Zenon
  <2> QED BY <2>4, <2>5, <2>6
<1>6. \/ i \in 1..c /\ j \in 1..c
      \/ i \in (c+1)..Len(next) /\ j \in (c+1)..Len(next)
      \/ i \in 1..c /\ j \in (c+1)..Len(next)
  BY <1>1, <1>2
<1> QED BY <1>3, <1>4, <1>5, <1>6

(* A token that is a temporary has its number.                             *)
LEMMA TempToken ==
  ASSUME NEW t \in Token, IsTemp(t)
  PROVE  t[2] \in Nat /\ t = Temp(t[2])
BY DEF Token, IsTemp, Temp

(* Only temporaries are read.                                              *)
LEMMA ReadsNumbers ==
  ASSUME NEW t \in SafeTask
  PROVE  \A k \in Reads(t) : k \in Nat
<1>1. CASE t.do = "write"
  <2>1. t.text \in Seq(Token)
    BY <1>1, SafeTaskFields
  <2>2. \A x \in DOMAIN t.text : t.text[x] \in Token
    BY <2>1
  <2> QED BY <1>1, <2>2, TempToken DEF Reads, TempsRead
<1>2. CASE t.do # "write"
  BY <1>2 DEF Reads
<1> QED BY <1>1, <1>2

(* Replacing the first task by calls that promise what it promised keeps   *)
(* the invariant.                                                          *)
LEMMA CallsKeepTemps ==
  ASSUME Inv, TempsInv, todo # <<>>, UNCHANGED <<prog, binds>>,
         NEW T, NEW calls \in Seq(T), todo' = calls \o Tail(todo),
         TempsCalls(Head(todo), calls)
  PROVE  TempsInv'
<1>1. todo \in Seq(SafeTask) /\ Head(todo) = todo[1]
  BY DEF Inv, Generating
<1>2. Follows(todo, calls, todo')
  BY <1>1, StepFollows
<1>3. DOMAIN todo = 1..Len(todo)
  BY <1>1
<1>4. /\ \A i \in 1..Len(todo) : Bounded(todo[i])
      /\ \A i \in 1..Len(calls) : Bounded(calls[i]) /\ ScratchOf(todo[1], calls, i)
      /\ Held(todo) /\ Held(calls)
      /\ InfixWithBoundRhs \/ Kept(todo)
      /\ \/ InfixWithBoundRhs
         \/ Kept(calls) /\ \A i \in 1..Len(calls) : ResultsOf(todo[1], calls, i)
  BY <1>1, <1>3, Zenon DEF TempsInv, TempsCalls
<1>5. \A t : Bounded(t) /\ NeedsScratch(t) => t.temps \in Nat
  BY DEF Bounded, NeedsScratch
<1>6. \A i \in 1..Len(todo) : \A k \in Reads(todo[i]) : k \in Nat
  BY <1>1, ReadsNumbers
<1> HIDE <1>1
<1>7. Held(todo')
  BY <1>2, <1>4, <1>5, <1>6, CallsKeepHeld, Zenon
<1>8. InfixWithBoundRhs \/ Kept(todo')
  BY <1>2, <1>4, CallsKeepKept, Zenon
<1>9. ASSUME NEW i \in DOMAIN todo' PROVE Bounded(todo'[i])
  <2> DEFINE c == Len(calls)
             x == i - c + 1
  <2>1. i \in 1..c \/ (x \in 2..Len(todo) /\ x + c - 1 = i /\ x \in 1..Len(todo))
    BY <1>2 DEF Follows
  <2> HIDE DEF x
  <2> QED BY <1>2, <1>4, <2>1 DEF Follows
<1>10. InfixWithBoundRhs' = InfixWithBoundRhs
  BY DEF InfixWithBoundRhs
<1>11. /\ (\A i \in DOMAIN todo : Bounded(todo[i]))' /\ Held(todo)'
       /\ (InfixWithBoundRhs \/ Kept(todo))'
  BY <1>7, <1>8, <1>9, <1>10 DEF Held, Kept, Together, Bounded, Assigns
<1> QED BY <1>11 DEF TempsInv

-----------------------------------------------------------------------------
(* The shapes of arms.                                                     *)

(* A task that does nothing with temporaries.                              *)
Silent(t) == Bounded(t) /\ ~NeedsScratch(t) /\ Assigns(t) = {} /\ Reads(t) = {}

(* A call that leaves results in the temporaries K, with scratch above     *)
(* that of the task h.                                                     *)
Loads(t, h, K) ==
  /\ Bounded(t) /\ Reads(t) = {} /\ Assigns(t) = K
  /\ NeedsScratch(t) => h.temps + 1 <= t.temps

(* The task that reads them.                                               *)
Uses(t, K) == Bounded(t) /\ ~NeedsScratch(t) /\ Assigns(t) = {} /\ Reads(t) = K

(* Calls that do nothing with temporaries may replace any task.            *)
LEMMA SilentCalls ==
  ASSUME NEW h, NEW calls, DOMAIN calls = 1..Len(calls),
         \A i \in 1..Len(calls) : Silent(calls[i])
  PROVE  TempsCalls(h, calls)
BY DEF TempsCalls, Silent, ScratchOf, ResultsOf, Held, Kept

(* Operands are loaded by the calls a and b, which may be one, and used by *)
(* the call w behind them.                                                 *)
LoadsAt(h, calls, a, b, w, K, L) ==
  /\ Len(calls) \in Nat /\ DOMAIN calls = 1..Len(calls)
  /\ a \in 1..Len(calls) /\ b \in 1..Len(calls) /\ w \in 1..Len(calls)
  /\ a <= b /\ b < w
  /\ \A i \in 1..Len(calls) : i = a \/ i = b \/ i = w \/ Silent(calls[i])
  /\ Loads(calls[a], h, K) /\ Loads(calls[b], h, L) /\ Uses(calls[w], K \cup L)
  /\ a # b /\ NeedsScratch(calls[b]) => \A k \in K : k < calls[b].temps
  /\ InfixWithBoundRhs \/ a = b \/ K \cap L = {}

(* The task h is the call of a term.                                       *)
Statement(h) == h.do = "term" /\ Bounded(h) /\ \A k \in Assigns(h) : k \in Nat

(* Such calls may replace the call of a term.                              *)
LEMMA LoadsAndUse ==
  ASSUME NEW h, Statement(h), NEW calls, NEW a, NEW b, NEW w, NEW K, NEW L,
         LoadsAt(h, calls, a, b, w, K, L)
  PROVE  TempsCalls(h, calls)
<1> USE DEF LoadsAt, Statement
<1>1. /\ Assigns(calls[a]) = K /\ Reads(calls[a]) = {} /\ Bounded(calls[a])
      /\ Assigns(calls[b]) = L /\ Reads(calls[b]) = {} /\ Bounded(calls[b])
      /\ Assigns(calls[w]) = {} /\ Reads(calls[w]) = K \cup L
      /\ Bounded(calls[w]) /\ ~NeedsScratch(calls[w])
  BY DEF Loads, Uses
<1>2. \A i \in 1..Len(calls) : i = a \/ i = b \/ i = w \/
        /\ Bounded(calls[i]) /\ ~NeedsScratch(calls[i])
        /\ Assigns(calls[i]) = {} /\ Reads(calls[i]) = {}
  BY DEF Silent
<1>3. \A t : Bounded(t) /\ NeedsScratch(t) => t.temps \in Nat
  BY DEF Bounded, NeedsScratch
<1>4. NeedsScratch(h) /\ h.temps \in Nat /\ \A k \in Assigns(h) : k <= h.temps
  BY DEF NeedsScratch, Bounded
<1>5. ASSUME NEW i \in 1..Len(calls)
      PROVE  Bounded(calls[i]) /\ ScratchOf(h, calls, i)
  <2>1. Bounded(calls[i])
    BY <1>1, <1>2
  <2>2. ASSUME NeedsScratch(calls[i])
        PROVE  h.temps + 1 <= calls[i].temps /\ calls[i].temps \in Nat
    <3>1. i = a \/ i = b
      BY <1>1, <1>2, <2>2
    <3> QED BY <1>3, <2>1, <2>2, <3>1 DEF Loads
  <2>3. ScratchOf(h, calls, i)
    <3> SUFFICES ASSUME NeedsScratch(calls[i])
                 PROVE  /\ h.temps <= calls[i].temps
                        /\ \A k \in Assigns(h) : k < calls[i].temps
      BY <1>4 DEF ScratchOf
    <3>1. h.temps + 1 <= calls[i].temps /\ calls[i].temps \in Nat
      BY <2>2
    <3> QED BY <1>4, <3>1
  <2> QED BY <2>1, <2>3
<1>6. Held(calls)
  <2> SUFFICES ASSUME NEW i \in 1..Len(calls), NEW j \in 1..Len(calls), i < j,
                      NeedsScratch(calls[i]), NEW k \in Reads(calls[j])
               PROVE  k < calls[i].temps \/ \E m \in i..(j-1) : k \in Assigns(calls[m])
    BY DEF Held, Together
  <2>1. j = w /\ k \in K \cup L
    BY <1>1, <1>2
  <2>2. i = a \/ i = b
    BY <1>1, <1>2
  <2>3. b \in i..(j-1) /\ (i = a => a \in i..(j-1))
    BY <2>1, <2>2
  <2>4. CASE k \in L
    BY <1>1, <2>3, <2>4
  <2>5. CASE k \in K /\ i = a
    BY <1>1, <2>3, <2>5
  <2>6. CASE k \in K /\ i # a
    BY <2>2, <2>6
  <2> QED BY <2>1, <2>4, <2>5, <2>6
<1>7. InfixWithBoundRhs \/ Kept(calls)
  <2> SUFFICES ASSUME ~InfixWithBoundRhs,
                      NEW i \in 1..Len(calls), NEW j \in 1..Len(calls), i < j,
                      NEW k \in Assigns(calls[i]) \cap Assigns(calls[j])
               PROVE  FALSE
    BY DEF Kept, Together
  <2>1. (i = a \/ i = b) /\ (j = a \/ j = b)
    BY <1>1, <1>2
  <2>2. i = a /\ j = b /\ a # b
    BY <2>1
  <2> QED BY <1>1, <2>2
<1>8. ASSUME NEW i \in 1..Len(calls) PROVE ResultsOf(h, calls, i)
  <2> SUFFICES ASSUME NEW k \in Assigns(calls[i])
               PROVE  \E m \in (i+1)..Len(calls) : k \in Reads(calls[m])
    BY DEF ResultsOf
  <2>1. (i = a \/ i = b) /\ k \in K \cup L
    BY <1>1, <1>2
  <2>2. w \in (i+1)..Len(calls)
    BY <2>1
  <2> QED BY <1>1, <2>1, <2>2
<1> QED BY <1>5, <1>6, <1>7, <1>8 DEF TempsCalls

-----------------------------------------------------------------------------
(* What texts read.                                                        *)

Reading(text, K) == text \in Seq(Token) /\ TempsRead(text) = K

(* The text also reads K where it follows another one.                     *)
Behind(text, K) == Reading(text, K) /\ (text = <<>> \/ text[1] # Sym("="))

(* Token y of a text is a temporary that is read.                          *)
ReadAt(text, y) == IsTemp(text[y]) /\ (y < Len(text) => text[y + 1] # Sym("="))

(* One text after the other.                                               *)
LEMMA ReadingConcat ==
  ASSUME NEW s, NEW t, NEW K, NEW L, Reading(s, K), Behind(t, L)
  PROVE  /\ Reading(s \o t, K \cup L)
         /\ Behind(s, K) => Behind(s \o t, K \cup L)
<1> DEFINE r == s \o t
           l == Len(s)
<1>1. s \in Seq(Token) /\ t \in Seq(Token) /\ TempsRead(s) = K /\ TempsRead(t) = L
  BY DEF Reading, Behind
<1>2. /\ r \in Seq(Token) /\ l \in Nat /\ Len(t) \in Nat
      /\ Len(r) = l + Len(t) /\ DOMAIN r = 1..Len(r)
      /\ DOMAIN s = 1..l /\ DOMAIN t = 1..Len(t)
      /\ \A i \in 1..l : r[i] = s[i]
      /\ \A i \in 1..Len(t) : r[i + l] = t[i]
      /\ s = <<>> => r = t
      /\ s # <<>> => l >= 1
      /\ t # <<>> => Len(t) >= 1
      /\ t = <<>> => Len(t) = 0
  BY <1>1
<1> HIDE DEF r
<1>3. t = <<>> \/ t[1] # Sym("=")
  BY DEF Behind
<1>4. \A y \in 1..l : ReadAt(r, y) <=> ReadAt(s, y)
  <2> SUFFICES ASSUME NEW y \in 1..l PROVE ReadAt(r, y) <=> ReadAt(s, y)
    OBVIOUS
  <2>1. r[y] = s[y]
    BY <1>2
  <2>2. CASE y < l
    <3>1. y + 1 \in 1..l /\ y < Len(r)
      BY <1>2, <2>2
    <3> QED BY <1>2, <2>1, <2>2, <3>1 DEF ReadAt
  <2>3. CASE y = l
    <3>1. ~(y < l) /\ (y < Len(r) => t # <<>> /\ 1 \in 1..Len(t) /\ y + 1 = 1 + l)
      BY <1>2, <2>3
    <3>2. y < Len(r) => r[y + 1] # Sym("=")
      BY <1>2, <1>3, <3>1
    <3> QED BY <2>1, <3>1, <3>2 DEF ReadAt
  <2>4. y < l \/ y = l
    <3>1. y \in 1..l /\ l \in Nat
      BY <1>2
    <3> HIDE DEF l
    <3> QED BY ONLY <3>1
  <2> QED BY <2>2, <2>3, <2>4
<1>5. \A y \in 1..Len(t) : ReadAt(r, y + l) <=> ReadAt(t, y)
  <2> SUFFICES ASSUME NEW y \in 1..Len(t) PROVE ReadAt(r, y + l) <=> ReadAt(t, y)
    OBVIOUS
  <2>1. r[y + l] = t[y] /\ (y + l < Len(r) <=> y < Len(t))
    BY <1>2
  <2>2. y < Len(t) => y + 1 \in 1..Len(t) /\ (y + 1) + l = (y + l) + 1
    BY <1>2
  <2>3. y < Len(t) => r[(y + l) + 1] = t[y + 1]
    BY <1>2, <2>2
  <2> QED BY <2>1, <2>3 DEF ReadAt
<1>6. \A x : /\ TempsRead(x) = {x[y][2] : y \in {z \in DOMAIN x : ReadAt(x, z)}}
  BY DEF TempsRead, ReadAt
<1>7. \A k : k \in K <=> \E y \in 1..l : ReadAt(s, y) /\ k = s[y][2]
  BY <1>1, <1>2, <1>6
<1>8. \A k : k \in L <=> \E y \in 1..Len(t) : ReadAt(t, y) /\ k = t[y][2]
  BY <1>1, <1>2, <1>6
<1>9. \A k : k \in TempsRead(r) <=> \E y \in 1..Len(r) : ReadAt(r, y) /\ k = r[y][2]
  BY <1>2, <1>6
<1>10. ASSUME NEW k PROVE k \in TempsRead(r) <=> k \in K \/ k \in L
  <2>1. ASSUME NEW y \in 1..l, ReadAt(s, y), k = s[y][2] PROVE k \in TempsRead(r)
    <3>1. y \in 1..Len(r) /\ r[y] = s[y] /\ ReadAt(r, y)
      BY <1>2, <1>4, <2>1
    <3> QED BY <1>9, <2>1, <3>1
  <2>2. ASSUME NEW y \in 1..Len(t), ReadAt(t, y), k = t[y][2]
        PROVE  k \in TempsRead(r)
    <3>1. y + l \in 1..Len(r) /\ r[y + l] = t[y] /\ ReadAt(r, y + l)
      BY <1>2, <1>5, <2>2
    <3> QED BY <1>9, <2>2, <3>1
  <2>3. ASSUME NEW y \in 1..Len(r), ReadAt(r, y), k = r[y][2]
        PROVE  k \in K \/ k \in L
    <3>1. CASE y \in 1..l
      BY <1>2, <1>4, <1>7, <2>3, <3>1
    <3>2. CASE y \notin 1..l
      <4>1. y - l \in 1..Len(t) /\ (y - l) + l = y
        BY <1>2, <3>2
      <4>2. ReadAt(t, y - l) /\ t[y - l] = r[y]
        BY <1>2, <1>5, <2>3, <4>1
      <4> QED BY <1>8, <2>3, <4>1, <4>2
    <3> QED BY <3>1, <3>2
  <2>4. k \in K => k \in TempsRead(r)
    BY <1>7, <2>1
  <2>5. k \in L => k \in TempsRead(r)
    BY <1>8, <2>2
  <2>6. k \in TempsRead(r) => k \in K \/ k \in L
    BY <1>9, <2>3
  <2> QED BY <2>4, <2>5, <2>6
<1>11. Reading(r, K \cup L)
  BY <1>2, <1>10 DEF Reading
<1>12. ASSUME Behind(s, K) PROVE Behind(r, K \cup L)
  <2>1. CASE s = <<>>
    BY <1>2, <1>3, <1>11, <2>1 DEF Behind
  <2>2. CASE s # <<>>
    <3>1. 1 \in 1..l
      BY <1>2, <2>2
    <3>2. r[1] = s[1] /\ s[1] # Sym("=")
      BY <1>2, <1>12, <2>2, <3>1 DEF Behind
    <3> QED BY <1>11, <3>2 DEF Behind
  <2> QED BY <2>1, <2>2
<1> QED BY <1>11, <1>12 DEF r

(* A word, and what is not a temporary, reads nothing.                     *)
LEMMA TokensRead ==
  /\ \A w : ~IsTemp(Sym(w))
  /\ \A x : ~IsTemp(VarName(x))
  /\ \A i : IsTemp(Temp(i)) /\ Temp(i)[2] = i
  /\ \A i, w : Temp(i) # Sym(w)
  /\ \A x, w : VarName(x) # Sym(w)
  /\ \A v, w : Sym(v) = Sym(w) <=> v = w
<1>1. ASSUME NEW w PROVE Len(Sym(w)) = 1 /\ Sym(w)[1] = w
  BY DEF Sym
<1>2. ASSUME NEW i PROVE Len(Temp(i)) = 2 /\ Temp(i)[1] = "temp" /\ Temp(i)[2] = i
  BY DEF Temp
<1>3. ASSUME NEW x PROVE Len(VarName(x)) = 2 /\ VarName(x)[1] = "var"
  BY DEF VarName
<1>4. "var" # "temp" /\ 1 # 2
  OBVIOUS
<1> QED BY <1>1, <1>2, <1>3, <1>4 DEF IsTemp

(* A text without temporaries reads none.                                  *)
LEMMA NothingRead ==
  ASSUME NEW text \in Seq(Token), \A x \in DOMAIN text : ~IsTemp(text[x])
  PROVE  Reading(text, {})
BY DEF Reading, TempsRead

(* Words read nothing; "=" is not among those that follow another text.    *)
LEMMA WordsRead ==
  ASSUME NEW words \in Seq(Word)
  PROVE  /\ Reading(Text(words), {})
         /\ words = <<>> \/ words[1] # "=" => Behind(Text(words), {})
<1>1. Text(words) \in Seq(Token)
  BY TextType
<1>2. /\ DOMAIN Text(words) = 1..Len(words)
      /\ \A x \in 1..Len(words) : Text(words)[x] = Sym(words[x])
      /\ Len(Text(words)) = Len(words)
  BY DEF Text
<1>3. Reading(Text(words), {})
  BY <1>1, <1>2, TokensRead, NothingRead
<1>4. ASSUME words = <<>> \/ words[1] # "=" PROVE Behind(Text(words), {})
  <2>1. CASE words = <<>>
    <3>1. Text(words) = <<>>
      BY <1>1, <1>2, <2>1
    <3> QED BY <1>3, <3>1 DEF Behind
  <2>2. CASE words # <<>>
    <3>1. 1 \in 1..Len(words)
      BY <2>2
    <3> QED BY <1>2, <1>3, <1>4, <2>2, <3>1, TokensRead DEF Behind
  <2> QED BY <2>1, <2>2
<1> QED BY <1>3, <1>4

(* The constant texts that may follow another one.                          *)
LEMMA ConstantsRead ==
  /\ Behind(Text(<<"(", ")">>), {})
  /\ Behind(Text(<<"(">>), {})
  /\ Behind(Text(<<")">>), {})
  /\ Behind(Text(<<",">>), {})
  /\ Behind(Text(<<"}", ")">>), {})
  /\ Behind(Text(<<"}">>), {})
  /\ Behind(Text(<<"end">>), {})
  /\ Behind(Text(<<"else">>), {})
  /\ Behind(Text(<<"if">>), {})
  /\ Behind(Text(<<"then">>), {})
  /\ Behind(Text(<<"return">>), {})
  /\ Behind(Text(<<"do", "return">>), {})
  /\ Behind(Text(<<"(", "{">>), {})
  /\ Behind(Text(<<"{">>), {})
  /\ Behind(Text(<<"function", "(">>), {})
  /\ Behind(Text(<<"__sentinel", ")">>), {})
  /\ Behind(Text(<<"__print", "(">>), {})
  /\ Behind(Text(<<"[1]">>), {})
  /\ Behind(Text(<<"[2]">>), {})
  /\ Behind(Text(<<"not", "not", "(">>), {})
  /\ Behind(Text(<<"__to_bit", "(">>), {})
  /\ Behind(Text(<<"__to_bit", "(", "__floor", "(">>), {})
  /\ Behind(Text(<<"__to_bit", "(", "__floor", "(", "__floor", "(">>), {})
  /\ Behind(Text(<<")", ")">>), {})
  /\ Behind(Text(<<")", ")", ")">>), {})
  /\ Behind(Text(<<"PRELUDE", "do", "TEMPS", "local">>), {})
  /\ Behind(Text(<<"end", "POSTLUDE">>), {})
  /\ Behind(Text(<<"__new_str", "(">>), {})
  /\ Behind(Text(<<"true">>), {})
  /\ Behind(Text(<<"false">>), {})
  /\ Behind(Text(<<"__assert", "(">>), {})
  /\ Behind(Text(<<"~=", "nil", "and", "__sentinel", "==",
                   "nil", ",", "'wrong argument count'", ")">>), {})
<1>1. /\ <<"(", ")">> \in Seq(Word)
      /\ <<"(">> \in Seq(Word)
      /\ <<")">> \in Seq(Word)
      /\ <<",">> \in Seq(Word)
      /\ <<"}", ")">> \in Seq(Word)
      /\ <<"}">> \in Seq(Word)
      /\ <<"end">> \in Seq(Word)
      /\ <<"else">> \in Seq(Word)
      /\ <<"if">> \in Seq(Word)
      /\ <<"then">> \in Seq(Word)
      /\ <<"return">> \in Seq(Word)
      /\ <<"do", "return">> \in Seq(Word)
      /\ <<"(", "{">> \in Seq(Word)
      /\ <<"{">> \in Seq(Word)
      /\ <<"function", "(">> \in Seq(Word)
      /\ <<"__sentinel", ")">> \in Seq(Word)
      /\ <<"__print", "(">> \in Seq(Word)
      /\ <<"[1]">> \in Seq(Word)
      /\ <<"[2]">> \in Seq(Word)
      /\ <<"not", "not", "(">> \in Seq(Word)
      /\ <<"__to_bit", "(">> \in Seq(Word)
      /\ <<"__to_bit", "(", "__floor", "(">> \in Seq(Word)
      /\ <<"__to_bit", "(", "__floor", "(", "__floor", "(">> \in Seq(Word)
      /\ <<")", ")">> \in Seq(Word)
      /\ <<")", ")", ")">> \in Seq(Word)
      /\ <<"PRELUDE", "do", "TEMPS", "local">> \in Seq(Word)
      /\ <<"end", "POSTLUDE">> \in Seq(Word)
      /\ <<"__new_str", "(">> \in Seq(Word)
      /\ <<"true">> \in Seq(Word)
      /\ <<"false">> \in Seq(Word)
      /\ <<"__assert", "(">> \in Seq(Word)
      /\ <<"~=", "nil", "and", "__sentinel", "==",
           "nil", ",", "'wrong argument count'", ")">> \in Seq(Word)
  BY DEF Word
<1>2. \A words \in Seq(Word) : words[1] # "=" => Behind(Text(words), {})
  BY WordsRead
<1> QED BY <1>1, <1>2

(* The operator texts read nothing.                                        *)
LEMMA OperatorsRead ==
  ASSUME NEW op \in BinaryOp
  PROVE  /\ Behind(Opening(op), {}) /\ Behind(Closing(op), {})
         /\ Behind(FreeOpening(op), {}) /\ Behind(FreeClosing(op), {})
         /\ Behind(Text(<<LuaOp(op)>>), {})
         /\ Sym(LuaOp(op)) \in Token /\ Sym(LuaOp(op)) # Sym("=")
<1>1. Behind(<<>>, {})
  BY DEF Behind, Reading, TempsRead
<1>2. Behind(Opening(op), {}) /\ Behind(Closing(op), {})
  BY <1>1, ConstantsRead DEF Opening, Closing
<1>3. Behind(FreeOpening(op), {}) /\ Behind(FreeClosing(op), {})
  BY <1>1, ConstantsRead DEF FreeOpening, FreeClosing
<1>4. LuaOp(op) \in Word /\ LuaOp(op) # "="
  BY ZenonT(40) DEF LuaOp, BinaryOp, Word
<1> HIDE DEF LuaOp
<1>5. <<LuaOp(op)>> \in Seq(Word) /\ <<LuaOp(op)>>[1] = LuaOp(op)
  BY <1>4
<1>6. Behind(Text(<<LuaOp(op)>>), {})
  BY <1>4, <1>5, WordsRead
<1> QED BY <1>2, <1>3, <1>4, <1>6, SymType, TokensRead

(* Single tokens.                                                          *)
LEMMA TokenRead ==
  /\ \A i \in Nat : Behind(<< Temp(i) >>, {i})
  /\ \A x \in Name : Behind(<< VarName(x) >>, {})
  /\ \A w \in Word : w # "=" => Behind(<< Sym(w) >>, {})
<1>1. ASSUME NEW t \in Token, t # Sym("=")
      PROVE  Behind(<< t >>, IF IsTemp(t) THEN {t[2]} ELSE {})
  <2>1. /\ <<t>> \in Seq(Token) /\ <<t>> # <<>> /\ <<t>>[1] = t
        /\ DOMAIN <<t>> = {1} /\ Len(<<t>>) = 1
    OBVIOUS
  <2>2. TempsRead(<<t>>) = IF IsTemp(t) THEN {t[2]} ELSE {}
    BY <2>1 DEF TempsRead
  <2> QED BY <1>1, <2>1, <2>2 DEF Behind, Reading
<1>2. ASSUME NEW i \in Nat PROVE Behind(<< Temp(i) >>, {i})
  BY <1>1, TempType, TokensRead
<1>3. ASSUME NEW x \in Name PROVE Behind(<< VarName(x) >>, {})
  BY <1>1, VarNameType, TokensRead
<1>4. ASSUME NEW w \in Word, w # "=" PROVE Behind(<< Sym(w) >>, {})
  BY <1>1, <1>4, SymType, TokensRead
<1> QED BY <1>2, <1>3, <1>4

(* An assignment does not read what it assigns.                            *)
LEMMA AssignmentRead ==
  ASSUME NEW bind \in Token
  PROVE  Reading(<< bind, Sym("=") >>, {})
<1> DEFINE s == << bind, Sym("=") >>
<1>1. s \in Seq(Token)
  BY DeliveryTexts
<1>2. DOMAIN s = {1, 2} /\ Len(s) = 2 /\ s[2] = Sym("=")
  OBVIOUS
<1> HIDE DEF s
<1>3. ASSUME NEW y \in DOMAIN s, IsTemp(s[y]), y < Len(s) => s[y + 1] # Sym("=")
      PROVE  FALSE
  <2>1. y = 1 \/ y = 2
    BY <1>2
  <2>2. CASE y = 1
    BY <1>2, <1>3, <2>2
  <2>3. CASE y = 2
    BY <1>2, <1>3, <2>3, TokensRead
  <2> QED BY <2>1, <2>2, <2>3
<1>4. TempsRead(s) = {}
  BY <1>3 DEF TempsRead
<1> QED BY <1>1, <1>4 DEF Reading, s

(* A sequence with the elements of s, and then of t, is s \o t.            *)
LEMMA ConcatIs ==
  ASSUME NEW S, NEW s \in Seq(S), NEW t \in Seq(S), NEW r \in Seq(S),
         Len(r) = Len(s) + Len(t),
         \A i \in 1..Len(s) : s[i] = r[i],
         \A i \in 1..Len(t) : t[i] = r[i + Len(s)]
  PROVE  s \o t = r
<1>1. /\ s \o t \in Seq(S) /\ Len(s \o t) = Len(s) + Len(t)
      /\ Len(s) \in Nat /\ Len(t) \in Nat
      /\ \A i \in 1..Len(s) : (s \o t)[i] = s[i]
      /\ \A i \in 1..Len(t) : (s \o t)[i + Len(s)] = t[i]
  OBVIOUS
<1> DEFINE q == s \o t
<1>2. ASSUME NEW i \in 1..Len(q) PROVE q[i] = r[i]
  <2>1. CASE i \in 1..Len(s)
    BY <1>1, <2>1
  <2>2. CASE i \notin 1..Len(s)
    <3>1. i - Len(s) \in 1..Len(t) /\ (i - Len(s)) + Len(s) = i
      BY <1>1, <2>2
    <3> QED BY <1>1, <3>1
  <2> QED BY <2>1, <2>2
<1>3. q \in Seq(S) /\ Len(q) = Len(r)
  BY <1>1
<1> HIDE DEF q
<1>4. q = r
  BY <1>2, <1>3, SeqEqual
<1> QED BY <1>4 DEF q

(* Short sequences, one after the other.                                   *)
LEMMA OneAndOne ==
  ASSUME NEW a, NEW b
  PROVE  <<a>> \o <<b>> = <<a, b>>
<1> DEFINE s == <<a>>
           t == <<b>>
           r == <<a, b>>
<1>1. s \in Seq({a, b}) /\ t \in Seq({a, b}) /\ r \in Seq({a, b})
  OBVIOUS
<1>2. Len(s) = 1 /\ Len(t) = 1 /\ Len(r) = 2
  OBVIOUS
<1>3. /\ s[1] = r[1]
      /\ t[1] = r[2]
  OBVIOUS
<1> HIDE DEF s, t, r
<1>4. /\ Len(r) = Len(s) + Len(t)
      /\ \A i \in 1..Len(s) : s[i] = r[i]
      /\ \A i \in 1..Len(t) : t[i] = r[i + Len(s)]
  BY <1>2, <1>3
<1>5. s \o t = r
  BY <1>1, <1>4, ConcatIs
<1> QED BY <1>5, Zenon DEF s, t, r

(* The same, of one and two elements.                                      *)
LEMMA OneAndTwo ==
  ASSUME NEW a, NEW b, NEW c
  PROVE  <<a>> \o <<b, c>> = <<a, b, c>>
<1> DEFINE s == <<a>>
           t == <<b, c>>
           r == <<a, b, c>>
<1>1. s \in Seq({a, b, c}) /\ t \in Seq({a, b, c}) /\ r \in Seq({a, b, c})
  OBVIOUS
<1>2. Len(s) = 1 /\ Len(t) = 2 /\ Len(r) = 3
  OBVIOUS
<1>3. /\ s[1] = r[1]
      /\ t[1] = r[2]
      /\ t[2] = r[3]
  OBVIOUS
<1> HIDE DEF s, t, r
<1>4. /\ Len(r) = Len(s) + Len(t)
      /\ \A i \in 1..Len(s) : s[i] = r[i]
      /\ \A i \in 1..Len(t) : t[i] = r[i + Len(s)]
  BY <1>2, <1>3
<1>5. s \o t = r
  BY <1>1, <1>4, ConcatIs
<1> QED BY <1>5, Zenon DEF s, t, r

(* The same, of two and one elements.                                      *)
LEMMA TwoAndOne ==
  ASSUME NEW a, NEW b, NEW c
  PROVE  <<a, b>> \o <<c>> = <<a, b, c>>
<1> DEFINE s == <<a, b>>
           t == <<c>>
           r == <<a, b, c>>
<1>1. s \in Seq({a, b, c}) /\ t \in Seq({a, b, c}) /\ r \in Seq({a, b, c})
  OBVIOUS
<1>2. Len(s) = 2 /\ Len(t) = 1 /\ Len(r) = 3
  OBVIOUS
<1>3. /\ s[1] = r[1]
      /\ s[2] = r[2]
      /\ t[1] = r[3]
  OBVIOUS
<1> HIDE DEF s, t, r
<1>4. /\ Len(r) = Len(s) + Len(t)
      /\ \A i \in 1..Len(s) : s[i] = r[i]
      /\ \A i \in 1..Len(t) : t[i] = r[i + Len(s)]
  BY <1>2, <1>3
<1>5. s \o t = r
  BY <1>1, <1>4, ConcatIs
<1> QED BY <1>5, Zenon DEF s, t, r

(* The same, of one and three elements.                                    *)
LEMMA OneAndThree ==
  ASSUME NEW a, NEW b, NEW c, NEW d
  PROVE  <<a>> \o <<b, c, d>> = <<a, b, c, d>>
<1> DEFINE s == <<a>>
           t == <<b, c, d>>
           r == <<a, b, c, d>>
<1>1. s \in Seq({a, b, c, d}) /\ t \in Seq({a, b, c, d}) /\ r \in Seq({a, b, c, d})
  OBVIOUS
<1>2. Len(s) = 1 /\ Len(t) = 3 /\ Len(r) = 4
  OBVIOUS
<1>3. /\ s[1] = r[1]
      /\ t[1] = r[2]
      /\ t[2] = r[3]
      /\ t[3] = r[4]
  OBVIOUS
<1> HIDE DEF s, t, r
<1>4. /\ Len(r) = Len(s) + Len(t)
      /\ \A i \in 1..Len(s) : s[i] = r[i]
      /\ \A i \in 1..Len(t) : t[i] = r[i + Len(s)]
  BY <1>2, <1>3
<1>5. s \o t = r
  BY <1>1, <1>4, ConcatIs
<1> QED BY <1>5, Zenon DEF s, t, r

(* The same, of two and two elements.                                      *)
LEMMA TwoAndTwo ==
  ASSUME NEW a, NEW b, NEW c, NEW d
  PROVE  <<a, b>> \o <<c, d>> = <<a, b, c, d>>
<1> DEFINE s == <<a, b>>
           t == <<c, d>>
           r == <<a, b, c, d>>
<1>1. s \in Seq({a, b, c, d}) /\ t \in Seq({a, b, c, d}) /\ r \in Seq({a, b, c, d})
  OBVIOUS
<1>2. Len(s) = 2 /\ Len(t) = 2 /\ Len(r) = 4
  OBVIOUS
<1>3. /\ s[1] = r[1]
      /\ s[2] = r[2]
      /\ t[1] = r[3]
      /\ t[2] = r[4]
  OBVIOUS
<1> HIDE DEF s, t, r
<1>4. /\ Len(r) = Len(s) + Len(t)
      /\ \A i \in 1..Len(s) : s[i] = r[i]
      /\ \A i \in 1..Len(t) : t[i] = r[i + Len(s)]
  BY <1>2, <1>3
<1>5. s \o t = r
  BY <1>1, <1>4, ConcatIs
<1> QED BY <1>5, Zenon DEF s, t, r

(* The same, of one and four elements.                                     *)
LEMMA OneAndFour ==
  ASSUME NEW a, NEW b, NEW c, NEW d, NEW e
  PROVE  <<a>> \o <<b, c, d, e>> = <<a, b, c, d, e>>
<1> DEFINE s == <<a>>
           t == <<b, c, d, e>>
           r == <<a, b, c, d, e>>
<1>1. s \in Seq({a, b, c, d, e}) /\ t \in Seq({a, b, c, d, e}) /\ r \in Seq({a, b, c, d, e})
  OBVIOUS
<1>2. Len(s) = 1 /\ Len(t) = 4 /\ Len(r) = 5
  OBVIOUS
<1>3. /\ s[1] = r[1]
      /\ t[1] = r[2]
      /\ t[2] = r[3]
      /\ t[3] = r[4]
      /\ t[4] = r[5]
  OBVIOUS
<1> HIDE DEF s, t, r
<1>4. /\ Len(r) = Len(s) + Len(t)
      /\ \A i \in 1..Len(s) : s[i] = r[i]
      /\ \A i \in 1..Len(t) : t[i] = r[i + Len(s)]
  BY <1>2, <1>3
<1>5. s \o t = r
  BY <1>1, <1>4, ConcatIs
<1> QED BY <1>5, Zenon DEF s, t, r

(* The same, of four and one elements.                                     *)
LEMMA FourAndOne ==
  ASSUME NEW a, NEW b, NEW c, NEW d, NEW e
  PROVE  <<a, b, c, d>> \o <<e>> = <<a, b, c, d, e>>
<1> DEFINE s == <<a, b, c, d>>
           t == <<e>>
           r == <<a, b, c, d, e>>
<1>1. s \in Seq({a, b, c, d, e}) /\ t \in Seq({a, b, c, d, e}) /\ r \in Seq({a, b, c, d, e})
  OBVIOUS
<1>2. Len(s) = 4 /\ Len(t) = 1 /\ Len(r) = 5
  OBVIOUS
<1>3. /\ s[1] = r[1]
      /\ s[2] = r[2]
      /\ s[3] = r[3]
      /\ s[4] = r[4]
      /\ t[1] = r[5]
  OBVIOUS
<1> HIDE DEF s, t, r
<1>4. /\ Len(r) = Len(s) + Len(t)
      /\ \A i \in 1..Len(s) : s[i] = r[i]
      /\ \A i \in 1..Len(t) : t[i] = r[i + Len(s)]
  BY <1>2, <1>3
<1>5. s \o t = r
  BY <1>1, <1>4, ConcatIs
<1> QED BY <1>5, Zenon DEF s, t, r

(* The same, of five and one elements.                                     *)
LEMMA FiveAndOne ==
  ASSUME NEW a, NEW b, NEW c, NEW d, NEW e, NEW f
  PROVE  <<a, b, c, d, e>> \o <<f>> = <<a, b, c, d, e, f>>
<1> DEFINE s == <<a, b, c, d, e>>
           t == <<f>>
           r == <<a, b, c, d, e, f>>
<1>1. s \in Seq({a, b, c, d, e, f}) /\ t \in Seq({a, b, c, d, e, f}) /\ r \in Seq({a, b, c, d, e, f})
  OBVIOUS
<1>2. Len(s) = 5 /\ Len(t) = 1 /\ Len(r) = 6
  OBVIOUS
<1>3. /\ s[1] = r[1]
      /\ s[2] = r[2]
      /\ s[3] = r[3]
      /\ s[4] = r[4]
      /\ s[5] = r[5]
      /\ t[1] = r[6]
  OBVIOUS
<1> HIDE DEF s, t, r
<1>4. /\ Len(r) = Len(s) + Len(t)
      /\ \A i \in 1..Len(s) : s[i] = r[i]
      /\ \A i \in 1..Len(t) : t[i] = r[i + Len(s)]
  BY <1>2, <1>3
<1>5. s \o t = r
  BY <1>1, <1>4, ConcatIs
<1> QED BY <1>5, Zenon DEF s, t, r

(* The same, of two and four elements.                                     *)
LEMMA TwoAndFour ==
  ASSUME NEW a, NEW b, NEW c, NEW d, NEW e, NEW f
  PROVE  <<a, b>> \o <<c, d, e, f>> = <<a, b, c, d, e, f>>
<1> DEFINE s == <<a, b>>
           t == <<c, d, e, f>>
           r == <<a, b, c, d, e, f>>
<1>1. s \in Seq({a, b, c, d, e, f}) /\ t \in Seq({a, b, c, d, e, f}) /\ r \in Seq({a, b, c, d, e, f})
  OBVIOUS
<1>2. Len(s) = 2 /\ Len(t) = 4 /\ Len(r) = 6
  OBVIOUS
<1>3. /\ s[1] = r[1]
      /\ s[2] = r[2]
      /\ t[1] = r[3]
      /\ t[2] = r[4]
      /\ t[3] = r[5]
      /\ t[4] = r[6]
  OBVIOUS
<1> HIDE DEF s, t, r
<1>4. /\ Len(r) = Len(s) + Len(t)
      /\ \A i \in 1..Len(s) : s[i] = r[i]
      /\ \A i \in 1..Len(t) : t[i] = r[i + Len(s)]
  BY <1>2, <1>3
<1>5. s \o t = r
  BY <1>1, <1>4, ConcatIs
<1> QED BY <1>5, Zenon DEF s, t, r

(* The same, of three and four elements.                                   *)
LEMMA ThreeAndFour ==
  ASSUME NEW a, NEW b, NEW c, NEW d, NEW e, NEW f, NEW g
  PROVE  <<a, b, c>> \o <<d, e, f, g>> = <<a, b, c, d, e, f, g>>
<1> DEFINE s == <<a, b, c>>
           t == <<d, e, f, g>>
           r == <<a, b, c, d, e, f, g>>
<1>1. s \in Seq({a, b, c, d, e, f, g}) /\ t \in Seq({a, b, c, d, e, f, g}) /\ r \in Seq({a, b, c, d, e, f, g})
  OBVIOUS
<1>2. Len(s) = 3 /\ Len(t) = 4 /\ Len(r) = 7
  OBVIOUS
<1>3. /\ s[1] = r[1]
      /\ s[2] = r[2]
      /\ s[3] = r[3]
      /\ t[1] = r[4]
      /\ t[2] = r[5]
      /\ t[3] = r[6]
      /\ t[4] = r[7]
  OBVIOUS
<1> HIDE DEF s, t, r
<1>4. /\ Len(r) = Len(s) + Len(t)
      /\ \A i \in 1..Len(s) : s[i] = r[i]
      /\ \A i \in 1..Len(t) : t[i] = r[i + Len(s)]
  BY <1>2, <1>3
<1>5. s \o t = r
  BY <1>1, <1>4, ConcatIs
<1> QED BY <1>5, Zenon DEF s, t, r

(* A temporary with a word or a word and another one behind it.            *)
LEMMA TempAndWordRead ==
  ASSUME NEW i \in Nat, NEW w \in Word, w # "=", NEW j \in Nat
  PROVE  /\ Behind(<< Temp(i), Sym(w) >>, {i})
         /\ Behind(<< Temp(i), Sym(w), Temp(j) >>, {i} \cup {j})
<1>1. Behind(<<Temp(i)>>, {i}) /\ Behind(<<Sym(w)>>, {}) /\ Behind(<<Temp(j)>>, {j})
  BY TokenRead
<1>2. Behind(<<Temp(i)>> \o <<Sym(w)>>, {i} \cup {})
  BY <1>1, ReadingConcat DEF Behind
<1>3. Behind((<<Temp(i)>> \o <<Sym(w)>>) \o <<Temp(j)>>, ({i} \cup {}) \cup {j})
  BY <1>1, <1>2, ReadingConcat DEF Behind
<1>4. /\ <<Temp(i)>> \o <<Sym(w)>> = <<Temp(i), Sym(w)>>
      /\ <<Temp(i), Sym(w)>> \o <<Temp(j)>> = <<Temp(i), Sym(w), Temp(j)>>
  <2> DEFINE a == Temp(i)
             b == Sym(w)
             c == Temp(j)
  <2> HIDE DEF a, b, c
  <2>1. <<a>> \o <<b>> = <<a, b>> /\ <<a, b>> \o <<c>> = <<a, b, c>>
    BY OneAndOne, TwoAndOne, Zenon
  <2> QED BY <2>1, Zenon DEF a, b, c
<1>5. {i} \cup {} = {i}
  OBVIOUS
<1> QED BY <1>2, <1>3, <1>4, <1>5, Zenon

(* What delivers a value reads nothing.                                    *)
LEMMA DeliverRead ==
  ASSUME NEW n, NEW bind \in Token
  PROVE  Reading(Deliver(n, bind), {})
BY AssignmentRead, ConstantsRead DEF Deliver, Behind

(* A list of temporaries as arguments reads each of them.                  *)
LEMMA TempArgumentsRead ==
  ASSUME NEW first \in Nat, NEW count \in Nat
  PROVE  Behind(TempArguments(first, count), first..(first + count - 1))
<1> DEFINE s == TempArguments(first, count)
           K == first..(first + count - 1)
<1>1. s \in Seq(Token)
  BY TempArgumentsType
<1>2. /\ DOMAIN s = 1..(2 * count)
      /\ \A i \in 1..(2 * count) :
           s[i] = IF i % 2 = 1 THEN Temp(first + (i - 1) \div 2) ELSE Sym(",")
  BY DEF TempArguments
<1> HIDE DEF s
<1>3. Len(s) = 2 * count
  <2> DEFINE m == 2 * count
             l == Len(s)
  <2>1. m \in Nat /\ l \in Nat /\ 1..m = 1..l
    <3>1. DOMAIN s = 1..l /\ l \in Nat
      BY ONLY <1>1
    <3>2. DOMAIN s = 1..m
      BY <1>2
    <3>3. m \in Nat
      OBVIOUS
    <3> HIDE DEF m, l
    <3> QED BY <3>1, <3>2, <3>3, Zenon
  <2> HIDE DEF m, l
  <2>2. l = m
    BY ONLY <2>1
  <2> QED BY <2>2 DEF m, l
<1>4. Sym(",") # Sym("=") /\ ~IsTemp(Sym(","))
  <2>1. "," # "="
    OBVIOUS
  <2> QED BY <2>1, TokensRead
<1>5. ASSUME NEW y \in DOMAIN s, IsTemp(s[y]) PROVE s[y][2] \in K
  <2>1. y % 2 = 1
    BY <1>2, <1>4, <1>5
  <2>2. s[y] = Temp(first + (y - 1) \div 2)
    BY <1>2, <2>1
  <2>3. (y - 1) \div 2 \in 0..(count - 1)
    <3>1. y \in 1..(2 * count) /\ count \in Nat
      BY <1>2
    <3> QED BY ONLY <3>1
  <2>4. first + (y - 1) \div 2 \in K
    BY <2>3
  <2> QED BY <2>2, <2>4, TokensRead
<1>6. ASSUME NEW k \in K
      PROVE  \E y \in DOMAIN s : ReadAt(s, y) /\ k = s[y][2]
  <2> DEFINE y == 2 * (k - first) + 1
  <2>1. /\ y \in 1..(2 * count) /\ y % 2 = 1 /\ (y - 1) \div 2 = k - first
        /\ y + 1 \in 1..(2 * count) /\ (y + 1) % 2 # 1
    <3>1. k - first \in 0..(count - 1)
      OBVIOUS
    <3> DEFINE d == k - first
    <3> HIDE DEF d
    <3>2. d \in 0..(count - 1)
      BY <3>1 DEF d
    <3>3. /\ 2 * d + 1 \in 1..(2 * count) /\ (2 * d + 1) % 2 = 1
          /\ ((2 * d + 1) - 1) \div 2 = d
          /\ (2 * d + 1) + 1 \in 1..(2 * count) /\ ((2 * d + 1) + 1) % 2 # 1
      BY <3>2
    <3> QED BY <3>3 DEF d
  <2> HIDE DEF y
  <2>2. s[y] = Temp(first + (k - first)) /\ s[y + 1] = Sym(",")
    BY <1>2, <2>1
  <2>3. first + (k - first) = k
    OBVIOUS
  <2>4. s[y] = Temp(k)
    BY <2>2, <2>3
  <2>5. ReadAt(s, y)
    <3>1. IsTemp(Temp(k)) /\ s[y + 1] # Sym("=")
      BY <1>4, <2>2, TokensRead, Zenon
    <3> QED BY <2>4, <3>1, Zenon DEF ReadAt
  <2>6. k = s[y][2] /\ y \in DOMAIN s
    BY <1>2, <2>1, <2>4, TokensRead
  <2> QED BY <2>5, <2>6
<1>7. TempsRead(s) = K
  <2>1. TempsRead(s) = {s[y][2] : y \in {z \in DOMAIN s : ReadAt(s, z)}}
    BY DEF TempsRead, ReadAt
  <2>2. \A y \in DOMAIN s : ReadAt(s, y) => s[y][2] \in K
    BY <1>5 DEF ReadAt
  <2> HIDE DEF K
  <2> QED BY <1>6, <2>1, <2>2
<1>8. s = <<>> \/ s[1] # Sym("=")
  <2>1. CASE count = 0
    BY <1>1, <1>3, <2>1
  <2>2. CASE count # 0
    <3>1. 1 \in 1..(2 * count) /\ 1 % 2 = 1
      BY <2>2
    <3>2. s[1] = Temp(first + (1 - 1) \div 2)
      BY <1>2, <3>1
    <3> QED BY <3>2, TokensRead
  <2> QED BY <2>1, <2>2
<1> QED BY <1>1, <1>7, <1>8 DEF Behind, Reading, s

(* The parameters of a function are no temporaries.                        *)
LEMMA ParametersRead ==
  ASSUME NEW ps \in Seq(STRING)
  PROVE  /\ Behind(ParameterText(ps), {})
         /\ Behind(PlainParameters(ps), {})
         /\ Behind(ArityCheck(ps), {})
<1> DEFINE s == ParameterText(ps)
<1>1. s \in Seq(Token) /\ Len(s) = 2 * Len(ps) /\ DOMAIN s = 1..Len(s)
  BY ParameterTextType
<1>2. ASSUME NEW i \in DOMAIN s PROVE ~IsTemp(s[i]) /\ s[i] # Sym("=")
  <2>1. s[i] = VarName(ps[(i + 1) \div 2]) \/ s[i] = Sym(",")
    BY <1>1 DEF ParameterText
  <2>2. "," # "="
    OBVIOUS
  <2>3. /\ Sym(",") # Sym("=") /\ ~IsTemp(Sym(","))
        /\ \A x : ~IsTemp(VarName(x)) /\ VarName(x) # Sym("=")
    BY <2>2, TokensRead
  <2> HIDE DEF s
  <2> QED BY <2>1, <2>3, Zenon
<1> HIDE DEF s
<1>3. Behind(s, {})
  <2>1. Reading(s, {})
    BY <1>1, <1>2, NothingRead
  <2>2. s # <<>> => 1 \in DOMAIN s
    BY <1>1
  <2> QED BY <1>2, <2>1, <2>2 DEF Behind
<1>4. Behind(<<>>, {})
  BY DEF Behind, Reading, TempsRead
<1>5. Behind(PlainParameters(ps), {})
  <2>1. CASE ps = <<>>
    BY <1>4, <2>1 DEF PlainParameters
  <2>2. CASE ps # <<>>
    <3> DEFINE t == PlainParameters(ps)
               m == 2 * Len(ps) - 1
    <3>1. t = SubSeq(s, 1, m) /\ t \in Seq(Token)
      BY <2>2, PlainParametersType DEF PlainParameters, s
    <3>2. m \in 1..Len(s)
      BY <1>1, <2>2
    <3>3. /\ DOMAIN SubSeq(s, 1, m) = 1..m
          /\ \A i \in 1..m : SubSeq(s, 1, m)[i] = s[i]
          /\ \A i \in 1..m : i \in DOMAIN s
          /\ 1 \in 1..m
      <4> HIDE DEF m
      <4> QED BY <1>1, <3>2
    <3> HIDE DEF t, m
    <3>4. /\ \A i \in DOMAIN t : ~IsTemp(t[i]) /\ t[i] # Sym("=")
          /\ 1 \in DOMAIN t
      BY <1>2, <3>1, <3>3
    <3>5. Behind(t, {})
      BY <3>1, <3>4, NothingRead DEF Behind
    <3> QED BY <3>5 DEF t
  <2> QED BY <2>1, <2>2
<1>6. Behind(ArityCheck(ps), {})
  <2>1. CASE ps = <<>>
    BY <1>4, <2>1 DEF ArityCheck
  <2>2. CASE ps # <<>>
    <3> DEFINE a == Text(<<"__assert", "(">>)
               b == << VarName(ps[Len(ps)]) >>
               c == Text(<<"~=", "nil", "and", "__sentinel", "==", "nil", ",",
                           "'wrong argument count'", ")">>)
    <3>1. ps[Len(ps)] \in Name
      <4>1. ps[Len(ps)] \in STRING
        BY <2>2
      <4> QED BY <4>1 DEF Name
    <3>2. Behind(a, {}) /\ Behind(b, {}) /\ Behind(c, {})
      BY <3>1, TokenRead, ConstantsRead
    <3>3. ArityCheck(ps) = a \o b \o c
      BY <2>2 DEF ArityCheck
    <3> HIDE DEF a, b, c
    <3>4. Behind(a \o b, {} \cup {})
      BY <3>2, ReadingConcat DEF Behind
    <3>5. {} \cup {} = {}
      OBVIOUS
    <3>6. Behind(a \o b \o c, {} \cup {})
      BY <3>2, <3>4, <3>5, ReadingConcat DEF Behind
    <3> QED BY <3>3, <3>5, <3>6
  <2> QED BY <2>1, <2>2
<1> QED BY <1>3, <1>5, <1>6 DEF s

-----------------------------------------------------------------------------
(* What the tasks of arms do with temporaries.                             *)

(* Texts that read nothing, and expressions.                               *)
LEMMA SilentTasks ==
  /\ \A text : Reading(text, {}) => Silent(Write(text))
  /\ \A n : Silent(Free(n))
  /\ \A ns : Silent(FreeLoop(ns))
BY DEF Silent, Bounded, NeedsScratch, Assigns, Reads, Write, Free, FreeLoop, Reading

(* Texts that read something.                                              *)
LEMMA UsingWrite ==
  ASSUME NEW text, NEW K, Reading(text, K)
  PROVE  Uses(Write(text), K)
BY DEF Uses, Bounded, NeedsScratch, Assigns, Reads, Write, Reading

(* A call that leaves its result in a temporary.                           *)
LEMMA TermLoads ==
  ASSUME NEW h, h.temps \in Nat, NEW n, NEW temps \in Nat, NEW i \in Nat,
         h.temps + 1 <= temps, i <= temps
  PROVE  Loads(Term(n, temps, Temp(i)), h, {i})
<1> DEFINE t == Term(n, temps, Temp(i))
<1>1. t.do = "term" /\ t.temps = temps /\ t.bind = Temp(i)
  BY DEF Term
<1> HIDE DEF t
<1>2. Assigns(t) = {i}
  BY <1>1, TokensRead DEF Assigns
<1>3. Reads(t) = {}
  BY <1>1 DEF Reads
<1>4. Bounded(t)
  BY <1>1, <1>2 DEF Bounded
<1> QED BY <1>1, <1>2, <1>3, <1>4 DEF Loads, t

(* The loop over arguments that leaves them in temporaries.                *)
LEMMA LoopLoads ==
  ASSUME NEW h, h.temps \in Nat, NEW first \in Nat, h.temps <= first,
         NEW S, NEW ns \in Seq(S), NEW b \in Nat, Len(ns) = b
  PROVE  Loads(TermLoop(ns, first + b, first), h, first..(first + b - 1))
<1> DEFINE t == TermLoop(ns, first + b, first)
<1>1. /\ t.do = "terms" /\ t.ns = ns /\ t.temps = first + b /\ t.temp = first
  BY DEF TermLoop
<1>2. ns # <<>> => b >= 1
  OBVIOUS
<1> HIDE DEF t
<1>3. Assigns(t) = first..(first + b - 1)
  BY <1>1 DEF Assigns
<1>4. Reads(t) = {}
  BY <1>1 DEF Reads
<1>5. Bounded(t)
  BY <1>1 DEF Bounded
<1>6. NeedsScratch(t) => h.temps + 1 <= t.temps
  BY <1>1, <1>2 DEF NeedsScratch
<1> QED BY <1>3, <1>4, <1>5, <1>6 DEF Loads, t

(* Entering an arm.                                                        *)
LEMMA EnterKeepsTemps ==
  ASSUME Inv, TempsInv, todo # <<>>, NEW calls, IsSeq(calls),
         TempsCalls(Head(todo), calls), Enter(calls)
  PROVE  TempsInv'
<1> DEFINE T == {calls[i] : i \in DOMAIN calls}
<1>1. calls \in Seq(T)
  BY DEF IsSeq
<1>2. UNCHANGED <<prog, binds>> /\ todo' = calls \o Tail(todo)
  BY DEF Enter, annotateVars
<1> HIDE DEF T
<1> QED BY <1>1, <1>2, CallsKeepTemps

AllSilent(s) == IsSeq(s) /\ \A i \in 1..Len(s) : Silent(s[i])

(* A sequence over a set of silent tasks.                                  *)
LEMMA SilentSet ==
  ASSUME NEW S, \A x \in S : Silent(x), NEW s \in Seq(S)
  PROVE  AllSilent(s)
<1>1. \A i \in 1..Len(s) : s[i] \in S
  OBVIOUS
<1> QED BY <1>1, SeqIsSeq DEF AllSilent

(* Sequences of silent tasks.                                              *)
LEMMA SilentTuples ==
  /\ AllSilent(<<>>)
  /\ \A a : Silent(a)
       => AllSilent(<<a>>)
  /\ \A a, b : Silent(a) /\ Silent(b)
       => AllSilent(<<a, b>>)
  /\ \A a, b, c : Silent(a) /\ Silent(b) /\ Silent(c)
       => AllSilent(<<a, b, c>>)
  /\ \A a, b, c, d : Silent(a) /\ Silent(b) /\ Silent(c) /\ Silent(d)
       => AllSilent(<<a, b, c, d>>)
  /\ \A a, b, c, d, e : Silent(a) /\ Silent(b) /\ Silent(c) /\ Silent(d) /\ Silent(e)
       => AllSilent(<<a, b, c, d, e>>)
<1>1. AllSilent(<<>>)
  BY DEF AllSilent, IsSeq
<1>2. ASSUME NEW a,
             Silent(a)
      PROVE  AllSilent(<<a>>)
  <2>1. <<a>> \in Seq({a})
    OBVIOUS
  <2>2. \A x \in {a} : Silent(x)
    BY <1>2
  <2> QED BY <2>1, <2>2, SilentSet
<1>3. ASSUME NEW a, NEW b,
             Silent(a), Silent(b)
      PROVE  AllSilent(<<a, b>>)
  <2>1. <<a, b>> \in Seq({a, b})
    OBVIOUS
  <2>2. \A x \in {a, b} : Silent(x)
    BY <1>3
  <2> QED BY <2>1, <2>2, SilentSet
<1>4. ASSUME NEW a, NEW b, NEW c,
             Silent(a), Silent(b), Silent(c)
      PROVE  AllSilent(<<a, b, c>>)
  <2>1. <<a, b, c>> \in Seq({a, b, c})
    OBVIOUS
  <2>2. \A x \in {a, b, c} : Silent(x)
    BY <1>4
  <2> QED BY <2>1, <2>2, SilentSet
<1>5. ASSUME NEW a, NEW b, NEW c, NEW d,
             Silent(a), Silent(b), Silent(c), Silent(d)
      PROVE  AllSilent(<<a, b, c, d>>)
  <2>1. <<a, b, c, d>> \in Seq({a, b, c, d})
    OBVIOUS
  <2>2. \A x \in {a, b, c, d} : Silent(x)
    BY <1>5
  <2> QED BY <2>1, <2>2, SilentSet
<1>6. ASSUME NEW a, NEW b, NEW c, NEW d, NEW e,
             Silent(a), Silent(b), Silent(c), Silent(d), Silent(e)
      PROVE  AllSilent(<<a, b, c, d, e>>)
  <2>1. <<a, b, c, d, e>> \in Seq({a, b, c, d, e})
    OBVIOUS
  <2>2. \A x \in {a, b, c, d, e} : Silent(x)
    BY <1>6
  <2> QED BY <2>1, <2>2, SilentSet
<1> QED BY <1>1, <1>2, <1>3, <1>4, <1>5, <1>6, Zenon

(* An arm that does nothing with temporaries.                              *)
LEMMA SilentKeepsTemps ==
  ASSUME Inv, TempsInv, todo # <<>>, NEW calls, AllSilent(calls), Enter(calls)
  PROVE  TempsInv'
<1>1. IsSeq(calls) /\ \A i \in 1..Len(calls) : Silent(calls[i])
  BY DEF AllSilent
<1>2. DOMAIN calls = 1..Len(calls)
  BY <1>1 DEF IsSeq
<1>3. TempsCalls(Head(todo), calls)
  BY <1>1, <1>2, SilentCalls
<1> QED BY <1>1, <1>3, EnterKeepsTemps

OneLoad(h, t, w, K) == Loads(t, h, K) /\ Uses(w, K)

TwoLoads(h, t, u, w, K, L) ==
  /\ Loads(t, h, K) /\ Loads(u, h, L) /\ Uses(w, K \cup L)
  /\ NeedsScratch(u) => \A k \in K : k < u.temps
  /\ InfixWithBoundRhs \/ K \cap L = {}

(* The arm calls may replace the task h.                                   *)
MayReplace(h, calls) == IsSeq(calls) /\ TempsCalls(h, calls)

(* The arms that load one operand or two and use them.                     *)
LEMMA OneLoadArms ==
  ASSUME NEW h, Statement(h), NEW t, NEW w, NEW K, OneLoad(h, t, w, K),
         NEW f, NEW g, NEW d, NEW e, Silent(f), Silent(g), Silent(d), Silent(e)
  PROVE  /\ MayReplace(h, <<t, w>>)
         /\ MayReplace(h, <<t, w, f, g>>)
         /\ MayReplace(h, <<t, f, g, w, d, e>>)
         /\ MayReplace(h, <<f, t, w, g, d, e>>)
<1>1. MayReplace(h, <<t, w>>)
  <2> DEFINE calls == <<t, w>>
  <2>1. /\ Len(calls) = 2 /\ DOMAIN calls = 1..2
        /\ calls[1] = t
        /\ calls[2] = w
    OBVIOUS
  <2>2. \A i \in 1..2 : i = 1 \/ i = 2
    OBVIOUS
  <2>0. calls \in Seq({t, w})
    OBVIOUS
  <2> HIDE DEF calls
  <2>3. \A i \in 1..Len(calls) : i = 1 \/ i = 1 \/ i = 2 \/ Silent(calls[i])
    BY <2>1, <2>2
  <2>4. LoadsAt(h, calls, 1, 1, 2, K, K)
    <3>1. K \cup K = K
      OBVIOUS
    <3>2. /\ Loads(calls[1], h, K) /\ Uses(calls[2], K \cup K)
          /\ DOMAIN calls = 1..Len(calls)
      BY <2>1, <3>1, Zenon DEF OneLoad
    <3>3. /\ 1 \in 1..Len(calls) /\ 2 \in 1..Len(calls) /\ Len(calls) \in Nat
          /\ 1 <= 1 /\ 1 < 2
      BY <2>1
    <3> QED BY <2>3, <3>2, <3>3, Zenon DEF LoadsAt
  <2>5. TempsCalls(h, calls)
    BY <2>4, LoadsAndUse, Zenon
  <2>6. MayReplace(h, calls)
    BY <2>0, <2>5, SeqIsSeq DEF MayReplace
  <2> QED BY <2>6 DEF calls
<1>2. MayReplace(h, <<t, w, f, g>>)
  <2> DEFINE calls == <<t, w, f, g>>
  <2>1. /\ Len(calls) = 4 /\ DOMAIN calls = 1..4
        /\ calls[1] = t
        /\ calls[2] = w
        /\ calls[3] = f
        /\ calls[4] = g
    OBVIOUS
  <2>2. \A i \in 1..4 : i = 1 \/ i = 2 \/ i = 3 \/ i = 4
    OBVIOUS
  <2>0. calls \in Seq({t, w, f, g})
    OBVIOUS
  <2> HIDE DEF calls
  <2>3. \A i \in 1..Len(calls) : i = 1 \/ i = 1 \/ i = 2 \/ Silent(calls[i])
    BY <2>1, <2>2
  <2>4. LoadsAt(h, calls, 1, 1, 2, K, K)
    <3>1. K \cup K = K
      OBVIOUS
    <3>2. /\ Loads(calls[1], h, K) /\ Uses(calls[2], K \cup K)
          /\ DOMAIN calls = 1..Len(calls)
      BY <2>1, <3>1, Zenon DEF OneLoad
    <3>3. /\ 1 \in 1..Len(calls) /\ 2 \in 1..Len(calls) /\ Len(calls) \in Nat
          /\ 1 <= 1 /\ 1 < 2
      BY <2>1
    <3> QED BY <2>3, <3>2, <3>3, Zenon DEF LoadsAt
  <2>5. TempsCalls(h, calls)
    BY <2>4, LoadsAndUse, Zenon
  <2>6. MayReplace(h, calls)
    BY <2>0, <2>5, SeqIsSeq DEF MayReplace
  <2> QED BY <2>6 DEF calls
<1>3. MayReplace(h, <<t, f, g, w, d, e>>)
  <2> DEFINE calls == <<t, f, g, w, d, e>>
  <2>1. /\ Len(calls) = 6 /\ DOMAIN calls = 1..6
        /\ calls[1] = t
        /\ calls[2] = f
        /\ calls[3] = g
        /\ calls[4] = w
        /\ calls[5] = d
        /\ calls[6] = e
    OBVIOUS
  <2>2. \A i \in 1..6 : i = 1 \/ i = 2 \/ i = 3 \/ i = 4 \/ i = 5 \/ i = 6
    OBVIOUS
  <2>0. calls \in Seq({t, f, g, w, d, e})
    OBVIOUS
  <2> HIDE DEF calls
  <2>3. \A i \in 1..Len(calls) : i = 1 \/ i = 1 \/ i = 4 \/ Silent(calls[i])
    BY <2>1, <2>2
  <2>4. LoadsAt(h, calls, 1, 1, 4, K, K)
    <3>1. K \cup K = K
      OBVIOUS
    <3>2. /\ Loads(calls[1], h, K) /\ Uses(calls[4], K \cup K)
          /\ DOMAIN calls = 1..Len(calls)
      BY <2>1, <3>1, Zenon DEF OneLoad
    <3>3. /\ 1 \in 1..Len(calls) /\ 4 \in 1..Len(calls) /\ Len(calls) \in Nat
          /\ 1 <= 1 /\ 1 < 4
      BY <2>1
    <3> QED BY <2>3, <3>2, <3>3, Zenon DEF LoadsAt
  <2>5. TempsCalls(h, calls)
    BY <2>4, LoadsAndUse, Zenon
  <2>6. MayReplace(h, calls)
    BY <2>0, <2>5, SeqIsSeq DEF MayReplace
  <2> QED BY <2>6 DEF calls
<1>4. MayReplace(h, <<f, t, w, g, d, e>>)
  <2> DEFINE calls == <<f, t, w, g, d, e>>
  <2>1. /\ Len(calls) = 6 /\ DOMAIN calls = 1..6
        /\ calls[1] = f
        /\ calls[2] = t
        /\ calls[3] = w
        /\ calls[4] = g
        /\ calls[5] = d
        /\ calls[6] = e
    OBVIOUS
  <2>2. \A i \in 1..6 : i = 1 \/ i = 2 \/ i = 3 \/ i = 4 \/ i = 5 \/ i = 6
    OBVIOUS
  <2>0. calls \in Seq({f, t, w, g, d, e})
    OBVIOUS
  <2> HIDE DEF calls
  <2>3. \A i \in 1..Len(calls) : i = 2 \/ i = 2 \/ i = 3 \/ Silent(calls[i])
    BY <2>1, <2>2
  <2>4. LoadsAt(h, calls, 2, 2, 3, K, K)
    <3>1. K \cup K = K
      OBVIOUS
    <3>2. /\ Loads(calls[2], h, K) /\ Uses(calls[3], K \cup K)
          /\ DOMAIN calls = 1..Len(calls)
      BY <2>1, <3>1, Zenon DEF OneLoad
    <3>3. /\ 2 \in 1..Len(calls) /\ 3 \in 1..Len(calls) /\ Len(calls) \in Nat
          /\ 2 <= 2 /\ 2 < 3
      BY <2>1
    <3> QED BY <2>3, <3>2, <3>3, Zenon DEF LoadsAt
  <2>5. TempsCalls(h, calls)
    BY <2>4, LoadsAndUse, Zenon
  <2>6. MayReplace(h, calls)
    BY <2>0, <2>5, SeqIsSeq DEF MayReplace
  <2> QED BY <2>6 DEF calls
<1> QED BY <1>1, <1>2, <1>3, <1>4

(* With two operands.                                                      *)
LEMMA TwoLoadsArms ==
  ASSUME NEW h, Statement(h), NEW t, NEW u, NEW w, NEW K, NEW L,
         TwoLoads(h, t, u, w, K, L), NEW f, NEW g, Silent(f), Silent(g)
  PROVE  /\ MayReplace(h, <<t, u, w>>)
         /\ MayReplace(h, <<t, u, w, f, g>>)
         /\ MayReplace(h, <<f, t, u, w, g>>)
<1>1. MayReplace(h, <<t, u, w>>)
  <2> DEFINE calls == <<t, u, w>>
  <2>1. /\ Len(calls) = 3 /\ DOMAIN calls = 1..3
        /\ calls[1] = t
        /\ calls[2] = u
        /\ calls[3] = w
    OBVIOUS
  <2>2. \A i \in 1..3 : i = 1 \/ i = 2 \/ i = 3
    OBVIOUS
  <2>0. calls \in Seq({t, u, w})
    OBVIOUS
  <2> HIDE DEF calls
  <2>3. \A i \in 1..Len(calls) : i = 1 \/ i = 2 \/ i = 3 \/ Silent(calls[i])
    BY <2>1, <2>2
  <2>4. LoadsAt(h, calls, 1, 2, 3, K, L)
    BY <2>1, <2>3 DEF LoadsAt, TwoLoads
  <2>5. TempsCalls(h, calls)
    BY <2>4, LoadsAndUse, Zenon
  <2>6. MayReplace(h, calls)
    BY <2>0, <2>5, SeqIsSeq DEF MayReplace
  <2> QED BY <2>6 DEF calls
<1>2. MayReplace(h, <<t, u, w, f, g>>)
  <2> DEFINE calls == <<t, u, w, f, g>>
  <2>1. /\ Len(calls) = 5 /\ DOMAIN calls = 1..5
        /\ calls[1] = t
        /\ calls[2] = u
        /\ calls[3] = w
        /\ calls[4] = f
        /\ calls[5] = g
    OBVIOUS
  <2>2. \A i \in 1..5 : i = 1 \/ i = 2 \/ i = 3 \/ i = 4 \/ i = 5
    OBVIOUS
  <2>0. calls \in Seq({t, u, w, f, g})
    OBVIOUS
  <2> HIDE DEF calls
  <2>3. \A i \in 1..Len(calls) : i = 1 \/ i = 2 \/ i = 3 \/ Silent(calls[i])
    BY <2>1, <2>2
  <2>4. LoadsAt(h, calls, 1, 2, 3, K, L)
    BY <2>1, <2>3 DEF LoadsAt, TwoLoads
  <2>5. TempsCalls(h, calls)
    BY <2>4, LoadsAndUse, Zenon
  <2>6. MayReplace(h, calls)
    BY <2>0, <2>5, SeqIsSeq DEF MayReplace
  <2> QED BY <2>6 DEF calls
<1>3. MayReplace(h, <<f, t, u, w, g>>)
  <2> DEFINE calls == <<f, t, u, w, g>>
  <2>1. /\ Len(calls) = 5 /\ DOMAIN calls = 1..5
        /\ calls[1] = f
        /\ calls[2] = t
        /\ calls[3] = u
        /\ calls[4] = w
        /\ calls[5] = g
    OBVIOUS
  <2>2. \A i \in 1..5 : i = 1 \/ i = 2 \/ i = 3 \/ i = 4 \/ i = 5
    OBVIOUS
  <2>0. calls \in Seq({f, t, u, w, g})
    OBVIOUS
  <2> HIDE DEF calls
  <2>3. \A i \in 1..Len(calls) : i = 2 \/ i = 3 \/ i = 4 \/ Silent(calls[i])
    BY <2>1, <2>2
  <2>4. LoadsAt(h, calls, 2, 3, 4, K, L)
    BY <2>1, <2>3 DEF LoadsAt, TwoLoads
  <2>5. TempsCalls(h, calls)
    BY <2>4, LoadsAndUse, Zenon
  <2>6. MayReplace(h, calls)
    BY <2>0, <2>5, SeqIsSeq DEF MayReplace
  <2> QED BY <2>6 DEF calls
<1> QED BY <1>1, <1>2, <1>3

-----------------------------------------------------------------------------
(* The arms of generate_free_term.                                         *)

(* What is written for a leaf reads no temporary.                          *)
LEMMA LeafRead ==
  ASSUME NEW t, PayloadOk(t), t.kind \in {"Int", "Str", "Bool", "Var"}
  PROVE  Reading(LeafText(t), {})
<1>1. LeafText(t) \in Seq(Token)
  BY LeafTextType
<1>2. ASSUME NEW x \in Token, x[1] \in {"int", "str"} PROVE Behind(<<x>>, {})
  <2>1. ~IsTemp(x) /\ x # Sym("=") /\ <<x>> \in Seq(Token)
    BY <1>2 DEF IsTemp, Sym
  <2>2. DOMAIN <<x>> = {1} /\ <<x>>[1] = x
    OBVIOUS
  <2>3. Reading(<<x>>, {})
    BY <2>1, <2>2, NothingRead
  <2> QED BY <2>1, <2>2, <2>3 DEF Behind
<1>3. CASE t.kind = "Int"
  <2>1. t.value \in Int /\ LeafText(t) = << <<"int", t.value>> >>
    BY <1>3 DEF PayloadOk, LeafText
  <2>2. <<"int", t.value>> \in Token /\ <<"int", t.value>>[1] \in {"int", "str"}
    BY <2>1 DEF Token
  <2> QED BY <1>2, <2>1, <2>2 DEF Behind
<1>4. CASE t.kind = "Str"
  <2> DEFINE a == Text(<<"__new_str", "(">>)
             b == << <<"str", t.value>> >>
             c == Text(<<")">>)
  <2>1. t.value \in Name /\ LeafText(t) = a \o b \o c
    BY <1>4 DEF PayloadOk, LeafText, Name
  <2>2. <<"str", t.value>> \in Token /\ <<"str", t.value>>[1] \in {"int", "str"}
    BY <2>1 DEF Token
  <2>3. Behind(a, {}) /\ Behind(b, {}) /\ Behind(c, {})
    BY <1>2, <2>2, ConstantsRead
  <2>4. {} \cup {} = {}
    OBVIOUS
  <2> HIDE DEF a, b, c
  <2>5. Reading(a \o b, {})
    BY <2>3, <2>4, ReadingConcat DEF Behind
  <2>6. Reading(a \o b \o c, {})
    BY <2>3, <2>4, <2>5, ReadingConcat
  <2> QED BY <2>1, <2>6
<1>5. CASE t.kind = "Bool"
  BY <1>5, ConstantsRead DEF LeafText, Behind
<1>6. CASE t.kind = "Var"
  <2>1. t.text \in Name /\ LeafText(t) = << VarName(t.text) >>
    BY <1>6 DEF PayloadOk, LeafText, Name
  <2> QED BY <2>1, TokenRead DEF Behind
<1> QED BY <1>3, <1>4, <1>5, <1>6

(* The end of a function literal reads its result.                         *)
LEMMA FunctionEndReads == Reads(FunctionEnd) = {0}
<1> DEFINE a == Text(<<"return">>)
           b == << Temp(0) >>
           c == Text(<<"end">>)
<1>1. Behind(a, {}) /\ Behind(b, {0}) /\ Behind(c, {})
  BY ConstantsRead, TokenRead
<1>2. FunctionEnd = Write(a \o b \o c)
  BY DEF FunctionEnd
<1> HIDE DEF a, b, c
<1>3. Reading(a \o b, {} \cup {0})
  BY <1>1, ReadingConcat DEF Behind
<1>4. Reading(a \o b \o c, ({} \cup {0}) \cup {})
  BY <1>1, <1>3, ReadingConcat
<1>5. ({} \cup {0}) \cup {} = {0}
  OBVIOUS
<1>6. Reading(a \o b \o c, {0})
  BY <1>4, <1>5
<1> QED BY <1>2, <1>6, UsingWrite DEF Uses

(* A function literal: its body starts over with the temporaries, and      *)
(* leaves its result where the end of the literal reads it.                *)
LEMMA LiteralKeepsTemps ==
  ASSUME Inv, TempsInv, todo # <<>>, NEW text, Reading(text, {}), NEW n,
         Enter(<< Write(text), Term(n, 1, Temp(0)), FunctionEnd >>)
  PROVE  TempsInv'
<1> DEFINE a == Write(text)
           b == Term(n, 1, Temp(0))
           h == Head(todo)
           calls == << a, b, FunctionEnd >>
<1>1. Silent(a)
  BY SilentTasks
<1>2. b.do = "term" /\ b.temps = 1 /\ b.bind = Temp(0)
  BY DEF Term
<1> HIDE DEF a, b
<1>3. Assigns(b) = {0} /\ Reads(b) = {} /\ Bounded(b)
  <2>1. Assigns(b) = {0} /\ Reads(b) = {}
    BY <1>2, TokensRead DEF Assigns, Reads
  <2> QED BY <1>2, <2>1 DEF Bounded
<1>4. /\ Assigns(FunctionEnd) = {} /\ Reads(FunctionEnd) = {0}
      /\ Bounded(FunctionEnd) /\ ~NeedsScratch(FunctionEnd)
  BY TaskShapes, FunctionEndReads
<1>5. /\ calls \in Seq({a, b, FunctionEnd}) /\ Len(calls) = 3 /\ DOMAIN calls = 1..3
      /\ calls[1] = a /\ calls[2] = b /\ calls[3] = FunctionEnd
  OBVIOUS
<1>6. \A i \in 1..3 : i = 1 \/ i = 2 \/ i = 3
  OBVIOUS
<1>7. Enter(calls)
  BY DEF a, b
<1> HIDE DEF calls
<1>8. Ended(calls, 1) /\ Ended(calls, 2)
  BY <1>5 DEF Ended
<1>9. \A i \in 1..Len(calls) : Bounded(calls[i]) /\ ScratchOf(h, calls, i)
  BY <1>1, <1>3, <1>4, <1>5, <1>6, <1>8 DEF ScratchOf, Silent
<1>10. Held(calls)
  <2> SUFFICES ASSUME NEW i \in 1..3, NEW j \in 1..3, i < j, NeedsScratch(calls[i]),
                      NEW k \in Reads(calls[j])
               PROVE  \E m \in i..(j-1) : k \in Assigns(calls[m])
    BY <1>5 DEF Held, Together
  <2>1. i = 2 /\ j = 3
    BY <1>1, <1>4, <1>5, <1>6 DEF Silent
  <2>2. k \in Assigns(calls[2]) /\ 2 \in i..(j-1)
    BY <1>3, <1>4, <1>5, <2>1
  <2> QED BY <2>2
<1>11. Kept(calls)
  <2> SUFFICES ASSUME NEW i \in 1..3, NEW j \in 1..3, i < j,
                      NEW k \in Assigns(calls[i]) \cap Assigns(calls[j])
               PROVE  FALSE
    BY <1>5 DEF Kept, Together
  <2>1. i = 2 /\ j = 2
    BY <1>1, <1>4, <1>5, <1>6 DEF Silent
  <2> QED BY <2>1
<1>12. \A i \in 1..Len(calls) : ResultsOf(h, calls, i)
  BY <1>1, <1>4, <1>5, <1>6, <1>8 DEF ResultsOf, Silent
<1>13. TempsCalls(h, calls)
  BY <1>9, <1>10, <1>11, <1>12 DEF TempsCalls
<1>14. IsSeq(calls)
  BY <1>5, SeqIsSeq
<1> QED BY <1>7, <1>13, <1>14, EnterKeepsTemps DEF h

(* Every arm of generate_free_term keeps the invariant.                    *)
LEMMA FreeNextKeepsTemps == ASSUME Inv, TempsInv, FreeNext PROVE TempsInv'
<1> DEFINE n == Head(todo).n
<1>1. Doing("free") /\ todo # <<>>
  BY DEF FreeNext, FreePanics, FreeError, FreeLeaf, FreeCall, FreeBinary,
         FreeFunction, FreePrint, FreeProjection, FreeTuple, FreeArm, Doing
<1>2. WellFormed(prog) /\ n \in Terms(prog) /\ PayloadOk(prog[n])
  BY <1>1, Pending, SafeTaskFields, PayloadOfTerm
<1>3. /\ Silent(Write(Text(<<"(">>))) /\ Silent(Write(Text(<<")">>)))
      /\ Silent(Write(Text(<<",">>))) /\ Silent(Write(Text(<<"__print", "(">>)))
      /\ Silent(Write(Text(<<"(", "{">>))) /\ Silent(Write(Text(<<"}", ")">>)))
      /\ Silent(Write(Text(<<"[1]">>))) /\ Silent(Write(Text(<<"[2]">>)))
  BY ConstantsRead, SilentTasks DEF Behind
<1>4. (\A m : Silent(Free(m))) /\ (\A ns : Silent(FreeLoop(ns)))
  BY SilentTasks
<1>5. CASE FreePanics \/ FreeError
  <2>1. UNCHANGED <<prog, binds, todo>>
    BY <1>5 DEF FreePanics, FreeError, annotateVars
  <2> QED BY <2>1 DEF TempsInv, InfixWithBoundRhs
<1>6. CASE FreeLeaf
  <2>1. Silent(Write(LeafText(prog[n])))
    BY <1>2, <1>6, LeafRead, SilentTasks DEF FreeLeaf, FreeArm
  <2>2. AllSilent(<< Write(LeafText(prog[n])) >>)
    BY <2>1, SilentTuples, Zenon
  <2> QED BY <1>1, <1>6, <2>2, SilentKeepsTemps DEF FreeLeaf
<1>7. CASE FreeCall
  <2>1. AllSilent(<< Free(Kid(prog, n, 1)), Write(Text(<<"(">>)),
                     FreeLoop(Arguments(prog, n)), Write(Text(<<")">>)) >>)
    BY <1>3, <1>4, SilentTuples, Zenon
  <2> QED BY <1>1, <1>7, <2>1, SilentKeepsTemps DEF FreeCall
<1>8. CASE FreeBinary
  <2> DEFINE op == prog[n].op
  <2>1. op \in BinaryOp
    BY <1>2, <1>8 DEF FreeBinary, FreeArm, PayloadOk
  <2>2. /\ Silent(Write(FreeOpening(op))) /\ Silent(Write(FreeClosing(op)))
        /\ Silent(Write(Text(<<LuaOp(op)>>)))
    BY <2>1, OperatorsRead, SilentTasks DEF Behind
  <2>3. AllSilent(<< Write(FreeOpening(op)), Free(Kid(prog, n, 1)),
                     Write(Text(<<LuaOp(op)>>)), Free(Kid(prog, n, 2)),
                     Write(FreeClosing(op)) >>)
    BY <1>4, <2>2, SilentTuples, Zenon
  <2> QED BY <1>1, <1>8, <2>3, SilentKeepsTemps DEF FreeBinary
<1>9. CASE FreeFunction
  <2> DEFINE ps == prog[n].parameters
             a == Text(<<"function", "(">>)
             b == ParameterText(ps)
             c == Text(<<"__sentinel", ")">>)
             d == ArityCheck(ps)
  <2>1. ps \in Seq(STRING)
    BY <1>2, <1>9 DEF FreeFunction, FreeArm, PayloadOk
  <2>2. Behind(a, {}) /\ Behind(b, {}) /\ Behind(c, {}) /\ Behind(d, {})
    BY <2>1, ConstantsRead, ParametersRead
  <2>3. Enter(<< Write(a \o b \o c \o d), Term(Kid(prog, n, 1), 1, Temp(0)),
                 FunctionEnd >>)
    BY <1>9 DEF FreeFunction
  <2>4. {} \cup {} = {}
    OBVIOUS
  <2> HIDE DEF a, b, c, d
  <2>5. Reading(a \o b, {})
    BY <2>2, <2>4, ReadingConcat DEF Behind
  <2>6. Reading(a \o b \o c, {})
    BY <2>2, <2>4, <2>5, ReadingConcat
  <2>7. Reading(a \o b \o c \o d, {})
    BY <2>2, <2>4, <2>6, ReadingConcat
  <2> QED BY <1>1, <2>3, <2>7, LiteralKeepsTemps
<1>10. CASE FreePrint
  <2>1. AllSilent(<< Write(Text(<<"__print", "(">>)),
                     Free(Kid(prog, n, 1)), Write(Text(<<")">>)) >>)
    BY <1>3, <1>4, SilentTuples, Zenon
  <2> QED BY <1>1, <1>10, <2>1, SilentKeepsTemps DEF FreePrint
<1>11. CASE FreeProjection
  <2>1. Silent(Write(Text(<<Selector(prog[n].kind)>>)))
    BY <1>3 DEF Selector
  <2>2. AllSilent(<< Free(Kid(prog, n, 1)), Write(Text(<<Selector(prog[n].kind)>>)) >>)
    BY <1>4, <2>1, SilentTuples, Zenon
  <2> QED BY <1>1, <1>11, <2>2, SilentKeepsTemps DEF FreeProjection
<1>12. CASE FreeTuple
  <2>1. AllSilent(<< Write(Text(<<"(", "{">>)), Free(Kid(prog, n, 1)),
                     Write(Text(<<",">>)), Free(Kid(prog, n, 2)),
                     Write(Text(<<"}", ")">>)) >>)
    BY <1>3, <1>4, SilentTuples, Zenon
  <2> QED BY <1>1, <1>12, <2>1, SilentKeepsTemps DEF FreeTuple
<1> QED BY <1>5, <1>6, <1>7, <1>8, <1>9, <1>10, <1>11, <1>12 DEF FreeNext

-----------------------------------------------------------------------------
(* The arms of generate_term.                                              *)

(* What a step of generate_term starts from.                               *)
LEMMA TermStarts ==
  ASSUME Inv, TempsInv, Doing("term"), NEW h, h = Head(todo)
  PROVE  /\ todo # <<>> /\ WellFormed(prog)
         /\ Statement(h) /\ h.n \in Terms(prog) /\ h.temps \in Nat /\ h.bind \in Token
         /\ PayloadOk(prog[h.n])
<1>1. /\ todo # <<>> /\ WellFormed(prog) /\ h.n \in Terms(prog)
      /\ h.temps \in Nat /\ h.bind \in Token /\ PayloadOk(prog[h.n])
  BY TermPending
<1>2. h.do = "term"
  BY DEF Doing
<1>3. Bounded(h)
  <2>1. todo \in Seq(SafeTask)
    BY DEF Inv, Generating
  <2>2. 1 \in DOMAIN todo /\ h = todo[1]
    BY <1>1, <2>1
  <2> QED BY <2>2 DEF TempsInv
<1>4. \A k \in Assigns(h) : k \in Nat
  BY <1>1, <1>2, TempToken DEF Assigns
<1> QED BY <1>1, <1>2, <1>3, <1>4 DEF Statement

(* Entering such an arm.                                                   *)
LEMMA ReplacedKeepsTemps ==
  ASSUME Inv, TempsInv, todo # <<>>, NEW calls, MayReplace(Head(todo), calls),
         Enter(calls)
  PROVE  TempsInv'
BY EnterKeepsTemps DEF MayReplace

(* Silent arms are such arms.                                              *)
LEMMA SilentReplaces ==
  ASSUME NEW h, NEW calls, AllSilent(calls)
  PROVE  MayReplace(h, calls)
<1>1. IsSeq(calls) /\ \A i \in 1..Len(calls) : Silent(calls[i])
  BY DEF AllSilent
<1>2. DOMAIN calls = 1..Len(calls)
  BY <1>1 DEF IsSeq
<1> QED BY <1>1, <1>2, SilentCalls DEF MayReplace

(* An expression written in place.                                         *)
LEMMA InPlaceKeepsTemps == ASSUME Inv, TempsInv, TermInPlace PROVE TempsInv'
<1> DEFINE h == Head(todo)
<1>1. todo # <<>> /\ h.bind \in Token
  BY TermStarts DEF TermInPlace
<1>2. /\ Silent(Write(Text(<<"do", "return">>))) /\ Silent(Write(Text(<<"end">>)))
      /\ Silent(Write(<< h.bind, Sym("=") >>)) /\ Silent(Free(h.n))
  BY <1>1, ConstantsRead, AssignmentRead, SilentTasks DEF Behind
<1>3. /\ AllSilent(<< Write(Text(<<"do", "return">>)), Free(h.n), Write(Text(<<"end">>)) >>)
      /\ AllSilent(<< Write(<< h.bind, Sym("=") >>), Free(h.n) >>)
  BY <1>2, SilentTuples, Zenon
<1> QED BY <1>1, <1>3, SilentKeepsTemps DEF TermInPlace

(* The arguments a call in statements puts into temporaries.               *)
LEMMA LeadingArguments ==
  ASSUME WellFormed(prog), NEW n \in Terms(prog), prog[n].kind = "Call",
         NEW args, args = Arguments(prog, n), args # <<>>,
         NEW b, b = LastBinds(args),
         NEW h, h.temps \in Nat, NEW first \in Nat, h.temps <= first
  PROVE  /\ b \in Nat
         /\ Loads(TermLoop(SubSeq(args, 1, b), first + b, first), h,
                  first..(first + b - 1))
         /\ Behind(TempArguments(first, b), first..(first + b - 1))
<1>1. args \in Seq(Terms(prog))
  BY ArgumentsAreKids
<1>2. b \in 0..(Len(args) - 1) /\ SubSeq(args, 1, b) \in Seq(Terms(prog))
  BY LastBindsSplits
<1>3. b \in Nat /\ Len(SubSeq(args, 1, b)) = b
  <2>1. b \in Nat /\ b <= Len(args)
    BY <1>1, <1>2
  <2> QED BY <1>1, <2>1
<1> QED BY <1>2, <1>3, LoopLoads, TempArgumentsRead

(* A call whose callee binds.                                              *)
LEMMA BoundCalleeKeepsTemps ==
  ASSUME Inv, TempsInv, TermCallBoundCallee PROVE TempsInv'
<1> DEFINE h      == Head(todo)
           callee == Kid(prog, h.n, 1)
           args   == Arguments(prog, h.n)
           holder == Temp(h.temps + 1)
           temps  == h.temps + 2
           bound  == LastBinds(args)
           i      == h.temps + 1
           K      == {i}
           L      == temps..(temps + bound - 1)
           t      == Term(callee, h.temps + 1, holder)
           bare   == Deliver(h.n, h.bind) \o << holder >> \o Text(<<"(", ")">>)
           open   == Deliver(h.n, h.bind) \o << holder, Sym("(") >>
                       \o TempArguments(temps, bound)
           u      == TermLoop(SubSeq(args, 1, bound), temps + bound, temps)
           f      == FreeLoop(SubSeq(args, bound + 1, Len(args)))
           g      == Write(Text(<<")">>))
<1>1. /\ Doing("term") /\ prog[h.n].kind = "Call"
      /\ Enter(<< t >> \o IF args = <<>> THEN << Write(bare) >>
                          ELSE << u, Write(open), f, g >>)
  BY DEF TermCallBoundCallee, TermArm
<1>2. /\ todo # <<>> /\ WellFormed(prog)
      /\ Statement(h) /\ h.n \in Terms(prog) /\ h.temps \in Nat /\ h.bind \in Token
  BY <1>1, TermStarts
<1>3. i \in Nat /\ temps \in Nat /\ h.temps <= temps /\ h.temps + 1 <= i
  BY <1>2
<1>4. Loads(t, h, K)
  BY <1>2, <1>3, TermLoads
<1>5. Reading(Deliver(h.n, h.bind), {})
  BY <1>2, DeliverRead
<1>6. Silent(f) /\ Silent(g)
  BY ConstantsRead, SilentTasks DEF Behind
<1>7. CASE args = <<>>
  <2> DEFINE a == Deliver(h.n, h.bind)
             b == << holder >>
             c == Text(<<"(", ")">>)
  <2>1. Behind(b, K) /\ Behind(c, {})
    BY <1>3, TokenRead, ConstantsRead
  <2>2. Reading(a, {})
    BY <1>5
  <2>3. bare = a \o b \o c
    OBVIOUS
  <2>4. {} \cup K = K /\ K \cup {} = K
    OBVIOUS
  <2> HIDE DEF a, b, c, bare, K
  <2>5. Reading(a \o b, K)
    BY <2>1, <2>2, <2>4, ReadingConcat
  <2>6. Reading(bare, K)
    BY <2>1, <2>3, <2>4, <2>5, ReadingConcat
  <2>7. Uses(Write(bare), K)
    BY <2>6, UsingWrite
  <2> DEFINE w == Write(bare)
  <2> HIDE DEF w, t, f, g, h
  <2>8. OneLoad(h, t, w, K)
    BY <1>4, <2>7 DEF OneLoad, w
  <2>9. MayReplace(h, << t, w >>)
    BY <1>2, <1>6, <2>8, OneLoadArms, Zenon
  <2>10. Enter(<< t, w >>)
    <3>1. << t >> \o << w >> = << t, w >>
      BY OneAndOne, Zenon
    <3> QED BY <1>1, <1>7, <3>1 DEF w
  <2> QED BY <1>2, <2>9, <2>10, ReplacedKeepsTemps DEF h
<1>8. CASE args # <<>>
  <2> DEFINE a == Deliver(h.n, h.bind)
             b == << holder, Sym("(") >>
             c == TempArguments(temps, bound)
  <2>1. bound \in Nat /\ Loads(u, h, L) /\ Behind(c, L)
    BY <1>1, <1>2, <1>3, <1>8, LeadingArguments
  <2>2. Behind(b, K)
    <3>1. "(" \in Word /\ "(" # "="
      BY DEF Word
    <3> QED BY <1>3, <3>1, TempAndWordRead
  <2>3. Reading(a, {})
    BY <1>5
  <2>4. open = a \o b \o c
    OBVIOUS
  <2>5. {} \cup K = K
    OBVIOUS
  <2>6. NeedsScratch(u) => \A k \in K : k < u.temps
    <3>1. u.temps = temps + bound
      BY DEF TermLoop
    <3> QED BY <1>2, <2>1, <3>1
  <2>7. K \cap L = {}
    BY <1>2, <2>1
  <2> HIDE DEF a, b, c, open, K, L
  <2>8. Reading(a \o b, K)
    BY <2>2, <2>3, <2>5, ReadingConcat
  <2>9. Reading(open, K \cup L)
    BY <2>1, <2>4, <2>8, ReadingConcat
  <2>10. Uses(Write(open), K \cup L)
    BY <2>9, UsingWrite
  <2> DEFINE w == Write(open)
  <2> HIDE DEF w, t, u, f, g, h
  <2>11. TwoLoads(h, t, u, w, K, L)
    BY <1>4, <2>1, <2>6, <2>7, <2>10 DEF TwoLoads, w
  <2>12. MayReplace(h, << t, u, w, f, g >>)
    BY <1>2, <1>6, <2>11, TwoLoadsArms, Zenon
  <2>13. Enter(<< t, u, w, f, g >>)
    <3>1. << t >> \o << u, w, f, g >> = << t, u, w, f, g >>
      BY OneAndFour, Zenon
    <3> QED BY <1>1, <1>8, <3>1 DEF w
  <2> QED BY <1>2, <2>12, <2>13, ReplacedKeepsTemps DEF h
<1> QED BY <1>7, <1>8

(* A call whose callee does not.                                           *)
LEMMA FreeCalleeKeepsTemps ==
  ASSUME Inv, TempsInv, TermCallFreeCallee PROVE TempsInv'
<1> DEFINE h      == Head(todo)
           callee == Kid(prog, h.n, 1)
           args   == Arguments(prog, h.n)
           bound  == LastBinds(args)
           K      == h.temps..(h.temps + bound - 1)
           t      == TermLoop(SubSeq(args, 1, bound), h.temps + bound, h.temps)
           f      == Write(<< h.bind, Sym("=") >>)
           g      == Free(callee)
           open   == Text(<<"(">>) \o TempArguments(h.temps, bound)
           w      == Write(open)
           d      == FreeLoop(SubSeq(args, bound + 1, Len(args)))
           e      == Write(Text(<<")">>))
           c      == Write(Text(<<"(", ")">>))
<1>1. /\ Doing("term") /\ prog[h.n].kind = "Call"
      /\ Enter(IF args = <<>> THEN << f, g, c >> ELSE << t, f, g, w, d, e >>)
  BY DEF TermCallFreeCallee, TermArm
<1>2. /\ todo # <<>> /\ WellFormed(prog)
      /\ Statement(h) /\ h.n \in Terms(prog) /\ h.temps \in Nat /\ h.bind \in Token
  BY <1>1, TermStarts
<1>3. Silent(f) /\ Silent(g) /\ Silent(d) /\ Silent(e) /\ Silent(c)
  BY <1>2, AssignmentRead, ConstantsRead, SilentTasks DEF Behind
<1>4. CASE args = <<>>
  <2> HIDE DEF f, g, c, t, w, d, e
  <2>1. AllSilent(<< f, g, c >>)
    BY <1>3, SilentTuples, Zenon
  <2> QED BY <1>1, <1>2, <1>4, <2>1, SilentKeepsTemps
<1>5. CASE args # <<>>
  <2>1. Loads(t, h, K) /\ Behind(TempArguments(h.temps, bound), K)
    BY <1>1, <1>2, <1>5, LeadingArguments
  <2>2. Behind(Text(<<"(">>), {})
    BY ConstantsRead
  <2>3. {} \cup K = K
    OBVIOUS
  <2>4. Reading(open, K)
    <3> DEFINE a == Text(<<"(">>)
               b == TempArguments(h.temps, bound)
    <3>1. open = a \o b /\ Reading(a, {}) /\ Behind(b, K)
      BY <2>1, <2>2 DEF Behind
    <3> HIDE DEF a, b, open, K
    <3> QED BY <2>3, <3>1, ReadingConcat
  <2>5. Uses(w, K)
    <3> HIDE DEF open, K
    <3> QED BY <2>4, UsingWrite
  <2> HIDE DEF h, f, g, c, t, w, d, e, K
  <2>6. OneLoad(h, t, w, K)
    BY <2>1, <2>5 DEF OneLoad
  <2>7. MayReplace(h, << t, f, g, w, d, e >>)
    BY <1>2, <1>3, <2>6, OneLoadArms, Zenon
  <2> QED BY <1>1, <1>2, <1>5, <2>7, ReplacedKeepsTemps DEF h
<1> QED BY <1>4, <1>5

(* A temporary that bind is assigned an expression of, with words around   *)
(* it.                                                                     *)
LEMMA AssignedRead ==
  ASSUME NEW bind \in Token, NEW a, Behind(a, {}), NEW b, NEW K, Behind(b, K),
         NEW c, Behind(c, {})
  PROVE  /\ Reading(<< bind, Sym("=") >> \o a \o b, K)
         /\ Reading(<< bind, Sym("=") >> \o a \o b \o c, K)
<1> DEFINE s == << bind, Sym("=") >>
<1>1. Reading(s, {})
  BY AssignmentRead
<1>2. {} \cup {} = {} /\ {} \cup K = K /\ K \cup {} = K
  OBVIOUS
<1> HIDE DEF s
<1>3. Reading(s \o a, {})
  BY <1>1, <1>2, ReadingConcat
<1>4. Reading(s \o a \o b, K)
  BY <1>2, <1>3, ReadingConcat
<1>5. Reading(s \o a \o b \o c, K)
  BY <1>2, <1>4, ReadingConcat
<1> QED BY <1>4, <1>5 DEF s

(* The operands of an operator: lhs in the temporary h.temps, and rhs in   *)
(* the temporary other if it binds.                                        *)
LEMMA OperationShape ==
  ASSUME NEW h, Statement(h), h.temps \in Nat, h.bind \in Token,
         prog[h.n].op \in BinaryOp,
         NEW other \in Nat, NEW fresh \in Nat,
         h.temps <= other, other <= fresh, h.temps + 1 <= fresh,
         binds[Kid(prog, h.n, 2)] => InfixWithBoundRhs \/ other # h.temps
  PROVE  \/ \E t, u, w : /\ Operation(h, other, fresh) = << t, u, w >>
                         /\ TwoLoads(h, t, u, w, {h.temps}, {other})
         \/ \E t, w, f, g : /\ Operation(h, other, fresh) = << t, w, f, g >>
                            /\ OneLoad(h, t, w, {h.temps}) /\ Silent(f) /\ Silent(g)
<1> DEFINE rhs  == Kid(prog, h.n, 2)
           op   == prog[h.n].op
           T    == h.temps
           K    == {T}
           L    == {other}
           t    == Term(Kid(prog, h.n, 1), T + 1, Temp(T))
           u    == Term(rhs, fresh, Temp(other))
           both == << h.bind, Sym("=") >> \o Opening(op)
                     \o << Temp(T), Sym(LuaOp(op)), Temp(other) >> \o Closing(op)
           left == << h.bind, Sym("=") >> \o Opening(op) \o << Temp(T), Sym(LuaOp(op)) >>
           f    == Free(rhs)
           g    == Write(Closing(op))
<1>1. Operation(h, other, fresh)
        = << t >> \o IF binds[rhs] THEN << u, Write(both) >> ELSE << Write(left), f, g >>
  BY DEF Operation
<1>2. Behind(Opening(op), {}) /\ Behind(Closing(op), {})
  BY OperatorsRead
<1>3. LuaOp(op) \in Word /\ LuaOp(op) # "="
  BY ZenonT(40) DEF LuaOp, BinaryOp, Word
<1>4. /\ Behind(<< Temp(T), Sym(LuaOp(op)) >>, K)
      /\ Behind(<< Temp(T), Sym(LuaOp(op)), Temp(other) >>, K \cup L)
  <2> DEFINE v == LuaOp(op)
  <2>1. v \in Word /\ v # "="
    BY <1>3
  <2> HIDE DEF v
  <2>2. Behind(<< Temp(T), Sym(v) >>, K) /\ Behind(<< Temp(T), Sym(v), Temp(other) >>, K \cup L)
    BY <2>1, TempAndWordRead
  <2> QED BY <2>2 DEF v
<1>5. Loads(t, h, K)
  <2>1. T + 1 \in Nat /\ T + 1 <= T + 1 /\ T <= T + 1
    OBVIOUS
  <2> QED BY <2>1, TermLoads
<1>6. Silent(f) /\ Silent(g)
  BY <1>2, SilentTasks DEF Behind
<1>7. CASE binds[rhs]
  <2>1. Loads(u, h, L)
    BY TermLoads
  <2>2. Reading(both, K \cup L)
    <3> HIDE DEF K, L
    <3> QED BY <1>2, <1>4, AssignedRead
  <2>3. Uses(Write(both), K \cup L)
    <3> HIDE DEF both, K, L
    <3> QED BY <2>2, UsingWrite
  <2>4. NeedsScratch(u) => \A k \in K : k < u.temps
    BY DEF Term
  <2>5. InfixWithBoundRhs \/ K \cap L = {}
    BY <1>7
  <2> DEFINE w == Write(both)
  <2> HIDE DEF t, u, w, K, L, f, g
  <2>6. TwoLoads(h, t, u, w, K, L)
    BY <1>5, <2>1, <2>3, <2>4, <2>5 DEF TwoLoads, w
  <2>7. Operation(h, other, fresh) = << t, u, w >>
    <3>1. << t >> \o << u, w >> = << t, u, w >>
      BY OneAndTwo, Zenon
    <3> QED BY <1>1, <1>7, <3>1 DEF w
  <2> QED BY <2>6, <2>7 DEF K, L
<1>8. CASE ~binds[rhs]
  <2>1. Reading(left, K)
    <3> HIDE DEF K
    <3> QED BY <1>2, <1>4, AssignedRead
  <2>2. Uses(Write(left), K)
    <3> HIDE DEF left, K
    <3> QED BY <2>1, UsingWrite
  <2> DEFINE w == Write(left)
  <2> HIDE DEF t, u, w, K, L, f, g
  <2>3. OneLoad(h, t, w, K)
    BY <1>5, <2>2 DEF OneLoad, w
  <2>4. Operation(h, other, fresh) = << t, w, f, g >>
    <3>1. << t >> \o << w, f, g >> = << t, w, f, g >>
      BY OneAndThree, Zenon
    <3> QED BY <1>1, <1>8, <3>1 DEF w
  <2> QED BY <1>6, <2>3, <2>4 DEF K
<1> QED BY <1>7, <1>8

(* The operators that take a temporary of their own for a rhs that binds.  *)
LEMMA ArithmeticKeepsTemps ==
  ASSUME Inv, TempsInv, TermArithmetic PROVE TempsInv'
<1> DEFINE h == Head(todo)
           calls == Operation(h, h.temps + 2, h.temps + 3)
<1>1. Doing("term") /\ prog[h.n].kind = "Binary" /\ Enter(calls)
  BY DEF TermArithmetic, TermArm
<1>2. /\ todo # <<>> /\ Statement(h) /\ h.temps \in Nat /\ h.bind \in Token
      /\ prog[h.n].op \in BinaryOp
  BY <1>1, TermStarts DEF PayloadOk
<1> HIDE DEF h
<1>3. \/ \E t, u, w : /\ calls = << t, u, w >>
                      /\ TwoLoads(h, t, u, w, {h.temps}, {h.temps + 2})
      \/ \E t, w, f, g : /\ calls = << t, w, f, g >>
                         /\ OneLoad(h, t, w, {h.temps}) /\ Silent(f) /\ Silent(g)
  <2> DEFINE other == h.temps + 2
             fresh == h.temps + 3
  <2>1. /\ other \in Nat /\ fresh \in Nat /\ h.temps <= other /\ other <= fresh
        /\ h.temps + 1 <= fresh /\ other # h.temps
    BY <1>2
  <2>2. calls = Operation(h, other, fresh)
    OBVIOUS
  <2> HIDE DEF other, fresh, calls
  <2>3. \/ \E t, u, w : /\ Operation(h, other, fresh) = << t, u, w >>
                        /\ TwoLoads(h, t, u, w, {h.temps}, {other})
        \/ \E t, w, f, g : /\ Operation(h, other, fresh) = << t, w, f, g >>
                           /\ OneLoad(h, t, w, {h.temps}) /\ Silent(f) /\ Silent(g)
    <3>1. /\ Statement(h) /\ h.temps \in Nat /\ h.bind \in Token
          /\ prog[h.n].op \in BinaryOp
      BY <1>2
    <3> QED BY ONLY <2>1, <3>1, OperationShape
  <2> QED BY <2>2, <2>3 DEF other
<1>4. MayReplace(h, calls)
  <2> HIDE DEF calls
  <2>1. \E f : Silent(f)
    BY SilentTasks
  <2>2. ASSUME NEW t, NEW u, NEW w, calls = << t, u, w >>,
               TwoLoads(h, t, u, w, {h.temps}, {h.temps + 2})
        PROVE  MayReplace(h, calls)
    BY <1>2, <2>1, <2>2, TwoLoadsArms, Zenon
  <2>3. ASSUME NEW t, NEW w, NEW f, NEW g, calls = << t, w, f, g >>,
               OneLoad(h, t, w, {h.temps}), Silent(f), Silent(g)
        PROVE  MayReplace(h, calls)
    BY <1>2, <2>3, OneLoadArms, Zenon
  <2> QED BY <1>3, <2>2, <2>3
<1> QED BY <1>1, <1>2, <1>4, ReplacedKeepsTemps DEF h

(* The operators of generate_infix share one temporary.                    *)
LEMMA InfixShape ==
  ASSUME WellFormed(prog), NEW h, Statement(h), h.temps \in Nat, h.bind \in Token,
         h.n \in Terms(prog), prog[h.n].kind = "Binary",
         prog[h.n].op \in BinaryOp, prog[h.n].op \notin Arithmetic
  PROVE  \/ \E t, u, w : /\ Infix(h) = << t, u, w >>
                         /\ TwoLoads(h, t, u, w, {h.temps}, {h.temps})
         \/ \E t, w, f, g : /\ Infix(h) = << t, w, f, g >>
                            /\ OneLoad(h, t, w, {h.temps}) /\ Silent(f) /\ Silent(g)
<1>1. binds[Kid(prog, h.n, 2)] => InfixWithBoundRhs
  BY DEF InfixWithBoundRhs
<1> DEFINE other == h.temps
           fresh == h.temps + 1
<1>2. /\ other \in Nat /\ fresh \in Nat /\ h.temps <= other /\ other <= fresh
      /\ h.temps + 1 <= fresh
  OBVIOUS
<1>3. Infix(h) = Operation(h, other, fresh)
  BY DEF Infix
<1> HIDE DEF other, fresh
<1>4. \/ \E t, u, w : /\ Operation(h, other, fresh) = << t, u, w >>
                      /\ TwoLoads(h, t, u, w, {h.temps}, {other})
      \/ \E t, w, f, g : /\ Operation(h, other, fresh) = << t, w, f, g >>
                         /\ OneLoad(h, t, w, {h.temps}) /\ Silent(f) /\ Silent(g)
  BY <1>1, <1>2, OperationShape
<1> QED BY <1>3, <1>4 DEF other

(* A comparison.                                                           *)
LEMMA InfixKeepsTemps ==
  ASSUME Inv, TempsInv, TermInfix PROVE TempsInv'
<1> DEFINE h == Head(todo)
           calls == Infix(h)
<1>1. /\ Doing("term") /\ prog[h.n].kind = "Binary" /\ Enter(calls)
      /\ prog[h.n].op \notin Arithmetic
  BY DEF TermInfix, TermArm
<1>2. /\ todo # <<>> /\ Statement(h) /\ h.temps \in Nat /\ h.bind \in Token
      /\ WellFormed(prog) /\ h.n \in Terms(prog) /\ prog[h.n].op \in BinaryOp
  BY <1>1, TermStarts DEF PayloadOk
<1> HIDE DEF h
<1>3. \/ \E t, u, w : /\ calls = << t, u, w >>
                      /\ TwoLoads(h, t, u, w, {h.temps}, {h.temps})
      \/ \E t, w, f, g : /\ calls = << t, w, f, g >>
                         /\ OneLoad(h, t, w, {h.temps}) /\ Silent(f) /\ Silent(g)
  BY <1>1, <1>2, InfixShape
<1>4. MayReplace(h, calls)
  <2> HIDE DEF calls
  <2>1. \E f : Silent(f)
    BY SilentTasks
  <2>2. ASSUME NEW t, NEW u, NEW w, calls = << t, u, w >>,
               TwoLoads(h, t, u, w, {h.temps}, {h.temps})
        PROVE  MayReplace(h, calls)
    BY <1>2, <2>1, <2>2, TwoLoadsArms, Zenon
  <2>3. ASSUME NEW t, NEW w, NEW f, NEW g, calls = << t, w, f, g >>,
               OneLoad(h, t, w, {h.temps}), Silent(f), Silent(g)
        PROVE  MayReplace(h, calls)
    BY <1>2, <2>3, OneLoadArms, Zenon
  <2> QED BY <1>3, <2>2, <2>3
<1> QED BY <1>1, <1>2, <1>4, ReplacedKeepsTemps DEF h

(* And and Or, with texts around the statements of generate_infix.         *)
LEMMA LogicKeepsTemps ==
  ASSUME Inv, TempsInv, TermLogic PROVE TempsInv'
<1> DEFINE h == Head(todo)
           d == Write(Text(<<"not", "not", "(">>))
           e == Write(Text(<<")">>))
           calls == << d >> \o Infix(h) \o << e >>
<1>1. /\ Doing("term") /\ prog[h.n].kind = "Binary" /\ Enter(calls)
      /\ prog[h.n].op \in {"And", "Or"}
  BY DEF TermLogic, TermArm
<1>2. /\ todo # <<>> /\ Statement(h) /\ h.temps \in Nat /\ h.bind \in Token
      /\ WellFormed(prog) /\ h.n \in Terms(prog) /\ prog[h.n].op \in BinaryOp
      /\ prog[h.n].op \notin Arithmetic
  BY <1>1, TermStarts DEF PayloadOk, Arithmetic
<1>3. Silent(d) /\ Silent(e)
  BY ConstantsRead, SilentTasks DEF Behind
<1> HIDE DEF h
<1>4. \/ \E t, u, w : /\ Infix(h) = << t, u, w >>
                      /\ TwoLoads(h, t, u, w, {h.temps}, {h.temps})
      \/ \E t, w, f, g : /\ Infix(h) = << t, w, f, g >>
                         /\ OneLoad(h, t, w, {h.temps}) /\ Silent(f) /\ Silent(g)
  BY <1>1, <1>2, InfixShape
<1>5. MayReplace(h, calls)
  <2> DEFINE K == {h.temps}
  <2> HIDE DEF d, e, K
  <2>1. ASSUME NEW t, NEW u, NEW w, Infix(h) = << t, u, w >>,
               TwoLoads(h, t, u, w, K, K)
        PROVE  MayReplace(h, calls)
    <3>1. MayReplace(h, << d, t, u, w, e >>)
      BY <1>2, <1>3, <2>1, TwoLoadsArms, Zenon
    <3>2. << d >> \o << t, u, w >> = << d, t, u, w >>
      BY OneAndThree, Zenon
    <3>3. << d, t, u, w >> \o << e >> = << d, t, u, w, e >>
      BY FourAndOne, Zenon
    <3> QED BY <2>1, <3>1, <3>2, <3>3, Zenon
  <2>2. ASSUME NEW t, NEW w, NEW f, NEW g, Infix(h) = << t, w, f, g >>,
               OneLoad(h, t, w, K), Silent(f), Silent(g)
        PROVE  MayReplace(h, calls)
    <3>1. MayReplace(h, << d, t, w, f, g, e >>)
      BY <1>2, <1>3, <2>2, OneLoadArms, Zenon
    <3>2. << d >> \o << t, w, f, g >> = << d, t, w, f, g >>
      BY OneAndFour, Zenon
    <3>3. << d, t, w, f, g >> \o << e >> = << d, t, w, f, g, e >>
      BY FiveAndOne, Zenon
    <3> QED BY <2>2, <3>1, <3>2, <3>3, Zenon
  <2> QED BY <1>4, <2>1, <2>2, Zenon DEF K
<1> QED BY <1>1, <1>2, <1>5, ReplacedKeepsTemps DEF h

(* The text that opens what is assigned to bind.                           *)
LEMMA BindingRead ==
  ASSUME NEW bind \in Token, NEW words \in Seq(Word), words # <<>>, words[1] = "="
  PROVE  Reading(<< bind >> \o Text(words), {})
<1> DEFINE r == << bind >> \o Text(words)
<1>1. /\ Text(words) \in Seq(Token) /\ << bind >> \in Seq(Token)
      /\ Len(Text(words)) = Len(words)
      /\ \A x \in 1..Len(words) : Text(words)[x] = Sym(words[x])
  BY TextType DEF Text
<1>2. Len(words) \in Nat /\ Len(words) >= 1
  OBVIOUS
<1>3. /\ r \in Seq(Token) /\ Len(r) = 1 + Len(words) /\ DOMAIN r = 1..Len(r)
      /\ \A x \in 1..Len(words) : r[x + 1] = Sym(words[x])
  <2> DEFINE s == << bind >>
             t == Text(words)
  <2>1. s \in Seq(Token) /\ t \in Seq(Token) /\ Len(s) = 1
    BY <1>1
  <2> HIDE DEF s, t
  <2>4. s \in Seq(Token) /\ t \in Seq(Token)
    BY <2>1
  <2>2. /\ s \o t \in Seq(Token) /\ Len(s \o t) = Len(s) + Len(t)
        /\ DOMAIN (s \o t) = 1..Len(s \o t)
        /\ \A x \in 1..Len(t) : (s \o t)[x + Len(s)] = t[x]
    BY ONLY <2>4
  <2>3. \A x \in 1..Len(t) : (s \o t)[x + 1] = t[x]
    BY <2>1, <2>2
  <2> QED BY <1>1, <2>2, <2>3 DEF s, t
<1> HIDE DEF r
<1>4. ASSUME NEW y \in DOMAIN r, ReadAt(r, y) PROVE FALSE
  <2>1. CASE y = 1
    <3>1. r[1 + 1] = Sym("=") /\ 1 < Len(r)
      BY <1>2, <1>3
    <3> QED BY <1>4, <2>1, <3>1 DEF ReadAt
  <2>2. CASE y # 1
    <3>1. y - 1 \in 1..Len(words) /\ (y - 1) + 1 = y
      BY <1>2, <1>3, <2>2
    <3>2. r[y] = Sym(words[y - 1])
      BY <1>3, <3>1
    <3>3. ~IsTemp(Sym(words[y - 1]))
      BY ONLY TokensRead
    <3>4. ~IsTemp(r[y])
      BY ONLY <3>2, <3>3
    <3> QED BY <1>4, <3>4 DEF ReadAt
  <2> QED BY <2>1, <2>2
<1>5. TempsRead(r) = {}
  BY <1>4 DEF TempsRead, ReadAt
<1> QED BY <1>3, <1>5 DEF Reading, r

(* A deep function literal.                                                *)
LEMMA FunctionKeepsTemps ==
  ASSUME Inv, TempsInv, TermFunction PROVE TempsInv'
<1> DEFINE h == Head(todo)
           ps == prog[h.n].parameters
           words == <<"=", "function", "(">>
           a == << h.bind >> \o Text(words)
           b == PlainParameters(ps)
           c == Text(<<")">>)
<1>1. /\ Doing("term") /\ prog[h.n].kind = "Function"
      /\ Enter(<< Write(a \o b \o c), Term(Kid(prog, h.n, 1), 1, Temp(0)), FunctionEnd >>)
  BY DEF TermFunction, TermArm
<1>2. todo # <<>> /\ h.bind \in Token /\ ps \in Seq(STRING)
  BY <1>1, TermStarts DEF PayloadOk
<1>3. Reading(a, {})
  <2>1. words \in Seq(Word) /\ words # <<>> /\ words[1] = "="
    BY DEF Word
  <2> HIDE DEF words
  <2> QED BY <1>2, <2>1, BindingRead
<1>4. Behind(b, {}) /\ Behind(c, {})
  BY <1>2, ParametersRead, ConstantsRead
<1>5. {} \cup {} = {}
  OBVIOUS
<1> HIDE DEF a, b, c
<1>6. Reading(a \o b, {})
  BY <1>3, <1>4, <1>5, ReadingConcat
<1>7. Reading(a \o b \o c, {})
  BY <1>4, <1>5, <1>6, ReadingConcat
<1> QED BY <1>1, <1>2, <1>7, LiteralKeepsTemps

(* print: its argument goes through the first temporary.                   *)
LEMMA PrintKeepsTemps ==
  ASSUME Inv, TempsInv, TermPrint PROVE TempsInv'
<1> DEFINE h == Head(todo)
           T == h.temps
           K == {T}
           a == Text(<<"__print", "(">>)
           b == << Temp(T) >>
           c == Text(<<")">>)
           t == Term(Kid(prog, h.n, 1), T + 1, Temp(T))
           w == Write(a \o b \o c)
<1>1. Doing("term") /\ Enter(<< t, w >>)
  BY DEF TermPrint, TermArm
<1>2. todo # <<>> /\ Statement(h) /\ T \in Nat
  BY <1>1, TermStarts
<1>3. Loads(t, h, K)
  <2>1. T + 1 \in Nat /\ T + 1 <= T + 1 /\ T <= T + 1
    BY <1>2
  <2> QED BY <1>2, <2>1, TermLoads
<1>4. Reading(a, {}) /\ Behind(b, K) /\ Behind(c, {})
  BY <1>2, ConstantsRead, TokenRead DEF Behind
<1>5. {} \cup K = K /\ K \cup {} = K
  OBVIOUS
<1>6. Silent(Write(c))
  BY <1>4, SilentTasks DEF Behind
<1> DEFINE f == Write(c)
<1> HIDE DEF a, b, c, K, h
<1>7. Reading(a \o b, K)
  BY <1>4, <1>5, ReadingConcat
<1>8. Reading(a \o b \o c, K)
  BY <1>4, <1>5, <1>7, ReadingConcat
<1>9. Uses(w, K)
  BY <1>8, UsingWrite
<1> HIDE DEF t, w, f
<1>10. OneLoad(h, t, w, K)
  BY <1>3, <1>9 DEF OneLoad
<1>11. Silent(f)
  BY <1>6 DEF f
<1>12. MayReplace(h, << t, w >>)
  BY <1>2, <1>10, <1>11, OneLoadArms, Zenon
<1> QED BY <1>1, <1>2, <1>12, ReplacedKeepsTemps DEF h

(* first and second.                                                       *)
LEMMA ProjectionKeepsTemps ==
  ASSUME Inv, TempsInv, TermProjection PROVE TempsInv'
<1> DEFINE h == Head(todo)
           T == h.temps
           K == {T}
           sel == Selector(prog[h.n].kind)
           a == << h.bind, Sym("=") >>
           b == << Temp(T), Sym(sel) >>
           t == Term(Kid(prog, h.n, 1), T + 1, Temp(T))
           w == Write(<< h.bind, Sym("="), Temp(T), Sym(sel) >>)
<1>1. Doing("term") /\ Enter(<< t, w >>)
  BY DEF TermProjection, TermArm
<1>2. todo # <<>> /\ Statement(h) /\ T \in Nat /\ h.bind \in Token
  BY <1>1, TermStarts
<1>3. Loads(t, h, K)
  <2>1. T + 1 \in Nat /\ T + 1 <= T + 1 /\ T <= T + 1
    BY <1>2
  <2> QED BY <1>2, <2>1, TermLoads
<1>4. Reading(a, {})
  BY <1>2, AssignmentRead
<1>5. Behind(b, K)
  <2>1. sel \in Word /\ sel # "="
    BY DEF Selector, Word
  <2> HIDE DEF sel
  <2> QED BY <1>2, <2>1, TempAndWordRead
<1>6. {} \cup K = K
  OBVIOUS
<1>7. a \o b = << h.bind, Sym("="), Temp(T), Sym(sel) >>
  <2> DEFINE p == h.bind
             q == Sym("=")
             r == Temp(T)
             s == Sym(sel)
  <2> HIDE DEF p, q, r, s
  <2>1. << p, q >> \o << r, s >> = << p, q, r, s >>
    BY TwoAndTwo, Zenon
  <2> QED BY <2>1, Zenon DEF p, q, r, s
<1>8. Silent(Free(0))
  BY SilentTasks
<1> DEFINE f == Free(0)
<1>9. w = Write(a \o b)
  BY <1>7, Zenon
<1> HIDE DEF a, b, K, h
<1>10. Reading(a \o b, K)
  BY <1>4, <1>5, <1>6, ReadingConcat
<1>11. Uses(w, K)
  BY <1>9, <1>10, UsingWrite
<1> HIDE DEF t, w, f
<1>12. OneLoad(h, t, w, K) /\ Silent(f)
  BY <1>3, <1>8, <1>11 DEF OneLoad, f
<1>13. MayReplace(h, << t, w >>)
  BY <1>2, <1>12, OneLoadArms, Zenon
<1> QED BY <1>1, <1>2, <1>13, ReplacedKeepsTemps DEF h

(* A tuple: the components in two temporaries, or the second in place.     *)
LEMMA TupleKeepsTemps ==
  ASSUME Inv, TempsInv, TermTuple PROVE TempsInv'
<1> DEFINE h == Head(todo)
           T == h.temps
           K == {T}
           L == {T + 1}
           second == Kid(prog, h.n, 2)
           t == Term(Kid(prog, h.n, 1), T + 1, Temp(T))
           u == Term(second, T + 2, Temp(T + 1))
           f == Free(second)
           g == Write(Text(<<"}">>))
           both == << h.bind >> \o Text(<<"=", "(", "{">>)
                     \o << Temp(T), Sym(","), Temp(T + 1) >> \o Text(<<"}", ")">>)
           left == << h.bind >> \o Text(<<"=", "{">>) \o << Temp(T), Sym(",") >>
<1>1. /\ Doing("term")
      /\ Enter(<< t >> \o IF ~InPlace(second) THEN << u, Write(both) >>
                          ELSE << Write(left), f, g >>)
  BY DEF TermTuple, TermArm
<1>2. todo # <<>> /\ Statement(h) /\ T \in Nat /\ h.bind \in Token
  BY <1>1, TermStarts
<1>3. Loads(t, h, K)
  <2>1. T + 1 \in Nat /\ T + 1 <= T + 1 /\ T <= T + 1
    BY <1>2
  <2> QED BY <1>2, <2>1, TermLoads
<1>4. Silent(f) /\ Silent(g)
  BY ConstantsRead, SilentTasks DEF Behind
<1>5. /\ Behind(<< Temp(T), Sym(",") >>, K)
      /\ Behind(<< Temp(T), Sym(","), Temp(T + 1) >>, K \cup L)
  <2> DEFINE j == T + 1
  <2>1. "," \in Word /\ "," # "=" /\ j \in Nat
    BY <1>2 DEF Word
  <2> HIDE DEF j
  <2>2. /\ Behind(<< Temp(T), Sym(",") >>, K)
        /\ Behind(<< Temp(T), Sym(","), Temp(j) >>, K \cup {j})
    BY <1>2, <2>1, TempAndWordRead
  <2> QED BY <2>2 DEF j
<1>6. CASE ~InPlace(second)
  <2> DEFINE words == <<"=", "(", "{">>
             a == << h.bind >> \o Text(words)
             b == << Temp(T), Sym(","), Temp(T + 1) >>
             c == Text(<<"}", ")">>)
  <2>1. Reading(a, {})
    <3>1. words \in Seq(Word) /\ words # <<>> /\ words[1] = "="
      BY DEF Word
    <3> HIDE DEF words
    <3> QED BY <1>2, <3>1, BindingRead
  <2>2. Behind(b, K \cup L) /\ Behind(c, {})
    BY <1>5, ConstantsRead
  <2>3. both = a \o b \o c
    OBVIOUS
  <2>4. {} \cup (K \cup L) = K \cup L /\ (K \cup L) \cup {} = K \cup L
    OBVIOUS
  <2>5. Loads(u, h, L)
    <3>1. T + 2 \in Nat /\ T + 1 \in Nat /\ T + 1 <= T + 2
      BY <1>2
    <3> QED BY <1>2, <3>1, TermLoads
  <2>6. (NeedsScratch(u) => \A k \in K : k < u.temps) /\ K \cap L = {}
    BY <1>2 DEF Term
  <2> HIDE DEF a, b, c, K, L, both
  <2>7. Reading(a \o b, K \cup L)
    BY <2>1, <2>2, <2>4, ReadingConcat
  <2>8. Reading(both, K \cup L)
    BY <2>2, <2>3, <2>4, <2>7, ReadingConcat
  <2> DEFINE w == Write(both)
  <2>9. Uses(w, K \cup L)
    BY <2>8, UsingWrite
  <2> HIDE DEF t, u, w, f, g, h
  <2>10. TwoLoads(h, t, u, w, K, L)
    BY <1>3, <2>5, <2>6, <2>9 DEF TwoLoads
  <2>11. MayReplace(h, << t, u, w >>)
    BY <1>2, <1>4, <2>10, TwoLoadsArms, Zenon
  <2>12. Enter(<< t, u, w >>)
    <3>1. << t >> \o << u, w >> = << t, u, w >>
      BY OneAndTwo, Zenon
    <3> QED BY <1>1, <1>6, <3>1 DEF w
  <2> QED BY <1>2, <2>11, <2>12, ReplacedKeepsTemps DEF h
<1>7. CASE InPlace(second)
  <2> DEFINE words == <<"=", "{">>
             a == << h.bind >> \o Text(words)
             b == << Temp(T), Sym(",") >>
  <2>1. Reading(a, {})
    <3>1. words \in Seq(Word) /\ words # <<>> /\ words[1] = "="
      BY DEF Word
    <3> HIDE DEF words
    <3> QED BY <1>2, <3>1, BindingRead
  <2>2. Behind(b, K)
    BY <1>5
  <2>3. left = a \o b
    OBVIOUS
  <2>4. {} \cup K = K
    OBVIOUS
  <2> HIDE DEF a, b, K, left
  <2>5. Reading(left, K)
    BY <2>1, <2>2, <2>3, <2>4, ReadingConcat
  <2> DEFINE w == Write(left)
  <2>6. Uses(w, K)
    BY <2>5, UsingWrite
  <2> HIDE DEF t, w, f, g, h
  <2>7. OneLoad(h, t, w, K)
    BY <1>3, <2>6 DEF OneLoad
  <2>8. MayReplace(h, << t, w, f, g >>)
    BY <1>2, <1>4, <2>7, OneLoadArms, Zenon
  <2>9. Enter(<< t, w, f, g >>)
    <3>1. << t >> \o << w, f, g >> = << t, w, f, g >>
      BY OneAndThree, Zenon
    <3> QED BY <1>1, <1>7, <3>1 DEF w
  <2> QED BY <1>2, <2>8, <2>9, ReplacedKeepsTemps DEF h
<1> QED BY <1>6, <1>7

(* A Let: its value goes to a variable, and its body leaves the result.    *)
LEMMA LetKeepsTemps ==
  ASSUME Inv, TempsInv, TermLet PROVE TempsInv'
<1> DEFINE h == Head(todo)
           T == h.temps
           name == VarName(prog[h.n].name)
           text == IF prog[h.n].name = "_" THEN <<>> ELSE << Sym("local"), name >>
           a == Write(text)
           t == Term(Kid(prog, h.n, 1), T + 1, name)
           u == Term(Kid(prog, h.n, 2), T + 1, h.bind)
           calls == << a, t, u >>
<1>1. Doing("term") /\ prog[h.n].kind = "Let" /\ Enter(calls)
  BY DEF TermLet, TermArm
<1>2. /\ todo # <<>> /\ Statement(h) /\ T \in Nat /\ h.bind \in Token
      /\ prog[h.n].name \in Name
  BY <1>1, TermStarts DEF PayloadOk, Name
<1>3. Silent(a)
  <2>1. name \in Token /\ Sym("local") \in Token
    <3>1. "local" \in Word
      BY DEF Word
    <3> QED BY <1>2, <3>1, VarNameType, SymType
  <2>2. ~IsTemp(name) /\ ~IsTemp(Sym("local"))
    BY TokensRead
  <2>3. text \in Seq(Token) /\ \A x \in DOMAIN text : ~IsTemp(text[x])
    <3> DEFINE p == Sym("local")
    <3>1. p \in Token /\ ~IsTemp(p) /\ name \in Token /\ ~IsTemp(name)
      BY <2>1, <2>2
    <3>2. text = <<>> \/ text = << p, name >>
      OBVIOUS
    <3> DEFINE q == << p, name >>
    <3>3. /\ q \in Seq({p, name}) /\ Len(q) = 2
          /\ \A x \in DOMAIN q : q[x] \in {p, name}
      OBVIOUS
    <3>4. text = <<>> \/ text = q
      BY <3>2
    <3>5. q \in Seq(Token)
      BY <3>1
    <3> HIDE DEF p, name, text, q
    <3>6. \A x \in DOMAIN q : ~IsTemp(q[x])
      BY <3>1, <3>3
    <3>7. CASE text = <<>>
      BY <3>7
    <3> QED BY <3>4, <3>5, <3>6, <3>7
  <2>4. Reading(text, {})
    <3> HIDE DEF text
    <3> QED BY <2>3, NothingRead
  <2> QED BY <2>4, SilentTasks
<1>4. /\ t.do = "term" /\ t.temps = T + 1 /\ t.bind = name
      /\ u.do = "term" /\ u.temps = T + 1 /\ u.bind = h.bind
  BY DEF Term
<1>5. h.do = "term" /\ Bounded(h)
  BY <1>2 DEF Statement
<1>6. \A k \in Assigns(h) : k \in Nat /\ k <= T
  BY <1>2, <1>5 DEF Bounded, Statement
<1>7. ~IsTemp(name)
  BY TokensRead
<1>8. calls \in Seq({a, t, u}) /\ Len(calls) = 3 /\ DOMAIN calls = 1..3
      /\ calls[1] = a /\ calls[2] = t /\ calls[3] = u
  OBVIOUS
<1>9. \A i \in 1..3 : i = 1 \/ i = 2 \/ i = 3
  OBVIOUS
<1>10. Enter(calls)
  BY <1>1
<1> HIDE DEF a, t, u, h, calls, name
<1>11. Assigns(t) = {} /\ Reads(t) = {} /\ Assigns(u) = Assigns(h) /\ Reads(u) = {}
  BY <1>4, <1>5, <1>7 DEF Assigns, Reads
<1>12. Bounded(t) /\ Bounded(u)
  BY <1>2, <1>4, <1>6, <1>11 DEF Bounded
<1>13. /\ Assigns(a) = {} /\ Reads(a) = {} /\ Bounded(a) /\ ~NeedsScratch(a)
  BY <1>3 DEF Silent
<1>14. \A i \in 1..Len(calls) : Reads(calls[i]) = {}
  BY <1>8, <1>9, <1>11, <1>13
<1>15. Held(calls)
  BY <1>8, <1>14 DEF Held
<1>16. ASSUME NEW i \in 1..Len(calls) PROVE Bounded(calls[i]) /\ ScratchOf(h, calls, i)
  <2>1. Bounded(calls[i])
    BY <1>8, <1>9, <1>12, <1>13
  <2>2. NeedsScratch(calls[i]) => calls[i].temps = T + 1
    BY <1>4, <1>8, <1>9, <1>13
  <2>3. NeedsScratch(h) /\ T <= T + 1 /\ \A k \in Assigns(h) : k < T + 1
    BY <1>2, <1>5, <1>6 DEF NeedsScratch
  <2> QED BY <2>1, <2>2, <2>3 DEF ScratchOf
<1>17. Kept(calls)
  <2> SUFFICES ASSUME NEW i \in 1..3, NEW j \in 1..3, i < j,
                      NEW k \in Assigns(calls[i]) \cap Assigns(calls[j])
               PROVE  FALSE
    BY <1>8 DEF Kept, Together
  <2>1. i = 3 /\ j = 3
    BY <1>8, <1>9, <1>11, <1>13
  <2> QED BY <2>1
<1>18. \A i \in 1..Len(calls) : ResultsOf(h, calls, i)
  BY <1>8, <1>9, <1>11, <1>13 DEF ResultsOf
<1>19. TempsCalls(h, calls)
  BY <1>15, <1>16, <1>17, <1>18 DEF TempsCalls
<1>20. IsSeq(calls)
  BY <1>8, SeqIsSeq
<1> QED BY <1>2, <1>10, <1>19, <1>20, EnterKeepsTemps DEF h

(* A branch leaves its result where the task h does.                       *)
Branch(t, h) ==
  t.do = "term" /\ t.bind = h.bind /\ t.temps \in Nat /\ h.temps <= t.temps

(* The condition is loaded by call a and read by call w; the branches are  *)
(* the calls x and x + 2.                                                  *)
BranchesAt(h, calls, a, w, x, K) ==
  /\ Len(calls) \in Nat /\ DOMAIN calls = 1..Len(calls)
  /\ a \in 1..Len(calls) /\ w \in 1..Len(calls) /\ x \in 1..Len(calls)
  /\ a < w /\ w < x /\ x + 1 \in 1..Len(calls) /\ x + 2 \in 1..Len(calls)
  /\ \A i \in 1..Len(calls) : i = a \/ i = w \/ i = x \/ i = x + 2 \/ Silent(calls[i])
  /\ Loads(calls[a], h, K) /\ Uses(calls[w], K)
  /\ Branch(calls[x], h) /\ calls[x + 1] = Else /\ Branch(calls[x + 2], h)

(* Such calls may replace the call of a term.                              *)
LEMMA BranchesReplace ==
  ASSUME NEW h, Statement(h), NEW calls, NEW a, NEW w, NEW x, NEW K,
         BranchesAt(h, calls, a, w, x, K)
  PROVE  TempsCalls(h, calls)
<1> USE DEF BranchesAt
<1>1. /\ Assigns(calls[a]) = K /\ Reads(calls[a]) = {} /\ Bounded(calls[a])
      /\ Assigns(calls[w]) = {} /\ Reads(calls[w]) = K
      /\ Bounded(calls[w]) /\ ~NeedsScratch(calls[w])
      /\ NeedsScratch(calls[a]) => h.temps + 1 <= calls[a].temps
  BY DEF Loads, Uses
<1>2. h.do = "term" /\ h.temps \in Nat /\ NeedsScratch(h)
      /\ \A k \in Assigns(h) : k \in Nat /\ k <= h.temps
  BY DEF NeedsScratch, Bounded, Statement
<1>3. ASSUME NEW t, Branch(t, h)
      PROVE  /\ Assigns(t) = Assigns(h) /\ Reads(t) = {} /\ Bounded(t)
             /\ NeedsScratch(t) /\ t.temps \in Nat /\ h.temps <= t.temps
  <2>1. t.do = "term" /\ t.bind = h.bind /\ t.temps \in Nat /\ h.temps <= t.temps
    BY <1>3 DEF Branch
  <2>2. Assigns(t) = Assigns(h) /\ Reads(t) = {} /\ NeedsScratch(t)
    BY <1>2, <2>1 DEF Assigns, Reads, NeedsScratch
  <2>3. \A k \in Assigns(t) : k <= t.temps
    BY <1>2, <2>1, <2>2
  <2> QED BY <2>1, <2>2, <2>3 DEF Bounded
<1>4. \A i \in 1..Len(calls) : i = a \/ i = w \/ i = x \/ i = x + 2 \/
        /\ Bounded(calls[i]) /\ ~NeedsScratch(calls[i])
        /\ Assigns(calls[i]) = {} /\ Reads(calls[i]) = {}
  BY DEF Silent
<1>5. \A i \in {x, x + 2} :
        /\ i \in 1..Len(calls)
        /\ Assigns(calls[i]) = Assigns(h) /\ Reads(calls[i]) = {} /\ Bounded(calls[i])
        /\ calls[i].temps \in Nat /\ h.temps <= calls[i].temps
  BY <1>3
<1>6. Bounded(calls[a]) /\ NeedsScratch(calls[a]) => calls[a].temps \in Nat
  BY DEF Bounded, NeedsScratch
<1>7. ASSUME NEW i \in 1..Len(calls)
      PROVE  Bounded(calls[i]) /\ ScratchOf(h, calls, i)
  <2>1. CASE i = a
    <3>1. NeedsScratch(calls[i]) =>
            h.temps <= calls[i].temps /\ \A k \in Assigns(h) : k < calls[i].temps
      BY <1>1, <1>2, <1>6, <2>1
    <3> QED BY <1>1, <1>2, <2>1, <3>1 DEF ScratchOf
  <2>2. CASE i = x \/ i = x + 2
    <3>1. i \in i..Len(calls) /\ Assigns(calls[i]) = Assigns(h) /\ Bounded(calls[i])
          /\ h.temps <= calls[i].temps
      BY <1>5, <2>2
    <3> QED BY <1>2, <3>1 DEF ScratchOf
  <2>3. CASE i # a /\ i # x /\ i # x + 2
    BY <1>1, <1>4, <2>3 DEF ScratchOf
  <2> QED BY <2>1, <2>2, <2>3
<1>8. Held(calls)
  <2> SUFFICES ASSUME NEW i \in 1..Len(calls), NEW j \in 1..Len(calls), i < j,
                      NeedsScratch(calls[i]), NEW k \in Reads(calls[j])
               PROVE  \E m \in i..(j-1) : k \in Assigns(calls[m])
    BY DEF Held, Together
  <2>1. j = w /\ k \in K
    BY <1>1, <1>4, <1>5
  <2>2. i = a /\ a \in i..(j-1)
    BY <1>1, <1>4, <2>1
  <2> QED BY <1>1, <2>1, <2>2
<1>9. Kept(calls)
  <2> SUFFICES ASSUME NEW i \in 1..Len(calls), NEW j \in 1..Len(calls), i < j,
                      NEW k \in Assigns(calls[i]) \cap Assigns(calls[j])
               PROVE  \E m \in (i+1)..(j-1) : calls[m] = Else \/ k \in Reads(calls[m])
    BY DEF Kept, Together
  <2>1. (i = a \/ i = x \/ i = x + 2) /\ (j = a \/ j = x \/ j = x + 2)
    BY <1>1, <1>4
  <2>2. CASE i = a
    <3>1. w \in (i+1)..(j-1) /\ k \in Reads(calls[w])
      BY <1>1, <2>1, <2>2
    <3> QED BY <3>1
  <2>3. CASE i # a
    <3>1. x + 1 \in (i+1)..(j-1)
      BY <2>1, <2>3
    <3> QED BY <3>1
  <2> QED BY <2>2, <2>3
<1>10. ASSUME NEW i \in 1..Len(calls) PROVE ResultsOf(h, calls, i)
  <2> SUFFICES ASSUME NEW k \in Assigns(calls[i])
               PROVE  k \in Assigns(h) \/ \E m \in (i+1)..Len(calls) : k \in Reads(calls[m])
    BY DEF ResultsOf
  <2>1. i = a \/ i = x \/ i = x + 2
    BY <1>1, <1>4
  <2>2. CASE i = a
    <3>1. w \in (i+1)..Len(calls) /\ k \in Reads(calls[w])
      BY <1>1, <2>2
    <3> QED BY <3>1
  <2>3. CASE i # a
    BY <1>5, <2>1, <2>3
  <2> QED BY <2>2, <2>3
<1> QED BY <1>7, <1>8, <1>9, <1>10 DEF TempsCalls

(* An If whose condition binds, and one whose condition is an expression.  *)
LEMMA BranchArms ==
  ASSUME NEW h, Statement(h), NEW u, NEW v, Branch(u, h), Branch(v, h),
         NEW e, Silent(e)
  PROVE  /\ \A t, w, K : OneLoad(h, t, w, K) => MayReplace(h, << t, w, u, Else, v, e >>)
         /\ \A f, g, d : Silent(f) /\ Silent(g) /\ Silent(d)
                           => MayReplace(h, << f, g, d, u, Else, v, e >>)
<1>1. ASSUME NEW t, NEW w, NEW K, OneLoad(h, t, w, K)
      PROVE  MayReplace(h, << t, w, u, Else, v, e >>)
  <2> DEFINE o == Else
             calls == << t, w, u, o, v, e >>
  <2>1. /\ Len(calls) = 6 /\ DOMAIN calls = 1..6
        /\ calls[1] = t /\ calls[2] = w /\ calls[3] = u
        /\ calls[4] = o /\ calls[5] = v /\ calls[6] = e
    OBVIOUS
  <2>2. \A i \in 1..6 : i = 1 \/ i = 2 \/ i = 3 \/ i = 4 \/ i = 5 \/ i = 6
    OBVIOUS
  <2>3. calls \in Seq({t, w, u, o, v, e})
    OBVIOUS
  <2>4. Silent(o)
    BY ConstantsRead, SilentTasks DEF Behind, Else
  <2>5. calls = << t, w, u, Else, v, e >> /\ o = Else
    OBVIOUS
  <2> HIDE DEF calls, o
  <2>6. BranchesAt(h, calls, 1, 2, 3, K)
    BY <1>1, <2>1, <2>2, <2>4, <2>5 DEF BranchesAt, OneLoad
  <2>7. TempsCalls(h, calls)
    BY <2>6, BranchesReplace, Zenon
  <2>8. MayReplace(h, calls)
    BY <2>3, <2>7, SeqIsSeq DEF MayReplace
  <2> QED BY <2>5, <2>8
<1>2. ASSUME NEW f, NEW g, NEW d, Silent(f), Silent(g), Silent(d)
      PROVE  MayReplace(h, << f, g, d, u, Else, v, e >>)
  <2> DEFINE o == Else
             calls == << f, g, d, u, o, v, e >>
  <2>1. /\ Len(calls) = 7 /\ DOMAIN calls = 1..7
        /\ calls[1] = f /\ calls[2] = g /\ calls[3] = d /\ calls[4] = u
        /\ calls[5] = o /\ calls[6] = v /\ calls[7] = e
    OBVIOUS
  <2>2. \A i \in 1..7 : i = 1 \/ i = 2 \/ i = 3 \/ i = 4 \/ i = 5 \/ i = 6 \/ i = 7
    OBVIOUS
  <2>3. calls \in Seq({f, g, d, u, o, v, e})
    OBVIOUS
  <2>4. Silent(o)
    BY ConstantsRead, SilentTasks DEF Behind, Else
  <2>5. calls = << f, g, d, u, Else, v, e >> /\ o = Else
    OBVIOUS
  <2>6. Loads(f, h, {}) /\ Uses(g, {})
    BY <1>2 DEF Silent, Loads, Uses
  <2> HIDE DEF calls, o
  <2>7. BranchesAt(h, calls, 1, 2, 4, {})
    BY <1>2, <2>1, <2>2, <2>4, <2>5, <2>6 DEF BranchesAt
  <2>8. TempsCalls(h, calls)
    BY <2>7, BranchesReplace, Zenon
  <2>9. MayReplace(h, calls)
    BY <2>3, <2>8, SeqIsSeq DEF MayReplace
  <2> QED BY <2>5, <2>9
<1> QED BY <1>1, <1>2

(* An If.                                                                  *)
LEMMA IfKeepsTemps ==
  ASSUME Inv, TempsInv, TermIf PROVE TempsInv'
<1> DEFINE h     == Head(todo)
           T     == h.temps
           K     == {T}
           cond  == Kid(prog, h.n, 1)
           temps == IF binds[cond] THEN T + 1 ELSE T
           t     == Term(cond, T + 1, Temp(T))
           w     == Write(<< Sym("if"), Temp(T), Sym("then") >>)
           f     == Write(Text(<<"if">>))
           g     == Free(cond)
           d     == Write(Text(<<"then">>))
           u     == Term(Kid(prog, h.n, 2), temps, h.bind)
           v     == Term(Kid(prog, h.n, 3), temps, h.bind)
           e     == Write(Text(<<"end">>))
<1>1. /\ Doing("term")
      /\ Enter((IF binds[cond] THEN << t, w >> ELSE << f, g, d >>) \o << u, Else, v, e >>)
  BY DEF TermIf, TermArm
<1>2. todo # <<>> /\ Statement(h) /\ T \in Nat
  BY <1>1, TermStarts
<1>3. Branch(u, h) /\ Branch(v, h)
  BY <1>2 DEF Branch, Term
<1>4. Silent(f) /\ Silent(g) /\ Silent(d) /\ Silent(e)
  BY ConstantsRead, SilentTasks DEF Behind
<1>5. Loads(t, h, K)
  <2>1. T + 1 \in Nat /\ T + 1 <= T + 1 /\ T <= T + 1
    BY <1>2
  <2> QED BY <1>2, <2>1, TermLoads
<1>6. Uses(w, K)
  <2> DEFINE p == Sym("if")
             q == Temp(T)
             r == Sym("then")
  <2>1. Behind(<< p >>, {}) /\ Behind(<< q >>, K) /\ Behind(<< r >>, {})
    <3>1. "if" \in Word /\ "then" \in Word /\ "if" # "=" /\ "then" # "="
      BY DEF Word
    <3> QED BY <1>2, <3>1, TokenRead
  <2>2. {} \cup K = K /\ K \cup {} = K
    OBVIOUS
  <2>3. w = Write(<< p, q, r >>)
    OBVIOUS
  <2> HIDE DEF p, q, r, K, w
  <2>4. Reading(<< p >> \o << q >>, K)
    BY <2>1, <2>2, ReadingConcat DEF Behind
  <2>5. Reading((<< p >> \o << q >>) \o << r >>, K)
    BY <2>1, <2>2, <2>4, ReadingConcat
  <2>6. << p >> \o << q >> = << p, q >> /\ << p, q >> \o << r >> = << p, q, r >>
    BY OneAndOne, TwoAndOne, Zenon
  <2>7. Reading(<< p, q, r >>, K)
    BY <2>5, <2>6, Zenon
  <2> QED BY <2>3, <2>7, UsingWrite
<1> HIDE DEF t, w, f, g, d, u, v, e, h, K
<1>7. CASE binds[cond]
  <2>1. OneLoad(h, t, w, K)
    BY <1>5, <1>6 DEF OneLoad
  <2>2. MayReplace(h, << t, w, u, Else, v, e >>)
    BY <1>2, <1>3, <1>4, <2>1, BranchArms
  <2>3. << t, w >> \o << u, Else, v, e >> = << t, w, u, Else, v, e >>
    <3> DEFINE o == Else
    <3> HIDE DEF o
    <3>1. << t, w >> \o << u, o, v, e >> = << t, w, u, o, v, e >>
      BY TwoAndFour
    <3> QED BY <3>1, Zenon DEF o
  <2>4. Enter(<< t, w, u, Else, v, e >>)
    BY <1>1, <1>7, <2>3
  <2> QED BY <1>2, <2>2, <2>4, ReplacedKeepsTemps DEF h
<1>8. CASE ~binds[cond]
  <2>1. MayReplace(h, << f, g, d, u, Else, v, e >>)
    BY <1>2, <1>3, <1>4, BranchArms
  <2>2. << f, g, d >> \o << u, Else, v, e >> = << f, g, d, u, Else, v, e >>
    <3> DEFINE o == Else
    <3> HIDE DEF o
    <3>1. << f, g, d >> \o << u, o, v, e >> = << f, g, d, u, o, v, e >>
      BY ThreeAndFour
    <3> QED BY <3>1, Zenon DEF o
  <2>3. Enter(<< f, g, d, u, Else, v, e >>)
    BY <1>1, <1>8, <2>2
  <2> QED BY <1>2, <2>1, <2>3, ReplacedKeepsTemps DEF h
<1> QED BY <1>7, <1>8

(* Every arm of generate_term keeps the invariant.                         *)
LEMMA TermNextKeepsTemps == ASSUME Inv, TempsInv, TermNext PROVE TempsInv'
BY InPlaceKeepsTemps, BoundCalleeKeepsTemps, FreeCalleeKeepsTemps,
   ArithmeticKeepsTemps, InfixKeepsTemps, LogicKeepsTemps, FunctionKeepsTemps,
   LetKeepsTemps, IfKeepsTemps, PrintKeepsTemps, ProjectionKeepsTemps,
   TupleKeepsTemps DEF TermNext

-----------------------------------------------------------------------------
(* The other steps.                                                        *)

(* The loop over arguments takes the next one.                             *)
LEMMA NextTermKeepsTemps == ASSUME Inv, TempsInv, NextTerm PROVE TempsInv'
<1> DEFINE h == Head(todo)
           a == Term(Head(h.ns), h.temps, Temp(h.temp))
           b == TermLoop(Tail(h.ns), h.temps, h.temp + 1)
           calls == << a, b >>
<1>1. Doing("terms") /\ Enter(IF h.ns = <<>> THEN <<>> ELSE calls)
  BY DEF NextTerm
<1>2. todo # <<>> /\ h \in SafeTask /\ h.do = "terms"
  BY <1>1, Pending
<1>3. h.ns \in Seq(Terms(prog)) /\ h.temps \in Nat /\ h.temp \in Nat
  BY <1>2, SafeTaskFields
<1>4. Bounded(h)
  <2>1. todo \in Seq(SafeTask)
    BY DEF Inv, Generating
  <2>2. 1 \in DOMAIN todo /\ h = todo[1]
    BY <1>2, <2>1
  <2> QED BY <2>2 DEF TempsInv
<1>5. CASE h.ns = <<>>
  <2>1. AllSilent(<<>>)
    BY SilentTuples
  <2> QED BY <1>1, <1>2, <1>5, <2>1, SilentKeepsTemps
<1>6. CASE h.ns # <<>>
  <2> DEFINE l == Len(Tail(h.ns))
  <2>1. l \in Nat /\ Len(h.ns) = l + 1
    BY <1>3, <1>6
  <2>2. h.temp + (l + 1) <= h.temps
    BY <1>2, <1>4, <2>1 DEF Bounded
  <2>3. /\ a.do = "term" /\ a.temps = h.temps /\ a.bind = Temp(h.temp)
        /\ b.do = "terms" /\ b.temps = h.temps /\ b.temp = h.temp + 1
        /\ b.ns = Tail(h.ns)
    BY DEF Term, TermLoop
  <2>4. /\ calls \in Seq({a, b}) /\ Len(calls) = 2 /\ DOMAIN calls = 1..2
        /\ calls[1] = a /\ calls[2] = b
    OBVIOUS
  <2>5. \A i \in 1..2 : i = 1 \/ i = 2
    OBVIOUS
  <2>6. Enter(calls)
    BY <1>1, <1>6
  <2> HIDE DEF a, b, h, calls
  <2>7. /\ Assigns(a) = {h.temp} /\ Reads(a) = {}
        /\ Assigns(b) = (h.temp + 1)..((h.temp + 1) + l - 1) /\ Reads(b) = {}
        /\ Assigns(h) = h.temp..(h.temp + (l + 1) - 1)
    BY <1>2, <2>1, <2>3, TokensRead DEF Assigns, Reads
  <2>8. Bounded(a) /\ Bounded(b)
    <3> HIDE DEF l
    <3>1. Len(b.ns) = l
      BY <2>3 DEF l
    <3> QED BY <1>3, <2>1, <2>2, <2>3, <2>7, <3>1 DEF Bounded
  <2> HIDE DEF l
  <2>9. /\ \A k \in Assigns(h) : k < h.temps
        /\ Assigns(a) \cap Assigns(b) = {}
        /\ Assigns(a) \subseteq Assigns(h) /\ Assigns(b) \subseteq Assigns(h)
    BY <1>3, <2>1, <2>2, <2>7
  <2>10. NeedsScratch(h) /\ h.temps <= h.temps
    BY <1>2, <1>3, <1>6 DEF NeedsScratch
  <2>11. \A i \in 1..Len(calls) : Bounded(calls[i]) /\ ScratchOf(h, calls, i)
    BY <2>3, <2>4, <2>5, <2>8, <2>9, <2>10 DEF ScratchOf
  <2>12. Held(calls)
    BY <2>4, <2>5, <2>7 DEF Held
  <2>13. Kept(calls)
    <3> SUFFICES ASSUME NEW i \in 1..2, NEW j \in 1..2, i < j,
                        NEW k \in Assigns(calls[i]) \cap Assigns(calls[j])
                 PROVE  FALSE
      BY <2>4 DEF Kept, Together
    <3>1. i = 1 /\ j = 2
      BY <2>5
    <3> QED BY <2>4, <2>9, <3>1
  <2>14. \A i \in 1..Len(calls) : ResultsOf(h, calls, i)
    BY <2>4, <2>5, <2>9 DEF ResultsOf
  <2>15. TempsCalls(h, calls)
    BY <2>11, <2>12, <2>13, <2>14 DEF TempsCalls
  <2>16. IsSeq(calls)
    BY <2>4, SeqIsSeq
  <2> QED BY <1>2, <2>6, <2>15, <2>16, EnterKeepsTemps DEF h
<1> QED BY <1>5, <1>6

(* Expressions use no temporaries.                                         *)
LEMMA NextFreeKeepsTemps == ASSUME Inv, TempsInv, NextFree PROVE TempsInv'
<1> DEFINE h == Head(todo)
           a == Free(Head(h.ns))
           b == Write(Text(<<",">>))
           c == FreeLoop(Tail(h.ns))
<1>1. /\ Doing("frees")
      /\ Enter(CASE Len(h.ns) = 0 -> <<>> [] Len(h.ns) = 1 -> << a >>
                 [] OTHER -> << a, b, c >>)
  BY DEF NextFree
<1>2. todo # <<>>
  BY <1>1, Pending
<1>3. Silent(a) /\ Silent(b) /\ Silent(c)
  BY ConstantsRead, SilentTasks DEF Behind
<1> HIDE DEF a, b, c
<1>4. AllSilent(<<>>) /\ AllSilent(<< a >>) /\ AllSilent(<< a, b, c >>)
  BY <1>3, SilentTuples, Zenon
<1> QED BY <1>1, <1>2, <1>4, SilentKeepsTemps

(* A text is written.                                                      *)
LEMMA WriteKeepsTemps == ASSUME Inv, TempsInv, WriteText PROVE TempsInv'
<1>1. todo # <<>> /\ UNCHANGED <<prog, binds>> /\ todo' = Tail(todo)
  BY DEF WriteText, Doing, annotateVars
<1>2. todo \in Seq(SafeTask)
  BY DEF Inv, Generating
<1>3. <<>> \in Seq({}) /\ todo' = <<>> \o Tail(todo)
  BY <1>1, <1>2
<1>4. TempsCalls(Head(todo), <<>>)
  BY DEF TempsCalls, Held, Kept
<1> QED BY <1>1, <1>3, <1>4, CallsKeepTemps

(* The program starts with nothing in the temporaries.                     *)
LEMMA BeginKeepsTemps == ASSUME Inv, TempsInv, BeginProgram PROVE TempsInv'
<1> DEFINE a == Text(<<"PRELUDE", "do", "TEMPS", "local">>)
           b == << VarName("_") >>
           p == Write(a \o b)
           t == Term(Root(prog), 0, Ret)
           e == Write(Text(<<"end", "POSTLUDE">>))
           calls == << p, t, e >>
<1>1. todo' = calls
  BY DEF BeginProgram
<1>2. Behind(a, {}) /\ Behind(b, {}) /\ Silent(e)
  BY ConstantsRead, TokenRead, SilentTasks DEF Behind, Name
<1>3. {} \cup {} = {}
  OBVIOUS
<1>4. Silent(p)
  <2> HIDE DEF a, b
  <2>1. Reading(a \o b, {})
    BY <1>2, <1>3, ReadingConcat DEF Behind
  <2> QED BY <2>1, SilentTasks
<1>5. t.do = "term" /\ t.temps = 0 /\ ~IsTemp(t.bind)
  BY TokensRead DEF Term, Ret
<1>6. /\ Len(calls) = 3 /\ DOMAIN calls = 1..3
      /\ calls[1] = p /\ calls[2] = t /\ calls[3] = e
  OBVIOUS
<1>7. \A i \in 1..3 : i = 1 \/ i = 2 \/ i = 3
  OBVIOUS
<1> HIDE DEF p, t, e, calls
<1>8. Assigns(t) = {} /\ Reads(t) = {} /\ Bounded(t)
  BY <1>5 DEF Assigns, Reads, Bounded
<1>9. \A i \in DOMAIN calls :
        Bounded(calls[i]) /\ Assigns(calls[i]) = {} /\ Reads(calls[i]) = {}
  BY <1>2, <1>4, <1>6, <1>7, <1>8 DEF Silent
<1>10. Held(calls) /\ Kept(calls)
  BY <1>9 DEF Held, Kept
<1>11. /\ \A i \in DOMAIN todo' : Bounded(todo'[i])
       /\ Held(todo') /\ Kept(todo')
  BY <1>1, <1>9, <1>10
<1>12. /\ (\A i \in DOMAIN todo : Bounded(todo[i]))' /\ Held(todo)'
       /\ (InfixWithBoundRhs \/ Kept(todo))'
  BY <1>11 DEF Held, Kept, Together, Bounded, Assigns
<1> QED BY <1>12 DEF TempsInv

(* No pending calls, no conflicts.                                         *)
LEMMA NothingPending == ASSUME todo = <<>> PROVE TempsInv
BY DEF TempsInv, Held, Kept

(* A step that leaves the pending calls and the marks alone.               *)
LEMMA UnchangedKeepsTemps ==
  ASSUME TempsInv, UNCHANGED <<prog, binds, todo>> PROVE TempsInv'
BY DEF TempsInv, InfixWithBoundRhs, Held, Kept, Together, Bounded, Assigns, Kid,
       Terms

(* Every step keeps the invariant.                                         *)
LEMMA NextKeepsTemps == Inv /\ TempsInv /\ [Next]_vars => TempsInv'
<1> SUFFICES ASSUME Inv, TempsInv, [Next]_vars PROVE TempsInv'
  OBVIOUS
<1>1. CASE AnnotateStep
  <2>1. todo' = <<>>
    BY <1>1 DEF AnnotateStep, Inv, Generating, genVars
  <2>2. (todo = <<>>)' => TempsInv'
    BY DEF TempsInv, Held, Kept
  <2> QED BY <2>1, <2>2
<1>2. CASE BeginProgram
  BY <1>2, BeginKeepsTemps
<1>3. CASE WriteText
  BY <1>3, WriteKeepsTemps
<1>4. CASE NextTerm
  BY <1>4, NextTermKeepsTemps
<1>5. CASE NextFree
  BY <1>5, NextFreeKeepsTemps
<1>6. CASE Finish
  BY <1>6, UnchangedKeepsTemps DEF Finish, annotateVars
<1>7. CASE FreeNext
  BY <1>7, FreeNextKeepsTemps
<1>8. CASE TermNext
  BY <1>8, TermNextKeepsTemps
<1>9. CASE Terminated \/ UNCHANGED vars
  BY <1>9, UnchangedKeepsTemps DEF Terminated, vars, annotateVars, genVars
<1> QED BY <1>1, <1>2, <1>3, <1>4, <1>5, <1>6, <1>7, <1>8, <1>9 DEF Next

(* The invariant holds in every state.                                     *)
LEMMA TempsInvAlways == Spec => []TempsInv
<1>1. Init => TempsInv
  BY NothingPending DEF Init
<1> QED BY <1>1, NextKeepsTemps, InvAlways, PTL DEF Spec

-----------------------------------------------------------------------------
(* The theorems.                                                           *)

(* No call of generate_term uses as scratch a temporary that holds a       *)
(* result still to be read: for every program and every depth of           *)
(* expressions, the offsets that the arms add to temps are enough.         *)
THEOREM ScratchNeverHeld == Spec => []ScratchAboveHeld
<1>1. TempsInv => ScratchAboveHeld
  BY DEF TempsInv, Held, Together, ScratchAboveHeld, SameFunction
<1> QED BY <1>1, TempsInvAlways, PTL

(* No result in a temporary is overwritten before it is read, in any       *)
(* program in which no operator of generate_infix has a right operand      *)
(* that binds: the shared temporary of generate_infix is the only way to   *)
(* lose one.                                                               *)
THEOREM ResultsAlwaysKept == Spec => []ResultsKeptOutsideInfix
<1>1. TempsInv => ResultsKeptOutsideInfix
  BY DEF TempsInv, Kept, Together, ResultsKeptOutsideInfix, ResultsKept, SameFunction
<1> QED BY <1>1, TempsInvAlways, PTL

==============================================================================
