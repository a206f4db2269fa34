----------------------------- MODULE HeapProofs -----------------------------
(***************************************************************************)
(* No step of the collector and the program leaves a dangling reference,   *)
(* for any number of tables, closures, upvalues, strings and stack slots.  *)
(*                                                                         *)
(* What the program can reach is not inductive: the invariant says instead *)
(* that no reference leads to a dead object, and what the marking phases   *)
(* and the sweep keep so that the atomic phase may declare dead what is    *)
(* still white.                                                            *)
(***************************************************************************)
EXTENDS Heap, TLAPS

-----------------------------------------------------------------------------
(* The inductive invariant. *)

Live(o) == color[o] # "free" /\ ~IsDead(o)
Sweeping == state \in {"sweepstring", "sweep"}

(* What each kind of object refers to. *)
RefsTyped ==
    /\ ref \in [Obj -> Obj \union {Nil}]
    /\ \A t \in Tabs \union Upvs : ref[t] \in Val \union {Nil}
    /\ \A c \in Strs : ref[c] = Nil
    /\ \A f \in Funs : Live(f) => ref[f] \in Upvs
    /\ \A u \in Upvs : slot[u] # Nil => ref[u] = Nil

(* No reference leads to a dead object. *)
Sound ==
    /\ \A s \in Slots : stack[s] # Nil => Live(stack[s])
    /\ \A o \in Obj : Live(o) /\ ref[o] # Nil => Live(ref[o])

(* The colours an object may have in each phase. *)
Colours ==
    /\ state = "pause" => \A o \in Obj : color[o] \in {"free", currentwhite}
    /\ Marking => \A o \in Obj : ~IsDead(o)
    /\ Sweeping => \A o \in Obj : color[o] \in {"free", currentwhite} \/ o \in unswept
    /\ \A o \in unswept : color[o] # "free"

(* While marking no black object refers to a white one, and every gray one *)
(* that may do so waits in a list.                                         *)
Tricolour ==
    Marking =>
      /\ \A o \in Obj : color[o] = "black" =>
           /\ o \notin WeakTabs \union Strs
           /\ o \in Upvs => slot[o] = Nil
           /\ ref[o] # Nil => ~IsWhite(ref[o])
      /\ \A o \in (Tabs \union Funs) \ WeakTabs : color[o] = "gray" => o \in gray \union grayagain
      /\ \A u \in Upvs : color[u] = "gray" => slot[u] # Nil

(* The lists of the marking phases. *)
Lists ==
    Marking =>
      /\ L \in gray \union grayagain
      /\ gray \intersect grayagain = {}
      /\ \A o \in (gray \union grayagain) \ {L} : color[o] = "gray"

IInv == TypeOK /\ RefsTyped /\ Sound /\ Colours /\ Tricolour /\ Lists

-----------------------------------------------------------------------------
(* Facts about the kinds and the marks. *)

LEMMA Kinds ==
  /\ Val \subseteq Obj /\ Upvs \subseteq Obj
  /\ Tabs \subseteq Val /\ Funs \subseteq Val /\ Strs \subseteq Val
  /\ WeakTabs \subseteq Tabs
  /\ \A o \in Obj : o \in Tabs \/ o \in Funs \/ o \in Strs \/ o \in Upvs
  /\ \A o \in Tabs : o \notin Funs /\ o \notin Strs /\ o \notin Upvs
  /\ \A o \in Funs : o \notin Strs /\ o \notin Upvs
  /\ \A o \in Strs : o \notin Upvs
  /\ \A o \in Val : o \notin Upvs
  /\ L \notin Obj /\ Nil \notin Obj /\ Nil \notin Slots /\ Slots \subseteq Nat
BY KindsAssumption DEF Val, Obj

(* The colours of live objects. *)
LEMMA Liveness ==
  ASSUME IInv, NEW o \in Obj
  PROVE  Live(o) <=> color[o] \in {currentwhite, "gray", "black"}
BY DEF IInv, TypeOK, Live, IsDead, Whites, Other

(* The value of an upvalue in use is a live value or nil. *)
LEMMA UpvalueLive ==
  ASSUME IInv, NEW u \in Upvs, Live(u)
  PROVE  Value(u) \in Val \union {Nil} /\ (Value(u) # Nil => Live(Value(u)))
<1>1. CASE slot[u] = Nil
  BY <1>1, Kinds DEF IInv, Sound, RefsTyped, Value
<1>2. CASE slot[u] # Nil
  BY <1>2, Kinds DEF IInv, TypeOK, Sound, Value
<1> QED BY <1>1, <1>2

-----------------------------------------------------------------------------
(* The program. *)

LEMMA PushKeeps ==
  ASSUME IInv, NEW s \in Slots, NEW v \in Val \union {Nil}, v # Nil => Live(v), Push(s, v)
  PROVE  IInv'
<1> USE Kinds DEF IInv, Push, Mutate
<1>1. TypeOK'
  BY DEF TypeOK
<1>2. RefsTyped' /\ Lists' /\ Colours' /\ Tricolour'
  BY DEF RefsTyped, Lists, Colours, Tricolour, Live, IsDead, IsWhite, Marking, Sweeping
<1>3. Sound'
  BY DEF Sound, TypeOK, Live, IsDead
<1> QED BY <1>1, <1>2, <1>3

LEMMA GetFieldKeeps ==
  ASSUME IInv, NEW s \in Slots, NEW p \in Slots, GetField(s, p)
  PROVE  IInv'
<1>1. ref[stack[p]] \in Val \union {Nil} /\ (ref[stack[p]] # Nil => Live(ref[stack[p]]))
  BY Kinds DEF IInv, GetField, Sound, RefsTyped
<1> QED BY <1>1, PushKeeps DEF GetField

LEMMA GetUpvalueKeeps ==
  ASSUME IInv, NEW s \in Slots, NEW p \in Slots, GetUpvalue(s, p)
  PROVE  IInv'
<1>1. ref[stack[p]] \in Upvs /\ Live(ref[stack[p]])
  BY Kinds DEF IInv, GetUpvalue, Sound, RefsTyped
<1> QED BY <1>1, PushKeeps, UpvalueLive DEF GetUpvalue

LEMMA NewTableKeeps ==
  ASSUME IInv, NEW s \in Slots, NEW t \in Tabs, NewTable(t, s)
  PROVE  IInv'
<1> USE Kinds DEF IInv, NewTable, Mutate
<1>1. TypeOK'
  BY DEF TypeOK, Whites
<1>2. RefsTyped'
  BY DEF RefsTyped, TypeOK, Live, IsDead
<1>3. Sound'
  BY DEF Sound, RefsTyped, TypeOK, Live, IsDead, Other, Whites
<1>4. Colours'
  BY DEF Colours, TypeOK, IsDead, Marking, Sweeping, Other, Whites
<1>5. Tricolour'
  BY DEF Tricolour, Sound, TypeOK, RefsTyped, IsWhite, Marking, Live, IsDead, Other, Whites
<1>6. Lists'
  BY DEF Lists, TypeOK, Marking
<1> QED BY <1>1, <1>2, <1>3, <1>4, <1>5, <1>6

LEMMA NewStringKeeps ==
  ASSUME IInv, NEW s \in Slots, NEW c \in Strs, NewString(c, s)
  PROVE  IInv'
<1> USE Kinds DEF IInv, NewString, Mutate, Revived
<1>1. TypeOK'
  BY DEF TypeOK, Whites
<1>2. RefsTyped'
  BY DEF RefsTyped, TypeOK, Live, IsDead
<1>3. Sound'
  BY DEF Sound, RefsTyped, TypeOK, Live, IsDead, Other, Whites
<1>4. Colours'
  BY DEF Colours, TypeOK, IsDead, Marking, Sweeping, Other, Whites
<1>5. Tricolour'
  BY DEF Tricolour, Colours, Sound, TypeOK, RefsTyped, IsWhite, Marking, Live, IsDead, Other, Whites
<1>6. Lists'
  BY DEF Lists, Colours, TypeOK, Marking, IsDead
<1> QED BY <1>1, <1>2, <1>3, <1>4, <1>5, <1>6

LEMMA NewClosureKeeps ==
  ASSUME IInv, NEW s \in Slots, NEW p \in Slots, NEW f \in Funs, NewClosure(f, s, p)
  PROVE  IInv'
<1>1. PICK u \in Upvs :
        /\ Mutate /\ color[f] = "free"
        /\ color[u] = "free" \/ slot[u] = p
        /\ color' = [color EXCEPT ![f] = currentwhite, ![u] = Revived(u)]
        /\ slot' = [slot EXCEPT ![u] = p]
        /\ ref' = [ref EXCEPT ![f] = u, ![u] = Nil]
        /\ stack' = [stack EXCEPT ![s] = f]
        /\ UNCHANGED <<gray, grayagain, unswept>>
  BY DEF NewClosure
<1> USE <1>1, Kinds DEF IInv, Mutate, Revived
<1>2. TypeOK'
  BY DEF TypeOK, Whites
<1>3. RefsTyped'
  BY DEF RefsTyped, TypeOK, Live, IsDead, Other, Whites
<1>4. Sound'
  BY DEF Sound, RefsTyped, TypeOK, Live, IsDead, Other, Whites
<1>5. Colours'
  BY DEF Colours, TypeOK, IsDead, Marking, Sweeping, Other, Whites
<1>6. Tricolour'
  BY DEF Tricolour, Colours, Sound, TypeOK, RefsTyped, IsWhite, Marking, Live, IsDead, Other, Whites
<1>7. Lists'
  BY DEF Lists, Colours, TypeOK, Marking, IsDead
<1> QED BY <1>2, <1>3, <1>4, <1>5, <1>6, <1>7

LEMMA InheritClosureKeeps ==
  ASSUME IInv, NEW s \in Slots, NEW p \in Slots, NEW f \in Funs, InheritClosure(f, s, p)
  PROVE  IInv'
<1>1. ref[stack[p]] \in Upvs /\ Live(ref[stack[p]])
  BY Kinds DEF IInv, InheritClosure, Sound, RefsTyped
<1> USE <1>1, Kinds DEF IInv, InheritClosure, Mutate
<1>2. TypeOK'
  BY DEF TypeOK, Whites
<1>3. RefsTyped'
  BY DEF RefsTyped, TypeOK, Live, IsDead, Other, Whites
<1>4. Sound'
  BY DEF Sound, RefsTyped, TypeOK, Live, IsDead, Other, Whites
<1>5. Colours'
  BY DEF Colours, TypeOK, IsDead, Marking, Sweeping, Other, Whites
<1>6. Tricolour'
  BY DEF Tricolour, Colours, Sound, TypeOK, RefsTyped, IsWhite, Marking, Live, IsDead, Other, Whites
<1>7. Lists'
  BY DEF Lists, Colours, TypeOK, Marking, IsDead
<1> QED BY <1>2, <1>3, <1>4, <1>5, <1>6, <1>7

LEMMA SetFieldKeeps ==
  ASSUME IInv, NEW p \in Slots, NEW q \in Slots, SetField(p, q)
  PROVE  IInv'
<1> DEFINE t == stack[p]
           v == stack[q]
           back == color[t] = "black"
<1>1. /\ t \in Tabs /\ v \in Val \union {Nil} /\ (v # Nil => Live(v))
      /\ ref' = [ref EXCEPT ![t] = v]
      /\ color' = IF back THEN [color EXCEPT ![t] = "gray"] ELSE color
      /\ grayagain' = IF back THEN grayagain \union {t} ELSE grayagain
      /\ UNCHANGED <<slot, stack, gray, unswept, currentwhite, state, weak, full>>
  BY Kinds DEF IInv, TypeOK, Sound, SetField, Mutate
<1> HIDE DEF t, v
<1> USE <1>1, Kinds DEF IInv
<1>2. TypeOK'
  BY DEF TypeOK
<1>3. RefsTyped'
  BY DEF RefsTyped, TypeOK, Live, IsDead, Other, Whites
<1>4. Sound'
  BY DEF Sound, TypeOK, Live, IsDead, Other, Whites
<1>5. Colours'
  BY DEF Colours, TypeOK, IsDead, Marking, Sweeping, Other, Whites
<1>6. Tricolour'
  BY DEF Tricolour, TypeOK, IsWhite, Marking, Whites
<1>7. Lists'
  BY DEF Lists, TypeOK, Marking
<1> QED BY <1>2, <1>3, <1>4, <1>5, <1>6, <1>7

(* What marking a set of values shades: the white ones of it, and no other. *)
LEMMA MarkedValues ==
  ASSUME NEW S, S \subseteq Val
  PROVE  Marked(S) = {o \in S : IsWhite(o)}
BY Kinds DEF Marked

LEMMA SetUpvalueKeeps ==
  ASSUME IInv, NEW p \in Slots, NEW q \in Slots, SetUpvalue(p, q)
  PROVE  IInv'
<1> DEFINE u == ref[stack[p]]
           v == stack[q]
           barrier == color[u] = "black" /\ v # Nil /\ IsWhite(v)
<1>1. /\ u \in Upvs /\ Live(u) /\ v \in Val \union {Nil} /\ (v # Nil => Live(v))
      /\ UNCHANGED <<slot, grayagain, unswept, currentwhite, state, weak, full>>
  BY Kinds DEF IInv, TypeOK, RefsTyped, Sound, SetUpvalue, Mutate
<1>2. CASE slot[u] # Nil
  <2>1. stack' = [stack EXCEPT ![slot[u]] = v] /\ UNCHANGED <<color, ref, gray>>
    BY <1>2 DEF SetUpvalue
  <2>2. Push(slot[u], v)
    BY <1>1, <2>1 DEF SetUpvalue, Push, Mutate
  <2> QED BY <1>1, <1>2, <2>2, PushKeeps DEF IInv, TypeOK
<1>3. CASE slot[u] = Nil
  <2>1. /\ ref' = [ref EXCEPT ![u] = v]
        /\ color' = IF ~barrier THEN color
                    ELSE IF Marking THEN Shade(Marked({v}))
                    ELSE [color EXCEPT ![u] = currentwhite]
        /\ gray' = IF barrier /\ Marking THEN gray \union Queue({v}) ELSE gray
        /\ UNCHANGED stack
    BY <1>3 DEF SetUpvalue
  <2>2. barrier => Marked({v}) = {v}
    BY <1>1, MarkedValues
  <2>3. color' = IF ~barrier THEN color
                 ELSE IF Marking THEN [color EXCEPT ![v] = "gray"]
                 ELSE [color EXCEPT ![u] = currentwhite]
    <3>1. ASSUME NEW x \in Val
          PROVE  Shade({x}) = [color EXCEPT ![x] = "gray"]
      BY Kinds, ZenonT(40) DEF Shade, Closed, IInv, TypeOK
    <3>2. barrier => Shade({v}) = [color EXCEPT ![v] = "gray"]
      BY <1>1, <3>1
    <3> HIDE DEF barrier, v
    <3> QED BY <2>1, <2>2, <3>2
  <2> HIDE DEF u, v
  <2> USE <1>1, <1>3, <2>3, Kinds DEF IInv
  <2>4. TypeOK'
    BY <2>1 DEF TypeOK, Whites, Queue
  <2>5. RefsTyped'
    BY <2>1 DEF RefsTyped, TypeOK, Live, IsDead, Other, Whites
  <2>6. Sound'
    BY <2>1 DEF Sound, TypeOK, Live, IsDead, Other, Whites
  <2>7. Colours'
    BY <2>1 DEF Colours, TypeOK, IsDead, Marking, Sweeping, Other, Whites
  <2>8. Tricolour'
    BY <2>1 DEF Tricolour, TypeOK, IsWhite, Marking, Whites, Queue
  <2>9. Lists'
    BY <2>1 DEF Lists, TypeOK, Marking, Queue, IsWhite, Whites
  <2> QED BY <2>4, <2>5, <2>6, <2>7, <2>8, <2>9
<1> QED BY <1>2, <1>3

LEMMA CloseUpvaluesKeeps ==
  ASSUME IInv, NEW level \in Slots, CloseUpvalues(level)
  PROVE  IInv'
<1> DEFINE closing == {u \in Upvs : slot[u] # Nil /\ slot[u] >= level}
           dead == {u \in closing : IsDead(u)}
           grays == {u \in closing : color[u] = "gray"}
           values == {Value(u) : u \in grays} \ {Nil}
           marks == IF Marking THEN {v \in values : IsWhite(v)} ELSE {}
<1>1. /\ closing \subseteq Upvs /\ \A u \in closing : slot[u] \in Slots
      /\ values \subseteq Val /\ marks \subseteq Val
  BY Kinds DEF IInv, TypeOK, Value
<1>2. marks = IF Marking THEN Marked(values) ELSE {}
  BY <1>1, MarkedValues
<1>3. color' = [o \in Obj |->
                  IF o \in dead THEN "free"
                  ELSE IF o \in grays THEN IF Marking THEN "black" ELSE currentwhite
                  ELSE IF o \in marks THEN "gray" ELSE color[o]]
  BY <1>1, <1>2, Kinds DEF CloseUpvalues, Shade, Closed
<1>4. ref' = [o \in Obj |-> IF o \in dead THEN Nil
                           ELSE IF o \in closing THEN stack[slot[o]] ELSE ref[o]]
  BY DEF CloseUpvalues, Value
<1>5. /\ slot' = [u \in Upvs |-> IF u \in closing THEN Nil ELSE slot[u]]
      /\ gray' = gray \union (marks \intersect (Tabs \union Funs))
      /\ unswept' = unswept \ dead
      /\ UNCHANGED <<stack, grayagain, currentwhite, state, weak, full>>
  BY <1>2 DEF CloseUpvalues, Mutate, Queue
<1>6. /\ \A o \in marks : o \in Val /\ Marking /\ IsWhite(o)
      /\ \A v \in values : Marking /\ IsWhite(v) => v \in marks
  BY <1>1
<1>7. \A u \in closing : stack[slot[u]] \in Val \union {Nil} /\ (stack[slot[u]] # Nil => Live(stack[slot[u]]))
  BY <1>1 DEF IInv, TypeOK, Sound
<1>8. \A o \in Obj :
        /\ o \in dead <=> o \in closing /\ IsDead(o)
        /\ o \in grays <=> o \in closing /\ color[o] = "gray"
        /\ o \in closing => o \in Upvs /\ slot[o] # Nil
  BY DEF IsDead
<1>9. \A u \in grays : stack[slot[u]] # Nil => stack[slot[u]] \in values
  BY DEF Value
<1> HIDE DEF closing, dead, grays, values, marks
<1>10. currentwhite' = currentwhite /\ state' = state /\ (Marking' <=> Marking) /\ (Sweeping' <=> Sweeping)
  BY <1>5 DEF Marking, Sweeping
<1>11. TypeOK'
  BY <1>3, <1>4, <1>5, <1>6, <1>7, Kinds DEF IInv, TypeOK, Whites
<1>12. ASSUME NEW o \in Obj
       PROVE  Live(o)' <=> Live(o)
  <2>1. currentwhite \in Whites
    BY DEF IInv, TypeOK
  <2>2. CASE o \in dead
    BY <1>3, <1>8, <2>2 DEF Live
  <2>3. CASE o \in grays /\ o \notin dead
    BY <1>3, <1>8, <1>10, <2>1, <2>3 DEF Live, IsDead, Other, Whites
  <2>4. CASE o \in marks /\ o \notin grays /\ o \notin dead
    <3>1. color'[o] = "gray"
      BY <1>3, <2>4
    <3>2. Marking /\ color[o] \in Whites
      BY <1>6, <2>4 DEF IsWhite
    <3>3. Live(o)
      BY <3>2 DEF IInv, Colours, Live, Whites
    <3> QED BY <1>10, <2>1, <3>1, <3>3 DEF Live, IsDead, Other, Whites
  <2>5. CASE o \notin dead /\ o \notin grays /\ o \notin marks
    BY <1>3, <1>10, <2>5 DEF Live, IsDead
  <2> QED BY <2>2, <2>3, <2>4, <2>5
<1>13. RefsTyped'
  BY <1>4, <1>5, <1>7, <1>8, <1>11, <1>12, Kinds DEF IInv, RefsTyped, TypeOK
<1>14. Sound'
  <2>1. \A s \in Slots : stack'[s] # Nil => Live(stack[s])'
    BY <1>5, <1>12, Kinds DEF IInv, Sound, TypeOK
  <2>2. ASSUME NEW o \in Obj, Live(o)', ref'[o] # Nil
        PROVE  Live(ref[o])'
    <3>1. CASE o \in closing
      <4>1. ref'[o] = stack[slot[o]]
        BY <1>4, <2>2, <3>1
      <4> QED BY <1>7, <1>12, <2>2, <3>1, <4>1, Kinds
    <3>2. CASE o \notin closing
      <4>1. ref'[o] = ref[o] /\ Live(o)
        BY <1>4, <1>8, <1>12, <2>2, <3>2
      <4> QED BY <1>12, <2>2, <4>1 DEF IInv, Sound, TypeOK
    <3> QED BY <3>1, <3>2
  <2> QED BY <2>1, <2>2 DEF Sound
<1>15. Colours'
  BY <1>3, <1>5, <1>6, <1>8, <1>10, Kinds DEF IInv, Colours, TypeOK, IsDead, IsWhite, Marking, Sweeping, Other, Whites
<1>16. Tricolour'
  <2> SUFFICES ASSUME Marking
               PROVE  Tricolour'
    BY <1>10 DEF Tricolour
  <2>1. \A o \in Obj : o \notin dead
    BY <1>8 DEF IInv, Colours
  <2>2. \A o \in Obj : color'[o] = IF o \in grays THEN "black" ELSE IF o \in marks THEN "gray" ELSE color[o]
    BY <1>3, <2>1
  <2>3. \A o \in Obj : ~IsWhite(o) => ~IsWhite(o)'
    BY <2>2 DEF IsWhite, Whites
  <2>4. ASSUME NEW o \in Obj, color'[o] = "black"
        PROVE  /\ o \notin WeakTabs \union Strs
               /\ o \in Upvs => slot'[o] = Nil
               /\ ref'[o] # Nil => ~IsWhite(ref[o])'
    <3>1. CASE o \in grays
      <4>1. o \in closing /\ o \in Upvs
        BY <1>8, <3>1
      <4>2. ref'[o] = stack[slot[o]] /\ slot'[o] = Nil
        BY <1>4, <1>5, <2>1, <4>1
      <4>3. ASSUME ref'[o] # Nil
            PROVE  ~IsWhite(ref[o])'
        <5>1. ref'[o] \in marks \/ ~IsWhite(ref'[o])
          BY <1>6, <1>9, <3>1, <4>2, <4>3
        <5>2. ref'[o] \in Obj
          BY <1>7, <4>1, <4>2, <4>3, Kinds
        <5>3. ref'[o] \in marks => color'[ref'[o]] \in {"gray", "black"}
          BY <2>2, <5>2
        <5> QED BY <2>3, <5>1, <5>2, <5>3 DEF IsWhite, Whites
      <4> QED BY <4>1, <4>2, <4>3, Kinds
    <3>2. CASE o \notin grays
      <4>1. color[o] = "black"
        BY <2>2, <2>4, <3>2
      <4>2. o \notin WeakTabs \union Strs /\ (o \in Upvs => slot[o] = Nil) /\ (ref[o] # Nil => ~IsWhite(ref[o]))
        BY <4>1 DEF IInv, Tricolour
      <4>3. o \notin closing
        BY <1>8, <4>2
      <4>4. ref'[o] = ref[o] /\ (o \in Upvs => slot'[o] = slot[o])
        BY <1>4, <1>5, <2>1, <4>3
      <4>5. ref[o] # Nil => ref[o] \in Obj
        BY DEF IInv, TypeOK
      <4> QED BY <2>3, <4>2, <4>4, <4>5
    <3> QED BY <3>1, <3>2
  <2>5. ASSUME NEW o \in Obj, color'[o] = "gray"
        PROVE  (color[o] = "gray" /\ o \notin grays) \/ o \in marks
    BY <2>2, <2>5
  <2>6. ASSUME NEW u \in Upvs, color'[u] = "gray"
        PROVE  slot'[u] # Nil
    <3>1. u \notin marks
      BY <1>6, Kinds
    <3>2. color[u] = "gray" /\ u \notin closing
      BY <1>8, <2>5, <2>6, <3>1, Kinds
    <3> QED BY <1>5, <3>2 DEF IInv, Tricolour
  <2>7. \A o \in (Tabs \union Funs) \ WeakTabs : color'[o] = "gray" => o \in (gray \union grayagain)'
    BY <1>5, <2>5, Kinds DEF IInv, Tricolour
  <2> QED BY <2>4, <2>6, <2>7 DEF Tricolour
<1>17. Lists'
  BY <1>3, <1>5, <1>6, <1>8, <1>10, Kinds DEF IInv, Lists, Colours, TypeOK, IsWhite, Whites, IsDead
<1> QED BY <1>11, <1>13, <1>14, <1>15, <1>16, <1>17 DEF IInv

-----------------------------------------------------------------------------
(* The collector. *)

LEMMA StartKeeps ==
  ASSUME IInv, Start
  PROVE  IInv'
<1> USE Kinds DEF IInv, Start, heap
<1>1. TypeOK'
  BY DEF TypeOK
<1>2. RefsTyped' /\ Sound'
  BY DEF RefsTyped, Sound, Live, IsDead
<1>3. Colours'
  BY DEF Colours, TypeOK, Marking, Sweeping, IsDead, Other, Whites
<1>4. \A o \in Obj : color[o] \in {"free", currentwhite}
  BY DEF Colours
<1>5. Tricolour' /\ Lists'
  BY <1>4 DEF Tricolour, Lists, TypeOK, Whites
<1> QED BY <1>1, <1>2, <1>3, <1>5

(* Shading white objects disturbs nothing but the colours: what is live    *)
(* stays live, and no colour of the sweep appears or goes.                 *)
LEMMA ShadeColours ==
  ASSUME IInv, Marking, NEW M \in SUBSET Obj, \A o \in M : IsWhite(o)
  PROVE  /\ Shade(M) \in [Obj -> {"free", "white0", "white1", "gray", "black"}]
         /\ \A o \in Obj : o \notin M => Shade(M)[o] = color[o]
         /\ \A o \in M : Shade(M)[o] = IF Closed(o) THEN "black" ELSE "gray"
         /\ \A o \in M : Live(o)
BY DEF Shade, IInv, TypeOK, Colours, Live, IsWhite, Whites

LEMMA TraverseThreadKeeps ==
  ASSUME IInv, TraverseThread
  PROVE  IInv'
<1> DEFINE M == {v \in Strong(L) : IsWhite(v)}
<1>1. Marking /\ Marking' /\ ~Sweeping'
  BY DEF TraverseThread, Marking, Sweeping
<1>2. Strong(L) \subseteq Val
  BY Kinds DEF IInv, TypeOK, Strong
<1>3. Marked(Strong(L)) = M
  BY <1>2, MarkedValues
<1>4. M \subseteq Val /\ M \in SUBSET Obj /\ \A o \in M : IsWhite(o) /\ ~Closed(o)
  BY <1>2, Kinds DEF Closed
<1> HIDE DEF M
<1>5. /\ color' \in [Obj -> {"free", "white0", "white1", "gray", "black"}]
      /\ \A o \in Obj : color'[o] = IF o \in M THEN "gray" ELSE color[o]
      /\ \A o \in M : Live(o)
  BY <1>1, <1>3, <1>4, ShadeColours DEF TraverseThread
<1>6. /\ gray' = (gray \ {L}) \union (M \intersect (Tabs \union Funs))
      /\ grayagain' = grayagain \union {L} /\ L \in gray
      /\ UNCHANGED <<currentwhite, ref, slot, stack, state, weak, unswept, full>>
  BY <1>3 DEF TraverseThread, Queue
<1> USE <1>1, <1>4, <1>5, <1>6, Kinds DEF IInv
<1>7. TypeOK'
  BY DEF TypeOK
<1>8. \A o \in Obj : /\ Live(o)' <=> Live(o)
                     /\ ~IsWhite(o) => ~IsWhite(o)'
  BY DEF TypeOK, Live, IsDead, IsWhite, Whites, Other
<1>9. RefsTyped'
  BY <1>8 DEF RefsTyped
<1>10. Sound'
  BY <1>8 DEF Sound, TypeOK
<1>11. Colours'
  <2>1. state' # "pause"
    BY DEF Marking
  <2>2. \A o \in Obj : ~IsDead(o)'
    BY <1>8 DEF Colours, TypeOK, IsDead, IsWhite, Other, Whites
  <2>3. \A o \in unswept' : color'[o] # "free"
    BY DEF Colours, TypeOK
  <2> QED BY <2>1, <2>2, <2>3 DEF Colours
<1>12. Tricolour'
  BY <1>8 DEF Tricolour, TypeOK
<1>13. Lists'
  BY DEF Lists, TypeOK, IsWhite, Whites
<1> QED BY <1>7, <1>9, <1>10, <1>11, <1>12, <1>13

LEMMA TraverseWeakKeeps ==
  ASSUME IInv, NEW o \in Obj, TraverseWeak(o)
  PROVE  IInv'
<1> USE Kinds DEF IInv, TraverseWeak, heap
<1>1. TypeOK'
  BY DEF TypeOK
<1>2. RefsTyped' /\ Sound' /\ Colours'
  BY DEF RefsTyped, Sound, Colours, Live, IsDead, Marking, Sweeping
<1>3. Tricolour' /\ Lists'
  BY DEF Tricolour, Lists, IsWhite, Marking
<1> QED BY <1>1, <1>2, <1>3

LEMMA EndPropagateKeeps ==
  ASSUME IInv, EndPropagate
  PROVE  IInv'
<1> USE Kinds DEF IInv, EndPropagate, heap, lists
<1>1. TypeOK'
  BY DEF TypeOK
<1>2. RefsTyped' /\ Sound' /\ Colours'
  BY DEF RefsTyped, Sound, Colours, Live, IsDead, Marking, Sweeping
<1>3. Tricolour' /\ Lists'
  BY DEF Tricolour, Lists, IsWhite, Marking
<1> QED BY <1>1, <1>2, <1>3

LEMMA EndSweepStringKeeps ==
  ASSUME IInv, EndSweepString
  PROVE  IInv'
BY DEF IInv, EndSweepString, heap, lists, TypeOK, RefsTyped, Sound, Colours, Tricolour, Lists,
       Live, IsDead, Marking, Sweeping

LEMMA EndSweepKeeps ==
  ASSUME IInv, EndSweep
  PROVE  IInv'
BY DEF IInv, EndSweep, heap, lists, TypeOK, RefsTyped, Sound, Colours, Tricolour, Lists,
       Live, IsDead, Marking, Sweeping

LEMMA PassKeeps ==
  ASSUME IInv, Sweeping, NEW o \in unswept, Pass(o), UNCHANGED state
  PROVE  IInv'
<1>1. o \in Obj /\ color[o] # "free" /\ ~Marking' /\ Sweeping' /\ state' # "pause"
  BY DEF IInv, TypeOK, Colours, Marking, Sweeping
<1> USE <1>1, Kinds DEF IInv, Pass, lists
<1>2. TypeOK'
  BY DEF TypeOK, Whites
<1>3. \A x \in Obj : Live(x)' <=> Live(x)
  BY DEF TypeOK, Live, IsDead, Other, Whites
<1>4. RefsTyped'
  <2>1. \A x \in Obj : ref'[x] = IF x = o /\ IsDead(o) THEN Nil ELSE ref[x]
    BY DEF TypeOK
  <2>2. \A f \in Funs : Live(f)' => ref'[f] \in Upvs
    BY <1>3, <2>1 DEF RefsTyped, Live
  <2>3. \A u \in Upvs : slot'[u] # Nil => ref'[u] = Nil
    BY <2>1 DEF RefsTyped, TypeOK
  <2> QED BY <1>2, <2>1, <2>2, <2>3 DEF RefsTyped, TypeOK
<1>5. Sound'
  BY <1>3 DEF Sound, TypeOK
<1>6. Colours'
  BY DEF Colours, TypeOK, Whites
<1>7. Tricolour' /\ Lists'
  BY DEF Tricolour, Lists
<1> QED BY <1>2, <1>4, <1>5, <1>6, <1>7

LEMMA FullGCKeeps ==
  ASSUME IInv, FullGC
  PROVE  IInv'
<1> USE Kinds DEF IInv, FullGC, heap, lists
<1>1. TypeOK'
  BY DEF TypeOK, Allocated
<1>2. RefsTyped' /\ Sound'
  BY DEF RefsTyped, Sound, Live, IsDead
<1>3. CASE state \in {"pause", "propagate", "atomic"}
  BY <1>1, <1>2, <1>3 DEF Colours, Tricolour, Lists, Marking, Sweeping, Allocated
<1>4. CASE state \notin {"pause", "propagate", "atomic"}
  BY <1>1, <1>2, <1>4 DEF Colours, Tricolour, Lists, Marking, Sweeping, IsDead
<1> QED BY <1>3, <1>4

(* Traversing marks what the object refers to, and what a marked upvalue   *)
(* stands for.                                                             *)
LEMMA MarkedChildren ==
  ASSUME IInv, NEW o \in Tabs \union Funs, o \notin WeakTabs, Live(o)
  PROVE  /\ Marked(Strong(o)) \subseteq Obj
         /\ \A x \in Marked(Strong(o)) : IsWhite(x)
         /\ ref[o] # Nil /\ IsWhite(ref[o]) => ref[o] \in Marked(Strong(o))
         /\ \A u \in Marked(Strong(o)) \intersect Upvs :
              slot[u] = Nil /\ ref[u] # Nil /\ IsWhite(ref[u]) => ref[u] \in Marked(Strong(o))
<1> DEFINE white == {x \in Strong(o) : IsWhite(x)}
           values == {v \in Val : IsWhite(v) /\ \E u \in white \intersect Upvs : v = Value(u)}
<1>1. Strong(o) = {ref[o]} \ {Nil}
  BY Kinds DEF Strong
<1>2. Marked(Strong(o)) = white \union values
  BY DEF Marked
<1>3. white \subseteq Obj /\ values \subseteq Val
  BY <1>1, Kinds DEF IInv, TypeOK
<1>4. ASSUME NEW u \in Marked(Strong(o)) \intersect Upvs,
             slot[u] = Nil, ref[u] # Nil, IsWhite(ref[u])
      PROVE  ref[u] \in Marked(Strong(o))
  <2>1. u \in white \intersect Upvs
    BY <1>2, <1>3, <1>4, Kinds
  <2>2. Value(u) = ref[u]
    BY <1>4 DEF Value
  <2>3. ref[u] \in Val
    BY <1>4 DEF IInv, RefsTyped
  <2>4. ref[u] \in values
    BY <1>4, <2>1, <2>2, <2>3
  <2> QED BY <1>2, <2>4
<1> QED BY <1>1, <1>2, <1>3, <1>4, Kinds

LEMMA TraverseKeeps ==
  ASSUME IInv, NEW o \in Obj, Traverse(o)
  PROVE  IInv'
<1> DEFINE M == Marked(Strong(o))
<1>1. /\ Marking /\ Marking' /\ ~Sweeping' /\ state' # "pause"
      /\ o \in gray /\ o \in Tabs \union Funs /\ o \notin WeakTabs /\ o # L /\ color[o] = "gray"
  BY Kinds DEF Traverse, Marking, Sweeping, IInv, TypeOK, Lists
<1>2. Live(o)
  BY <1>1 DEF IInv, Colours, Live
<1>3. /\ M \in SUBSET Obj /\ \A x \in M : IsWhite(x)
      /\ ref[o] # Nil /\ IsWhite(ref[o]) => ref[o] \in M
      /\ \A u \in M \intersect Upvs : slot[u] = Nil /\ ref[u] # Nil /\ IsWhite(ref[u]) => ref[u] \in M
  BY <1>1, <1>2, MarkedChildren
<1>4. /\ color' = [Shade(M) EXCEPT ![o] = "black"]
      /\ gray' = (gray \ {o}) \union (M \intersect (Tabs \union Funs))
      /\ UNCHANGED <<currentwhite, ref, slot, stack, state, grayagain, weak, unswept, full>>
  BY DEF Traverse, Queue
<1> HIDE DEF M
<1>5. o \notin M
  BY <1>1, <1>3 DEF IsWhite, Whites
<1>6. /\ color' \in [Obj -> {"free", "white0", "white1", "gray", "black"}]
      /\ \A x \in Obj : color'[x] = IF x = o THEN "black"
                                    ELSE IF x \in M THEN IF Closed(x) THEN "black" ELSE "gray"
                                    ELSE color[x]
      /\ \A x \in M : Live(x)
  BY <1>1, <1>3, <1>4, ShadeColours
<1> USE <1>1, <1>3, <1>4, <1>5, <1>6, Kinds DEF IInv
<1>7. TypeOK'
  BY DEF TypeOK
<1>8. \A x \in Obj : /\ Live(x)' <=> Live(x)
                     /\ ~IsWhite(x) => ~IsWhite(x)'
  BY <1>2 DEF TypeOK, Live, IsDead, IsWhite, Whites, Other
<1>9. RefsTyped'
  BY <1>8 DEF RefsTyped
<1>10. Sound'
  BY <1>8 DEF Sound, TypeOK
<1>11. Colours'
  <2>1. \A x \in Obj : ~IsDead(x)'
    BY <1>8 DEF Colours, TypeOK, IsDead, IsWhite, Other, Whites
  <2>2. \A x \in unswept' : color'[x] # "free"
    BY DEF Colours, TypeOK
  <2> QED BY <2>1, <2>2 DEF Colours
<1>12. Tricolour'
  <2>1. ASSUME NEW x \in Obj, color'[x] = "black"
        PROVE  /\ x \notin WeakTabs \union Strs
               /\ x \in Upvs => slot'[x] = Nil
               /\ ref'[x] # Nil => ~IsWhite(ref[x])'
    <3>1. CASE x = o
      BY <1>8, <3>1 DEF TypeOK, IsWhite, Whites
    <3>2. CASE x \in M
      <4>1. x \in Upvs /\ slot[x] = Nil
        BY <2>1, <3>2 DEF Closed
      <4> QED BY <1>8, <3>2, <4>1 DEF TypeOK, IsWhite, Whites
    <3>3. CASE x # o /\ x \notin M
      BY <1>8, <2>1, <3>3 DEF Tricolour, TypeOK
    <3> QED BY <3>1, <3>2, <3>3
  <2>2. \A x \in (Tabs \union Funs) \ WeakTabs : color'[x] = "gray" => x \in (gray \union grayagain)'
    BY DEF Tricolour
  <2>3. \A u \in Upvs : color'[u] = "gray" => slot'[u] # Nil
    BY DEF Tricolour, Closed
  <2> QED BY <2>1, <2>2, <2>3 DEF Tricolour
<1>13. Lists'
  BY DEF Lists, IsWhite, Whites, Closed, TypeOK
<1> QED BY <1>7, <1>9, <1>10, <1>11, <1>12, <1>13

LEMMA StrongTyped ==
  ASSUME IInv, NEW o \in Obj \union {L}
  PROVE  Strong(o) \subseteq Obj
<1>1. CASE o = L
  BY <1>1, Kinds DEF IInv, TypeOK, Strong
<1>2. CASE o \in Upvs
  BY <1>2, Kinds DEF IInv, TypeOK, RefsTyped, Strong, Value
<1>3. CASE o \notin Upvs \union {L}
  BY <1>3, Kinds DEF IInv, TypeOK, Strong
<1> QED BY <1>1, <1>2, <1>3

(* The roots of the atomic phase and what is white behind them is reached, *)
(* and nothing but white objects is.                                       *)
LEMMA ReachedClosed ==
  ASSUME IInv
  PROVE  /\ Reached \subseteq Obj
         /\ \A o \in Reached : IsWhite(o)
         /\ \A r \in AtomicRoots : IsWhite(r) => r \in Reached
         /\ \A x \in Reached : \A c \in Strong(x) : IsWhite(c) => c \in Reached
<1> DEFINE Closes(N) == /\ \A r \in AtomicRoots : IsWhite(r) => r \in N
                        /\ \A x \in N : \A c \in Strong(x) : IsWhite(c) => c \in N
           White == {o \in Obj : IsWhite(o)}
<1>1. Reached = {o \in Obj : \A N \in SUBSET Obj : Closes(N) => o \in N}
  BY DEF Reached
<1>2. ASSUME NEW r \in AtomicRoots
      PROVE  r \in Obj
  <2>1. PICK o \in gray \union grayagain \union GrayUpvalues : r \in Strong(o)
    BY DEF AtomicRoots
  <2>2. o \in Obj \union {L}
    BY Kinds DEF IInv, TypeOK, GrayUpvalues
  <2>3. Strong(o) \subseteq Obj
    BY <2>2, StrongTyped
  <2> QED BY <2>1, <2>2, <2>3
<1>3. \A x \in Obj : Strong(x) \subseteq Obj
  BY StrongTyped
<1>4. Closes(White)
  BY <1>2, <1>3
<1>5. Reached \subseteq White
  BY <1>1, <1>4
<1>6. ASSUME NEW r \in AtomicRoots, IsWhite(r)
      PROVE  r \in Reached
  BY <1>1, <1>2, <1>6
<1>7. ASSUME NEW x \in Reached, NEW c \in Strong(x), IsWhite(c)
      PROVE  c \in Reached
  <2>1. c \in Obj
    BY <1>1, <1>3, <1>7
  <2>2. ASSUME NEW N \in SUBSET Obj, Closes(N)
        PROVE  c \in N
    <3>1. x \in N
      BY <1>1, <1>7, <2>2
    <3> QED BY <1>7, <2>2, <3>1
  <2> QED BY <1>1, <2>1, <2>2
<1> QED BY <1>5, <1>6, <1>7

LEMMA AtomicKeeps ==
  ASSUME IInv, Atomic
  PROVE  IInv'
<1> DEFINE Kept == Survivors \union WeakStrings
<1>1. /\ Marking /\ ~Marking' /\ Sweeping' /\ state' # "pause"
      /\ currentwhite' = Other(currentwhite) /\ unswept' = Allocated
      /\ gray' = {} /\ grayagain' = {} /\ weak' = {} /\ state' = "sweepstring"
      /\ UNCHANGED <<slot, stack, full>>
  BY DEF Atomic, NewWhite, Marking, Sweeping
<1>2. \A o \in Obj : color[o] \in {"free", currentwhite, "gray", "black"}
  BY <1>1 DEF IInv, Colours, TypeOK, IsDead, Other, Whites
<1>3. \A o \in Obj : IsWhite(o) <=> color[o] = currentwhite
  BY <1>2 DEF IInv, TypeOK, IsWhite, Whites
<1>4. \A o \in Obj : Live(o) <=> color[o] # "free"
  BY <1>1 DEF IInv, Colours, Live
<1>5. /\ \A o \in Reached : o \in Obj /\ color[o] = currentwhite
      /\ \A o \in (gray \union grayagain) \ {L} : o \in Obj /\ color[o] = "gray"
  BY <1>1, <1>3, ReachedClosed, Kinds DEF IInv, Lists, TypeOK
<1>6. \A o \in Obj : o \in Survivors <=> color[o] \in {"gray", "black"} \/ o \in Reached
  BY <1>2, <1>3, <1>5 DEF Survivors, Allocated, IInv, TypeOK, Whites
<1>7. \A c \in WeakStrings : c \in Strs /\ color[c] # "free"
  <2> SUFFICES ASSUME NEW c \in Strs, NEW t \in WeakTabs \intersect Survivors, ref[t] = c
               PROVE  color[c] # "free"
    BY DEF WeakStrings
  <2>1. t \in Obj /\ Live(t)
    BY <1>4, <1>5, <1>6, Kinds DEF IInv, TypeOK, Whites
  <2> QED BY <1>4, <2>1, Kinds DEF IInv, Sound
<1>8. \A o \in Obj : color'[o] = IF o \in Reached \union gray \union grayagain
                                 THEN IF o \in WeakTabs \union Strs \/ (o \in Upvs /\ ~Closed(o))
                                      THEN "gray" ELSE "black"
                                 ELSE IF o \in WeakStrings THEN "gray" ELSE color[o]
  BY DEF Atomic
<1>9. \A o \in Obj : o \in Kept => color'[o] \in {"gray", "black"} /\ Live(o)
  BY <1>4, <1>5, <1>6, <1>7, <1>8 DEF IInv, TypeOK, Whites
<1>10. \A o \in Obj : o \notin Kept => color'[o] = color[o] /\ color[o] \in {"free", currentwhite}
  BY <1>2, <1>5, <1>6, <1>8, Kinds
<1>11. \A o \in Obj : Live(o)' <=> o \in Kept
  BY <1>1, <1>9, <1>10 DEF IInv, TypeOK, Live, IsDead, Other, Whites
<1>12. ref' = [o \in Obj |-> IF o \in WeakTabs \intersect Survivors /\ ref[o] \notin Kept
                             THEN Nil ELSE ref[o]]
  BY DEF Atomic, ClearWeak
<1> HIDE DEF Kept
<1>13. TypeOK'
  <2>1. color' \in [Obj -> {"free", "white0", "white1", "gray", "black"}]
    BY <1>8 DEF Atomic, IInv, TypeOK
  <2>2. currentwhite' \in Whites
    BY <1>1 DEF Other, Whites
  <2>3. ref' \in [Obj -> Obj \union {Nil}]
    BY <1>12 DEF IInv, TypeOK
  <2> QED BY <1>1, <2>1, <2>2, <2>3 DEF IInv, TypeOK, Allocated
<1>14. RefsTyped'
  <2>1. \A o \in Obj : ref'[o] = ref[o] \/ (o \in WeakTabs /\ ref'[o] = Nil)
    BY <1>12
  <2>2. \A f \in Funs : Live(f)' => ref'[f] \in Upvs
    BY <1>9, <1>11, <2>1, Kinds DEF IInv, RefsTyped
  <2> QED BY <1>1, <1>13, <2>1, <2>2, Kinds DEF IInv, RefsTyped, TypeOK
<1>15. Sound'
  <2>1. \A o \in gray \union grayagain : Strong(o) \subseteq AtomicRoots
    BY DEF AtomicRoots
  <2>2. \A c \in AtomicRoots \intersect Obj : Live(c) => c \in Kept
    BY <1>2, <1>3, <1>4, <1>6, ReachedClosed DEF Kept
  <2>3. ASSUME NEW s \in Slots, stack[s] # Nil
        PROVE  Live(stack[s])'
    <3>1. stack[s] \in Strong(L) /\ stack[s] \in Obj /\ Live(stack[s])
      BY <2>3, Kinds DEF IInv, TypeOK, Sound, Strong
    <3>2. L \in gray \union grayagain
      BY <1>1 DEF IInv, Lists
    <3>3. stack[s] \in Kept
      BY <2>1, <2>2, <3>1, <3>2
    <3> QED BY <1>1, <1>11, <3>1, <3>3
  <2>4. ASSUME NEW o \in Obj, Live(o)', ref'[o] # Nil
        PROVE  Live(ref[o])'
    <3>1. o \in Kept /\ Live(o)
      BY <1>9, <1>11, <2>4
    <3>2. ref'[o] = ref[o] /\ ref[o] # Nil
      BY <1>12, <2>4
    <3>3. ref[o] \in Obj /\ Live(ref[o])
      BY <3>1, <3>2 DEF IInv, TypeOK, Sound
    <3>4. o \notin Strs /\ o \in Survivors
      BY <1>7, <3>1, <3>2 DEF IInv, RefsTyped, Kept
    <3> SUFFICES ref[o] \in Kept
      BY <1>11, <3>2, <3>3
    <3>5. ref[o] \in Kept \/ (IsWhite(ref[o]) /\ ref[o] \notin Reached)
      BY <1>2, <1>3, <1>4, <1>6, <3>3 DEF Kept
    <3>6. CASE o \in WeakTabs
      BY <1>12, <2>4, <3>2, <3>4, <3>6
    <3>7. CASE o \notin WeakTabs
      <4>1. o \in Upvs => slot[o] = Nil
        BY <3>2 DEF IInv, RefsTyped
      <4>2. ref[o] \in Strong(o)
        BY <3>2, <3>4, <3>7, <4>1, Kinds DEF Strong, Value
      <4>3. CASE o \in Reached
        BY <3>5, <4>2, <4>3, ReachedClosed
      <4>4. CASE color[o] = "gray"
        <5>1. o \in gray \union grayagain
          BY <1>1, <3>4, <3>7, <4>1, <4>4, Kinds DEF IInv, Tricolour
        <5> QED BY <2>1, <2>2, <3>3, <4>2, <5>1
      <4>5. CASE color[o] = "black"
        <5>1. ~IsWhite(ref[o])
          BY <1>1, <3>2, <4>5 DEF IInv, Tricolour
        <5> QED BY <3>5, <5>1
      <4> QED BY <1>6, <3>4, <4>3, <4>4, <4>5
    <3> QED BY <3>6, <3>7
  <2> QED BY <1>1, <2>3, <2>4 DEF Sound
<1>16. Colours'
  BY <1>1, <1>4, <1>9, <1>10 DEF Colours, Allocated, IInv, TypeOK
<1>17. Tricolour' /\ Lists'
  BY <1>1 DEF Tricolour, Lists
<1> QED BY <1>13, <1>14, <1>15, <1>16, <1>17 DEF IInv

-----------------------------------------------------------------------------
(* The theorems. *)

LEMMA InitSound == Init => IInv
BY Kinds DEF Init, IInv, TypeOK, RefsTyped, Sound, Colours, Tricolour, Lists, Live, IsDead,
             Marking, Sweeping, Whites

LEMMA ProgramKeeps ==
  ASSUME IInv, Program
  PROVE  IInv'
<1>1. \A s \in Slots : stack[s] \in Val \union {Nil} /\ (stack[s] # Nil => Live(stack[s]))
  BY DEF IInv, TypeOK, Sound
<1>2. CASE \E s \in Slots : Drop(s)
  BY <1>2, PushKeeps DEF Drop
<1>3. CASE \E s, p \in Slots : Copy(s, p)
  BY <1>1, <1>3, PushKeeps DEF Copy
<1>4. CASE \E s, p \in Slots : GetField(s, p)
  BY <1>4, GetFieldKeeps
<1>5. CASE \E s, p \in Slots : GetUpvalue(s, p)
  BY <1>5, GetUpvalueKeeps
<1>6. CASE \E s \in Slots, t \in Tabs : NewTable(t, s)
  BY <1>6, NewTableKeeps
<1>7. CASE \E s \in Slots, c \in Strs : NewString(c, s)
  BY <1>7, NewStringKeeps
<1>8. CASE \E s, p \in Slots, f \in Funs : NewClosure(f, s, p)
  BY <1>8, NewClosureKeeps
<1>9. CASE \E s, p \in Slots, f \in Funs : InheritClosure(f, s, p)
  BY <1>9, InheritClosureKeeps
<1>10. CASE \E p, q \in Slots : SetField(p, q)
  BY <1>10, SetFieldKeeps
<1>11. CASE \E p, q \in Slots : SetUpvalue(p, q)
  BY <1>11, SetUpvalueKeeps
<1>12. CASE \E level \in Slots : CloseUpvalues(level)
  BY <1>12, CloseUpvaluesKeeps
<1> QED BY <1>2, <1>3, <1>4, <1>5, <1>6, <1>7, <1>8, <1>9, <1>10, <1>11, <1>12 DEF Program

LEMMA CollectorKeeps ==
  ASSUME IInv, Collector
  PROVE  IInv'
<1>1. CASE \E o \in Obj : SweepString(o) \/ Sweep(o)
  BY <1>1, PassKeeps DEF SweepString, Sweep, Sweeping
<1>2. CASE \E o \in Obj : Traverse(o) \/ TraverseWeak(o)
  BY <1>2, TraverseKeeps, TraverseWeakKeeps
<1> QED BY <1>1, <1>2, StartKeeps, TraverseThreadKeeps, EndPropagateKeeps, AtomicKeeps,
           EndSweepStringKeeps, EndSweepKeeps DEF Collector

LEMMA Invariance == Spec => []IInv
<1>1. ASSUME IInv, UNCHANGED vars
      PROVE  IInv'
  BY <1>1 DEF vars, IInv, TypeOK, RefsTyped, Sound, Colours, Tricolour, Lists, Live, IsDead,
              IsWhite, Marking, Sweeping
<1>2. ASSUME IInv, [Next]_vars
      PROVE  IInv'
  BY <1>1, <1>2, ProgramKeeps, CollectorKeeps, FullGCKeeps DEF Next
<1> QED BY <1>2, InitSound, PTL DEF Spec

(* The colours, lists and phases of the collector (lj_gc.c) stay what they *)
(* are: only tables, closures and the thread wait to be traversed, only    *)
(* objects to be swept, whatever the program does in between.              *)
THEOREM HeapTyped == Spec => []TypeOK
BY Invariance, PTL DEF IInv

(* The objects that are live hold the stack and all they refer to.         *)
LEMMA LiveCloses ==
  ASSUME IInv
  PROVE  NoDangling
<1> DEFINE N == {o \in Obj : Live(o)}
<1>1. Strong(L) \subseteq N
  BY Kinds DEF IInv, TypeOK, Sound, Strong
<1>2. ASSUME NEW x \in N
      PROVE  Refs(x) \subseteq N
  <2>1. CASE x \in WeakTabs
    BY <2>1 DEF Refs, IInv, TypeOK, Sound
  <2>2. CASE x \in Upvs
    BY <2>2, UpvalueLive, Kinds DEF Refs, Strong
  <2>3. CASE x \notin WeakTabs \union Upvs
    BY <2>3, Kinds DEF Refs, Strong, IInv, TypeOK, Sound
  <2> QED BY <2>1, <2>2, <2>3
<1>3. Reachable \subseteq N
  BY <1>1, <1>2 DEF Reachable
<1> QED BY <1>3 DEF NoDangling, Allocated, Live

(* The steps of lj_gc.c and the barriers of the program together free no   *)
(* object the program can still reach.                                     *)
THEOREM CollectsOnlyGarbage == Spec => []NoDangling
BY Invariance, LiveCloses, PTL

=============================================================================
