---------------------------- MODULE LuaVMProofs ----------------------------
(***************************************************************************)
(* The interpreter of LuaVM, on every bytecode that it can be given: if    *)
(* there are facts about the code that Accepts agrees with, no register is *)
(* read that was not written, control stays in the code, every open        *)
(* upvalue is a variable of an activation that is still there, and no      *)
(* variable that is declared immutable changes while a closure refers to   *)
(* it.                                                                     *)
(***************************************************************************)
EXTENDS LuaVM, TLAPS

-----------------------------------------------------------------------------
(* The invariant                                                           *)

(* The running function and the facts about its next instruction.          *)
Key == Top.fn[3]
Here == Flow(chunk)[Key].flow[Top.pc]

(* An activation that waits for a call: the call, the facts in front of    *)
(* it, and the slot above which the called function has its registers.     *)
CallOf(f) == ProtoOf(f.fn).code[f.pc - 1]
Before(f) == Flow(chunk)[f.fn[3]].flow[f.pc - 1]
Above(f) == f.base + CallOf(f).a + 1 + LJ_FR2

(* Value v refers to values in G, and to a prototype and upvalues that     *)
(* exist.                                                                  *)
Sound(v, G) ==
  /\ v # Stale
  /\ v[1] = "pair" => v[3] \in G /\ v[4] \in G
  /\ v[1] = "closure" =>
       /\ v[3] \in DOMAIN chunk.protos
       /\ DOMAIN v[4] = DOMAIN chunk.protos[v[3]].uvs
       /\ \A i \in DOMAIN v[4] :
            /\ v[4][i] \in DOMAIN upvals
            /\ upvals[v[4][i]].immutable => i \in Flow(chunk)[v[3]].frozen

FrameSet(G) == [id : Nat, fn : {v \in G : v[1] = "closure"}, base : Nat, pc : Nat]

UpvalueSet(G) ==
  [open : BOOLEAN, at : Nat, value : G, immutable : BOOLEAN, owner : Nat]

(* G is a set of values with which everything is a value.                  *)
DataOK(G) ==
  /\ \A v \in G : Sound(v, G)
  /\ stack \in Seq(G \cup {Stale})
  /\ \A x \in DOMAIN globals : globals[x] \in G
  /\ upvals \in [DOMAIN upvals -> UpvalueSet(G)]
  /\ \A k \in DOMAIN upvals : k[1] \in Nat /\ k[1] < made

(* Slot j holds a value.                                                   *)
Has(j, G) == j \in DOMAIN stack /\ stack[j] \in G

(* The activations fs wait for calls, each below the registers of the next *)
(* one.                                                                    *)
WaitingOK(fs, G) ==
  \A i \in DOMAIN fs :
    /\ fs[i].pc - 1 \in DOMAIN Flow(chunk)[fs[i].fn[3]].flow
    /\ CallOf(fs[i]).op \in CallOps
    /\ \A r \in Before(fs[i]).w : r < CallOf(fs[i]).a => Has(fs[i].base + r + 1, G)
    /\ \A j \in DOMAIN fs : i < j => Above(fs[i]) <= fs[j].base

(* A function whose registers begin above base leaves theirs alone.        *)
Follows(fs, base) == \A i \in DOMAIN fs : Above(fs[i]) <= base

(* The facts s about activation f know open upvalue u.                     *)
HeldIn(u, f, s) == u.owner = f.id /\ <<u.at - f.base - 1, u.immutable>> \in s.held

HeldBy(u, fs) == \E i \in DOMAIN fs : HeldIn(u, fs[i], Before(fs[i]))

(* No variable has two upvalues.                                           *)
OneEach ==
  \A j, k \in DOMAIN upvals :
    upvals[j].open /\ upvals[k].open /\ upvals[j].at = upvals[k].at => j = k

TopOK(G) ==
  /\ Top.pc \in DOMAIN Flow(chunk)[Key].flow
  /\ \A r \in Here.w : Has(Slot(r), G)
  /\ \A m \in Here.open : \A j \in 0..(multres - 1) : Has(Slot(m + j), G)
  /\ Follows(Callers, Top.base)

RunInv(G) ==
  /\ DataOK(G)
  /\ frames \in Seq(FrameSet(G)) /\ frames # <<>>
  /\ WaitingOK(Callers, G)
  /\ TopOK(G)
  /\ \A k \in DOMAIN upvals : upvals[k].open =>
       HeldBy(upvals[k], Callers) \/ HeldIn(upvals[k], Top, Here)
  /\ OneEach

Verified == Accepts(chunk, Flow(chunk))

Inv ==
  /\ outcome \in {"unloaded", "refused", "running", "returned", "failed"}
  /\ made \in Nat /\ multres \in Nat
  /\ outcome \in {"unloaded", "refused"} =>
       stack = <<>> /\ frames = <<>> /\ upvals = Empty /\ globals = Empty
  /\ outcome \in {"running", "returned", "failed"} => Verified /\ \E G : RunInv(G)

-----------------------------------------------------------------------------
(* Sequences                                                               *)

(* The activations but the last one.                                       *)
LEMMA CallersAre ==
  ASSUME NEW S, frames \in Seq(S), frames # <<>>
  PROVE  /\ Len(frames) \in Nat \ {0} /\ Top \in S
         /\ Callers \in Seq(S) /\ Len(Callers) = Len(frames) - 1
         /\ DOMAIN Callers = 1..(Len(frames) - 1)
         /\ \A i \in DOMAIN Callers : Callers[i] = frames[i]
<1>1. Len(frames) \in Nat \ {0} /\ Top \in S
  BY DEF Top
<1>2. Callers = [i \in 1..(Len(frames) - 1) |-> frames[i]]
  BY <1>1 DEF Callers
<1>3. \A i \in 1..(Len(frames) - 1) : frames[i] \in S
  BY <1>1
<1>4. Callers \in Seq(S) /\ Len(Callers) = Len(frames) - 1
  BY <1>1, <1>2, <1>3
<1> QED BY <1>1, <1>2, <1>4

(* Control moves within the running function.                              *)
LEMMA GotoMoves ==
  ASSUME NEW S, NEW t, frames \in Seq(S), frames # <<>>, Goto(t)
  PROVE  /\ Top' = [Top EXCEPT !.pc = t]
         /\ Callers' = Callers
         /\ DOMAIN frames' = DOMAIN frames /\ Len(frames') = Len(frames)
         /\ \A i \in DOMAIN frames : i # Len(frames) => frames'[i] = frames[i]
<1>1. Len(frames) \in DOMAIN frames /\ Len(frames') = Len(frames) /\ DOMAIN frames' = DOMAIN frames
  BY DEF Goto
<1>2. \A i \in DOMAIN frames : i # Len(frames) => frames'[i] = frames[i]
  BY <1>1 DEF Goto
<1>3. Top' = [Top EXCEPT !.pc = t]
  BY <1>1 DEF Goto, Top
<1>4. Callers' = Callers
  <2>1. Callers = [i \in 1..(Len(frames) - 1) |-> frames[i]]
    BY DEF Callers
  <2>2. Callers' = [i \in 1..(Len(frames') - 1) |-> frames'[i]]
    BY <1>1 DEF Callers, Goto
  <2> QED BY <2>1, <2>2, <1>1, <1>2
<1> QED BY <1>1, <1>2, <1>3, <1>4

(* Slots t are s but for v in those from lo to hi.                         *)
Filled(t, s, lo, hi, v) ==
  /\ \A j \in Nat : lo <= j /\ j <= hi => j \in DOMAIN t /\ t[j] = v
  /\ \A j \in DOMAIN s : /\ j \in DOMAIN t
                         /\ t[j] \in {s[j], v}
                         /\ j < lo \/ j > hi => t[j] = s[j]

(* So is what PutAll makes of slots s.                                     *)
LEMMA PutAllFills ==
  ASSUME NEW S, NEW s \in Seq(S), Stale \in S, NEW v \in S,
         NEW lo \in Nat \ {0}, NEW hi \in Nat
  PROVE  PutAll(s, lo, hi, v) \in Seq(S) /\ Filled(PutAll(s, lo, hi, v), s, lo, hi, v)
<1> DEFINE m == IF hi > Len(s) THEN hi ELSE Len(s)
           t == PutAll(s, lo, hi, v)
<1>1. m \in Nat /\ m >= hi /\ m >= Len(s)
  OBVIOUS
<1>2. t = [j \in 1..m |-> IF j \in lo..hi THEN v ELSE IF j <= Len(s) THEN s[j] ELSE Stale]
  BY DEF PutAll
<1> HIDE DEF t, m
<1>3. t \in Seq(S)
  BY <1>1, <1>2
<1>4. Filled(t, s, lo, hi, v)
  BY <1>1, <1>2 DEF Filled
<1> QED BY <1>3, <1>4 DEF t

-----------------------------------------------------------------------------
(* The running function                                                    *)

(* The running function has code, and the facts about its next instruction *)
(* agree with it.                                                          *)
LEMMA RunningCode ==
  ASSUME NEW G, Verified, RunInv(G)
  PROVE  /\ Top \in FrameSet(G) /\ Sound(Top.fn, G) /\ Top.fn[1] = "closure"
         /\ Top.base \in Nat /\ Top.pc \in Nat /\ Top.id \in Nat
         /\ Key \in DOMAIN chunk.protos
         /\ This = chunk.protos[Key].code[Top.pc]
         /\ Top.pc \in DOMAIN Flow(chunk)[Key].flow
         /\ PrototypeAccepted(chunk, Flow(chunk), Key)
         /\ Safe(chunk, Key, Top.pc, Here)
         /\ FrozenKept(chunk, Flow(chunk), Key, This)
         /\ Here.w \subseteq Nat
         /\ This.a \in Nat
<1>1. Top \in FrameSet(G)
  BY CallersAre DEF RunInv
<1>2. Top.fn \in G /\ Top.fn[1] = "closure" /\ Top.base \in Nat /\ Top.pc \in Nat /\ Top.id \in Nat
  BY <1>1 DEF FrameSet
<1>3. Sound(Top.fn, G)
  BY <1>2 DEF RunInv, DataOK
<1>4. Key \in DOMAIN chunk.protos
  BY <1>2, <1>3 DEF Sound, Key
<1>5. PrototypeAccepted(chunk, Flow(chunk), Key)
  BY <1>4 DEF Verified, Accepts
<1>6. This = chunk.protos[Key].code[Top.pc]
  BY DEF This, Code, ProtoOf, Key
<1>7. Top.pc \in DOMAIN Flow(chunk)[Key].flow
  BY DEF RunInv, TopOK
<1>8. /\ Safe(chunk, Key, Top.pc, Here)
      /\ FrozenKept(chunk, Flow(chunk), Key, This)
      /\ Here.w \subseteq Nat
  BY <1>5, <1>6, <1>7 DEF PrototypeAccepted, Here
<1>9. This.a \in Nat
  BY <1>6, <1>8 DEF Safe, Formed
<1> QED BY <1>1, <1>2, <1>3, <1>4, <1>5, <1>6, <1>7, <1>8, <1>9

(* So do the facts behind it, wherever control goes.                       *)
LEMMA EdgeTaken ==
  ASSUME NEW G, Verified, RunInv(G), NEW e \in Edges(chunk, Key, Top.pc, Here)
  PROVE  /\ e[1] \in DOMAIN Flow(chunk)[Key].flow /\ e[1] \in Nat
         /\ NoStronger(Flow(chunk)[Key].flow[e[1]], e[2])
<1>1. PrototypeAccepted(chunk, Flow(chunk), Key) /\ Top.pc \in DOMAIN Flow(chunk)[Key].flow
  BY RunningCode
<1> QED BY <1>1 DEF PrototypeAccepted, Here

(* What waits goes on waiting if no value is lost.                         *)
LEMMA WaitingStays ==
  ASSUME NEW G, NEW K, WaitingOK(Callers, G), chunk' = chunk, Callers' = Callers,
         \A j : Has(j, G) => Has(j, K)'
  PROVE  WaitingOK(Callers, K)'
<1>1. Flow(chunk') = Flow(chunk)
  OBVIOUS
<1>2. SUFFICES ASSUME NEW i \in DOMAIN Callers
               PROVE  /\ Callers[i].pc - 1 \in DOMAIN Flow(chunk)[Callers[i].fn[3]].flow
                      /\ CallOf(Callers[i]).op \in CallOps
                      /\ \A r \in Before(Callers[i]).w : r < CallOf(Callers[i]).a =>
                           (\A j : j = Callers[i].base + r + 1 => Has(j, K)')
                      /\ \A j \in DOMAIN Callers : i < j => Above(Callers[i]) <= Callers[j].base
  BY <1>1 DEF WaitingOK, CallOf, Before, Above, ProtoOf, Has
<1> QED BY DEF WaitingOK

(* A step within the running function, to where edge e leads: the facts    *)
(* that are new with it are shown, all others stay.                        *)
LEMMA LocalStep ==
  ASSUME NEW G, NEW K, NEW e \in Edges(chunk, Key, Top.pc, Here),
         Verified, RunInv(G), G \subseteq K,
         UNCHANGED <<chunk, multres>>, Goto(e[1]), DataOK(K)',
         \A j : Has(j, G) => Has(j, K)',
         \A r \in e[2].w \ Here.w : \A j : j = Slot(r) => Has(j, K)',
         e[2].open \subseteq Here.open,
         \A k \in DOMAIN upvals' : upvals'[k].open =>
           HeldBy(upvals'[k], Callers) \/ HeldIn(upvals'[k], Top, e[2]),
         OneEach'
  PROVE  RunInv(K)'
<1>1. Top \in FrameSet(G) /\ Top.pc \in DOMAIN Flow(chunk)[Key].flow
  BY RunningCode
<1>2. /\ e[1] \in DOMAIN Flow(chunk)[Key].flow /\ e[1] \in Nat
      /\ NoStronger(Flow(chunk)[Key].flow[e[1]], e[2])
  BY EdgeTaken
<1>3. frames \in Seq(FrameSet(G)) /\ frames # <<>> /\ WaitingOK(Callers, G) /\ TopOK(G)
  BY DEF RunInv
<1>4. /\ Top' = [Top EXCEPT !.pc = e[1]]
      /\ Callers' = Callers
      /\ DOMAIN frames' = DOMAIN frames /\ Len(frames') = Len(frames)
      /\ \A i \in DOMAIN frames : i # Len(frames) => frames'[i] = frames[i]
  BY <1>3, GotoMoves
<1>5. Top'.fn = Top.fn /\ Top'.base = Top.base /\ Top'.id = Top.id /\ Top'.pc = e[1]
  BY <1>1, <1>4 DEF FrameSet
<1>6. Key' = Key /\ Flow(chunk') = Flow(chunk) /\ Here' = Flow(chunk)[Key].flow[e[1]]
  BY <1>5 DEF Key, Here
<1>7. frames' \in Seq(FrameSet(K)) /\ frames' # <<>>
  <2>1. FrameSet(G) \subseteq FrameSet(K)
    BY DEF FrameSet
  <2>2. [Top EXCEPT !.pc = e[1]] \in FrameSet(K)
    BY <1>1, <1>2, <2>1 DEF FrameSet
  <2>3. frames' = [frames EXCEPT ![Len(frames)] = [Top EXCEPT !.pc = e[1]]]
    BY DEF Goto, Top
  <2>4. frames \in Seq(FrameSet(K))
    BY <1>3, <2>1
  <2> QED BY <1>3, <2>2, <2>3, <2>4
<1>8. WaitingOK(Callers, K)'
  BY <1>3, <1>4, WaitingStays
<1>9. TopOK(K)'
  <2>1. Top'.pc \in DOMAIN Flow(chunk')[Key'].flow
    BY <1>2, <1>5, <1>6
  <2>2. ASSUME NEW r \in Here'.w
        PROVE  Has(Slot(r), K)'
    <3>1. r \in e[2].w
      BY <1>2, <1>6 DEF NoStronger
    <3>2. Slot(r)' = Slot(r)
      BY <1>5 DEF Slot
    <3>3. \A j : j = Slot(r) => Has(j, K)'
      BY <1>3, <3>1 DEF TopOK
    <3> QED BY <3>2, <3>3 DEF Has
  <2>3. ASSUME NEW m \in Here'.open, NEW n \in 0..(multres - 1)
        PROVE  Has(Slot(m + n), K)'
    <3>1. m \in Here.open
      BY <1>2, <1>6 DEF NoStronger
    <3>2. Slot(m + n)' = Slot(m + n)
      BY <1>5 DEF Slot
    <3>3. \A j : j = Slot(m + n) => Has(j, K)'
      BY <1>3, <3>1 DEF TopOK
    <3> QED BY <3>2, <3>3 DEF Has
  <2>4. Follows(Callers, Top.base)'
    BY <1>3, <1>4, <1>5 DEF TopOK, Follows, Above, CallOf, ProtoOf
  <2> QED BY <2>1, <2>2, <2>3, <2>4 DEF TopOK
<1>10. ASSUME NEW k \in DOMAIN upvals', upvals'[k].open
       PROVE  (HeldBy(upvals[k], Callers) \/ HeldIn(upvals[k], Top, Here))'
  <2>1. HeldBy(upvals'[k], Callers) => HeldBy(upvals[k], Callers)'
    BY <1>4, <1>6 DEF HeldBy, HeldIn, Before
  <2>2. HeldIn(upvals'[k], Top, e[2]) => HeldIn(upvals[k], Top, Here)'
    BY <1>2, <1>5, <1>6 DEF HeldIn, NoStronger
  <2> QED BY <1>10, <2>1, <2>2
<1> QED BY <1>7, <1>8, <1>9, <1>10 DEF RunInv

(* Values stay sound when there are more of them, and more upvalues.       *)
LEMMA SoundStays ==
  ASSUME NEW G, NEW K, G \subseteq K, chunk' = chunk,
         \A k \in DOMAIN upvals : /\ k \in DOMAIN upvals'
                                  /\ upvals'[k].immutable = upvals[k].immutable,
         NEW v, Sound(v, G)
  PROVE  Sound(v, K)'
<1>1. Flow(chunk') = Flow(chunk)
  OBVIOUS
<1> QED BY <1>1 DEF Sound

(* A step that puts v into slots or globals, and does not touch upvalues.  *)
LEMMA ValueStep ==
  ASSUME NEW G, NEW v, NEW e \in Edges(chunk, Key, Top.pc, Here),
         Verified, RunInv(G), made \in Nat, made' \in Nat, made' >= made,
         UNCHANGED <<chunk, multres, upvals>>, Goto(e[1]),
         Sound(v, G \cup {v}),
         stack' \in Seq(G \cup {v} \cup {Stale}),
         \A j \in DOMAIN stack : j \in DOMAIN stack' /\ stack'[j] \in {stack[j], v},
         \A r \in e[2].w \ Here.w : Slot(r) \in DOMAIN stack' /\ stack'[Slot(r)] = v,
         \A x \in DOMAIN globals' : globals'[x] = v \/ (x \in DOMAIN globals /\ globals'[x] = globals[x]),
         Here.held \subseteq e[2].held, e[2].open \subseteq Here.open
  PROVE  \E K : RunInv(K)'
<1> DEFINE K == G \cup {v}
<1>1. DataOK(G) /\ OneEach
  BY DEF RunInv
<1>2. DataOK(K)'
  <2>1. ASSUME NEW u \in K PROVE Sound(u, K)'
    <3>1. CASE u \in G
      BY <1>1, <3>1, SoundStays DEF DataOK
    <3>2. CASE u = v
      BY <3>2, SoundStays
    <3> QED BY <3>1, <3>2
  <2>2. \A x \in DOMAIN globals' : globals'[x] \in K
    BY <1>1 DEF DataOK
  <2>3. upvals' \in [DOMAIN upvals' -> UpvalueSet(K)]
    BY <1>1 DEF DataOK, UpvalueSet
  <2>4. \A k \in DOMAIN upvals' : k[1] \in Nat /\ k[1] < made'
    BY <1>1 DEF DataOK
  <2> QED BY <2>1, <2>2, <2>3, <2>4 DEF DataOK
<1>3. \A j : Has(j, G) => Has(j, K)'
  BY DEF Has
<1>4. \A r \in e[2].w \ Here.w : \A j : j = Slot(r) => Has(j, K)'
  BY DEF Has
<1>5. \A k \in DOMAIN upvals' : upvals'[k].open =>
        HeldBy(upvals'[k], Callers) \/ HeldIn(upvals'[k], Top, e[2])
  BY DEF RunInv, HeldIn
<1>6. OneEach'
  BY <1>1 DEF OneEach
<1>7. RunInv(K)'
  BY <1>2, <1>3, <1>4, <1>5, <1>6, LocalStep, G \subseteq K
<1> QED BY <1>7

(* The next instruction is reached from every other than jumps, tests,     *)
(* tail calls and returns.                                                 *)
LEMMA NextEdge ==
  ASSUME This = chunk.protos[Key].code[Top.pc],
         This.op \notin ReturnOps \cup TailCallOps \cup Tests \cup {"JMP", "UCLO"}
  PROVE  <<Top.pc + 1, After(chunk, This, Here)>> \in Edges(chunk, Key, Top.pc, Here)
  BY DEF Edges

(* A step that puts v into the registers from lo to hi, which are those    *)
(* that the instruction writes.                                            *)
LEMMA RegisterStep ==
  ASSUME NEW G, NEW v, NEW lo \in Nat, NEW hi \in Nat,
         NEW e \in Edges(chunk, Key, Top.pc, Here),
         Verified, RunInv(G), made \in Nat, made' \in Nat, made' >= made,
         UNCHANGED <<chunk, multres, upvals, globals>>, Goto(e[1]),
         Sound(v, G \cup {v}),
         stack' = PutAll(stack, Slot(lo), Slot(hi), v),
         e[2].w \subseteq Here.w \cup lo..hi,
         Here.held \subseteq e[2].held, e[2].open \subseteq Here.open
  PROVE  \E K : RunInv(K)'
<1> DEFINE S == G \cup {v} \cup {Stale}
<1>1. Top.base \in Nat /\ stack \in Seq(S)
  BY RunningCode DEF RunInv, DataOK
<1>2. Slot(lo) \in Nat \ {0} /\ Slot(hi) \in Nat
  BY <1>1 DEF Slot
<1>3. /\ stack' \in Seq(S)
      /\ \A j \in Nat : Slot(lo) <= j /\ j <= Slot(hi) => j \in DOMAIN stack' /\ stack'[j] = v
      /\ \A j \in DOMAIN stack : j \in DOMAIN stack' /\ stack'[j] \in {stack[j], v}
  <2> DEFINE l == Slot(lo)
             h == Slot(hi)
  <2>1. Stale \in S /\ v \in S
    OBVIOUS
  <2>2. l \in Nat \ {0} /\ h \in Nat /\ stack' = PutAll(stack, l, h, v)
    BY <1>2
  <2> HIDE DEF S, l, h
  <2>3. stack' \in Seq(S) /\ Filled(stack', stack, l, h, v)
    BY ONLY <1>1, <2>1, <2>2, PutAllFills
  <2> QED BY <2>3 DEF l, h, Filled
<1>4. \A r \in e[2].w \ Here.w : Slot(r) \in DOMAIN stack' /\ stack'[Slot(r)] = v
  <2> SUFFICES ASSUME NEW r \in e[2].w \ Here.w
               PROVE  Slot(r) \in DOMAIN stack' /\ stack'[Slot(r)] = v
    OBVIOUS
  <2>1. r \in lo..hi
    OBVIOUS
  <2>2. Slot(r) \in Nat /\ Slot(lo) <= Slot(r) /\ Slot(r) <= Slot(hi)
    BY ONLY <1>1, <2>1 DEF Slot
  <2> QED BY <1>3, <2>2
<1> QED BY <1>3, <1>4, ValueStep

-----------------------------------------------------------------------------
(* Values that the invariant gives                                         *)

(* A value without parts is sound.                                         *)
LEMMA PlainSound ==
  ASSUME NEW v, NEW G, Plain(v)
  PROVE  Sound(v, G)
  BY DEF Plain, Sound

(* A sound value stays so among more values.                               *)
LEMMA SoundInMore ==
  ASSUME NEW v, NEW G, NEW K, G \subseteq K, Sound(v, G)
  PROVE  Sound(v, K)
  BY DEF Sound

(* A register that was written holds a value.                              *)
LEMMA RegisterHas ==
  ASSUME NEW G, RunInv(G), NEW r \in Here.w
  PROVE  /\ R(r) \in G /\ Sound(R(r), G) /\ Sound(R(r), G \cup {R(r)})
         /\ R(r) # Stale
<1>1. Has(Slot(r), G)
  BY DEF RunInv, TopOK
<1>2. R(r) \in G
  BY <1>1 DEF Has, R
<1>3. Sound(R(r), G)
  BY <1>2 DEF RunInv, DataOK
<1> QED BY <1>2, <1>3, SoundInMore DEF Sound

(* What is known of an activation that waits.                              *)
WaitsAt(f, G) ==
  /\ f \in FrameSet(G) /\ f.base \in Nat /\ f.pc \in Nat
  /\ CallOf(f).op \in CallOps /\ CallOf(f).a \in Nat /\ CallOf(f).b \in Nat
  /\ Above(f) \in Nat /\ f.base < Above(f)
  /\ Before(f).w \subseteq Nat
  /\ PrototypeAccepted(chunk, Flow(chunk), f.fn[3])
  /\ \A h \in Before(f).held : /\ h[1] \in Before(f).w
                               /\ h[1] < CallOf(f).a
                               /\ Has(f.base + h[1] + 1, G)

(* It waits at a call, and what the call leaves alone are values.          *)
LEMMA SuspendedCode ==
  ASSUME NEW G, NEW fs, Verified, \A v \in G : Sound(v, G),
         fs \in Seq(FrameSet(G)), WaitingOK(fs, G), NEW i \in DOMAIN fs
  PROVE  WaitsAt(fs[i], G)
<1> DEFINE f == fs[i]
           pc == f.pc - 1
           key == f.fn[3]
<1>1. f \in FrameSet(G)
  OBVIOUS
<1>2. f.fn \in G /\ f.fn[1] = "closure" /\ f.base \in Nat /\ f.pc \in Nat
  BY <1>1 DEF FrameSet
<1>3. key \in DOMAIN chunk.protos
  BY <1>2 DEF Sound
<1>4. PrototypeAccepted(chunk, Flow(chunk), key)
  BY <1>3 DEF Verified, Accepts
<1>5. /\ pc \in DOMAIN Flow(chunk)[key].flow
      /\ CallOf(f).op \in CallOps
      /\ \A r \in Before(f).w : r < CallOf(f).a => Has(f.base + r + 1, G)
  BY DEF WaitingOK
<1>6. Safe(chunk, key, pc, Before(f)) /\ Before(f).w \subseteq Nat
  BY <1>4, <1>5 DEF PrototypeAccepted, Before
<1>7. CallOf(f) = chunk.protos[key].code[pc]
  BY DEF CallOf, ProtoOf
<1>8. CallOf(f).a \in Nat /\ CallOf(f).b \in Nat
  BY <1>5, <1>6, <1>7 DEF Safe, Formed
<1>9. Above(f) \in Nat /\ f.base < Above(f)
  BY <1>2, <1>8 DEF Above, LJ_FR2
<1>10. ASSUME NEW h \in Before(f).held
       PROVE  h[1] \in Before(f).w /\ h[1] < CallOf(f).a
  BY <1>5, <1>6, <1>7 DEF Safe, ReadsWritten, HeldStays
<1> QED BY <1>1, <1>2, <1>4, <1>5, <1>6, <1>8, <1>9, <1>10 DEF WaitsAt

(* So do the activations below the running one.                            *)
LEMMA WaitingCode ==
  ASSUME NEW G, Verified, RunInv(G), NEW i \in DOMAIN Callers
  PROVE  WaitsAt(Callers[i], G) /\ Callers[i] = frames[i]
<1>1. Callers \in Seq(FrameSet(G)) /\ Callers[i] = frames[i]
  BY CallersAre DEF RunInv
<1>2. WaitingOK(Callers, G) /\ \A v \in G : Sound(v, G)
  BY DEF RunInv, DataOK
<1> QED BY <1>1, <1>2, SuspendedCode

(* The slot of an open upvalue holds a value.                              *)
LEMMA OpenHas ==
  ASSUME NEW G, Verified, RunInv(G), NEW k \in DOMAIN upvals, upvals[k].open
  PROVE  Has(upvals[k].at, G) /\ upvals[k].at \in Nat \ {0}
<1> DEFINE u == upvals[k]
<1>1. u.at \in Nat
  BY DEF RunInv, DataOK, UpvalueSet
<1>2. CASE HeldIn(u, Top, Here)
  <2>1. Top.base \in Nat /\ Safe(chunk, Key, Top.pc, Here) /\ Here.w \subseteq Nat
    BY RunningCode
  <2>2. u.at - Top.base - 1 \in Here.w
    <3>1. \A h \in Here.held : h[1] \in Here.w
      BY <2>1 DEF Safe, ReadsWritten
    <3> QED BY <1>2, <3>1 DEF HeldIn
  <2>3. Slot(u.at - Top.base - 1) = u.at
    BY <1>1, <2>1 DEF Slot
  <2>4. Has(u.at, G)
    BY <2>2, <2>3 DEF RunInv, TopOK
  <2> QED BY <1>1, <2>1, <2>2, <2>4
<1>3. CASE HeldBy(u, Callers)
  <2>1. PICK i \in DOMAIN Callers : HeldIn(u, Callers[i], Before(Callers[i]))
    BY <1>3 DEF HeldBy
  <2>2. /\ Callers[i].base \in Nat
        /\ Before(Callers[i]).w \subseteq Nat
        /\ \A h \in Before(Callers[i]).held :
             h[1] \in Before(Callers[i]).w /\ Has(Callers[i].base + h[1] + 1, G)
    BY WaitingCode DEF FrameSet, WaitsAt
  <2>3. /\ u.at - Callers[i].base - 1 \in Nat
        /\ Has(Callers[i].base + (u.at - Callers[i].base - 1) + 1, G)
    BY <2>1, <2>2 DEF HeldIn
  <2> QED BY <1>1, <2>2, <2>3
<1>4. HeldBy(u, Callers) \/ HeldIn(u, Top, Here)
  BY DEF RunInv
<1> QED BY <1>2, <1>3, <1>4

(* So the value of an upvalue is sound.                                    *)
LEMMA UpvalueSound ==
  ASSUME NEW G, Verified, RunInv(G), NEW k \in DOMAIN upvals
  PROVE  UpvalueValue(upvals[k]) \in G /\ Sound(UpvalueValue(upvals[k]), G)
<1>1. upvals[k].value \in G
  BY DEF RunInv, DataOK, UpvalueSet
<1>2. upvals[k].open => stack[upvals[k].at] \in G
  BY OpenHas DEF Has
<1> QED BY <1>1, <1>2 DEF UpvalueValue, RunInv, DataOK

-----------------------------------------------------------------------------
(* Steps that leave the upvalues alone                                     *)

(* The invariant in terms of a state in which a chunk runs.                *)
LEMMA RunningInv ==
  ASSUME Inv, outcome = "running"
  PROVE  made \in Nat /\ multres \in Nat /\ Verified /\ \E G : RunInv(G)
  BY DEF Inv

(* The invariant after a step of a chunk that runs.                        *)
LEMMA StillInv ==
  ASSUME Inv, outcome = "running", UNCHANGED chunk,
         outcome' \in {"running", "returned", "failed"},
         made' \in Nat, multres' \in Nat, (\E K : RunInv(K))'
  PROVE  Inv'
<1>1. Verified
  BY RunningInv
<1>2. Verified'
  BY <1>1 DEF Verified
<1> QED BY <1>2 DEF Inv

(* A run that fails or ends leaves everything as it is.                    *)
LEMMA StoppedInv ==
  ASSUME Inv, outcome = "running",
         UNCHANGED <<chunk, stack, frames, upvals, globals, made, multres>>,
         outcome' \in {"returned", "failed"}
  PROVE  Inv'
<1>1. made \in Nat /\ multres \in Nat
  BY RunningInv
<1>2. PICK G : RunInv(G)
  BY RunningInv
<1>3. RunInv(G)'
  <2>1. Top' = Top /\ Callers' = Callers
    BY DEF Top, Callers
  <2>2. Key' = Key /\ Here' = Here /\ Flow(chunk') = Flow(chunk)
    BY <2>1 DEF Key, Here
  <2>3. DataOK(G)' /\ OneEach'
    BY <1>2, <2>2 DEF RunInv, DataOK, Sound, OneEach
  <2>4. \A j : Has(j, G) => Has(j, G)'
    BY DEF Has
  <2>5. WaitingOK(Callers, G)'
    BY <1>2, <2>1, <2>4, WaitingStays DEF RunInv
  <2>6. TopOK(G)'
    BY <1>2, <2>1, <2>2 DEF RunInv, TopOK, Has, Slot, Follows, Above, CallOf, ProtoOf
  <2>7. \A k \in DOMAIN upvals' : upvals'[k].open =>
          (HeldBy(upvals[k], Callers) \/ HeldIn(upvals[k], Top, Here))'
    BY <1>2, <2>1, <2>2 DEF RunInv, HeldBy, HeldIn, Before
  <2> QED BY <1>2, <2>3, <2>5, <2>6, <2>7 DEF RunInv
<1> QED BY <1>1, <1>3, StillInv

(* One register is written, which is the one that the instruction writes.  *)
LEMMA WriteStep ==
  ASSUME NEW G, NEW v, NEW r \in Nat,
         Inv, outcome = "running", RunInv(G), Sound(v, G \cup {v}),
         This.op \notin ReturnOps \cup CallOps \cup TailCallOps \cup Tests \cup {"JMP", "UCLO", "FNEW"},
         Written(This) = {r}, stack' = Put(stack, Slot(r), v), Next_,
         UNCHANGED <<chunk, upvals, globals, multres, outcome>>,
         made' \in Nat, made' >= made
  PROVE  Inv'
<1>1. made \in Nat /\ multres \in Nat /\ Verified
  BY RunningInv
<1>2. PICK e : e = <<Top.pc + 1, After(chunk, This, Here)>>
  OBVIOUS
<1>3. e \in Edges(chunk, Key, Top.pc, Here)
  BY <1>1, <1>2, NextEdge, RunningCode
<1>4. e[2].w = Here.w \cup {r} /\ e[2].held = Here.held /\ e[2].open = {}
  BY <1>2 DEF After, WrittenAfter, HeldAfter, OpenAfter
<1>5. stack' = PutAll(stack, Slot(r), Slot(r), v)
  BY DEF Put
<1>6. Goto(e[1])
  BY <1>2 DEF Next_
<1>7. e[2].w \subseteq Here.w \cup r..r
  BY <1>4
<1>8. \E K : RunInv(K)'
  BY <1>1, <1>3, <1>4, <1>5, <1>6, <1>7, RegisterStep
<1> QED BY <1>1, <1>8, StillInv

(* A value is put into the register that the instruction names, or it      *)
(* raises an error.                                                        *)
LEMMA ResultStep ==
  ASSUME NEW G, NEW v, Inv, outcome = "running", RunInv(G),
         v = Fault \/ Sound(v, G \cup {v}),
         This.op \in {"MOV", "CONST", "UGET", "GGET", "TGETB", "ARITH", "NOT"},
         Result(This.a, v)
  PROVE  Inv'
<1>1. This.a \in Nat
  BY RunningInv, RunningCode
<1>2. CASE v = Fault
  BY <1>2, StoppedInv DEF Result, Fail
<1>3. CASE v # Fault
  <2>1. PICK r : r = This.a
    OBVIOUS
  <2>2. Written(This) = {r}
    BY <2>1 DEF Written
  <2>3. /\ stack' = Put(stack, Slot(r), v) /\ Next_
        /\ UNCHANGED <<chunk, upvals, globals, made, multres, outcome>>
    BY <1>3, <2>1 DEF Result
  <2>4. This.op \notin ReturnOps \cup CallOps \cup TailCallOps \cup Tests \cup {"JMP", "UCLO", "FNEW"}
    BY DEF ReturnOps, CallOps, TailCallOps, Tests, Copies, Compares
  <2>5. made' \in Nat /\ made' >= made
    BY <2>3, RunningInv
  <2> QED BY <1>1, <1>3, <2>1, <2>2, <2>3, <2>4, <2>5, WriteStep
<1> QED BY <1>2, <1>3

(* The parts of a sound value are sound.                                   *)
LEMMA ComponentSound ==
  ASSUME NEW G, NEW v, NEW k \in {1, 2}, \A u \in G : Sound(u, G), Sound(v, G)
  PROVE  Component(v, k) = Fault \/ Component(v, k) = Nil \/ Sound(Component(v, k), G)
<1>1. CASE v[1] = "pair"
  <2>1. v[3] \in G /\ v[4] \in G
    BY <1>1 DEF Sound
  <2>2. Component(v, k) = v[k + 2]
    BY <1>1 DEF Component
  <2>3. Component(v, k) \in G
    BY <2>1, <2>2
  <2> QED BY <2>3
<1>2. CASE v[1] = "str"
  <2>1. Component(v, k) = Raw(v[2]) \/ Component(v, k) = Nil
    BY <1>2 DEF Component
  <2>2. Plain(Raw(v[2]))
    BY DEF Plain, Raw, Stale
  <2> QED BY <2>1, <2>2, PlainSound
<1>3. CASE v[1] # "pair" /\ v[1] # "str"
  BY <1>3 DEF Component
<1> QED BY <1>1, <1>2, <1>3

(* Nil refers to nothing.                                                  *)
LEMMA NilSound ==
  ASSUME NEW G
  PROVE  Sound(Nil, G)
<1>1. Plain(Nil)
  BY DEF Plain, Nil, Stale
<1> QED BY <1>1, PlainSound

(* The registers that instructions read, by their form.                    *)
LEMMA ReadsOne ==
  ASSUME NEW c, NEW ins, NEW n
  PROVE  /\ ins.op \in {"MOV", "NOT", "IST", "ISF", "ISTC", "ISFC"} =>
              RegsRead(c, ins, n) = {ins.d}
         /\ ins.op = "TGETB" => RegsRead(c, ins, n) = {ins.b}
         /\ ins.op \in {"GSET", "RET1"} => RegsRead(c, ins, n) = {ins.a}
  BY DEF RegsRead, CallOps, TailCallOps, Compares

(* An assignment to an upvalue reads its operand.                          *)
LEMMA ReadsOperand ==
  ASSUME NEW c, NEW ins, NEW n, ins.op = "USET"
  PROVE  RegsRead(c, ins, n) = RegsOf({ins.d})
  BY DEF RegsRead, CallOps, TailCallOps, Compares

(* A store reads the table and the item.                                   *)
LEMMA ReadsTwo ==
  ASSUME NEW c, NEW ins, NEW n, ins.op = "TSETB"
  PROVE  RegsRead(c, ins, n) = {ins.a, ins.b}
  BY DEF RegsRead, CallOps, TailCallOps, Compares

(* TSETM reads the table and the results of the last call.                 *)
LEMMA ReadsResults ==
  ASSUME NEW c, NEW ins, NEW n, ins.op = "TSETM"
  PROVE  RegsRead(c, ins, n) = (ins.a - 1)..(ins.a + n - 1)
  BY DEF RegsRead, CallOps, TailCallOps, Compares

(* A call reads the callee and the arguments.                              *)
LEMMA ReadsArguments ==
  ASSUME NEW c, NEW ins, NEW n, ins.op \in CallOps \cup TailCallOps
  PROVE  RegsRead(c, ins, n) = {ins.a} \cup {ins.a + LJ_FR2 + i : i \in 1..ArgCount(ins, n)}
  BY DEF RegsRead, CallOps, TailCallOps, Compares

(* What an instruction reads besides the results of a call was written.    *)
LEMMA ReadsAreWritten ==
  ASSUME NEW G, Verified, RunInv(G)
  PROVE  RegsRead(chunk, This, 0) \subseteq Here.w
  BY RunningCode DEF Safe, ReadsWritten

(* Loads: of registers, constants, upvalues, globals and parts of pairs.   *)
LEMMA LoadInv ==
  ASSUME Inv, Load
  PROVE  Inv'
<1>1. outcome = "running"
  BY DEF Load, Now
<1>2. Verified
  BY <1>1, RunningInv
<1>3. PICK G : RunInv(G)
  BY <1>1, RunningInv
<1>4. PICK v : v = CASE This.op = "MOV"   -> R(This.d)
                     [] This.op = "CONST" -> This.d
                     [] This.op = "UGET"  -> UpvalueValue(upvals[UpvalueOf(This.d)])
                     [] This.op = "GGET"  -> GlobalValue(This.d)
                     [] This.op = "TGETB" -> Component(R(This.b), This.d)
  OBVIOUS
<1>5. Formed(chunk, Key, Top.pc) /\ RegsRead(chunk, This, 0) \subseteq Here.w
      /\ This = chunk.protos[Key].code[Top.pc]
  BY <1>2, <1>3, RunningCode, ReadsAreWritten DEF Safe
<1>6. \A u \in G : Sound(u, G)
  BY <1>3 DEF RunInv, DataOK
<1>7. v = Fault \/ Sound(v, G)
  <2>1. CASE This.op = "MOV"
    <3>1. This.d \in Here.w
      BY <1>5, <2>1, ReadsOne
    <3> QED BY <1>3, <1>4, <2>1, <3>1, RegisterHas
  <2>2. CASE This.op = "CONST"
    BY <1>4, <1>5, <2>2, PlainSound DEF Formed
  <2>3. CASE This.op = "UGET"
    <3>1. This.d \in DOMAIN chunk.protos[Key].uvs
      BY <1>5, <2>3 DEF Formed
    <3>2. Sound(Top.fn, G) /\ Top.fn[1] = "closure"
      BY <1>2, <1>3, RunningCode
    <3>3. UpvalueOf(This.d) \in DOMAIN upvals
      BY <3>1, <3>2 DEF Sound, UpvalueOf, Key
    <3> QED BY <1>2, <1>3, <1>4, <2>3, <3>3, UpvalueSound
  <2>4. CASE This.op = "GGET"
    <3>1. v = GlobalValue(This.d)
      BY <1>4, <2>4
    <3>2. This.d \in DOMAIN globals => Sound(globals[This.d], G)
      BY <1>3 DEF RunInv, DataOK
    <3> QED BY <3>1, <3>2, NilSound DEF GlobalValue
  <2>5. CASE This.op = "TGETB"
    <3>1. v = Component(R(This.b), This.d)
      BY <1>4, <2>5
    <3>2. This.d \in {1, 2} /\ This.b \in Here.w
      BY <1>5, <2>5, ReadsOne DEF Formed
    <3>3. Sound(R(This.b), G)
      BY <1>3, <3>2, RegisterHas
    <3> QED BY <1>6, <3>1, <3>2, <3>3, ComponentSound, NilSound
  <2> QED BY <2>1, <2>2, <2>3, <2>4, <2>5 DEF Load, Now
<1>8. v = Fault \/ Sound(v, G \cup {v})
  BY <1>7, SoundInMore, G \subseteq G \cup {v}
<1>9. Result(This.a, v)
  BY <1>4 DEF Load
<1>10. This.op \in {"MOV", "CONST", "UGET", "GGET", "TGETB", "ARITH", "NOT"}
  BY DEF Load, Now
<1> QED BY <1>1, <1>3, <1>8, <1>9, <1>10, ResultStep

(* KNIL puts nil into several registers.                                   *)
LEMMA LoadNilsInv ==
  ASSUME Inv, LoadNils
  PROVE  Inv'
<1>1. outcome = "running" /\ This.op = "KNIL"
  BY DEF LoadNils, Now
<1>2. Verified /\ made \in Nat /\ multres \in Nat
  BY <1>1, RunningInv
<1>3. PICK G : RunInv(G)
  BY <1>1, RunningInv
<1>4. PICK lo \in Nat, hi \in Nat : lo = This.a /\ hi = This.d
  <2>1. This.a \in Nat /\ This.d \in Nat
    BY <1>1, <1>2, <1>3, RunningCode DEF Safe, Formed
  <2> QED BY <2>1
<1>5. PICK e : e = <<Top.pc + 1, After(chunk, This, Here)>>
  OBVIOUS
<1>6. e \in Edges(chunk, Key, Top.pc, Here)
  BY <1>1, <1>2, <1>3, <1>5, NextEdge, RunningCode
    DEF ReturnOps, TailCallOps, Tests, Copies, Compares
<1>7. e[2].w \subseteq Here.w \cup lo..hi /\ Here.held \subseteq e[2].held /\ e[2].open \subseteq Here.open
  BY <1>1, <1>4, <1>5 DEF After, WrittenAfter, Written, HeldAfter, OpenAfter, CallOps, Copies
<1>8. stack' = PutAll(stack, Slot(lo), Slot(hi), Nil) /\ Goto(e[1])
      /\ UNCHANGED <<chunk, multres, upvals, globals, made, outcome>>
  BY <1>4, <1>5 DEF LoadNils, Next_
<1>9. Sound(Nil, G \cup {Nil})
  BY NilSound
<1>10. \E K : RunInv(K)'
  <2> DEFINE v == Nil
  <2>1. Sound(v, G \cup {v}) /\ stack' = PutAll(stack, Slot(lo), Slot(hi), v)
    BY <1>8, <1>9
  <2>2. made' \in Nat /\ made' >= made
    BY <1>2, <1>8
  <2> HIDE DEF v
  <2> QED BY <1>2, <1>3, <1>4, <1>6, <1>7, <1>8, <2>1, <2>2, RegisterStep
<1> QED BY <1>1, <1>2, <1>8, <1>10, StillInv

(* What arithmetic gives refers to nothing.                                *)
LEMMA OperatePlain ==
  ASSUME NEW op \in {"+", "-", "*", "/", "%"}, NEW a, NEW b
  PROVE  Plain(Operate(op, a, b))
<1>1. Plain(Arith(op, a, b))
  BY DEF Arith, OnNumbers, Plain, Num, NaN, Fault, Stale, Bool
<1> QED BY <1>1 DEF Operate, Plus, Str, Plain, Stale, Fault

(* A Boolean refers to nothing.                                            *)
LEMMA BoolPlain ==
  ASSUME NEW b
  PROVE  Plain(Bool(b))
  BY DEF Bool, Plain, Stale

(* Arithmetic and not.                                                     *)
LEMMA ComputeInv ==
  ASSUME Inv, Compute
  PROVE  Inv'
<1>1. outcome = "running" /\ This.op \in {"ARITH", "NOT"}
  BY DEF Compute, Now
<1>2. Verified
  BY <1>1, RunningInv
<1>3. PICK G : RunInv(G)
  BY <1>1, RunningInv
<1>4. PICK v : v = IF This.op = "NOT" THEN Bool(~Truthy(R(This.d)))
                   ELSE Operate(This.d[1], Value(This.b), Value(This.d[2]))
  OBVIOUS
<1>5. Plain(v)
  <2>1. CASE This.op = "NOT"
    BY <1>4, <2>1, BoolPlain
  <2>2. CASE This.op = "ARITH"
    <3>1. This.d[1] \in {"+", "-", "*", "/", "%"}
      BY <1>2, <1>3, <2>2, RunningCode DEF Safe, Formed
    <3>2. v = Operate(This.d[1], Value(This.b), Value(This.d[2]))
      BY <1>4, <2>2
    <3> QED BY <3>1, <3>2, OperatePlain
  <2> QED BY <1>1, <2>1, <2>2
<1>6. Result(This.a, v)
  BY <1>4 DEF Compute
<1> QED BY <1>1, <1>3, <1>5, <1>6, PlainSound, ResultStep

(* A set of values may have further sound ones.                            *)
LEMMA MoreValues ==
  ASSUME NEW G, NEW x, RunInv(G), Sound(x, G \cup {x})
  PROVE  RunInv(G \cup {x})
<1> DEFINE K == G \cup {x}
<1>1. G \subseteq K
  OBVIOUS
<1>2. DataOK(K)
  <2>1. DataOK(G)
    BY DEF RunInv
  <2>2. \A u \in K : Sound(u, K)
    BY <2>1, SoundInMore DEF DataOK
  <2>3. stack \in Seq(K \cup {Stale})
    BY <2>1 DEF DataOK
  <2>4. upvals \in [DOMAIN upvals -> UpvalueSet(K)]
    BY <2>1 DEF DataOK, UpvalueSet
  <2> QED BY <2>1, <2>2, <2>3, <2>4 DEF DataOK
<1>3. \A j : Has(j, G) => Has(j, K)
  BY DEF Has
<1>4. WaitingOK(Callers, K)
  BY <1>3 DEF RunInv, WaitingOK
<1>5. TopOK(K)
  BY <1>3 DEF RunInv, TopOK
<1>6. frames \in Seq(FrameSet(K)) /\ frames # <<>>
  <2>1. FrameSet(G) \subseteq FrameSet(K)
    BY <1>1 DEF FrameSet
  <2>2. frames \in Seq(FrameSet(G)) /\ frames # <<>>
    BY DEF RunInv
  <2> QED BY <2>1, <2>2
<1> QED BY <1>2, <1>4, <1>5, <1>6 DEF RunInv

(* Nil can be counted among the values.                                    *)
LEMMA RunningWithNil ==
  ASSUME Inv, outcome = "running"
  PROVE  \E G : RunInv(G) /\ Nil \in G
<1>1. PICK F : RunInv(F)
  BY RunningInv
<1>2. RunInv(F \cup {Nil})
  BY <1>1, MoreValues, NilSound
<1> QED BY <1>2, Nil \in F \cup {Nil}

(* Two sound values make a sound pair.                                     *)
LEMMA PairSound ==
  ASSUME NEW G, NEW id, NEW x \in G, NEW y \in G
  PROVE  Sound(Pair(id, x, y), G)
  BY DEF Sound, Pair, Stale

(* A pair of sound values is put into the register that is written.        *)
LEMMA PairStep ==
  ASSUME NEW G, NEW id, NEW x, NEW y, NEW r \in Nat,
         Inv, outcome = "running", RunInv(G), Sound(x, G), Sound(y, G),
         This.op \in {"TNEW", "TDUP", "TSETB", "TSETM"},
         Written(This) = {r}, stack' = Put(stack, Slot(r), Pair(id, x, y)), Next_,
         UNCHANGED <<chunk, upvals, globals, multres, outcome>>,
         made' \in Nat, made' >= made
  PROVE  Inv'
<1> DEFINE K == G \cup {x} \cup {y}
           v == Pair(id, x, y)
<1>1. RunInv(K)
  <2>1. RunInv(G \cup {x})
    BY MoreValues, SoundInMore, G \subseteq G \cup {x}
  <2>2. Sound(y, K)
    BY SoundInMore, G \subseteq K
  <2> HIDE DEF K
  <2>3. K = (G \cup {x}) \cup {y}
    BY DEF K
  <2> QED BY <2>1, <2>2, <2>3, MoreValues
<1>2. Sound(v, K)
  BY PairSound, x \in K, y \in K
<1>3. This.op \notin ReturnOps \cup CallOps \cup TailCallOps \cup Tests \cup {"JMP", "UCLO", "FNEW"}
  BY DEF ReturnOps, CallOps, TailCallOps, Tests, Copies, Compares
<1>4. stack' = Put(stack, Slot(r), v)
  OBVIOUS
<1> HIDE DEF K, v
<1>5. Sound(v, K \cup {v})
  BY <1>2, SoundInMore, K \subseteq K \cup {v}
<1> QED BY <1>1, <1>3, <1>4, <1>5, WriteStep

(* A new table has constants for items.                                    *)
LEMMA NewTableInv ==
  ASSUME Inv, NewTable
  PROVE  Inv'
<1>1. outcome = "running" /\ This.op \in {"TNEW", "TDUP"}
  BY DEF NewTable, Now
<1>2. Verified /\ made \in Nat
  BY <1>1, RunningInv
<1>3. PICK G : RunInv(G)
  BY <1>1, RunningInv
<1>4. PICK x, y : /\ stack' = Put(stack, Slot(This.a), Pair(made, x, y))
                  /\ x = Nil \/ \E j \in DOMAIN This.d : x = This.d[j][2]
                  /\ y = Nil \/ \E j \in DOMAIN This.d : y = This.d[j][2]
  <2> DEFINE Given(k) == {j \in DOMAIN This.d : This.d[j][1] = k}
             Item(k) == IF Given(k) = {} THEN Nil ELSE This.d[CHOOSE j \in Given(k) : TRUE][2]
  <2>1. stack' = Put(stack, Slot(This.a), Pair(made, Item(1), Item(2)))
    BY DEF NewTable
  <2>2. ASSUME NEW k
        PROVE  Item(k) = Nil \/ \E j \in DOMAIN This.d : Item(k) = This.d[j][2]
    <3>1. CASE Given(k) = {}
      BY <3>1
    <3>2. CASE Given(k) # {}
      <4>1. (CHOOSE j \in Given(k) : TRUE) \in Given(k)
        BY <3>2
      <4> QED BY <3>2, <4>1
    <3> QED BY <3>1, <3>2
  <2> HIDE DEF Item
  <2> QED BY <2>1, <2>2
<1>5. PICK n, r : n = made /\ r = This.a
  OBVIOUS
<1>6. r \in Nat /\ \A j \in DOMAIN This.d : Plain(This.d[j][2])
  BY <1>1, <1>2, <1>3, <1>5, RunningCode DEF Safe, Formed
<1>7. Sound(x, G) /\ Sound(y, G)
  BY <1>4, <1>6, PlainSound, NilSound
<1>8. Written(This) = {r}
  BY <1>1, <1>5 DEF Written
<1>9. /\ Next_ /\ UNCHANGED <<chunk, upvals, globals, multres, outcome>>
      /\ made' \in Nat /\ made' >= made
  BY <1>2 DEF NewTable
<1>10. stack' = Put(stack, Slot(r), Pair(n, x, y))
  BY <1>4, <1>5
<1>11. This.op \in {"TNEW", "TDUP", "TSETB", "TSETM"}
  BY <1>1
<1> QED BY <1>1, <1>3, <1>6, <1>7, <1>8, <1>9, <1>10, <1>11, PairStep

(* The results of the last call are in registers from m on.                *)
LEMMA ResultsHas ==
  ASSUME NEW G, RunInv(G), NEW m \in Here.open, NEW j \in 0..(multres - 1)
  PROVE  R(m + j) \in G /\ Sound(R(m + j), G) /\ R(m + j) # Stale
<1>1. Has(Slot(m + j), G)
  BY DEF RunInv, TopOK
<1>2. R(m + j) \in G
  BY <1>1 DEF Has, R
<1> QED BY <1>2 DEF RunInv, DataOK, Sound

(* Items are stored into a pair.                                           *)
LEMMA StoreItemInv ==
  ASSUME Inv, StoreItem
  PROVE  Inv'
<1>1. outcome = "running" /\ This.op \in {"TSETB", "TSETM"}
  BY DEF StoreItem, Now
<1>2. Verified /\ made \in Nat /\ multres \in Nat
  BY <1>1, RunningInv
<1>3. PICK G : RunInv(G)
  BY <1>1, RunningInv
<1> DEFINE t == IF This.op = "TSETM" THEN This.a - 1 ELSE This.b
           n == IF This.op = "TSETM" THEN multres ELSE 1
           Item(k) == IF k \in This.d..(This.d + n - 1) THEN R(This.a + k - This.d)
                      ELSE Component(R(t), k)
<1>4. stack' = Put(stack, Slot(t), Pair(R(t)[2], Item(1), Item(2)))
  BY DEF StoreItem
<1>5. /\ This.a \in Nat /\ This.d \in Nat /\ Here.w \subseteq Nat
      /\ RegsRead(chunk, This, 0) \subseteq Here.w
      /\ This.op = "TSETM" => This.a \in Here.open
  BY <1>1, <1>2, <1>3, RunningCode, ReadsAreWritten DEF Safe, Formed, ReadsWritten
<1>6. t \in Here.w /\ t \in Nat
  <2>1. CASE This.op = "TSETM"
    <3>1. RegsRead(chunk, This, 0) = (This.a - 1)..(This.a + 0 - 1)
      BY <2>1, ReadsResults
    <3>2. This.a - 1 \in (This.a - 1)..(This.a + 0 - 1)
      BY ONLY <1>5
    <3> QED BY <1>5, <2>1, <3>1, <3>2
  <2>2. CASE This.op = "TSETB"
    <3>1. RegsRead(chunk, This, 0) = {This.a, This.b}
      BY <2>2, ReadsTwo
    <3> QED BY <1>5, <2>2, <3>1
  <2> QED BY <1>1, <2>1, <2>2
<1>7. Sound(R(t), G)
  BY <1>3, <1>6, RegisterHas
<1>8. ASSUME NEW k \in {1, 2}
      PROVE  Sound(Item(k), G)
  <2>1. CASE k \in This.d..(This.d + n - 1)
    <3>1. CASE This.op = "TSETM"
      <4>1. k - This.d \in 0..(multres - 1) /\ This.a \in Here.open
        BY <1>2, <1>5, <2>1, <3>1
      <4>2. Sound(R(This.a + (k - This.d)), G)
        BY <1>3, <4>1, ResultsHas
      <4>3. This.a + (k - This.d) = This.a + k - This.d
        BY <1>5, <2>1
      <4> QED BY <2>1, <4>2, <4>3
    <3>2. CASE This.op = "TSETB"
      <4>1. This.a \in Here.w
        <5>1. RegsRead(chunk, This, 0) = {This.a, This.b}
          BY <3>2, ReadsTwo
        <5> QED BY ONLY <1>5, <5>1
      <4>2. This.a + k - This.d = This.a
        BY <1>5, <2>1, <3>2
      <4> QED BY <1>3, <2>1, <4>1, <4>2, RegisterHas
    <3> QED BY <1>1, <3>1, <3>2
  <2>2. CASE k \notin This.d..(This.d + n - 1)
    <3>1. Component(R(t), k) = Fault \/ Component(R(t), k) = Nil \/ Sound(Component(R(t), k), G)
      BY <1>3, <1>7, ComponentSound DEF RunInv, DataOK
    <3>2. Plain(Fault)
      BY DEF Plain, Fault, Stale
    <3> QED BY <2>2, <3>1, <3>2, PlainSound, NilSound
  <2> QED BY <2>1, <2>2
<1>9. PICK id, x, y, r : id = R(t)[2] /\ x = Item(1) /\ y = Item(2) /\ r = t
  OBVIOUS
<1>10. Sound(x, G) /\ Sound(y, G)
  BY <1>8, <1>9
<1>11. Written(This) = {r}
  BY <1>1, <1>9 DEF Written, Copies
<1>12. /\ Next_ /\ UNCHANGED <<chunk, upvals, globals, multres, outcome>>
       /\ made' \in Nat /\ made' >= made
  BY <1>2 DEF StoreItem
<1>13. stack' = Put(stack, Slot(r), Pair(id, x, y)) /\ r \in Nat
  BY <1>4, <1>6, <1>9
<1>14. This.op \in {"TNEW", "TDUP", "TSETB", "TSETM"}
  BY <1>1
<1> QED BY <1>1, <1>3, <1>10, <1>11, <1>12, <1>13, <1>14, PairStep

(* A global variable gets a value.                                         *)
LEMMA StoreGlobalInv ==
  ASSUME Inv, Store, This.op = "GSET"
  PROVE  Inv'
<1>1. outcome = "running"
  BY DEF Store, Now
<1>2. Verified /\ made \in Nat /\ multres \in Nat
  BY <1>1, RunningInv
<1>3. PICK G : RunInv(G)
  BY <1>1, RunningInv
<1>4. PICK v : v = R(This.a)
  OBVIOUS
<1>5. PICK e : e = <<Top.pc + 1, After(chunk, This, Here)>>
  OBVIOUS
<1>6. e \in Edges(chunk, Key, Top.pc, Here)
  BY <1>2, <1>3, <1>5, NextEdge, RunningCode
    DEF ReturnOps, TailCallOps, Tests, Copies, Compares
<1>7. e[2].w = Here.w /\ e[2].held = Here.held /\ e[2].open = {}
  BY <1>5 DEF After, WrittenAfter, Written, HeldAfter, OpenAfter, CallOps, Copies
<1>8. Sound(v, G \cup {v})
  <2>1. This.a \in Here.w
    BY <1>2, <1>3, ReadsAreWritten, ReadsOne
  <2> QED BY <1>3, <1>4, <2>1, RegisterHas
<1>9. /\ globals' = [x \in DOMAIN globals \cup {This.d} |-> IF x = This.d THEN v ELSE globals[x]]
      /\ Next_ /\ UNCHANGED <<chunk, stack, upvals, made, multres, outcome>>
  BY <1>4 DEF Store
<1>10. \A x \in DOMAIN globals' : globals'[x] = v \/ (x \in DOMAIN globals /\ globals'[x] = globals[x])
  BY <1>9
<1>11. stack' \in Seq(G \cup {v} \cup {Stale})
  BY <1>3, <1>9 DEF RunInv, DataOK
<1>12. Goto(e[1]) /\ made' \in Nat /\ made' >= made
  BY <1>2, <1>5, <1>9 DEF Next_
<1>13. \E K : RunInv(K)'
  BY <1>2, <1>3, <1>6, <1>7, <1>8, <1>9, <1>10, <1>11, <1>12, ValueStep
<1> QED BY <1>1, <1>2, <1>9, <1>13, StillInv

(* What an upvalue gets is a value.                                        *)
LEMMA OperandSound ==
  ASSUME NEW G, Verified, RunInv(G), This.op = "USET"
  PROVE  /\ Sound(Value(This.d), G)
         /\ This.a \in DOMAIN chunk.protos[Key].uvs
         /\ This.a \notin Flow(chunk)[Key].frozen
         /\ UpvalueOf(This.a) \in DOMAIN upvals
         /\ ~upvals[UpvalueOf(This.a)].immutable
<1>1. /\ Formed(chunk, Key, Top.pc) /\ This = chunk.protos[Key].code[Top.pc]
      /\ FrozenKept(chunk, Flow(chunk), Key, This)
      /\ Sound(Top.fn, G) /\ Top.fn[1] = "closure"
  BY RunningCode DEF Safe
<1>2. This.a \in DOMAIN chunk.protos[Key].uvs /\ (This.d[1] = "reg" \/ Plain(This.d[2]))
  BY <1>1 DEF Formed
<1>3. This.a \notin Flow(chunk)[Key].frozen
  BY <1>1 DEF FrozenKept
<1>4. UpvalueOf(This.a) \in DOMAIN upvals /\ ~upvals[UpvalueOf(This.a)].immutable
  BY <1>1, <1>2, <1>3 DEF Sound, UpvalueOf, Key
<1>5. CASE This.d[1] = "reg"
  <2>1. This.d[2] \in RegsOf({This.d})
    BY <1>5 DEF RegsOf
  <2>2. This.d[2] \in Here.w
    <3>1. RegsRead(chunk, This, 0) = RegsOf({This.d})
      BY ReadsOperand
    <3> QED BY <2>1, <3>1, ReadsAreWritten
  <2>3. Sound(R(This.d[2]), G)
    BY <2>2, RegisterHas
  <2> QED BY <1>2, <1>3, <1>4, <1>5, <2>3 DEF Value
<1>6. CASE This.d[1] # "reg"
  BY <1>2, <1>3, <1>4, <1>6, PlainSound DEF Value
<1> QED BY <1>5, <1>6

(* An assignment to an open upvalue goes into the slot of the variable,    *)
(* which may be one of any activation.                                     *)
LEMMA StoreOpenInv ==
  ASSUME Inv, Store, This.op = "USET", upvals[UpvalueOf(This.a)].open
  PROVE  Inv'
<1>1. outcome = "running"
  BY DEF Store, Now
<1>2. Verified /\ made \in Nat /\ multres \in Nat
  BY <1>1, RunningInv
<1>3. PICK G : RunInv(G)
  BY <1>1, RunningInv
<1>4. PICK v, at : v = Value(This.d) /\ at = upvals[UpvalueOf(This.a)].at
  OBVIOUS
<1>5. PICK e : e = <<Top.pc + 1, After(chunk, This, Here)>>
  OBVIOUS
<1>6. e \in Edges(chunk, Key, Top.pc, Here)
  BY <1>2, <1>3, <1>5, NextEdge, RunningCode
    DEF ReturnOps, TailCallOps, Tests, Copies, Compares
<1>7. e[2].w = Here.w /\ e[2].held = Here.held /\ e[2].open = {}
  BY <1>5 DEF After, WrittenAfter, Written, HeldAfter, OpenAfter, CallOps, Copies
<1>8. Sound(v, G) /\ UpvalueOf(This.a) \in DOMAIN upvals
  BY <1>2, <1>3, <1>4, OperandSound
<1>9. Sound(v, G \cup {v})
  BY <1>8, SoundInMore, G \subseteq G \cup {v}
<1>10. at \in Nat \ {0}
  BY <1>2, <1>3, <1>4, <1>8, OpenHas
<1>11. /\ stack' = PutAll(stack, at, at, v)
       /\ Next_ /\ UNCHANGED <<chunk, upvals, globals, made, multres, outcome>>
  BY <1>4 DEF Store, Put
<1> DEFINE S == G \cup {v} \cup {Stale}
<1>12. stack \in Seq(S) /\ Stale \in S /\ v \in S
  BY <1>3 DEF RunInv, DataOK
<1>13. stack' \in Seq(S) /\ \A j \in DOMAIN stack : j \in DOMAIN stack' /\ stack'[j] \in {stack[j], v}
  <2> HIDE DEF S
  <2>1. stack' \in Seq(S) /\ Filled(stack', stack, at, at, v)
    BY ONLY <1>10, <1>11, <1>12, PutAllFills
  <2> QED BY <2>1 DEF Filled
<1>14. Goto(e[1]) /\ made' \in Nat /\ made' >= made
  BY <1>2, <1>5, <1>11 DEF Next_
<1>15. \A x \in DOMAIN globals' : globals'[x] = v \/ (x \in DOMAIN globals /\ globals'[x] = globals[x])
  BY <1>11
<1>16. \E K : RunInv(K)'
  BY <1>2, <1>3, <1>6, <1>7, <1>9, <1>11, <1>13, <1>14, <1>15, ValueStep
<1> QED BY <1>1, <1>2, <1>11, <1>16, StillInv

(* An assignment to one that is closed goes into the object.               *)
LEMMA StoreClosedInv ==
  ASSUME Inv, Store, This.op = "USET", ~upvals[UpvalueOf(This.a)].open
  PROVE  Inv'
<1>1. outcome = "running"
  BY DEF Store, Now
<1>2. Verified /\ made \in Nat /\ multres \in Nat
  BY <1>1, RunningInv
<1>3. PICK G : RunInv(G)
  BY <1>1, RunningInv
<1>4. PICK v, i : v = Value(This.d) /\ i = UpvalueOf(This.a)
  OBVIOUS
<1>5. PICK e : e = <<Top.pc + 1, After(chunk, This, Here)>>
  OBVIOUS
<1>6. e \in Edges(chunk, Key, Top.pc, Here)
  BY <1>2, <1>3, <1>5, NextEdge, RunningCode
    DEF ReturnOps, TailCallOps, Tests, Copies, Compares
<1>7. e[2].w = Here.w /\ e[2].held = Here.held /\ e[2].open = {}
  BY <1>5 DEF After, WrittenAfter, Written, HeldAfter, OpenAfter, CallOps, Copies
<1>8. Sound(v, G) /\ i \in DOMAIN upvals
  BY <1>2, <1>3, <1>4, OperandSound
<1> DEFINE K == G \cup {v}
<1>9. Sound(v, K)
  BY <1>8, SoundInMore, G \subseteq K
<1>10. RunInv(K)
  BY <1>3, <1>9, MoreValues
<1>11. /\ upvals' = [upvals EXCEPT ![i].value = v]
       /\ Next_ /\ UNCHANGED <<chunk, stack, globals, made, multres, outcome>>
  BY <1>4 DEF Store
<1>12. upvals \in [DOMAIN upvals -> UpvalueSet(K)]
  BY <1>10 DEF RunInv, DataOK
<1>13. /\ DOMAIN upvals' = DOMAIN upvals
       /\ upvals' \in [DOMAIN upvals' -> UpvalueSet(K)]
       /\ \A k \in DOMAIN upvals : /\ upvals'[k].open = upvals[k].open
                                   /\ upvals'[k].at = upvals[k].at
                                   /\ upvals'[k].owner = upvals[k].owner
                                   /\ upvals'[k].immutable = upvals[k].immutable
  BY <1>8, <1>11, <1>12 DEF UpvalueSet
<1> HIDE DEF K
<1>14. DataOK(K)'
  <2>1. DataOK(K)
    BY <1>10 DEF RunInv
  <2>2. \A u \in K : Sound(u, K)'
    BY <1>11, <1>13, <2>1, SoundStays DEF DataOK
  <2> QED BY <1>11, <1>13, <2>1, <2>2 DEF DataOK
<1>15. \A k \in DOMAIN upvals' : upvals'[k].open =>
         HeldBy(upvals'[k], Callers) \/ HeldIn(upvals'[k], Top, e[2])
  BY <1>7, <1>10, <1>13 DEF RunInv, HeldBy, HeldIn
<1>16. OneEach'
  BY <1>10, <1>13 DEF RunInv, OneEach
<1>17. \A j : Has(j, K) => Has(j, K)'
  BY <1>11 DEF Has
<1>18. Goto(e[1])
  BY <1>5, <1>11 DEF Next_
<1>19. RunInv(K)'
  BY <1>2, <1>6, <1>7, <1>10, <1>11, <1>14, <1>15, <1>16, <1>17, <1>18, LocalStep
<1> QED BY <1>1, <1>2, <1>11, <1>19, StillInv

(* Assignments.                                                            *)
LEMMA StoreInv ==
  ASSUME Inv, Store
  PROVE  Inv'
<1>1. This.op \in {"USET", "GSET"}
  BY DEF Store, Now
<1> QED BY <1>1, StoreGlobalInv, StoreOpenInv, StoreClosedInv

-----------------------------------------------------------------------------
(* Jumps                                                                   *)

(* Only control moves.                                                     *)
LEMMA QuietStep ==
  ASSUME NEW G, NEW e \in Edges(chunk, Key, Top.pc, Here),
         Inv, outcome = "running", RunInv(G),
         UNCHANGED <<chunk, stack, upvals, globals, made, multres, outcome>>, Goto(e[1]),
         e[2].w \subseteq Here.w, Here.held \subseteq e[2].held, e[2].open \subseteq Here.open
  PROVE  Inv'
<1>1. made \in Nat /\ multres \in Nat /\ Verified
  BY RunningInv
<1>2. Sound(Nil, G \cup {Nil})
  BY NilSound
<1> DEFINE v == Nil
<1>3. /\ Sound(v, G \cup {v}) /\ made' \in Nat /\ made' >= made
      /\ stack' \in Seq(G \cup {v} \cup {Stale})
      /\ \A x \in DOMAIN globals' : x \in DOMAIN globals /\ globals'[x] = globals[x]
  BY <1>1, <1>2 DEF RunInv, DataOK
<1> HIDE DEF v
<1>4. \E K : RunInv(K)'
  BY <1>1, <1>3, ValueStep
<1> QED BY <1>1, <1>4, StillInv

(* A test goes to the target of the jump behind it, or past that.          *)
LEMMA TestEdges ==
  ASSUME This = chunk.protos[Key].code[Top.pc], This.op \in Tests
  PROVE  /\ <<Code[Top.pc + 1].d, After(chunk, This, Here)>> \in Edges(chunk, Key, Top.pc, Here)
         /\ <<Top.pc + 2, [After(chunk, This, Here) EXCEPT !.w = Here.w]>>
              \in Edges(chunk, Key, Top.pc, Here)
<1>1. This.op \notin ReturnOps \cup TailCallOps \cup {"JMP", "UCLO"}
  BY DEF ReturnOps, TailCallOps, Tests, Copies, Compares
<1>2. Code = chunk.protos[Key].code
  BY DEF Code, ProtoOf, Key
<1> QED BY <1>1, <1>2 DEF Edges

(* A test copies its operand if it holds and is asked to.                  *)
LEMMA TestInv ==
  ASSUME Inv, Test
  PROVE  Inv'
<1>1. outcome = "running" /\ This.op \in Tests
  BY DEF Test, Now
<1>2. Verified /\ made \in Nat /\ multres \in Nat
  BY <1>1, RunningInv
<1>3. PICK G : RunInv(G)
  BY <1>1, RunningInv
<1>4. CASE Holds(This) = Fault
  <2>1. Fail
    BY <1>4 DEF Test
  <2> QED BY <1>1, <2>1, StoppedInv DEF Fail
<1>5. CASE Holds(This) # Fault
  <2> DEFINE taken == Truthy(Holds(This))
  <2>1. /\ Goto(IF taken THEN Code[Top.pc + 1].d ELSE Top.pc + 2)
        /\ stack' = IF taken /\ This.op \in Copies THEN Put(stack, Slot(This.a), R(This.d)) ELSE stack
        /\ UNCHANGED <<chunk, upvals, globals, made, multres, outcome>>
    BY <1>5 DEF Test
  <2> HIDE DEF taken
  <2>2. This = chunk.protos[Key].code[Top.pc] /\ This.a \in Nat
    BY <1>2, <1>3, RunningCode
  <2>3. /\ This.op \notin CallOps \cup {"FNEW", "UCLO", "JMP"}
        /\ This.op \notin Copies => Written(This) = {}
        /\ This.op \in Copies => Written(This) = {This.a}
    BY <1>1 DEF CallOps, Tests, Copies, Compares, Written
  <2>4. /\ After(chunk, This, Here).w = Here.w \cup Written(This)
        /\ After(chunk, This, Here).held = Here.held
        /\ After(chunk, This, Here).open = {}
    BY <2>3 DEF After, WrittenAfter, HeldAfter, OpenAfter
  <2>5. CASE taken /\ This.op \in Copies
    <3>1. PICK e : e = <<Code[Top.pc + 1].d, After(chunk, This, Here)>>
      OBVIOUS
    <3>2. PICK v, r : v = R(This.d) /\ r = This.a
      OBVIOUS
    <3>3. e \in Edges(chunk, Key, Top.pc, Here)
      BY <1>1, <2>2, <3>1, TestEdges
    <3>4. Sound(v, G \cup {v})
      <4>1. RegsRead(chunk, This, 0) = {This.d}
        BY <2>5, ReadsOne DEF Copies
      <4>2. This.d \in Here.w
        BY <1>2, <1>3, <4>1, ReadsAreWritten
      <4> QED BY <1>3, <3>2, <4>2, RegisterHas
    <3>5. stack' = PutAll(stack, Slot(r), Slot(r), v)
      BY <2>1, <2>5, <3>2 DEF Put
    <3>6. e[2].w \subseteq Here.w \cup r..r /\ Here.held \subseteq e[2].held /\ e[2].open \subseteq Here.open
      <4>1. e[2].w = Here.w \cup {r} /\ e[2].held = Here.held /\ e[2].open = {}
        BY <2>3, <2>4, <2>5, <3>1, <3>2
      <4>2. r \in r..r
        BY <2>2, <3>2
      <4> QED BY <4>1, <4>2
    <3>7. Goto(e[1]) /\ made' \in Nat /\ made' >= made /\ r \in Nat
      <4>1. Goto(e[1])
        BY <2>1, <2>5, <3>1
      <4>2. made' \in Nat /\ made' >= made
        BY <1>2, <2>1
      <4> QED BY <2>2, <3>2, <4>1, <4>2
    <3>8. \E K : RunInv(K)'
      BY <1>2, <1>3, <2>1, <3>3, <3>4, <3>5, <3>6, <3>7, RegisterStep
    <3> QED BY <1>1, <1>2, <2>1, <3>8, StillInv
  <2>6. CASE taken /\ This.op \notin Copies
    <3>1. PICK e : e = <<Code[Top.pc + 1].d, After(chunk, This, Here)>>
      OBVIOUS
    <3>2. e \in Edges(chunk, Key, Top.pc, Here)
      BY <1>1, <2>2, <3>1, TestEdges
    <3>3. e[2].w \subseteq Here.w /\ Here.held \subseteq e[2].held /\ e[2].open \subseteq Here.open
      BY <2>3, <2>4, <2>6, <3>1
    <3>4. Goto(e[1]) /\ stack' = stack
      BY <2>1, <2>6, <3>1
    <3> QED BY <1>1, <1>3, <2>1, <3>2, <3>3, <3>4, QuietStep
  <2>7. CASE ~taken
    <3>1. PICK e : e = <<Top.pc + 2, [After(chunk, This, Here) EXCEPT !.w = Here.w]>>
      OBVIOUS
    <3>2. e \in Edges(chunk, Key, Top.pc, Here)
      BY <1>1, <2>2, <3>1, TestEdges
    <3>3. e[2].w \subseteq Here.w /\ Here.held \subseteq e[2].held /\ e[2].open \subseteq Here.open
      BY <2>4, <3>1 DEF After
    <3>4. Goto(e[1]) /\ stack' = stack
      BY <2>1, <2>7, <3>1
    <3> QED BY <1>1, <1>3, <2>1, <3>2, <3>3, <3>4, QuietStep
  <2> QED BY <2>5, <2>6, <2>7
<1> QED BY <1>4, <1>5

(* Where a jump goes, the variables that it closes are no longer held.     *)
LEMMA JumpEdge ==
  ASSUME This = chunk.protos[Key].code[Top.pc], This.op \in {"JMP", "UCLO"}
  PROVE  /\ <<This.d, After(chunk, This, Here)>> \in Edges(chunk, Key, Top.pc, Here)
         /\ After(chunk, This, Here).w = Here.w
         /\ After(chunk, This, Here).open = Here.open
         /\ After(chunk, This, Here).held =
              IF This.op = "UCLO" THEN {h \in Here.held : h[1] < This.a} ELSE Here.held
<1>1. This.op \notin ReturnOps \cup TailCallOps \cup CallOps \cup Tests
  BY DEF ReturnOps, TailCallOps, CallOps, Tests, Copies, Compares
<1>2. Written(This) = {}
  BY DEF Written, Copies
<1> QED BY <1>1, <1>2 DEF Edges, After, WrittenAfter, HeldAfter, OpenAfter

(* Variables at or above a register are closed, which takes them out of    *)
(* the facts, and keeps what they hold.                                    *)
LEMMA CloseInv ==
  ASSUME Inv, Jump, This.op = "UCLO"
  PROVE  Inv'
<1>1. outcome = "running"
  BY DEF Jump, Now
<1>2. Verified /\ made \in Nat /\ multres \in Nat
  BY <1>1, RunningInv
<1>3. PICK G : RunInv(G)
  BY <1>1, RunningInv
<1>4. PICK e : e = <<This.d, After(chunk, This, Here)>>
  OBVIOUS
<1>5. /\ e \in Edges(chunk, Key, Top.pc, Here)
      /\ e[2].w = Here.w /\ e[2].open = Here.open
      /\ e[2].held = {h \in Here.held : h[1] < This.a}
  BY <1>2, <1>3, <1>4, RunningCode, JumpEdge
<1>6. /\ upvals' = Closed(Slot(This.a)) /\ Goto(e[1])
      /\ UNCHANGED <<chunk, stack, globals, made, multres, outcome>>
  BY <1>4 DEF Jump
<1>7. Top.base \in Nat /\ This.a \in Nat
  BY <1>2, <1>3, RunningCode
<1>8. DataOK(G) /\ upvals \in [DOMAIN upvals -> UpvalueSet(G)]
  BY <1>3 DEF RunInv, DataOK
<1>9. DOMAIN upvals' = DOMAIN upvals
  BY <1>6 DEF Closed
<1>10. ASSUME NEW k \in DOMAIN upvals
       PROVE  /\ upvals'[k] \in UpvalueSet(G)
              /\ upvals'[k].immutable = upvals[k].immutable
              /\ upvals'[k].open => upvals'[k] = upvals[k] /\ upvals[k].at < Slot(This.a)
  <2>1. upvals[k] \in UpvalueSet(G)
    BY <1>8
  <2>2. Slot(This.a) \in Nat /\ upvals[k].at \in Nat
    BY <1>7, <2>1 DEF Slot, UpvalueSet
  <2>3. CASE upvals[k].open /\ upvals[k].at >= Slot(This.a)
    <3>1. upvals'[k] = [upvals[k] EXCEPT !.open = FALSE, !.value = stack[upvals[k].at], !.at = 0]
      BY <1>6, <2>3 DEF Closed
    <3>2. stack[upvals[k].at] \in G
      BY <1>2, <1>3, <2>3, OpenHas DEF Has
    <3>3. /\ upvals'[k].open = FALSE
          /\ upvals'[k].immutable = upvals[k].immutable
      BY <2>1, <3>1 DEF UpvalueSet
    <3>4. upvals'[k] \in UpvalueSet(G)
      <4> DEFINE u == upvals[k]
                 w == stack[upvals[k].at]
      <4>1. upvals'[k] = [u EXCEPT !.open = FALSE, !.value = w, !.at = 0]
        BY <3>1
      <4>2. u \in UpvalueSet(G) /\ w \in G
        BY <2>1, <3>2
      <4> HIDE DEF u, w
      <4>3. upvals'[k] = [open |-> FALSE, at |-> 0, value |-> w,
                          immutable |-> u.immutable, owner |-> u.owner]
        BY ONLY <4>1, <4>2 DEF UpvalueSet
      <4>4. u.immutable \in BOOLEAN /\ u.owner \in Nat
        BY ONLY <4>2 DEF UpvalueSet
      <4> QED BY ONLY <4>2, <4>3, <4>4 DEF UpvalueSet
    <3> QED BY <3>3, <3>4
  <2>4. CASE ~(upvals[k].open /\ upvals[k].at >= Slot(This.a))
    <3>1. upvals'[k] = upvals[k]
      BY <1>6, <2>4 DEF Closed
    <3> QED BY <2>1, <2>2, <2>4, <3>1
  <2> QED BY <2>3, <2>4
<1>11. DataOK(G)'
  <2>1. \A v \in G : Sound(v, G)'
    BY <1>6, <1>8, <1>9, <1>10, SoundStays DEF DataOK
  <2>2. upvals' \in [DOMAIN upvals' -> UpvalueSet(G)]
    BY <1>6, <1>9, <1>10 DEF Closed
  <2> QED BY <1>6, <1>8, <1>9, <2>1, <2>2 DEF DataOK
<1>12. ASSUME NEW k \in DOMAIN upvals', upvals'[k].open
       PROVE  HeldBy(upvals'[k], Callers) \/ HeldIn(upvals'[k], Top, e[2])
  <2>1. upvals'[k] = upvals[k] /\ upvals[k].at < Slot(This.a) /\ upvals[k].at \in Nat
    BY <1>8, <1>9, <1>10, <1>12 DEF UpvalueSet
  <2>2. HeldBy(upvals[k], Callers) \/ HeldIn(upvals[k], Top, Here)
    BY <1>3, <1>9, <1>12, <2>1 DEF RunInv
  <2>3. upvals[k].at - Top.base - 1 < This.a
    BY <1>7, <2>1 DEF Slot
  <2> QED BY <1>5, <2>1, <2>2, <2>3 DEF HeldIn
<1>13. OneEach'
  BY <1>3, <1>9, <1>10 DEF RunInv, OneEach
<1>14. \A j : Has(j, G) => Has(j, G)'
  BY <1>6 DEF Has
<1>15. RunInv(G)'
  BY <1>2, <1>3, <1>5, <1>6, <1>11, <1>12, <1>13, <1>14, LocalStep
<1> QED BY <1>1, <1>2, <1>6, <1>15, StillInv

(* Jumps, with or without variables to close.                              *)
LEMMA JumpInv ==
  ASSUME Inv, Jump
  PROVE  Inv'
<1>1. outcome = "running" /\ This.op \in {"JMP", "UCLO"}
  BY DEF Jump, Now
<1>2. CASE This.op = "JMP"
  <2>1. Verified
    BY <1>1, RunningInv
  <2>2. PICK G : RunInv(G)
    BY <1>1, RunningInv
  <2>3. PICK e : e = <<This.d, After(chunk, This, Here)>>
    OBVIOUS
  <2>4. /\ e \in Edges(chunk, Key, Top.pc, Here)
        /\ e[2].w = Here.w /\ e[2].open = Here.open /\ e[2].held = Here.held
    BY <1>2, <2>1, <2>2, <2>3, RunningCode, JumpEdge
  <2>5. Goto(e[1]) /\ UNCHANGED <<chunk, stack, upvals, globals, made, multres, outcome>>
    BY <1>2, <2>3 DEF Jump
  <2> QED BY <1>1, <2>2, <2>4, <2>5, QuietStep
<1> QED BY <1>1, <1>2, CloseInv

-----------------------------------------------------------------------------
(* New closures                                                            *)

(* An open upvalue of a variable whose slot is among the registers of the  *)
(* running function is one of its variables.                               *)
LEMMA OpenAtTop ==
  ASSUME NEW G, Verified, RunInv(G), NEW k \in DOMAIN upvals,
         upvals[k].open, upvals[k].at > Top.base
  PROVE  HeldIn(upvals[k], Top, Here)
<1> SUFFICES ASSUME HeldBy(upvals[k], Callers) PROVE FALSE
  BY DEF RunInv
<1>1. PICK i \in DOMAIN Callers : HeldIn(upvals[k], Callers[i], Before(Callers[i]))
  BY DEF HeldBy
<1>2. PICK r : r = upvals[k].at - Callers[i].base - 1
  OBVIOUS
<1>3. r < CallOf(Callers[i]).a
  BY <1>1, <1>2, WaitingCode DEF HeldIn, WaitsAt
<1>4. upvals[k].at \in Nat /\ Callers[i].base \in Nat /\ Top.base \in Nat /\ CallOf(Callers[i]).a \in Nat
  BY WaitingCode, RunningCode DEF FrameSet, RunInv, DataOK, UpvalueSet, WaitsAt
<1>5. Above(Callers[i]) <= Top.base
  BY DEF RunInv, TopOK, Follows
<1> QED BY <1>2, <1>3, <1>4, <1>5 DEF Above, LJ_FR2

(* The upvalue objects of a new closure's own, in terms of those that      *)
(* there are: the variables that have none get one.                        *)
Fresh(uvs, own) ==
  {i \in own : ~\E k \in DOMAIN upvals : upvals[k].open /\ upvals[k].at = Slot(uvs[i].at)}

(* Upvalues t have these besides what there were.                          *)
Extended(t, uvs, new) ==
  t = [k \in DOMAIN upvals \cup {<<made, i>> : i \in new} |->
         IF k \in DOMAIN upvals THEN upvals[k]
         ELSE [open |-> TRUE, at |-> Slot(uvs[k[2]].at), value |-> Nil,
               immutable |-> uvs[k[2]].immutable, owner |-> Top.id]]

(* The upvalue objects obj of a new closure.                               *)
ItsObjects(uvs, own, new, obj) ==
  /\ DOMAIN obj = DOMAIN uvs
  /\ \A i \in DOMAIN uvs :
       /\ i \notin own => obj[i] = UpvalueOf(uvs[i].at)
       /\ i \in new => obj[i] = <<made, i>>
       /\ i \in own \ new =>
            /\ obj[i] \in DOMAIN upvals
            /\ upvals[obj[i]].open /\ upvals[obj[i]].at = Slot(uvs[i].at)
            /\ upvals[obj[i]].immutable = uvs[i].immutable

(* What NewClosure makes: no variable that has an upvalue gets another.    *)
LEMMA NewUpvalues ==
  ASSUME NEW G, Verified, RunInv(G), NewClosure, made \in Nat
  PROVE  \E uvs, own, new, obj :
           /\ uvs = chunk.protos[This.d].uvs /\ own = Locals(chunk.protos[This.d])
           /\ new = Fresh(uvs, own)
           /\ Extended(upvals', uvs, new)
           /\ ItsObjects(uvs, own, new, obj)
           /\ stack' = Put(stack, Slot(This.a), Closure(made, This.d, obj))
<1> DEFINE proto == chunk.protos[This.d]
           uvs == proto.uvs
           own == Locals(proto)
           Known(i) == {k \in DOMAIN upvals : upvals[k].open /\ upvals[k].at = Slot(uvs[i].at)}
           fresh == {i \in own : Known(i) = {}}
           Object(i) == CASE i \notin own -> UpvalueOf(uvs[i].at)
                          [] i \in fresh -> <<made, i>>
                          [] i \in own \ fresh -> CHOOSE k \in Known(i) : TRUE
           New(i) == [open |-> TRUE, at |-> Slot(uvs[i].at), value |-> Nil,
                      immutable |-> uvs[i].immutable, owner |-> Top.id]
           Refound(k) == {i \in own : k \in Known(i)}
           Marked(k) == IF Refound(k) = {} THEN upvals[k]
                        ELSE [upvals[k] EXCEPT !.immutable =
                                uvs[CHOOSE i \in Refound(k) : TRUE].immutable]
           obj == [i \in DOMAIN uvs |-> Object(i)]
<1>1. /\ upvals' = [k \in DOMAIN upvals \cup {<<made, i>> : i \in fresh} |->
                      IF k \in DOMAIN upvals THEN Marked(k) ELSE New(k[2])]
      /\ stack' = Put(stack, Slot(This.a), Closure(made, This.d, obj))
      /\ This.op = "FNEW"
  BY DEF NewClosure, Now
<1>2. own \subseteq DOMAIN uvs
  BY DEF Locals
<1>3. ASSUME NEW i \in own
      PROVE  /\ uvs[i].at \in Nat
             /\ \A h \in Here.held : h[1] = uvs[i].at => h[2] = uvs[i].immutable
  <2>1. CapturesAgree(chunk, Key, This, Here)
    BY RunningCode DEF Safe
  <2> QED BY <1>1, <2>1 DEF CapturesAgree
<1>4. ASSUME NEW i \in own, NEW k \in Known(i)
      PROVE  upvals[k].immutable = uvs[i].immutable
  <2>1. Top.base \in Nat /\ uvs[i].at \in Nat
    BY <1>3, RunningCode
  <2>2. upvals[k].at = Top.base + uvs[i].at + 1
    BY DEF Slot
  <2>3. HeldIn(upvals[k], Top, Here)
    BY <2>1, <2>2, OpenAtTop
  <2>4. upvals[k].at - Top.base - 1 = uvs[i].at
    BY <2>1, <2>2
  <2>5. <<uvs[i].at, upvals[k].immutable>> \in Here.held
    BY <2>3, <2>4 DEF HeldIn
  <2> QED BY <1>3, <2>5
<1>5. ASSUME NEW k \in DOMAIN upvals
      PROVE  Marked(k) = upvals[k]
  <2>1. CASE Refound(k) = {}
    BY <2>1
  <2>2. CASE Refound(k) # {}
    <3>1. PICK i : i = CHOOSE x \in Refound(k) : TRUE
      OBVIOUS
    <3>2. i \in Refound(k)
      BY <2>2, <3>1
    <3>3. upvals[k].immutable = uvs[i].immutable
      BY <1>4, <3>2
    <3>4. Marked(k) = [upvals[k] EXCEPT !.immutable = uvs[i].immutable]
      BY <2>2, <3>1
    <3>5. upvals[k] \in UpvalueSet(G)
      BY DEF RunInv, DataOK
    <3> QED BY <3>3, <3>4, <3>5 DEF UpvalueSet
  <2> QED BY <2>1, <2>2
<1>6. fresh = Fresh(uvs, own)
  BY DEF Fresh
<1>7. upvals' = [k \in DOMAIN upvals \cup {<<made, i>> : i \in fresh} |->
                   IF k \in DOMAIN upvals THEN upvals[k] ELSE New(k[2])]
  BY <1>1, <1>5
<1>8. ASSUME NEW i \in DOMAIN uvs
      PROVE  /\ i \notin own => obj[i] = UpvalueOf(uvs[i].at)
             /\ i \in fresh => obj[i] = <<made, i>>
             /\ i \in own \ fresh => obj[i] \in Known(i)
  <2>1. obj[i] = Object(i)
    OBVIOUS
  <2>2. i \in own \ fresh => (CHOOSE k \in Known(i) : TRUE) \in Known(i)
    OBVIOUS
  <2>3. fresh \subseteq own
    OBVIOUS
  <2> HIDE DEF obj, own, fresh, Known
  <2> QED BY <2>1, <2>2, <2>3
<1> QED
  <2>1. \A i \in DOMAIN uvs : i \in own \ fresh =>
           /\ obj[i] \in DOMAIN upvals
           /\ upvals[obj[i]].open /\ upvals[obj[i]].at = Slot(uvs[i].at)
           /\ upvals[obj[i]].immutable = uvs[i].immutable
    <3> SUFFICES ASSUME NEW i \in own \ fresh
                 PROVE  obj[i] \in Known(i) /\ upvals[obj[i]].immutable = uvs[i].immutable
      BY <1>2
    <3>1. obj[i] \in Known(i)
      BY <1>2, <1>8
    <3> QED BY <1>4, <3>1
  <2>2. DOMAIN obj = DOMAIN uvs
    OBVIOUS
  <2>3. \A i \in DOMAIN uvs : /\ i \notin own => obj[i] = UpvalueOf(uvs[i].at)
                              /\ i \in fresh => obj[i] = <<made, i>>
    BY <1>8
  <2>4. uvs = chunk.protos[This.d].uvs /\ own = Locals(chunk.protos[This.d])
    OBVIOUS
  <2>5. Extended(upvals', uvs, fresh)
    BY <1>7 DEF Extended
  <2> HIDE DEF obj, own, fresh, uvs
  <2>6. ItsObjects(uvs, own, fresh, obj)
    BY <2>1, <2>2, <2>3 DEF ItsObjects
  <2> QED BY <1>1, <1>6, <2>4, <2>5, <2>6

(* What the code says of the variables that a new closure refers to.       *)
CapturesOK(uvs, own) ==
  /\ This.d \in DOMAIN chunk.protos /\ own \subseteq DOMAIN uvs
  /\ \A i, j \in own : uvs[i].at = uvs[j].at => i = j
  /\ \A i \in own :
       /\ uvs[i].at \in Nat /\ uvs[i].immutable \in BOOLEAN
       /\ uvs[i].immutable => i \in Flow(chunk)[This.d].frozen
       /\ <<uvs[i].at, uvs[i].immutable>> \in After(chunk, This, Here).held
  /\ \A i \in DOMAIN uvs \ own :
       /\ UpvalueOf(uvs[i].at) \in DOMAIN upvals
       /\ upvals[UpvalueOf(uvs[i].at)].immutable => i \in Flow(chunk)[This.d].frozen

(* The facts about the code say so.                                        *)
LEMMA CapturedVariables ==
  ASSUME NEW G, Verified, RunInv(G), This.op = "FNEW",
         NEW uvs, NEW own, uvs = chunk.protos[This.d].uvs, own = Locals(chunk.protos[This.d])
  PROVE  CapturesOK(uvs, own)
<1>1. /\ Formed(chunk, Key, Top.pc) /\ This = chunk.protos[Key].code[Top.pc]
      /\ CapturesAgree(chunk, Key, This, Here)
      /\ FrozenKept(chunk, Flow(chunk), Key, This)
      /\ Sound(Top.fn, G) /\ Top.fn[1] = "closure"
  BY RunningCode DEF Safe
<1>2. This.d \in DOMAIN chunk.protos /\ own \subseteq DOMAIN uvs
  BY <1>1 DEF Formed, Locals
<1>3. \A i \in DOMAIN uvs : i \in own <=> uvs[i].local
  BY DEF Locals
<1>4. \A i, j \in own : uvs[i].at = uvs[j].at => i = j
  BY <1>1 DEF CapturesAgree
<1>5. ASSUME NEW i \in own
      PROVE  /\ uvs[i].at \in Nat /\ uvs[i].immutable \in BOOLEAN
             /\ uvs[i].immutable => i \in Flow(chunk)[This.d].frozen
             /\ <<uvs[i].at, uvs[i].immutable>> \in After(chunk, This, Here).held
  <2>1. uvs[i].at \in Nat /\ uvs[i].immutable \in BOOLEAN
    BY <1>1 DEF CapturesAgree
  <2>2. uvs[i].immutable => i \in Flow(chunk)[This.d].frozen
    BY <1>1, <1>2, <1>3 DEF FrozenKept
  <2>3. <<uvs[i].at, uvs[i].immutable>> \in Captured(chunk, This)
    BY DEF Captured
  <2>4. After(chunk, This, Here).held = Here.held \cup Captured(chunk, This)
    BY DEF After, HeldAfter
  <2> QED BY <2>1, <2>2, <2>3, <2>4
<1>6. ASSUME NEW i \in DOMAIN uvs \ own
      PROVE  /\ UpvalueOf(uvs[i].at) \in DOMAIN upvals
             /\ upvals[UpvalueOf(uvs[i].at)].immutable => i \in Flow(chunk)[This.d].frozen
  <2>1. uvs[i].at \in DOMAIN chunk.protos[Key].uvs
    BY <1>1 DEF CapturesAgree
  <2>2. /\ UpvalueOf(uvs[i].at) \in DOMAIN upvals
        /\ upvals[UpvalueOf(uvs[i].at)].immutable => uvs[i].at \in Flow(chunk)[Key].frozen
    BY <1>1, <2>1 DEF Sound, UpvalueOf, Key
  <2>3. uvs[i].at \in Flow(chunk)[Key].frozen => i \in Flow(chunk)[This.d].frozen
    BY <1>1, <1>3 DEF FrozenKept
  <2> QED BY <2>2, <2>3
<1> QED BY <1>2, <1>4, <1>5, <1>6 DEF CapturesOK

(* A variable has one upvalue, whichever closures refer to it.             *)
LEMMA NewClosureInv ==
  ASSUME Inv, NewClosure
  PROVE  Inv'
<1>1. outcome = "running" /\ This.op = "FNEW"
  BY DEF NewClosure, Now
<1>2. Verified /\ made \in Nat /\ multres \in Nat
  BY <1>1, RunningInv
<1>3. PICK G : RunInv(G) /\ Nil \in G
  BY <1>1, RunningWithNil
<1>4. PICK uvs, own, new, obj :
           /\ uvs = chunk.protos[This.d].uvs /\ own = Locals(chunk.protos[This.d])
           /\ new = Fresh(uvs, own)
           /\ Extended(upvals', uvs, new)
           /\ ItsObjects(uvs, own, new, obj)
           /\ stack' = Put(stack, Slot(This.a), Closure(made, This.d, obj))
  BY <1>2, <1>3, NewUpvalues
<1>5. CapturesOK(uvs, own)
  BY <1>1, <1>2, <1>3, <1>4, CapturedVariables
<1>6. PICK v, r, e : /\ v = Closure(made, This.d, obj) /\ r = This.a
                     /\ e = <<Top.pc + 1, After(chunk, This, Here)>>
  OBVIOUS
<1>7. e \in Edges(chunk, Key, Top.pc, Here)
  BY <1>1, <1>2, <1>3, <1>6, NextEdge, RunningCode
    DEF ReturnOps, TailCallOps, Tests, Copies, Compares
<1>8. /\ e[2].w = Here.w \cup {r} /\ e[2].open = {}
      /\ Here.held \subseteq e[2].held
  BY <1>1, <1>6 DEF After, WrittenAfter, Written, HeldAfter, OpenAfter, CallOps, Copies
<1>9. /\ Next_ /\ Goto(e[1]) /\ made' = made + 1
      /\ UNCHANGED <<chunk, globals, multres, outcome>>
  BY <1>6 DEF NewClosure, Next_
<1>10. Top.base \in Nat /\ Top.id \in Nat /\ r \in Nat
  BY <1>2, <1>3, <1>6, RunningCode
<1>11. DataOK(G) /\ OneEach
  BY <1>3 DEF RunInv
<1>12. /\ DOMAIN upvals' = DOMAIN upvals \cup {<<made, i>> : i \in new}
       /\ \A k \in DOMAIN upvals : upvals'[k] = upvals[k]
  BY <1>4 DEF Extended
<1>13. new \subseteq own /\ own \subseteq DOMAIN uvs
  BY <1>4, <1>5 DEF Fresh, CapturesOK
<1>14. ASSUME NEW i \in new
       PROVE  /\ <<made, i>> \notin DOMAIN upvals
              /\ upvals'[<<made, i>>].at = Slot(uvs[i].at)
              /\ upvals'[<<made, i>>].immutable = uvs[i].immutable
              /\ upvals'[<<made, i>>].owner = Top.id
              /\ upvals'[<<made, i>>] \in UpvalueSet(G)
  <2> DEFINE k == <<made, i>>
  <2>1. k \notin DOMAIN upvals
    BY <1>2, <1>11 DEF DataOK
  <2>2. k \in DOMAIN upvals' /\ k[2] = i
    BY <1>12
  <2>3. upvals'[k] = [open |-> TRUE, at |-> Slot(uvs[i].at), value |-> Nil,
                      immutable |-> uvs[i].immutable, owner |-> Top.id]
    BY <1>4, <2>1, <2>2 DEF Extended
  <2>4. Slot(uvs[i].at) \in Nat /\ uvs[i].immutable \in BOOLEAN
    <3>1. i \in own
      BY <1>13
    <3>2. uvs[i].at \in Nat /\ uvs[i].immutable \in BOOLEAN
      BY <1>5, <3>1 DEF CapturesOK
    <3> QED BY <1>10, <3>2 DEF Slot
  <2>5. upvals'[k] \in UpvalueSet(G)
    BY <1>3, <1>10, <2>3, <2>4 DEF UpvalueSet
  <2> QED BY <2>1, <2>3, <2>5
<1> DEFINE K == G \cup {v}
<1>15. Sound(v, K)'
  <2>1. /\ v[1] = "closure" /\ v[3] = This.d /\ v[4] = obj /\ v # Stale
    BY <1>6 DEF Closure, Stale
  <2>2. DOMAIN obj = DOMAIN uvs /\ This.d \in DOMAIN chunk.protos
    BY <1>4, <1>5 DEF ItsObjects, CapturesOK
  <2>3. ASSUME NEW i \in DOMAIN uvs
        PROVE  /\ obj[i] \in DOMAIN upvals'
               /\ upvals'[obj[i]].immutable => i \in Flow(chunk)[This.d].frozen
    <3>1. CASE i \notin own
      <4>1. obj[i] = UpvalueOf(uvs[i].at)
        BY <1>4, <3>1 DEF ItsObjects
      <4> QED BY <1>12, <1>5, <3>1, <4>1 DEF CapturesOK
    <3>2. CASE i \in new
      <4>1. obj[i] = <<made, i>>
        BY <1>4, <3>2 DEF ItsObjects
      <4>2. upvals'[obj[i]].immutable = uvs[i].immutable
        BY <1>14, <3>2, <4>1
      <4> QED BY <1>12, <1>13, <1>5, <3>2, <4>1, <4>2 DEF CapturesOK
    <3>3. CASE i \in own \ new
      <4>1. obj[i] \in DOMAIN upvals /\ upvals[obj[i]].immutable = uvs[i].immutable
        BY <1>4, <3>3 DEF ItsObjects
      <4> QED BY <1>12, <1>5, <3>3, <4>1 DEF CapturesOK
    <3> QED BY <3>1, <3>2, <3>3
  <2>4. chunk' = chunk /\ Flow(chunk') = Flow(chunk)
    BY <1>9
  <2> QED BY <1>4, <2>1, <2>2, <2>3, <2>4 DEF Sound
<1>16. /\ stack' \in Seq(K \cup {Stale})
       /\ \A j : Has(j, G) => Has(j, K)'
       /\ \A q \in e[2].w \ Here.w : \A j : j = Slot(q) => Has(j, K)'
  <2> DEFINE S == K \cup {Stale}
             l == Slot(r)
  <2>1. l \in Nat \ {0} /\ stack' = PutAll(stack, l, l, v)
    BY <1>4, <1>6, <1>10 DEF Slot, Put
  <2>2. stack \in Seq(S) /\ Stale \in S /\ v \in S
    BY <1>11 DEF DataOK
  <2>3. stack' \in Seq(S) /\ Filled(stack', stack, l, l, v)
    <3> HIDE DEF S, l
    <3> QED BY ONLY <2>1, <2>2, PutAllFills
  <2>4. \A j : Has(j, G) => Has(j, K)'
    BY <2>3 DEF Has, Filled
  <2>5. Slot(r) \in DOMAIN stack' /\ stack'[Slot(r)] = v
    BY <2>1, <2>3 DEF Filled
  <2>6. \A q \in e[2].w \ Here.w : q = r
    BY <1>8
  <2> QED BY <2>3, <2>4, <2>5, <2>6 DEF Has
<1>17. DataOK(K)'
  <2>1. ASSUME NEW u \in K PROVE Sound(u, K)'
    <3>1. CASE u \in G
      BY <1>9, <1>11, <1>12, <3>1, SoundStays DEF DataOK
    <3>2. CASE u = v
      BY <1>15, <3>2
    <3> QED BY <3>1, <3>2
  <2>2. \A x \in DOMAIN globals' : globals'[x] \in K
    BY <1>9, <1>11 DEF DataOK
  <2>3. upvals' \in [DOMAIN upvals' -> UpvalueSet(K)]
    <3>1. UpvalueSet(G) \subseteq UpvalueSet(K)
      BY DEF UpvalueSet
    <3>2. \A k \in DOMAIN upvals' : upvals'[k] \in UpvalueSet(G)
      BY <1>11, <1>12, <1>14 DEF DataOK
    <3> HIDE DEF K
    <3>3. \A k \in DOMAIN upvals' : upvals'[k] \in UpvalueSet(K)
      BY <3>1, <3>2
    <3>4. upvals' = [k \in DOMAIN upvals' |-> upvals'[k]]
      BY <1>4 DEF Extended
    <3> QED BY <3>3, <3>4
  <2>4. \A k \in DOMAIN upvals' : k[1] \in Nat /\ k[1] < made'
    BY <1>2, <1>9, <1>11, <1>12 DEF DataOK
  <2> QED BY <1>16, <2>1, <2>2, <2>3, <2>4 DEF DataOK
<1>18. ASSUME NEW k \in DOMAIN upvals', upvals'[k].open
       PROVE  HeldBy(upvals'[k], Callers) \/ HeldIn(upvals'[k], Top, e[2])
  <2>1. CASE k \in DOMAIN upvals
    BY <1>3, <1>8, <1>12, <1>18, <2>1 DEF RunInv, HeldIn
  <2>2. CASE k \notin DOMAIN upvals
    <3>1. PICK i \in new : k = <<made, i>>
      BY <1>12, <2>2
    <3>2. upvals'[k].at = Slot(uvs[i].at) /\ upvals'[k].immutable = uvs[i].immutable
          /\ upvals'[k].owner = Top.id
      BY <1>14, <3>1
    <3>3. uvs[i].at \in Nat /\ <<uvs[i].at, uvs[i].immutable>> \in e[2].held
      BY <1>6, <1>13, <1>5 DEF CapturesOK
    <3>4. upvals'[k].at - Top.base - 1 = uvs[i].at
      BY <1>10, <3>2, <3>3 DEF Slot
    <3> QED BY <3>2, <3>3, <3>4 DEF HeldIn
  <2> QED BY <2>1, <2>2
<1>19. OneEach'
  <2> SUFFICES ASSUME NEW j \in DOMAIN upvals', NEW k \in DOMAIN upvals',
                      upvals'[j].open, upvals'[k].open, upvals'[j].at = upvals'[k].at
               PROVE  j = k
    BY DEF OneEach
  <2>1. ASSUME NEW x \in DOMAIN upvals, NEW i \in new, upvals[x].open
        PROVE  upvals[x].at # Slot(uvs[i].at)
    BY <1>4, <2>1 DEF Fresh
  <2>2. \A x \in DOMAIN upvals' \ DOMAIN upvals :
          \E i \in new : x = <<made, i>> /\ upvals'[x].at = Slot(uvs[i].at)
    BY <1>12, <1>14
  <2>3. CASE j \in DOMAIN upvals /\ k \in DOMAIN upvals
    BY <1>11, <1>12, <2>3 DEF OneEach
  <2>4. CASE j \notin DOMAIN upvals /\ k \notin DOMAIN upvals
    <3>1. PICK i \in new : j = <<made, i>> /\ upvals'[j].at = Slot(uvs[i].at)
      BY <2>2, <2>4
    <3>2. PICK n \in new : k = <<made, n>> /\ upvals'[k].at = Slot(uvs[n].at)
      BY <2>2, <2>4
    <3>3. uvs[i].at \in Nat /\ uvs[n].at \in Nat /\ (uvs[i].at = uvs[n].at => i = n)
      BY <1>13, <1>5 DEF CapturesOK
    <3>4. uvs[i].at = uvs[n].at
      BY <1>10, <3>1, <3>2, <3>3 DEF Slot
    <3> QED BY <3>1, <3>2, <3>3, <3>4
  <2> QED BY <1>12, <2>1, <2>2, <2>3, <2>4
<1>20. G \subseteq K /\ e[2].open \subseteq Here.open
  BY <1>8
<1> HIDE DEF K
<1>21. RunInv(K)'
  BY <1>2, <1>3, <1>7, <1>9, <1>16, <1>17, <1>18, <1>19, <1>20, LocalStep
<1>22. made' \in Nat /\ multres' \in Nat
  BY <1>2, <1>9
<1> QED BY <1>1, <1>9, <1>21, <1>22, StillInv

-----------------------------------------------------------------------------
(* Calls                                                                   *)

(* The activations fs wait, and all open upvalues are their variables.     *)
Suspended(fs, G) ==
  /\ fs \in Seq(FrameSet(G)) /\ WaitingOK(fs, G)
  /\ \A k \in DOMAIN upvals : upvals[k].open => HeldBy(upvals[k], fs)

(* A function that ends has closed its variables.                          *)
LEMMA CallersSuspended ==
  ASSUME NEW G, Verified, RunInv(G), This.op \in TailCallOps \cup ReturnOps
  PROVE  Suspended(Callers, G) /\ Follows(Callers, Top.base)
<1>1. Here.held = {}
  BY RunningCode DEF Safe, HeldStays
<1>2. Callers \in Seq(FrameSet(G))
  BY CallersAre DEF RunInv
<1>3. \A k \in DOMAIN upvals : upvals[k].open => HeldBy(upvals[k], Callers)
  BY <1>1 DEF RunInv, HeldIn
<1> QED BY <1>2, <1>3 DEF Suspended, RunInv, TopOK

(* A function that calls another one waits, the variables that closures    *)
(* refer to below what the call may use.                                   *)
LEMMA RunningSuspended ==
  ASSUME NEW G, Verified, RunInv(G), This.op \in CallOps,
         NEW fs, fs = [frames EXCEPT ![Len(frames)].pc = @ + 1]
  PROVE  Suspended(fs, G) /\ Follows(fs, Slot(This.a) + LJ_FR2) /\ fs # <<>>
<1>1. PICK n : n = Len(frames)
  OBVIOUS
<1>2. /\ frames \in Seq(FrameSet(G)) /\ frames # <<>>
      /\ WaitingOK(Callers, G) /\ TopOK(G)
  BY DEF RunInv
<1>3. /\ n \in Nat \ {0} /\ DOMAIN frames = 1..n /\ Top = frames[n]
      /\ DOMAIN Callers = 1..(n - 1)
      /\ \A i \in DOMAIN Callers : Callers[i] = frames[i]
  BY <1>1, <1>2, CallersAre DEF Top
<1>4. /\ Top \in FrameSet(G) /\ Top.base \in Nat /\ Top.pc \in Nat /\ This.a \in Nat
      /\ Top.pc \in DOMAIN Flow(chunk)[Key].flow
      /\ Here.w \subseteq Nat
  BY RunningCode
<1>5. /\ DOMAIN fs = 1..n /\ fs # <<>>
      /\ fs[n] = [Top EXCEPT !.pc = Top.pc + 1]
      /\ \A i \in 1..(n - 1) : fs[i] = Callers[i]
  BY <1>1, <1>3
<1>6. /\ fs[n].pc - 1 = Top.pc /\ fs[n].fn = Top.fn /\ fs[n].base = Top.base /\ fs[n].id = Top.id
      /\ fs[n] \in FrameSet(G)
  <2>1. Top.id \in Nat /\ Top.fn \in {v \in G : v[1] = "closure"}
        /\ Top.base \in Nat /\ Top.pc + 1 \in Nat
    BY <1>4 DEF FrameSet
  <2>2. fs[n] = [id |-> Top.id, fn |-> Top.fn, base |-> Top.base, pc |-> Top.pc + 1]
    BY <1>4, <1>5 DEF FrameSet
  <2>3. (Top.pc + 1) - 1 = Top.pc
    BY <1>4
  <2> QED BY <2>1, <2>2, <2>3 DEF FrameSet
<1>7. fs \in Seq(FrameSet(G))
  <2>1. fs = [frames EXCEPT ![n] = fs[n]]
    BY <1>1, <1>3
  <2> QED BY <1>2, <1>3, <1>6, <2>1
<1>8. CallOf(fs[n]) = This /\ Before(fs[n]) = Here
  BY <1>6 DEF CallOf, Before, This, Code, Here, Key
<1>9. Above(fs[n]) = Slot(This.a) + LJ_FR2 /\ Slot(This.a) + LJ_FR2 \in Nat
      /\ Top.base <= Slot(This.a) + LJ_FR2
  BY <1>4, <1>6, <1>8 DEF Above, Slot, LJ_FR2
<1>10. ASSUME NEW i \in 1..(n - 1)
       PROVE  /\ Above(fs[i]) <= Top.base /\ Above(fs[i]) \in Nat
              /\ fs[i] = Callers[i] /\ i \in DOMAIN Callers
  <2>1. Callers[i].base \in Nat /\ CallOf(Callers[i]).a \in Nat
    BY <1>3, WaitingCode DEF FrameSet, WaitsAt
  <2> QED BY <1>2, <1>3, <1>5, <2>1 DEF TopOK, Follows, Above, LJ_FR2
<1>11. ASSUME NEW i \in DOMAIN fs
       PROVE  /\ fs[i].pc - 1 \in DOMAIN Flow(chunk)[fs[i].fn[3]].flow
              /\ CallOf(fs[i]).op \in CallOps
              /\ \A r \in Before(fs[i]).w : r < CallOf(fs[i]).a => Has(fs[i].base + r + 1, G)
              /\ \A j \in DOMAIN fs : i < j => Above(fs[i]) <= fs[j].base
  <2>1. CASE i = n
    <3>1. \A j \in DOMAIN fs : ~(i < j)
      BY <1>3, <1>5, <2>1
    <3>2. \A r \in Here.w : Has(Top.base + r + 1, G)
      BY <1>2 DEF TopOK, Slot
    <3> QED BY <1>4, <1>6, <1>8, <2>1, <3>1, <3>2 DEF Key
  <2>2. CASE i \in 1..(n - 1)
    <3>1. \A j \in DOMAIN fs : i < j => Above(fs[i]) <= fs[j].base
      <4>1. SUFFICES ASSUME NEW j \in DOMAIN fs, i < j PROVE Above(fs[i]) <= fs[j].base
        OBVIOUS
      <4>2. CASE j = n
        BY <1>6, <1>10, <2>2, <4>2
      <4>3. CASE j \in 1..(n - 1)
        BY <1>2, <1>10, <2>2, <4>1, <4>3 DEF WaitingOK
      <4> QED BY <1>3, <1>5, <4>2, <4>3
    <3>2. fs[i] = Callers[i] /\ i \in DOMAIN Callers
      BY <1>10, <2>2
    <3> QED BY <1>2, <3>1, <3>2 DEF WaitingOK
  <2>3. i = n \/ i \in 1..(n - 1)
    BY <1>3, <1>5
  <2> QED BY <2>1, <2>2, <2>3
<1>12. WaitingOK(fs, G)
  BY <1>11 DEF WaitingOK
<1>13. Follows(fs, Slot(This.a) + LJ_FR2)
  <2> SUFFICES ASSUME NEW i \in DOMAIN fs
               PROVE  Above(fs[i]) <= Slot(This.a) + LJ_FR2
    BY DEF Follows
  <2>1. CASE i = n
    BY <1>9, <2>1
  <2>2. CASE i \in 1..(n - 1)
    BY <1>4, <1>9, <1>10, <2>2
  <2> QED BY <1>3, <1>5, <2>1, <2>2
<1>14. ASSUME NEW k \in DOMAIN upvals, upvals[k].open
       PROVE  HeldBy(upvals[k], fs)
  <2>1. CASE HeldIn(upvals[k], Top, Here)
    <3>1. n \in DOMAIN fs /\ HeldIn(upvals[k], fs[n], Before(fs[n]))
      BY <1>3, <1>5, <1>6, <1>8, <2>1 DEF HeldIn
    <3> QED BY <3>1 DEF HeldBy
  <2>2. CASE HeldBy(upvals[k], Callers)
    <3>1. PICK i \in DOMAIN Callers : HeldIn(upvals[k], Callers[i], Before(Callers[i]))
      BY <2>2 DEF HeldBy
    <3>2. i \in DOMAIN fs /\ fs[i] = Callers[i]
      BY <1>3, <1>5
    <3> QED BY <3>1, <3>2 DEF HeldBy
  <2> QED BY <1>14, <2>1, <2>2 DEF RunInv
<1> QED BY <1>5, <1>7, <1>12, <1>13, <1>14 DEF Suspended

(* Callee and arguments of a call are values.                              *)
LEMMA ArgsSound ==
  ASSUME NEW G, Verified, RunInv(G), multres \in Nat,
         This.op \in CallOps \cup TailCallOps
  PROVE  Callee \in G /\ Args \in Seq(G)
<1>1. /\ This.a \in Nat /\ This.d \in Nat /\ Here.w \subseteq Nat
      /\ RegsRead(chunk, This, 0) \subseteq Here.w
      /\ This.op \in {"CALLM", "CALLMT"} => This.a + LJ_FR2 + This.d + 1 \in Here.open
  BY RunningCode, ReadsAreWritten DEF Safe, Formed, ReadsWritten
<1>2. RegsRead(chunk, This, 0) =
        {This.a} \cup {This.a + LJ_FR2 + i : i \in 1..ArgCount(This, 0)}
  BY ReadsArguments
<1>3. Callee \in G
  BY <1>1, <1>2, RegisterHas DEF Callee
<1>4. NumArgs \in Int
  BY <1>1 DEF NumArgs, ArgCount
<1>5. ASSUME NEW i \in 1..NumArgs
      PROVE  R(This.a + LJ_FR2 + i) \in G
  <2>1. CASE i <= ArgCount(This, 0)
    <3>1. i \in 1..ArgCount(This, 0)
      BY <1>1, <1>4, <2>1 DEF ArgCount
    <3>2. This.a + LJ_FR2 + i \in Here.w
      BY <1>1, <1>2, <3>1
    <3> QED BY <3>2, RegisterHas
  <2>2. CASE ~(i <= ArgCount(This, 0))
    <3>1. This.op \in {"CALLM", "CALLMT"}
      BY <1>1, <1>4, <2>2 DEF NumArgs, ArgCount
    <3>2. PICK m, j : m = This.a + LJ_FR2 + This.d + 1 /\ j = i - This.d - 1
      OBVIOUS
    <3>3. m \in Here.open
      BY <1>1, <3>1, <3>2
    <3>4. j \in 0..(multres - 1) /\ m + j = This.a + LJ_FR2 + i
      BY <1>1, <1>4, <2>2, <3>1, <3>2 DEF NumArgs, ArgCount, LJ_FR2
    <3> QED BY <3>3, <3>4, ResultsHas
  <2> QED BY <2>1, <2>2
<1>6. Args \in Seq(G)
  <2> DEFINE n == IF NumArgs >= 0 THEN NumArgs ELSE 0
  <2>1. n \in Nat /\ 1..n = 1..NumArgs
    BY <1>4
  <2>2. Args = [i \in 1..n |-> R(This.a + LJ_FR2 + i)]
    BY <2>1 DEF Args
  <2>3. \A i \in 1..n : R(This.a + LJ_FR2 + i) \in G
    BY <1>5, <2>1
  <2> HIDE DEF n
  <2> QED BY <2>1, <2>2, <2>3
<1> QED BY <1>3, <1>6

(* u is s with t behind it.                                                *)
Joins(u, s, t) ==
  /\ DOMAIN u = 1..(Len(s) + Len(t))
  /\ \A i \in 1..Len(s) : u[i] = s[i]
  /\ \A i \in 1..Len(t) : u[Len(s) + i] = t[i]

(* So is what \o makes of sequences.                                       *)
LEMMA Concatenated ==
  ASSUME NEW S, NEW s \in Seq(S), NEW t \in Seq(S)
  PROVE  s \o t \in Seq(S) /\ Joins(s \o t, s, t)
<1>1. s \o t \in Seq(S) /\ Len(s \o t) = Len(s) + Len(t)
  OBVIOUS
<1>2. \A i \in 1..Len(s) : (s \o t)[i] = s[i]
  OBVIOUS
<1>3. \A i \in 1..Len(t) : (s \o t)[Len(s) + i] = t[i]
  OBVIOUS
<1> QED BY <1>1, <1>2, <1>3 DEF Joins

(* The slots below a function's registers, with its own on top.            *)
LEMMA BelowWith ==
  ASSUME NEW G, stack \in Seq(G \cup {Stale}), NEW n \in Nat, NEW t \in Seq(G),
         stack' = Below(n) \o t
  PROVE  /\ stack' \in Seq(G \cup {Stale})
         /\ \A j \in Nat : Has(j, G) /\ j <= n => Has(j, G)'
         /\ \A j \in 1..n : j \in DOMAIN stack => stack'[j] = stack[j]
         /\ \A i \in 1..Len(t) : \A j : j = n + i => Has(j, G)' /\ stack'[j] = t[i]
<1>1. /\ Below(n) \in Seq(G \cup {Stale}) /\ Len(Below(n)) = n
      /\ \A j \in 1..n : j \in DOMAIN stack => Below(n)[j] = stack[j]
  <2>1. Below(n) = [i \in 1..n |-> IF i <= Len(stack) THEN stack[i] ELSE Stale]
    BY DEF Below
  <2>2. \A i \in 1..n : (IF i <= Len(stack) THEN stack[i] ELSE Stale) \in G \cup {Stale}
    OBVIOUS
  <2>3. Below(n) \in Seq(G \cup {Stale}) /\ Len(Below(n)) = n
    BY <2>1, <2>2
  <2> QED BY <2>1, <2>3
<1>2. PICK s : s = Below(n)
  OBVIOUS
<1>3. t \in Seq(G \cup {Stale})
  OBVIOUS
<1>4. /\ stack' = s \o t /\ s \in Seq(G \cup {Stale}) /\ Len(s) = n
      /\ \A j \in 1..n : j \in DOMAIN stack => s[j] = stack[j]
  BY <1>1, <1>2
<1>5. /\ stack' \in Seq(G \cup {Stale}) /\ DOMAIN stack' = 1..(n + Len(t))
      /\ \A j \in 1..n : stack'[j] = s[j]
      /\ \A i \in 1..Len(t) : stack'[n + i] = t[i]
  <2>1. stack' \in Seq(G \cup {Stale}) /\ Joins(stack', s, t)
    BY <1>3, <1>4, Concatenated
  <2> QED BY <1>4, <2>1 DEF Joins
<1>6. ASSUME NEW j \in Nat, Has(j, G), j <= n
      PROVE  Has(j, G)'
  BY <1>4, <1>5, <1>6 DEF Has
<1>7. ASSUME NEW i \in 1..Len(t)
      PROVE  n + i \in DOMAIN stack' /\ stack'[n + i] = t[i] /\ t[i] \in G
  BY <1>5
<1> QED BY <1>4, <1>5, <1>6, <1>7 DEF Has

(* A step that keeps the values below n keeps what waits below n.          *)
LEMMA WaitingBelow ==
  ASSUME NEW G, NEW fs, NEW n \in Nat, WaitingOK(fs, G), fs \in Seq(FrameSet(G)),
         Verified, \A v \in G : Sound(v, G), chunk' = chunk, Follows(fs, n),
         \A j \in Nat : Has(j, G) /\ j <= n => Has(j, G)'
  PROVE  WaitingOK(fs, G)'
<1>1. Flow(chunk') = Flow(chunk)
  OBVIOUS
<1>2. ASSUME NEW i \in DOMAIN fs, NEW r \in Before(fs[i]).w, r < CallOf(fs[i]).a
      PROVE  \A j : j = fs[i].base + r + 1 => Has(j, G)'
  <2>1. fs[i].base \in Nat /\ r \in Nat /\ CallOf(fs[i]).a \in Nat
    BY SuspendedCode DEF WaitsAt
  <2>2. Has(fs[i].base + r + 1, G)
    BY <1>2 DEF WaitingOK
  <2>3. fs[i].base + r + 1 \in Nat /\ fs[i].base + r + 1 <= n
    BY <1>2, <2>1 DEF Follows, Above, LJ_FR2
  <2> QED BY <2>2, <2>3
<1>3. SUFFICES ASSUME NEW i \in DOMAIN fs
               PROVE  /\ fs[i].pc - 1 \in DOMAIN Flow(chunk)[fs[i].fn[3]].flow
                      /\ CallOf(fs[i]).op \in CallOps
                      /\ \A r \in Before(fs[i]).w : r < CallOf(fs[i]).a =>
                           (\A j : j = fs[i].base + r + 1 => Has(j, G)')
                      /\ \A j \in DOMAIN fs : i < j => Above(fs[i]) <= fs[j].base
  BY <1>1 DEF WaitingOK, CallOf, Before, Above, ProtoOf, Has
<1> QED BY <1>2 DEF WaitingOK

(* The last activation of a sequence, and the others.                      *)
LEMMA LastOf ==
  ASSUME NEW S, NEW fs \in Seq(S), NEW f, frames' = Append(fs, f), f \in S
  PROVE  /\ frames' \in Seq(S) /\ frames' # <<>>
         /\ Top' = f /\ Callers' = fs
<1>1. /\ frames' \in Seq(S) /\ Len(frames') = Len(fs) + 1 /\ frames'[Len(fs) + 1] = f
      /\ \A i \in 1..Len(fs) : frames'[i] = fs[i]
  OBVIOUS
<1>2. Top' = f
  BY <1>1 DEF Top
<1>3. Callers' = [i \in 1..(Len(frames') - 1) |-> frames'[i]]
  BY <1>1 DEF Callers
<1>4. Len(frames') - 1 = Len(fs) /\ fs = [i \in 1..Len(fs) |-> fs[i]]
  BY <1>1
<1>5. Callers' = fs
  BY <1>1, <1>3, <1>4
<1> QED BY <1>1, <1>2, <1>5

(* A function is entered on top of activations fs that wait.               *)
LEMMA EnterStep ==
  ASSUME NEW G, NEW fs, NEW base \in Nat, NEW fn \in G, NEW params \in Seq(G),
         Verified, RunInv(G), made \in Nat, Suspended(fs, G), Follows(fs, base),
         fn[1] = "closure", Len(params) = ProtoOf(fn).numparams,
         stack' = Below(base) \o params,
         frames' = Append(fs, Frame(made, fn, base)), made' = made + 1,
         UNCHANGED <<chunk, upvals, globals>>
  PROVE  RunInv(G)'
<1>1. PICK f : f = Frame(made, fn, base)
  OBVIOUS
<1>2. f.id = made /\ f.fn = fn /\ f.base = base /\ f.pc = 2 /\ f \in FrameSet(G)
  BY <1>1 DEF Frame, FrameSet
<1>3. fs \in Seq(FrameSet(G)) /\ WaitingOK(fs, G) /\ DataOK(G)
  BY DEF Suspended, RunInv
<1>4. frames' \in Seq(FrameSet(G)) /\ frames' # <<>> /\ Top' = f /\ Callers' = fs
  BY <1>1, <1>2, <1>3, LastOf
<1>5. Flow(chunk') = Flow(chunk) /\ chunk' = chunk
  OBVIOUS
<1>6. /\ stack' \in Seq(G \cup {Stale})
      /\ \A j \in Nat : Has(j, G) /\ j <= base => Has(j, G)'
      /\ \A i \in 1..Len(params) : \A j : j = base + i => Has(j, G)'
  <2>1. stack \in Seq(G \cup {Stale})
    BY <1>3 DEF DataOK
  <2> QED BY <2>1, BelowWith
<1>7. DataOK(G)'
  <2>1. \A u \in G : Sound(u, G)'
    BY <1>3, SoundStays, G \subseteq G DEF DataOK
  <2>2. upvals' \in [DOMAIN upvals' -> UpvalueSet(G)]
    BY <1>3 DEF DataOK
  <2>3. \A k \in DOMAIN upvals' : k[1] \in Nat /\ k[1] < made'
    BY <1>3 DEF DataOK
  <2>4. \A x \in DOMAIN globals' : globals'[x] \in G
    BY <1>3 DEF DataOK
  <2> QED BY <1>6, <2>1, <2>2, <2>3, <2>4 DEF DataOK
<1>8. WaitingOK(Callers, G)'
  <2>1. \A v \in G : Sound(v, G)
    BY <1>3 DEF DataOK
  <2>2. WaitingOK(fs, G)'
    BY <1>3, <1>6, <2>1, WaitingBelow
  <2> QED BY <1>4, <2>2 DEF WaitingOK
<1>9. fn[3] \in DOMAIN chunk.protos /\ PrototypeAccepted(chunk, Flow(chunk), fn[3])
  <2>1. Sound(fn, G)
    BY <1>3 DEF DataOK
  <2> QED BY <2>1 DEF Sound, Verified, Accepts
<1>10. PICK n, s : n = chunk.protos[fn[3]].numparams /\ s = Flow(chunk)[fn[3]].flow[2]
  OBVIOUS
<1>11. /\ 2 \in DOMAIN Flow(chunk)[fn[3]].flow /\ n \in Nat
       /\ s.w \subseteq 0..(n - 1) /\ s.open = {}
  BY <1>9, <1>10 DEF PrototypeAccepted, NoStronger, AtEntry
<1>12. Key' = fn[3] /\ Here' = s
  BY <1>2, <1>4, <1>5, <1>10 DEF Key, Here
<1>13. TopOK(G)'
  <2>1. Top'.pc \in DOMAIN Flow(chunk')[Key'].flow
    BY <1>2, <1>4, <1>5, <1>11, <1>12
  <2>2. ASSUME NEW r \in Here'.w PROVE Has(Slot(r), G)'
    <3>1. r \in 0..(n - 1) /\ Len(params) = n
      BY <1>10, <1>11, <1>12 DEF ProtoOf
    <3>2. r + 1 \in 1..Len(params) /\ Slot(r)' = base + (r + 1)
      BY <1>2, <1>4, <1>11, <3>1 DEF Slot
    <3>3. \A j : j = base + (r + 1) => Has(j, G)'
      BY <1>6, <3>2
    <3> QED BY <3>2, <3>3 DEF Has
  <2>3. Follows(Callers, Top.base)'
    BY <1>2, <1>4, <1>5 DEF Follows, Above, CallOf, ProtoOf
  <2> QED BY <1>11, <1>12, <2>1, <2>2, <2>3 DEF TopOK
<1>14. ASSUME NEW k \in DOMAIN upvals', upvals'[k].open
       PROVE  HeldBy(upvals[k], Callers)'
  <2>1. HeldBy(upvals[k], fs)
    BY <1>14 DEF Suspended
  <2> QED BY <1>4, <1>5, <2>1 DEF HeldBy, HeldIn, Before
<1>15. OneEach'
  BY DEF RunInv, OneEach
<1> QED BY <1>4, <1>7, <1>8, <1>13, <1>14, <1>15 DEF RunInv

(* What waits while a function that is called runs, and where that one has *)
(* its registers.                                                          *)
LEMMA WhatWaits ==
  ASSUME NEW G, Verified, RunInv(G), This.op \in CallOps \cup TailCallOps,
         NEW fs, fs = Waiting,
         NEW base, base = IF InTail THEN Top.base ELSE Slot(This.a) + LJ_FR2
  PROVE  /\ Suspended(fs, G) /\ Follows(fs, base) /\ base \in Nat
         /\ fs = <<>> => fs = Callers
<1>1. CASE InTail
  BY <1>1, RunningCode, CallersSuspended DEF Waiting, InTail
<1>2. CASE ~InTail
  <2>1. fs = [frames EXCEPT ![Len(frames)].pc = @ + 1] /\ base = Slot(This.a) + LJ_FR2
    BY <1>2 DEF Waiting
  <2>2. This.op \in CallOps
    BY <1>2 DEF InTail
  <2>3. base \in Nat
    BY <2>1, RunningCode DEF Slot, LJ_FR2
  <2> QED BY <2>1, <2>2, <2>3, RunningSuspended
<1> QED BY <1>1, <1>2

(* A function gets as many parameters as it has.                           *)
LEMMA ParametersSound ==
  ASSUME NEW G, Verified, RunInv(G), Nil \in G, multres \in Nat,
         This.op \in CallOps \cup TailCallOps, Callee[1] = "closure"
  PROVE  /\ Parameters(Callee) \in Seq(G)
         /\ Len(Parameters(Callee)) = ProtoOf(Callee).numparams
<1>1. PICK fn, n : fn = Callee /\ n = ProtoOf(fn).numparams
  OBVIOUS
<1>2. fn \in G /\ Args \in Seq(G)
  BY <1>1, ArgsSound
<1>3. n \in Nat
  <2>1. Sound(fn, G)
    BY <1>2 DEF RunInv, DataOK
  <2> QED BY <1>1, <2>1 DEF Sound, Verified, Accepts, PrototypeAccepted, ProtoOf
<1>4. Parameters(fn) = [i \in 1..n |-> IF i <= NumArgs THEN Args[i] ELSE Nil]
  BY <1>1 DEF Parameters
<1>5. ASSUME NEW i \in 1..n
      PROVE  (IF i <= NumArgs THEN Args[i] ELSE Nil) \in G
  <2>1. DOMAIN Args = 1..NumArgs
    BY DEF Args
  <2>2. NumArgs \in Int
    <3>1. This.d \in Nat
      BY RunningCode DEF Safe, Formed
    <3> QED BY <3>1 DEF NumArgs, ArgCount
  <2>3. i <= NumArgs => i \in DOMAIN Args
    BY <1>3, <2>1, <2>2
  <2>4. i \in DOMAIN Args => Args[i] \in G
    BY <1>2
  <2> QED BY <2>3, <2>4
<1> QED BY <1>1, <1>3, <1>4, <1>5

(* A function is called.                                                   *)
LEMMA EnterFunctionInv ==
  ASSUME Inv, EnterFunction
  PROVE  Inv'
<1>1. outcome = "running" /\ This.op \in CallOps \cup TailCallOps
  BY DEF EnterFunction, Calling, Now
<1>2. Verified /\ made \in Nat /\ multres \in Nat
  BY <1>1, RunningInv
<1>3. PICK G : RunInv(G) /\ Nil \in G
  BY <1>1, RunningWithNil
<1>4. PICK fs, base, fn, params :
           /\ fs = Waiting /\ fn = Callee /\ params = Parameters(Callee)
           /\ base = IF InTail THEN Top.base ELSE Slot(This.a) + LJ_FR2
  OBVIOUS
<1>5. /\ fn[1] = "closure"
      /\ stack' = Below(base) \o params
      /\ frames' = Append(fs, Frame(made, fn, base)) /\ made' = made + 1
      /\ UNCHANGED <<chunk, upvals, globals, multres, outcome>>
  BY <1>4 DEF EnterFunction
<1>6. Suspended(fs, G) /\ Follows(fs, base)
  BY <1>1, <1>2, <1>3, <1>4, WhatWaits
<1>7. base \in Nat
  BY <1>1, <1>2, <1>3, <1>4, WhatWaits
<1>8. fn \in G /\ Args \in Seq(G)
  BY <1>1, <1>2, <1>3, <1>4, ArgsSound
<1>9. params \in Seq(G) /\ Len(params) = ProtoOf(fn).numparams
  BY <1>1, <1>2, <1>3, <1>4, <1>5, ParametersSound
<1>10. RunInv(G)'
  BY <1>2, <1>3, <1>5, <1>6, <1>7, <1>8, <1>9, EnterStep
<1> QED BY <1>1, <1>2, <1>5, <1>10, StillInv

(* g is fs without its last element.                                       *)
Prefix(g, fs) == DOMAIN g = 1..(Len(fs) - 1) /\ \A i \in DOMAIN g : g[i] = fs[i]

(* Without the last one, activations that wait still do.                   *)
LEMMA ButLast ==
  ASSUME NEW G, NEW fs, NEW g, fs \in Seq(FrameSet(G)), fs # <<>>, WaitingOK(fs, G),
         g = SubSeq(fs, 1, Len(fs) - 1)
  PROVE  /\ g \in Seq(FrameSet(G)) /\ WaitingOK(g, G)
         /\ Follows(g, fs[Len(fs)].base)
         /\ Prefix(g, fs)
<1>1. PICK n : n = Len(fs)
  OBVIOUS
<1>2. n \in Nat \ {0} /\ DOMAIN fs = 1..n
  BY <1>1
<1>3. g = [i \in 1..(n - 1) |-> fs[i]]
  BY <1>1
<1>4. DOMAIN g = 1..(n - 1) /\ \A i \in DOMAIN g : g[i] = fs[i] /\ i \in DOMAIN fs
  BY <1>2, <1>3
<1>5. g \in Seq(FrameSet(G))
  <2>1. \A i \in 1..(n - 1) : fs[i] \in FrameSet(G)
    BY <1>2
  <2> QED BY <1>2, <1>3, <2>1
<1>6. WaitingOK(g, G)
  BY <1>4 DEF WaitingOK
<1>7. Follows(g, fs[n].base)
  <2> SUFFICES ASSUME NEW i \in DOMAIN g PROVE Above(fs[i]) <= fs[n].base
    BY <1>4 DEF Follows
  <2>1. i \in DOMAIN fs /\ n \in DOMAIN fs /\ i < n
    BY <1>2, <1>4
  <2> QED BY <2>1 DEF WaitingOK
<1> QED BY <1>1, <1>4, <1>5, <1>6, <1>7 DEF Prefix

(* Where results lie, as registers and as slots above the lowest one: a    *)
(* call asks for b - 1 of them.                                            *)
LEMMA ResultSlots ==
  ASSUME NEW base \in Nat, NEW a \in Nat, NEW b \in Nat
  PROVE  \A r \in a..(a + b - 2) :
           r - a + 1 \in 1..(b - 1) /\ base + r + 1 = (base + a) + (r - a + 1)
  OBVIOUS

(* A call gives its results to the last one of the activations that wait.  *)
LEMMA GiveStep ==
  ASSUME NEW G, NEW fs, NEW results \in Seq(G), Nil \in G,
         Verified, RunInv(G), Suspended(fs, G), fs # <<>>,
         GiveResults(fs, results), UNCHANGED <<chunk, upvals, globals>>,
         made \in Nat, made' >= made, made' \in Nat
  PROVE  RunInv(G)'
<1>1. PICK n, top, call, s : /\ n = Len(fs) /\ top = fs[n] /\ call = CallOf(top) /\ s = Before(top)
  OBVIOUS
<1>2. fs \in Seq(FrameSet(G)) /\ WaitingOK(fs, G) /\ DataOK(G)
  BY DEF Suspended, RunInv
<1>3. n \in Nat \ {0} /\ DOMAIN fs = 1..n /\ top \in FrameSet(G)
  BY <1>1, <1>2
<1>4. top.base \in Nat /\ top.pc \in Nat /\ top.fn \in G /\ top.fn[1] = "closure"
  BY <1>3 DEF FrameSet
<1>5. PICK key, code, flow :
        key = top.fn[3] /\ code = chunk.protos[key].code /\ flow = Flow(chunk)[key].flow
  OBVIOUS
<1>6. key \in DOMAIN chunk.protos /\ PrototypeAccepted(chunk, Flow(chunk), key)
  <2>1. Sound(top.fn, G)
    BY <1>2, <1>4 DEF DataOK
  <2> QED BY <1>4, <1>5, <2>1 DEF Sound, Verified, Accepts
<1>7. /\ top.pc - 1 \in DOMAIN flow /\ call.op \in CallOps
      /\ call = code[top.pc - 1] /\ s = flow[top.pc - 1]
      /\ \A r \in s.w : r < call.a => Has(top.base + r + 1, G)
  <2>1. n \in DOMAIN fs
    BY <1>3
  <2> QED BY <1>1, <1>2, <1>5, <2>1 DEF WaitingOK, CallOf, Before, ProtoOf
<1>8. Safe(chunk, key, top.pc - 1, s) /\ s.w \subseteq Nat
  BY <1>5, <1>6, <1>7 DEF PrototypeAccepted
<1>9. call.a \in Nat /\ call.b \in Nat
  BY <1>5, <1>7, <1>8 DEF Safe, Formed
<1>10. top.pc \in DOMAIN flow /\ NoStronger(flow[top.pc], After(chunk, call, s))
  <2>1. call.op \notin ReturnOps \cup TailCallOps \cup Tests \cup {"JMP", "UCLO"}
    BY <1>7 DEF CallOps, ReturnOps, TailCallOps, Tests, Copies, Compares
  <2>2. <<(top.pc - 1) + 1, After(chunk, call, s)>> \in Edges(chunk, key, top.pc - 1, s)
    BY <1>5, <1>7, <2>1 DEF Edges
  <2>3. (top.pc - 1) + 1 = top.pc
    BY <1>4
  <2>4. \A e \in Edges(chunk, key, top.pc - 1, s) : e[1] \in DOMAIN flow /\ NoStronger(flow[e[1]], e[2])
    BY <1>5, <1>6, <1>7 DEF PrototypeAccepted
  <2> QED BY <2>2, <2>3, <2>4
<1>11. /\ flow[top.pc].w \subseteq {r \in s.w : r < call.a} \cup
            (IF call.b = 0 THEN {} ELSE call.a..(call.a + call.b - 2))
       /\ s.held \subseteq flow[top.pc].held
       /\ flow[top.pc].open \subseteq (IF call.b = 0 THEN {call.a} ELSE {})
  BY <1>7, <1>10 DEF NoStronger, After, WrittenAfter, HeldAfter, OpenAfter, CallOps
<1>12. PICK wanted : wanted = IF call.b = 0 THEN Len(results) ELSE call.b - 1
  OBVIOUS
<1>13. PICK given : given = [i \in 1..wanted |-> IF i <= Len(results) THEN results[i] ELSE Nil]
  OBVIOUS
<1>14. /\ frames' = fs /\ multres' = Len(results)
       /\ stack' = Below(top.base + call.a) \o given
  BY <1>1, <1>12, <1>13 DEF GiveResults, CallOf
<1>15. wanted \in Nat /\ given \in Seq(G) /\ Len(given) = wanted
  <2>1. wanted \in Nat
    BY <1>9, <1>12
  <2>2. \A i \in 1..wanted : (IF i <= Len(results) THEN results[i] ELSE Nil) \in G
    OBVIOUS
  <2> QED BY <1>13, <2>1, <2>2
<1>16. PICK low : low = top.base + call.a
  OBVIOUS
<1>17. /\ stack' \in Seq(G \cup {Stale})
       /\ \A j \in Nat : Has(j, G) /\ j <= low => Has(j, G)'
       /\ \A i \in 1..Len(given) : \A j : j = low + i => Has(j, G)'
  <2>1. stack \in Seq(G \cup {Stale}) /\ low \in Nat /\ stack' = Below(low) \o given
    BY <1>2, <1>4, <1>9, <1>14, <1>16 DEF DataOK
  <2> QED BY <1>15, <2>1, BelowWith
<1>18. Flow(chunk') = Flow(chunk) /\ chunk' = chunk
  OBVIOUS
<1>19. DataOK(G)'
  <2>1. \A u \in G : Sound(u, G)'
    BY <1>2, SoundStays, G \subseteq G DEF DataOK
  <2>2. upvals' \in [DOMAIN upvals' -> UpvalueSet(G)]
    BY <1>2 DEF DataOK
  <2>3. \A k \in DOMAIN upvals' : k[1] \in Nat /\ k[1] < made'
    BY <1>2 DEF DataOK
  <2>4. \A x \in DOMAIN globals' : globals'[x] \in G
    BY <1>2 DEF DataOK
  <2> QED BY <1>17, <2>1, <2>2, <2>3, <2>4 DEF DataOK
<1>20. PICK g : g = SubSeq(fs, 1, Len(fs) - 1)
  OBVIOUS
<1>21. Top' = top /\ Callers' = g
  BY <1>1, <1>14, <1>20 DEF Top, Callers
<1>22. /\ g \in Seq(FrameSet(G)) /\ WaitingOK(g, G) /\ Follows(g, top.base)
       /\ DOMAIN g = 1..(n - 1) /\ \A i \in DOMAIN g : g[i] = fs[i]
  <2>1. /\ g \in Seq(FrameSet(G)) /\ WaitingOK(g, G) /\ Follows(g, fs[Len(fs)].base)
        /\ Prefix(g, fs)
    BY <1>2, <1>20, ButLast
  <2> QED BY <1>1, <2>1 DEF Prefix
<1>23. WaitingOK(Callers, G)'
  <2>1. Follows(g, low)
    <3> SUFFICES ASSUME NEW i \in DOMAIN g PROVE Above(g[i]) <= low
      BY DEF Follows
    <3>1. Above(g[i]) <= top.base
      BY <1>22 DEF Follows
    <3>2. Above(g[i]) \in Nat
      BY <1>2, <1>22, SuspendedCode DEF WaitsAt, DataOK
    <3> QED BY <1>4, <1>9, <1>16, <3>1, <3>2
  <2>2. \A v \in G : Sound(v, G)
    BY <1>2 DEF DataOK
  <2>3. low \in Nat
    BY <1>4, <1>9, <1>16
  <2>4. WaitingOK(g, G)'
    BY <1>17, <1>22, <2>1, <2>2, <2>3, WaitingBelow
  <2> QED BY <1>21, <2>4 DEF WaitingOK
<1>24. Key' = key /\ Here' = flow[top.pc]
  BY <1>5, <1>18, <1>21 DEF Key, Here
<1>25. TopOK(G)'
  <2>1. Top'.pc \in DOMAIN Flow(chunk')[Key'].flow
    BY <1>5, <1>10, <1>18, <1>21, <1>24
  <2>2. ASSUME NEW r \in Here'.w PROVE Has(Slot(r), G)'
    <3>1. Slot(r)' = top.base + r + 1
      BY <1>21 DEF Slot
    <3>2. CASE r \in s.w /\ r < call.a
      <4>1. top.base + r + 1 \in Nat /\ top.base + r + 1 <= low
        BY <1>4, <1>8, <1>9, <1>16, <3>2
      <4>2. \A j : j = top.base + r + 1 => Has(j, G)'
        BY <1>7, <1>17, <3>2, <4>1
      <4> QED BY <3>1, <4>2 DEF Has
    <3>3. CASE call.b # 0 /\ r \in call.a..(call.a + call.b - 2)
      <4>1. PICK i : i = r - call.a + 1
        OBVIOUS
      <4>2. i \in 1..Len(given) /\ top.base + r + 1 = low + i
        <5>1. wanted = call.b - 1 /\ Len(given) = wanted
          BY <1>12, <1>15, <3>3
        <5>2. i \in 1..(call.b - 1) /\ top.base + r + 1 = (top.base + call.a) + i
          <6>1. \A q \in call.a..(call.a + call.b - 2) :
                  /\ q - call.a + 1 \in 1..(call.b - 1)
                  /\ top.base + q + 1 = (top.base + call.a) + (q - call.a + 1)
            BY ONLY <1>4, <1>9, ResultSlots
          <6>2. r \in call.a..(call.a + call.b - 2)
            BY <3>3
          <6> QED BY ONLY <4>1, <6>1, <6>2
        <5> QED BY <1>16, <5>1, <5>2
      <4>3. \A j : j = low + i => Has(j, G)'
        BY <1>17, <4>2
      <4> QED BY <3>1, <4>2, <4>3 DEF Has
    <3> QED BY <1>11, <1>24, <3>2, <3>3
  <2>3. ASSUME NEW m \in Here'.open, NEW i \in 0..(multres' - 1)
        PROVE  Has(Slot(m + i), G)'
    <3>1. m = call.a /\ call.b = 0
      BY <1>11, <1>24
    <3>2. Slot(m + i)' = top.base + (m + i) + 1
      BY <1>21 DEF Slot
    <3>3. i + 1 \in 1..Len(given) /\ top.base + (m + i) + 1 = low + (i + 1)
      <4>1. multres' = Len(given) /\ Len(given) \in Nat
        BY <1>12, <1>14, <1>15, <3>1
      <4>2. i \in 0..(multres' - 1)
        OBVIOUS
      <4>3. i \in 0..(Len(given) - 1)
        BY <4>1, <4>2
      <4>4. i + 1 \in 1..Len(given)
            /\ top.base + (call.a + i) + 1 = (top.base + call.a) + (i + 1)
        <5>1. PICK base, a, b : base = top.base /\ a = call.a /\ b = Len(given)
          OBVIOUS
        <5>2. base \in Nat /\ a \in Nat /\ b \in Nat /\ i \in 0..(b - 1)
          BY <1>4, <1>9, <4>1, <4>3, <5>1
        <5>3. i + 1 \in 1..b /\ base + (a + i) + 1 = (base + a) + (i + 1)
          BY ONLY <5>2
        <5> QED BY <5>1, <5>3
      <4> QED BY <1>16, <3>1, <4>4
    <3>4. \A j : j = low + (i + 1) => Has(j, G)'
      BY <1>17, <3>3
    <3> QED BY <3>2, <3>3, <3>4 DEF Has
  <2>4. Follows(Callers, Top.base)'
    BY <1>18, <1>21, <1>22 DEF Follows, Above, CallOf, ProtoOf
  <2> QED BY <2>1, <2>2, <2>3, <2>4 DEF TopOK
<1>26. ASSUME NEW k \in DOMAIN upvals', upvals'[k].open
       PROVE  (HeldBy(upvals[k], Callers) \/ HeldIn(upvals[k], Top, Here))'
  <2>1. PICK i \in DOMAIN fs : HeldIn(upvals[k], fs[i], Before(fs[i]))
    BY <1>26 DEF Suspended, HeldBy
  <2>2. CASE i = n
    <3>1. HeldIn(upvals[k], top, s)
      BY <1>1, <2>1, <2>2
    <3>2. HeldIn(upvals[k], top, flow[top.pc])
      BY <1>11, <3>1 DEF HeldIn
    <3> QED BY <1>21, <1>24, <3>2 DEF HeldIn
  <2>3. CASE i \in 1..(n - 1)
    <3>1. i \in DOMAIN g /\ HeldIn(upvals[k], g[i], Before(g[i]))
      BY <1>22, <2>1, <2>3
    <3>2. HeldBy(upvals[k], g)
      BY <3>1 DEF HeldBy
    <3> QED BY <1>18, <1>21, <3>2 DEF HeldBy, HeldIn, Before
  <2> QED BY <1>3, <2>2, <2>3
<1>27. OneEach'
  BY DEF RunInv, OneEach
<1>28. frames' \in Seq(FrameSet(G)) /\ frames' # <<>>
  BY <1>2, <1>14
<1> QED BY <1>19, <1>23, <1>25, <1>26, <1>27, <1>28 DEF RunInv

(* A function ends, or one of the prelude: the activations fs are left.    *)
LEMMA LeaveStep ==
  ASSUME NEW G, NEW fs, NEW results \in Seq(G), Nil \in G,
         Inv, outcome = "running", RunInv(G), Suspended(fs, G),
         Leave(fs, results), fs = <<>> => fs = Callers,
         UNCHANGED <<chunk, upvals, globals, made>>
  PROVE  Inv'
<1>1. Verified /\ made \in Nat /\ multres \in Nat
  BY RunningInv
<1>2. CASE fs = <<>>
  <2>1. outcome' = "returned" /\ UNCHANGED <<stack, frames, multres>>
    BY <1>2 DEF Leave
  <2> QED BY <2>1, StoppedInv
<1>3. CASE fs # <<>>
  <2>1. GiveResults(fs, results) /\ UNCHANGED outcome
    BY <1>3 DEF Leave
  <2>2. RunInv(G)'
    BY <1>1, <1>3, <2>1, GiveStep
  <2>3. multres' \in Nat
    <3>1. multres' = Len(results)
      BY <2>1 DEF GiveResults
    <3> QED BY <3>1
  <2> QED BY <1>1, <2>1, <2>2, <2>3, StillInv
<1> QED BY <1>2, <1>3

(* A return gives a value, or none.                                        *)
LEMMA ReturnedSound ==
  ASSUME NEW G, Verified, RunInv(G)
  PROVE  (IF This.op = "RET1" THEN << R(This.a) >> ELSE <<>>) \in Seq(G)
<1>1. CASE This.op = "RET1"
  <2>1. This.a \in Here.w
    BY <1>1, ReadsAreWritten, ReadsOne
  <2>2. R(This.a) \in G
    BY <2>1, RegisterHas
  <2> QED BY <1>1, <2>2
<1>2. CASE This.op # "RET1"
  BY <1>2
<1> QED BY <1>1, <1>2

(* A function returns.                                                     *)
LEMMA ReturnInv ==
  ASSUME Inv, Return
  PROVE  Inv'
<1>1. outcome = "running" /\ This.op \in ReturnOps
  BY DEF Return, Now
<1>2. Verified
  BY <1>1, RunningInv
<1>3. PICK G : RunInv(G) /\ Nil \in G
  BY <1>1, RunningWithNil
<1>4. PICK fs, results : /\ fs = Callers
                         /\ results = IF This.op = "RET1" THEN << R(This.a) >> ELSE <<>>
  OBVIOUS
<1>5. results \in Seq(G)
  BY <1>2, <1>3, <1>4, ReturnedSound
<1>6. Suspended(fs, G)
  BY <1>1, <1>2, <1>3, <1>4, CallersSuspended
<1>7. Leave(fs, results) /\ UNCHANGED <<chunk, upvals, globals, made>>
  BY <1>4 DEF Return
<1> QED BY <1>1, <1>3, <1>4, <1>5, <1>6, <1>7, LeaveStep

(* The results of the prelude's functions are values.                      *)
LEMMA BuiltinSound ==
  ASSUME NEW G, NEW f, NEW args \in Seq(G), Nil \in G,
         BuiltinResults(f, args) # Fault
  PROVE  \E x : (x \in G \/ Plain(x)) /\ BuiltinResults(f, args) \in Seq(G \cup {x})
<1> DEFINE x == IF args = <<>> THEN Nil ELSE args[1]
           One(v) == IF v = Fault THEN Fault ELSE << v >>
<1>1. x \in G
  OBVIOUS
<1>2. BuiltinResults(f, args) =
        CASE f = "__to_bit"  -> One(ToBit(x))
          [] f = "__floor"   -> One(Floor(x))
          [] f = "__assert"  -> IF Truthy(x) THEN args ELSE Fault
          [] f = "__new_str" -> << Str(x[2]) >>
          [] f = "__print"   -> << x >>
          [] f = "__buffer_tostring" -> <<>>
          [] OTHER           -> Fault
  BY DEF BuiltinResults
<1>3. \A y : <<y>> \in Seq(G \cup {y})
  OBVIOUS
<1>4. CASE f = "__to_bit"
  <2>1. Plain(ToBit(x))
    BY DEF ToBit, Plain, Num, Fault, Stale
  <2>2. BuiltinResults(f, args) = << ToBit(x) >>
    BY <1>2, <1>4
  <2> QED BY <1>3, <2>1, <2>2
<1>5. CASE f = "__floor"
  <2>1. BuiltinResults(f, args) = << Floor(x) >>
    BY <1>2, <1>5
  <2>2. Floor(x) \in G \/ Plain(Floor(x))
    BY <1>1 DEF Floor, Plain, Fault, Stale
  <2> QED BY <1>3, <2>1, <2>2
<1>6. CASE f = "__assert"
  <2>1. BuiltinResults(f, args) = args
    BY <1>2, <1>6
  <2> QED BY <1>1, <2>1
<1>7. CASE f = "__new_str"
  <2>1. Plain(Str(x[2]))
    BY DEF Plain, Str, Stale
  <2>2. BuiltinResults(f, args) = << Str(x[2]) >>
    BY <1>2, <1>7
  <2> QED BY <1>3, <2>1, <2>2
<1>8. CASE f = "__print"
  <2>1. BuiltinResults(f, args) = << x >>
    BY <1>2, <1>8
  <2> QED BY <1>1, <1>3, <2>1
<1>9. CASE f = "__buffer_tostring"
  <2>1. BuiltinResults(f, args) = <<>>
    BY <1>2, <1>9
  <2> QED BY <1>1, <2>1
<1> QED BY <1>2, <1>4, <1>5, <1>6, <1>7, <1>8, <1>9

(* So are those that the running call gets.                                *)
LEMMA ResultsSound ==
  ASSUME Inv, outcome = "running", This.op \in CallOps \cup TailCallOps,
         NEW v, v = BuiltinResults(Callee[2], Args), v # Fault
  PROVE  \E G : RunInv(G) /\ Nil \in G /\ v \in Seq(G)
<1>1. Verified /\ multres \in Nat
  BY RunningInv
<1>2. PICK F : RunInv(F) /\ Nil \in F
  BY RunningWithNil
<1>3. Args \in Seq(F)
  BY <1>1, <1>2, ArgsSound
<1>4. PICK x : (x \in F \/ Plain(x)) /\ v \in Seq(F \cup {x})
  BY <1>2, <1>3, BuiltinSound
<1>5. Sound(x, F)
  BY <1>2, <1>4, PlainSound DEF RunInv, DataOK
<1>6. RunInv(F \cup {x})
  BY <1>2, <1>5, SoundInMore, MoreValues, F \subseteq F \cup {x}
<1> QED BY <1>2, <1>4, <1>6

(* A function of the prelude is called.                                    *)
LEMMA CallBuiltinInv ==
  ASSUME Inv, CallBuiltin
  PROVE  Inv'
<1>1. outcome = "running" /\ This.op \in CallOps \cup TailCallOps
  BY DEF CallBuiltin, Calling, Now
<1>2. Verified /\ multres \in Nat
  BY <1>1, RunningInv
<1>3. PICK fs, v : fs = Waiting /\ v = BuiltinResults(Callee[2], Args)
  OBVIOUS
<1>4. CASE v = Fault
  <2>1. Fail
    BY <1>3, <1>4 DEF CallBuiltin
  <2> QED BY <1>1, <2>1, StoppedInv DEF Fail
<1>5. CASE v # Fault
  <2>1. Leave(fs, v) /\ UNCHANGED <<chunk, upvals, globals, made>>
    BY <1>3, <1>5 DEF CallBuiltin
  <2>2. PICK G : RunInv(G) /\ Nil \in G /\ v \in Seq(G)
    BY <1>1, <1>3, <1>5, ResultsSound
  <2>3. Suspended(fs, G) /\ (fs = <<>> => fs = Callers)
    BY <1>1, <1>2, <1>3, <2>2, WhatWaits
  <2> QED BY <1>1, <2>1, <2>2, <2>3, LeaveStep
<1> QED BY <1>4, <1>5

(* The call of anything else raises an error.                              *)
LEMMA CallOtherInv ==
  ASSUME Inv, CallOther
  PROVE  Inv'
<1>1. outcome = "running" /\ Fail
  BY DEF CallOther, Calling, Now
<1> QED BY <1>1, StoppedInv DEF Fail

-----------------------------------------------------------------------------
(* The invariant holds                                                     *)

(* A run starts with facts that agree with the code.                       *)
LEMMA StartInv ==
  ASSUME NEW c, Inv, StartRun(c), CodeVerified'
  PROVE  Inv'
<1>1. made \in Nat /\ multres \in Nat /\ outcome = "unloaded"
      /\ stack = <<>> /\ frames = <<>> /\ upvals = Empty /\ globals = Empty
  BY DEF Inv, StartRun
<1>2. CASE ~c.ok
  BY <1>1, <1>2 DEF StartRun, Inv
<1>3. CASE c.ok
  <2>1. PICK v, f : v = Closure(0, <<>>, <<>>) /\ f = Frame(0, v, 0)
    OBVIOUS
  <2>2. /\ chunk' = c /\ outcome' = "running" /\ made' = 1
        /\ frames' = << f >>
        /\ UNCHANGED <<stack, upvals, globals, multres>>
    BY <1>3, <2>1 DEF StartRun
  <2>3. f.id = 0 /\ f.fn = v /\ f.base = 0 /\ f.pc = 2 /\ v[1] = "closure" /\ v[3] = <<>> /\ v[4] = <<>>
        /\ v # Stale
    BY <2>1 DEF Frame, Closure, Stale
  <2>4. Top' = f /\ Callers' = <<>>
    BY <2>2 DEF Top, Callers
  <2>5. Verified'
    <3>1. JustStarted'
      BY <2>2, <2>3, <2>4 DEF JustStarted
    <3> QED BY <3>1 DEF CodeVerified, Verified
  <2>6. PICK F : F = Flow(chunk')
    OBVIOUS
  <2>7. /\ <<>> \in DOMAIN chunk'.protos
        /\ chunk'.protos[<<>>].numparams = 0 /\ chunk'.protos[<<>>].uvs = <<>>
        /\ PrototypeAccepted(chunk', F, <<>>)
    BY <2>5, <2>6 DEF Verified, Accepts
  <2>8. PICK s : s = F[<<>>].flow[2]
    OBVIOUS
  <2>9. 2 \in DOMAIN F[<<>>].flow /\ s.w = {} /\ s.open = {}
    BY <2>7, <2>8 DEF PrototypeAccepted, NoStronger, AtEntry
  <2> DEFINE G == {v, Nil}
  <2>10. DataOK(G)'
    <3>1. DOMAIN upvals' = {} /\ DOMAIN globals' = {} /\ stack' = <<>>
      BY <1>1, <2>2 DEF Empty
    <3>2. Sound(v, G)'
      BY <2>3, <2>7 DEF Sound
    <3>3. Sound(Nil, G)'
      BY DEF Sound, Nil, Stale
    <3>4. upvals' \in [DOMAIN upvals' -> UpvalueSet(G)]
      BY <1>1, <2>2, <3>1 DEF Empty
    <3> QED BY <3>1, <3>2, <3>3, <3>4 DEF DataOK
  <2>11. frames' \in Seq(FrameSet(G)) /\ frames' # <<>>
    <3>1. f \in FrameSet(G)
      BY <2>1, <2>3 DEF FrameSet, Frame
    <3> QED BY <2>2, <3>1
  <2>12. WaitingOK(Callers, G)'
    BY <2>4 DEF WaitingOK
  <2>13. TopOK(G)'
    <3>1. Key' = <<>> /\ Here' = s
      BY <2>3, <2>4, <2>6, <2>8 DEF Key, Here
    <3>2. Follows(Callers, Top.base)'
      BY <2>4 DEF Follows
    <3> QED BY <2>3, <2>4, <2>6, <2>9, <3>1, <3>2 DEF TopOK
  <2>14. DOMAIN upvals' = {}
    BY <1>1, <2>2 DEF Empty
  <2> HIDE DEF G
  <2>15. RunInv(G)'
    BY <2>10, <2>11, <2>12, <2>13, <2>14 DEF RunInv, OneEach
  <2> QED BY <1>1, <2>2, <2>5, <2>15 DEF Inv
<1> QED BY <1>2, <1>3

(* Nothing happens.                                                        *)
LEMMA StutterInv ==
  ASSUME Inv, UNCHANGED runVars
  PROVE  Inv'
<1>1. /\ UNCHANGED <<chunk, stack, frames, upvals, globals, made, multres, outcome>>
  BY DEF runVars
<1>2. Verified' = Verified
  BY <1>1 DEF Verified
<1>3. ASSUME NEW G, RunInv(G)
      PROVE  RunInv(G)'
  <2>1. Top' = Top /\ Callers' = Callers
    BY <1>1 DEF Top, Callers
  <2>2. Key' = Key /\ Here' = Here /\ Flow(chunk') = Flow(chunk)
    BY <1>1, <2>1 DEF Key, Here
  <2>3. DataOK(G)' /\ OneEach'
    BY <1>1, <1>3, <2>2 DEF RunInv, DataOK, Sound, OneEach
  <2>4. \A j : Has(j, G) => Has(j, G)'
    BY <1>1 DEF Has
  <2>5. WaitingOK(Callers, G)'
    BY <1>1, <1>3, <2>1, <2>4, WaitingStays DEF RunInv
  <2>6. TopOK(G)'
    BY <1>1, <1>3, <2>1, <2>2 DEF RunInv, TopOK, Has, Slot, Follows, Above, CallOf, ProtoOf
  <2>7. \A k \in DOMAIN upvals' : upvals'[k].open =>
          (HeldBy(upvals[k], Callers) \/ HeldIn(upvals[k], Top, Here))'
    BY <1>1, <1>3, <2>1, <2>2 DEF RunInv, HeldBy, HeldIn, Before
  <2> QED BY <1>1, <1>3, <2>3, <2>5, <2>6, <2>7 DEF RunInv
<1> QED BY <1>1, <1>2, <1>3 DEF Inv

(* Every step keeps the invariant.                                         *)
LEMMA NextInv ==
  ASSUME Inv, [(\E c : StartRun(c)) \/ RunNext]_runVars, CodeVerified'
  PROVE  Inv'
<1>1. CASE \E c : StartRun(c)
  BY <1>1, StartInv
<1>2. CASE RunNext
  BY <1>2, LoadInv, LoadNilsInv, ComputeInv, NewTableInv, StoreItemInv, StoreInv,
     NewClosureInv, TestInv, JumpInv, EnterFunctionInv, CallBuiltinInv, CallOtherInv, ReturnInv
     DEF RunNext
<1>3. CASE UNCHANGED runVars
  BY <1>3, StutterInv
<1> QED BY <1>1, <1>2, <1>3

(* Whatever code it runs that facts are known about, the machine keeps the *)
(* invariant.                                                              *)
THEOREM MachineInvariant ==
  MachineSpec /\ []CodeVerified => []Inv
<1>1. RunInit => Inv
  BY DEF RunInit, Inv
<1>2. Inv /\ [(\E c : StartRun(c)) \/ RunNext]_runVars /\ CodeVerified' => Inv'
  BY NextInv
<1> QED BY <1>1, <1>2, PTL DEF MachineSpec

-----------------------------------------------------------------------------
(* What follows from it                                                    *)

(* Control comes back behind a call that an activation waits for.          *)
LEMMA WaitingReturns ==
  ASSUME NEW G, Verified, RunInv(G), NEW i \in DOMAIN Callers
  PROVE  Callers[i].pc \in DOMAIN ProtoOf(Callers[i].fn).code
<1>1. PICK f, pc, key, call, s : /\ f = Callers[i] /\ pc = f.pc - 1 /\ key = f.fn[3]
                                 /\ call = CallOf(f) /\ s = Before(f)
  OBVIOUS
<1>2. /\ f \in FrameSet(G) /\ call.op \in CallOps
      /\ PrototypeAccepted(chunk, Flow(chunk), key)
  BY <1>1, WaitingCode DEF WaitsAt
<1>3. PICK flow, code : flow = Flow(chunk)[key].flow /\ code = chunk.protos[key].code
  OBVIOUS
<1>4. f.pc \in Nat /\ f.pc = pc + 1
  BY <1>1, <1>2 DEF FrameSet
<1>5. pc \in DOMAIN flow /\ call = code[pc] /\ s = flow[pc]
  BY <1>1, <1>3 DEF RunInv, WaitingOK, CallOf, Before, ProtoOf
<1>6. call.op \notin ReturnOps \cup TailCallOps \cup Tests \cup {"JMP", "UCLO"}
  BY <1>2 DEF CallOps, ReturnOps, TailCallOps, Tests, Copies, Compares
<1>7. <<pc + 1, After(chunk, call, s)>> \in Edges(chunk, key, pc, s)
  BY <1>3, <1>5, <1>6 DEF Edges
<1>8. pc + 1 \in DOMAIN flow /\ DOMAIN flow \subseteq DOMAIN code
  BY <1>2, <1>3, <1>5, <1>7 DEF PrototypeAccepted
<1> QED BY <1>1, <1>3, <1>4, <1>8 DEF ProtoOf

(* The registers of an activation that waits are below those of the next   *)
(* one, and so are the variables that closures refer to.                   *)
LEMMA NextAbove ==
  ASSUME NEW G, Verified, RunInv(G), NEW i \in DOMAIN Callers
  PROVE  /\ Above(Callers[i]) <= frames[i + 1].base
         /\ Callers[i].base < Above(Callers[i])
         /\ Callers[i].base \in Nat /\ Above(Callers[i]) \in Nat /\ frames[i + 1].base \in Nat
<1>1. PICK n : n = Len(frames)
  OBVIOUS
<1>2. /\ n \in Nat \ {0} /\ frames \in Seq(FrameSet(G)) /\ DOMAIN frames = 1..n
      /\ DOMAIN Callers = 1..(n - 1) /\ Top = frames[n]
      /\ \A j \in DOMAIN Callers : Callers[j] = frames[j]
  BY <1>1, CallersAre DEF RunInv, Top
<1>3. Callers[i].base \in Nat /\ CallOf(Callers[i]).a \in Nat
  BY WaitingCode DEF FrameSet, WaitsAt
<1>4. Callers[i].base < Above(Callers[i]) /\ Above(Callers[i]) \in Nat
  BY <1>3 DEF Above, LJ_FR2
<1>5. frames[i + 1].base \in Nat
  <2>1. i + 1 \in DOMAIN frames
    BY <1>2
  <2>2. frames[i + 1] \in FrameSet(G)
    BY <1>2, <2>1
  <2> QED BY <2>2 DEF FrameSet
<1>6. CASE i = n - 1
  <2>1. frames[i + 1] = Top
    BY <1>2, <1>6
  <2>2. Above(Callers[i]) <= Top.base
    BY DEF RunInv, TopOK, Follows
  <2> QED BY <1>3, <1>4, <1>5, <2>1, <2>2
<1>7. CASE i # n - 1
  <2>1. i + 1 \in DOMAIN Callers /\ i < i + 1 /\ frames[i + 1] = Callers[i + 1]
    BY <1>2, <1>7
  <2>2. WaitingOK(Callers, G)
    BY DEF RunInv
  <2>3. Above(Callers[i]) <= Callers[i + 1].base
    BY <2>1, <2>2 DEF WaitingOK
  <2> QED BY <1>3, <1>4, <1>5, <2>1, <2>3
<1> QED BY <1>6, <1>7

(* The invariant gives RunTypeOK,                                          *)
LEMMA TypesHold ==
  ASSUME Inv
  PROVE  RunTypeOK
<1>1. CASE outcome \in {"unloaded", "refused"}
  <2>1. DOMAIN frames = {}
    BY <1>1 DEF Inv
  <2> QED BY <2>1 DEF RunTypeOK, Inv
<1>2. CASE outcome \in {"running", "returned", "failed"}
  <2>1. PICK G : RunInv(G)
    BY <1>2 DEF Inv
  <2>2. Verified
    BY <1>2 DEF Inv
  <2>3. PICK n : n = Len(frames)
    OBVIOUS
  <2>4. /\ n \in Nat \ {0} /\ frames \in Seq(FrameSet(G)) /\ DOMAIN frames = 1..n
        /\ DOMAIN Callers = 1..(n - 1) /\ Top = frames[n]
        /\ \A j \in DOMAIN Callers : Callers[j] = frames[j]
    BY <2>1, <2>3, CallersAre DEF RunInv, Top
  <2>5. ASSUME NEW i \in DOMAIN frames
        PROVE  /\ frames[i].pc \in DOMAIN ProtoOf(frames[i].fn).code
               /\ \A k \in DOMAIN frames[i].fn[4] : frames[i].fn[4][k] \in DOMAIN upvals
               /\ i > 1 => frames[i].base > frames[i - 1].base
    <3>1. frames[i].pc \in DOMAIN ProtoOf(frames[i].fn).code
      <4>1. CASE i = n
        <5>1. Top.pc \in DOMAIN Flow(chunk)[Key].flow /\ PrototypeAccepted(chunk, Flow(chunk), Key)
          BY <2>1, <2>2, RunningCode
        <5> QED BY <2>4, <4>1, <5>1 DEF PrototypeAccepted, ProtoOf, Key
      <4>2. CASE i # n
        <5>1. i \in DOMAIN Callers /\ Callers[i] = frames[i]
          BY <2>4, <4>2
        <5>2. Callers[i].pc \in DOMAIN ProtoOf(Callers[i].fn).code
          BY <2>1, <2>2, <5>1, WaitingReturns
        <5> QED BY <5>1, <5>2
      <4> QED BY <4>1, <4>2
    <3>2. \A k \in DOMAIN frames[i].fn[4] : frames[i].fn[4][k] \in DOMAIN upvals
      <4>1. frames[i] \in FrameSet(G)
        BY <2>4
      <4>2. frames[i].fn \in G /\ frames[i].fn[1] = "closure"
        BY <4>1 DEF FrameSet
      <4> QED BY <2>1, <4>2 DEF RunInv, DataOK, Sound
    <3>3. ASSUME i > 1
          PROVE  frames[i].base > frames[i - 1].base
      <4>1. PICK j : j = i - 1
        OBVIOUS
      <4>2. j \in DOMAIN Callers /\ j + 1 = i /\ Callers[j] = frames[j]
        BY <2>4, <3>3, <4>1
      <4>3. /\ Above(Callers[j]) <= frames[j + 1].base
            /\ Callers[j].base < Above(Callers[j])
            /\ Callers[j].base \in Nat /\ Above(Callers[j]) \in Nat /\ frames[j + 1].base \in Nat
        BY <2>1, <2>2, <4>2, NextAbove
      <4> QED BY <4>1, <4>2, <4>3
    <3> QED BY <3>1, <3>2, <3>3
  <2> QED BY <2>5 DEF RunTypeOK, Inv
<1> QED BY <1>1, <1>2 DEF Inv

(* OpenUpvaluesLive,                                                       *)
LEMMA UpvaluesAreLive ==
  ASSUME Inv
  PROVE  OpenUpvaluesLive
<1>1. CASE outcome \in {"unloaded", "refused"}
  BY <1>1 DEF Inv, Empty, OpenUpvaluesLive
<1>2. CASE outcome \in {"running", "returned", "failed"}
  <2>1. PICK G : RunInv(G)
    BY <1>2 DEF Inv
  <2>2. Verified
    BY <1>2 DEF Inv
  <2>3. PICK n : n = Len(frames)
    OBVIOUS
  <2>4. /\ n \in Nat \ {0} /\ frames \in Seq(FrameSet(G)) /\ DOMAIN frames = 1..n
        /\ DOMAIN Callers = 1..(n - 1) /\ Top = frames[n]
        /\ \A j \in DOMAIN Callers : Callers[j] = frames[j]
    BY <2>1, <2>3, CallersAre DEF RunInv, Top
  <2> SUFFICES ASSUME NEW k \in DOMAIN upvals, upvals[k].open
               PROVE  /\ upvals[k].at \in DOMAIN stack
                      /\ \E i \in DOMAIN frames :
                           /\ frames[i].id = upvals[k].owner
                           /\ upvals[k].at > frames[i].base
                           /\ i < Len(frames) => upvals[k].at < frames[i + 1].base
                      /\ \A j \in DOMAIN upvals \ {k} :
                           ~(upvals[j].open /\ upvals[j].at = upvals[k].at)
    BY DEF OpenUpvaluesLive
  <2>5. upvals[k].at \in DOMAIN stack /\ upvals[k].at \in Nat
    BY <2>1, <2>2, OpenHas DEF Has
  <2>6. \A j \in DOMAIN upvals \ {k} : ~(upvals[j].open /\ upvals[j].at = upvals[k].at)
    BY <2>1 DEF RunInv, OneEach
  <2>7. PICK r, u : u = upvals[k] /\ r = u.at
    OBVIOUS
  <2>8. CASE HeldIn(u, Top, Here)
    <3>1. Here.w \subseteq Nat /\ Top.base \in Nat /\ \A h \in Here.held : h[1] \in Here.w
      BY <2>1, <2>2, RunningCode DEF Safe, ReadsWritten
    <3>2. u.owner = Top.id /\ r - Top.base - 1 \in Nat
      BY <2>7, <2>8, <3>1 DEF HeldIn
    <3>3. r > Top.base
      BY <2>5, <2>7, <3>1, <3>2
    <3>4. n \in DOMAIN frames /\ ~(n < Len(frames))
      BY <2>3, <2>4
    <3> QED BY <2>4, <2>5, <2>6, <2>7, <3>2, <3>3, <3>4
  <2>9. CASE HeldBy(u, Callers)
    <3>1. PICK i \in DOMAIN Callers : HeldIn(u, Callers[i], Before(Callers[i]))
      BY <2>9 DEF HeldBy
    <3>2. PICK f : f = Callers[i]
      OBVIOUS
    <3>3. /\ f.base \in Nat /\ CallOf(f).a \in Nat /\ Before(f).w \subseteq Nat
          /\ \A h \in Before(f).held : h[1] \in Before(f).w /\ h[1] < CallOf(f).a
      BY <2>1, <2>2, <3>2, WaitingCode DEF FrameSet, WaitsAt
    <3>4. u.owner = f.id /\ r - f.base - 1 \in Nat /\ r - f.base - 1 < CallOf(f).a
      BY <2>7, <3>1, <3>2, <3>3 DEF HeldIn
    <3>5. r > f.base /\ r < Above(f)
      BY <2>5, <2>7, <3>3, <3>4 DEF Above, LJ_FR2
    <3>6. Above(f) <= frames[i + 1].base /\ Above(f) \in Nat /\ frames[i + 1].base \in Nat
      BY <2>1, <2>2, <3>2, NextAbove
    <3>7. r < frames[i + 1].base /\ frames[i] = f /\ i \in DOMAIN frames
      BY <2>4, <2>5, <2>7, <3>2, <3>5, <3>6
    <3> QED BY <2>5, <2>6, <2>7, <3>4, <3>5, <3>7
  <2> QED BY <2>1, <2>7, <2>8, <2>9 DEF RunInv
<1> QED BY <1>1, <1>2 DEF Inv

(* What an instruction reads only depends on the last call if it uses its  *)
(* results.                                                                *)
LEMMA ReadsFixed ==
  ASSUME NEW c, NEW ins, NEW n, ins.op \notin {"TSETM"} \cup CallOps \cup TailCallOps
  PROVE  RegsRead(c, ins, n) = RegsRead(c, ins, 0)
  BY DEF RegsRead

(* and RegistersWritten.                                                   *)
LEMMA ReadsHold ==
  ASSUME Inv
  PROVE  RegistersWritten
<1> SUFFICES ASSUME outcome = "running", NEW r \in RegsRead(chunk, This, multres)
             PROVE  R(r) # Stale
  BY DEF RegistersWritten
<1>1. Verified /\ multres \in Nat
  BY RunningInv
<1>2. PICK G : RunInv(G)
  BY RunningInv
<1>3. /\ This.a \in Nat /\ Here.w \subseteq Nat /\ RegsRead(chunk, This, 0) \subseteq Here.w
      /\ This.op = "TSETM" => This.a \in Here.open
      /\ \A v \in G : v # Stale
  BY <1>1, <1>2, RunningCode, ReadsAreWritten DEF Safe, ReadsWritten, RunInv, DataOK, Sound
<1>4. CASE This.op \in CallOps \cup TailCallOps
  <2>1. RegsRead(chunk, This, multres) = {This.a} \cup {This.a + LJ_FR2 + i : i \in 1..NumArgs}
    BY <1>4, ReadsArguments DEF NumArgs
  <2>2. Callee \in G /\ Args \in Seq(G)
    BY <1>1, <1>2, <1>4, ArgsSound
  <2>3. CASE r = This.a
    BY <1>3, <2>2, <2>3 DEF Callee
  <2>4. ASSUME NEW i \in 1..NumArgs, r = This.a + LJ_FR2 + i
        PROVE  R(r) # Stale
    <3>1. DOMAIN Args = 1..NumArgs /\ Args[i] = R(r)
      BY <2>4 DEF Args
    <3>2. Args[i] \in G
      <4>1. Args \in Seq(G) /\ i \in DOMAIN Args
        BY <2>2, <3>1
      <4> QED BY ONLY <4>1
    <3> QED BY <1>3, <3>1, <3>2
  <2> QED BY <2>1, <2>3, <2>4
<1>5. CASE This.op = "TSETM"
  <2>1. r \in (This.a - 1)..(This.a + multres - 1)
    BY <1>5, ReadsResults
  <2>2. CASE r = This.a - 1
    <3>1. RegsRead(chunk, This, 0) = (This.a - 1)..(This.a + 0 - 1)
      BY <1>5, ReadsResults
    <3>2. r \in (This.a - 1)..(This.a + 0 - 1)
      BY <1>3, <2>2
    <3> QED BY <1>2, <1>3, <3>1, <3>2, RegisterHas
  <2>3. CASE r # This.a - 1
    <3>1. PICK j : j = r - This.a
      OBVIOUS
    <3>2. j \in 0..(multres - 1) /\ r = This.a + j
      BY <1>1, <1>3, <2>1, <2>3, <3>1
    <3> QED BY <1>2, <1>3, <1>5, <3>2, ResultsHas
  <2> QED BY <2>2, <2>3
<1>6. CASE This.op \notin {"TSETM"} \cup CallOps \cup TailCallOps
  <2>1. r \in Here.w
    BY <1>3, <1>6, ReadsFixed
  <2> QED BY <1>2, <2>1, RegisterHas
<1> QED BY <1>4, <1>5, <1>6

(* Control stays in the code, whose closures have the upvalues that they   *)
(* refer to, and registers of activations do not overlap.                  *)
THEOREM MachineTypeCorrect ==
  MachineSpec /\ []CodeVerified => []RunTypeOK
<1>1. Inv => RunTypeOK
  BY TypesHold
<1> QED BY <1>1, MachineInvariant, PTL

(* No open upvalue outlives its activation or shares its variable.         *)
THEOREM UpvaluesLive ==
  MachineSpec /\ []CodeVerified => []OpenUpvaluesLive
<1>1. Inv => OpenUpvaluesLive
  BY UpvaluesAreLive
<1> QED BY <1>1, MachineInvariant, PTL

(* No register is read that was not written.                               *)
THEOREM NothingStaleRead ==
  MachineSpec /\ []CodeVerified => []RegistersWritten
<1>1. Inv => RegistersWritten
  BY ReadsHold
<1> QED BY <1>1, MachineInvariant, PTL

-----------------------------------------------------------------------------
(* Variables that are declared immutable                                   *)

Kept ==
  \A k \in DOMAIN upvals :
    upvals[k].immutable => UpvalueValue(upvals[k])' = UpvalueValue(upvals[k])

(* A step that leaves slots and upvalues alone.                            *)
LEMMA SameKept ==
  ASSUME UNCHANGED <<stack, upvals>>
  PROVE  Kept
  BY DEF Kept, UpvalueValue

(* The registers that an instruction writes are no immutable variables.    *)
LEMMA WritesKeep ==
  ASSUME NEW G, NEW v, NEW lo \in Nat, NEW hi \in Nat,
         Verified, RunInv(G), lo..hi \subseteq Written(This),
         stack' = PutAll(stack, Slot(lo), Slot(hi), v),
         \A k \in DOMAIN upvals : upvals'[k] = upvals[k]
  PROVE  Kept
<1>1. Top.base \in Nat /\ Safe(chunk, Key, Top.pc, Here)
      /\ This = chunk.protos[Key].code[Top.pc]
  BY RunningCode
<1>2. PICK l, h : l = Slot(lo) /\ h = Slot(hi)
  OBVIOUS
<1>3. l \in Nat \ {0} /\ h \in Nat /\ l = Top.base + lo + 1 /\ h = Top.base + hi + 1
  BY <1>1, <1>2 DEF Slot
<1>4. Filled(stack', stack, l, h, v)
  <2>1. PICK S : S = G \cup {Stale, v}
    OBVIOUS
  <2>2. stack \in Seq(S) /\ Stale \in S /\ v \in S
    BY <2>1 DEF RunInv, DataOK
  <2> QED BY <1>2, <1>3, <2>2, PutAllFills
<1>5. ASSUME NEW k \in DOMAIN upvals, upvals[k].immutable, upvals[k].open
      PROVE  stack'[upvals[k].at] = stack[upvals[k].at]
  <2>1. PICK at : at = upvals[k].at
    OBVIOUS
  <2>2. at \in DOMAIN stack /\ at \in Nat
    BY <1>5, <2>1, OpenHas DEF Has
  <2>3. CASE at < l \/ at > h
    BY <1>4, <2>1, <2>2, <2>3 DEF Filled
  <2>4. CASE ~(at < l \/ at > h)
    <3>1. at > Top.base
      BY <1>1, <1>3, <2>2, <2>4
    <3>2. HeldIn(upvals[k], Top, Here)
      BY <1>5, <2>1, <3>1, OpenAtTop
    <3>3. <<at - Top.base - 1, TRUE>> \in Here.held
      <4>1. upvals[k].immutable = TRUE
        BY <1>5 DEF RunInv, DataOK, UpvalueSet
      <4> QED BY <2>1, <3>2, <4>1 DEF HeldIn
    <3>4. at - Top.base - 1 \notin Written(This)
      BY <1>1, <3>3 DEF Safe, HeldStays
    <3>5. at - Top.base - 1 \in lo..hi
      BY <1>1, <1>3, <2>2, <2>4
    <3> QED BY <3>4, <3>5
  <2> QED BY <2>3, <2>4
<1> QED BY <1>5 DEF Kept, UpvalueValue

(* The register that gets a result is one that the instruction writes.     *)
LEMMA ResultKeeps ==
  ASSUME NEW v, NEW r \in Nat, Inv, outcome = "running", Written(This) = {r}, Result(r, v)
  PROVE  Kept
<1>1. CASE v = Fault
  BY <1>1, SameKept DEF Result, Fail
<1>2. CASE v # Fault
  <2>1. PICK G : RunInv(G) /\ Verified
    BY RunningInv
  <2>2. stack' = PutAll(stack, Slot(r), Slot(r), v) /\ upvals' = upvals
    BY <1>2 DEF Result, Put
  <2>3. r..r \subseteq Written(This)
    OBVIOUS
  <2> QED BY <2>1, <2>2, <2>3, WritesKeep
<1> QED BY <1>1, <1>2

(* Instructions that put one value into the registers that they write.     *)
LEMMA LoadsKeep ==
  ASSUME Inv, Load \/ Compute
  PROVE  Kept
<1>1. outcome = "running" /\ This.op \in {"MOV", "CONST", "UGET", "GGET", "TGETB", "ARITH", "NOT"}
  BY DEF Load, Compute, Now
<1>2. PICK r, v : r = This.a /\ Result(r, v)
  BY DEF Load, Compute
<1>3. r \in Nat /\ Written(This) = {r}
  BY <1>1, <1>2, RunningInv, RunningCode DEF Written
<1> QED BY <1>1, <1>2, <1>3, ResultKeeps

(* So are those that get nil,                                              *)
LEMMA NilsKeep ==
  ASSUME Inv, LoadNils
  PROVE  Kept
<1>1. outcome = "running" /\ This.op = "KNIL"
  BY DEF LoadNils, Now
<1>2. PICK G : RunInv(G) /\ Verified
  BY <1>1, RunningInv
<1>3. PICK lo, hi, v : lo = This.a /\ hi = This.d /\ v = Nil
  OBVIOUS
<1>4. lo \in Nat /\ hi \in Nat
  BY <1>1, <1>2, <1>3, RunningCode DEF Safe, Formed
<1>5. lo..hi \subseteq Written(This)
  BY <1>1, <1>3 DEF Written, Copies
<1>6. stack' = PutAll(stack, Slot(lo), Slot(hi), v) /\ upvals' = upvals
  BY <1>3 DEF LoadNils
<1> QED BY <1>2, <1>4, <1>5, <1>6, WritesKeep

(* and those that get tables.                                              *)
LEMMA PairsKeep ==
  ASSUME Inv, NewTable \/ StoreItem
  PROVE  Kept
<1>1. outcome = "running" /\ This.op \in {"TNEW", "TDUP", "TSETB", "TSETM"}
  BY DEF NewTable, StoreItem, Now
<1>2. PICK G : RunInv(G) /\ Verified
  BY <1>1, RunningInv
<1>3. PICK r, v : /\ stack' = Put(stack, Slot(r), v) /\ upvals' = upvals
                  /\ r = CASE This.op = "TSETM" -> This.a - 1
                           [] This.op = "TSETB" -> This.b
                           [] This.op \in {"TNEW", "TDUP"} -> This.a
  <2>1. CASE NewTable
    BY <2>1 DEF NewTable, Now
  <2>2. CASE StoreItem
    <3>1. PICK r, v : stack' = Put(stack, Slot(r), v) /\ upvals' = upvals
                      /\ r = IF This.op = "TSETM" THEN This.a - 1 ELSE This.b
      BY <2>2 DEF StoreItem
    <3> QED BY <2>2, <3>1 DEF StoreItem, Now
  <2> QED BY <2>1, <2>2
<1>4. Written(This) = {r}
  BY <1>1, <1>3 DEF Written, Copies
<1>5. r \in Nat
  <2>1. /\ This.a \in Nat /\ Here.w \subseteq Nat /\ RegsRead(chunk, This, 0) \subseteq Here.w
    BY <1>2, RunningCode, ReadsAreWritten
  <2>2. CASE This.op = "TSETM"
    <3>1. RegsRead(chunk, This, 0) = (This.a - 1)..(This.a + 0 - 1)
      BY <2>2, ReadsResults
    <3>2. This.a - 1 \in (This.a - 1)..(This.a + 0 - 1)
      BY ONLY <2>1
    <3> QED BY <1>3, <2>1, <2>2, <3>1, <3>2
  <2>3. CASE This.op = "TSETB"
    <3>1. RegsRead(chunk, This, 0) = {This.a, This.b}
      BY <2>3, ReadsTwo
    <3> QED BY <1>3, <2>1, <2>3, <3>1
  <2> QED BY <1>1, <1>3, <2>1, <2>2, <2>3
<1>6. stack' = PutAll(stack, Slot(r), Slot(r), v) /\ r..r \subseteq Written(This)
  BY <1>3, <1>4, <1>5 DEF Put
<1> QED BY <1>2, <1>3, <1>5, <1>6, WritesKeep

(* What is assigned is not immutable, and shares its slot with no other.   *)
LEMMA StoreKeeps ==
  ASSUME Inv, Store
  PROVE  Kept
<1>1. outcome = "running" /\ This.op \in {"USET", "GSET"}
  BY DEF Store, Now
<1>2. PICK G : RunInv(G) /\ Verified
  BY <1>1, RunningInv
<1>3. CASE This.op = "GSET"
  BY <1>3, SameKept DEF Store
<1>4. CASE This.op = "USET"
  <2>1. PICK i, v : i = UpvalueOf(This.a) /\ v = Value(This.d)
    OBVIOUS
  <2>2. i \in DOMAIN upvals /\ ~upvals[i].immutable
    BY <1>2, <1>4, <2>1, OperandSound
  <2>3. CASE ~upvals[i].open
    <3>1. upvals' = [upvals EXCEPT ![i].value = v] /\ stack' = stack
      BY <1>4, <2>1, <2>3 DEF Store
    <3>2. ASSUME NEW k \in DOMAIN upvals, upvals[k].immutable
          PROVE  UpvalueValue(upvals[k])' = UpvalueValue(upvals[k])
      <4>1. upvals'[k] = upvals[k]
        BY <2>2, <3>1, <3>2
      <4>2. stack' = stack
        BY <3>1
      <4> QED BY ONLY <4>1, <4>2 DEF UpvalueValue
    <3> QED BY <3>2 DEF Kept
  <2>4. CASE upvals[i].open
    <3>1. PICK at : at = upvals[i].at
      OBVIOUS
    <3>2. stack' = PutAll(stack, at, at, v) /\ upvals' = upvals
      BY <1>4, <2>1, <2>4, <3>1 DEF Store, Put
    <3>3. at \in Nat \ {0}
      BY <1>2, <2>2, <2>4, <3>1, OpenHas
    <3>4. PICK S : S = G \cup {Stale, v}
      OBVIOUS
    <3>5. stack \in Seq(S) /\ Stale \in S /\ v \in S
      BY <1>2, <3>4 DEF RunInv, DataOK
    <3>6. Filled(stack', stack, at, at, v)
      BY <3>2, <3>3, <3>5, PutAllFills
    <3>7. ASSUME NEW k \in DOMAIN upvals, upvals[k].immutable, upvals[k].open
          PROVE  stack'[upvals[k].at] = stack[upvals[k].at]
      <4>1. upvals[k].at # at
        BY <1>2, <2>2, <2>4, <3>1, <3>7 DEF RunInv, OneEach
      <4>2. upvals[k].at \in DOMAIN stack /\ upvals[k].at \in Nat
        BY <1>2, <3>7, OpenHas DEF Has
      <4>3. upvals[k].at < at \/ upvals[k].at > at
        BY <3>3, <4>1, <4>2
      <4> QED BY <3>6, <4>2, <4>3 DEF Filled
    <3> QED BY <3>2, <3>7 DEF Kept, UpvalueValue
  <2> QED BY <2>3, <2>4
<1> QED BY <1>1, <1>3, <1>4

(* A new closure leaves the upvalues of others as they are.                *)
LEMMA NewClosureKeeps ==
  ASSUME Inv, NewClosure
  PROVE  Kept
<1>1. outcome = "running" /\ This.op = "FNEW"
  BY DEF NewClosure, Now
<1>2. PICK G : RunInv(G) /\ Verified /\ made \in Nat
  BY <1>1, RunningInv
<1>3. PICK uvs, new, v, r :
           /\ Extended(upvals', uvs, new)
           /\ stack' = Put(stack, Slot(r), v) /\ r = This.a
  BY <1>2, NewUpvalues
<1>4. \A k \in DOMAIN upvals : upvals'[k] = upvals[k]
  BY <1>3 DEF Extended
<1>5. r \in Nat
  BY <1>2, <1>3, RunningCode
<1>6. stack' = PutAll(stack, Slot(r), Slot(r), v) /\ r..r \subseteq Written(This)
  BY <1>1, <1>3, <1>5 DEF Put, Written, Copies
<1> QED BY <1>2, <1>4, <1>5, <1>6, WritesKeep

(* A test that copies writes the register that it names.                   *)
LEMMA TestKeeps ==
  ASSUME Inv, Test
  PROVE  Kept
<1>1. outcome = "running" /\ This.op \in Tests
  BY DEF Test, Now
<1>2. PICK G : RunInv(G) /\ Verified
  BY <1>1, RunningInv
<1>3. upvals' = upvals
        /\ (stack' = stack \/ (This.op \in Copies /\ stack' = Put(stack, Slot(This.a), R(This.d))))
  BY DEF Test, Fail
<1>4. CASE This.op \in Copies /\ stack' = Put(stack, Slot(This.a), R(This.d))
  <2>1. PICK r, v : r = This.a /\ v = R(This.d)
    OBVIOUS
  <2>2. r \in Nat
    BY <1>2, <2>1, RunningCode
  <2>3. stack' = PutAll(stack, Slot(r), Slot(r), v) /\ r..r \subseteq Written(This)
    BY <1>4, <2>1, <2>2 DEF Put, Written, Copies
  <2> QED BY <1>2, <1>3, <2>2, <2>3, WritesKeep
<1> QED BY <1>3, <1>4, SameKept

(* A variable that is closed moves with what it holds.                     *)
LEMMA JumpKeeps ==
  ASSUME Inv, Jump
  PROVE  Kept
<1>1. outcome = "running" /\ stack' = stack
  BY DEF Jump, Now
<1>2. PICK G : RunInv(G) /\ Verified
  BY <1>1, RunningInv
<1>3. CASE This.op # "UCLO"
  BY <1>1, <1>3, SameKept DEF Jump
<1>4. CASE This.op = "UCLO"
  <2>1. PICK level : level = Slot(This.a)
    OBVIOUS
  <2>2. upvals' = Closed(level)
    BY <1>4, <2>1 DEF Jump
  <2>3. ASSUME NEW k \in DOMAIN upvals
        PROVE  UpvalueValue(upvals[k])' = UpvalueValue(upvals[k])
    <3>1. CASE upvals[k].open /\ upvals[k].at >= level
      <4>1. upvals'[k] = [upvals[k] EXCEPT !.open = FALSE, !.value = stack[upvals[k].at], !.at = 0]
        BY <2>2, <3>1 DEF Closed
      <4>2. upvals[k] \in UpvalueSet(G)
        BY <1>2 DEF RunInv, DataOK
      <4>3. upvals'[k].open = FALSE /\ upvals'[k].value = stack[upvals[k].at]
        BY <4>1, <4>2 DEF UpvalueSet
      <4> QED BY <3>1, <4>3 DEF UpvalueValue
    <3>2. CASE ~(upvals[k].open /\ upvals[k].at >= level)
      <4>1. upvals'[k] = upvals[k]
        BY <2>2, <3>2 DEF Closed
      <4> QED BY <1>1, <4>1 DEF UpvalueValue
    <3> QED BY <3>1, <3>2
  <2> QED BY <2>3 DEF Kept
<1> QED BY <1>3, <1>4

(* The slots of what waits are not touched by a call or its results.       *)
LEMMA CallsKeep ==
  ASSUME NEW G, NEW fs, NEW n \in Nat, NEW t \in Seq(G),
         Verified, RunInv(G), Suspended(fs, G),
         \A i \in DOMAIN fs : Above(fs[i]) <= n + 1,
         stack' = Below(n) \o t, upvals' = upvals
  PROVE  Kept
<1>1. \A j \in 1..n : j \in DOMAIN stack => stack'[j] = stack[j]
  BY BelowWith DEF RunInv, DataOK
<1>2. ASSUME NEW k \in DOMAIN upvals, upvals[k].open
      PROVE  stack'[upvals[k].at] = stack[upvals[k].at]
  <2>1. PICK at : at = upvals[k].at
    OBVIOUS
  <2>2. at \in DOMAIN stack /\ at \in Nat \ {0}
    BY <1>2, <2>1, OpenHas DEF Has
  <2>3. PICK i \in DOMAIN fs : HeldIn(upvals[k], fs[i], Before(fs[i]))
    BY <1>2 DEF Suspended, HeldBy
  <2>4. PICK f, r : f = fs[i] /\ r = at - f.base - 1
    OBVIOUS
  <2>5. /\ f.base \in Nat /\ CallOf(f).a \in Nat /\ Before(f).w \subseteq Nat
        /\ \A h \in Before(f).held : h[1] \in Before(f).w /\ h[1] < CallOf(f).a
    BY <2>4, SuspendedCode DEF WaitsAt, Suspended, RunInv, DataOK
  <2>6. r \in Nat /\ r < CallOf(f).a
    BY <2>1, <2>3, <2>4, <2>5 DEF HeldIn
  <2>7. Above(f) <= n + 1
    BY <2>4
  <2>8. at <= n
    BY <2>2, <2>4, <2>5, <2>6, <2>7 DEF Above, LJ_FR2
  <2>9. at \in 1..n
    BY <2>2, <2>8
  <2> QED BY <1>1, <2>1, <2>2, <2>9
<1>3. ASSUME NEW k \in DOMAIN upvals
      PROVE  UpvalueValue(upvals[k])' = UpvalueValue(upvals[k])
  BY <1>2 DEF UpvalueValue
<1> QED BY <1>3 DEF Kept

(* A called function has its registers above those that wait.              *)
LEMMA EnterKeeps ==
  ASSUME Inv, EnterFunction
  PROVE  Kept
<1>1. outcome = "running" /\ This.op \in CallOps \cup TailCallOps
  BY DEF EnterFunction, Calling, Now
<1>2. Verified /\ multres \in Nat
  BY <1>1, RunningInv
<1>3. PICK G : RunInv(G) /\ Nil \in G
  BY <1>1, RunningWithNil
<1>4. PICK fs, base, t : /\ fs = Waiting /\ t = Parameters(Callee)
                         /\ base = IF InTail THEN Top.base ELSE Slot(This.a) + LJ_FR2
  OBVIOUS
<1>5. Callee[1] = "closure" /\ stack' = Below(base) \o t /\ upvals' = upvals
  BY <1>4 DEF EnterFunction
<1>6. Suspended(fs, G) /\ Follows(fs, base) /\ base \in Nat
  BY <1>1, <1>2, <1>3, <1>4, WhatWaits
<1>7. t \in Seq(G)
  BY <1>1, <1>2, <1>3, <1>4, <1>5, ParametersSound
<1>8. \A i \in DOMAIN fs : Above(fs[i]) <= base + 1
  <2> SUFFICES ASSUME NEW i \in DOMAIN fs PROVE Above(fs[i]) <= base + 1
    OBVIOUS
  <2>1. Above(fs[i]) <= base /\ Above(fs[i]) \in Nat
    BY <1>2, <1>3, <1>6, SuspendedCode DEF WaitsAt, Suspended, RunInv, DataOK, Follows
  <2> QED BY <1>6, <2>1
<1> QED BY <1>2, <1>3, <1>5, <1>6, <1>7, <1>8, CallsKeep

(* Results lie above the variables of the caller that closures refer to.   *)
LEMMA LeaveKeeps ==
  ASSUME NEW G, NEW fs, NEW results \in Seq(G), Nil \in G,
         Verified, RunInv(G), Suspended(fs, G), Leave(fs, results), upvals' = upvals
  PROVE  Kept
<1>1. CASE fs = <<>>
  BY <1>1, SameKept DEF Leave
<1>2. CASE fs # <<>>
  <2>1. PICK n, top, call, low :
          /\ n = Len(fs) /\ top = fs[n] /\ call = CallOf(top) /\ low = top.base + call.a
    OBVIOUS
  <2>2. fs \in Seq(FrameSet(G)) /\ WaitingOK(fs, G) /\ \A v \in G : Sound(v, G)
    BY DEF Suspended, RunInv, DataOK
  <2>3. n \in Nat \ {0} /\ DOMAIN fs = 1..n /\ n \in DOMAIN fs
    BY <1>2, <2>1, <2>2
  <2>4. top.base \in Nat /\ call.a \in Nat /\ call.b \in Nat /\ Above(top) = low + 1 /\ low \in Nat
    <3>1. WaitsAt(top, G)
      BY <2>1, <2>2, <2>3, SuspendedCode
    <3>2. top.base \in Nat /\ call.a \in Nat /\ call.b \in Nat
      BY <2>1, <3>1 DEF WaitsAt
    <3>3. Above(top) = top.base + call.a + 1 + LJ_FR2 /\ low = top.base + call.a
      BY <2>1 DEF Above
    <3> QED BY ONLY <3>2, <3>3 DEF LJ_FR2
  <2>5. PICK wanted : wanted = IF call.b = 0 THEN Len(results) ELSE call.b - 1
    OBVIOUS
  <2>6. PICK given : given = [i \in 1..wanted |-> IF i <= Len(results) THEN results[i] ELSE Nil]
    OBVIOUS
  <2>7. stack' = Below(low) \o given
    <3>1. GiveResults(fs, results)
      BY <1>2 DEF Leave
    <3> QED BY <2>1, <2>5, <2>6, <3>1 DEF GiveResults, CallOf
  <2>8. given \in Seq(G)
    <3>1. wanted \in Nat
      BY <2>4, <2>5
    <3>2. \A i \in 1..wanted : (IF i <= Len(results) THEN results[i] ELSE Nil) \in G
      OBVIOUS
    <3> QED BY <2>6, <3>1, <3>2
  <2>9. ASSUME NEW i \in DOMAIN fs
        PROVE  Above(fs[i]) <= low + 1
    <3>1. CASE i = n
      BY <2>1, <2>4, <3>1
    <3>2. CASE i # n
      <4>1. i < n
        BY <2>3, <3>2
      <4>2. Above(fs[i]) <= top.base
        BY <2>1, <2>2, <2>3, <4>1 DEF WaitingOK
      <4>3. Above(fs[i]) \in Nat
        BY <2>2, SuspendedCode DEF WaitsAt
      <4> QED BY <2>1, <2>4, <4>2, <4>3
    <3> QED BY <3>1, <3>2
  <2> QED BY <2>4, <2>7, <2>8, <2>9, CallsKeep
<1> QED BY <1>1, <1>2

(* A return,                                                               *)
LEMMA ReturnKeeps ==
  ASSUME Inv, Return
  PROVE  Kept
<1>1. outcome = "running" /\ This.op \in ReturnOps
  BY DEF Return, Now
<1>2. Verified
  BY <1>1, RunningInv
<1>3. PICK G : RunInv(G) /\ Nil \in G
  BY <1>1, RunningWithNil
<1>4. PICK fs, results : /\ fs = Callers
                         /\ results = IF This.op = "RET1" THEN << R(This.a) >> ELSE <<>>
  OBVIOUS
<1>5. results \in Seq(G)
  BY <1>2, <1>3, <1>4, ReturnedSound
<1>6. Suspended(fs, G)
  BY <1>1, <1>2, <1>3, <1>4, CallersSuspended
<1>7. Leave(fs, results) /\ upvals' = upvals
  BY <1>4 DEF Return
<1> QED BY <1>2, <1>3, <1>5, <1>6, <1>7, LeaveKeeps

(* and the call of a function of the prelude.                              *)
LEMMA BuiltinKeeps ==
  ASSUME Inv, CallBuiltin
  PROVE  Kept
<1>1. outcome = "running" /\ This.op \in CallOps \cup TailCallOps
  BY DEF CallBuiltin, Calling, Now
<1>2. Verified /\ multres \in Nat
  BY <1>1, RunningInv
<1>3. PICK fs, v : fs = Waiting /\ v = BuiltinResults(Callee[2], Args)
  OBVIOUS
<1>4. CASE v = Fault
  BY <1>3, <1>4, SameKept DEF CallBuiltin, Fail
<1>5. CASE v # Fault
  <2>1. Leave(fs, v) /\ upvals' = upvals
    BY <1>3, <1>5 DEF CallBuiltin
  <2>2. PICK G : RunInv(G) /\ Nil \in G /\ v \in Seq(G)
    BY <1>1, <1>3, <1>5, ResultsSound
  <2>3. Suspended(fs, G)
    BY <1>1, <1>2, <1>3, <2>2, WhatWaits
  <2> QED BY <1>2, <2>1, <2>2, <2>3, LeaveKeeps
<1> QED BY <1>4, <1>5

(* No step changes an immutable variable.                                  *)
LEMMA StepKeeps ==
  ASSUME Inv, [(\E c : StartRun(c)) \/ RunNext]_runVars
  PROVE  Kept
<1>1. CASE \E c : StartRun(c)
  BY <1>1, SameKept DEF StartRun
<1>2. CASE CallOther
  BY <1>2, SameKept DEF CallOther, Fail
<1>3. CASE RunNext
  BY <1>2, <1>3, LoadsKeep, NilsKeep, PairsKeep, StoreKeeps, NewClosureKeeps, TestKeeps,
     JumpKeeps, EnterKeeps, BuiltinKeeps, ReturnKeeps DEF RunNext
<1>4. CASE UNCHANGED runVars
  BY <1>4, SameKept DEF runVars
<1> QED BY <1>1, <1>3, <1>4

(* What the trace compiler takes for a constant is one.                    *)
THEOREM ImmutablesKept ==
  MachineSpec /\ []CodeVerified => ImmutableKept
<1>1. Inv /\ [(\E c : StartRun(c)) \/ RunNext]_runVars =>
        [\A k \in DOMAIN upvals : upvals[k].immutable =>
           UpvalueValue(upvals[k])' = UpvalueValue(upvals[k])]_runVars
  BY StepKeeps DEF Kept
<1> QED BY <1>1, MachineInvariant, PTL DEF MachineSpec, ImmutableKept

=============================================================================
