----------------------------- MODULE TraceProofs -----------------------------
(***************************************************************************)
(* No jump of compiled code, no patched instruction and no recording ever  *)
(* refers to a trace that was flushed or collected, for any number of      *)
(* functions, traces, exits and penalty slots.                             *)
(*                                                                         *)
(* Every handler is a composition of operators on the state (Pendpatch,    *)
(* FlushRoot, FlushAll, Started, Stopped, Aborted), so the invariant is a  *)
(* predicate of a state j and there is a lemma for each operator.  The     *)
(* lasting part of the invariant (Base) holds after every one of them; a   *)
(* flush may leave the recording attached to a dead trace (Attached) until *)
(* it is aborted in the same step.                                         *)
(***************************************************************************)
EXTENDS Trace, WellFoundedInduction, TLAPS

-----------------------------------------------------------------------------
(* The inductive invariant. *)

(* What a trace refers to for the collector. *)
Refs(j, n) == ({j.trace[n].link} \ {0}) \union j.trace[n].sides

(* N holds the traces in the chains of the prototypes, and with each trace *)
(* what it refers to; Alive is the least such set.                         *)
Tree(j, N) ==
    /\ N \subseteq Saved(j) /\ j.chain \subseteq N
    /\ \A m \in N : Refs(j, m) \subseteq N

Alive(j) == {n \in Saved(j) : \A N \in SUBSET Saved(j) : Tree(j, N) => n \in N}

(* How a trace is tied to others: a chain holds root traces, a root trace  *)
(* its own side traces, a link leads to the trace itself or a root trace,  *)
(* and an exit to a side trace of the same root.                           *)
Tied(j, m) ==
    /\ m \in j.chain => j.trace[m].root = 0
    /\ \A s \in j.trace[m].sides : j.trace[s].root = m
    /\ j.trace[m].link \notin {0, m} => j.trace[j.trace[m].link].root = 0
    /\ \A e \in Exits : j.trace[m].exits[e] # 0 =>
          j.trace[m].exits[e] \in j.trace[RootOf(j, m)].sides

(* Nothing alive refers to a number without a trace, and all of it is tied. *)
Tidy(j) == Tree(j, Alive(j)) /\ \A m \in Alive(j) : Tied(j, m)

Typed(j) == j \in JitState /\ \A n \in TraceNo : j.trace[n] = Cur <=> n = j.cur.traceno

(* The numbers: free ones are above the hint and inside the array, and no  *)
(* trace is outside.                                                       *)
Numbers(j) ==
    /\ j.freetrace <= j.sizetrace
    /\ \A n \in TraceNo : n >= j.sizetrace => j.trace[n] = Null
    /\ \A n \in 1..(j.sizetrace - 1) : j.trace[n] = Null => n >= j.freetrace

(* What a recording starts from. *)
Begun(c) ==
    c.traceno # 0 =>
      /\ c.start \in PC => c.parent = 0 /\ c.exitno = 0 /\ c.startpc = c.start
      /\ c.start = AtExit => c.parent \in TraceNo /\ c.exitno \in Exits
      /\ c.start = AtCall => c.parent = 0 /\ c.exitno \in TraceNo

(* Nothing is put back and no continuation frame is held at the wrong time. *)
Phases(j) ==
    /\ Begun(j.cur)
    /\ j.patch # NoPatch => j.patch.pc \in PC /\ j.cur.traceno # 0
    /\ j.cur.traceno # 0 => j.held = 0

(* EntriesSaved, for a state j. *)
Entered(j) ==
    \A pc \in PC :
        (j.op[pc] = "jit" \/ j.patch.pc = pc) =>
            j.d[pc] \in Saved(j) /\ j.d[pc] \in j.chain /\ j.trace[j.d[pc]].start = pc

(* OnlyHeadersBlacklisted, for a state j. *)
Headers(j) == \A pc \in PC : j.op[pc] = "off" => ~IsRet(pc)

Base(j) ==
    Typed(j) /\ Numbers(j) /\ Phases(j) /\ Tidy(j) /\ Entered(j) /\ Headers(j)

(* What a recording will be attached to, and what a continuation frame     *)
(* goes on with, is alive.                                                 *)
Attached(j) ==
    /\ j.cur.traceno # 0 /\ j.cur.start = AtExit => j.cur.parent \in Alive(j)
    /\ j.cur.traceno # 0 /\ j.cur.start = AtCall => j.cur.exitno \in Alive(j)
    /\ j.held # 0 => j.held \in Alive(j)

Good(j) == Base(j) /\ Attached(j)

-----------------------------------------------------------------------------
(* Facts about places and numbers. *)

LEMMA Places ==
  /\ Elsewhere \notin PC /\ AtExit \notin PC /\ AtCall \notin PC /\ AtExit # AtCall
  /\ \A f \in Funs : Head(f) \in PC /\ Ret(f) \in PC /\ ~IsRet(Head(f)) /\ IsRet(Ret(f))
  /\ NoPatch.pc \notin PC
BY DEF PC, Elsewhere, AtExit, AtCall, Head, Ret, IsRet, NoPatch

LEMMA Numbering ==
  /\ MAX_TRACES \in Nat /\ MAX_TRACES >= 1 /\ MIN_VECSZ \in Nat /\ MIN_VECSZ >= 2
  /\ TraceNo \subseteq Nat /\ 0 \notin TraceNo /\ TraceNo \subseteq 0..MAX_TRACES
  /\ \A n \in 0..MAX_TRACES : n # 0 => n \in TraceNo
  /\ 0 \in Exits /\ Exits \subseteq Nat
  /\ SNAPCOUNT_DONE \in Nat /\ TRYSIDE \in Nat
BY ParametersAssumption DEF TraceNo, Exits, SNAPCOUNT_DONE

LEMMA SavedTraces ==
  ASSUME NEW j, Typed(j), NEW n \in Saved(j)
  PROVE  n \in TraceNo /\ n # 0 /\ j.trace[n] \in GCtrace /\ n # j.cur.traceno
BY Numbering DEF Typed, Saved, JitState

LEMMA IdleFacts ==
  /\ Idle \in Recordings /\ Idle.traceno = 0 /\ Begun(Idle)
  /\ Idle.start = AtCall
BY Places, Numbering DEF Idle, Recordings, Begun

-----------------------------------------------------------------------------
(* The traces alive. *)

(* When any such set exists, Alive is one, and the least. *)
LEMMA AliveLeast ==
  ASSUME NEW j, NEW N, Tree(j, N)
  PROVE  Alive(j) \subseteq N /\ Tree(j, Alive(j))
<1>1. N \in SUBSET Saved(j)
  BY DEF Tree
<1>2. Alive(j) \subseteq N
  BY <1>1 DEF Alive
<1>3. j.chain \subseteq Alive(j)
  <2> SUFFICES ASSUME NEW n \in j.chain PROVE n \in Alive(j)
    OBVIOUS
  <2> QED BY <1>1 DEF Alive, Tree
<1>4. ASSUME NEW m \in Alive(j), NEW n \in Refs(j, m)
      PROVE  n \in Alive(j)
  <2>1. n \in Saved(j)
    BY <1>2, <1>4, <1>1 DEF Tree
  <2>2. ASSUME NEW M \in SUBSET Saved(j), Tree(j, M)
        PROVE  n \in M
    BY <2>2, <1>4 DEF Alive, Tree
  <2> QED BY <2>1, <2>2 DEF Alive
<1> QED BY <1>2, <1>3, <1>4 DEF Tree, Alive

(* The same traces, in the same chains, with the same references. *)
SameTraces(j, k) ==
    /\ k.chain = j.chain /\ Saved(k) = Saved(j)
    /\ \A n \in Saved(j) : \A f \in {"root", "link", "sides", "exits", "start"} :
          k.trace[n][f] = j.trace[n][f]

LEMMA SameRefs ==
  ASSUME NEW j, NEW k, SameTraces(j, k), NEW n \in Saved(j)
  PROVE  /\ Refs(k, n) = Refs(j, n) /\ RootOf(k, n) = RootOf(j, n)
         /\ k.trace[n].root = j.trace[n].root /\ k.trace[n].link = j.trace[n].link
         /\ k.trace[n].sides = j.trace[n].sides /\ k.trace[n].exits = j.trace[n].exits
         /\ k.trace[n].start = j.trace[n].start
<1>1. \A f \in {"root", "link", "sides", "exits", "start"} : k.trace[n][f] = j.trace[n][f]
  BY DEF SameTraces
<1> QED BY <1>1 DEF Refs, RootOf

LEMMA SameAlive ==
  ASSUME NEW j, NEW k, SameTraces(j, k)
  PROVE  Alive(k) = Alive(j)
<1>1. Saved(k) = Saved(j) /\ k.chain = j.chain
  BY DEF SameTraces
<1>2. ASSUME NEW N \in SUBSET Saved(j)
      PROVE  Tree(k, N) <=> Tree(j, N)
  <2>1. \A m \in N : Refs(k, m) = Refs(j, m)
    BY SameRefs
  <2> QED BY <1>1, <2>1 DEF Tree
<1> QED BY <1>1, <1>2 DEF Alive

(* With every trace alive its root trace is alive. *)
LEMMA RootsAlive ==
  ASSUME NEW j, Typed(j), Tidy(j), NEW m \in Alive(j)
  PROVE  RootOf(j, m) \in Alive(j)
<1> DEFINE N == {n \in Alive(j) : RootOf(j, n) \in Alive(j)}
<1>1. Tree(j, Alive(j)) /\ \A n \in Alive(j) : Tied(j, n)
  BY DEF Tidy
<1>2. j.chain \subseteq N
  BY <1>1 DEF Tree, Tied, RootOf
<1>3. ASSUME NEW n \in N, NEW o \in Refs(j, n)
      PROVE  o \in N
  <2>1. o \in Alive(j)
    BY <1>1 DEF Tree
  <2>2. CASE o \in j.trace[n].sides
    <3>1. j.trace[o].root = n /\ n # 0
      BY <2>2, <1>1, SavedTraces DEF Tied, Alive
    <3> QED BY <2>1, <3>1 DEF RootOf
  <2>3. CASE o = j.trace[n].link /\ o # 0
    <3>1. CASE o = n
      BY <3>1
    <3>2. CASE o # n
      BY <3>2, <2>3, <2>1, <1>1 DEF Tied, RootOf
    <3> QED BY <3>1, <3>2
  <2> QED BY <2>2, <2>3 DEF Refs
<1>4. Tree(j, N)
  BY <1>1, <1>2, <1>3 DEF Tree
<1> QED BY <1>4, AliveLeast

(* Being tied depends on no more than SameTraces says. *)
LEMMA SameTidy ==
  ASSUME NEW j, NEW k, Typed(j), Tidy(j), SameTraces(j, k)
  PROVE  Tidy(k) /\ Alive(k) = Alive(j) /\ Saved(k) = Saved(j)
<1>1. Alive(k) = Alive(j)
  BY SameAlive
<1>2. Saved(k) = Saved(j) /\ k.chain = j.chain
  BY DEF SameTraces
<1>3. \A n \in Saved(j) : Refs(k, n) = Refs(j, n)
  BY SameRefs
<1>4. Tree(j, Alive(j)) /\ \A m \in Alive(j) : Tied(j, m)
  BY DEF Tidy
<1>5. Tree(k, Alive(k))
  BY <1>1, <1>2, <1>3, <1>4 DEF Tree
<1>6. ASSUME NEW m \in Alive(j) PROVE Tied(k, m)
  <2>1. m \in Saved(j) /\ RootOf(j, m) \in Saved(j)
    BY <1>4, RootsAlive DEF Tree
  <2>2. \A s \in Refs(j, m) : s \in Saved(j)
    BY <1>4 DEF Tree
  <2>3. Tied(j, m)
    BY <1>4
  <2>4. m \in k.chain => k.trace[m].root = 0
    BY <2>1, <2>3, <1>2, SameRefs DEF Tied
  <2>5. \A s \in k.trace[m].sides : k.trace[s].root = m
    BY <2>1, <2>2, <2>3, SameRefs DEF Tied, Refs
  <2>6. k.trace[m].link \notin {0, m} => k.trace[k.trace[m].link].root = 0
    BY <2>1, <2>2, <2>3, SameRefs DEF Tied, Refs
  <2>7. \A e \in Exits : k.trace[m].exits[e] # 0 =>
          k.trace[m].exits[e] \in k.trace[RootOf(k, m)].sides
    BY <2>1, <2>3, SameRefs DEF Tied
  <2> QED BY <2>4, <2>5, <2>6, <2>7 DEF Tied
<1> QED BY <1>1, <1>2, <1>5, <1>6 DEF Tidy

-----------------------------------------------------------------------------
(* Patches and penalties: the bytecode changes, the traces do not. *)

SameCompiler(j, k) ==
    /\ k.trace = j.trace /\ k.chain = j.chain /\ k.cur = j.cur /\ k.held = j.held
    /\ k.sizetrace = j.sizetrace /\ k.freetrace = j.freetrace

LEMMA OnlyCode ==
  ASSUME NEW j, NEW k, Base(j), k \in JitState, SameCompiler(j, k),
         k.patch # NoPatch => k.patch.pc \in PC /\ k.cur.traceno # 0,
         Entered(k), Headers(k)
  PROVE  Base(k) /\ (Attached(j) => Attached(k)) /\ Alive(k) = Alive(j)
<1>1. Saved(k) = Saved(j)
  BY DEF SameCompiler, Saved
<1>2. SameTraces(j, k)
  BY <1>1 DEF SameTraces, SameCompiler
<1>3. Alive(k) = Alive(j) /\ Tidy(k)
  BY <1>2, SameTidy DEF Base
<1>4. Typed(k) /\ Numbers(k) /\ Phases(k)
  BY DEF Base, Typed, Numbers, Phases, SameCompiler
<1> QED BY <1>3, <1>4 DEF Base, Attached, SameCompiler

(* trace_pendpatch: the patched instruction is back, or stays out for one  *)
(* instruction.                                                            *)
LEMMA PendpatchKeeps ==
  ASSUME NEW j, NEW k, NEW force \in BOOLEAN, Base(j), k = Pendpatch(j, force)
  PROVE  /\ Base(k) /\ (Attached(j) => Attached(k)) /\ SameCompiler(j, k)
         /\ Alive(k) = Alive(j)
         /\ force \/ ~j.patch.skip => k.patch = NoPatch
<1>1. j \in JitState /\ Phases(j) /\ Entered(j) /\ Headers(j)
  BY DEF Base, Typed
<1>2. CASE j.patch = NoPatch
  BY <1>2, OnlyCode, <1>1 DEF Pendpatch, SameCompiler
<1>3. CASE j.patch # NoPatch /\ j.patch.skip /\ ~force
  <2>1. k = [j EXCEPT !.patch.skip = FALSE]
    BY <1>3 DEF Pendpatch
  <2>2. /\ k \in JitState /\ SameCompiler(j, k) /\ k.op = j.op /\ k.d = j.d
        /\ k.patch.pc = j.patch.pc
    <3>1. [j.patch EXCEPT !.skip = FALSE] \in Patches
      BY <1>1 DEF JitState, Patches
    <3>2. /\ k = [j EXCEPT !.patch = [j.patch EXCEPT !.skip = FALSE]]
          /\ j.patch.pc = [j.patch EXCEPT !.skip = FALSE].pc
      BY <1>1, <2>1 DEF JitState, Patches
    <3> QED BY <1>1, <3>1, <3>2 DEF JitState, SameCompiler
  <2>3. Entered(k) /\ Headers(k)
    BY <2>2, <1>1 DEF Entered, Headers, SameCompiler, Saved
  <2> QED BY <1>1, <1>3, <2>2, <2>3, OnlyCode DEF Phases, SameCompiler
<1>4. CASE j.patch # NoPatch /\ ~(j.patch.skip /\ ~force)
  <2>1. k = [j EXCEPT !.op[j.patch.pc] = "jit", !.patch = NoPatch]
    BY <1>4 DEF Pendpatch
  <2>2. j.patch.pc \in PC
    BY <1>1, <1>4 DEF Phases
  <2>3. /\ k \in JitState /\ SameCompiler(j, k) /\ k.d = j.d /\ k.patch = NoPatch
        /\ k.op = [j.op EXCEPT ![j.patch.pc] = "jit"]
    <3> DEFINE op == [j.op EXCEPT ![j.patch.pc] = "jit"]
    <3>1. op \in [PC -> {"plain", "jit", "off"}] /\ NoPatch \in Patches
      BY <1>1, <2>2 DEF JitState, Patches, NoPatch
    <3>2. k = [j EXCEPT !.op = op, !.patch = NoPatch]
      BY <2>1
    <3> HIDE DEF op
    <3>3. k \in JitState /\ SameCompiler(j, k) /\ k.d = j.d /\ k.patch = NoPatch /\ k.op = op
      BY <3>1, <3>2, <1>1 DEF JitState, SameCompiler
    <3> QED BY <3>3 DEF op
  <2>4. Entered(k) /\ Headers(k)
    BY <2>2, <2>3, <1>1, Places DEF Entered, Headers, SameCompiler, Saved, JitState
  <2> QED BY <2>3, <2>4, OnlyCode
<1> QED BY <1>2, <1>3, <1>4

(* A compiled instruction is put back for a recording. *)
LEMMA UnpatchedKeeps ==
  ASSUME NEW j, NEW k, NEW pc \in PC, NEW skip \in BOOLEAN, Good(j), k = Unpatched(j, pc, skip),
         j.patch = NoPatch, j.op[pc] = "jit", j.cur.traceno # 0
  PROVE  Good(k)
<1>1. j \in JitState /\ Entered(j) /\ Headers(j)
  BY DEF Good, Base, Typed
<1>2. /\ k \in JitState /\ SameCompiler(j, k) /\ k.d = j.d /\ k.patch.pc = pc
      /\ k.op = [j.op EXCEPT ![pc] = "plain"]
  BY <1>1 DEF Unpatched, JitState, Patches, SameCompiler
<1>3. Entered(k) /\ Headers(k)
  BY <1>1, <1>2 DEF Entered, Headers, SameCompiler, Saved, JitState
<1> QED BY <1>2, <1>3, OnlyCode DEF Good, SameCompiler

LEMMA LeastOfIn ==
  ASSUME NEW S \in SUBSET Nat, S # {}
  PROVE  LeastOf(S) \in S /\ \A m \in S : LeastOf(S) <= m
<1>1. PICK i \in S : \A m \in S : ~(<<m, i>> \in OpToRel(<, Nat))
  BY WFMin, NatLessThanWellFounded
<1>2. \A m \in S : ~(m < i)
  BY <1>1, Zenon DEF OpToRel
<1>3. \E n \in S : \A m \in S : n <= m
  BY <1>2
<1> QED BY <1>3 DEF LeastOf

(* penalty_pc: a place is only blacklisted when it is in the cache. *)
LEMMA PenalizedKeeps ==
  ASSUME NEW j, NEW k, NEW pc \in PC \union {Elsewhere}, Base(j), k = Penalized(j, pc),
         j.patch = NoPatch,
         \/ pc \in PC /\ ~IsRet(pc)
         \/ \A i \in 1..PENALTY_SLOTS : j.penalty[i].pc # pc
  PROVE  Base(k) /\ (Attached(j) => Attached(k)) /\ SameCompiler(j, k) /\ k.patch = NoPatch
<1> DEFINE slots == {i \in 1..PENALTY_SLOTS : j.penalty[i].pc = pc}
           i == LeastOf(slots)
           val == 2 * j.penalty[i].val
<1>1. j \in JitState /\ Entered(j) /\ Headers(j)
  BY DEF Base, Typed
<1>2. \A p \in Penalties : p.val \in Nat
  BY ParametersAssumption DEF Penalties
<1>3. CASE slots = {}
  <2>1. k = [j EXCEPT !.penalty[j.penaltyslot] = [pc |-> pc, val |-> PENALTY_MIN],
                      !.penaltyslot = (j.penaltyslot % PENALTY_SLOTS) + 1]
    BY <1>3 DEF Penalized
  <2> DEFINE new == [j.penalty EXCEPT ![j.penaltyslot] = [pc |-> pc, val |-> PENALTY_MIN]]
             slot == (j.penaltyslot % PENALTY_SLOTS) + 1
  <2>2. new \in [1..PENALTY_SLOTS -> Penalties]
    BY <1>1, ParametersAssumption DEF JitState, Penalties
  <2>3. slot \in 1..PENALTY_SLOTS
    BY <1>1, ParametersAssumption DEF JitState
  <2>4. k = [j EXCEPT !.penalty = new, !.penaltyslot = slot]
    BY <2>1
  <2> HIDE DEF new, slot
  <2>5. /\ k \in JitState /\ SameCompiler(j, k) /\ k.patch = NoPatch
        /\ k.op = j.op /\ k.d = j.d
    BY <2>2, <2>3, <2>4, <1>1 DEF JitState, SameCompiler
  <2>6. Entered(k) /\ Headers(k)
    BY <2>5, <1>1 DEF Entered, Headers, SameCompiler, Saved
  <2> QED BY <2>5, <2>6, OnlyCode
<1>4. CASE slots # {} /\ val > PENALTY_MAX
  <2>1. k = [j EXCEPT !.op[pc] = "off"]
    BY <1>4 DEF Penalized
  <2>2. pc \in PC /\ ~IsRet(pc)
    BY <1>4
  <2> DEFINE new == [j.op EXCEPT ![pc] = "off"]
  <2>3. new \in [PC -> {"plain", "jit", "off"}]
    BY <1>1 DEF JitState
  <2>4. k = [j EXCEPT !.op = new]
    BY <2>1
  <2>5. k \in JitState /\ SameCompiler(j, k) /\ k.d = j.d /\ k.patch = j.patch /\ k.op = new
    <3> HIDE DEF new
    <3> QED BY <2>3, <2>4, <1>1 DEF JitState, SameCompiler
  <2>6. Entered(k) /\ Headers(k)
    BY <2>2, <2>5, <1>1, Places DEF Entered, Headers, SameCompiler, Saved, JitState
  <2> QED BY <2>5, <2>6, OnlyCode
<1>5. CASE slots # {} /\ ~(val > PENALTY_MAX)
  <2>1. k = [j EXCEPT !.penalty[i].val = val]
    BY <1>5 DEF Penalized
  <2>2. i \in 1..PENALTY_SLOTS
    <3> slots \subseteq Nat
      OBVIOUS
    <3> QED BY <1>5, LeastOfIn
  <2> HIDE DEF i, slots
  <2> DEFINE new == [j.penalty EXCEPT ![i].val = val]
  <2>3. j.penalty \in [1..PENALTY_SLOTS -> Penalties] /\ val \in 0..PENALTY_MAX
    BY <1>1, <1>2, <1>5, <2>2, ParametersAssumption, SMTT(20) DEF JitState
  <2>4. new \in [1..PENALTY_SLOTS -> Penalties]
    <3> HIDE DEF val
    <3>1. [j.penalty[i] EXCEPT !.val = val] \in Penalties
      BY <2>2, <2>3 DEF Penalties
    <3> QED BY <2>3, <3>1
  <2>5. k = [j EXCEPT !.penalty = new]
    BY <2>1
  <2> HIDE DEF new
  <2>6. /\ k \in JitState /\ SameCompiler(j, k) /\ k.patch = NoPatch
        /\ k.op = j.op /\ k.d = j.d
    BY <2>4, <2>5, <1>1 DEF JitState, SameCompiler
  <2>7. Entered(k) /\ Headers(k)
    BY <2>6, <1>1 DEF Entered, Headers, SameCompiler, Saved
  <2> QED BY <2>6, <2>7, OnlyCode
<1> QED BY <1>3, <1>4, <1>5

-----------------------------------------------------------------------------
(* Flushes. *)

(* trace_unpatch. *)
LEMMA RestoredFields ==
  ASSUME NEW j \in JitState, NEW pcs, NEW k, k = Restored(j, pcs)
  PROVE  /\ k \in JitState /\ SameCompiler(j, k) /\ k.patch = j.patch
         /\ \A pc \in PC :
              IF pc \in pcs /\ j.op[pc] = "jit" THEN k.op[pc] = "plain"
              ELSE k.op[pc] = j.op[pc] /\ k.d[pc] = j.d[pc]
<1> DEFINE jit == {pc \in pcs \intersect PC : j.op[pc] = "jit"}
           op == [pc \in PC |-> IF pc \in jit THEN "plain" ELSE j.op[pc]]
           d == [pc \in PC |-> IF pc \in jit THEN 0 ELSE j.d[pc]]
<1>1. k = [j EXCEPT !.op = op, !.d = d]
  BY DEF Restored
<1>2. op \in [PC -> {"plain", "jit", "off"}] /\ d \in [PC -> 0..MAX_TRACES]
  BY Numbering DEF JitState
<1>3. /\ k \in JitState /\ SameCompiler(j, k) /\ k.patch = j.patch
      /\ k.op = op /\ k.d = d
  <2> HIDE DEF op, d
  <2> QED BY <1>1, <1>2 DEF JitState, SameCompiler
<1> QED BY <1>3

(* trace_flushroot: the instruction that enters the trace is restored, and *)
(* no less is left that keeps others alive.                                *)
LEMMA FlushRootKeeps ==
  ASSUME NEW j, NEW k, NEW n \in j.chain, Base(j), k = FlushRoot(j, n), j.patch = NoPatch
  PROVE  Base(k) /\ k.patch = NoPatch /\ k.cur = j.cur /\ Saved(k) = Saved(j)
<1> DEFINE r == Restored(j, {j.trace[n].start})
<1>1. j \in JitState /\ Entered(j) /\ Headers(j) /\ Tidy(j)
  BY DEF Base, Typed
<1>2. /\ r \in JitState /\ SameCompiler(j, r) /\ r.patch = NoPatch
      /\ \A pc \in PC :
           IF pc = j.trace[n].start /\ j.op[pc] = "jit" THEN r.op[pc] = "plain"
           ELSE r.op[pc] = j.op[pc] /\ r.d[pc] = j.d[pc]
  BY <1>1, RestoredFields
<1>3. k = [r EXCEPT !.chain = @ \ {n}]
  BY DEF FlushRoot
<1> HIDE DEF r
<1>4. /\ k \in JitState /\ k.op = r.op /\ k.d = r.d /\ k.patch = NoPatch
      /\ k.trace = j.trace /\ k.chain = j.chain \ {n} /\ k.cur = j.cur /\ k.held = j.held
      /\ k.sizetrace = j.sizetrace /\ k.freetrace = j.freetrace
  BY <1>2, <1>3 DEF JitState, SameCompiler
<1>5. Saved(k) = Saved(j)
  BY <1>4 DEF Saved
<1>6. Typed(k) /\ Numbers(k) /\ Phases(k)
  BY <1>4 DEF Base, Typed, Numbers, Phases
<1>7. Entered(k) /\ Headers(k)
  BY <1>1, <1>2, <1>4, <1>5, Places DEF Entered, Headers
<1>8. Tidy(k)
  <2>1. Tree(k, Alive(j)) /\ \A m \in Alive(j) : Tied(k, m)
    BY <1>1, <1>4, <1>5 DEF Tidy, Tree, Tied, Refs, RootOf
  <2> QED BY <2>1, AliveLeast DEF Tidy
<1> QED BY <1>4, <1>5, <1>6, <1>7, <1>8 DEF Base

(* lj_trace_flushall: nothing is left. *)
LEMMA FlushAllKeeps ==
  ASSUME NEW j, NEW k, Typed(j), Tidy(j), Entered(j), Headers(j), j.patch = NoPatch, j.held = 0,
         k = FlushAll(j)
  PROVE  /\ Good(k) /\ k.cur = Idle /\ k.patch = NoPatch /\ k.held = 0
         /\ \A i \in 1..PENALTY_SLOTS : k.penalty[i] = NoPenalty
<1> DEFINE pcs == {j.trace[n].start : n \in {m \in Saved(j) : j.trace[m].root = 0}}
           r == Restored(j, pcs)
           none == [n \in TraceNo |-> Null]
           clear == [i \in 1..PENALTY_SLOTS |-> NoPenalty]
<1>1. j \in JitState
  BY DEF Typed
<1>2. /\ r \in JitState /\ SameCompiler(j, r) /\ r.patch = NoPatch
      /\ \A pc \in PC :
           IF pc \in pcs /\ j.op[pc] = "jit" THEN r.op[pc] = "plain"
           ELSE r.op[pc] = j.op[pc] /\ r.d[pc] = j.d[pc]
  BY <1>1, RestoredFields
<1>3. k = [r EXCEPT !.chain = {}, !.trace = none, !.freetrace = 0, !.penalty = clear,
                    !.cur = Idle]
  BY DEF FlushAll
<1>4. none \in [TraceNo -> GCtrace \union {Null, Cur}] /\ clear \in [1..PENALTY_SLOTS -> Penalties]
  BY ParametersAssumption DEF Penalties, NoPenalty
<1>5. \A pc \in PC : j.op[pc] = "jit" => pc \in pcs
  <2> SUFFICES ASSUME NEW pc \in PC, j.op[pc] = "jit" PROVE pc \in pcs
    OBVIOUS
  <2>1. j.d[pc] \in Saved(j) /\ j.d[pc] \in j.chain /\ j.trace[j.d[pc]].start = pc
    BY DEF Entered
  <2>2. j.trace[j.d[pc]].root = 0
    BY <2>1 DEF Tidy, Tree, Tied
  <2> QED BY <2>1, <2>2
<1>6. /\ k \in JitState /\ k.patch = NoPatch /\ k.op = r.op
      /\ k.trace = none /\ k.chain = {} /\ k.cur = Idle /\ k.held = 0
      /\ k.sizetrace = j.sizetrace /\ k.freetrace = 0 /\ k.penalty = clear
  <2> HIDE DEF r, none, clear
  <2>1. r.sizetrace = j.sizetrace /\ r.held = 0
    BY <1>2 DEF SameCompiler
  <2>2. /\ k.trace = none /\ k.chain = {} /\ k.cur = Idle /\ k.freetrace = 0
        /\ k.penalty = clear /\ k.op = r.op /\ k.patch = r.patch
        /\ k.sizetrace = r.sizetrace /\ k.held = r.held
    BY <1>2, <1>3 DEF JitState
  <2>3. 0 \in 0..(MAX_TRACES + 1)
    BY Numbering
  <2>4. k \in JitState
    BY <1>2, <1>3, <1>4, <2>3, IdleFacts, ZenonT(40) DEF JitState
  <2> QED BY <1>2, <2>1, <2>2, <2>4
<1>7. Saved(k) = {}
  BY <1>6 DEF Saved
<1>8. Typed(k) /\ Numbers(k) /\ Phases(k)
  <2>1. j.sizetrace \in Nat
    BY <1>1, Numbering DEF JitState
  <2> QED BY <1>6, <2>1, IdleFacts, Numbering, ValuesAssumption DEF Typed, Numbers, Phases
<1>9. Tidy(k)
  BY <1>6, <1>7 DEF Tidy, Tree, Alive
<1>10. Entered(k) /\ Headers(k)
  <2> HIDE DEF pcs, r
  <2> QED BY <1>2, <1>5, <1>6, Places DEF Entered, Headers
<1> QED BY <1>6, <1>8, <1>9, <1>10, IdleFacts DEF Good, Base, Attached

-----------------------------------------------------------------------------
(* The start of a recording. *)

LEMMA GrownBounds ==
  ASSUME NEW size \in 0..MAX_TRACES
  PROVE  Grown(size) \in 1..(MAX_TRACES + 1) /\ Grown(size) > size /\ Grown(size) >= 2
BY Numbering DEF Grown, Bigger, Smaller

(* trace_findfree: the number is free, and none below the hint is. *)
LEMMA FindFreeFinds ==
  ASSUME NEW j, NEW found, Typed(j), Numbers(j), found = FindFree(j)
  PROVE  /\ found.no \in 0..MAX_TRACES
         /\ found.freetrace \in 0..(MAX_TRACES + 1) /\ found.sizetrace \in 0..(MAX_TRACES + 1)
         /\ found.no # 0 =>
              /\ j.trace[found.no] = Null
              /\ found.no < found.sizetrace /\ found.freetrace <= found.sizetrace
              /\ found.sizetrace >= j.sizetrace
              /\ \A n \in 1..(found.sizetrace - 1) :
                    j.trace[n] = Null /\ n # found.no => n >= found.freetrace
<1> DEFINE first == Bigger(j.freetrace, 1)
           free == {n \in first..(j.sizetrace - 1) : j.trace[n] = Null}
           end == Bigger(first, j.sizetrace)
<1>1. /\ j.sizetrace \in Nat /\ j.sizetrace <= MAX_TRACES + 1
      /\ j.freetrace \in Nat /\ j.freetrace <= j.sizetrace
      /\ first \in Nat /\ first >= 1 /\ first >= j.freetrace
  BY Numbering DEF Typed, Numbers, JitState, Bigger
<1>2. CASE free # {}
  <2> DEFINE least == LeastOf(free)
  <2>1. free \subseteq Nat
    BY <1>1
  <2>2. least \in free /\ \A m \in free : least <= m
    BY <1>2, <2>1, LeastOfIn
  <2>3. found = [no |-> least, freetrace |-> least + 1, sizetrace |-> j.sizetrace]
    BY <1>2 DEF FindFree
  <2>4. /\ least \in Nat /\ least >= 1 /\ least <= j.sizetrace - 1 /\ j.trace[least] = Null
    BY <1>1, <2>2
  <2>5. ASSUME NEW n \in 1..(j.sizetrace - 1), j.trace[n] = Null, n # least
        PROVE  n >= least + 1
    <3>1. n >= first
      BY <1>1, <2>5 DEF Numbers, Bigger
    <3>2. n \in free
      BY <1>1, <3>1, <2>5
    <3> QED BY <2>2, <2>4, <2>5, <3>2
  <2> HIDE DEF least, first, free, end
  <2> QED BY <1>1, <2>3, <2>4, <2>5, Numbering
<1>3. CASE free = {} /\ j.sizetrace > MAX_TRACES
  BY <1>1, <1>3, Numbering DEF FindFree, Bigger
<1>4. CASE free = {} /\ ~(j.sizetrace > MAX_TRACES)
  <2>1. found = [no |-> end, freetrace |-> end, sizetrace |-> Grown(j.sizetrace)]
    BY <1>4 DEF FindFree
  <2>2. j.sizetrace \in 0..MAX_TRACES
    BY <1>1, <1>4, Numbering
  <2>3. end = Bigger(1, j.sizetrace) /\ end \in TraceNo /\ end >= j.sizetrace /\ end >= 1
    BY <1>1, <2>2, Numbering DEF Bigger, TraceNo
  <2>4. end < Grown(j.sizetrace)
    BY <2>2, <2>3, GrownBounds, Numbering DEF Bigger
  <2>5. j.trace[end] = Null
    BY <2>3 DEF Numbers
  <2>6. ASSUME NEW n \in 1..(Grown(j.sizetrace) - 1), j.trace[n] = Null
        PROVE  n >= end
    <3>1. CASE n < j.sizetrace
      <4>1. n \in 1..(j.sizetrace - 1) /\ n >= j.freetrace
        BY <1>1, <2>2, <3>1, <2>6, GrownBounds DEF Numbers
      <4>2. n \in free
        BY <1>1, <2>6, <4>1 DEF Bigger
      <4> QED BY <4>2, <1>4
    <3>2. CASE ~(n < j.sizetrace)
      BY <3>2, <2>2, <2>3, GrownBounds DEF Bigger
    <3> QED BY <3>1, <3>2
  <2> HIDE DEF first, free, end
  <2> QED BY <1>1, <2>1, <2>2, <2>3, <2>4, <2>5, <2>6, GrownBounds, Numbering
<1> QED BY <1>2, <1>3, <1>4

(* What a recording may start from: a place, or something alive. *)
MayStart(j, c) ==
    /\ c \in Recordings
    /\ c.start \in PC => c.parent = 0 /\ c.exitno = 0 /\ c.startpc = c.start
    /\ c.start = AtExit => c.parent \in Alive(j) /\ c.exitno \in Exits
    /\ c.start = AtCall => c.parent = 0 /\ c.exitno \in Alive(j)

(* trace_start: a recording has begun, or everything is flushed. *)
LEMMA StartedKeeps ==
  ASSUME NEW j, NEW k, NEW c, Good(j), j.cur.traceno = 0, j.held = 0, MayStart(j, c),
         k = Started(j, c)
  PROVE  /\ Good(k) /\ k.patch = NoPatch /\ k.held = 0
         /\ \/ /\ k.cur = Idle
               /\ \A i \in 1..PENALTY_SLOTS : k.penalty[i] = NoPenalty
            \/ \E no \in TraceNo :
                  /\ k.cur = [c EXCEPT !.traceno = no]
                  /\ k.op = j.op /\ k.d = j.d /\ Alive(k) = Alive(j)
<1> DEFINE found == FindFree(j)
           g == [j EXCEPT !.freetrace = found.freetrace, !.sizetrace = found.sizetrace]
<1>1. /\ j \in JitState /\ j.patch = NoPatch
      /\ Typed(j) /\ Numbers(j) /\ Phases(j) /\ Tidy(j) /\ Entered(j) /\ Headers(j)
  BY DEF Good, Base, Typed, Phases
<1>2. /\ found.no \in 0..MAX_TRACES
      /\ found.freetrace \in 0..(MAX_TRACES + 1) /\ found.sizetrace \in 0..(MAX_TRACES + 1)
      /\ found.no # 0 =>
           /\ j.trace[found.no] = Null
           /\ found.no < found.sizetrace /\ found.freetrace <= found.sizetrace
           /\ found.sizetrace >= j.sizetrace
           /\ \A n \in 1..(found.sizetrace - 1) :
                 j.trace[n] = Null /\ n # found.no => n >= found.freetrace
  BY <1>1, FindFreeFinds
<1>3. k = IF found.no = 0 THEN FlushAll(g)
          ELSE [g EXCEPT !.trace[found.no] = Cur, !.cur = [c EXCEPT !.traceno = found.no]]
  BY DEF Started
<1> HIDE DEF found
<1>4. /\ g \in JitState /\ g.op = j.op /\ g.d = j.d /\ g.patch = j.patch /\ g.trace = j.trace
      /\ g.chain = j.chain /\ g.cur = j.cur /\ g.penalty = j.penalty /\ g.held = j.held
      /\ g.freetrace = found.freetrace /\ g.sizetrace = found.sizetrace
  BY <1>1, <1>2 DEF JitState
<1> HIDE DEF g
<1>5. CASE found.no = 0
  <2>1. Saved(g) = Saved(j)
    BY <1>4 DEF Saved
  <2>2. SameTraces(j, g)
    BY <1>4, <2>1 DEF SameTraces
  <2>3. Typed(g) /\ Entered(g) /\ Headers(g)
    BY <1>1, <1>4, <2>1 DEF Typed, Entered, Headers
  <2>4. Tidy(g)
    BY <1>1, <2>2, SameTidy
  <2> QED BY <1>1, <1>3, <1>4, <1>5, <2>3, <2>4, FlushAllKeeps
<1>6. CASE found.no # 0
  <2> DEFINE no == found.no
             new == [c EXCEPT !.traceno = no]
             trace == [j.trace EXCEPT ![no] = Cur]
  <2>1. no \in TraceNo /\ j.trace[no] = Null
    BY <1>2, <1>6, Numbering
  <2>2. /\ new \in Recordings /\ new.traceno = no /\ new.start = c.start /\ new.parent = c.parent
        /\ new.exitno = c.exitno /\ new.startpc = c.startpc
    BY <1>2 DEF MayStart, Recordings
  <2>3. trace \in [TraceNo -> GCtrace \union {Null, Cur}]
    BY <1>1 DEF JitState
  <2>4. k = [g EXCEPT !.trace = trace, !.cur = new]
    BY <1>3, <1>4, <1>6
  <2> HIDE DEF trace, new, no
  <2>5. /\ k \in JitState /\ k.op = j.op /\ k.d = j.d /\ k.patch = NoPatch /\ k.trace = trace
        /\ k.chain = j.chain /\ k.cur = new /\ k.held = 0
        /\ k.freetrace = found.freetrace /\ k.sizetrace = found.sizetrace
    BY <1>1, <1>4, <2>2, <2>3, <2>4, ZenonT(40) DEF JitState
  <2>6. \A n \in TraceNo : k.trace[n] = IF n = no THEN Cur ELSE j.trace[n]
    BY <1>1, <2>5 DEF trace, JitState
  <2>7. Saved(k) = Saved(j)
    BY <2>1, <2>6 DEF Saved
  <2>8. no \notin Saved(j)
    BY <2>1 DEF Saved
  <2>9. SameTraces(j, k) /\ \A n \in Saved(j) : k.trace[n] = j.trace[n]
    BY <2>5, <2>6, <2>7, <2>8 DEF SameTraces, Saved
  <2>10. Alive(k) = Alive(j)
    BY <2>9, SameAlive
  <2>11. Typed(k)
    BY <1>1, <2>1, <2>2, <2>5, <2>6, ValuesAssumption, Numbering DEF Typed
  <2>12. Numbers(k)
    <3>1. no < found.sizetrace /\ found.freetrace <= found.sizetrace
          /\ found.sizetrace >= j.sizetrace
      BY <1>2, <1>6 DEF no
    <3>2. ASSUME NEW n \in TraceNo, n >= k.sizetrace
          PROVE  k.trace[n] = Null
      <4>1. n # no /\ n >= j.sizetrace
        BY <1>1, <1>2, <2>1, <2>5, <3>1, <3>2, Numbering DEF JitState
      <4> QED BY <4>1, <2>6, <1>1 DEF Numbers
    <3>3. ASSUME NEW n \in 1..(k.sizetrace - 1), k.trace[n] = Null
          PROVE  n >= k.freetrace
      <4>1. n \in TraceNo
        BY <1>2, <2>5, Numbering DEF TraceNo
      <4>2. n # no /\ j.trace[n] = Null
        BY <4>1, <2>6, <3>3, ValuesAssumption
      <4> QED BY <1>2, <1>6, <2>5, <4>2 DEF no
    <3> QED BY <2>5, <3>1, <3>2, <3>3 DEF Numbers
  <2>13. Phases(k)
    <3>1. \A n \in Alive(j) : n \in TraceNo
      BY DEF Alive, Saved
    <3> QED BY <2>1, <2>2, <2>5, <3>1, Numbering DEF Phases, Begun, MayStart
  <2>14. Tidy(k)
    BY <1>1, <2>9, SameTidy
  <2>15. Entered(k) /\ Headers(k)
    BY <1>1, <2>5, <2>7, <2>9 DEF Entered, Headers
  <2>16. Attached(k)
    BY <2>2, <2>5, <2>10 DEF Attached, MayStart
  <2> QED BY <2>1, <2>5, <2>10, <2>11, <2>12, <2>13, <2>14, <2>15, <2>16 DEF Good, Base, new
<1> QED BY <1>5, <1>6

-----------------------------------------------------------------------------
(* The end of a recording: abort. *)

(* The number of the recording is given back, and nothing is recorded. *)
LEMMA DroppedKeeps ==
  ASSUME NEW j, NEW k, Base(j), j.patch = NoPatch, j.cur.traceno # 0,
         k = [GiveBack(j, j.cur.traceno) EXCEPT !.cur = Idle]
  PROVE  Good(k) /\ k.cur = Idle /\ k.patch = NoPatch /\ k.held = 0
<1> DEFINE no == j.cur.traceno
           trace == [j.trace EXCEPT ![no] = Null]
           hint == IF no < j.freetrace THEN no ELSE j.freetrace
<1>1. /\ j \in JitState /\ Typed(j) /\ Numbers(j) /\ Phases(j) /\ Tidy(j)
      /\ Entered(j) /\ Headers(j) /\ j.held = 0
  BY DEF Base, Typed, Phases
<1>2. no \in TraceNo /\ no \in Nat /\ no >= 1 /\ no <= MAX_TRACES
  BY <1>1, Numbering DEF JitState, Recordings, TraceNo
<1>3. /\ j.freetrace \in Nat /\ j.sizetrace \in Nat /\ j.freetrace <= j.sizetrace
      /\ j.sizetrace <= MAX_TRACES + 1
  BY <1>1, Numbering DEF JitState, Numbers
<1>4. trace \in [TraceNo -> GCtrace \union {Null, Cur}] /\ hint \in 0..(MAX_TRACES + 1)
  BY <1>1, <1>2, <1>3, Numbering DEF JitState
<1>5. k = [j EXCEPT !.trace = trace, !.freetrace = hint, !.cur = Idle]
  BY DEF GiveBack
<1>6. j.trace[no] = Cur /\ no \notin Saved(j)
  BY <1>1, <1>2 DEF Typed, Saved
<1>7. /\ k \in JitState /\ k.op = j.op /\ k.d = j.d /\ k.patch = NoPatch /\ k.trace = trace
      /\ k.chain = j.chain /\ k.cur = Idle /\ k.held = 0
      /\ k.freetrace = hint /\ k.sizetrace = j.sizetrace
  <2> HIDE DEF trace, hint, no
  <2> QED BY <1>1, <1>4, <1>5, IdleFacts DEF JitState
<1>8. \A n \in TraceNo : k.trace[n] = IF n = no THEN Null ELSE j.trace[n]
  BY <1>1, <1>7 DEF JitState
<1> HIDE DEF trace, hint, no
<1>9. Saved(k) = Saved(j)
  BY <1>6, <1>8 DEF Saved
<1>10. SameTraces(j, k) /\ \A n \in Saved(j) : k.trace[n] = j.trace[n]
  <2>1. \A n \in Saved(j) : k.trace[n] = j.trace[n]
    BY <1>6, <1>8 DEF Saved
  <2> QED BY <1>7, <1>9, <2>1 DEF SameTraces
<1>11. Tidy(k) /\ Alive(k) = Alive(j)
  BY <1>1, <1>10, SameTidy
<1>12. Typed(k)
  BY <1>1, <1>7, <1>8, IdleFacts, Numbering, ValuesAssumption DEF Typed, no
<1>13. Numbers(k)
  <2>1. hint <= j.sizetrace /\ hint <= no /\ hint <= j.freetrace
    BY <1>2, <1>3 DEF hint
  <2>2. \A n \in TraceNo : n >= k.sizetrace => k.trace[n] = Null
    BY <1>1, <1>7, <1>8 DEF Numbers
  <2>3. ASSUME NEW n \in 1..(k.sizetrace - 1), k.trace[n] = Null
        PROVE  n >= k.freetrace
    <3>1. n \in TraceNo
      BY <1>3, <1>7, Numbering DEF TraceNo
    <3>2. CASE n = no
      BY <3>2, <2>1, <1>7
    <3>3. CASE n # no
      <4>1. n >= j.freetrace
        BY <3>1, <3>3, <2>3, <1>1, <1>7, <1>8 DEF Numbers
      <4>2. hint \in Int
        BY <1>2, <1>3 DEF hint
      <4> QED BY <4>1, <4>2, <2>1, <1>3, <1>7
    <3> QED BY <3>2, <3>3
  <2> QED BY <2>1, <2>2, <2>3, <1>7 DEF Numbers
<1>14. Phases(k) /\ Attached(k)
  BY <1>7, IdleFacts DEF Phases, Attached
<1>15. Entered(k) /\ Headers(k)
  <2>1. Headers(k)
    BY <1>1, <1>7 DEF Headers
  <2>2. k.patch.pc \notin PC
    BY <1>7, Places
  <2>3. ASSUME NEW pc \in PC, k.op[pc] = "jit" \/ k.patch.pc = pc
        PROVE  k.d[pc] \in Saved(k) /\ k.d[pc] \in k.chain /\ k.trace[k.d[pc]].start = pc
    <3>1. j.d[pc] \in Saved(j) /\ j.d[pc] \in j.chain /\ j.trace[j.d[pc]].start = pc
      BY <1>1, <1>7, <2>2, <2>3 DEF Entered
    <3> QED BY <1>7, <1>9, <1>10, <3>1
  <2> QED BY <2>1, <2>3 DEF Entered
<1> QED BY <1>7, <1>11, <1>12, <1>13, <1>14, <1>15 DEF Good, Base

(* The trace a stitched trace would continue is linked to itself. *)
LEMMA SelfLinkKeeps ==
  ASSUME NEW j, NEW k, NEW n \in Saved(j), Base(j), k = [j EXCEPT !.trace[n].link = n]
  PROVE  /\ Base(k) /\ k.patch = j.patch /\ k.cur = j.cur /\ k.held = j.held
<1> DEFINE T == [j.trace[n] EXCEPT !.link = n]
           trace == [j.trace EXCEPT ![n] = T]
<1>1. /\ j \in JitState /\ Typed(j) /\ Numbers(j) /\ Phases(j) /\ Tidy(j)
      /\ Entered(j) /\ Headers(j)
  BY DEF Base, Typed
<1>2. n \in TraceNo /\ n # 0 /\ j.trace[n] \in GCtrace /\ n \in 0..MAX_TRACES
  BY <1>1, SavedTraces, Numbering
<1>3. /\ T \in GCtrace /\ T.link = n /\ T.root = j.trace[n].root /\ T.sides = j.trace[n].sides
      /\ T.exits = j.trace[n].exits /\ T.start = j.trace[n].start
  BY <1>2 DEF GCtrace
<1>4. k = [j EXCEPT !.trace = trace]
  OBVIOUS
<1> HIDE DEF T
<1>5. trace \in [TraceNo -> GCtrace \union {Null, Cur}]
  BY <1>1, <1>3 DEF JitState
<1> HIDE DEF trace
<1>6. /\ k \in JitState /\ k.op = j.op /\ k.d = j.d /\ k.patch = j.patch /\ k.trace = trace
      /\ k.chain = j.chain /\ k.cur = j.cur /\ k.held = j.held
      /\ k.freetrace = j.freetrace /\ k.sizetrace = j.sizetrace
  BY <1>1, <1>4, <1>5 DEF JitState
<1>7. \A m \in TraceNo : k.trace[m] = IF m = n THEN T ELSE j.trace[m]
  BY <1>1, <1>6 DEF trace, JitState
<1>8. T # Null /\ T # Cur
  BY <1>3, ValuesAssumption
<1>9. Saved(k) = Saved(j)
  BY <1>7, <1>8 DEF Saved
<1>10. \A m \in Saved(j) :
         /\ k.trace[m].root = j.trace[m].root /\ k.trace[m].sides = j.trace[m].sides
         /\ k.trace[m].exits = j.trace[m].exits /\ k.trace[m].start = j.trace[m].start
         /\ k.trace[m].link = IF m = n THEN n ELSE j.trace[m].link
  BY <1>3, <1>7 DEF Saved
<1>11. Typed(k) /\ Numbers(k) /\ Phases(k)
  BY <1>1, <1>2, <1>6, <1>7, <1>8, ValuesAssumption DEF Typed, Numbers, Phases, Saved, TraceNo
<1>12. Tidy(k)
  <2>1. Alive(j) \subseteq Saved(j) /\ Tree(j, Alive(j)) /\ \A m \in Alive(j) : Tied(j, m)
    BY <1>1 DEF Tidy, Tree
  <2>2. Tree(k, Alive(j))
    BY <2>1, <1>6, <1>9, <1>10, <1>2 DEF Tree, Refs
  <2>3. ASSUME NEW m \in Alive(j) PROVE Tied(k, m)
    <3>1. RootOf(j, m) \in Saved(j) /\ RootOf(k, m) = RootOf(j, m)
      BY <2>1, <1>1, <1>10, RootsAlive DEF RootOf
    <3>2. \A s \in Refs(j, m) : s \in Saved(j)
      BY <2>1 DEF Tree
    <3> QED BY <2>1, <3>1, <3>2, <1>6, <1>10 DEF Tied, Refs
  <2> QED BY <2>2, <2>3, AliveLeast DEF Tidy
<1>13. Entered(k) /\ Headers(k)
  BY <1>1, <1>6, <1>9, <1>10 DEF Entered, Headers
<1> QED BY <1>6, <1>11, <1>12, <1>13 DEF Base

(* trace_abort of a recording. *)
LEMMA AbortedKeeps ==
  ASSUME NEW j, NEW k, Base(j), j.cur.traceno # 0,
         j.cur.start = AtCall => j.cur.exitno \in Saved(j),
         k = Aborted(j)
  PROVE  Good(k) /\ k.cur = Idle /\ k.patch = NoPatch /\ k.held = 0
<1> DEFINE p == Pendpatch(j, TRUE)
           c == j.cur
           blamed == IF c.parent # 0 \/ IsRet(c.start) THEN p
                     ELSE IF c.exitno = 0 THEN Penalized(p, c.startpc)
                     ELSE [p EXCEPT !.trace[c.exitno].link = c.exitno]
<1>1. Base(p) /\ SameCompiler(j, p) /\ p.patch = NoPatch
  BY PendpatchKeeps
<1>2. p.cur = c /\ Saved(p) = Saved(j)
  BY <1>1 DEF SameCompiler, Saved
<1>3. k = [GiveBack(blamed, c.traceno) EXCEPT !.cur = Idle]
  BY DEF Aborted
<1>4. Begun(c) /\ c \in Recordings
  BY DEF Base, Phases, Typed, JitState
<1> HIDE DEF p, c
<1>5. Base(blamed) /\ blamed.patch = NoPatch /\ blamed.cur = c
  <2>1. CASE c.parent # 0 \/ IsRet(c.start)
    BY <2>1, <1>1, <1>2
  <2>2. CASE ~(c.parent # 0 \/ IsRet(c.start)) /\ c.exitno = 0
    <3>1. c.startpc \in PC /\ ~IsRet(c.startpc)
      BY <2>2, <1>4, Numbering DEF Begun, Recordings, c
    <3>2. blamed = Penalized(p, c.startpc)
      BY <2>2
    <3> HIDE DEF blamed
    <3> QED BY <3>1, <3>2, <1>1, <1>2, PenalizedKeeps DEF SameCompiler
  <2>3. CASE ~(c.parent # 0 \/ IsRet(c.start)) /\ c.exitno # 0
    <3>1. c.start = AtCall
      BY <2>3, <1>4, Numbering DEF Begun, Recordings, c
    <3>2. c.exitno \in Saved(p)
      BY <3>1, <1>2 DEF c
    <3>3. blamed = [p EXCEPT !.trace[c.exitno].link = c.exitno]
      BY <2>3
    <3> HIDE DEF blamed
    <3> QED BY <3>2, <3>3, <1>1, <1>2, SelfLinkKeeps
  <2> QED BY <2>1, <2>2, <2>3
<1> HIDE DEF blamed
<1> QED BY <1>3, <1>5, DroppedKeeps DEF c

LEMMA RootAtStarts ==
  ASSUME NEW j, NEW pc \in PC
  PROVE  MayStart(j, RootAt(pc))
<1>1. /\ RootAt(pc) \in Recordings /\ RootAt(pc).start = pc /\ RootAt(pc).startpc = pc
      /\ RootAt(pc).parent = 0 /\ RootAt(pc).exitno = 0
  BY IdleFacts DEF RootAt, Idle, Recordings
<1> QED BY <1>1, Places DEF MayStart

(* trace_abort after the recording is already dropped: only a place is     *)
(* penalized, and after a flush that blacklists nothing.                   *)
LEMMA AbortedAgainKeeps ==
  ASSUME NEW j, NEW k, NEW c \in Recordings, Good(j), j.patch = NoPatch, j.cur = Idle, j.held = 0,
         \A i \in 1..PENALTY_SLOTS : j.penalty[i] = NoPenalty,
         k = Aborted([j EXCEPT !.cur = [c EXCEPT !.traceno = 0, !.parent = 0, !.exitno = 0]])
  PROVE  Good(k)
<1> DEFINE b == [c EXCEPT !.traceno = 0, !.parent = 0, !.exitno = 0]
           g == [j EXCEPT !.cur = b]
           blamed == IF IsRet(b.start) THEN g ELSE Penalized(g, b.startpc)
<1>1. j \in JitState /\ Base(j)
  BY DEF Good, Base, Typed
<1>2. /\ b \in Recordings /\ b.traceno = 0 /\ b.parent = 0 /\ b.exitno = 0
      /\ b.startpc \in PC \union {Elsewhere}
  <2>1. 0 \in 0..MAX_TRACES /\ 0 \in Exits \union 0..MAX_TRACES
    BY Numbering
  <2>2. /\ b.traceno = 0 /\ b.parent = 0 /\ b.exitno = 0 /\ b.start = c.start
        /\ b.startpc = c.startpc /\ b.loops = c.loops /\ b.rets = c.rets
    BY DEF Recordings
  <2>3. b \in Recordings
    BY <2>1 DEF Recordings
  <2> QED BY <2>2, <2>3 DEF Recordings
<1> HIDE DEF b
<1>3. /\ g \in JitState /\ g.op = j.op /\ g.d = j.d /\ g.patch = NoPatch /\ g.trace = j.trace
      /\ g.chain = j.chain /\ g.cur = b /\ g.held = 0 /\ g.penalty = j.penalty
      /\ g.freetrace = j.freetrace /\ g.sizetrace = j.sizetrace
  BY <1>1, <1>2 DEF JitState
<1> HIDE DEF g
<1>4. Base(g)
  <2>1. Saved(g) = Saved(j)
    BY <1>3 DEF Saved
  <2>2. SameTraces(j, g)
    BY <1>3, <2>1 DEF SameTraces
  <2>3. Tidy(g)
    BY <1>1, <2>2, SameTidy DEF Base
  <2>4. Typed(g) /\ Numbers(g) /\ Phases(g)
    BY <1>1, <1>2, <1>3, IdleFacts DEF Base, Typed, Numbers, Phases, Begun
  <2>5. Entered(g) /\ Headers(g)
    BY <1>1, <1>3, <2>1, Places DEF Base, Entered, Headers
  <2> QED BY <2>3, <2>4, <2>5 DEF Base
<1>5. Base(blamed) /\ blamed.patch = NoPatch /\ blamed.held = 0 /\ blamed.cur = b
  <2>1. \A i \in 1..PENALTY_SLOTS : g.penalty[i].pc # b.startpc
    BY <1>2, <1>3, ValuesAssumption DEF NoPenalty
  <2>2. CASE IsRet(b.start)
    BY <2>2, <1>3, <1>4
  <2>3. CASE ~IsRet(b.start)
    <3>1. blamed = Penalized(g, b.startpc)
      BY <2>3
    <3> HIDE DEF blamed
    <3> QED BY <3>1, <2>1, <1>2, <1>3, <1>4, PenalizedKeeps DEF SameCompiler
  <2> QED BY <2>2, <2>3
<1>6. Pendpatch(g, TRUE) = g
  BY <1>3 DEF Pendpatch
<1>7. k = [blamed EXCEPT !.cur = Idle]
  <2>1. k = Aborted(g)
    BY DEF g, b
  <2> QED BY <2>1, <1>2, <1>3, <1>6 DEF Aborted
<1> HIDE DEF blamed
<1>8. blamed \in JitState
  BY <1>5 DEF Base, Typed
<1>9. /\ k \in JitState /\ k.op = blamed.op /\ k.d = blamed.d /\ k.patch = NoPatch
      /\ k.trace = blamed.trace /\ k.chain = blamed.chain /\ k.cur = Idle /\ k.held = 0
      /\ k.freetrace = blamed.freetrace /\ k.sizetrace = blamed.sizetrace
  BY <1>5, <1>7, <1>8, IdleFacts DEF JitState
<1>10. Saved(k) = Saved(blamed)
  BY <1>9 DEF Saved
<1>11. SameTraces(blamed, k)
  BY <1>9, <1>10 DEF SameTraces
<1>12. Tidy(k)
  BY <1>5, <1>11, SameTidy DEF Base
<1>13. Typed(k) /\ Numbers(k) /\ Phases(k)
  BY <1>2, <1>5, <1>9, IdleFacts DEF Base, Typed, Numbers, Phases, Begun
<1>14. Entered(k) /\ Headers(k)
  BY <1>5, <1>9, <1>10, Places DEF Base, Entered, Headers
<1> QED BY <1>9, <1>12, <1>13, <1>14, IdleFacts DEF Good, Base, Attached

(* trace_downrec, with or without a number for the new root trace. *)
LEMMA AbortedDownrecKeeps ==
  ASSUME NEW j, NEW k, NEW pc \in PC, Good(j), j.cur.traceno # 0, k = AbortedDownrec(j, pc)
  PROVE  Good(k)
<1> DEFINE a == Aborted(j)
           s == Started(a, RootAt(pc))
<1>1. Good(a) /\ a.cur = Idle /\ a.patch = NoPatch /\ a.held = 0
  <2>1. j.cur.start = AtCall => j.cur.exitno \in Saved(j)
    BY DEF Good, Attached, Alive
  <2> QED BY <2>1, AbortedKeeps DEF Good
<1>2. /\ Good(s) /\ s.patch = NoPatch /\ s.held = 0
      /\ \/ /\ s.cur = Idle
            /\ \A i \in 1..PENALTY_SLOTS : s.penalty[i] = NoPenalty
         \/ s.cur.traceno # 0
  <2> HIDE DEF a
  <2>1. MayStart(a, RootAt(pc))
    BY RootAtStarts
  <2>2. /\ Good(s) /\ s.patch = NoPatch /\ s.held = 0
        /\ \/ /\ s.cur = Idle
              /\ \A i \in 1..PENALTY_SLOTS : s.penalty[i] = NoPenalty
           \/ \E no \in TraceNo : s.cur = [RootAt(pc) EXCEPT !.traceno = no]
    BY <1>1, <2>1, IdleFacts, StartedKeeps
  <2>3. ASSUME NEW no \in TraceNo, s.cur = [RootAt(pc) EXCEPT !.traceno = no]
        PROVE  s.cur.traceno # 0
    <3>1. RootAt(pc) \in Recordings
      BY <2>1 DEF MayStart
    <3> QED BY <3>1, <2>3, Numbering DEF Recordings
  <2> QED BY <2>2, <2>3
<1>3. k = IF s.cur.traceno # 0 THEN s
          ELSE Aborted([s EXCEPT !.cur = [j.cur EXCEPT !.traceno = 0, !.parent = 0, !.exitno = 0]])
  BY DEF AbortedDownrec
<1>4. j.cur \in Recordings
  BY DEF Good, Base, Typed, JitState
<1> HIDE DEF s, a
<1>5. CASE s.cur.traceno # 0
  BY <1>2, <1>3, <1>5
<1>6. CASE s.cur.traceno = 0
  BY <1>2, <1>3, <1>4, <1>6, AbortedAgainKeeps
<1> QED BY <1>5, <1>6

-----------------------------------------------------------------------------
(* The end of a recording: stop. *)

(* What a recording may link to: nothing, itself, or a root trace alive. *)
MayLink(j, n) ==
    /\ n \in 0..MAX_TRACES
    /\ n \notin {0, j.cur.traceno} => n \in Alive(j) /\ j.trace[n].root = 0

LinkTypes == {"loop", "root", "return", "interp", "stitch"}

LEMMA RecordedFields ==
  ASSUME NEW j, NEW n, NEW linktype \in LinkTypes, NEW T, Good(j), j.cur.traceno # 0,
         MayLink(j, n), T = Recorded(j, n, linktype)
  PROVE  /\ T \in GCtrace /\ T.start = j.cur.start /\ T.link = n /\ T.sides = {}
         /\ T.exits = [e \in Exits |-> 0]
         /\ T.root = IF j.cur.start = AtExit THEN RootOf(j, j.cur.parent) ELSE 0
<1> DEFINE root == IF j.cur.start = AtExit THEN RootOf(j, j.cur.parent) ELSE 0
<1>1. root \in 0..MAX_TRACES
  <2>1. CASE j.cur.start = AtExit
    <3>1. RootOf(j, j.cur.parent) \in Saved(j)
      BY <2>1, RootsAlive DEF Good, Base, Attached, Alive
    <3> QED BY <2>1, <3>1, Numbering DEF Saved
  <2>2. CASE j.cur.start # AtExit
    BY <2>2, Numbering
  <2> QED BY <2>1, <2>2
<1>2. j.cur.start \in PC \union {AtExit, AtCall}
  BY DEF Good, Base, Typed, JitState, Recordings
<1>3. T = [start |-> j.cur.start, root |-> root, link |-> n, linktype |-> linktype,
           count |-> [e \in Exits |-> 0], exits |-> [e \in Exits |-> 0], sides |-> {}]
  BY DEF Recorded
<1>4. 0 \in 0..SNAPCOUNT_DONE /\ 0 \in 0..MAX_TRACES
  BY Numbering
<1> HIDE DEF root
<1>5. T \in GCtrace
  BY <1>1, <1>2, <1>3, <1>4 DEF GCtrace, MayLink, LinkTypes
<1> QED BY <1>3, <1>5 DEF root

(* trace_save: one more trace is saved, and nothing refers to it yet. *)
LEMMA TraceSaveKeeps ==
  ASSUME NEW j, NEW k, NEW T \in GCtrace, Base(j), j.cur.traceno # 0, j.patch = NoPatch,
         k = TraceSave(j, T)
  PROVE  /\ Base(k) /\ Alive(k) = Alive(j) /\ Saved(k) = Saved(j) \union {j.cur.traceno}
         /\ k.trace[j.cur.traceno] = T /\ \A n \in Saved(j) : k.trace[n] = j.trace[n]
         /\ k.cur = Idle /\ k.patch = NoPatch /\ k.held = 0 /\ k.chain = j.chain
         /\ j.cur.traceno \in TraceNo /\ j.cur.traceno \notin Saved(j)
<1> DEFINE no == j.cur.traceno
           trace == [j.trace EXCEPT ![no] = T]
<1>1. /\ j \in JitState /\ Typed(j) /\ Numbers(j) /\ Phases(j) /\ Tidy(j)
      /\ Entered(j) /\ Headers(j) /\ j.held = 0
  BY DEF Base, Typed, Phases
<1>2. no \in TraceNo /\ j.trace[no] = Cur /\ no \notin Saved(j)
  BY <1>1, Numbering DEF Typed, JitState, Recordings, Saved
<1>3. k = [j EXCEPT !.trace = trace, !.cur = Idle]
  BY DEF TraceSave
<1>4. trace \in [TraceNo -> GCtrace \union {Null, Cur}]
  BY <1>1 DEF JitState
<1>5. /\ k \in JitState /\ k.op = j.op /\ k.d = j.d /\ k.patch = NoPatch /\ k.trace = trace
      /\ k.chain = j.chain /\ k.cur = Idle /\ k.held = 0
      /\ k.freetrace = j.freetrace /\ k.sizetrace = j.sizetrace
  <2> HIDE DEF trace
  <2> QED BY <1>1, <1>3, <1>4, IdleFacts DEF JitState
<1>6. \A n \in TraceNo : k.trace[n] = IF n = no THEN T ELSE j.trace[n]
  BY <1>1, <1>5 DEF JitState
<1> HIDE DEF trace, no
<1>7. T # Null /\ T # Cur
  BY ValuesAssumption
<1>8. Saved(k) = Saved(j) \union {no}
  BY <1>2, <1>6, <1>7 DEF Saved
<1>9. \A n \in Saved(j) : k.trace[n] = j.trace[n]
  BY <1>2, <1>6 DEF Saved
<1>10. Typed(k) /\ Numbers(k) /\ Phases(k)
  <2>1. Typed(k)
    BY <1>1, <1>5, <1>6, <1>7, IdleFacts, Numbering, ValuesAssumption DEF Typed, no
  <2>2. Numbers(k)
    <3>1. ASSUME NEW n \in TraceNo, n >= k.sizetrace
          PROVE  k.trace[n] = Null
      <4>1. j.trace[n] = Null
        BY <3>1, <1>1, <1>5 DEF Numbers
      <4> QED BY <4>1, <1>2, <1>6, ValuesAssumption
    <3>2. ASSUME NEW n \in 1..(k.sizetrace - 1), k.trace[n] = Null
          PROVE  n >= k.freetrace
      <4>1. n \in TraceNo
        BY <1>1, <1>5, Numbering DEF JitState, TraceNo
      <4>2. j.trace[n] = Null
        BY <3>2, <4>1, <1>6, <1>7
      <4> QED BY <4>2, <1>1, <1>5 DEF Numbers
    <3> QED BY <3>1, <3>2, <1>1, <1>5 DEF Numbers
  <2>3. Phases(k)
    BY <1>5, IdleFacts DEF Phases
  <2> QED BY <2>1, <2>2, <2>3
<1>11. ASSUME NEW N \in SUBSET Saved(j)
       PROVE  Tree(k, N) <=> Tree(j, N)
  <2>1. \A m \in N : Refs(k, m) = Refs(j, m)
    BY <1>9 DEF Refs
  <2> QED BY <1>5, <1>8, <2>1 DEF Tree
<1>12. Alive(j) \subseteq Saved(j) /\ Tree(j, Alive(j)) /\ \A m \in Alive(j) : Tied(j, m)
  BY <1>1 DEF Tidy, Tree
<1>13. Alive(k) = Alive(j)
  <2>1. Alive(k) \subseteq Alive(j) /\ Tree(k, Alive(k))
    BY <1>11, <1>12, AliveLeast
  <2>2. Tree(j, Alive(k))
    BY <2>1, <1>11, <1>12
  <2> QED BY <2>1, <2>2, AliveLeast
<1>14. Tidy(k)
  <2>1. ASSUME NEW m \in Alive(j) PROVE Tied(k, m)
    <3>1. RootOf(j, m) \in Saved(j) /\ RootOf(k, m) = RootOf(j, m)
      BY <1>1, <1>9, <1>12, RootsAlive DEF RootOf
    <3>2. \A s \in Refs(j, m) : s \in Saved(j)
      BY <1>12 DEF Tree
    <3> QED BY <3>1, <3>2, <1>5, <1>9, <1>12 DEF Tied, Refs
  <2> QED BY <2>1, <1>11, <1>12, <1>13 DEF Tidy
<1>15. Entered(k) /\ Headers(k)
  BY <1>1, <1>5, <1>8, <1>9 DEF Entered, Headers
<1> QED BY <1>2, <1>5, <1>6, <1>8, <1>9, <1>10, <1>13, <1>14, <1>15 DEF Base, no

(* A trace just saved: j is the state of the recording, s the state after  *)
(* trace_save.                                                             *)
JustSaved(j, s, no, n) ==
    /\ Base(s) /\ s.cur = Idle /\ s.patch = NoPatch /\ s.held = 0
    /\ no \in Saved(s) /\ no \notin Alive(s)
    /\ s.trace[no].start = j.cur.start /\ s.trace[no].link = n /\ s.trace[no].sides = {}
    /\ s.trace[no].exits = [e \in Exits |-> 0]
    /\ n \notin {0, no} => n \in Alive(s) /\ s.trace[n].root = 0

(* What holds of it: it refers to no more than itself and what is alive.   *)
LEMMA JustSavedTied ==
  ASSUME NEW j, NEW s, NEW no, NEW n, JustSaved(j, s, no, n)
  PROVE  /\ Refs(s, no) \subseteq Alive(s) \union {no} /\ Tied(s, no)
         /\ Alive(s) \subseteq Saved(s) /\ no \notin s.chain
         /\ \A m \in Alive(s) : Tied(s, m) /\ Refs(s, m) \subseteq Alive(s)
<1>1. Tree(s, Alive(s)) /\ \A m \in Alive(s) : Tied(s, m)
  BY DEF JustSaved, Base, Tidy
<1>2. no \notin s.chain
  BY <1>1 DEF JustSaved, Tree
<1>3. Tied(s, no)
  BY <1>2 DEF JustSaved, Tied
<1>4. Refs(s, no) \subseteq Alive(s) \union {no}
  BY DEF JustSaved, Refs
<1> QED BY <1>1, <1>2, <1>3, <1>4 DEF Tree

(* trace_stop of a root trace: its start enters it.                        *)
LEMMA StoppedRootKeeps ==
  ASSUME NEW j, NEW s, NEW k, NEW no, NEW n, NEW pc \in PC, JustSaved(j, s, no, n),
         j.cur.start = pc, s.trace[no].root = 0,
         k = [s EXCEPT !.op[pc] = "jit", !.d[pc] = no, !.chain = @ \union {no}]
  PROVE  Good(k)
<1> DEFINE op == [s.op EXCEPT ![pc] = "jit"]
           d == [s.d EXCEPT ![pc] = no]
           chain == s.chain \union {no}
<1>1. /\ s \in JitState /\ Typed(s) /\ Numbers(s) /\ Phases(s) /\ Tidy(s)
      /\ Entered(s) /\ Headers(s) /\ s.held = 0 /\ s.cur = Idle /\ s.patch = NoPatch
  BY DEF JustSaved, Base, Typed
<1>2. no \in Saved(s) /\ no \in TraceNo /\ no \in 0..MAX_TRACES
  BY Numbering DEF JustSaved, Saved
<1>3. /\ op \in [PC -> {"plain", "jit", "off"}] /\ d \in [PC -> 0..MAX_TRACES]
      /\ chain \in SUBSET TraceNo
  BY <1>1, <1>2 DEF JitState
<1>4. k = [s EXCEPT !.op = op, !.d = d, !.chain = chain]
  OBVIOUS
<1>5. /\ k \in JitState /\ k.op = op /\ k.d = d /\ k.patch = NoPatch /\ k.trace = s.trace
      /\ k.chain = chain /\ k.cur = Idle /\ k.held = 0
      /\ k.freetrace = s.freetrace /\ k.sizetrace = s.sizetrace
  <2> HIDE DEF op, d, chain
  <2> QED BY <1>1, <1>3, <1>4 DEF JitState
<1>6. Saved(k) = Saved(s)
  BY <1>5 DEF Saved
<1>7. Typed(k) /\ Numbers(k) /\ Phases(k)
  BY <1>1, <1>5 DEF Typed, Numbers, Phases
<1>8. Tidy(k)
  <2> DEFINE N == Alive(s) \union {no}
  <2>1. Tree(s, Alive(s)) /\ \A m \in Alive(s) : Tied(s, m)
    BY <1>1 DEF Tidy
  <2>2. \A m \in TraceNo : Refs(k, m) = Refs(s, m) /\ RootOf(k, m) = RootOf(s, m)
    BY <1>5 DEF Refs, RootOf
  <2>3. Alive(s) \subseteq Saved(s) /\ Saved(s) \subseteq TraceNo
    BY DEF Alive, Saved
  <2>4. Tree(k, N)
    BY <2>1, <2>2, <2>3, <1>2, <1>5, <1>6, JustSavedTied DEF Tree
  <2>5. ASSUME NEW m \in N PROVE Tied(k, m)
    <3>1. Tied(s, m)
      BY JustSavedTied
    <3>2. m \in k.chain => k.trace[m].root = 0
      BY <1>5, <3>1 DEF Tied
    <3> QED BY <1>2, <1>5, <2>2, <2>3, <3>1, <3>2 DEF Tied
  <2> QED BY <2>4, <2>5, AliveLeast DEF Tidy
<1>9. Entered(k) /\ Headers(k)
  BY <1>1, <1>2, <1>3, <1>5, <1>6, Places DEF Entered, Headers, JustSaved, JitState
<1> QED BY <1>5, <1>7, <1>8, <1>9, IdleFacts DEF Good, Base, Attached

(* trace_stop of a stitched trace: the trace before it links to it.        *)
LEMMA StoppedStitchKeeps ==
  ASSUME NEW j, NEW s, NEW k, NEW no, NEW n, NEW before \in Alive(s), JustSaved(j, s, no, n),
         s.trace[no].root = 0,
         k = [s EXCEPT !.trace[before].link = no]
  PROVE  Good(k)
<1> DEFINE T == [s.trace[before] EXCEPT !.link = no]
           trace == [s.trace EXCEPT ![before] = T]
<1>1. /\ s \in JitState /\ Typed(s) /\ Numbers(s) /\ Phases(s) /\ Tidy(s)
      /\ Entered(s) /\ Headers(s) /\ s.held = 0 /\ s.cur = Idle /\ s.patch = NoPatch
  BY DEF JustSaved, Base, Typed
<1>2. no \in Saved(s) /\ no \in TraceNo /\ no \in 0..MAX_TRACES /\ no \notin Alive(s)
  BY Numbering DEF JustSaved, Saved
<1>3. before \in Saved(s) /\ before \in TraceNo /\ s.trace[before] \in GCtrace /\ before # no
  BY <1>1, <1>2, SavedTraces DEF Alive
<1>4. /\ T \in GCtrace /\ T.link = no /\ T.root = s.trace[before].root
      /\ T.sides = s.trace[before].sides /\ T.exits = s.trace[before].exits
      /\ T.start = s.trace[before].start
  BY <1>2, <1>3 DEF GCtrace
<1>5. k = [s EXCEPT !.trace = trace]
  OBVIOUS
<1> HIDE DEF T
<1>6. trace \in [TraceNo -> GCtrace \union {Null, Cur}]
  BY <1>1, <1>4 DEF JitState
<1> HIDE DEF trace
<1>7. /\ k \in JitState /\ k.op = s.op /\ k.d = s.d /\ k.patch = NoPatch /\ k.trace = trace
      /\ k.chain = s.chain /\ k.cur = Idle /\ k.held = 0
      /\ k.freetrace = s.freetrace /\ k.sizetrace = s.sizetrace
  BY <1>1, <1>5, <1>6 DEF JitState
<1>8. \A m \in TraceNo : k.trace[m] = IF m = before THEN T ELSE s.trace[m]
  BY <1>1, <1>7 DEF trace, JitState
<1>9. T # Null /\ T # Cur
  BY <1>4, ValuesAssumption
<1>10. Saved(k) = Saved(s)
  BY <1>3, <1>8, <1>9 DEF Saved
<1>11. \A m \in Saved(s) :
         /\ k.trace[m].root = s.trace[m].root /\ k.trace[m].sides = s.trace[m].sides
         /\ k.trace[m].exits = s.trace[m].exits /\ k.trace[m].start = s.trace[m].start
         /\ k.trace[m].link = IF m = before THEN no ELSE s.trace[m].link
  BY <1>4, <1>8 DEF Saved
<1>12. Typed(k) /\ Numbers(k) /\ Phases(k)
  <2>1. s.trace[before] # Null /\ s.trace[before] # Cur
    BY <1>3, ValuesAssumption
  <2>2. Numbers(k)
    <3>1. ASSUME NEW m \in 1..(k.sizetrace - 1), k.trace[m] = Null PROVE m >= k.freetrace
      <4>1. m \in TraceNo
        BY <1>1, <1>7, Numbering DEF JitState, TraceNo
      <4> QED BY <3>1, <4>1, <1>1, <1>7, <1>8, <1>9 DEF Numbers
    <3> QED BY <3>1, <2>1, <1>1, <1>7, <1>8 DEF Numbers
  <2> QED BY <2>1, <2>2, <1>1, <1>7, <1>8, <1>9 DEF Typed, Phases
<1>13. Tidy(k)
  <2> DEFINE N == Alive(s) \union {no}
  <2>1. Tree(s, Alive(s)) /\ \A m \in Alive(s) : Tied(s, m)
    BY <1>1 DEF Tidy
  <2>2. Alive(s) \subseteq Saved(s)
    BY DEF Alive
  <2>3. Tree(k, N)
    <3>1. ASSUME NEW m \in N PROVE Refs(k, m) \subseteq N
      <4>1. Refs(s, m) \subseteq N /\ m \in Saved(s)
        BY <1>2, <2>1, <2>2, JustSavedTied DEF Tree
      <4> QED BY <4>1, <1>11 DEF Refs
    <3> QED BY <3>1, <2>1, <2>2, <1>2, <1>7, <1>10 DEF Tree
  <2>4. ASSUME NEW m \in N PROVE Tied(k, m)
    <3>1. Tied(s, m) /\ m \in Saved(s) /\ Refs(s, m) \subseteq Saved(s)
      BY <1>2, <2>2, JustSavedTied
    <3>2. RootOf(k, m) = RootOf(s, m)
      BY <3>1, <1>11 DEF RootOf
    <3>3. m = no \/ RootOf(s, m) \in Saved(s)
      BY <1>1, <2>2, RootsAlive
    <3>4. m \in k.chain => k.trace[m].root = 0
      BY <3>1, <1>7, <1>11 DEF Tied
    <3>5. \A o \in k.trace[m].sides : k.trace[o].root = m
      BY <3>1, <1>11 DEF Tied, Refs
    <3>6. k.trace[m].link \notin {0, m} => k.trace[k.trace[m].link].root = 0
      BY <3>1, <1>2, <1>11 DEF Tied, Refs
    <3>7. \A e \in Exits : k.trace[m].exits[e] # 0 =>
            k.trace[m].exits[e] \in k.trace[RootOf(k, m)].sides
      <4>1. CASE m = no
        BY <4>1, <1>2, <1>11 DEF JustSaved
      <4>2. CASE m # no
        BY <4>2, <3>1, <3>2, <3>3, <1>11 DEF Tied
      <4> QED BY <4>1, <4>2
    <3> QED BY <3>4, <3>5, <3>6, <3>7 DEF Tied
  <2> QED BY <2>3, <2>4, AliveLeast DEF Tidy
<1>14. Entered(k) /\ Headers(k)
  BY <1>1, <1>7, <1>10, <1>11 DEF Entered, Headers
<1> QED BY <1>7, <1>12, <1>13, <1>14, IdleFacts DEF Good, Base, Attached

(* Only the traces change, and only one of them. *)
SameButTrace(j, k) ==
    /\ k.op = j.op /\ k.d = j.d /\ k.patch = j.patch /\ k.chain = j.chain /\ k.cur = j.cur
    /\ k.held = j.held /\ k.sizetrace = j.sizetrace /\ k.freetrace = j.freetrace

LEMMA TraceReplaced ==
  ASSUME NEW j \in JitState, NEW k, NEW n \in TraceNo, NEW T \in GCtrace,
         k = [j EXCEPT !.trace = [j.trace EXCEPT ![n] = T]]
  PROVE  /\ k \in JitState /\ SameButTrace(j, k) /\ k.trace[n] = T
         /\ \A m \in TraceNo : m # n => k.trace[m] = j.trace[m]
<1> DEFINE trace == [j.trace EXCEPT ![n] = T]
<1>1. trace \in [TraceNo -> GCtrace \union {Null, Cur}]
  BY DEF JitState
<1>2. trace[n] = T /\ \A m \in TraceNo : m # n => trace[m] = j.trace[m]
  BY DEF JitState
<1> HIDE DEF trace
<1>3. k \in JitState /\ SameButTrace(j, k) /\ k.trace = trace
  BY <1>1 DEF JitState, SameButTrace, trace
<1> QED BY <1>2, <1>3

(* What is patched for a side trace no, of the exit e of parent. *)
LEMMA BranchedFields ==
  ASSUME NEW s \in JitState, NEW k, NEW c, NEW root \in TraceNo, s.trace[root] \in GCtrace,
         c.parent \in TraceNo, s.trace[c.parent] \in GCtrace, c.exitno \in Exits,
         c.traceno \in TraceNo, k = Branched(s, c, root)
  PROVE  /\ k \in JitState /\ SameButTrace(s, k)
         /\ k.trace[root] \in GCtrace /\ k.trace[c.parent] \in GCtrace
         /\ \A m \in TraceNo :
               /\ m \notin {root, c.parent} => k.trace[m] = s.trace[m]
               /\ k.trace[m].root = s.trace[m].root /\ k.trace[m].link = s.trace[m].link
               /\ k.trace[m].start = s.trace[m].start
               /\ m # root => k.trace[m].sides = s.trace[m].sides
               /\ m # c.parent => k.trace[m].exits = s.trace[m].exits
         /\ k.trace[root].sides = s.trace[root].sides \union {c.traceno}
         /\ \A x \in Exits : k.trace[c.parent].exits[x] =
               IF x = c.exitno THEN c.traceno ELSE s.trace[c.parent].exits[x]
<1> DEFINE parent == c.parent
           e == c.exitno
           no == c.traceno
<1>1. parent \in TraceNo /\ s.trace[parent] \in GCtrace /\ e \in Exits /\ no \in TraceNo
  OBVIOUS
<1>2. no \in 0..MAX_TRACES
  BY Numbering
<1> DEFINE s1 == [s EXCEPT !.trace[parent].exits[e] = no]
           s2 == [s1 EXCEPT !.trace[parent].count[e] = SNAPCOUNT_DONE]
<1>4. k = [s2 EXCEPT !.trace[root].sides = @ \union {no}]
  BY DEF Branched
<1>5. /\ s1 \in JitState /\ SameButTrace(s, s1)
      /\ \A m \in TraceNo : m # parent => s1.trace[m] = s.trace[m]
      /\ s1.trace[parent] \in GCtrace
      /\ \A f \in {"root", "link", "start", "sides"} : s1.trace[parent][f] = s.trace[parent][f]
      /\ s1.trace[parent].exits = [s.trace[parent].exits EXCEPT ![e] = no]
  <2> DEFINE exits == [s.trace[parent].exits EXCEPT ![e] = no]
             T == [s.trace[parent] EXCEPT !.exits = exits]
             trace == [s.trace EXCEPT ![parent] = T]
  <2>1. exits \in [Exits -> 0..MAX_TRACES]
    BY <1>1, <1>2 DEF GCtrace
  <2>2. T \in GCtrace /\ T.exits = exits
        /\ \A f \in {"root", "link", "start", "sides"} : T[f] = s.trace[parent][f]
    <3> HIDE DEF exits
    <3> QED BY <2>1, <1>1 DEF GCtrace
  <2>3. s1 = [s EXCEPT !.trace = trace]
    OBVIOUS
  <2> HIDE DEF T, s1
  <2> QED BY <1>1, <2>2, <2>3, TraceReplaced
<1> HIDE DEF s1, parent, e, no
<1>6. /\ s2 \in JitState /\ SameButTrace(s, s2)
      /\ \A m \in TraceNo : m # parent => s2.trace[m] = s.trace[m]
      /\ s2.trace[parent] \in GCtrace
      /\ \A f \in {"root", "link", "start", "sides"} : s2.trace[parent][f] = s.trace[parent][f]
      /\ s2.trace[parent].exits = [s.trace[parent].exits EXCEPT ![e] = no]
  <2> DEFINE count == [s1.trace[parent].count EXCEPT ![e] = SNAPCOUNT_DONE]
             T == [s1.trace[parent] EXCEPT !.count = count]
             trace == [s1.trace EXCEPT ![parent] = T]
  <2>1. count \in [Exits -> 0..SNAPCOUNT_DONE]
    BY <1>1, <1>5, Numbering DEF GCtrace
  <2>2. T \in GCtrace /\ T.exits = s1.trace[parent].exits
        /\ \A f \in {"root", "link", "start", "sides"} : T[f] = s1.trace[parent][f]
    <3> HIDE DEF count
    <3> QED BY <2>1, <1>5 DEF GCtrace
  <2>3. s2 = [s1 EXCEPT !.trace = trace]
    OBVIOUS
  <2> HIDE DEF T, s2, count
  <2>4. /\ s2 \in JitState /\ SameButTrace(s1, s2) /\ s2.trace[parent] = T
        /\ \A m \in TraceNo : m # parent => s2.trace[m] = s1.trace[m]
    BY <1>1, <1>5, <2>2, <2>3, TraceReplaced
  <2>5. SameButTrace(s, s2)
    BY <1>5, <2>4 DEF SameButTrace
  <2> QED BY <1>5, <2>2, <2>4, <2>5
<1> HIDE DEF s2
<1>7. /\ k \in JitState /\ SameButTrace(s, k)
      /\ \A m \in TraceNo : m # root => k.trace[m] = s2.trace[m]
      /\ k.trace[root] \in GCtrace
      /\ \A f \in {"root", "link", "start", "exits"} : k.trace[root][f] = s2.trace[root][f]
      /\ k.trace[root].sides = s2.trace[root].sides \union {no}
  <2> DEFINE T == [s2.trace[root] EXCEPT !.sides = @ \union {no}]
             trace == [s2.trace EXCEPT ![root] = T]
  <2>1. s2.trace[root] \in GCtrace
    BY <1>6
  <2>2. T \in GCtrace /\ T.sides = s2.trace[root].sides \union {no}
        /\ \A f \in {"root", "link", "start", "exits"} : T[f] = s2.trace[root][f]
    BY <1>1, <2>1 DEF GCtrace
  <2>3. k = [s2 EXCEPT !.trace = trace]
    BY <1>4
  <2> HIDE DEF T
  <2>4. /\ k \in JitState /\ SameButTrace(s2, k) /\ k.trace[root] = T
        /\ \A m \in TraceNo : m # root => k.trace[m] = s2.trace[m]
    BY <1>6, <2>2, <2>3, TraceReplaced
  <2>5. SameButTrace(s, k)
    BY <1>6, <2>4 DEF SameButTrace
  <2> QED BY <2>2, <2>4, <2>5
<1>8. ASSUME NEW m \in TraceNo
      PROVE  /\ s2.trace[m].root = s.trace[m].root /\ s2.trace[m].link = s.trace[m].link
             /\ s2.trace[m].start = s.trace[m].start /\ s2.trace[m].sides = s.trace[m].sides
  <2>1. CASE m = parent
    <3>1. \A f \in {"root", "link", "start", "sides"} : s2.trace[m][f] = s.trace[m][f]
      BY <2>1, <1>6
    <3> QED BY <3>1
  <2>2. CASE m # parent
    BY <2>2, <1>6
  <2> QED BY <2>1, <2>2
<1>9. ASSUME NEW m \in TraceNo
      PROVE  /\ k.trace[m].root = s2.trace[m].root /\ k.trace[m].link = s2.trace[m].link
             /\ k.trace[m].start = s2.trace[m].start /\ k.trace[m].exits = s2.trace[m].exits
             /\ m # root => k.trace[m].sides = s2.trace[m].sides
  <2>1. CASE m = root
    <3>1. \A f \in {"root", "link", "start", "exits"} : k.trace[m][f] = s2.trace[m][f]
      BY <2>1, <1>7
    <3> QED BY <3>1, <2>1
  <2>2. CASE m # root
    BY <2>2, <1>7
  <2> QED BY <2>1, <2>2
<1>10. \A x \in Exits : k.trace[parent].exits[x] =
          IF x = e THEN no ELSE s.trace[parent].exits[x]
  <2>1. k.trace[parent].exits = [s.trace[parent].exits EXCEPT ![e] = no]
    BY <1>1, <1>6, <1>9
  <2>2. s.trace[parent].exits \in [Exits -> 0..MAX_TRACES]
    BY <1>1 DEF GCtrace
  <2> QED BY <2>1, <2>2
<1>11. \A m \in TraceNo : m # parent => k.trace[m].exits = s.trace[m].exits
  BY <1>6, <1>9
<1>12. \A m \in TraceNo : m \notin {root, parent} => k.trace[m] = s.trace[m]
  BY <1>6, <1>7
<1>13. k.trace[root].sides = s.trace[root].sides \union {no}
  BY <1>7, <1>8
<1>14. k.trace[parent] \in GCtrace
  BY <1>1, <1>6, <1>7
<1>15. \A m \in TraceNo :
         /\ m \notin {root, parent} => k.trace[m] = s.trace[m]
         /\ k.trace[m].root = s.trace[m].root /\ k.trace[m].link = s.trace[m].link
         /\ k.trace[m].start = s.trace[m].start
         /\ m # root => k.trace[m].sides = s.trace[m].sides
         /\ m # parent => k.trace[m].exits = s.trace[m].exits
  BY <1>8, <1>9, <1>11, <1>12
<1>16. k \in JitState /\ SameButTrace(s, k) /\ k.trace[root] \in GCtrace
  BY <1>7
<1> HIDE DEF SameButTrace
<1> QED BY ONLY <1>10, <1>13, <1>14, <1>15, <1>16 DEF parent, e, no

(* trace_stop of a side trace: the exit leads to it, and it joins the side *)
(* traces of its root trace.                                               *)
LEMMA StoppedSideKeeps ==
  ASSUME NEW j, NEW s, NEW k, NEW c, NEW n, NEW root,
         JustSaved(j, s, c.traceno, n), c.parent \in Alive(s), c.exitno \in Exits,
         root = RootOf(s, c.parent), s.trace[c.traceno].root = root, k = Branched(s, c, root)
  PROVE  Good(k)
<1> DEFINE parent == c.parent
           e == c.exitno
           no == c.traceno
<1>1. /\ s \in JitState /\ Typed(s) /\ Numbers(s) /\ Phases(s) /\ Tidy(s)
      /\ Entered(s) /\ Headers(s) /\ s.held = 0 /\ s.cur = Idle /\ s.patch = NoPatch
  BY DEF JustSaved, Base, Typed
<1>2. no \in Saved(s) /\ no \in TraceNo /\ no \in 0..MAX_TRACES /\ no # 0 /\ no \notin Alive(s)
  BY Numbering DEF JustSaved, Saved
<1>3. /\ parent \in Saved(s) /\ parent \in TraceNo /\ s.trace[parent] \in GCtrace /\ parent # no
      /\ root \in Alive(s) /\ root \in Saved(s) /\ root \in TraceNo
      /\ s.trace[root] \in GCtrace /\ root # no /\ root # 0
  <2>1. root \in Alive(s)
    BY <1>1, RootsAlive
  <2> QED BY <1>1, <1>2, <2>1, SavedTraces DEF Alive
<1>4. /\ k \in JitState /\ SameButTrace(s, k)
      /\ k.trace[root] \in GCtrace /\ k.trace[parent] \in GCtrace
      /\ \A m \in TraceNo :
            /\ m \notin {root, parent} => k.trace[m] = s.trace[m]
            /\ k.trace[m].root = s.trace[m].root /\ k.trace[m].link = s.trace[m].link
            /\ k.trace[m].start = s.trace[m].start
            /\ m # root => k.trace[m].sides = s.trace[m].sides
            /\ m # parent => k.trace[m].exits = s.trace[m].exits
      /\ k.trace[root].sides = s.trace[root].sides \union {no}
      /\ \A x \in Exits : k.trace[parent].exits[x] = IF x = e THEN no ELSE s.trace[parent].exits[x]
  <2>1. /\ s \in JitState /\ root \in TraceNo /\ s.trace[root] \in GCtrace
        /\ parent \in TraceNo /\ s.trace[parent] \in GCtrace /\ e \in Exits
        /\ no \in TraceNo /\ k = Branched(s, c, root)
    BY <1>1, <1>2, <1>3
  <2> QED BY ONLY <2>1, BranchedFields, SMTT(20)
<1>5. JustSaved(j, s, no, n) /\ s.trace[no].root = root /\ e \in Exits /\ root = RootOf(s, parent)
  OBVIOUS
<1> HIDE DEF parent, e, no
<1>6. /\ k.op = s.op /\ k.d = s.d /\ k.patch = NoPatch
      /\ k.chain = s.chain /\ k.cur = Idle /\ k.held = 0
      /\ k.freetrace = s.freetrace /\ k.sizetrace = s.sizetrace
  BY <1>1, <1>4 DEF SameButTrace
<1>7. \A m \in TraceNo : (k.trace[m] = Null <=> s.trace[m] = Null)
                         /\ (k.trace[m] = Cur <=> s.trace[m] = Cur)
  <2>1. \A m \in {root, parent} : k.trace[m] \notin {Null, Cur} /\ s.trace[m] \notin {Null, Cur}
    BY <1>3, <1>4, ValuesAssumption
  <2> QED BY <1>4, <2>1
<1>8. Saved(k) = Saved(s) /\ Saved(s) \subseteq TraceNo
  BY <1>7 DEF Saved
<1>9. Typed(k) /\ Numbers(k) /\ Phases(k)
  <2>1. ASSUME NEW m \in 1..(k.sizetrace - 1), k.trace[m] = Null PROVE m >= k.freetrace
    <3>1. m \in TraceNo
      BY <1>1, <1>6, Numbering DEF JitState, TraceNo
    <3> QED BY <2>1, <3>1, <1>1, <1>6, <1>7 DEF Numbers
  <2>2. Numbers(k)
    <3>1. \A m \in TraceNo : m >= k.sizetrace => k.trace[m] = Null
      BY <1>1, <1>6, <1>7 DEF Numbers
    <3> QED BY <1>1, <1>6, <2>1, <3>1 DEF Numbers
  <2>3. Phases(k)
    BY <1>1, <1>6 DEF Phases
  <2>4. Typed(k)
    BY <1>1, <1>4, <1>6, <1>7 DEF Typed
  <2> QED BY <2>2, <2>3, <2>4
<1>10. Tidy(k)
  <2> DEFINE N == Alive(s) \union {no}
  <2>1. Tree(s, Alive(s)) /\ Alive(s) \subseteq Saved(s)
    BY <1>1 DEF Tidy, Tree
  <2>2. ASSUME NEW m \in N
        PROVE  Tied(s, m) /\ m \in TraceNo /\ Refs(s, m) \subseteq N /\ N \subseteq TraceNo
    BY <1>2, <1>5, <1>8, <2>1, JustSavedTied
  <2>3. Tree(k, N)
    <3>1. ASSUME NEW m \in N PROVE Refs(k, m) \subseteq N
      <4>1. k.trace[m].link = s.trace[m].link /\ k.trace[m].sides \subseteq s.trace[m].sides \union {no}
        BY <2>2, <1>4
      <4> QED BY <4>1, <2>2 DEF Refs
    <3> QED BY <3>1, <2>1, <1>2, <1>6, <1>8 DEF Tree
  <2>4. ASSUME NEW m \in N PROVE Tied(k, m)
    <3>1. Tied(s, m) /\ m \in TraceNo /\ Refs(s, m) \subseteq TraceNo
      BY <2>2
    <3>2. RootOf(k, m) = RootOf(s, m)
      BY <3>1, <1>4 DEF RootOf
    <3>3. m # no => RootOf(s, m) \in TraceNo
      BY <1>1, <1>8, <2>1, RootsAlive
    <3>4. m \in k.chain => k.trace[m].root = 0
      BY <3>1, <1>4, <1>6 DEF Tied
    <3>5. ASSUME NEW o \in k.trace[m].sides PROVE k.trace[o].root = m
      <4>1. CASE o \in s.trace[m].sides
        BY <4>1, <3>1, <1>4 DEF Tied, Refs
      <4>2. CASE o \notin s.trace[m].sides
        <5>1. m = root /\ o = no
          BY <4>2, <3>1, <3>5, <1>4
        <5> QED BY <5>1, <1>2, <1>4, <1>5
      <4> QED BY <4>1, <4>2
    <3>6. k.trace[m].link \notin {0, m} => k.trace[k.trace[m].link].root = 0
      BY <3>1, <1>4 DEF Tied, Refs
    <3>7. ASSUME NEW x \in Exits, k.trace[m].exits[x] # 0
          PROVE  k.trace[m].exits[x] \in k.trace[RootOf(k, m)].sides
      <4>1. CASE m = no
        <5>1. k.trace[m].exits[x] = s.trace[no].exits[x]
          BY <4>1, <1>2, <1>3, <1>4
        <5>2. s.trace[no].exits = [y \in Exits |-> 0]
          BY <1>5 DEF JustSaved
        <5> QED BY <3>7, <5>1, <5>2
      <4>2. CASE m = parent /\ x = e
        <5>1. k.trace[m].exits[x] = no
          BY <4>2, <1>4
        <5> QED BY <5>1, <4>2, <3>2, <1>4, <1>5
      <4>3. CASE m # no /\ ~(m = parent /\ x = e)
        <5>1. k.trace[m].exits[x] = s.trace[m].exits[x]
          BY <4>3, <3>1, <1>4
        <5>2. s.trace[m].exits[x] \in s.trace[RootOf(s, m)].sides
          BY <5>1, <3>1, <3>7 DEF Tied
        <5>3. s.trace[RootOf(s, m)].sides \subseteq k.trace[RootOf(s, m)].sides
          BY <4>3, <3>3, <1>4
        <5> QED BY <5>1, <5>2, <5>3, <3>2
      <4> QED BY <4>1, <4>2, <4>3
    <3> QED BY <3>4, <3>5, <3>6, <3>7 DEF Tied
  <2> QED BY <2>3, <2>4, AliveLeast DEF Tidy
<1>11. Entered(k) /\ Headers(k)
  <2>1. Headers(k)
    BY <1>1, <1>6 DEF Headers
  <2>2. ASSUME NEW pc \in PC, k.op[pc] = "jit" \/ k.patch.pc = pc
        PROVE  k.d[pc] \in Saved(k) /\ k.d[pc] \in k.chain /\ k.trace[k.d[pc]].start = pc
    <3>1. s.d[pc] \in Saved(s) /\ s.d[pc] \in s.chain /\ s.trace[s.d[pc]].start = pc
      BY <1>1, <1>6, <2>2 DEF Entered
    <3> QED BY <1>4, <1>6, <1>8, <3>1
  <2> QED BY <2>1, <2>2 DEF Entered
<1> QED BY <1>4, <1>6, <1>9, <1>10, <1>11, IdleFacts DEF Good, Base, Attached

(* LJ_TRACE_END and trace_stop. *)
LEMMA StoppedKeeps ==
  ASSUME NEW j, NEW k, NEW n, NEW linktype \in LinkTypes, Good(j), j.cur.traceno # 0,
         MayLink(j, n), k = Stopped(j, n, linktype)
  PROVE  Good(k)
<1> DEFINE c == j.cur
           T == Recorded(j, n, linktype)
           p == Pendpatch(j, TRUE)
           s == TraceSave(p, T)
<1>1. Base(p) /\ SameCompiler(j, p) /\ p.patch = NoPatch /\ Alive(p) = Alive(j)
  BY PendpatchKeeps DEF Good
<1>2. p.cur = c /\ p.trace = j.trace
  BY <1>1 DEF SameCompiler
<1>3. /\ T \in GCtrace /\ T.start = c.start /\ T.link = n /\ T.sides = {}
      /\ T.exits = [x \in Exits |-> 0]
      /\ T.root = IF c.start = AtExit THEN RootOf(j, c.parent) ELSE 0
  BY RecordedFields
<1>4. k = IF c.start = AtExit
          THEN Branched(s, c, RootOf(j, c.parent))
          ELSE IF c.start = AtCall
          THEN [s EXCEPT !.trace[c.exitno].link = c.traceno]
          ELSE [s EXCEPT !.op[c.start] = "jit", !.d[c.start] = c.traceno,
                         !.chain = @ \union {c.traceno}]
  BY DEF Stopped
<1> HIDE DEF T, p
<1>5. /\ Base(s) /\ Alive(s) = Alive(j) /\ c.traceno \in Saved(s) /\ s.trace[c.traceno] = T
      /\ \A m \in Saved(p) : s.trace[m] = p.trace[m]
      /\ s.cur = Idle /\ s.patch = NoPatch /\ s.held = 0
      /\ c.traceno \in TraceNo /\ c.traceno \notin Saved(p)
  BY <1>1, <1>2, <1>3, TraceSaveKeeps
<1> HIDE DEF s
<1>6. Saved(p) = Saved(j) /\ Alive(j) \subseteq Saved(j)
  BY <1>2 DEF Saved, Alive
<1>7. JustSaved(j, s, c.traceno, n)
  BY <1>2, <1>3, <1>5, <1>6 DEF JustSaved, MayLink
<1>8. CASE c.start = AtExit
  <2>1. c.parent \in Alive(s) /\ c.exitno \in Exits
    BY <1>5, <1>8 DEF Good, Base, Attached, Phases, Begun
  <2>2. RootOf(s, c.parent) = RootOf(j, c.parent)
    BY <1>2, <1>5, <1>6, <2>1 DEF RootOf
  <2> QED BY <1>3, <1>4, <1>5, <1>7, <1>8, <2>1, <2>2, StoppedSideKeeps
<1>9. CASE c.start = AtCall
  <2>1. c.exitno \in Alive(s)
    BY <1>5, <1>9 DEF Good, Attached
  <2> QED BY <1>3, <1>4, <1>5, <1>7, <1>9, <2>1, Places, StoppedStitchKeeps
<1>10. CASE c.start \notin {AtExit, AtCall}
  <2>1. c.start \in PC
    BY <1>10 DEF Good, Base, Typed, JitState, Recordings
  <2> QED BY <1>3, <1>4, <1>5, <1>7, <1>10, <2>1, StoppedRootKeeps
<1> QED BY <1>8, <1>9, <1>10

(* Whatever a recording that is to stop comes to, the invariant holds.     *)
LEMMA FinishKeeps ==
  ASSUME NEW j, NEW n, NEW linktype \in LinkTypes, Good(j), j.cur.traceno # 0, MayLink(j, n),
         Finish(j, n, linktype)
  PROVE  Good(J')
<1>1. CASE J' = Stopped(j, n, linktype)
  BY <1>1, StoppedKeeps
<1> DEFINE a == Aborted(j)
<1>2. Base(j) /\ (j.cur.start = AtCall => j.cur.exitno \in Saved(j))
  BY DEF Good, Attached, Alive
<1>3. Good(a) /\ a.cur = Idle /\ a.patch = NoPatch /\ a.held = 0
  BY <1>2, AbortedKeeps
<1>4. CASE J' = a
  BY <1>3, <1>4
<1>5. CASE J' = AbortedWithoutMcode(j)
  <2> J' = FlushAll(a)
    BY <1>5 DEF AbortedWithoutMcode
  <2> HIDE DEF a
  <2> QED BY <1>3, FlushAllKeeps DEF Good, Base
<1> QED BY <1>1, <1>4, <1>5 DEF Finish

LEMMA AbortedGood ==
  ASSUME NEW j, NEW k, Good(j), j.cur.traceno # 0, k = Aborted(j)
  PROVE  Good(k)
BY AbortedKeeps DEF Good, Attached, Alive

LEMMA FinishLoopKeeps ==
  ASSUME NEW j, Good(j), j.cur.traceno # 0, FinishLoop(j)
  PROVE  Good(J')
<1>1. MayLink(j, j.cur.traceno) /\ "loop" \in LinkTypes
  BY DEF MayLink, LinkTypes, Good, Base, Typed, JitState, Recordings
<1>2. CASE Finish(j, j.cur.traceno, "loop")
  BY <1>1, <1>2, FinishKeeps
<1>3. CASE J' = Pendpatch(j, TRUE)
  BY <1>3, PendpatchKeeps DEF Good
<1> QED BY <1>2, <1>3 DEF FinishLoop

(* A trace in a chain, or the trace of a compiled instruction, may be      *)
(* linked to.                                                              *)
LEMMA ChainLinks ==
  ASSUME NEW j, Base(j), NEW n \in j.chain
  PROVE  n \in Alive(j) /\ MayLink(j, n)
BY Numbering DEF Base, Tidy, Tree, Tied, MayLink, Alive, Saved

LEMMA NoLink ==
  ASSUME NEW j
  PROVE  MayLink(j, 0)
BY Numbering DEF MayLink

-----------------------------------------------------------------------------
(* Traces that can run, and traces the collector keeps, against those      *)
(* alive.                                                                  *)

(* Whatever runs is alive: execution gets only where a mark would get.     *)
LEMMA EnterableAlive ==
  ASSUME Good(J)
  PROVE  Enterable \subseteq Alive(J)
<1>1. Tree(J, Alive(J)) /\ \A m \in Alive(J) : Tied(J, m)
  BY DEF Good, Base, Tidy
<1>2. Alive(J) \subseteq Saved(J) /\ Saved(J) \subseteq TraceNo
  BY DEF Alive, Saved
<1>3. Entries \union ({J.held} \ {0}) \subseteq Alive(J)
  <2>1. ASSUME NEW pc \in PC, J.op[pc] = "jit" PROVE J.d[pc] \in Alive(J)
    BY <2>1, <1>1 DEF Good, Base, Entered, Tree
  <2> QED BY <2>1 DEF Entries, Good, Attached
<1>4. ASSUME NEW m \in Alive(J) \intersect Saved(J)
      PROVE  Successors(m) \union SidesOf(m) \subseteq Alive(J)
  <2>1. Refs(J, m) \subseteq Alive(J) /\ Tied(J, m)
    BY <1>1 DEF Tree
  <2>2. RootOf(J, m) \in Alive(J)
    BY RootsAlive DEF Good, Base
  <2>3. J.trace[RootOf(J, m)].sides \subseteq Alive(J)
    BY <2>2, <1>1 DEF Tree, Refs
  <2>4. Successors(m) \subseteq Alive(J)
    BY <2>1 DEF Refs, Successors
  <2>5. SidesOf(m) \subseteq Alive(J)
    BY <2>1, <2>3 DEF SidesOf, Tied
  <2> QED BY <2>4, <2>5
<1>5. Alive(J) \in SUBSET TraceNo
  BY <1>2
<1> QED BY <1>3, <1>4, <1>5 DEF Enterable

(* The collector keeps what is alive. *)
LEMMA AliveKept ==
  ASSUME Good(J)
  PROVE  Alive(J) \subseteq Kept
<1> SUFFICES ASSUME NEW n \in Alive(J),
                    NEW N \in SUBSET Saved(J),
                    (J.chain \union {J.held}) \ {0} \subseteq N,
                    \A m \in N : MarkedFrom(m) \subseteq N
             PROVE  n \in N
  BY DEF Kept, Alive
<1>1. 0 \notin J.chain
  BY Numbering DEF Good, Base, Tidy, Tree, Saved
<1>2. Tree(J, N)
  BY <1>1 DEF Tree, Refs, MarkedFrom, Successors
<1> QED BY <1>2, AliveLeast

(* lj_trace_free, of a trace that is not alive. *)
LEMMA FreedKeeps ==
  ASSUME NEW j, NEW k, NEW n \in Saved(j), n \notin Alive(j), Good(j), k = GiveBack(j, n)
  PROVE  Good(k)
<1> DEFINE trace == [j.trace EXCEPT ![n] = Null]
           hint == IF n < j.freetrace THEN n ELSE j.freetrace
<1>1. /\ j \in JitState /\ Typed(j) /\ Numbers(j) /\ Phases(j) /\ Tidy(j)
      /\ Entered(j) /\ Headers(j) /\ Attached(j)
  BY DEF Good, Base, Typed
<1>2. n \in TraceNo /\ n \in Nat /\ n >= 1 /\ n <= MAX_TRACES
  BY <1>1, SavedTraces, Numbering DEF TraceNo
<1>3. /\ j.freetrace \in Nat /\ j.sizetrace \in Nat /\ j.freetrace <= j.sizetrace
      /\ j.sizetrace <= MAX_TRACES + 1
  BY <1>1, Numbering DEF JitState, Numbers
<1>4. trace \in [TraceNo -> GCtrace \union {Null, Cur}] /\ hint \in 0..(MAX_TRACES + 1)
  BY <1>1, <1>2, <1>3, Numbering DEF JitState
<1>5. k = [j EXCEPT !.trace = trace, !.freetrace = hint]
  BY DEF GiveBack
<1>6. j.trace[n] \notin {Null, Cur}
  BY DEF Saved
<1>7. /\ k \in JitState /\ k.op = j.op /\ k.d = j.d /\ k.patch = j.patch /\ k.trace = trace
      /\ k.chain = j.chain /\ k.cur = j.cur /\ k.held = j.held
      /\ k.freetrace = hint /\ k.sizetrace = j.sizetrace
  <2> HIDE DEF trace, hint
  <2> QED BY <1>1, <1>4, <1>5 DEF JitState
<1>8. \A m \in TraceNo : k.trace[m] = IF m = n THEN Null ELSE j.trace[m]
  BY <1>1, <1>7 DEF JitState
<1> HIDE DEF trace, hint
<1>9. Saved(k) = Saved(j) \ {n} /\ Alive(j) \subseteq Saved(k) /\ Saved(k) \subseteq TraceNo
  BY <1>8 DEF Saved, Alive
<1>10. \A m \in Saved(k) : k.trace[m] = j.trace[m] /\ Refs(k, m) = Refs(j, m)
  BY <1>8, <1>9 DEF Refs
<1>11. Tree(j, Alive(j)) /\ \A m \in Alive(j) : Tied(j, m)
  BY <1>1 DEF Tidy
<1>12. Tree(k, Alive(j))
  BY <1>7, <1>9, <1>10, <1>11 DEF Tree
<1>13. Alive(k) = Alive(j)
  <2>1. Alive(k) \subseteq Alive(j) /\ Tree(k, Alive(k))
    BY <1>12, AliveLeast
  <2>2. Tree(j, Alive(k))
    BY <2>1, <1>7, <1>9, <1>10 DEF Tree
  <2> QED BY <2>1, <2>2, AliveLeast
<1>14. Tidy(k)
  <2>1. ASSUME NEW m \in Alive(j) PROVE Tied(k, m)
    <3>1. k.trace[m] = j.trace[m] /\ RootOf(k, m) = RootOf(j, m)
      BY <1>9, <1>10 DEF RootOf
    <3>2. RootOf(j, m) \in Alive(j)
      BY <1>1, RootsAlive
    <3>3. \A s \in Refs(j, m) : k.trace[s] = j.trace[s]
      BY <1>9, <1>10, <1>11 DEF Tree
    <3>4. k.trace[RootOf(j, m)] = j.trace[RootOf(j, m)]
      BY <3>2, <1>9, <1>10
    <3>5. Tied(j, m)
      BY <1>11
    <3>6. \A s \in k.trace[m].sides : k.trace[s].root = m
      BY <3>1, <3>3, <3>5 DEF Tied, Refs
    <3>7. k.trace[m].link \notin {0, m} => k.trace[k.trace[m].link].root = 0
      BY <3>1, <3>3, <3>5 DEF Tied, Refs
    <3> QED BY <3>1, <3>4, <3>5, <3>6, <3>7, <1>7 DEF Tied
  <2> QED BY <2>1, <1>11, <1>12, <1>13 DEF Tidy
<1>15. Typed(k)
  BY <1>1, <1>6, <1>7, <1>8, <1>2, ValuesAssumption DEF Typed
<1>16. Numbers(k)
  <2>1. hint <= j.sizetrace /\ hint <= n /\ hint <= j.freetrace /\ hint \in Int
    BY <1>2, <1>3 DEF hint
  <2>2. \A m \in TraceNo : m >= k.sizetrace => k.trace[m] = Null
    BY <1>1, <1>7, <1>8 DEF Numbers
  <2>3. ASSUME NEW m \in 1..(k.sizetrace - 1), k.trace[m] = Null
        PROVE  m >= k.freetrace
    <3>1. m \in TraceNo
      BY <1>3, <1>7, Numbering DEF TraceNo
    <3>2. CASE m = n
      BY <3>2, <2>1, <1>7
    <3>3. CASE m # n
      <4>1. m >= j.freetrace
        BY <3>1, <3>3, <2>3, <1>1, <1>7, <1>8 DEF Numbers
      <4> QED BY <4>1, <2>1, <1>3, <1>7
    <3> QED BY <3>2, <3>3
  <2> QED BY <2>1, <2>2, <2>3, <1>7 DEF Numbers
<1>17. Phases(k) /\ Attached(k)
  BY <1>1, <1>7, <1>13 DEF Phases, Attached
<1>18. Entered(k) /\ Headers(k)
  <2>1. j.chain \subseteq Saved(k)
    BY <1>9, <1>11 DEF Tree
  <2> QED BY <2>1, <1>1, <1>7, <1>10 DEF Entered, Headers
<1> QED BY <1>14, <1>15, <1>16, <1>17, <1>18 DEF Good, Base

-----------------------------------------------------------------------------
(* The actions. *)

LEMMA CollectKeeps ==
  ASSUME Good(J), NEW n \in TraceNo, Collect(n)
  PROVE  Good(J')
<1>1. n \in Saved(J) /\ n \notin Alive(J) /\ J' = GiveBack(J, n)
  BY AliveKept DEF Collect
<1> QED BY <1>1, FreedKeeps

LEMMA CallAcrossKeeps ==
  ASSUME Good(J), NEW n \in TraceNo, CallAcross(n)
  PROVE  Good(J')
<1>1. n \in Alive(J) /\ J.cur.traceno = 0 /\ J.held = 0 /\ J' = [J EXCEPT !.held = n]
  BY EnterableAlive DEF CallAcross, Running, Recording
<1>2. /\ J' \in JitState /\ SameTraces(J, J') /\ J'.cur = J.cur /\ J'.patch = J.patch
      /\ J'.trace = J.trace /\ J'.op = J.op /\ J'.d = J.d /\ J'.held = n
      /\ J'.sizetrace = J.sizetrace /\ J'.freetrace = J.freetrace /\ J'.chain = J.chain
  <2>1. n \in 0..MAX_TRACES
    BY Numbering
  <2>2. J \in JitState
    BY DEF Good, Base, Typed
  <2> QED BY <1>1, <2>1, <2>2 DEF JitState, SameTraces, Saved
<1>3. Tidy(J') /\ Alive(J') = Alive(J) /\ Saved(J') = Saved(J)
  BY <1>2, SameTidy DEF Good, Base
<1>4. Typed(J') /\ Numbers(J') /\ Phases(J') /\ Entered(J') /\ Headers(J')
  BY <1>1, <1>2, <1>3 DEF Good, Base, Typed, Numbers, Phases, Entered, Headers
<1> QED BY <1>1, <1>2, <1>3, <1>4 DEF Good, Base, Attached

LEMMA RecordFailsKeeps ==
  ASSUME Good(J), RecordFails
  PROVE  Good(J')
BY AbortedGood DEF RecordFails, Recording

LEMMA RecordOtherKeeps ==
  ASSUME Good(J), RecordOther
  PROVE  Good(J')
BY PendpatchKeeps DEF RecordOther, Good

LEMMA HotCallKeeps ==
  ASSUME Good(J), NEW f \in Funs, HotCall(f)
  PROVE  Good(J')
<1>1. J.cur.traceno = 0 /\ J.held = 0 /\ J' = Started(J, RootAt(Head(f)))
  BY DEF HotCall, Running, Recording
<1>2. MayStart(J, RootAt(Head(f)))
  BY Places, RootAtStarts
<1> QED BY <1>1, <1>2, StartedKeeps

(* What a handler finds once the instruction put back is back. *)
LEMMA Resumed ==
  ASSUME Good(J), Recording, NEW j, j = Pendpatch(J, FALSE)
  PROVE  /\ Good(j) /\ j.cur = J.cur /\ j.cur.traceno # 0 /\ j.held = 0
         /\ ~J.patch.skip => j.patch = NoPatch
<1>1. Good(j) /\ SameCompiler(J, j) /\ (~J.patch.skip => j.patch = NoPatch)
  BY PendpatchKeeps DEF Good
<1> QED BY <1>1 DEF SameCompiler, Recording, Good, Base, Phases

LEMMA RecordCCallKeeps ==
  ASSUME Good(J), RecordCCall
  PROVE  Good(J')
<1> DEFINE j == Pendpatch(J, FALSE)
<1>1. Finish(j, 0, "stitch") \/ Finish(j, 0, "return")
  BY DEF RecordCCall
<1>2. Good(j) /\ j.cur.traceno # 0
  BY Resumed DEF RecordCCall
<1> HIDE DEF j
<1>3. MayLink(j, 0) /\ "stitch" \in LinkTypes /\ "return" \in LinkTypes
  BY NoLink DEF LinkTypes
<1> QED BY <1>1, <1>2, <1>3, FinishKeeps

LEMMA ContStitchKeeps ==
  ASSUME Good(J), ContStitch
  PROVE  Good(J')
<1> DEFINE n == J.held
           k == [J EXCEPT !.held = 0]
           c == [Idle EXCEPT !.start = AtCall, !.exitno = n]
<1>1. /\ J \in JitState /\ n \in Alive(J) /\ J.cur.traceno = 0 /\ n # 0
      /\ J' = Started(k, c) \/ J' = k
  BY DEF ContStitch, Good, Base, Typed, Attached, Phases
<1>2. /\ k \in JitState /\ SameTraces(J, k) /\ k.cur = J.cur /\ k.patch = J.patch
      /\ k.trace = J.trace /\ k.op = J.op /\ k.d = J.d /\ k.held = 0
      /\ k.sizetrace = J.sizetrace /\ k.freetrace = J.freetrace /\ k.chain = J.chain
  <2>1. /\ k \in JitState /\ k.cur = J.cur /\ k.patch = J.patch
        /\ k.trace = J.trace /\ k.op = J.op /\ k.d = J.d /\ k.held = 0
        /\ k.sizetrace = J.sizetrace /\ k.freetrace = J.freetrace /\ k.chain = J.chain
    <3>1. J \in JitState /\ 0 \in 0..MAX_TRACES
      BY <1>1, ParametersAssumption
    <3> QED BY <3>1 DEF JitState
  <2> QED BY <2>1 DEF SameTraces, Saved
<1> HIDE DEF k
<1>3. Tidy(k) /\ Alive(k) = Alive(J) /\ Saved(k) = Saved(J)
  BY <1>2, SameTidy DEF Good, Base
<1>4. Typed(k) /\ Numbers(k) /\ Phases(k) /\ Entered(k) /\ Headers(k)
  BY <1>1, <1>2, <1>3 DEF Good, Base, Typed, Numbers, Phases, Entered, Headers
<1>5. Good(k)
  BY <1>1, <1>2, <1>3, <1>4 DEF Good, Base, Attached
<1>6. n \in 0..MAX_TRACES
  BY <1>1 DEF JitState
<1>7. MayStart(k, c)
  <2>1. c \in Recordings /\ c.start = AtCall /\ c.exitno = n /\ c.parent = 0
    <3>1. Idle.parent = 0
      BY DEF Idle
    <3> QED BY <3>1, <1>6, IdleFacts DEF Recordings
  <2> QED BY <2>1, <1>1, <1>3, Places DEF MayStart
<1>8. CASE J' = Started(k, c)
  <2> HIDE DEF c
  <2> QED BY <1>1, <1>2, <1>5, <1>7, <1>8, StartedKeeps
<1> QED BY <1>1, <1>5, <1>8

(* The trace of a compiled instruction is in a chain. *)
LEMMA EntryInChain ==
  ASSUME NEW j, Good(j), NEW pc \in PC, j.op[pc] = "jit"
  PROVE  j.d[pc] \in j.chain /\ j.d[pc] # 0
BY SavedTraces DEF Good, Base, Entered

LEMMA CallUnrollKeeps ==
  ASSUME NEW j, Good(j), j.cur.traceno # 0, j.patch = NoPatch, NEW f \in Funs,
         NEW lnk \in j.chain \union {0}, CallUnroll(j, f, lnk)
  PROVE  Good(J')
<1>1. CASE FinishLoop(j)
  BY <1>1, FinishLoopKeeps
<1>2. CASE lnk = 0 /\ J' = Aborted(j)
  BY <1>2, AbortedGood
<1>3. CASE lnk # 0 /\ J' = Aborted(FlushRoot(j, lnk))
  <2> DEFINE r == FlushRoot(j, lnk)
  <2>1. Base(r) /\ r.cur = j.cur /\ Saved(r) = Saved(j)
    BY <1>3, FlushRootKeeps DEF Good
  <2>2. J' = Aborted(r)
    BY <1>3
  <2> HIDE DEF r
  <2>3. r.cur.start = AtCall => r.cur.exitno \in Saved(r)
    BY <2>1 DEF Good, Attached, Alive
  <2> QED BY <2>1, <2>2, <2>3, AbortedKeeps
<1> QED BY <1>1, <1>2, <1>3 DEF CallUnroll

LEMMA RecordCallKeeps ==
  ASSUME Good(J), NEW f \in Funs, RecordCall(f)
  PROVE  Good(J')
<1> DEFINE j == Pendpatch(J, FALSE)
           lnk == j.d[Head(f)]
<1>1. /\ j.op[Head(f)] = "plain" => RecFuncLua(j, f)
      /\ j.op[Head(f)] = "off"   => J' = Aborted(j)
      /\ j.op[Head(f)] = "jit"   => RecFuncJit(j, f, lnk)
  BY DEF RecordCall
<1>2. Good(j) /\ j.cur.traceno # 0 /\ j.patch = NoPatch
  BY Resumed DEF RecordCall
<1> HIDE DEF j
<1>3. Head(f) \in PC /\ j.op[Head(f)] \in {"plain", "jit", "off"}
  BY <1>2, Places DEF Good, Base, Typed, JitState
<1>4. CASE j.op[Head(f)] = "plain"
  <2>1. CallUnroll(j, f, 0) \/ J' = j
    BY <1>1, <1>4 DEF RecFuncLua
  <2> QED BY <2>1, <1>2, CallUnrollKeeps
<1>5. CASE j.op[Head(f)] = "off"
  BY <1>1, <1>2, <1>5, AbortedGood
<1>6. CASE j.op[Head(f)] = "jit"
  <2>1. lnk \in j.chain
    BY <1>2, <1>3, <1>6, EntryInChain
  <2>2. RecFuncJit(j, f, lnk)
    BY <1>1, <1>6
  <2> HIDE DEF lnk
  <2>3. CASE CallUnroll(j, f, lnk)
    BY <2>1, <2>3, <1>2, CallUnrollKeeps
  <2>4. CASE J' = Unpatched(j, Head(f), FALSE)
    BY <2>4, <1>2, <1>3, <1>6, UnpatchedKeeps
  <2>5. CASE FinishLoop(j)
    BY <2>5, <1>2, FinishLoopKeeps
  <2>6. CASE Finish(j, lnk, "root")
    BY <2>1, <2>6, <1>2, ChainLinks, FinishKeeps DEF LinkTypes, Good
  <2> QED BY <2>2, <2>3, <2>4, <2>5, <2>6 DEF RecFuncJit
<1> QED BY <1>3, <1>4, <1>5, <1>6

LEMMA LjRecordRetKeeps ==
  ASSUME NEW j, Good(j), j.cur.traceno # 0, NEW pc \in PC, LjRecordRet(j, pc)
  PROVE  Good(J')
<1>1. CASE Finish(j, 0, "return")
  BY <1>1, NoLink, FinishKeeps DEF LinkTypes
<1>2. CASE J' = [j EXCEPT !.cur.rets = TRUE]
  <2> DEFINE c == [j.cur EXCEPT !.rets = TRUE]
  <2>1. j \in JitState /\ j.cur \in Recordings
    BY DEF Good, Base, Typed, JitState
  <2>2. /\ c \in Recordings /\ c.traceno = j.cur.traceno /\ c.start = j.cur.start
        /\ c.parent = j.cur.parent /\ c.exitno = j.cur.exitno /\ c.startpc = j.cur.startpc
    BY <2>1 DEF Recordings
  <2>3. J' = [j EXCEPT !.cur = c]
    BY <1>2
  <2> HIDE DEF c
  <2>4. /\ J' \in JitState /\ J'.cur = c /\ J'.patch = j.patch
        /\ J'.trace = j.trace /\ J'.op = j.op /\ J'.d = j.d /\ J'.held = j.held
        /\ J'.sizetrace = j.sizetrace /\ J'.freetrace = j.freetrace /\ J'.chain = j.chain
    BY <2>1, <2>2, <2>3 DEF JitState
  <2>5. SameTraces(j, J')
    BY <2>4 DEF SameTraces, Saved
  <2>6. Tidy(J') /\ Alive(J') = Alive(j) /\ Saved(J') = Saved(j)
    BY <2>5, SameTidy DEF Good, Base
  <2>7. Typed(J') /\ Numbers(J') /\ Phases(J') /\ Entered(J') /\ Headers(J')
    BY <2>2, <2>4, <2>6 DEF Good, Base, Typed, Numbers, Phases, Begun, Entered, Headers
  <2> QED BY <2>2, <2>4, <2>6, <2>7 DEF Good, Base, Attached
<1>3. CASE FinishLoop(j)
  BY <1>3, FinishLoopKeeps
<1>4. CASE J' = AbortedDownrec(j, pc)
  BY <1>4, AbortedDownrecKeeps
<1> QED BY <1>1, <1>2, <1>3, <1>4 DEF LjRecordRet, DownrecUnroll

LEMMA RecordRetKeeps ==
  ASSUME Good(J), NEW f \in Funs, RecordRet(f)
  PROVE  Good(J')
<1> DEFINE j == Pendpatch(J, FALSE)
           pc == Ret(f)
<1>1. IF j.op[pc] = "jit" THEN RecLoopJit(j, pc) ELSE LjRecordRet(j, pc)
  BY DEF RecordRet
<1>2. Good(j) /\ j.cur.traceno # 0
  BY Resumed DEF RecordRet
<1>3. pc \in PC
  BY Places
<1> HIDE DEF j, pc
<1>4. CASE j.op[pc] = "jit"
  <2>1. j.d[pc] \in j.chain
    BY <1>2, <1>3, <1>4, EntryInChain
  <2>2. CASE J' = Aborted(j)
    BY <2>2, <1>2, AbortedGood
  <2>3. CASE FinishLoop(j)
    BY <2>3, <1>2, FinishLoopKeeps
  <2>4. CASE Finish(j, j.d[pc], "root")
    BY <2>1, <2>4, <1>2, ChainLinks, FinishKeeps DEF LinkTypes, Good
  <2> QED BY <1>1, <1>4, <2>2, <2>3, <2>4 DEF RecLoopJit
<1>5. CASE j.op[pc] # "jit"
  BY <1>1, <1>2, <1>3, <1>5, LjRecordRetKeeps
<1> QED BY <1>4, <1>5

(* A trace is replaced by one with the same references. *)
LEMMA SameTraceKeeps ==
  ASSUME NEW j, NEW k, Good(j), NEW n \in Alive(j), NEW T \in GCtrace,
         T.root = j.trace[n].root, T.link = j.trace[n].link, T.sides = j.trace[n].sides,
         T.exits = j.trace[n].exits, T.start = j.trace[n].start,
         k = [j EXCEPT !.trace = [j.trace EXCEPT ![n] = T]]
  PROVE  Good(k) /\ Alive(k) = Alive(j) /\ k.cur = j.cur /\ k.held = j.held
<1>1. /\ j \in JitState /\ Typed(j) /\ Numbers(j) /\ Phases(j) /\ Tidy(j)
      /\ Entered(j) /\ Headers(j) /\ Attached(j)
  BY DEF Good, Base, Typed
<1>2. n \in Saved(j) /\ n \in TraceNo
  BY <1>1, SavedTraces DEF Alive
<1>3. /\ k \in JitState /\ SameButTrace(j, k) /\ k.trace[n] = T
      /\ \A m \in TraceNo : m # n => k.trace[m] = j.trace[m]
  <2>1. j \in JitState
    BY <1>1
  <2>2. n \in TraceNo
    BY <1>2
  <2>3. k \in JitState /\ SameButTrace(j, k)
    BY <2>1, <2>2, TraceReplaced
  <2>4. k.trace[n] = T
    <3>1. k.trace = [j.trace EXCEPT ![n] = T] /\ DOMAIN j.trace = TraceNo
      BY <2>1 DEF JitState
    <3> QED BY <3>1, <2>2
  <2>5. \A m \in TraceNo : m # n => k.trace[m] = j.trace[m]
    BY <2>1, <2>2, TraceReplaced
  <2> QED BY <2>3, <2>4, <2>5
<1>4. T # Null /\ T # Cur
  BY ValuesAssumption
<1>5. Saved(k) = Saved(j)
  BY <1>2, <1>3, <1>4 DEF Saved
<1>6. SameTraces(j, k)
  BY <1>3, <1>5 DEF SameTraces, SameButTrace, Saved
<1>7. Tidy(k) /\ Alive(k) = Alive(j)
  BY <1>1, <1>6, SameTidy
<1>8. \A m \in TraceNo : (k.trace[m] = Cur <=> j.trace[m] = Cur) /\ (k.trace[m] = Null <=> j.trace[m] = Null)
  BY <1>2, <1>3, <1>4 DEF Saved
<1>9. Typed(k) /\ Numbers(k) /\ Phases(k)
  <2>1. \A m \in 1..(k.sizetrace - 1) : m \in TraceNo
    <3>1. k.sizetrace \in 0..(MAX_TRACES + 1)
      BY <1>3 DEF JitState
    <3> QED BY <3>1, Numbering DEF TraceNo
  <2> QED BY <2>1, <1>1, <1>3, <1>8 DEF Typed, Numbers, Phases, SameButTrace
<1>10. Entered(k) /\ Headers(k)
  <2>1. \A m \in Saved(j) : k.trace[m].start = j.trace[m].start
    BY <1>6, SameRefs
  <2> QED BY <2>1, <1>1, <1>3, <1>5 DEF Entered, Headers, SameButTrace
<1> QED BY <1>1, <1>3, <1>7, <1>9, <1>10 DEF Good, Base, Attached, SameButTrace

LEMMA SideExitKeeps ==
  ASSUME Good(J), NEW n \in TraceNo, NEW e \in Exits, NEW pc \in PC \union {Elsewhere},
         SideExit(n, e, pc)
  PROVE  Good(J')
<1> DEFINE count == J.trace[n].count[e] + 1
           s == [J EXCEPT !.trace[n].count[e] = count]
           C(loops) == [Idle EXCEPT !.start = AtExit, !.startpc = pc, !.loops = loops,
                                    !.parent = n, !.exitno = e]
<1>1. PICK loops \in BOOLEAN :
        LET k == Started(s, C(loops))
        IN  IF k.cur.traceno = 0 THEN J' = k
            ELSE IF OnlyReturns(n, count) THEN Finish(k, 0, "interp")
            ELSE IF IsRet(pc) /\ k.op[pc] = "jit" THEN J' = Unpatched(k, pc, TRUE)
            ELSE J' = k
  BY DEF SideExit
<1>2. /\ n \in Alive(J) /\ J.cur.traceno = 0 /\ J.held = 0
      /\ J.trace[n].count[e] # SNAPCOUNT_DONE
  BY EnterableAlive DEF SideExit, Running, Recording
<1> DEFINE c == C(loops)
           k == Started(s, c)
<1>3. Good(s) /\ Alive(s) = Alive(J) /\ s.cur = J.cur /\ s.held = J.held
  <2> DEFINE counts == [J.trace[n].count EXCEPT ![e] = count]
             T == [J.trace[n] EXCEPT !.count = counts]
  <2>1. J.trace[n] \in GCtrace
    BY <1>2, SavedTraces DEF Good, Base, Alive
  <2>2. counts \in [Exits -> 0..SNAPCOUNT_DONE]
    <3>1. J.trace[n].count \in [Exits -> 0..SNAPCOUNT_DONE]
      BY <2>1 DEF GCtrace
    <3>2. J.trace[n].count[e] \in 0..SNAPCOUNT_DONE
      BY <3>1
    <3>3. count \in 0..SNAPCOUNT_DONE
      BY <3>2, <1>2, Numbering
    <3> QED BY <3>1, <3>3
  <2>3. s = [J EXCEPT !.trace = [J.trace EXCEPT ![n] = T]]
    OBVIOUS
  <2> HIDE DEF s, counts
  <2>4. /\ T \in GCtrace /\ T.root = J.trace[n].root /\ T.link = J.trace[n].link
        /\ T.sides = J.trace[n].sides /\ T.exits = J.trace[n].exits
        /\ T.start = J.trace[n].start
    BY <2>1, <2>2 DEF GCtrace
  <2> HIDE DEF T
  <2> QED BY <1>2, <2>3, <2>4, SameTraceKeeps
<1>4. MayStart(s, c)
  <2>1. n \in 0..MAX_TRACES
    BY Numbering
  <2>2. c \in Recordings /\ c.start = AtExit /\ c.parent = n /\ c.exitno = e
    BY <2>1, IdleFacts DEF Recordings
  <2> HIDE DEF c, s
  <2> QED BY <2>2, <1>2, <1>3, Places DEF MayStart
<1>5. /\ k.cur.traceno = 0 => J' = k
      /\ k.cur.traceno # 0 =>
           \/ Finish(k, 0, "interp")
           \/ IsRet(pc) /\ k.op[pc] = "jit" /\ J' = Unpatched(k, pc, TRUE)
           \/ J' = k
  BY <1>1
<1> HIDE DEF c, s
<1>6. Good(k) /\ k.patch = NoPatch
  BY <1>2, <1>3, <1>4, StartedKeeps
<1> HIDE DEF k
<1>7. CASE J' = k
  BY <1>6, <1>7
<1>8. CASE k.cur.traceno # 0 /\ Finish(k, 0, "interp")
  BY <1>6, <1>8, NoLink, FinishKeeps DEF LinkTypes
<1>9. CASE k.cur.traceno # 0 /\ IsRet(pc) /\ k.op[pc] = "jit" /\ J' = Unpatched(k, pc, TRUE)
  <2>1. pc \in PC
    BY <1>9 DEF IsRet, PC
  <2> QED BY <2>1, <1>6, <1>9, UnpatchedKeeps
<1> QED BY <1>5, <1>7, <1>8, <1>9

-----------------------------------------------------------------------------
(* The invariant. *)

LEMMA InitGood ==
  ASSUME Init
  PROVE  Good(J)
<1>1. /\ \A pc \in PC : J.op[pc] = "plain" /\ J.d[pc] = 0
      /\ \A n \in TraceNo : J.trace[n] = Null
      /\ J.patch = NoPatch /\ J.chain = {} /\ J.cur = Idle /\ J.held = 0
      /\ J.sizetrace = 0 /\ J.freetrace = 0
  BY DEF Init
<1>2. J \in JitState
  <2>1. NoPatch \in Patches /\ NoPenalty \in Penalties /\ 1 \in 1..PENALTY_SLOTS
    BY ParametersAssumption DEF NoPatch, Patches, NoPenalty, Penalties
  <2>2. 0 \in 0..MAX_TRACES /\ 0 \in 0..(MAX_TRACES + 1)
    BY Numbering
  <2> QED BY <2>1, <2>2, IdleFacts DEF Init, JitState
<1>3. Saved(J) = {}
  BY <1>1 DEF Saved
<1>4. Alive(J) = {} /\ Tidy(J)
  BY <1>1, <1>3 DEF Tidy, Alive, Tree
<1>5. Typed(J)
  BY <1>1, <1>2, IdleFacts, Numbering, ValuesAssumption DEF Typed
<1>6. Numbers(J)
  BY <1>1 DEF Numbers
<1>7. Phases(J) /\ Attached(J)
  BY <1>1, IdleFacts DEF Phases, Attached
<1>8. Entered(J) /\ Headers(J)
  BY <1>1, Places DEF Entered, Headers
<1> QED BY <1>4, <1>5, <1>6, <1>7, <1>8 DEF Good, Base

LEMMA NextGood ==
  ASSUME Good(J), [Next]_J
  PROVE  Good(J')
<1>1. CASE J' = J
  BY <1>1
<1>2. ASSUME NEW f \in Funs, HotCall(f) \/ RecordCall(f) \/ RecordRet(f)
      PROVE  Good(J')
  BY <1>2, HotCallKeeps, RecordCallKeeps, RecordRetKeeps
<1>3. ASSUME NEW n \in TraceNo, NEW e \in Exits, NEW pc \in PC \union {Elsewhere}, SideExit(n, e, pc)
      PROVE  Good(J')
  BY <1>3, SideExitKeeps
<1>4. ASSUME NEW n \in TraceNo, CallAcross(n) \/ Collect(n)
      PROVE  Good(J')
  BY <1>4, CallAcrossKeeps, CollectKeeps
<1>5. CASE ContStitch
  BY <1>5, ContStitchKeeps
<1>6. CASE RecordCCall
  BY <1>6, RecordCCallKeeps
<1>7. CASE RecordOther
  BY <1>7, RecordOtherKeeps
<1>8. CASE RecordFails
  BY <1>8, RecordFailsKeeps
<1> QED BY <1>1, <1>2, <1>3, <1>4, <1>5, <1>6, <1>7, <1>8 DEF Next

LEMMA AlwaysGood == Spec => []Good(J)
<1>1. Init => Good(J)
  BY InitGood
<1>2. Good(J) /\ [Next]_J => Good(J)'
  <2> SUFFICES ASSUME Good(J), [Next]_J PROVE Good(J)'
    OBVIOUS
  <2>1. Good(J')
    BY NextGood
  <2> QED BY <2>1
<1> QED BY <1>1, <1>2, PTL DEF Spec

-----------------------------------------------------------------------------
(* What it says of the compiler. *)

(* The state always has the types of jit_State's fields, and only the      *)
(* recording that runs stands for a trace not saved yet.                   *)
THEOREM TypeCorrect == Spec => []TypeOK
<1>1. Good(J) => TypeOK
  BY DEF Good, Base, Typed, TypeOK
<1> QED BY <1>1, AlwaysGood, PTL

(* An instruction that enters a trace, put back for a while or not, always *)
(* enters a saved root trace recorded from there that its prototype keeps: *)
(* the assertions of trace_unpatch hold however flushes, recordings and    *)
(* collections follow each other.                                          *)
THEOREM EntriesAlwaysSaved == Spec => []EntriesSaved
<1>1. Good(J) => EntriesSaved
  BY DEF Good, Base, Entered, EntriesSaved
<1> QED BY <1>1, AlwaysGood, PTL

(* No jump of compiled code, over links, patched exits and continuation    *)
(* frames, leads to a trace flushed or collected, nor to a side trace      *)
(* whose root trace was.                                                   *)
THEOREM RunsOnlySaved == Spec => []RunsSavedOnly
<1>1. Good(J) => RunsSavedOnly
  <2> SUFFICES ASSUME Good(J), NEW n \in Enterable
               PROVE  n \in Saved(J) /\ RootOf(J, n) \in Saved(J)
    BY DEF RunsSavedOnly
  <2>1. n \in Alive(J)
    BY EnterableAlive
  <2>2. RootOf(J, n) \in Alive(J)
    BY <2>1, RootsAlive DEF Good, Base
  <2> QED BY <2>1, <2>2 DEF Alive
<1> QED BY <1>1, AlwaysGood, PTL

(* The trace a recording is going to be attached to, the parent of a side  *)
(* trace with its root or the trace a stitched one continues, is there     *)
(* until the recording ends.                                               *)
THEOREM AttachedAlwaysToSaved == Spec => []AttachedToSaved
<1>1. Good(J) => AttachedToSaved
  <2> SUFFICES ASSUME Good(J), Recording
               PROVE  /\ J.cur.start = AtExit =>
                           J.cur.parent \in Saved(J) /\ RootOf(J, J.cur.parent) \in Saved(J)
                      /\ J.cur.start = AtCall => J.cur.exitno \in Saved(J)
    BY DEF AttachedToSaved
  <2>1. CASE J.cur.start = AtExit
    <3>1. J.cur.parent \in Alive(J)
      BY <2>1 DEF Good, Attached, Recording
    <3>2. RootOf(J, J.cur.parent) \in Alive(J)
      BY <3>1, RootsAlive DEF Good, Base
    <3> QED BY <2>1, <3>1, <3>2, Places DEF Alive
  <2>2. CASE J.cur.start = AtCall
    BY <2>2, Places DEF Good, Attached, Recording, Alive
  <2> QED BY <2>1, <2>2
<1> QED BY <1>1, AlwaysGood, PTL

(* A compiled instruction put back for the recorder is compiled again by   *)
(* the time the recording ends, however it ends.                           *)
THEOREM PatchesEndWithRecordings == Spec => []PatchOnlyRecording
<1>1. Good(J) => PatchOnlyRecording
  BY DEF Good, Base, Phases, PatchOnlyRecording, Recording
<1> QED BY <1>1, AlwaysGood, PTL

(* No trace number is lost: below the hint of the search for a free one    *)
(* all are taken, so that trace_findfree fails only when all are.          *)
THEOREM NumbersNeverLost == Spec => []NoNumberLost
<1>1. Good(J) => NoNumberLost
  BY DEF Good, Base, Numbers, NoNumberLost
<1> QED BY <1>1, AlwaysGood, PTL

(* blacklist_pc never writes its opcode over a return: whatever the start  *)
(* of the recording that failed, only function headers are blacklisted.    *)
THEOREM HeadersOnlyBlacklisted == Spec => []OnlyHeadersBlacklisted
<1>1. Good(J) => OnlyHeadersBlacklisted
  BY DEF Good, Base, Headers, OnlyHeadersBlacklisted
<1> QED BY <1>1, AlwaysGood, PTL

==============================================================================
