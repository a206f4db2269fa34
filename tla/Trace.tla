------------------------------- MODULE Trace -------------------------------
(***************************************************************************)
(* Trace management of the vendored LuaJIT (lj_trace.c), with the parts of *)
(* the recorder (lj_record.c, lj_ffrecord.c) that decide where a trace     *)
(* begins and what it links to, and the freeing of traces by the           *)
(* collector, under any program compiled from rinha: its only hot places   *)
(* are function headers and returns (generated code has no loop), and no C *)
(* function it calls calls back into Lua.                                  *)
(*                                                                         *)
(* What is recorded is abstracted to the places a recording comes by; how  *)
(* often it has been there (the unroll limits) is any number.  Everything  *)
(* lj_trace_ins does for one instruction is one step, as no program and no *)
(* collector runs meanwhile.  A trace keeps what the rest refers to.       *)
(***************************************************************************)
EXTENDS Naturals, FiniteSets

CONSTANTS
    Funs,           \* the functions of the program
    MAX_TRACES,     \* JIT_P_maxtrace
    MIN_VECSZ,      \* LJ_MIN_VECSZ, the least size of the trace array
    MAX_SIDE,       \* JIT_P_maxside
    TRYSIDE,        \* JIT_P_tryside, with JIT_P_hotexit = 1
    PENALTY_SLOTS,
    PENALTY_MIN,
    PENALTY_MAX,
    EXITS,          \* bound: the exits of a trace
    Null,           \* no trace
    Cur             \* the trace being recorded, J->cur

Head(f) == <<"head", f>>
Ret(f) == <<"ret", f>>
PC == {Head(f) : f \in Funs} \union {Ret(f) : f \in Funs}
Elsewhere == <<"elsewhere", Null>>
AtExit == <<"exit", Null>>
AtCall == <<"call", Null>>
IsRet(pc) == pc \in {Ret(f) : f \in Funs}

TraceNo == 1..MAX_TRACES
Exits == 0..(EXITS - 1)
SNAPCOUNT_DONE == TRYSIDE + 2

(* A saved trace: where it starts, its root (0: itself), what it links to  *)
(* and how, how often each of its exits has been taken, the side trace     *)
(* each exit is patched to lead to (0: none), and the chain of the side    *)
(* traces, which a root trace begins (nextside, nchild).                   *)
GCtrace == [start : PC \union {AtExit, AtCall},
            root : 0..MAX_TRACES,
            link : 0..MAX_TRACES, linktype : {"loop", "root", "return", "interp", "stitch"},
            count : [Exits -> 0..SNAPCOUNT_DONE],
            exits : [Exits -> 0..MAX_TRACES], sides : SUBSET TraceNo]

(* A recording (J->cur, J->startpc, J->parent, J->exitno): exitno is an    *)
(* exit of the parent or, of a stitched trace, the trace it continues.     *)
Recordings == [traceno : 0..MAX_TRACES, start : PC \union {AtExit, AtCall},
               startpc : PC \union {Elsewhere}, loops : BOOLEAN,
               parent : 0..MAX_TRACES, exitno : Exits \union 0..MAX_TRACES, rets : BOOLEAN]

Patches == [pc : PC \union {Elsewhere}, skip : BOOLEAN]
Penalties == [pc : PC \union {Elsewhere, Null}, val : 0..PENALTY_MAX]
NoPatch == [pc |-> Elsewhere, skip |-> FALSE]
NoPenalty == [pc |-> Null, val |-> 0]

(* Not recording. *)
Idle == [traceno |-> 0, start |-> AtCall, startpc |-> Elsewhere, loops |-> FALSE,
         parent |-> 0, exitno |-> 0, rets |-> FALSE]

ASSUME ParametersAssumption ==
    /\ MAX_TRACES \in Nat \ {0} /\ MIN_VECSZ \in Nat \ {0, 1}
    /\ EXITS \in Nat \ {0} /\ MAX_SIDE \in Nat /\ TRYSIDE \in Nat
    /\ PENALTY_SLOTS \in Nat \ {0}
    /\ PENALTY_MAX \in Nat /\ PENALTY_MIN \in 0..PENALTY_MAX

ASSUME ValuesAssumption ==
    /\ Cur # Null /\ Null \notin GCtrace /\ Cur \notin GCtrace
    /\ Null \notin PC \union {Elsewhere}

VARIABLE
    J  \* the state of the compiler and the bytecode it patches:
       \*   op, d     of every place: "plain" (FUNCF, RET), "jit" (JFUNCF,
       \*             JLOOP) with the number of its trace, or "off" (IFUNCF)
       \*   patch     an instruction put back for a while (patchpc, bcskip)
       \*   trace, sizetrace, freetrace   the numbers of the traces
       \*   chain     the root traces in the chains of their prototypes
       \*   cur       the recording: traceno, start and startpc; loops, that
       \*             J->startpc is kept; parent, exitno; rets, that it has
       \*             returned below its first frame
       \*   penalty, penaltyslot   the penalty cache
       \*   held      the trace of a continuation frame (cont_stitch), or 0

JitState ==
    [op : [PC -> {"plain", "jit", "off"}], d : [PC -> 0..MAX_TRACES], patch : Patches,
     trace : [TraceNo -> GCtrace \union {Null, Cur}],
     sizetrace : 0..(MAX_TRACES + 1), freetrace : 0..(MAX_TRACES + 1),
     chain : SUBSET TraceNo, cur : Recordings,
     penalty : [1..PENALTY_SLOTS -> Penalties], penaltyslot : 1..PENALTY_SLOTS,
     held : 0..MAX_TRACES]

Recording == J.cur.traceno # 0
Saved(j) == {n \in TraceNo : j.trace[n] \notin {Null, Cur}}

-----------------------------------------------------------------------------
(* Numbers. *)

Bigger(m, n) == IF m > n THEN m ELSE n
Smaller(m, n) == IF m < n THEN m ELSE n
LeastOf(S) == CHOOSE n \in S : \A m \in S : n <= m

(* lj_mem_grow on the trace array. *)
Grown(size) == Smaller(Bigger(2 * size, MIN_VECSZ), MAX_TRACES + 1)

(* trace_findfree: a number (0: too many traces), and what it leaves in    *)
(* freetrace and sizetrace.                                                *)
FindFree(j) ==
    LET first == Bigger(j.freetrace, 1)
        free == {n \in first..(j.sizetrace - 1) : j.trace[n] = Null}
        end == Bigger(first, j.sizetrace)
    IN  IF free # {}
        THEN [no |-> LeastOf(free), freetrace |-> LeastOf(free) + 1, sizetrace |-> j.sizetrace]
        ELSE IF j.sizetrace > MAX_TRACES
        THEN [no |-> 0, freetrace |-> end, sizetrace |-> j.sizetrace]
        ELSE [no |-> end, freetrace |-> end, sizetrace |-> Grown(j.sizetrace)]

(* A slip: the hint stays above the number given back. *)
GiveBackSlip(j, n) == [j EXCEPT !.trace[n] = Null]

(* A number is free again (lj_trace_free, trace_abort). *)
GiveBack(j, n) ==
    [j EXCEPT !.trace[n] = Null,
              !.freetrace = IF n < j.freetrace THEN n ELSE j.freetrace]

-----------------------------------------------------------------------------
(* Patches. *)

(* A slip: the end of the recording does not force the instruction back. *)
PendpatchSlip(j, force) ==
    IF j.patch = NoPatch THEN j
    ELSE IF j.patch.skip THEN [j EXCEPT !.patch.skip = FALSE]
    ELSE [j EXCEPT !.op[j.patch.pc] = "jit", !.patch = NoPatch]

(* trace_pendpatch. *)
Pendpatch(j, force) ==
    IF j.patch = NoPatch THEN j
    ELSE IF j.patch.skip /\ ~force THEN [j EXCEPT !.patch.skip = FALSE]
    ELSE [j EXCEPT !.op[j.patch.pc] = "jit", !.patch = NoPatch]

(* A compiled instruction is put back for one instruction of a recording. *)
Unpatched(j, pc, skip) ==
    [j EXCEPT !.op[pc] = "plain", !.patch = [pc |-> pc, skip |-> skip]]

(* trace_unpatch: these instructions are what they were, if compiled. *)
Restored(j, pcs) ==
    LET jit == {pc \in pcs \intersect PC : j.op[pc] = "jit"}
    IN  [j EXCEPT !.op = [pc \in PC |-> IF pc \in jit THEN "plain" ELSE j.op[pc]],
                  !.d = [pc \in PC |-> IF pc \in jit THEN 0 ELSE j.d[pc]]]

(* trace_flushroot: its start is plain again, and it leaves its chain. *)
FlushRoot(j, n) ==
    LET pc == j.trace[n].start
    IN  [Restored(j, {pc}) EXCEPT !.chain = @ \ {n}]

(* A slip: a root trace already flushed on its own is not flushed again, *)
(* and neither is what compiled the same function since.                   *)
FlushAllSlip(j) ==
    [Restored(j, {j.trace[n].start : n \in j.chain \ {1}}) EXCEPT
        !.chain = {},
        !.trace = [n \in TraceNo |-> Null],
        !.freetrace = 0,
        !.penalty = [i \in 1..PENALTY_SLOTS |-> NoPenalty],
        !.cur = Idle]

(* lj_trace_flushall. *)
FlushAll(j) ==
    [Restored(j, {j.trace[n].start : n \in {m \in Saved(j) : j.trace[m].root = 0}}) EXCEPT
        !.chain = {},
        !.trace = [n \in TraceNo |-> Null],
        !.freetrace = 0,
        !.penalty = [i \in 1..PENALTY_SLOTS |-> NoPenalty],
        !.cur = Idle]

-----------------------------------------------------------------------------
(* Penalties. *)

(* A slip: a place that is in the cache gets another slot. *)
PenalizedSlip(j, pc) ==
    [j EXCEPT !.penalty[j.penaltyslot] = [pc |-> pc, val |-> PENALTY_MIN],
              !.penaltyslot = (j.penaltyslot % PENALTY_SLOTS) + 1]

(* penalty_pc and blacklist_pc.  The random bits, which can only bring the *)
(* blacklisting forward, are left out.                                     *)
Penalized(j, pc) ==
    LET slots == {i \in 1..PENALTY_SLOTS : j.penalty[i].pc = pc}
        i == LeastOf(slots)
        val == 2 * j.penalty[i].val
    IN  IF slots = {}
        THEN [j EXCEPT !.penalty[j.penaltyslot] = [pc |-> pc, val |-> PENALTY_MIN],
                       !.penaltyslot = (j.penaltyslot % PENALTY_SLOTS) + 1]
        ELSE IF val > PENALTY_MAX
        THEN [j EXCEPT !.op[pc] = "off"]
        ELSE [j EXCEPT !.penalty[i].val = val]

-----------------------------------------------------------------------------
(* The trace compiler: start, stop, abort. *)

(* trace_start and lj_record_setup.  Without a free number, everything is  *)
(* flushed and nothing recorded.                                           *)
Started(j, cur) ==
    LET found == FindFree(j)
        k == [j EXCEPT !.freetrace = found.freetrace, !.sizetrace = found.sizetrace]
    IN  IF found.no = 0 THEN FlushAll(k)
        ELSE [k EXCEPT !.trace[found.no] = Cur, !.cur = [cur EXCEPT !.traceno = found.no]]

RootAt(pc) == [Idle EXCEPT !.start = pc, !.startpc = pc, !.loops = TRUE]

RootOf(j, n) == IF j.trace[n].root # 0 THEN j.trace[n].root ELSE n

(* The trace lj_record_stop leaves. *)
Recorded(j, link, linktype) ==
    [start |-> j.cur.start,
     root |-> IF j.cur.start = AtExit THEN RootOf(j, j.cur.parent) ELSE 0,
     link |-> link, linktype |-> linktype,
     count |-> [e \in Exits |-> 0], exits |-> [e \in Exits |-> 0], sides |-> {}]

(* trace_save. *)
TraceSave(j, T) == [j EXCEPT !.trace[j.cur.traceno] = T, !.cur = Idle]

(* The exit a side trace goes on from is patched to lead to it (see        *)
(* lj_asm_patchexit), and it joins the side traces of its root trace.      *)
Branched(j, c, root) ==
    LET patched == [j EXCEPT !.trace[c.parent].exits[c.exitno] = c.traceno]
        done == [patched EXCEPT !.trace[c.parent].count[c.exitno] = SNAPCOUNT_DONE]
    IN  [done EXCEPT !.trace[root].sides = @ \union {c.traceno}]

(* LJ_TRACE_END and trace_stop. *)
Stopped(j, link, linktype) ==
    LET c == j.cur
        saved == TraceSave(Pendpatch(j, TRUE), Recorded(j, link, linktype))
    IN  IF c.start = AtExit
        THEN Branched(saved, c, RootOf(j, c.parent))
        ELSE IF c.start = AtCall
        THEN [saved EXCEPT !.trace[c.exitno].link = c.traceno]
        ELSE [saved EXCEPT !.op[c.start] = "jit", !.d[c.start] = c.traceno,
                           !.chain = @ \union {c.traceno}]

(* A slip: a root trace started at a return is penalized as well. *)
AbortedSlip(j) ==
    LET k == Pendpatch(j, TRUE)
        c == j.cur
        blamed == IF c.parent # 0 THEN k
                  ELSE IF c.exitno = 0 THEN Penalized(k, c.startpc)
                  ELSE [k EXCEPT !.trace[c.exitno].link = c.exitno]
    IN  [IF c.traceno = 0 THEN blamed ELSE GiveBack(blamed, c.traceno) EXCEPT !.cur = Idle]

(* A slip: the number of the aborted recording is kept. *)
AbortedKeepsSlip(j) ==
    LET k == Pendpatch(j, TRUE)
        c == j.cur
        blamed == IF c.parent # 0 \/ IsRet(c.start) THEN k
                  ELSE IF c.exitno = 0 THEN Penalized(k, c.startpc)
                  ELSE [k EXCEPT !.trace[c.exitno].link = c.exitno]
    IN  IF c.traceno = 0 THEN blamed ELSE GiveBack(blamed, c.traceno)

(* trace_abort: the place a root trace started at is penalized, the trace  *)
(* a stitched one would continue is blacklisted by a link to itself.       *)
Aborted(j) ==
    LET k == Pendpatch(j, TRUE)
        c == j.cur
        blamed == IF c.parent # 0 \/ IsRet(c.start) THEN k
                  ELSE IF c.exitno = 0 THEN Penalized(k, c.startpc)
                  ELSE [k EXCEPT !.trace[c.exitno].link = c.exitno]
    IN  [IF c.traceno = 0 THEN blamed ELSE GiveBack(blamed, c.traceno) EXCEPT !.cur = Idle]

(* With LJ_TRERR_MCODEAL everything is flushed after that. *)
AbortedWithoutMcode(j) == FlushAll(Aborted(j))

(* With LJ_TRERR_DOWNREC a root trace is started at the return (see        *)
(* trace_downrec).  When no number is left for it, the abort goes round    *)
(* again, with the aborted trace taken for a root.                         *)
AbortedDownrec(j, pc) ==
    LET k == Started(Aborted(j), RootAt(pc))
    IN  IF k.cur.traceno # 0 THEN k
        ELSE Aborted([k EXCEPT !.cur = [j.cur EXCEPT !.traceno = 0, !.parent = 0, !.exitno = 0]])

(* A recording that is to stop is saved, unless assembling it fails. *)
Finish(j, link, linktype) ==
    \/ J' = Stopped(j, link, linktype)
    \/ J' = Aborted(j)
    \/ J' = AbortedWithoutMcode(j)

(* One that comes back to its start can also go on, when no loop can be    *)
(* made of it (lj_opt_loop).                                               *)
FinishLoop(j) == Finish(j, j.cur.traceno, "loop") \/ J' = Pendpatch(j, TRUE)

-----------------------------------------------------------------------------
(* Traces that can run, and traces the collector keeps. *)

Successors(n) == {J.trace[n].link} \ {0}

(* What a patched instruction enters, what its links and the exits patched *)
(* lead to, and what a continuation goes on with.                          *)
Entries == {J.d[pc] : pc \in {p \in PC : J.op[p] = "jit"}}
SidesOf(n) == {J.trace[n].exits[e] : e \in Exits} \ {0}
Enterable ==
    {n \in TraceNo : \A N \in SUBSET TraceNo :
        (/\ Entries \union ({J.held} \ {0}) \subseteq N
         /\ \A m \in N \intersect Saved(J) : Successors(m) \union SidesOf(m) \subseteq N)
        => n \in N}

(* A slip: the link is not marked. *)
MarkedFromLinkSlip(n) == J.trace[n].sides

(* What gc_traverse_trace marks; the side traces are in a chain that the   *)
(* root trace begins.  That a trace also marks what follows it in a chain  *)
(* is left out: it keeps no more of a chain whose beginning is kept, and   *)
(* of others only what a flushed trace happens to point at.                *)
MarkedFrom(n) == Successors(n) \union J.trace[n].sides

Kept ==
    {n \in Saved(J) : \A N \in SUBSET Saved(J) :
        (/\ (J.chain \union {J.held}) \ {0} \subseteq N
         /\ \A m \in N : MarkedFrom(m) \subseteq N)
        => n \in N}

-----------------------------------------------------------------------------
(* The program runs into the compiler. *)

Running == ~Recording /\ J.held = 0

(* lj_trace_hot: a call of a function not compiled has been counted down.  *)
HotCall(f) ==
    /\ Running
    /\ J.op[Head(f)] = "plain"
    /\ J' = Started(J, RootAt(Head(f)))

(* lj_record_setup: after too many tries, or with too many side traces,    *)
(* the new trace only returns to the interpreter.                          *)
OnlyReturns(n, count) ==
    \/ Cardinality(J.trace[RootOf(J, n)].sides) >= MAX_SIDE
    \/ count > TRYSIDE

(* lj_trace_exit and trace_hotside.  When the place the new trace goes on  *)
(* from is a return that is compiled, the return is put back for it.       *)
SideExit(n, e, pc) ==
    LET count == J.trace[n].count[e] + 1
        counted == [J EXCEPT !.trace[n].count[e] = count]
    IN  /\ Running
        /\ n \in Enterable
        /\ J.trace[n].count[e] # SNAPCOUNT_DONE
        /\ \E loops \in IF e = 0 THEN BOOLEAN ELSE {FALSE} :
              LET k == Started(counted, [Idle EXCEPT !.start = AtExit, !.startpc = pc,
                                                     !.loops = loops,
                                                     !.parent = n, !.exitno = e])
              IN  IF k.cur.traceno = 0 THEN J' = k
                  ELSE IF OnlyReturns(n, count) THEN Finish(k, 0, "interp")
                  ELSE IF IsRet(pc) /\ k.op[pc] = "jit" THEN J' = Unpatched(k, pc, TRUE)
                  ELSE J' = k

(* A trace ends in a call of a C function, with itself in a continuation   *)
(* frame (recff_stitch).                                                   *)
CallAcross(n) ==
    /\ Running
    /\ n \in Enterable
    /\ J.trace[n].linktype = "stitch"
    /\ J' = [J EXCEPT !.held = n]

(* The C function returns (cont_stitch): the next trace runs, or there is  *)
(* none and lj_trace_stitch starts one.                                    *)
ContStitch ==
    LET n == J.held
        k == [J EXCEPT !.held = 0]
    IN  /\ n # 0
        /\ IF J.trace[n].link = 0
           THEN J' = Started(k, [Idle EXCEPT !.start = AtCall, !.exitno = n])
           ELSE J' = k

(* The recording fails at some instruction. *)
RecordFails == Recording /\ J' = Aborted(J)

(* The recording of an instruction of no interest here. *)
RecordOther ==
    /\ Recording
    /\ J.patch # NoPatch /\ ~J.patch.skip
    /\ J' = Pendpatch(J, FALSE)

(* The recording comes to a call of a C function that is not compiled:     *)
(* recff_nyi.                                                              *)
RecordCCall ==
    /\ Recording /\ ~J.patch.skip
    /\ \/ Finish(Pendpatch(J, FALSE), 0, "stitch")
       \/ Finish(Pendpatch(J, FALSE), 0, "return")

BackAtStart(j, pc) == j.cur.loops /\ j.cur.startpc = pc

(* A slip: the recording goes on after the flush. *)
CallUnrollSlip(j, f, lnk) ==
    \/ BackAtStart(j, Head(f)) /\ FinishLoop(j)
    \/ ~BackAtStart(j, Head(f)) /\ J' = IF lnk = 0 THEN Aborted(j) ELSE FlushRoot(j, lnk)

(* check_call_unroll: up- or tail-recursion, too deep, or neither.  Of a   *)
(* function whose trace (lnk) only returns, the trace is flushed.          *)
CallUnroll(j, f, lnk) ==
    \/ BackAtStart(j, Head(f)) /\ FinishLoop(j)
    \/ ~BackAtStart(j, Head(f)) /\ J' = Aborted(IF lnk = 0 THEN j ELSE FlushRoot(j, lnk))

(* rec_func_lua. *)
RecFuncLua(j, f) == CallUnroll(j, f, 0) \/ J' = j

(* rec_func_jit: a function whose trace only returns is put back for one   *)
(* instruction.                                                            *)
RecFuncJit(j, f, lnk) ==
    IF j.trace[lnk].linktype = "return"
    THEN CallUnroll(j, f, lnk) \/ J' = Unpatched(j, Head(f), FALSE)
    ELSE (BackAtStart(j, Head(f)) /\ FinishLoop(j)) \/ Finish(j, lnk, "root")

(* The recording enters a Lua function. *)
RecordCall(f) ==
    LET j == Pendpatch(J, FALSE)
    IN  /\ Recording /\ ~J.patch.skip
        /\ CASE j.op[Head(f)] = "plain" -> RecFuncLua(j, f)
             [] j.op[Head(f)] = "off"   -> J' = Aborted(j)
             [] j.op[Head(f)] = "jit"   -> RecFuncJit(j, f, j.d[Head(f)])

IsRoot(c) == c.parent = 0 /\ c.exitno = 0

(* rec_loop_jit, for a return that is compiled. *)
RecLoopJit(j, pc) ==
    IF IsRoot(j.cur) THEN J' = Aborted(j)
    ELSE (BackAtStart(j, pc) /\ FinishLoop(j)) \/ Finish(j, j.d[pc], "root")

(* check_downrec_unroll, after a return to a caller outside the trace. *)
DownrecUnroll(j, pc) ==
    IF BackAtStart(j, pc) THEN FinishLoop(j) ELSE J' = AbortedDownrec(j, pc)

(* lj_record_ret: the trace ends, or goes on in a frame of its own or, if  *)
(* it may, in the caller's.                                                *)
LjRecordRet(j, pc) ==
    \/ Finish(j, 0, "return")
    \/ J' = j
    \/ /\ ~IsRoot(j.cur) \/ IsRet(j.cur.start)
       /\ J' = [j EXCEPT !.cur.rets = TRUE] \/ (j.cur.rets /\ DownrecUnroll(j, pc))

(* The recording returns from a Lua function. *)
RecordRet(f) ==
    LET j == Pendpatch(J, FALSE)
    IN  /\ Recording /\ (J.patch.skip => J.patch.pc = Ret(f))
        /\ IF j.op[Ret(f)] = "jit" THEN RecLoopJit(j, Ret(f)) ELSE LjRecordRet(j, Ret(f))

(* The collector frees a trace that nothing refers to (lj_trace_free). *)
Collect(n) ==
    /\ n \in Saved(J) \ Kept
    /\ J' = GiveBack(J, n)

Init ==
    J = [op |-> [pc \in PC |-> "plain"], d |-> [pc \in PC |-> 0],
         patch |-> NoPatch,
         trace |-> [n \in TraceNo |-> Null], sizetrace |-> 0, freetrace |-> 0,
         chain |-> {}, cur |-> Idle,
         penalty |-> [i \in 1..PENALTY_SLOTS |-> NoPenalty], penaltyslot |-> 1,
         held |-> 0]

Next ==
    \/ \E f \in Funs : HotCall(f) \/ RecordCall(f) \/ RecordRet(f)
    \/ \E n \in TraceNo, e \in Exits, pc \in PC \union {Elsewhere} : SideExit(n, e, pc)
    \/ \E n \in TraceNo : CallAcross(n) \/ Collect(n)
    \/ ContStitch
    \/ RecordCCall
    \/ RecordOther
    \/ RecordFails

Spec == Init /\ [][Next]_J

-----------------------------------------------------------------------------
(* Properties. *)

(* The state has the types of jit_State's fields, and the number of the    *)
(* recording is the only one that stands for a trace not saved yet.        *)
TypeOK ==
    /\ J \in JitState
    /\ \A n \in TraceNo : J.trace[n] = Cur <=> n = J.cur.traceno

(* An instruction that enters a trace, put back for a while or not, enters *)
(* a saved root trace that was recorded from there, which its prototype    *)
(* keeps (the assertions of trace_unpatch).                                *)
EntriesSaved ==
    \A pc \in PC :
        (J.op[pc] = "jit" \/ J.patch.pc = pc) =>
            /\ J.d[pc] \in Saved(J) \intersect J.chain
            /\ J.trace[J.d[pc]].start = pc

(* Wherever execution can get to from there, over links, exits and         *)
(* continuations, there is a trace, and its root with it: flushing and     *)
(* collecting never leave a jump to nowhere.                               *)
RunsSavedOnly ==
    \A n \in Enterable : n \in Saved(J) /\ RootOf(J, n) \in Saved(J)

(* The trace a recording will be attached to when it ends is not flushed   *)
(* or collected meanwhile.                                                 *)
AttachedToSaved ==
    Recording =>
        /\ J.cur.start = AtExit => J.cur.parent \in Saved(J) /\ RootOf(J, J.cur.parent) \in Saved(J)
        /\ J.cur.start = AtCall => J.cur.exitno \in Saved(J)

(* An instruction put back is put back only while a recording runs. *)
PatchOnlyRecording == J.patch # NoPatch => Recording

(* The search for a free number, which starts at the hint, misses none: it *)
(* fails only when all are taken.                                          *)
NoNumberLost ==
    \A n \in 1..(J.sizetrace - 1) : J.trace[n] = Null => n >= J.freetrace

(* Only function headers are ever blacklisted: the opcode that blacklist_pc *)
(* writes has no meaning anywhere else.  A recording that leads to another *)
(* start and finds no number for it is penalized wherever it started, and  *)
(* only the flush that comes with it keeps its penalty from growing.       *)
OnlyHeadersBlacklisted == \A pc \in PC : J.op[pc] = "off" => ~IsRet(pc)

(* Functions whose recordings keep failing are not recorded for ever: they *)
(* are blacklisted, however the others they share the penalty cache with   *)
(* come and go (penalty_pc).  Two things can keep it from happening:       *)
(* flushes that clear the penalties again and again (lj_trace_flushall),   *)
(* and more functions that keep failing than the cache has slots, which    *)
(* throw each other out of it, in turn.                                    *)
PenaltiesCleared == \A i \in 1..PENALTY_SLOTS : J'.penalty[i] = NoPenalty
RecordingFails(f) ==
    /\ Recording /\ J.cur.start = Head(f)
    /\ J'.cur.start # Head(f) /\ J'.trace[J.cur.traceno] \in {Null, Cur}
    /\ ~PenaltiesCleared

FailuresEnd ==
    \A F \in {S \in SUBSET Funs : Cardinality(S) \in 1..PENALTY_SLOTS} :
        (/\ \A f \in F : []<><<RecordingFails(f)>>_J
         /\ \A f \in Funs \ F : <>[][~RecordingFails(f)]_J)
        => []<><<PenaltiesCleared>>_J
=============================================================================
