-------------------------------- MODULE Heap --------------------------------
(***************************************************************************)
(* The incremental collector of the vendored LuaJIT (lj_gc.c) under a      *)
(* running program: tables, closures, upvalues and interned strings of one *)
(* Lua state, the values on its stack, the write barriers, and a mark and  *)
(* sweep that advance by small steps between any two of the program's.     *)
(*                                                                         *)
(* A table has one field and a closure one upvalue, which is as much as    *)
(* colours can tell apart.  The lists gray, grayagain and weak are sets:   *)
(* the collector may take their objects in any order.  A string is its     *)
(* content, so the interning table is the set of strings allocated.        *)
(***************************************************************************)
EXTENDS Naturals, FiniteSets

CONSTANTS
    Tabs,      \* tables
    WeakTabs,  \* those of them whose values are weak
    Funs,      \* closures
    Upvs,      \* upvalues
    Strs,      \* strings
    Slots,     \* stack slots
    L,         \* the main thread, which no program can drop
    Nil,
    MAX_OBJECTS  \* bound: the objects allocated at any time

Val == Tabs \union Funs \union Strs
Obj == Val \union Upvs

ASSUME KindsAssumption ==
    /\ WeakTabs \subseteq Tabs
    /\ Tabs \intersect Funs = {} /\ Tabs \intersect Strs = {}
    /\ Funs \intersect Strs = {} /\ Val \intersect Upvs = {}
    /\ Slots \subseteq Nat
    /\ L \notin Obj /\ Nil \notin Obj /\ Nil \notin Slots

VARIABLES
    color,         \* of every object: "free", a white, "gray" or "black"
    currentwhite,  \* the white of new objects
    ref,           \* the field of a table, the upvalue of a closure, or the
                   \* value of a closed upvalue
    slot,          \* the slot an open upvalue points to, Nil once it is closed
    stack,         \* the values on the stack of L
    state,         \* of the collector
    gray,          \* objects to traverse
    grayagain,     \* objects to traverse again in the atomic phase
    weak,          \* weak tables traversed
    unswept,       \* objects the sweep has yet to pass
    full           \* progress of a full collection, "no" without one

heap == <<color, currentwhite, ref, slot, stack>>
lists == <<gray, grayagain, weak>>
vars == <<color, currentwhite, ref, slot, stack, state, gray, grayagain,
          weak, unswept, full>>

-----------------------------------------------------------------------------
(* Colours. *)

Whites == {"white0", "white1"}
Other(w) == IF w = "white0" THEN "white1" ELSE "white0"

IsWhite(o) == color[o] \in Whites
IsDead(o) == color[o] = Other(currentwhite)
Allocated == {o \in Obj : color[o] # "free"}

Marking == state \in {"propagate", "atomic"}

(* The value an upvalue stands for. *)
Value(u) == IF slot[u] = Nil THEN ref[u] ELSE stack[slot[u]]

(* What keeps an object alive: the objects it refers to, weakly not counted. *)
Strong(o) ==
    (IF o = L THEN {stack[s] : s \in Slots}
     ELSE IF o \in Upvs THEN {Value(o)}
     ELSE IF o \in WeakTabs \union Strs THEN {}
     ELSE {ref[o]}) \ {Nil}

(* gc_mark on the white objects of S.  An upvalue is never queued: its     *)
(* value is marked with it.                                                *)
Marked(S) ==
    LET white == {o \in S : IsWhite(o)}
    IN  white \union {v \in Val : IsWhite(v) /\ \E u \in white \intersect Upvs : v = Value(u)}

Closed(o) == o \in Upvs /\ slot[o] = Nil

Shade(M) ==
    [o \in Obj |-> IF o \notin M THEN color[o]
                   ELSE IF Closed(o) THEN "black" ELSE "gray"]

(* A slip: whatever is marked waits to be traversed. *)
QueueSlip(M) == M

(* Tables and closures wait to be traversed, strings and upvalues do not. *)
Queue(M) == M \intersect (Tabs \union Funs)

-----------------------------------------------------------------------------
(* The program.  It runs between the steps of the collector, except during *)
(* a full collection.                                                      *)

Mutate == full = "no" /\ UNCHANGED <<currentwhite, state, weak, full>>

(* Nothing but the stack changes: L is never black and needs no barrier. *)
Push(s, v) ==
    /\ Mutate
    /\ stack' = [stack EXCEPT ![s] = v]
    /\ UNCHANGED <<color, ref, slot, gray, grayagain, unswept>>

Drop(s) == Push(s, Nil)
Copy(s, p) == Push(s, stack[p])
GetField(s, p) == stack[p] \in Tabs /\ Push(s, ref[stack[p]])
GetUpvalue(s, p) == stack[p] \in Funs /\ Push(s, Value(ref[stack[p]]))

Room == Cardinality(Allocated) < MAX_OBJECTS

NewTable(t, s) ==
    /\ Mutate
    /\ Room /\ color[t] = "free"
    /\ color' = [color EXCEPT ![t] = currentwhite]
    /\ ref' = [ref EXCEPT ![t] = Nil]
    /\ stack' = [stack EXCEPT ![s] = t]
    /\ UNCHANGED <<slot, gray, grayagain, unswept>>

(* A slip: what is found dead is used as it is. *)
RevivedSlip(o) == IF color[o] = "free" THEN currentwhite ELSE color[o]

(* The colour of an object taken into use: new, or dead and resurrected. *)
Revived(o) == IF color[o] = "free" \/ IsDead(o) THEN currentwhite ELSE color[o]

(* lj_str_new: a string already interned is used again, dead or not. *)
NewString(c, s) ==
    /\ Mutate
    /\ Room \/ color[c] # "free"
    /\ color' = [color EXCEPT ![c] = Revived(c)]
    /\ stack' = [stack EXCEPT ![s] = c]
    /\ UNCHANGED <<ref, slot, gray, grayagain, unswept>>

(* A closure over the local in slot p: func_finduv finds the open upvalue  *)
(* of the slot, dead or not, or creates one.                               *)
NewClosure(f, s, p) == \E u \in Upvs :
    /\ Mutate
    /\ Room /\ color[f] = "free"
    /\ IF \E x \in Upvs : slot[x] = p THEN slot[u] = p ELSE color[u] = "free"
    /\ color' = [color EXCEPT ![f] = currentwhite, ![u] = Revived(u)]
    /\ slot' = [slot EXCEPT ![u] = p]
    /\ ref' = [ref EXCEPT ![f] = u, ![u] = Nil]
    /\ stack' = [stack EXCEPT ![s] = f]
    /\ UNCHANGED <<gray, grayagain, unswept>>

(* A closure over an upvalue of the function that runs, in slot p. *)
InheritClosure(f, s, p) ==
    /\ Mutate
    /\ Room /\ color[f] = "free" /\ stack[p] \in Funs
    /\ color' = [color EXCEPT ![f] = currentwhite]
    /\ ref' = [ref EXCEPT ![f] = ref[stack[p]]]
    /\ stack' = [stack EXCEPT ![s] = f]
    /\ UNCHANGED <<slot, gray, grayagain, unswept>>

(* A store to a table: lj_gc_barrierback when it is black. *)
SetField(p, q) ==
    LET t == stack[p]
        v == stack[q]
        back == color[t] = "black"
    IN  /\ Mutate
        /\ t \in Tabs
        /\ ref' = [ref EXCEPT ![t] = v]
        /\ color' = IF back THEN [color EXCEPT ![t] = "gray"] ELSE color
        /\ grayagain' = IF back THEN grayagain \union {t} ELSE grayagain
        /\ UNCHANGED <<slot, stack, gray, unswept>>

(* A store to an upvalue: to the stack while it is open, else with the     *)
(* barrier lj_gc_barrieruv.                                                *)
SetUpvalue(p, q) ==
    LET u == ref[stack[p]]
        v == stack[q]
        barrier == color[u] = "black" /\ v # Nil /\ IsWhite(v)
    IN  /\ Mutate
        /\ stack[p] \in Funs
        /\ IF slot[u] # Nil
           THEN /\ stack' = [stack EXCEPT ![slot[u]] = v]
                /\ UNCHANGED <<color, ref, gray>>
           ELSE /\ ref' = [ref EXCEPT ![u] = v]
                /\ color' = IF ~barrier THEN color
                            ELSE IF Marking THEN Shade(Marked({v}))
                            ELSE [color EXCEPT ![u] = currentwhite]
                /\ gray' = IF barrier /\ Marking THEN gray \union Queue({v}) ELSE gray
                /\ UNCHANGED stack
        /\ UNCHANGED <<slot, grayagain, unswept>>

(* lj_func_closeuv: the open upvalues from a slot on are closed, dead ones *)
(* freed.  A gray one turns black and its value is marked while marking,   *)
(* else it turns white (lj_gc_closeuv).                                    *)
CloseUpvalues(level) ==
    LET closing == {u \in Upvs : slot[u] # Nil /\ slot[u] >= level}
        dead == {u \in closing : IsDead(u)}
        grays == {u \in closing : color[u] = "gray"}
        marks == IF Marking THEN Marked({Value(u) : u \in grays} \ {Nil}) ELSE {}
    IN  /\ Mutate
        /\ closing # {}
        /\ color' = [o \in Obj |->
                       IF o \in dead THEN "free"
                       ELSE IF o \in grays THEN IF Marking THEN "black" ELSE currentwhite
                       ELSE Shade(marks)[o]]
        /\ ref' = [o \in Obj |-> IF o \in dead THEN Nil
                                 ELSE IF o \in closing THEN Value(o) ELSE ref[o]]
        /\ slot' = [u \in Upvs |-> IF u \in closing THEN Nil ELSE slot[u]]
        /\ gray' = gray \union Queue(marks)
        /\ unswept' = unswept \ dead
        /\ UNCHANGED <<stack, grayagain>>

Program ==
    \/ \E s \in Slots : Drop(s)
    \/ \E s, p \in Slots : Copy(s, p) \/ GetField(s, p) \/ GetUpvalue(s, p)
    \/ \E s \in Slots, t \in Tabs : NewTable(t, s)
    \/ \E s \in Slots, c \in Strs : NewString(c, s)
    \/ \E s, p \in Slots, f \in Funs : NewClosure(f, s, p) \/ InheritClosure(f, s, p)
    \/ \E p, q \in Slots : SetField(p, q) \/ SetUpvalue(p, q)
    \/ \E level \in Slots : CloseUpvalues(level)

-----------------------------------------------------------------------------
(* The collector: one step of gc_onestep each. *)

Start ==
    /\ state = "pause"
    /\ state' = "propagate"
    /\ gray' = {L} /\ grayagain' = {} /\ weak' = {}
    /\ UNCHANGED <<heap, unswept, full>>

(* propagatemark on a table with strong values or a closure. *)
Traverse(o) ==
    /\ state = "propagate" /\ o \in gray \ {L} /\ o \notin WeakTabs
    /\ color' = [Shade(Marked(Strong(o))) EXCEPT ![o] = "black"]
    /\ gray' = (gray \ {o}) \union Queue(Marked(Strong(o)))
    /\ UNCHANGED <<currentwhite, ref, slot, stack, state, grayagain, weak, unswept, full>>

(* A weak table stays gray and waits for the atomic phase. *)
TraverseWeak(o) ==
    /\ state = "propagate" /\ o \in gray /\ o \in WeakTabs
    /\ gray' = gray \ {o}
    /\ weak' = weak \union {o}
    /\ UNCHANGED <<heap, state, grayagain, unswept, full>>

(* A slip: the thread, gray for good, stays in its list. *)
TraverseThreadSlip ==
    /\ state = "propagate" /\ L \in gray
    /\ color' = Shade(Marked(Strong(L)))
    /\ gray' = gray \union Queue(Marked(Strong(L)))
    /\ UNCHANGED <<currentwhite, ref, slot, stack, state, grayagain, weak, unswept, full>>

(* A thread is never black: it is traversed again in the atomic phase. *)
TraverseThread ==
    /\ state = "propagate" /\ L \in gray
    /\ color' = Shade(Marked(Strong(L)))
    /\ gray' = (gray \ {L}) \union Queue(Marked(Strong(L)))
    /\ grayagain' = grayagain \union {L}
    /\ UNCHANGED <<currentwhite, ref, slot, stack, state, weak, unswept, full>>

EndPropagate ==
    /\ state = "propagate" /\ gray = {}
    /\ state' = "atomic"
    /\ UNCHANGED <<heap, lists, unswept, full>>

(* What the atomic phase goes on from: the gray lists, and the value of    *)
(* every open upvalue that is gray (gc_mark_uv).                           *)
GrayUpvalues == {u \in Upvs : slot[u] # Nil /\ color[u] = "gray"}
AtomicRoots == UNION {Strong(o) : o \in gray \union grayagain \union GrayUpvalues}

(* The white objects reached from there: the least set closed under Strong. *)
Reached ==
    {o \in Obj : \A N \in SUBSET Obj :
        (/\ \A r \in AtomicRoots : IsWhite(r) => r \in N
         /\ \A x \in N : \A c \in Strong(x) : IsWhite(c) => c \in N) => o \in N}

(* gc_clearweak: a weak table that survives loses a value that does not;   *)
(* a string it holds survives (gc_mayclear).                               *)
Survivors == {o \in Allocated : ~IsWhite(o)} \union Reached
WeakStrings == {c \in Strs : \E t \in WeakTabs \intersect Survivors : ref[t] = c}

ClearWeak ==
    [o \in Obj |-> IF /\ o \in WeakTabs \intersect Survivors
                      /\ ref[o] \notin Survivors \union WeakStrings
                   THEN Nil ELSE ref[o]]

(* A slip: the whites are not swapped. *)
NewWhiteSlip == currentwhite

(* The white of the next cycle: what has the old one now is dead. *)
NewWhite == Other(currentwhite)

Atomic ==
    /\ state = "atomic"
    /\ color' = [o \in Obj |->
                   IF o \in Reached \union gray \union grayagain
                   THEN IF o \in WeakTabs \union Strs \/ (o \in Upvs /\ ~Closed(o))
                        THEN "gray" ELSE "black"
                   ELSE IF o \in WeakStrings THEN "gray" ELSE color[o]]
    /\ ref' = ClearWeak
    /\ currentwhite' = NewWhite
    /\ state' = "sweepstring"
    /\ unswept' = Allocated
    /\ gray' = {} /\ grayagain' = {} /\ weak' = {}
    /\ UNCHANGED <<slot, stack, full>>

(* The sweep passes an object: it is freed when dead, else it turns white. *)
Pass(o) ==
    /\ unswept' = unswept \ {o}
    /\ color' = [color EXCEPT ![o] = IF IsDead(o) THEN "free" ELSE currentwhite]
    /\ ref' = IF IsDead(o) THEN [ref EXCEPT ![o] = Nil] ELSE ref
    /\ slot' = [u \in Upvs |-> IF u = o /\ IsDead(o) THEN Nil ELSE slot[u]]
    /\ UNCHANGED <<currentwhite, stack, lists, full>>

SweepString(o) == state = "sweepstring" /\ o \in unswept \intersect Strs /\ Pass(o) /\ UNCHANGED state

EndSweepString ==
    /\ state = "sweepstring" /\ unswept \intersect Strs = {}
    /\ state' = "sweep"
    /\ UNCHANGED <<heap, lists, unswept, full>>

Sweep(o) == state = "sweep" /\ o \in unswept /\ Pass(o) /\ UNCHANGED state

EndSweep ==
    /\ state = "sweep" /\ unswept = {}
    /\ state' = "pause"
    /\ full' = IF full = "finish" THEN "cycle" ELSE "no"
    /\ UNCHANGED <<heap, lists, unswept>>

Collector ==
    \/ Start
    \/ \E o \in Obj : Traverse(o) \/ TraverseWeak(o) \/ SweepString(o) \/ Sweep(o)
    \/ TraverseThread
    \/ EndPropagate
    \/ Atomic
    \/ EndSweepString
    \/ EndSweep

(* lj_gc_fullgc: a cycle caught while marking goes over to the sweep, which *)
(* finds nothing dead; once it has ended, a whole cycle runs.               *)
FullGC ==
    /\ full = "no"
    /\ full' = "finish"
    /\ IF state \in {"pause", "propagate", "atomic"}
       THEN /\ state' = "sweepstring"
            /\ unswept' = Allocated
            /\ gray' = {} /\ grayagain' = {} /\ weak' = {}
       ELSE UNCHANGED <<state, lists, unswept>>
    /\ UNCHANGED heap

Init ==
    /\ color = [o \in Obj |-> "free"]
    /\ currentwhite = "white0"
    /\ ref = [o \in Obj |-> Nil]
    /\ slot = [u \in Upvs |-> Nil]
    /\ stack = [s \in Slots |-> Nil]
    /\ state = "pause"
    /\ gray = {} /\ grayagain = {} /\ weak = {}
    /\ unswept = {}
    /\ full = "no"

Next == Program \/ Collector \/ FullGC

(* Assumed of the program: it goes on allocating.  Every allocation over   *)
(* the threshold runs the collector (lj_gc_check), so it goes on as well.  *)
Fairness == WF_vars(Collector)

Spec == Init /\ [][Next]_vars /\ Fairness

-----------------------------------------------------------------------------
(* Properties. *)

TypeOK ==
    /\ color \in [Obj -> {"free", "white0", "white1", "gray", "black"}]
    /\ currentwhite \in Whites
    /\ ref \in [Obj -> Obj \union {Nil}]
    /\ slot \in [Upvs -> Slots \union {Nil}]
    /\ stack \in [Slots -> Val \union {Nil}]
    /\ state \in {"pause", "propagate", "atomic", "sweepstring", "sweep"}
    /\ gray \subseteq Tabs \union Funs \union {L}
    /\ grayagain \subseteq Tabs \union Funs \union {L}
    /\ weak \subseteq WeakTabs
    /\ unswept \subseteq Obj
    /\ full \in {"no", "finish", "cycle"}

(* What the program can reach from the stack, through weak tables as well. *)
Refs(o) == (IF o \in WeakTabs THEN {ref[o]} ELSE Strong(o)) \ {Nil}

Reachable ==
    {o \in Obj : \A N \in SUBSET Obj :
        (/\ Strong(L) \subseteq N
         /\ \A x \in N : Refs(x) \subseteq N) => o \in N}

(* The collector frees no object the program can still reach, at whatever  *)
(* point of its stores, closes and resurrections the steps come.           *)
NoDangling == Reachable \subseteq Allocated

(* Whatever the program can no longer reach is freed in the end, although  *)
(* it goes on changing the heap while the collector marks.                 *)
GarbageIsFreed ==
    \A o \in Tabs \union Funs :
        (o \in Allocated \ Reachable) ~> (color[o] = "free")

(* Every cycle comes to its end. *)
CycleEnds == (state = "propagate") ~> (state = "pause")
=============================================================================
