--------------------------------- MODULE Tab ---------------------------------
(***************************************************************************)
(* The table of the vendored LuaJIT (lj_tab.c): an array part for the      *)
(* integers below asize and a hash part of 2^hbits nodes, whose chains of  *)
(* colliding keys are kept inside the node vector (Brent's variation).     *)
(* Storing nil keeps the key in its node; only a rehash drops dead keys.   *)
(*                                                                         *)
(* A key is an integer or an object.  The anchor of an object is given by  *)
(* a hash that Init chooses freely.  A dead string may be collected and a  *)
(* new string allocated at its address: the dead nodes then hold what      *)
(* compares equal to the new string, whose id, and so whose anchor, is     *)
(* another one (the pseudo-resurrected keys of lj_tab_newkey).             *)
(*                                                                         *)
(* The operators work on a table given as a value, as the C functions work *)
(* on a GCtab; the actions apply them to the one table of the state.       *)
(***************************************************************************)
EXTENDS Naturals, Sequences

LOCAL SE == INSTANCE SequencesExt
LOCAL FS == INSTANCE FiniteSets

CONSTANTS
    Ints,     \* integer keys
    Names,    \* string keys
    Values,
    Nil,      \* the nil of Lua, and no key
    Null,     \* the null pointer
    HASHES,   \* the hashes of keys
    HBITS,    \* the hash part a constructor may give the table at its start
    MAX_USED, \* bound: no new key when this many nodes hold keys, dead or live
    LOOPS,    \* whether the program of the instance traverses the table
    ASIZES    \* the sizes lj_tab_reasize is called with

ASSUME Ints \subseteq Nat /\ HASHES \subseteq Nat /\ HBITS \subseteq Nat /\ ASIZES \subseteq Nat

Key == Ints \union Names

VARIABLES
    tab,      \* the table: array, node, freetop, with the hash of every key
    reads,    \* what a lookup of each key returns, kept for the properties
    loop,     \* the traversal: "none", "running", "over", or "failed"
    cursor,   \* its control variable, Nil at its start
    visited   \* the keys it has returned

vars == <<tab, reads, loop, cursor, visited>>

-----------------------------------------------------------------------------
(* Looking up. *)

EmptyNode == [key |-> Nil, val |-> Nil, next |-> Null]

(* hbits = 0 is the one shared nil node, which counts as no node. *)

HashPart(hbits) == [i \in 0..(2^hbits - 1) |-> EmptyNode]
FreeTopSlip(hbits) == 2^hbits
FreeTop(hbits) == IF hbits = 0 THEN 0 ELSE 2^hbits

ASize(t) == FS!Cardinality(DOMAIN t.array)
HSize(t) == FS!Cardinality(DOMAIN t.node)

Fls(x) == CHOOSE b \in 0..x : 2^b <= x /\ x < 2^(b + 1)

HashBits(t) == Fls(HSize(t))

Anchor(t, k) == (IF k = Nil THEN 0 ELSE t.hash[k]) % HSize(t)

(* The nodes reached from node i; a walk is cut off once it must repeat. *)
Chain(t, i) ==
    LET walk[n \in 0..HSize(t)] ==
          IF n = 0 THEN <<i>>
          ELSE LET w == walk[n - 1]
                   next == t.node[w[Len(w)]].next
               IN  IF next = Null THEN w ELSE Append(w, next)
    IN  walk[HSize(t)]

(* The first node of the chain from the anchor of k that holds k. *)
Find(t, k) ==
    LET hits == SelectSeq(Chain(t, Anchor(t, k)), LAMBDA i : t.node[i].key = k)
    IN  IF hits = <<>> THEN Null ELSE hits[1]

(* An integer outside Key has no entry: no program of the model stores it. *)
Get(t, k) ==
    IF k \in DOMAIN t.array THEN t.array[k]
    ELSE IF k \notin Key \/ Find(t, k) = Null THEN Nil
    ELSE t.node[Find(t, k)].val

LiveNodes(t) == {i \in DOMAIN t.node : t.node[i].val # Nil}
UsedNodes(t) == {i \in DOMAIN t.node : t.node[i].key # Nil}
LiveSlots(t) == {i \in DOMAIN t.array : t.array[i] # Nil}

-----------------------------------------------------------------------------
(* The sizes of a rehash. *)

HashBitsFor(s) == IF s = 0 THEN 0 ELSE IF s = 1 THEN 1 ELSE 1 + Fls(s - 1)

Bin(k) == IF k > 2 THEN Fls(k - 1) ELSE 0

(* The integers that could go to the array part, the new key included. *)
Candidates(t, k) ==
    LiveSlots(t) \union ({t.node[i].key : i \in LiveNodes(t)} \intersect Ints)
                 \union ({k} \intersect Ints)

(* The largest range 0..2^(b+1) that holds more than 2^(b-1) of the keys:  *)
(* "asize" is the array's size (slot 0 included), "na" the keys it takes.  *)
BestASize(ints) ==
    LET nn == FS!Cardinality(ints)
        Sum(b) == FS!Cardinality({k \in ints : Bin(k) <= b})
        dense == {b \in 0..nn :
                    /\ 2 * nn > 2^b
                    /\ b = 0 \/ Sum(b - 1) # nn
                    /\ \E k \in ints : Bin(k) = b
                    /\ 2 * Sum(b) > 2^b}
        best == CHOOSE b \in dense : \A c \in dense : c <= b
    IN  IF dense = {} THEN [asize |-> 0, na |-> 0]
        ELSE [asize |-> 2^(best + 1) + 1, na |-> Sum(best)]

-----------------------------------------------------------------------------
(* Inserting a key. *)

(* The node before n on the chain from node i. *)
Predecessor(t, i, n) ==
    SelectSeq(Chain(t, i), LAMBDA p : t.node[p].next = n)[1]

(* Take nn, the successor of "from", out of its chain, put it behind mn. *)
Rechain(t, from, nn, mn) ==
    LET cut == [t EXCEPT !.node[from].next = t.node[nn].next]
    IN  [cut EXCEPT !.node[nn].next = cut.node[mn].next, !.node[mn].next = nn]

RechainAllSlip(t, f) == t

(* Move behind their anchors the live keys after node f whose anchor is    *)
(* neither f nor their own node.                                           *)
RECURSIVE RechainAll(_, _)
RechainAll(t, f) ==
    LET nn == t.node[f].next
        mn == Anchor(t, t.node[nn].key)
    IN  IF nn = Null THEN t
        ELSE IF t.node[nn].val # Nil /\ mn \notin {f, nn}
             THEN RechainAll(Rechain(t, f, nn, mn), f)
             ELSE RechainAll(t, nn)

(* Behind f, the node n was moved to, look for a live key anchored at n,   *)
(* which the move has cut off; if there is one, rechain from there on.     *)
RECURSIVE RechainResurrected(_, _, _)
RechainResurrected(t, f, n) ==
    LET nn == t.node[f].next
    IN  IF nn = Null THEN t
        ELSE IF t.node[nn].val # Nil /\ Anchor(t, t.node[nn].key) = n
             THEN RechainAll(Rechain(t, f, nn, n), f)
             ELSE RechainResurrected(t, nn, n)

(* Free node f: the key that sits in n without being anchored there moves  *)
(* to f, and n becomes the anchor of the new key.                          *)
MoveAway(t, n, f) ==
    LET p == Predecessor(t, Anchor(t, t.node[n].key), n)
        moved == [t EXCEPT !.node[p].next = f,
                           !.node[f] = t.node[n],
                           !.node[n].next = Null,
                           !.node[n].val = Nil]
    IN  RechainResurrected(moved, f, n)

(* The table with node n holding key k and value v. *)
Fill(t, n, k, v) == [t EXCEPT !.node[n].key = k, !.node[n].val = v]

RECURSIVE Put(_, _, _)

(* What the old parts hold that the new array has no slot for, in the      *)
(* order it is put back: the array's tail, then the nodes.                 *)
Leftover(t, asize) ==
    SelectSeq([i \in 1..ASize(t) |-> <<i - 1, t.array[i - 1]>>],
              LAMBDA p : p[1] >= asize /\ p[2] # Nil)
    \o SelectSeq([i \in 1..HSize(t) |-> <<t.node[i - 1].key, t.node[i - 1].val>>],
                 LAMBDA p : p[2] # Nil)

Resize(t, asize, hbits) ==
    LET fresh == [array |-> [i \in 0..(asize - 1) |->
                               IF i < ASize(t) THEN t.array[i] ELSE Nil],
                  node |-> HashPart(hbits),
                  freetop |-> FreeTop(hbits), hash |-> t.hash]
    IN  SE!FoldLeft(LAMBDA u, p : Put(u, p[1], p[2]), fresh, Leftover(t, asize))

Rehash(t, k) ==
    LET best == BestASize(Candidates(t, k))
        total == 1 + FS!Cardinality(LiveSlots(t)) + FS!Cardinality(LiveNodes(t))
    IN  Resize(t, best.asize, HashBitsFor(total - best.na))

(* lj_tab_newkey, with the value its caller stores in the new slot. *)
NewKey(t, k, v) ==
    LET n == Anchor(t, k)
        free == {f \in 0..(t.freetop - 1) : t.node[f].key = Nil}
        f == CHOOSE g \in free : \A h \in free : h <= g
        u == [t EXCEPT !.freetop = f]
    IN  IF t.node[n].val = Nil /\ HSize(t) > 1 THEN Fill(t, n, k, v)
        ELSE IF free = {} THEN Put(Rehash(t, k), k, v)
        ELSE IF Anchor(t, t.node[n].key) # n THEN Fill(MoveAway(u, n, f), n, k, v)
        ELSE Fill([u EXCEPT !.node[f].next = t.node[n].next,
                            !.node[n].next = f], f, k, v)

(* lj_tab_set and the store of v to the slot it returns. *)
Put(t, k, v) ==
    IF k \in DOMAIN t.array THEN [t EXCEPT !.array[k] = v]
    ELSE IF Find(t, k) # Null THEN [t EXCEPT !.node[Find(t, k)].val = v]
    ELSE NewKey(t, k, v)

-----------------------------------------------------------------------------
(* Traversing and measuring. *)

(* A slip: a key whose value has become nil is taken for absent.           *)
KeyIndexSlip(t, k) ==
    IF k = Nil THEN 0
    ELSE IF k \in DOMAIN t.array THEN k + 1
    ELSE IF Find(t, k) # Null /\ Get(t, k) # Nil THEN ASize(t) + Find(t, k) + 1
    ELSE Null

(* The index after key k, the array's slots before the nodes; Null when k  *)
(* is not in the table.                                                    *)
KeyIndex(t, k) ==
    IF k = Nil THEN 0
    ELSE IF k \in DOMAIN t.array THEN k + 1
    ELSE IF Find(t, k) # Null THEN ASize(t) + Find(t, k) + 1
    ELSE Null

(* The keys with a value from index idx on, in the order of the traversal. *)
From(t, idx) ==
    LET KeyAt(i) == IF i < ASize(t) THEN i ELSE t.node[i - ASize(t)].key
        ValAt(i) == IF i < ASize(t) THEN t.array[i] ELSE t.node[i - ASize(t)].val
        rest == SelectSeq([i \in 1..(ASize(t) + HSize(t)) |-> i - 1],
                          LAMBDA i : i >= idx /\ ValAt(i) # Nil)
    IN  [j \in DOMAIN rest |-> KeyAt(rest[j])]

(* The last of lo, mid.. where the halving search for a nil ends. *)
RECURSIVE Halve(_, _, _)
Halve(t, lo, hi) ==
    LET mid == (lo + hi) \div 2
    IN  IF hi - lo <= 1 THEN lo
        ELSE IF Get(t, mid) = Nil THEN Halve(t, lo, mid) ELSE Halve(t, mid, hi)

(* Doubling from hi until a nil is found. *)
RECURSIVE Widen(_, _, _)
Widen(t, lo, hi) ==
    IF Get(t, hi) # Nil THEN Widen(t, hi, 2 * hi) ELSE Halve(t, lo, hi)

(* A slip: a full array part is taken for the whole sequence. *)
LengthSlip(t) ==
    LET hi == IF ASize(t) = 0 THEN 0 ELSE ASize(t) - 1
    IN  IF hi > 0 /\ t.array[hi] = Nil THEN Halve(t, 0, hi) ELSE hi

(* lj_tab_len, without the linear search beyond 2^31. *)
Length(t) ==
    LET hi == IF ASize(t) = 0 THEN 0 ELSE ASize(t) - 1
    IN  IF hi > 0 /\ t.array[hi] = Nil THEN Halve(t, 0, hi)
        ELSE IF HSize(t) > 1 THEN Widen(t, hi, hi + 1)
        ELSE hi

-----------------------------------------------------------------------------
(* The operations. *)

Reads(t) == [k \in Key |-> Get(t, k)]

Write(t) == tab' = t /\ reads' = Reads(t)

NoLoop == loop' = "none" /\ cursor' = Nil /\ visited' = {}

Empty(asize, hbits, hash) ==
    [array |-> [i \in 0..(asize - 1) |-> Nil],
     node |-> HashPart(hbits), freetop |-> FreeTop(hbits), hash |-> hash]

Init ==
    /\ \E hash \in [Key -> HASHES], hbits \in HBITS : tab = Empty(0, hbits, hash)
    /\ reads = [k \in Key |-> Nil]
    /\ loop = "none" /\ cursor = Nil /\ visited = {}

(* A string that is in no table and in no control variable may have been   *)
(* collected since: its address is then that of a new string.              *)
Hashes(k) ==
    IF k \in Names /\ reads[k] = Nil /\ cursor # k THEN HASHES
    ELSE {tab.hash[k]}

(* t[k] = v.  A new key during a traversal ends what can be said of it. *)
Assign(k, v) ==
    /\ FS!Cardinality(UsedNodes(tab)) < MAX_USED \/ reads[k] # Nil
    /\ \E h \in Hashes(k) : Write(Put([tab EXCEPT !.hash[k] = h], k, v))
    /\ IF loop = "running" /\ reads[k] # Nil
       THEN UNCHANGED <<loop, cursor, visited>>
       ELSE NoLoop

Clear ==
    /\ Write(Empty(ASize(tab), HashBits(tab), tab.hash))
    /\ NoLoop

(* lj_tab_reasize, which its callers only use to grow the array part. *)
Reasize(nasize) ==
    /\ nasize + 1 > ASize(tab)
    /\ Write(Resize(tab, nasize + 1, HashBits(tab)))
    /\ NoLoop

Begin ==
    /\ LOOPS
    /\ loop # "running"
    /\ loop' = "running" /\ cursor' = Nil /\ visited' = {}
    /\ UNCHANGED <<tab, reads>>

(* lj_tab_next: the next pair, the end, or "invalid key to next".  A loop   *)
(* that gets a key a second time has failed as well.                       *)
Step ==
    LET idx == KeyIndex(tab, cursor)
        rest == From(tab, idx)
    IN  /\ loop = "running"
        /\ IF idx # Null /\ rest # <<>>
           THEN /\ cursor' = rest[1]
                /\ visited' = visited \union {rest[1]}
                /\ loop' = IF rest[1] \in visited THEN "failed" ELSE loop
           ELSE /\ loop' = IF idx = Null THEN "failed" ELSE "over"
                /\ cursor' = Nil /\ visited' = {}
        /\ UNCHANGED <<tab, reads>>

Next ==
    \/ \E k \in Key, v \in Values \union {Nil} : Assign(k, v)
    \/ Clear
    \/ \E n \in ASIZES : Reasize(n)
    \/ Begin
    \/ Step

Spec == Init /\ [][Next]_vars

-----------------------------------------------------------------------------
(* Properties. *)

(* Every node and slot holds keys and values, the free pointer lies in the *)
(* node vector, and nothing is ever written to the one empty node that all *)
(* tables without a hash part share.                                       *)
TypeOK ==
    /\ DOMAIN tab.array = 0..(ASize(tab) - 1)
    /\ \A i \in DOMAIN tab.array : tab.array[i] \in Values \union {Nil}
    /\ tab.node \in [0..(HSize(tab) - 1) ->
         [key : Key \union {Nil}, val : Values \union {Nil},
          next : DOMAIN tab.node \union {Null}]]
    /\ tab.freetop \in 0..HSize(tab)
    /\ HSize(tab) = 1 => tab.node[0] = EmptyNode
    /\ reads = Reads(tab)
    /\ tab.hash \in [Key -> HASHES]
    /\ loop \in {"none", "running", "over", "failed"}
    /\ cursor \in Key \union {Nil}
    /\ visited \subseteq Key

(* The table behaves as the map the program thinks of: a lookup returns    *)
(* what was last stored, whatever keys collided, died, were collected or   *)
(* moved to another node or part since, and a traversal returns every      *)
(* entry that stays once.                                                  *)
Dict == INSTANCE LuaDict WITH map <- reads

ImplementsDict == Dict!Spec

(* The length of a table is a border: no element at 1 when it is 0, else   *)
(* an element there and none after it, even when the elements are spread   *)
(* over the array part and the hash part (lj_tab_len, tab_len_slow).       *)
LengthIsBorder ==
    LET n == Length(tab)
    IN  /\ n > 0 => Get(tab, n) # Nil
        /\ Get(tab, n + 1) = Nil
=============================================================================
