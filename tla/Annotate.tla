------------------------------ MODULE Annotate ------------------------------
(***************************************************************************)
(* The first pass of the compiler: anotate in src/src/generate.rs.         *)
(*                                                                         *)
(* anotate(term, last, depth) is recursive.  On the way down it stores     *)
(* "last" (the term is in tail position of a function body) and chooses    *)
(* the argument it passes to each subterm; on the way up it folds the      *)
(* results of the subterms into "binds" (the term has to be compiled to    *)
(* statements) and "depth".  The two halves write different fields and     *)
(* neither reads what the other writes, so the module runs the way down    *)
(* first, from the root to the leaves, and then the way up, in the order   *)
(* in which the recursive calls return.  gen_prog passes depth 0 and no    *)
(* arm changes it, so the parameter depth is the constant 0.               *)
(***************************************************************************)
EXTENDS RinhaAst

CONSTANT Programs    \* the syntax trees that may be read from the json file

ASSUME ProgramsAreTrees == \A p \in Programs : WellFormed(p)

VARIABLES
  prog,     \* the program being compiled; never changes
  last,     \* Term::last of every term
  binds,    \* Term::binds of every term
  depth,    \* Term::depth of every term
  pass,     \* "down", "up" or "annotated"
  at,       \* the term the pass is at
  slot      \* way up: the next subterm of at whose result is folded in

annotateVars == <<prog, last, binds, depth, pass, at, slot>>

(* A definition whose name ends in a slip is never used by the model: it is *)
(* the definition after it with a plausible mistake, and shows which of    *)
(* the properties would notice.  Here: the value of a Let is called with   *)
(* last as well.                                                           *)
PassedLastSlip(n, k) ==
  CASE prog[n].kind = "Function"         -> TRUE
    [] prog[n].kind = "If" /\ k \in 2..3 -> last[n]
    [] prog[n].kind = "Let"              -> last[n]
    [] OTHER                             -> FALSE

(* The branches of an If are called with last = false.                     *)
PassedLastIfSlip(n, k) ==
  CASE prog[n].kind = "Function"         -> TRUE
    [] prog[n].kind = "Let" /\ k = 2     -> last[n]
    [] OTHER                             -> FALSE

(* The value of last that a term passes to its subterm k.                  *)
PassedLast(n, k) ==
  CASE prog[n].kind = "Function"         -> TRUE
    [] prog[n].kind = "If" /\ k \in 2..3 -> last[n]
    [] prog[n].kind = "Let" /\ k = 2     -> last[n]
    [] OTHER                             -> FALSE

AnnotateInit ==
  /\ prog \in Programs
  /\ last = [n \in Terms(prog) |-> FALSE]
  /\ binds = [n \in Terms(prog) |-> FALSE]
  /\ depth = [n \in Terms(prog) |-> 0]
  /\ pass = "down"
  /\ at = Root(prog)
  /\ slot = 1

(* term.last = last, and the value of last each subterm is called with.    *)
(* The Let arm takes its own mark back.                                    *)
Descend ==
  /\ pass = "down"
  /\ last' = [n \in Terms(prog) |->
                IF n = at THEN last[at] /\ prog[at].kind # "Let"
                ELSE IF n \in Kids(prog, at)
                     THEN \E k \in KidSlots(prog, at) :
                            n = Kid(prog, at, k) /\ PassedLast(at, k)
                     ELSE last[n]]
  /\ IF at > 1 THEN at' = at - 1 /\ pass' = "down"
               ELSE at' = 1      /\ pass' = "up"
  /\ UNCHANGED <<prog, binds, depth, slot>>

Larger(a, b) == IF a >= b THEN a ELSE b

(* The kinds whose binds and depth are folded from their subterms.         *)
Folding == {"Call", "Binary", "Print", "First", "Second", "Tuple"}

(* The marks of a subterm replace those of the subterms before it.         *)
FoldSubtermSlip ==
  /\ pass = "up"
  /\ prog[at].kind \in Folding
  /\ slot \in KidSlots(prog, at)
  /\ LET c == Kid(prog, at, slot)
     IN  /\ binds' = [binds EXCEPT ![at] = binds[c]]
         /\ depth' = [depth EXCEPT ![at] = depth[c] + 1]
  /\ slot' = slot + 1
  /\ UNCHANGED <<prog, last, pass, at>>

(* The loop over the arguments does not advance.                           *)
FoldSubtermLoopSlip ==
  /\ pass = "up"
  /\ prog[at].kind \in Folding
  /\ slot \in KidSlots(prog, at)
  /\ LET c == Kid(prog, at, slot)
     IN  /\ binds' = [binds EXCEPT ![at] = binds[c] \/ @]
         /\ depth' = [depth EXCEPT ![at] = Larger(@, depth[c] + 1)]
  /\ UNCHANGED <<prog, last, pass, at, slot>>

(* One anotate(subterm) || term.binds, and its share of term.depth.        *)
FoldSubterm ==
  /\ pass = "up"
  /\ prog[at].kind \in Folding
  /\ slot \in KidSlots(prog, at)
  /\ LET c == Kid(prog, at, slot)
     IN  /\ binds' = [binds EXCEPT ![at] = binds[c] \/ @]
         /\ depth' = [depth EXCEPT ![at] = Larger(@, depth[c] + 1)]
  /\ slot' = slot + 1
  /\ UNCHANGED <<prog, last, pass, at>>

(* The return from the root is taken for the return from a subterm.        *)
LeaveToSlip(n) ==
  /\ slot' = 1
  /\ IF n <= Len(prog) + 1 THEN at' = n /\ pass' = "up"
                           ELSE at' = Root(prog) /\ pass' = "annotated"

(* anotate returns from a term.                                            *)
LeaveTo(n) ==
  /\ slot' = 1
  /\ IF n <= Len(prog) THEN at' = n /\ pass' = "up"
                       ELSE at' = Root(prog) /\ pass' = "annotated"

ReturnFolded ==
  /\ pass = "up"
  /\ prog[at].kind \in Folding
  /\ slot \notin KidSlots(prog, at)
  /\ LeaveTo(at + 1)
  /\ UNCHANGED <<prog, last, binds, depth>>

(* The arms that do not fold: a leaf, a function literal (its body starts  *)
(* afresh, but its depth is the depth of the body) and the two statements. *)
ReturnLeaf ==
  /\ pass = "up"
  /\ prog[at].kind \in LeafKind
  /\ binds' = [binds EXCEPT ![at] = FALSE]
  /\ depth' = [depth EXCEPT ![at] = 0]
  /\ LeaveTo(at + 1)
  /\ UNCHANGED <<prog, last>>

ReturnFunction ==
  /\ pass = "up"
  /\ prog[at].kind = "Function"
  /\ binds' = [binds EXCEPT ![at] = FALSE]
  /\ depth' = [depth EXCEPT ![at] = depth[Kid(prog, at, 1)]]
  /\ LeaveTo(at + 1)
  /\ UNCHANGED <<prog, last>>

ReturnStatement ==
  /\ pass = "up"
  /\ prog[at].kind \in {"If", "Let"}
  /\ binds' = [binds EXCEPT ![at] = TRUE]
  /\ depth' = [depth EXCEPT ![at] = 0]
  /\ LeaveTo(at + 1)
  /\ UNCHANGED <<prog, last>>

AnnotateNext ==
  \/ Descend
  \/ FoldSubterm
  \/ ReturnFolded
  \/ ReturnLeaf
  \/ ReturnFunction
  \/ ReturnStatement

=============================================================================
