------------------------------ MODULE RinhaRun ------------------------------
(***************************************************************************)
(* What running a rinha program promises, as the meta interpreter defines  *)
(* it: a program whose interpretation is proper shows what it prints, all  *)
(* of it and only at the end; of any other program nothing is promised but *)
(* that a run that fails shows nothing.  Programs on which the compiler is *)
(* known to depart from the interpreter are not defined, and exempt from   *)
(* the first part.                                                         *)
(***************************************************************************)
EXTENDS Meta

CONSTANTS
  Programs,   \* the programs that may be run
  FUEL        \* bound on the steps of the interpretation

VARIABLES
  prog, printed, exit,
  defined    \* whether compiler and interpreter give the program one meaning

rinhaVars == <<prog, printed, exit, defined>>

Init == prog \in Programs /\ printed = <<>> /\ exit = "none" /\ defined = TRUE

(* The interpretation ends, with no error value and no Lua error on the    *)
(* way.                                                                    *)
Proper(meaning) == meaning.run = "going" /\ meaning.proper

Meaningful == defined' /\ Proper(Interpreted(prog, FUEL))

Succeed ==
  /\ exit = "none" /\ exit' = "ok"
  /\ defined' \in BOOLEAN
  /\ Meaningful => printed' = Interpreted(prog, FUEL).out
  /\ UNCHANGED prog

Fail ==
  /\ exit = "none" /\ exit' \in {"err", "aborted"}
  /\ defined' \in BOOLEAN
  /\ ~Meaningful
  /\ UNCHANGED <<prog, printed>>

Next == Succeed \/ Fail

Spec == Init /\ [][Next]_rinhaVars

=============================================================================
