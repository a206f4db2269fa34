------------------------------ MODULE Generate ------------------------------
(***************************************************************************)
(* The code generator: gen_prog in src/src/generate.rs.                    *)
(*                                                                         *)
(* generate_term and generate_free_term are recursive and append to one    *)
(* String.  The recursion is modelled by its continuation: todo is the     *)
(* sequence of calls and write!s that are still to happen, in order.       *)
(* Every step takes the first of them; a call is replaced by the calls and *)
(* write!s of the match arm it enters, so an arm of the source is one      *)
(* action here, and its text is the right-hand side of Enter.  The scopes  *)
(* (generate_scope, close_scope) write nothing in the source and are left  *)
(* out: a temporary is never declared where it is used.                    *)
(***************************************************************************)
EXTENDS Annotate, LuaTokens

CONSTANT MAX_DEPTH      \* from this depth on a term is compiled to statements

ASSUME MaxDepthPositive == MAX_DEPTH \in Nat \ {0}

VARIABLES
  todo,     \* the calls and writes still to happen
  code,     \* the Lua text written so far
  status    \* "annotating", "generating", or how gen_prog ended:
            \* "done", "error" (Err) or "panicked" (assert!)

genVars == <<todo, code, status>>

vars == <<annotateVars, genVars>>

(* generate_term(code, n, temps, bind): statements that leave the value of *)
(* n in bind, or return it.  temps is the first temporary they may use.    *)
Term(n, temps, bind) ==
  [do |-> "term", n |-> n, temps |-> temps, bind |-> bind]

(* generate_free_term(code, n): an expression.                             *)
Free(n) == [do |-> "free", n |-> n]

(* write!(code, text).                                                     *)
Write(text) == [do |-> "write", text |-> text]

(* for (i, b) in binds.iter(): the arguments ns into temp, temp + 1, ...   *)
TermLoop(ns, temps, temp) ==
  [do |-> "terms", ns |-> ns, temps |-> temps, temp |-> temp]

(* The loop that writes expressions with commas between them.              *)
FreeLoop(ns) == [do |-> "frees", ns |-> ns]

(* The end of a function literal, and the middle of an If.                 *)
FunctionEnd == Write(Text(<<"return">>) \o << Temp(0) >> \o Text(<<"end">>))

Else == Write(Text(<<"else">>))

Init ==
  /\ AnnotateInit
  /\ todo = <<>>
  /\ code = <<>>
  /\ status = "annotating"

AnnotateStep ==
  /\ status = "annotating"
  /\ AnnotateNext
  /\ UNCHANGED genVars

(* gen_prog after anotate: the prelude opens the block the program runs    *)
(* in, and declares the temporaries and var__ at its top.                  *)
BeginProgram ==
  /\ status = "annotating"
  /\ pass = "annotated"
  /\ status' = "generating"
  /\ todo' = << Write(Text(<<"PRELUDE", "do", "TEMPS", "local">>)
                        \o <<VarName("_")>>),
                Term(Root(prog), 0, Ret),
                Write(Text(<<"end", "POSTLUDE">>)) >>
  /\ UNCHANGED <<annotateVars, code>>

Doing(what) ==
  /\ status = "generating"
  /\ todo # <<>>
  /\ Head(todo).do = what

Enter(calls) ==
  /\ todo' = calls \o Tail(todo)
  /\ UNCHANGED <<annotateVars, code, status>>

WriteText ==
  /\ Doing("write")
  /\ code' = code \o Head(todo).text
  /\ todo' = Tail(todo)
  /\ UNCHANGED <<annotateVars, status>>

NextTerm ==
  /\ Doing("terms")
  /\ LET h == Head(todo)
     IN  Enter(IF h.ns = <<>> THEN <<>>
               ELSE << Term(Head(h.ns), h.temps, Temp(h.temp)),
                       TermLoop(Tail(h.ns), h.temps, h.temp + 1) >>)

NextFree ==
  /\ Doing("frees")
  /\ LET h == Head(todo)
     IN  Enter(CASE Len(h.ns) = 0 -> <<>>
                 [] Len(h.ns) = 1 -> << Free(Head(h.ns)) >>
                 [] OTHER -> << Free(Head(h.ns)), Write(Text(<<",">>)),
                                FreeLoop(Tail(h.ns)) >>)

Finish ==
  /\ status = "generating"
  /\ todo = <<>>
  /\ status' = "done"
  /\ UNCHANGED <<annotateVars, todo, code>>

-----------------------------------------------------------------------------
(* generate_free_term                                                      *)

(* assert!(!term.binds).  The release profile aborts on a panic.  The      *)
(* unreachable! arms of Let and If come after the assertion.               *)
FreePanics ==
  /\ Doing("free")
  /\ binds[Head(todo).n] \/ prog[Head(todo).n].kind \in {"Let", "If"}
  /\ status' = "panicked"
  /\ UNCHANGED <<annotateVars, todo, code>>

(* Err of an Error term leaves every caller through ?.                     *)
FreeError ==
  /\ Doing("free")
  /\ ~binds[Head(todo).n]
  /\ prog[Head(todo).n].kind = "Error"
  /\ status' = "error"
  /\ UNCHANGED <<annotateVars, todo, code>>

(* The first call of todo is generate_free_term on a term of these kinds   *)
(* and passes the assertion.                                               *)
FreeArm(kinds) ==
  /\ Doing("free")
  /\ ~binds[Head(todo).n]
  /\ prog[Head(todo).n].kind \in kinds

(* The value of a string is written between quotes as it is, whatever      *)
(* characters it has; what LuaJIT reads there is LexString of LuaLex.      *)
LeafText(t) ==
  CASE t.kind = "Int"  -> << <<"int", t.value>> >>
    [] t.kind = "Str"  -> Text(<<"__new_str", "(">>) \o << <<"str", t.value>> >>
                            \o Text(<<")">>)
    [] t.kind = "Bool" -> IF t.value THEN Text(<<"true">>) ELSE Text(<<"false">>)
    [] t.kind = "Var"  -> << VarName(t.text) >>

FreeLeaf ==
  /\ FreeArm({"Int", "Str", "Bool", "Var"})
  /\ Enter(<< Write(LeafText(prog[Head(todo).n])) >>)

FreeCall ==
  /\ FreeArm({"Call"})
  /\ LET n == Head(todo).n
     IN  Enter(<< Free(Kid(prog, n, 1)), Write(Text(<<"(">>)),
                  FreeLoop(Arguments(prog, n)), Write(Text(<<")">>)) >>)

(* The Lua token of an operator.                                           *)
LuaOp(op) ==
  CASE op = "Add" -> "+"   [] op = "Sub" -> "-"   [] op = "Mul" -> "*"
    [] op = "Div" -> "/"   [] op = "Rem" -> "%"   [] op = "Eq"  -> "=="
    [] op = "Neq" -> "~="  [] op = "Lt"  -> "<"   [] op = "Gt"  -> ">"
    [] op = "Lte" -> "<="  [] op = "Gte" -> ">="  [] op = "And" -> "and"
    [] op = "Or"  -> "or"

(* What generate_free_bin_op writes around lhs op rhs.                     *)
FreeOpening(op) ==
  CASE op \in {"Sub", "Mul"} -> Text(<<"__to_bit", "(">>)
    [] op = "Div"            -> Text(<<"__to_bit", "(", "__floor", "(",
                                       "__floor", "(">>)
    [] op \in {"And", "Or"}  -> Text(<<"not", "not", "(">>)
    [] OTHER                 -> <<>>

FreeClosing(op) ==
  CASE op \in {"Sub", "Mul", "And", "Or"} -> Text(<<")">>)
    [] op = "Div"                         -> Text(<<")", ")", ")">>)
    [] OTHER                              -> <<>>

(* The operands the other way round.                                       *)
FreeBinarySlip ==
  /\ FreeArm({"Binary"})
  /\ LET n  == Head(todo).n
         op == prog[n].op
     IN  Enter(<< Write(FreeOpening(op)), Free(Kid(prog, n, 2)),
                  Write(Text(<<LuaOp(op)>>)), Free(Kid(prog, n, 1)),
                  Write(FreeClosing(op)) >>)

FreeBinary ==
  /\ FreeArm({"Binary"})
  /\ LET n  == Head(todo).n
         op == prog[n].op
     IN  Enter(<< Write(FreeOpening(op)), Free(Kid(prog, n, 1)),
                  Write(Text(<<LuaOp(op)>>)), Free(Kid(prog, n, 2)),
                  Write(FreeClosing(op)) >>)

(* var_p, once per parameter, each followed by a comma.                    *)
ParameterText(ps) ==
  [i \in 1..(2 * Len(ps)) |->
     IF i % 2 = 1 THEN VarName(ps[(i + 1) \div 2]) ELSE Sym(",")]

(* A slip: only a function of several parameters checks.                   *)
ArityCheckSlip(ps) ==
  IF Len(ps) < 2 THEN <<>>
  ELSE Text(<<"__assert", "(">>) \o << VarName(ps[Len(ps)]) >>
         \o Text(<<"~=", "nil", "and", "__sentinel", "==", "nil", ",",
                   "'wrong argument count'", ")">>)

(* A function with parameters checks on entry that the last one is there   *)
(* and that nothing follows it.                                            *)
ArityCheck(ps) ==
  IF ps = <<>> THEN <<>>
  ELSE Text(<<"__assert", "(">>) \o << VarName(ps[Len(ps)]) >>
         \o Text(<<"~=", "nil", "and", "__sentinel", "==", "nil", ",",
                   "'wrong argument count'", ")">>)

FreeFunction ==
  /\ FreeArm({"Function"})
  /\ LET n  == Head(todo).n
         ps == prog[n].parameters
     IN  Enter(<< Write(Text(<<"function", "(">>) \o ParameterText(ps)
                          \o Text(<<"__sentinel", ")">>) \o ArityCheck(ps)),
                  Term(Kid(prog, n, 1), 1, Temp(0)),
                  FunctionEnd >>)

FreePrint ==
  /\ FreeArm({"Print"})
  /\ Enter(<< Write(Text(<<"__print", "(">>)),
              Free(Kid(prog, Head(todo).n, 1)), Write(Text(<<")">>)) >>)

Selector(kind) == IF kind = "First" THEN "[1]" ELSE "[2]"

FreeProjection ==
  /\ FreeArm({"First", "Second"})
  /\ LET n == Head(todo).n
     IN  Enter(<< Free(Kid(prog, n, 1)),
                  Write(Text(<<Selector(prog[n].kind)>>)) >>)

(* A table constructor without the parentheses that let [1] follow it.     *)
FreeTupleSlip ==
  /\ FreeArm({"Tuple"})
  /\ LET n == Head(todo).n
     IN  Enter(<< Write(Text(<<"{">>)), Free(Kid(prog, n, 1)),
                  Write(Text(<<",">>)), Free(Kid(prog, n, 2)),
                  Write(Text(<<"}">>)) >>)

FreeTuple ==
  /\ FreeArm({"Tuple"})
  /\ LET n == Head(todo).n
     IN  Enter(<< Write(Text(<<"(", "{">>)), Free(Kid(prog, n, 1)),
                  Write(Text(<<",">>)), Free(Kid(prog, n, 2)),
                  Write(Text(<<"}", ")">>)) >>)

FreeNext ==
  \/ FreePanics
  \/ FreeError
  \/ FreeLeaf
  \/ FreeCall
  \/ FreeBinary
  \/ FreeFunction
  \/ FreePrint
  \/ FreeProjection
  \/ FreeTuple

-----------------------------------------------------------------------------
(* generate_term                                                           *)

(* An expression that is shallow enough is written in place.               *)
InPlace(n) == ~binds[n] /\ depth[n] < MAX_DEPTH

(* A return without the do ... end that lets statements follow it.         *)
TermInPlaceSlip ==
  /\ Doing("term")
  /\ LET h == Head(todo)
     IN  /\ InPlace(h.n)
         /\ Enter(IF last[h.n]
                  THEN << Write(Text(<<"return">>)), Free(h.n) >>
                  ELSE << Write(<< h.bind, Sym("=") >>), Free(h.n) >>)

TermInPlace ==
  /\ Doing("term")
  /\ LET h == Head(todo)
     IN  /\ InPlace(h.n)
         /\ Enter(IF last[h.n]
                  THEN << Write(Text(<<"do", "return">>)), Free(h.n),
                          Write(Text(<<"end">>)) >>
                  ELSE << Write(<< h.bind, Sym("=") >>), Free(h.n) >>)

(* The first call of todo is generate_term on a term of these kinds that   *)
(* goes to the match.  A leaf never does: its depth is 0 and it binds      *)
(* nothing, so the leaf arms of the match have no action.                  *)
TermArm(kinds) ==
  /\ Doing("term")
  /\ ~InPlace(Head(todo).n)
  /\ prog[Head(todo).n].kind \in kinds

Least(S) == CHOOSE k \in S : \A j \in S : k <= j

(* last_binds: how many of the arguments go through a temporary.  The scan *)
(* from the right stops at the first argument that binds; it starts at the *)
(* last argument, so that one is never counted.                            *)
LastBinds(args) ==
  Least({Len(args) - 1} \cup
        {k \in 0..(Len(args) - 1) : \A j \in (k+1)..Len(args) : ~binds[args[j]]})

(* The temporaries first, first + 1, ... as leading arguments.             *)
TempArguments(first, count) ==
  [i \in 1..(2 * count) |->
     IF i % 2 = 1 THEN Temp(first + (i - 1) \div 2) ELSE Sym(",")]

(* bind = , or return for a call in tail position.                         *)
Deliver(n, bind) == IF last[n] THEN Text(<<"return">>) ELSE << bind, Sym("=") >>

TermCallBoundCallee ==
  /\ TermArm({"Call"})
  /\ LET h      == Head(todo)
         callee == Kid(prog, h.n, 1)
         args   == Arguments(prog, h.n)
         holder == Temp(h.temps + 1)
         temps  == h.temps + 2
         bound  == LastBinds(args)
     IN  /\ binds[callee]
         /\ Enter(<< Term(callee, h.temps + 1, holder) >> \o
                  IF args = <<>>
                  THEN << Write(Deliver(h.n, h.bind) \o << holder >>
                                  \o Text(<<"(", ")">>)) >>
                  ELSE << TermLoop(SubSeq(args, 1, bound), temps + bound, temps),
                          Write(Deliver(h.n, h.bind) \o << holder, Sym("(") >>
                                  \o TempArguments(temps, bound)),
                          FreeLoop(SubSeq(args, bound + 1, Len(args))),
                          Write(Text(<<")">>)) >>)

TermCallFreeCallee ==
  /\ TermArm({"Call"})
  /\ LET h      == Head(todo)
         callee == Kid(prog, h.n, 1)
         args   == Arguments(prog, h.n)
         bound  == LastBinds(args)
     IN  /\ ~binds[callee]
         /\ Enter(IF args = <<>>
                  THEN << Write(<< h.bind, Sym("=") >>), Free(callee),
                          Write(Text(<<"(", ")">>)) >>
                  ELSE << TermLoop(SubSeq(args, 1, bound), h.temps + bound, h.temps),
                          Write(<< h.bind, Sym("=") >>), Free(callee),
                          Write(Text(<<"(">>) \o TempArguments(h.temps, bound)),
                          FreeLoop(SubSeq(args, bound + 1, Len(args))),
                          Write(Text(<<")">>)) >>)

Arithmetic == {"Add", "Sub", "Mul", "Div"}

(* What generate_bin_op writes around the operands: Add is not wrapped.    *)
Opening(op) ==
  CASE op \in {"Sub", "Mul"} -> Text(<<"__to_bit", "(">>)
    [] op = "Div"            -> Text(<<"__to_bit", "(", "__floor", "(">>)
    [] OTHER                 -> <<>>

Closing(op) ==
  CASE op \in {"Sub", "Mul"} -> Text(<<")">>)
    [] op = "Div"            -> Text(<<")", ")">>)
    [] OTHER                 -> <<>>

(* lhs goes to the temporary temps.  An rhs that binds goes to temporary   *)
(* other, with the temporaries from fresh on for itself; any other rhs is  *)
(* written in place.                                                       *)
Operation(h, other, fresh) ==
  LET lhs == Temp(h.temps)
      rhs == Kid(prog, h.n, 2)
      op  == prog[h.n].op
  IN  << Term(Kid(prog, h.n, 1), h.temps + 1, lhs) >> \o
      IF binds[rhs]
      THEN << Term(rhs, fresh, Temp(other)),
              Write(<< h.bind, Sym("=") >> \o Opening(op)
                      \o << lhs, Sym(LuaOp(op)), Temp(other) >> \o Closing(op)) >>
      ELSE << Write(<< h.bind, Sym("=") >> \o Opening(op)
                      \o << lhs, Sym(LuaOp(op)) >>),
              Free(rhs), Write(Closing(op)) >>

(* The temporaries of generate_infix.                                      *)
TermArithmeticSlip ==
  /\ TermArm({"Binary"})
  /\ LET h == Head(todo)
     IN  /\ prog[h.n].op \in Arithmetic
         /\ Enter(Operation(h, h.temps, h.temps + 1))

TermArithmetic ==
  /\ TermArm({"Binary"})
  /\ LET h == Head(todo)
     IN  /\ prog[h.n].op \in Arithmetic
         /\ Enter(Operation(h, h.temps + 2, h.temps + 3))

(* generate_infix takes the same temporary for both operands.              *)
Infix(h) == Operation(h, h.temps, h.temps + 1)

TermInfix ==
  /\ TermArm({"Binary"})
  /\ prog[Head(todo).n].op \notin Arithmetic \cup {"And", "Or"}
  /\ Enter(Infix(Head(todo)))

(* not not ( ... ) goes around the whole statements of generate_infix.     *)
TermLogic ==
  /\ TermArm({"Binary"})
  /\ prog[Head(todo).n].op \in {"And", "Or"}
  /\ Enter(<< Write(Text(<<"not", "not", "(">>)) >> \o Infix(Head(todo))
             \o << Write(Text(<<")">>)) >>)

(* The parameter list of a deep function: no sentinel, no check.           *)
PlainParameters(ps) ==
  IF ps = <<>> THEN <<>> ELSE SubSeq(ParameterText(ps), 1, 2 * Len(ps) - 1)

TermFunction ==
  /\ TermArm({"Function"})
  /\ LET h == Head(todo)
     IN  Enter(<< Write(<< h.bind >> \o Text(<<"=", "function", "(">>)
                          \o PlainParameters(prog[h.n].parameters)
                          \o Text(<<")">>)),
                  Term(Kid(prog, h.n, 1), 1, Temp(0)),
                  FunctionEnd >>)

(* A slip: a name is declared where it is first bound only.                *)
TermLetSlip ==
  /\ TermArm({"Let"})
  /\ LET h    == Head(todo)
         name == VarName(prog[h.n].name)
         declared == \E i \in 2..Len(code) : code[i] = name /\ code[i - 1] = Sym("local")
     IN  Enter(<< Write(IF declared \/ prog[h.n].name = "_" THEN <<>>
                        ELSE << Sym("local"), name >>),
                  Term(Kid(prog, h.n, 1), h.temps + 1, name),
                  Term(Kid(prog, h.n, 2), h.temps + 1, h.bind) >>)

TermLet ==
  /\ TermArm({"Let"})
  /\ LET h    == Head(todo)
         name == VarName(prog[h.n].name)
     IN  Enter(<< Write(IF prog[h.n].name = "_" THEN <<>>
                        ELSE << Sym("local"), name >>),
                  Term(Kid(prog, h.n, 1), h.temps + 1, name),
                  Term(Kid(prog, h.n, 2), h.temps + 1, h.bind) >>)

TermIf ==
  /\ TermArm({"If"})
  /\ LET h     == Head(todo)
         cond  == Kid(prog, h.n, 1)
         temps == IF binds[cond] THEN h.temps + 1 ELSE h.temps
     IN  Enter((IF binds[cond]
                THEN << Term(cond, h.temps + 1, Temp(h.temps)),
                        Write(<< Sym("if"), Temp(h.temps), Sym("then") >>) >>
                ELSE << Write(Text(<<"if">>)), Free(cond),
                        Write(Text(<<"then">>)) >>)
               \o << Term(Kid(prog, h.n, 2), temps, h.bind),
                     Else,
                     Term(Kid(prog, h.n, 3), temps, h.bind),
                     Write(Text(<<"end">>)) >>)

(* The statement form of print does not mention bind.                      *)
TermPrint ==
  /\ TermArm({"Print"})
  /\ LET h == Head(todo)
     IN  Enter(<< Term(Kid(prog, h.n, 1), h.temps + 1, Temp(h.temps)),
                  Write(Text(<<"__print", "(">>) \o << Temp(h.temps) >>
                          \o Text(<<")">>)) >>)

(* The result stays in the temporary of the argument.                      *)
TermProjectionSlip ==
  /\ TermArm({"First", "Second"})
  /\ LET h == Head(todo)
     IN  Enter(<< Term(Kid(prog, h.n, 1), h.temps + 1, Temp(h.temps)),
                  Write(<< Temp(h.temps), Sym("="), Temp(h.temps),
                           Sym(Selector(prog[h.n].kind)) >>) >>)

TermProjection ==
  /\ TermArm({"First", "Second"})
  /\ LET h == Head(todo)
     IN  Enter(<< Term(Kid(prog, h.n, 1), h.temps + 1, Temp(h.temps)),
                  Write(<< h.bind, Sym("="), Temp(h.temps),
                           Sym(Selector(prog[h.n].kind)) >>) >>)

(* The second component may use the temporary that holds the first.        *)
TermTupleSlip ==
  /\ TermArm({"Tuple"})
  /\ LET h      == Head(todo)
         second == Kid(prog, h.n, 2)
     IN  /\ ~InPlace(second)
         /\ Enter(<< Term(Kid(prog, h.n, 1), h.temps + 1, Temp(h.temps)),
                     Term(second, h.temps, Temp(h.temps + 1)),
                     Write(<< h.bind >> \o Text(<<"=", "(", "{">>)
                             \o << Temp(h.temps), Sym(","), Temp(h.temps + 1) >>
                             \o Text(<<"}", ")">>)) >>)

TermTuple ==
  /\ TermArm({"Tuple"})
  /\ LET h      == Head(todo)
         second == Kid(prog, h.n, 2)
     IN  Enter(<< Term(Kid(prog, h.n, 1), h.temps + 1, Temp(h.temps)) >> \o
               IF ~InPlace(second)
               THEN << Term(second, h.temps + 2, Temp(h.temps + 1)),
                       Write(<< h.bind >> \o Text(<<"=", "(", "{">>)
                               \o << Temp(h.temps), Sym(","), Temp(h.temps + 1) >>
                               \o Text(<<"}", ")">>)) >>
               ELSE << Write(<< h.bind >> \o Text(<<"=", "{">>)
                               \o << Temp(h.temps), Sym(",") >>),
                       Free(second), Write(Text(<<"}">>)) >>)

TermNext ==
  \/ TermInPlace
  \/ TermCallBoundCallee
  \/ TermCallFreeCallee
  \/ TermArithmetic
  \/ TermInfix
  \/ TermLogic
  \/ TermFunction
  \/ TermLet
  \/ TermIf
  \/ TermPrint
  \/ TermProjection
  \/ TermTuple

-----------------------------------------------------------------------------
Stopped == status \in {"done", "error", "panicked"}

(* gen_prog has returned, or the process is gone.                          *)
Terminated == Stopped /\ UNCHANGED vars

Next ==
  \/ AnnotateStep
  \/ BeginProgram
  \/ WriteText
  \/ NextTerm
  \/ NextFree
  \/ Finish
  \/ FreeNext
  \/ TermNext
  \/ Terminated

(* The compiler is sequential: nothing can keep it from its next step.     *)
Spec == Init /\ [][Next]_vars /\ WF_vars(Next)

-----------------------------------------------------------------------------
(* Properties                                                              *)

Task ==
  [do : {"term"}, n : Terms(prog), temps : Nat, bind : Token]
    \cup [do : {"free"}, n : Terms(prog)]
    \cup [do : {"write"}, text : Seq(Token)]
    \cup [do : {"terms"}, ns : Seq(Terms(prog)), temps : Nat, temp : Nat]
    \cup [do : {"frees"}, ns : Seq(Terms(prog))]

(* The types of the variables: the marks of every term of the program, the *)
(* place of the annotation, what is still to be generated and what is.     *)
TypeOK ==
  /\ prog \in Programs
  /\ last \in [Terms(prog) -> BOOLEAN]
  /\ binds \in [Terms(prog) -> BOOLEAN]
  /\ depth \in [Terms(prog) -> Nat]
  /\ pass \in {"down", "up", "annotated"}
  /\ at \in Terms(prog)
  /\ slot \in Nat \ {0}
  /\ todo \in Seq(Task)
  /\ code \in Seq(Token)
  /\ status \in {"annotating", "generating", "done", "error", "panicked"}

(* The assertion of generate_free_term can fail for one reason only: the   *)
(* term is the last argument of a call and binds (the scan for last_binds  *)
(* never counts the last argument).  Everywhere else the binds marks keep  *)
(* statements away from expression positions.                              *)
PanicOnlyFromLastArgument ==
  status = "panicked" =>
    \E c \in Terms(prog) :
      /\ prog[c].kind = "Call"
      /\ Len(prog[c].back) > 1
      /\ Head(todo).n = Kid(prog, c, Len(prog[c].back))
      /\ binds[Head(todo).n]

(* The assertion of generate_free_term itself.                             *)
NeverPanics == status # "panicked"

(* The calls and writes i and j, i first, are in the same function body.   *)
SameFunction(i, j) == i < j /\ \A m \in i..(j-1) : todo[m] # FunctionEnd

(* The temporaries a text reads: every one it does not assign.             *)
TempsRead(text) ==
  { text[x][2] : x \in { y \in DOMAIN text :
      IsTemp(text[y]) /\ (y < Len(text) => text[y + 1] # Sym("=")) } }

Reads(task) == IF task.do = "write" THEN TempsRead(task.text) ELSE {}

(* The temporaries a call leaves a result in.                              *)
Assigns(task) ==
  CASE task.do = "term"  -> IF IsTemp(task.bind) THEN {task.bind[2]} ELSE {}
    [] task.do = "terms" -> task.temp .. (task.temp + Len(task.ns) - 1)
    [] OTHER             -> {}

(* The calls that use temporaries: an empty loop uses none.                *)
NeedsScratch(task) == task.do = "term" \/ (task.do = "terms" /\ task.ns # <<>>)

(* No call may use as scratch a temporary that holds a result which is     *)
(* read later: whatever is read after a call of generate_term and was not  *)
(* assigned since is below the call's temps.  A wrong offset in any arm    *)
(* shows only when operands nest in the right way.                         *)
ScratchAboveHeld ==
  \A i, j \in DOMAIN todo :
    (SameFunction(i, j) /\ NeedsScratch(todo[i])) =>
      \A k \in Reads(todo[j]) :
        k < todo[i].temps \/ \E m \in i..(j-1) : k \in Assigns(todo[m])

(* A result is not lost: between two calls that leave a result in the same *)
(* temporary, something reads it, or they are the branches of an If.       *)
ResultsKept ==
  \A i, j \in DOMAIN todo :
    SameFunction(i, j) =>
      \A k \in Assigns(todo[i]) \cap Assigns(todo[j]) :
        \E m \in (i+1)..(j-1) : todo[m] = Else \/ k \in Reads(todo[m])

(* An operator of generate_infix whose right operand binds.                *)
InfixWithBoundRhs ==
  \E n \in Terms(prog) : /\ prog[n].kind = "Binary"
                         /\ prog[n].op \notin Arithmetic
                         /\ binds[Kid(prog, n, 2)]

(* Every other program keeps its results.                                  *)
ResultsKeptOutsideInfix == InfixWithBoundRhs \/ ResultsKept

(* Returning early skips nothing: a term with the mark last leaves its     *)
(* value in the result of the enclosing function, and all that is still to *)
(* be generated of that function is the branches not taken.  The marks are *)
(* made by anotate, top down and before any code exists; do return ... end *)
(* is right only if the generator reaches the term as its last act.        *)
EarlyReturnSkipsNothing ==
  \A i \in DOMAIN todo :
    (todo[i].do = "term" /\ last[todo[i].n]) =>
      \E j \in (i+1)..Len(todo) :
        /\ todo[j] = FunctionEnd
        /\ todo[i].bind = Temp(0)
        /\ \A m \in (i+1)..(j-1) :
             \/ todo[m] = Else \/ todo[m] = Write(Text(<<"end">>))
             \/ todo[m].do = "term" /\ todo[m-1] = Else

(* The terms a pending call will generate.                                 *)
TermsOf(task) ==
  CASE task.do \in {"term", "free"}   -> {task.n}
    [] task.do \in {"terms", "frees"} -> {task.ns[x] : x \in DOMAIN task.ns}
    [] OTHER                          -> {}

(* Subterms are generated, and so evaluated, in source order; the callee   *)
(* of a call may come after its arguments.                                 *)
SourceOrder ==
  \A i, j \in DOMAIN todo : i < j =>
    \A a \in TermsOf(todo[i]), b \in TermsOf(todo[j]) :
      \A n \in Terms(prog) : \A x, y \in KidSlots(prog, n) :
        (a = Kid(prog, n, x) /\ b = Kid(prog, n, y)) =>
          x < y \/ (prog[n].kind = "Call" /\ y = 1)

(* Every arm of generate_term leaves the value of its term: the calls and  *)
(* writes it is replaced by assign bind or return, in both branches of an  *)
(* If.                                                                     *)
Leaves(task, bind) ==
  CASE task.do = "term"  -> task.bind = bind
    [] task.do = "write" -> \E x \in DOMAIN task.text :
                              \/ task.text[x] = Sym("return")
                              \/ /\ task.text[x] = bind
                                 /\ x < Len(task.text)
                                 /\ task.text[x + 1] = Sym("=")
    [] OTHER             -> FALSE

ValueLeft(h, calls) ==
  /\ \E m \in DOMAIN calls : Leaves(calls[m], h.bind)
  /\ \A e \in DOMAIN calls : calls[e] = Else =>
       /\ \E m \in 1..(e-1) : Leaves(calls[m], h.bind)
       /\ \E m \in (e+1)..Len(calls) : Leaves(calls[m], h.bind)

Entered == SubSeq(todo', 1, Len(todo') - Len(todo) + 1)

LeavesValue(kinds) ==
  (Doing("term") /\ prog[Head(todo).n].kind \in kinds)
    => ValueLeft(Head(todo), Entered)

(* The statement form of print drops the value that the expression form    *)
(* (and __print of the prelude) returns; all the others leave it.          *)
ValueLeftOutsidePrint == [][LeavesValue(Kind \ {"Print"})]_vars

PrintLeavesValue == [][LeavesValue({"Print"})]_vars

(* gen_prog returns, or the process is gone.                               *)
Termination == <>Stopped

=============================================================================
