------------------------------- MODULE Runner -------------------------------
(***************************************************************************)
(* The whole program: src/src/main.rs compiles a file (Generate), has      *)
(* LuaJIT load and run the text (LuaParse, LuaCompile, LuaVM, through      *)
(* src/src/luajit.rs), and prints the string that the text returns.        *)
(***************************************************************************)
EXTENDS GeneratedLua, LuaCompile, LuaShow, LuaVM
LOCAL SE == INSTANCE SequencesExt
LOCAL INSTANCE TLC

CONSTANT FUEL      \* bound on the interpretation the runs are compared with

VARIABLES
  printed,   \* standard output of the process
  exit       \* "none", "ok", "err" (main returns Err) or "aborted"

allVars == <<vars, runVars, printed, exit>>

RunnerInit ==
  /\ Init
  /\ RunInit
  /\ printed = <<>>
  /\ exit = "none"

Compile ==
  /\ exit = "none"
  /\ Next /\ ~Stopped
  /\ UNCHANGED <<runVars, printed, exit>>

(* generate(path)? is Err, or the process is aborted by a panic.           *)
CompileFails ==
  /\ exit = "none"
  /\ status \in {"error", "panicked"}
  /\ exit' = IF status = "error" THEN "err" ELSE "aborted"
  /\ UNCHANGED <<vars, runVars, printed>>

Loading == exit = "none" /\ status = "done" /\ outcome = "unloaded"
Running == exit = "none" /\ outcome = "running"

(* luaL_dostring: a text that is not Lua or exceeds a limit is an error    *)
(* before anything runs.                                                   *)
LoadChunk ==
  /\ Loading
  /\ IF Chunk.ok THEN StartRun(LoadString(Chunk.tree)) ELSE UNCHANGED runVars
  /\ exit' = IF Chunk.ok /\ outcome' = "running" THEN exit ELSE "err"
  /\ UNCHANGED <<vars, printed>>

Run ==
  /\ Running
  /\ RunNext
  /\ UNCHANGED <<vars, printed, exit>>

(* run gives Ok of the string on the stack, or Err of the message.         *)
FinishRunSlip ==
  /\ exit = "none"
  /\ outcome \in {"returned", "failed"}
  /\ exit' = IF outcome = "returned" THEN "ok" ELSE "err"
  /\ printed' = out
  /\ UNCHANGED <<vars, runVars>>

FinishRun ==
  /\ exit = "none"
  /\ outcome \in {"returned", "failed"}
  /\ IF outcome = "returned"
     THEN exit' = "ok" /\ printed' = out
     ELSE exit' = "err" /\ UNCHANGED printed
  /\ UNCHANGED <<vars, runVars>>

Exited == exit # "none" /\ UNCHANGED allVars

RunnerNext ==
  \/ Compile \/ CompileFails \/ LoadChunk \/ Run \/ FinishRun \/ Exited

RunnerSpec == RunnerInit /\ [][RunnerNext]_allVars

-----------------------------------------------------------------------------
(* Properties                                                              *)

(* The compiler of LuaJIT has read a text that is Lua, and nothing was run.*)
JustLoaded == outcome = "refused" \/ JustStarted

(* What is known where two ways meet.                                      *)
Meet(s, t) ==
  [w    |-> {r \in s.w : r \in t.w},
   held |-> {h \in s.held \cup t.held : TRUE},
   open |-> {r \in s.open : r \in t.open}]

(* The facts about the code of a function, in one pass over it: no jump    *)
(* goes back.  Nothing is followed from what is not safe.                  *)
FlowIn(c, key) ==
  LET Known(flow, pc) == pc \in DOMAIN flow /\ Safe(c, key, pc, flow[pc])
      Join(flow, e) == (e[1] :> Meet(e[2], IF e[1] \in DOMAIN flow THEN flow[e[1]] ELSE e[2])) @@ flow
      Follow(flow, pc) ==
        IF Known(flow, pc)
        THEN SE!FoldLeft(Join, flow, SE!SetToSeq(Edges(c, key, pc, flow[pc])))
        ELSE flow
  IN  SE!FoldLeft(Follow, Join(<<>>, <<2, AtEntry(c.protos[key])>>),
                  [pc \in DOMAIN c.protos[key].code |-> pc])

(* The upvalues of a prototype that are declared immutable where a closure *)
(* of it is made, or are such upvalues of the function that makes it.      *)
RECURSIVE FrozenIn(_, _)
FrozenIn(c, key) ==
  LET uvs == c.protos[key].uvs
  IN  {i \in DOMAIN uvs : IF uvs[i].local THEN uvs[i].immutable
                          ELSE uvs[i].at \in FrozenIn(c, SE!Front(key))}

(* TLC is to compute the table at once, not each entry when it is used.    *)
Analysis(c) ==
  LET Facts(key) == [flow |-> FlowIn(c, key), frozen |-> FrozenIn(c, key)]
  IN  SE!FoldLeft(LAMBDA F, key : (key :> Facts(key)) @@ F, <<>>, SE!SetToSeq(DOMAIN c.protos))

(* The assertions of lj_parse.c, which only debug builds compile, hold     *)
(* whatever is generated: registers are freed in order, every scope begins *)
(* and every statement ends with all registers but those of variables      *)
(* free, and operators get operands and jumps of the form they expect.     *)
AssertionsHold == outcome = "running" => chunk.asserted

(* Term m is n or in it: the terms of a subterm end at its index.          *)
RECURSIVE Subtree(_, _)
Subtree(p, n) == {n} \cup UNION { Subtree(p, c) : c \in Kids(p, n) }

Contains(n, kinds) == \E m \in Subtree(prog, n) : prog[m].kind \in kinds

(* Terms written with temporaries of their own.                            *)
UsesTemps(n) ==
  prog[n].kind \in {"Binary", "Tuple", "Call", "Print", "First", "Second"} /\ ~InPlace(n)

(* A temporary holds a result while a call is evaluated: the callee has    *)
(* the same temporaries, and overwrites it if it uses that one.            *)
HeldAcrossCall ==
  /\ \E n \in Terms(prog) :
       /\ prog[n].kind \in {"Binary", "Tuple", "Call"} /\ UsesTemps(n)
       /\ \E k \in KidSlots(prog, n) : k > 1 /\ Contains(Kid(prog, n, k), {"Call"})
  /\ \E f \in Terms(prog) :
       prog[f].kind = "Function" /\ \E n \in Subtree(prog, f) : UsesTemps(n)

BindersOf(p) ==
  UNION { CASE p[n].kind = "Let"      -> {<<n, p[n].name>>}
            [] p[n].kind = "Function" -> {<<n, p[n].parameters[i]>> :
                                            i \in DOMAIN p[n].parameters}
            [] OTHER                  -> {} : n \in Terms(p) }

BindsTwice == \E b, c \in BindersOf(prog) : b # c /\ b[2] = c[2] /\ b[2] # "_"

(* The terms whose text is a block of its own; a let is not one.           *)
BlockTerms ==
  {Root(prog)}
    \cup {Kid(prog, f, 1) : f \in {m \in Terms(prog) : prog[m].kind = "Function"}}
    \cup UNION {{Kid(prog, i, 2), Kid(prog, i, 3)} :
                  i \in {m \in Terms(prog) : prog[m].kind = "If"}}

In(n, m) == n \in Subtree(prog, m)

(* Every block that c is in, n is in.                                      *)
SharesBlock(c, n) == \A r \in BlockTerms : In(c, r) => In(n, r)

(* The text of n is behind that of c: n comes later, or is in the callee   *)
(* of a call that c is in an argument of.                                  *)
TextBehind(c, n) ==
  /\ ~In(n, c)
  /\ n > c \/ \E m \in Terms(prog) : /\ prog[m].kind = "Call"
                                      /\ In(n, Kid(prog, m, 1))
                                      /\ ~In(c, Kid(prog, m, 1)) /\ In(c, m)

Lets(x) == {c \in Terms(prog) : prog[c].kind = "Let" /\ prog[c].name = x}

(* The read n is in the scope of a binding that let c is in too, or in     *)
(* none, but not in that of c, whose local is declared nearer and still    *)
(* there, as no do block is written.                                       *)
Hides(c, n) ==
  /\ SharesBlock(c, n) /\ TextBehind(c, n)
  /\ \A b \in BindersOf(prog) : b[2] = prog[n].text /\ In(n, b[1]) => In(c, b[1])

(* Let b leaves its value in a local of its name, which is another one     *)
(* where the value ends with let c of the same name.                       *)
Captures(c, b) ==
  /\ In(c, Kid(prog, b, 1))
  /\ \A f \in Terms(prog) : prog[f].kind = "Function" /\ In(c, f) => In(b, f)

(* A name means another binding in the text than in the source.  The name  *)
(* "_" is one variable of the whole text.                                  *)
NameMistaken ==
  \E n \in Terms(prog) :
    \/ /\ prog[n].kind = "Var"
       /\ prog[n].text = "_" \/ \E c \in Lets(prog[n].text) : Hides(c, n)
    \/ /\ prog[n].kind = "Let" /\ prog[n].name # "_"
       /\ \E c \in Lets(prog[n].name) : Captures(c, n)

(* The statement form of print does not leave its value, which matters     *)
(* unless it is the program or bound to a name that is not read.           *)
PrintsStatement ==
  \E n \in Terms(prog) \ {Root(prog)} :
    /\ prog[n].kind = "Print" /\ ~InPlace(n)
    /\ ~\E m \in Terms(prog) : /\ prog[m].kind = "Let" /\ prog[m].name = "_"
                              /\ Kid(prog, m, 1) = n

(* meta-eval evaluates the arguments of a call from the last to the first, *)
(* and the callee after them.                                              *)
OrderShows ==
  \E n \in Terms(prog) : /\ prog[n].kind = "Call"
                         /\ \E k, l \in KidSlots(prog, n) :
                              /\ k < l
                              /\ Contains(Kid(prog, n, k), {"Print", "Call"})
                              /\ Contains(Kid(prog, n, l), {"Print", "Call"})

-----------------------------------------------------------------------------
(* When a text that is Lua is too much for LuaJIT                          *)

RECURSIVE UsedIn(_, _), Used(_, _), MostLocals(_, _), FunctionSizes(_)

(* The names that statements use and do not declare.                       *)
UsedIn(stmts, bound) ==
  IF stmts = <<>> THEN {}
  ELSE LET s == Head(stmts)
       IN  Used(s, bound) \cup
             UsedIn(Tail(stmts), IF s.tag = "local" THEN bound \cup {s.val} ELSE bound)

Used(node, bound) ==
  LET kids == node.kids
      all == UNION {Used(kids[i], bound) : i \in DOMAIN kids}
  IN  CASE node.tag = "name"     -> {node.val} \ bound
        [] node.tag = "assign"   -> ({node.val} \ bound) \cup all
        [] node.tag = "function" -> UsedIn(kids, bound \cup {node.val[i] : i \in DOMAIN node.val})
        [] node.tag = "do"       -> UsedIn(kids, bound)
        [] node.tag = "if"       -> Used(kids[1], bound) \cup UsedIn(kids[2], bound)
                                      \cup UsedIn(kids[3], bound)
        [] OTHER                 -> all

(* The most locals visible at once, n of them when the statements begin.   *)
MostLocals(stmts, n) ==
  LET s == Head(stmts)
      declared == CASE s = Node("given", Sym("PRELUDE"), <<>>) -> Len(PreludeLocals) + 1
                    [] s = Node("given", Sym("TEMPS"), <<>>)   -> N_TEMPS
                    [] OTHER -> IF s.tag = "local" THEN 1 ELSE 0
      blocks == CASE s.tag = "do" -> << s.kids >>
                  [] s.tag = "if" -> Tail(s.kids)
                  [] OTHER        -> <<>>
      counts == {MostLocals(blocks[i], n) : i \in DOMAIN blocks}
                  \cup {MostLocals(Tail(stmts), n + declared)}
  IN  IF stmts = <<>> THEN n ELSE SE!Max(counts)

(* Names that are not declared anywhere are globals.                       *)
Declared ==
  {Sym(x) : x \in SE!ToSet(PreludeLocals)} \cup {Ret} \cup {Temp(i - 1) : i \in 1..N_TEMPS}
    \cup {Sym("__sentinel")} \cup {VarName(b[2]) : b \in BindersOf(prog)}

(* How many locals and upvalues each function in a tree or a block has.    *)
FunctionSizes(nodes) ==
  UNION { LET node == nodes[i]
              parts == IF node.tag = "if"
                       THEN << node.kids[1] >> \o node.kids[2] \o node.kids[3]
                       ELSE node.kids
              upvalues == UsedIn(node.kids, SE!ToSet(node.val)) \cap Declared
          IN  FunctionSizes(parts) \cup
                IF node.tag = "function"
                THEN {<<MostLocals(node.kids, Len(node.val)), Cardinality(upvalues)>>}
                ELSE {}
          : i \in DOMAIN nodes }

RECURSIVE Nesting(_)

(* How many expressions and blocks are open within a statement or an       *)
(* expression at once.  What is before a suffix or an operator belongs to  *)
(* the same expression, everything else in it is an expression of its own. *)
Nesting(node) ==
  LET kids == node.kids
      prefixed == node.tag \in {"index", "call", "binop", "callstat"}
      inside == CASE prefixed          -> Tail(kids)
                  [] node.tag = "if"   -> << kids[1] >> \o kids[2] \o kids[3]
                  [] OTHER             -> kids
      opened == CASE node.tag = "given" /\ node.val = Sym("POSTLUDE")  -> 2
                  [] node.tag \in {"do", "if", "function", "index"}     -> 1
                  [] OTHER -> 0
  IN  SE!Max({opened} \cup {1 + Nesting(inside[i]) : i \in DOMAIN inside}
               \cup (IF prefixed THEN {Nesting(kids[1])} ELSE {}))

ExceedsLimits ==
  \/ Nesting(Node("do", Sym("do"), Chunk.tree)) >= MAX_XLEVEL
  \/ MostLocals(Chunk.tree, 0) > MAX_LOCVAR
  \/ \E size \in FunctionSizes(Chunk.tree) : size[1] > MAX_LOCVAR \/ size[2] > MAX_UPVAL

(* A text that is Lua is loaded unless it nests too deep, declares or uses *)
(* too many variables, each of which counts once however often it is used, *)
(* or meets one of the limits on registers and on the lengths of jumps,    *)
(* which are the compiler's own.  The 2^16 constants of a function and the *)
(* 2^26 instructions of a text are not counted.                            *)
LoadedUnlessLimits ==
  JustLoaded /\ ~BindsTwice =>
    (outcome = "refused" <=> ExceedsLimits \/ {"slots", "jumps"} \cap chunk.limits # {})

-----------------------------------------------------------------------------
(* Everything that is known to make a run differ from the interpretation.  *)
KnownCause ==
  \/ status = "panicked"
  \/ SyntaxErrorCause \/ LooseOperand
  \/ InfixWithBoundRhs \/ PrintsStatement
  \/ HeldAcrossCall \/ NameMistaken \/ OrderShows
  \/ outcome = "refused"

Rinha == INSTANCE RinhaRun WITH defined <- exit = "none" \/ ~KnownCause

(* Compiling and running shows what interpreting shows: everything that is *)
(* printed, only at the end, and nothing of a run that fails.              *)
ImplementsRinha == Rinha!Spec

(* The same of every program, whatever causes apply.                       *)
AgreesWithMeta ==
  LET promise == Rinha!Interpreted(prog, FUEL)
  IN  exit # "none" /\ Rinha!Proper(promise) => exit = "ok" /\ printed = promise.out

(* Where control gets from an instruction over jumps.                      *)
RECURSIVE Behind(_)
Behind(pc) == IF Code[pc].op \in {"JMP", "UCLO"} THEN Behind(Code[pc].d) ELSE pc

(* A call of a function whose value the running function only gives back:  *)
(* it keeps its frame for nothing.                                         *)
KeepsFrame ==
  /\ Now({"CALL", "CALLM"}) /\ Callee[1] = "closure"
  /\ LET next == Code[Top.pc + 1]
         load == Behind(Top.pc + 2)
         give == Behind(load + 1)
     IN  \/ next.op = "RET1" /\ next.a = This.a
         \/ /\ next.op = "USET" /\ next.d = Reg(This.a)
            /\ Code[load].op = "UGET" /\ Code[load].d = next.a
            /\ Code[give].op = "RET1" /\ Code[give].a = Code[load].a

(* A loop written as tail calls runs in one frame, but for calls that      *)
(* generate_term does not write in place and whose callee is free.         *)
TailCallsReuseFrame ==
  KeepsFrame => \E n \in Terms(prog) : /\ prog[n].kind = "Call"
                                       /\ last[n] /\ ~InPlace(n)
                                       /\ ~binds[Kid(prog, n, 1)]

=============================================================================
