------------------------------ MODULE RinhaAst ------------------------------
(***************************************************************************)
(* The abstract syntax tree of a rinha program (src/src/ast.rs).           *)
(*                                                                         *)
(* A program is the sequence of its terms in postfix order: every term     *)
(* comes after its subterms, the last term is the whole program.  That is  *)
(* the order in which the recursive passes over the tree return, and it    *)
(* makes "a subterm" a smaller index, so no definition over the tree needs *)
(* recursion.  A term keeps, besides its kind and the data of its kind,    *)
(* the distances back to its immediate subterms, in source order.          *)
(*                                                                         *)
(* Source locations are left out: no pass reads them.                      *)
(***************************************************************************)
EXTENDS Integers, Sequences

BinaryOp == {"Add", "Sub", "Mul", "Div", "Rem", "Eq", "Neq",
             "Lt", "Gt", "Lte", "Gte", "And", "Or"}

LeafKind == {"Error", "Int", "Str", "Bool", "Var"}

Kind == LeafKind \cup {"Call", "Binary", "Function", "Let", "If",
                       "Print", "First", "Second", "Tuple"}

(* How many immediate subterms a term of each kind has.  A Call has its    *)
(* callee and then any number of arguments.                                *)
ArityOk(kind, arity) ==
  CASE kind \in LeafKind                                    -> arity = 0
    [] kind \in {"Function", "Print", "First", "Second"}    -> arity = 1
    [] kind \in {"Binary", "Let", "Tuple"}                  -> arity = 2
    [] kind = "If"                                          -> arity = 3
    [] OTHER                                                -> arity >= 1

(* The data of a term, by kind.                                            *)
PayloadOk(t) ==
  /\ t.kind = "Int"      => t.value \in Int
  /\ t.kind = "Bool"     => t.value \in BOOLEAN
  /\ t.kind = "Str"      => t.value \in STRING
  /\ t.kind = "Var"      => t.text \in STRING
  /\ t.kind = "Binary"   => t.op \in BinaryOp
  /\ t.kind = "Let"      => t.name \in STRING
  /\ t.kind = "Function" => t.parameters \in Seq(STRING)

(***************************************************************************)
(* Reading a program.                                                      *)
(***************************************************************************)
Terms(p) == 1..Len(p)

Root(p) == Len(p)

Kid(p, n, k) == n - p[n].back[k]

KidSlots(p, n) == 1..Len(p[n].back)

Kids(p, n) == {Kid(p, n, k) : k \in KidSlots(p, n)}

(* Call: the callee is the first subterm, the arguments are the others.    *)
Arguments(p, n) == [k \in 1..(Len(p[n].back) - 1) |-> Kid(p, n, k + 1)]

(***************************************************************************)
(* What the json file can hold.                                            *)
(***************************************************************************)
(* Every term but the root is a subterm of one term, in one place.         *)
WellFormed(p) ==
  /\ Len(p) \in Nat \ {0}
  /\ DOMAIN p = Terms(p)
  /\ \A n \in Terms(p) :
       /\ p[n].kind \in Kind
       /\ p[n].back \in Seq(1..(n-1))
       /\ ArityOk(p[n].kind, Len(p[n].back))
       /\ PayloadOk(p[n])
       /\ n # Root(p) => \E m \in Terms(p) : n \in Kids(p, m)
  /\ \A m, n \in Terms(p) : \A j \in KidSlots(p, m), k \in KidSlots(p, n) :
       Kid(p, m, j) = Kid(p, n, k) => m = n /\ j = k

=============================================================================
