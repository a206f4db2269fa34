------------------------------ MODULE LuaTokens -----------------------------
(***************************************************************************)
(* The Lua text the compiler writes, as a sequence of tokens.  A keyword,  *)
(* a punctuation mark or a name of the prelude is a one-word token; a      *)
(* temporary, a program variable and a literal carry their index, name or  *)
(* value; a "str" token is the characters between two quotes, before they  *)
(* are read (LuaLex).  White space is left out.                            *)
(***************************************************************************)
EXTENDS Integers, Sequences

Word == {"do", "end", "if", "then", "else", "local", "return", "function",
         "not", "and", "or", "true", "false", "nil",
         "=", "(", ")", "{", "}", "[1]", "[2]", ",",
         "+", "-", "*", "/", "%", "==", "~=", "<", ">", "<=", ">=",
         "__to_bit", "__floor", "__print", "__assert", "__new_str",
         "__ret", "__sentinel", "'wrong argument count'", "PRELUDE", "POSTLUDE", "TEMPS"}

(* Any string; "_" is spelled out because the provers do not know that a   *)
(* literal is in STRING.                                                   *)
Name == STRING \cup {"_"}

Token == {<<w>> : w \in Word} \cup ({"temp"} \X Nat) \cup ({"int"} \X Int)
                              \cup ({"var", "str"} \X Name)

Sym(w) == <<w>>

Temp(i) == <<"temp", i>>       \* __temp_i

VarName(x) == <<"var", x>>     \* var_x

Ret == Sym("__ret")

(* A run of one-word tokens.                                               *)
Text(words) == [i \in 1..Len(words) |-> Sym(words[i])]

(* The tokens an assignment or an operand position may name.               *)
IsTemp(t) == Len(t) = 2 /\ t[1] = "temp"

=============================================================================
