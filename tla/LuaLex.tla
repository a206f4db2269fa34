------------------------------- MODULE LuaLex -------------------------------
(***************************************************************************)
(* What the lexer of LuaJIT (src/luajit/src/lj_lex.c) makes of the         *)
(* literals of the text.  The compiler writes the value of a string        *)
(* between quotes as it is, so the characters that mean something to       *)
(* lex_string change it, or end it early.                                  *)
(***************************************************************************)
EXTENDS LuaTokens

(* What no production of the grammar begins or goes on with.               *)
Garbled == Sym("garbled")

(* The characters that cannot be between the quotes of a literal.          *)
EndsLiteral == {"\"", "\n", "\r"}

(* What a backslash and the character c stand for.  The escapes of control *)
(* characters and of character codes (\a, \b, \v, \x, \u, \z, digits and   *)
(* an escaped line break) are left out: it is not defined of those.        *)
Escaped ==
  [c \in {"n", "t", "r", "f", "\\", "\"", "'"} |->
     CASE c = "n" -> "\n" [] c = "t" -> "\t" [] c = "r" -> "\r" [] c = "f" -> "\f"
       [] OTHER -> c]

LeftOut == {"a", "b", "v", "x", "u", "z", "\n", "\r",
            "0", "1", "2", "3", "4", "5", "6", "7", "8", "9"}

(* lex_string of a value and the quotes around it.  A literal that ends    *)
(* early leaves the rest of the value and a quote that opens another one;  *)
(* one that ends with a backslash goes on behind its quote.  Values are    *)
(* left out with which the text becomes Lua again after that.              *)
LexString(v) ==
  LET n == Len(v)
      Char(i) == SubSeq(v, i, i)
      Escape(i) == i < n /\ Char(i) = "\\"
      Failed == [ok |-> FALSE, value |-> ""]
      Then_(c, rest) == [rest EXCEPT !.value = c \o @]
      Read[i \in 1..(n + 1)] ==
        CASE i > n                     -> [ok |-> TRUE, value |-> ""]
          [] Char(i) \in EndsLiteral    -> Failed
          [] Char(i) = "\\" /\ i = n     -> Failed
          [] Escape(i) /\ Char(i + 1) \in DOMAIN Escaped ->
               Then_(Escaped[Char(i + 1)], Read[i + 2])
          [] Escape(i) /\ Char(i + 1) \notin DOMAIN Escaped \cup LeftOut -> Failed
          [] Char(i) # "\\"             -> Then_(Char(i), Read[i + 1])
  IN  IF Read[1].ok THEN <<"str", Read[1].value>> ELSE Garbled

(* The tokens the parser gets.                                             *)
Lexed(ts) ==
  [i \in DOMAIN ts |-> IF ts[i][1] = "str" THEN LexString(ts[i][2]) ELSE ts[i]] \o <<>>

(* A value that lex_string does not read back as it is.                    *)
Mangled(v) ==
  \E i \in 1..Len(v) : SubSeq(v, i, i) \in EndsLiteral \cup {"\\"}

=============================================================================
