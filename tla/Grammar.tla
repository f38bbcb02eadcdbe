------------------------------- MODULE Grammar -------------------------------
(***************************************************************************)
(* The grammar in the comment above read_fragment in bootstrap/lexer.c, as *)
(* the set of texts it derives, each with the fragments it stands for.     *)
(*                                                                         *)
(* The comment leaves open where a token ends: here two tokens do not      *)
(* touch, that is, a token is as long as it can be.                        *)
(***************************************************************************)
EXTENDS Builder

CONSTANTS
    TokenChars,     \* the characters of tokens
    GrammarLength   \* how long the texts are

Spaces(n) == [i \in 1 .. n |-> " "]

\* <space> separator <space>
Separated(c, n) == {Spaces(k) \o <<c>> \o Spaces(n - 1 - k) : k \in 0 .. n - 1}

Touch(s, t) == s # <<>> /\ t # <<>> /\ s[Len(s)] \in TokenChars /\ t[1] \in TokenChars

\* A sequence of one fragment is that fragment.
OneOrList(s) == IF Len(s) = 1 THEN s[1] ELSE List(s)

\* derived[n] has the texts of n characters for every rule.  chain2 and chain
\* are subsublist and sublist, and fragment2 and fragment with them.
derived[n \in 0 .. GrammarLength] ==
    LET token == IF n = 0 THEN {} ELSE {<<s, Token(s)>> : s \in [1 .. n -> TokenChars]}
        Bracketed(open, close, head) ==
            IF n < 2 THEN {}
            ELSE {<< <<open>> \o i[1] \o <<close>>, List(head \o i[2])>> : i \in derived[n - 2].items}
        fragment1 == token \union Bracketed("(", ")", <<>>)
                           \union Bracketed("{", "}", <<Keyword("jump")>>)
                           \union Bracketed("[", "]", <<Keyword("invoke")>>)
        chain2 == {<<x[1], <<x[2]>> >> : x \in fragment1} \union
            UNION {{<<c[1] \o s \o x[1], Append(c[2], x[2])>> :
                        c \in derived[i].chain2, s \in Separated(";", n - i - j), x \in derived[j].fragment1}
                   : i \in 1 .. n - 2, j \in 1 .. n - 2}
        fragment2 == {<<c[1], OneOrList(c[2])>> : c \in chain2}
        chain == {<<x[1], <<x[2]>> >> : x \in fragment2} \union
            UNION {{<<c[1] \o s \o x[1], Append(c[2], x[2])>> :
                        c \in derived[i].chain, s \in Separated(":", n - i - j), x \in derived[j].fragment2}
                   : i \in 1 .. n - 2, j \in 1 .. n - 2}
        fragment == {<<c[1], OneOrList(c[2])>> : c \in chain}
        UpTo(j) == IF j = n THEN fragment ELSE derived[j].fragment
        items == {<<Spaces(n), <<>> >>} \union
            UNION {{<<x[1][1] \o x[2][1] \o Spaces(n - k - j), Append(x[1][2], x[2][2])>> :
                        x \in {y \in derived[k].items \X UpTo(j) : ~Touch(y[1][1], y[2][1])}}
                   : <<k, j>> \in {y \in (0 .. n - 1) \X (1 .. n) : y[1] + y[2] <= n}}
    IN  [fragment1 |-> fragment1, chain2 |-> chain2, fragment2 |-> fragment2, chain |-> chain,
         fragment |-> fragment, items |-> items]

\* program = <space> (<fragment> <space>)*
Programs == UNION {derived[n].items : n \in 0 .. GrammarLength}

\* The texts of programs, and the texts that programs begin with.
ProgramTexts == {p[1] : p \in Programs}
Beginnings   == {SubSeq(t[1], 1, t[2]) : t \in {u \in ProgramTexts \X (0 .. GrammarLength) : u[2] <= Len(u[1])}}
=============================================================================
