-------------------------------- MODULE Lexer --------------------------------
(***************************************************************************)
(* read_expressions of bootstrap/compile.c: the text of a file is read by  *)
(* the mutually recursive functions of bootstrap/lexer.c, and every        *)
(* fragment is built into an expression before the next one is read.       *)
(*                                                                         *)
(* The stack of C is the variable stack: one frame for every call of       *)
(* read_fragment, read_fragment2 or read_list that has not returned, with  *)
(* the list sexprs it has so far.                                          *)
(***************************************************************************)
EXTENDS Grammar, SequencesExt

CONSTANTS
    Texts,     \* files: sequences of characters
    Fragments  \* fragments that are printed and read again

VARIABLES
    text,    \* the file
    pos,     \* how many characters are read
    stack,   \* the calls that have not returned, the innermost last
    control, \* what happens next: "call" of read_fragment1, "return" of value
             \* to the innermost call, "list" or "program" for the loops of
             \* read_list and read_expressions, or how it all ended
    value,   \* what was returned last
    printed, \* history: the fragment whose printed form the file is, if any
    frags,   \* history: the fragments read
    exprs    \* the expressions built

vars == <<text, pos, stack, control, value, printed, frags, exprs>>

Space    == " "
Openings == {"(", "{", "["}
Specials == {Space, "(", ")", "{", "}", "[", "]", ":", ";"}

\* Where read_whitespace leaves pos.
read_whitespace(from) ==
    LET upto[p \in 0 .. Len(text)] ==
            IF p < Len(text) /\ text[p + 1] = Space THEN upto[p + 1] ELSE p
    IN  upto[from]

\* Where the token that starts at from ends.
read_token(from) ==
    LET upto[p \in 0 .. Len(text)] ==
            IF p < Len(text) /\ text[p + 1] \notin Specials THEN upto[p + 1] ELSE p
    IN  upto[from]

Frame(function, sexprs, delimiter) ==
    [function |-> function, sexprs |-> sexprs, delimiter |-> delimiter]

\* read_fragment calls read_fragment2, which calls read_fragment1.
CallFragment2(s) == Append(s, Frame("read_fragment2", <<>>, ""))
CallFragment(s)  == CallFragment2(Append(s, Frame("read_fragment", <<>>, "")))

\* What print_fragment writes, for a fragment without variables.
RECURSIVE print_fragment(_)
print_fragment(d) ==
    IF is_token(d) THEN d.token
    ELSE <<"(">> \o FlattenSeq([i \in DOMAIN d.list |-> Append(print_fragment(d.list[i]), Space)]) \o <<")">>

Init ==
    /\ \/ text \in Texts /\ printed = <<>>
       \/ \E d \in Fragments : text = print_fragment(d) /\ printed = <<d>>
    /\ pos = 0
    /\ stack = <<>>
    /\ control = "program"
    /\ value = List(<<>>)
    /\ frags = <<>>
    /\ exprs = <<>>

read_expressions ==
    /\ control = "program"
    /\ pos' = read_whitespace(pos)
    /\ IF pos' = Len(text) THEN control' = "done" /\ UNCHANGED stack
       ELSE control' = "call" /\ stack' = CallFragment(stack)
    /\ UNCHANGED <<text, value, printed, frags, exprs>>

\* The sugar: what a list begins with, and the character that ends it.
list_frame(c) ==
    CASE c = "{" -> Frame("read_list", <<Keyword("jump")>>, "}")
      [] c = "[" -> Frame("read_list", <<Keyword("invoke")>>, "]")
      [] c = "(" -> Frame("read_list", <<>>, ")")

read_fragment1 ==
    /\ control = "call"
    /\ IF pos = Len(text) \/ text[pos + 1] \in Specials \ Openings
       THEN control' = "unexpected_character" /\ UNCHANGED <<pos, stack, value>>
       ELSE IF text[pos + 1] \in Openings
            THEN /\ control' = "list"
                 /\ stack' = Append(stack, list_frame(text[pos + 1]))
                 /\ pos' = pos + 1
                 /\ UNCHANGED value
            ELSE /\ control' = "return"
                 /\ pos' = read_token(pos)
                 /\ value' = Token(SubSeq(text, pos + 1, pos'))
                 /\ UNCHANGED stack
    /\ UNCHANGED <<text, printed, frags, exprs>>

Top == Last(stack)

\* Mutant: nothing is done about a list that the file ends in.
read_list_waits ==
    /\ control = "list"
    /\ read_whitespace(pos) < Len(text)
    /\ pos' = read_whitespace(pos)
    /\ IF text[pos' + 1] = Top.delimiter
       THEN control' = "return" /\ value' = List(Top.sexprs) /\ stack' = Front(stack)
       ELSE control' = "call" /\ stack' = CallFragment(stack) /\ UNCHANGED value
    /\ UNCHANGED <<text, printed, frags, exprs>>

\* One round of the loop of read_list.
read_list ==
    /\ control = "list"
    /\ LET p == read_whitespace(pos)
       IN  IF p < Len(text) /\ text[p + 1] = Top.delimiter
           THEN /\ control' = "return"
                /\ pos' = p + 1
                /\ value' = List(Top.sexprs)
                /\ stack' = Front(stack)
           ELSE /\ control' = "call"
                /\ pos' = p
                /\ stack' = CallFragment(stack)
                /\ UNCHANGED value
    /\ UNCHANGED <<text, printed, frags, exprs>>

return_to_list ==
    /\ control = "return"
    /\ stack # <<>>
    /\ Top.function = "read_list"
    /\ control' = "list"
    /\ stack' = [stack EXCEPT ![Len(stack)].sexprs = Append(@, value)]
    /\ UNCHANGED <<text, pos, value, printed, frags, exprs>>

separator(function) == IF function = "read_fragment" THEN ":" ELSE ";"

\* Mutant: a list of one is returned as a list.
returned_as_list(sexprs) == List(sexprs)

returned(sexprs) == IF Len(sexprs) = 1 THEN sexprs[1] ELSE List(sexprs)

\* Mutant: after a colon only read_fragment1 is called.
call_after_colon(s) == s

\* What read_fragment calls after a colon.
call_after(s) == CallFragment2(s)

\* read_fragment1 or read_fragment2 has returned to one of these loops.
return_to_fragment(function) ==
    /\ control = "return"
    /\ stack # <<>>
    /\ Top.function = function
    /\ LET sexprs == Append(Top.sexprs, value)
           p == read_whitespace(pos)
           s == [stack EXCEPT ![Len(stack)].sexprs = sexprs]
       IN  IF p < Len(text) /\ text[p + 1] = separator(function)
           THEN /\ control' = "call"
                /\ pos' = read_whitespace(p + 1)
                /\ stack' = IF function = "read_fragment" THEN call_after(s) ELSE s
                /\ UNCHANGED value
           ELSE /\ pos' = p
                /\ value' = returned(sexprs)
                /\ stack' = Front(stack)
                /\ UNCHANGED control
    /\ UNCHANGED <<text, printed, frags, exprs>>

return_to_program ==
    /\ control = "return"
    /\ stack = <<>>
    /\ frags' = Append(frags, value)
    /\ LET e == build_expression(value)
       IN  IF Failed(e) THEN control' = "special_form" /\ UNCHANGED exprs
           ELSE control' = "program" /\ exprs' = Append(exprs, e)
    /\ UNCHANGED <<text, pos, stack, value, printed>>

Next ==
    \/ read_expressions
    \/ read_fragment1
    \/ read_list
    \/ return_to_list
    \/ \E function \in {"read_fragment", "read_fragment2"} : return_to_fragment(function)
    \/ return_to_program

Spec == Init /\ [][Next]_vars /\ WF_vars(Next)

-----------------------------------------------------------------------------
(* Correctness.                                                             *)

\* A file that is read to its end is a program of the grammar and is read as
\* the fragments the grammar gives it.  When read_token or read_fragment1
\* refuses a character, no program begins with the file up to this character,
\* and when they refuse the end of the file, the file is no program.
ReadsGrammar ==
    Len(text) <= GrammarLength =>
        /\ control = "done" => <<text, frags>> \in Programs
        /\ control = "unexpected_character" =>
             IF pos = Len(text) THEN text \notin ProgramTexts
             ELSE SubSeq(text, 1, pos + 1) \notin Beginnings

\* build_expression refuses what has none of the forms of the language and
\* nothing else, and what it builds stands for the fragment it was given.
BuildsForms ==
    /\ \A i \in DOMAIN exprs : IsExpression(frags[i]) /\ Unbuild(exprs[i]) = frags[i]
    /\ control = "special_form" => ~IsExpression(Last(frags))

\* A fragment that print_fragment has written is read as the same fragment.
PrintedReadsBack ==
    printed # <<>> =>
        /\ control # "unexpected_character"
        /\ control \in {"done", "special_form"} => frags = printed

\* Every file is read to its end or refused.
Terminates == <>(control \in {"done", "unexpected_character", "special_form"})
=============================================================================
