------------------------------- MODULE MCLexer -------------------------------
EXTENDS Lexer

BoundedTexts(chars, n) == UNION {[1 .. m -> chars] : m \in 0 .. n}

\* All short files; slightly longer ones without braces, which are read like
\* brackets.
MCTexts == BoundedTexts(Specials \union {"a"}, 4)
             \union BoundedTexts((Specials \union {"a"}) \ {"{", "}"}, 5)

Name  == Token(<<"a">>)
Parts == {Name, Token(<<"1", "0">>), Token(<<"1", "0", "1">>), List(<<>>), List(<<Name>>),
          List(<<Name, List(<<>>)>>), List(<<Keyword("literal"), Token(<<"0", "1">>)>>),
          List(<<Keyword("if"), Name>>)}

\* A word with up to three parts behind it, whether this is a form or not.
MCFragments ==
    {List(<<h>> \o ps) : h \in {Keyword(k) : k \in Words} \union {Name, List(<<>>), List(<<Name>>)},
                         ps \in BoundedTexts(Parts, 3)}
=============================================================================
