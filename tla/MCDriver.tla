------------------------------ MODULE MCDriver ------------------------------
(***************************************************************************)
(* Command lines over a few source files that define and use each other's  *)
(* functions, shadow and nest names, have statics of every kind and names  *)
(* that nothing defines, in every order.                                   *)
(***************************************************************************)
EXTENDS Driver

S(n) == Symbol(n)

\* Source files; the dots in the names are not all where an extension starts.
XL   == <<"x", ".", "l">>
YL   == <<"y", ".", "z", ".", "l">>
DSL  == <<"d", ".", "d", "/", "s", ".", "l">>
BAD  == <<"b", ".", "l">>
NONE == <<"n">>
GONE == <<"g", ".", "l">>

MCContents ==
    (XL :> <<Function("f", <<"a">>, Invoke(S("g"), <<S("a"), S("put"), S("f")>>)),
             Invoke(S("f"), <<S("s")>>)>>) @@
    (YL :> <<Function("g", <<"a", "f">>,
                 With("k", Invoke(S("f"), <<S("k"), S("put"), S("s"),
                                            Continuation("j", <<"b">>, S("b"))>>))),
             Storage("s", <<S("g"), Function("h", <<>>, S("f"))>>)>>) @@
    (DSL :> <<Constrain(With("k", Invoke(S("put"),
                  <<S("k"), Function("h", <<"k">>, Jump(S("k"), <<S("f")>>)),
                    Storage("v", <<S("v")>>)>>))),
              Jump(Continuation("c", <<"u">>, Jump(S("c"), <<S("u")>>)), <<S("s")>>)>>) @@
    (BAD :> <<Function("e", <<>>, S("e")), Function("m", <<"a", "b", "a">>, S("a"))>>) @@
    (NONE :> <<>>)

Sources(names, n) == UNION {[1 .. k -> names] : k \in 0 .. n}

MCCommands ==
    {s \o <<Dash, Dash>> : s \in Sources({XL, YL, DSL, BAD}, 3)}
      \union {<<XL>>, <<XL, Dash>>, <<Dash, XL>>, <<XL, Dash, GONE, Dash>>,
              <<GONE, Dash, Dash>>, <<XL, NONE, Dash, Dash>>,
              <<XL, Dash, Dash, Dash, YL>>}
=============================================================================
