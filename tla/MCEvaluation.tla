---------------------------- MODULE MCEvaluation -----------------------------
(***************************************************************************)
(* Two source files and an object file.  The files have the macro id, the  *)
(* function m, which is tried with various contents, and two or three      *)
(* meta-expressions, which become the functions foo and bar.               *)
(***************************************************************************)
EXTENDS Preprocessing

Nothing == Other(<<>>, <<>>)
Id == Function("id", <<>>, <<>>)

\* What the body of m has in it.
Contents ==
    { [metas |-> ms, refs |-> rs] :
        ms \in { <<>>,
                 <<Meta("id", Other(<<Meta("id", Other(<<>>, <<"id">>))>>, <<"native">>))>>,
                 <<Meta("id", Meta("id", Nothing)), ComputedMeta(Nothing, "id", Nothing)>>,
                 <<Meta("foo", Nothing)>> },
        rs \in { <<>>, <<"native", "id">>, <<"foo">> } }

\* Meta-expressions at top level.
Foos ==
    { Meta("id", Function("foo", <<>>, <<>>)),
      Meta("id", Meta("id", Function("foo", <<>>, <<"native">>))),
      Meta("id", Function("foo", <<Meta("m", Nothing)>>, <<"lst">>)),
      ComputedMeta(Other(<<Meta("id", Nothing)>>, <<"native">>), "id", Function("foo", <<>>, <<>>)) }
Bars ==
    { Meta("foo", Function("bar", <<>>, <<>>)),
      Meta("m", Function("bar", <<>>, <<"foo">>)),
      Meta("id", Malformed),
      Meta("id", Constrain(Meta("foo", Meta("id", Nothing)))),
      Constrain(Meta("m", Other(<<Meta("foo", Nothing)>>, <<"lst">>))),
      Meta("id", Meta("foo", Function("bar", <<>>, <<>>))),
      ComputedMeta(Nothing, "foo", Function("bar", <<Meta("id", Nothing)>>, <<>>)),
      ComputedMeta(Other(<<>>, <<"foo">>), "id", Function("bar", <<>>, <<>>)),
      Nothing }

Program(body, foo, bar, rest, needed) ==
    [files   |-> << <<Id, foo, Function("m", body.metas, body.refs)>>, <<bar>> \o rest >>,
     objects |-> << [defs |-> <<"native">>, refs |-> needed] >>]

MCNames == {"", "id", "native", "m", "foo", "bar", "lst"}
MCInterface == <<"lst">>

RECURSIVE Parts(_)
Parts(e) ==
    {e} \union
        CASE e.type = "malformed" -> {}
          [] e.type = "meta" -> UNION {Parts(p) : p \in {e.out} \union Range(e.container)}
          [] OTHER -> UNION {Parts(p) : p \in Range(e.metas)}

MCExprs ==
    UNION {Parts(e) : e \in {Id, Meta("bar", Nothing)} \union Foos \union Bars
                              \union {Function("m", body.metas, body.refs) : body \in Contents}}

RECURSIVE MCHeight(_)
MCHeight(e) ==
    CASE e.type = "malformed" -> 0
      [] e.type = "meta" -> MCHeight(e.out) + 1
      [] OTHER -> IF e.metas = <<>> THEN 0 ELSE Max({MCHeight(m) : m \in Range(e.metas)}) + 1

MCPrograms ==
    { p \in { Program(body, foo, bar, <<>>, needed) :
                body \in Contents, foo \in Foos, bar \in Bars, needed \in {<<>>, <<"id">>, <<"bar">>} }
            \union { Program(body, foo, bar, <<Meta("bar", Nothing)>>, <<>>) :
                body \in Contents, foo \in Foos, bar \in Bars } : WellFounded(p) }
=============================================================================
