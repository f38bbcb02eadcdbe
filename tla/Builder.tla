------------------------------- MODULE Builder -------------------------------
(***************************************************************************)
(* Fragments (bootstrap/lexer.c) and the expressions that build_expression *)
(* of bootstrap/expressions.c makes of them, or refuses to make.           *)
(*                                                                         *)
(* A fragment is a token, which is a sequence of characters, or a list of  *)
(* fragments.  A keyword is written as one character here.                 *)
(***************************************************************************)
EXTENDS Integers, Sequences

CONSTANT WORD_BIN_LEN  \* how many digits a literal has

ASSUME WordAssumption == WORD_BIN_LEN \in Nat \ {0}

Token(chars) == [token |-> chars]
List(ds)     == [list |-> ds]

\* The code tells them apart by what the first pointer of a list leads to: a
\* character, whose flag is NULL, or a cell, whose rst never is.  The empty
\* list is no token.
is_token(d) == "token" \in DOMAIN d

Keyword(k) == Token(<<k>>)

\* Errors and expressions.
special_form == [type |-> "special_form"]
Failed(e)    == e.type = "special_form"

make_literal(value)       == [type |-> "literal", value |-> value]
make_symbol(name)         == [type |-> "symbol", name |-> name]
make_with(ref, expr)      == [type |-> "with", reference |-> ref, expression |-> expr]
make_if(c, t, e)          == [type |-> "if", condition |-> c, consequent |-> t, alternate |-> e]
make_constrain(expr, ref) == [type |-> "constrain", expression |-> expr, reference |-> ref]
make_meta(ref, d)         == [type |-> "meta", reference |-> ref, fragment |-> d]

\* functions and continuations
make_procedure(type, ref, params, expr) ==
    [type |-> type, reference |-> ref, parameters |-> params, expression |-> expr]

\* invokes, jumps and storage
make_application(type, ref, args) == [type |-> type, reference |-> ref, arguments |-> args]

\* Mutant: digits that follow the last one expected are ignored.
literal_of_any_length(chars) ==
    IF Len(chars) < WORD_BIN_LEN \/ \E i \in DOMAIN chars : chars[i] \notin {"0", "1"}
    THEN special_form
    ELSE LET value[i \in 0 .. WORD_BIN_LEN] ==
                IF i = 0 THEN 0 ELSE 2 * value[i - 1] + (IF chars[i] = "1" THEN 1 ELSE 0)
         IN  make_literal(value[WORD_BIN_LEN])

build_literal(chars) ==
    IF Len(chars) # WORD_BIN_LEN \/ \E i \in DOMAIN chars : chars[i] \notin {"0", "1"}
    THEN special_form
    ELSE LET value[i \in 0 .. WORD_BIN_LEN] ==
                IF i = 0 THEN 0 ELSE 2 * value[i - 1] + (IF chars[i] = "1" THEN 1 ELSE 0)
         IN  make_literal(value[WORD_BIN_LEN])

\* The whole of d fails when a part fails.
Unless(failure, e) == IF failure THEN special_form ELSE e
AnyFailed(es) == \E i \in DOMAIN es : Failed(es[i])

\* The third part of a function or continuation is a list of names.
IsParameters(d) == ~is_token(d) /\ \A i \in DOMAIN d.list : is_token(d.list[i])

RECURSIVE build_expression(_)
build_expression(d) ==
    IF is_token(d) THEN make_symbol(d.token)
    ELSE IF d.list = <<>> THEN special_form
    ELSE LET parts == d.list
             n     == Len(parts)
             Part(i) == build_expression(parts[i])
             Is(k)   == parts[1] = Keyword(k)
         IN  CASE Is("with") ->
                    IF n # 3 \/ (n = 3 /\ ~is_token(parts[2])) THEN special_form
                    ELSE Unless(Failed(Part(3)), make_with(Part(2), Part(3)))
               [] Is("if") ->
                    IF n # 4 THEN special_form
                    ELSE Unless(AnyFailed(<<Part(2), Part(3), Part(4)>>),
                                make_if(Part(2), Part(3), Part(4)))
               [] Is("function") \/ Is("continuation") ->
                    IF n # 4 THEN special_form
                    ELSE IF ~is_token(parts[2]) \/ ~IsParameters(parts[3]) THEN special_form
                    ELSE Unless(Failed(Part(4)),
                                make_procedure(parts[1].token[1], Part(2),
                                    [i \in DOMAIN parts[3].list |-> build_expression(parts[3].list[i])],
                                    Part(4)))
               [] Is("literal") ->
                    IF n # 2 \/ (n = 2 /\ ~is_token(parts[2])) THEN special_form
                    ELSE build_literal(parts[2].token)
               [] Is("invoke") \/ Is("jump") \/ Is("storage") ->
                    IF n = 1 \/ (n > 1 /\ Is("storage") /\ ~is_token(parts[2])) THEN special_form
                    ELSE LET args == [i \in 1 .. n - 2 |-> Part(i + 2)]
                         IN  Unless(AnyFailed(args) \/ Failed(Part(2)),
                                    make_application(parts[1].token[1], Part(2), args))
               [] Is("constrain") ->
                    IF n # 3 THEN special_form
                    ELSE Unless(AnyFailed(<<Part(2), Part(3)>>), make_constrain(Part(2), Part(3)))
               [] OTHER -> Unless(Failed(Part(1)), make_meta(Part(1), d))

-----------------------------------------------------------------------------
(* The forms of the language, as the sections of the README on expressions  *)
(* show them: which fragments are expressions, and the fragment that an     *)
(* expression stands for.                                                   *)

Words == {"with", "if", "function", "continuation", "literal", "invoke", "jump", "storage", "constrain"}

RECURSIVE IsExpression(_)
IsExpression(d) ==
    \/ is_token(d)
    \/ /\ ~is_token(d)
       /\ d.list # <<>>
       /\ LET s == d.list
              Form(k, n) == s[1] = Keyword(k) /\ Len(s) = n
              From(i) == \A j \in i .. Len(s) : IsExpression(s[j])
          IN  \/ Form("with", 3) /\ is_token(s[2]) /\ From(3)
              \/ Form("if", 4) /\ From(2)
              \/ \E k \in {"function", "continuation"} :
                    /\ Form(k, 4)
                    /\ is_token(s[2])
                    /\ ~is_token(s[3]) /\ \A i \in DOMAIN s[3].list : is_token(s[3].list[i])
                    /\ From(4)
              \/ /\ Form("literal", 2)
                 /\ \E digits \in [1 .. WORD_BIN_LEN -> {"0", "1"}] : s[2] = Token(digits)
              \/ \E k \in {"invoke", "jump"} : s[1] = Keyword(k) /\ Len(s) >= 2 /\ From(2)
              \/ s[1] = Keyword("storage") /\ Len(s) >= 2 /\ is_token(s[2]) /\ From(3)
              \/ Form("constrain", 3) /\ From(2)
              \/ (\A k \in Words : s[1] # Keyword(k)) /\ IsExpression(s[1])

Digits(value) ==
    [i \in 1 .. WORD_BIN_LEN |-> IF (value \div 2^(WORD_BIN_LEN - i)) % 2 = 1 THEN "1" ELSE "0"]

RECURSIVE Unbuild(_)
Unbuild(e) ==
    LET Each(es) == [i \in DOMAIN es |-> Unbuild(es[i])]
        With(k, parts) == List(<<Keyword(k)>> \o parts)
    IN  CASE e.type = "symbol"  -> Token(e.name)
          [] e.type = "literal" -> With("literal", <<Token(Digits(e.value))>>)
          [] e.type = "with"    -> With("with", Each(<<e.reference, e.expression>>))
          [] e.type = "if"      -> With("if", Each(<<e.condition, e.consequent, e.alternate>>))
          [] e.type \in {"function", "continuation"} ->
               With(e.type, <<Unbuild(e.reference), List(Each(e.parameters)), Unbuild(e.expression)>>)
          [] e.type \in {"invoke", "jump", "storage"} ->
               With(e.type, <<Unbuild(e.reference)>> \o Each(e.arguments))
          [] e.type = "constrain" -> With("constrain", Each(<<e.expression, e.reference>>))
          [] e.type = "meta" -> e.fragment
=============================================================================
