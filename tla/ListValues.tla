----------------------------- MODULE ListValues -----------------------------
(***************************************************************************)
(* What the rest of the compiler takes lists for: values.  A variable      *)
(* holds a sequence, an operation gives one variable a new sequence made   *)
(* from those that the variables hold, and no other variable notices.      *)
(* The compiler's use of list.c is shown to implement this specification.  *)
(***************************************************************************)
EXTENDS Sequences, SequencesExt

CONSTANTS Data, Holders

VARIABLES value,    \* the sequence each variable holds
          answer    \* what a search has just found: <<>> for nothing

lvars == <<value, answer>>

VInit == value = [h \in Holders |-> <<>>] /\ answer = <<>>

\* What the operations give to the variable h when the variables hold v: no
\* list, a copy, a list with one more item at its end or at its beginning, two
\* lists joined, or a list turned around.
Made(v, h) ==
    LET lists == {v[g] : g \in Holders}
    IN  {<<>>} \union lists
          \union {Append(v[h], d) : d \in Data}
          \union {<<d>> \o l : d \in Data, l \in lists}
          \union {l \o m : l \in lists, m \in lists}
          \union {Reverse(l) : l \in lists}

VMake == \E h \in Holders :
            /\ \A g \in Holders \ {h} : value'[g] = value[g]
            /\ value'[h] \in Made(value, h)
            /\ answer' = <<>>

\* The first item of g that is not one of k.
VSearch == \E g, k \in Holders :
              /\ answer' = LET missing == SelectSeq(value[g], LAMBDA d : d \notin Range(value[k]))
                           IN  IF missing = <<>> THEN <<>> ELSE <<Head(missing)>>
              /\ UNCHANGED value

VNext == VMake \/ VSearch

VSpec == VInit /\ [][VNext]_lvars
=============================================================================
