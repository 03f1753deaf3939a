--------------------------- MODULE MCStateMachine ---------------------------
(* Constant values for the runs of StateMachine. *)
EXTENDS StateMachine

CONSTANTS s1, s2, s3

TwoOfThree == {s1, s2}
AnyBinding == {s1, s2, NoState}
OneBinding == {s1}
OneOrNone == {s1, NoState}
Unbound == {NoState}
=============================================================================
