---------------------------- MODULE MCControlPoint ----------------------------
(***************************************************************************)
(* Plans for model checking ControlPoint.                                  *)
(***************************************************************************)
EXTENDS ControlPoint, TLC

CONSTANTS s1, a, b      \* a scheme and two modules

Plain(m) == [name |-> m, list |-> FALSE, size |-> 1]
List(m, k) == [name |-> m, list |-> TRUE, size |-> k]

\* A list of two beside an empty list, an empty list alone, and two jobs side
\* by side.
ThreeStages == s1 :> << <<List(a, 2), List(b, 0)>>, <<List(b, 0)>>, <<Plain(a), Plain(b)>> >>
=============================================================================
