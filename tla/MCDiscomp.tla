----------------------------- MODULE MCDiscomp -----------------------------
(***************************************************************************)
(* Values of the constants of Discomp for model checking.                  *)
(***************************************************************************)
EXTENDS DiscompInvariant, TLC

CONSTANTS c1, c2,       \* clients
          s1, s2,       \* processes
          a, b          \* modules

One(m) == [name |-> m, list |-> FALSE, size |-> 1]

List(m, k) == [name |-> m, list |-> TRUE, size |-> k]

\* A list of two elements, then a single module.
TwoStages == (s1 :> << <<List(a, 2)>>, <<One(b)>> >>)

\* The last stage is an empty list.
EmptyLast == (s1 :> << <<One(b)>>, <<List(a, 0)>> >>)

\* Work behind empty lists: in a stage of its own, and, with the second
\* process, in the stage that also holds another list.
Lists == (s1 :> << <<List(a, 2)>>, <<List(a, 0)>>, <<One(b)>> >>) @@
         (s2 :> << <<List(a, 0), List(b, 2)>>, <<One(a)>> >>)

\* One of two processes: two modules one after the other, or a list of two.
EitherOf == (s1 :> << <<One(b)>>, <<One(a)>> >>) @@ (s2 :> << <<List(b, 2)>> >>)

\* Three jobs at a time, one more than nodes.
ThreeJobs == (s1 :> << <<List(a, 2), One(b)>> >>)

\* Two modules side by side.
SideBySide == (s1 :> << <<One(a), One(b)>> >>)

Everywhere == [c \in Client |-> Module]

\* Clients with the same modules are interchangeable: a connection is known
\* by its number only.  For invariants, not for liveness.
Alike == Permutations(Client)
=============================================================================
