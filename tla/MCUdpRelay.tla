----------------------------- MODULE MCUdpRelay -----------------------------
(* Small instances of UdpRelay. *)
EXTENDS UdpRelay, TLC

CONSTANTS a1, c1, c2, p1

Admins == {a1}
Clients == {c1, c2}
Ports == {p1}

Symmetry == Permutations(Clients)

\* What happens after objects or ids are confused is not explored: no
\* property but NothingLeaks speaks of it.
WhileSound == sound

\* Bound: at most two packages and answers are under way at a time.
FewUnderWay ==
  Cardinality(packages) + Cardinality(forwarding) + Cardinality(told) + Cardinality(answers)
    + (IF sender = Asleep THEN 0 ELSE 1) <= 2
=============================================================================
