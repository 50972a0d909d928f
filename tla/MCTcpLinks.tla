---------------------------- MODULE MCTcpLinks ----------------------------
(***************************************************************************)
(* Instances of TcpLinks for TLC.  A behaviour needs an administrator, its *)
(* forward connection and a user before a link exists, and a second client *)
(* or command for something to happen to it.                               *)
(***************************************************************************)
EXTENDS TcpLinks, TLC

CONSTANTS a1, a2, u1, p1

\* Administrators are interchangeable: no property names one.
Symmetry == Permutations(Admin)

\* FreeListSound and PortTableExact say nothing once sound is lost, and it is
\* never regained; WorkConserved is proved for the states left out.
WhileSound == sound

=============================================================================
