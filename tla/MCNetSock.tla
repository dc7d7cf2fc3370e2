----------------------------- MODULE MCNetSock -----------------------------
(***************************************************************************)
(* Instances of NetSock for TLC; the .cfg files give the constants.  One   *)
(* run has all the calls and knows whether all so far were careful ones.   *)
(***************************************************************************)
EXTENDS NetSock, TLC

VARIABLE careful   \* history: every call so far was one of CarefulNext

MCInit == Init /\ careful = TRUE

MCNext ==
  \/ CarefulNext /\ UNCHANGED careful
  \/ Next /\ careful' = FALSE

MCSpec == MCInit /\ [][MCNext]_<<vars, careful>>

\* Sound: no action, invariant or action property tells one handle from another.
MC_Symmetry == Permutations(Handles)

connections == [h \in Handles |-> Conn(h)]

\* As long as sockets are opened, closed when open and destroyed, whatever of
\* that fails or is answered too late, a call on one of them never changes
\* another's connection: every step is one of Sockets, as net.h has it.
IndependentWhileCareful ==
  /\ Abs!Init
  /\ [][careful' => [Abs!Next]_connections]_<<vars, careful>>
=============================================================================
