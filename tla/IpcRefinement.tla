---------------------------- MODULE IpcRefinement ----------------------------
(***************************************************************************)
(* The kernel's message passing against what it should look like from      *)
(* outside (IpcMailbox) and against the rings it is built from             *)
(* (MessageRing).                                                          *)
(***************************************************************************)
EXTENDS IpcMailbox

\* The ring of each process sees nothing but the pushes and pops of
\* MessageRing, whoever runs them and whenever the scheduler lets them.
Ring(p) == INSTANCE MessageRing WITH
               MAXPUSH <- MAXMSGS, buf <- recvbuf[p],
               pushed <- pushed[p], popped <- popped[p], overrun <- overrun[p]

ImplementsRings ==
    /\ \A p \in Pids : Ring(p)!Init
    /\ [][\A p \in Pids : [Ring(p)!Next]_(Ring(p)!vars)]_vars

=============================================================================
