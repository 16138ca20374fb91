----------------------------- MODULE IpcMailbox -----------------------------
(***************************************************************************)
(* The kernel's message passing as an implementation of Mailbox.           *)
(***************************************************************************)
EXTENDS Ipc

\* The kernel implements Mailbox: scheduling, process creation and the ring
\* indices are invisible, and a sleeper is a blocked task.
Sleeping ==
    [p \in Pids |-> IF ~blocked[p] THEN "no"
                    ELSE IF pc[p] = "recvwait" THEN "mail" ELSE "room"]

Boxes == INSTANCE Mailbox WITH
             Process <- Pids, Capacity <- MSG_MAXCOUNT,
             mail <- [p \in Pids |-> recvbuf[p].count], sleeping <- Sleeping

\* Every step of the kernel is a step of Mailbox or leaves it alone.
ImplementsMailbox == Boxes!Spec

=============================================================================
