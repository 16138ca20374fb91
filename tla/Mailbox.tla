------------------------------- MODULE Mailbox -------------------------------
(***************************************************************************)
(* What processes that exchange messages may rely on, without a scheduler, *)
(* rings or system calls: how many messages wait for each process, and who *)
(* sleeps and why.  A process sleeps for mail only while it has none, and  *)
(* every message that arrives wakes its addressee in the same step.        *)
(***************************************************************************)
EXTENDS Naturals

CONSTANTS Process, Capacity

VARIABLES
    mail,           \* messages that wait for each process
    sleeping        \* "no", or what the process sleeps for: "mail" or "room"

vars == <<mail, sleeping>>

Init ==
    /\ mail = [p \in Process |-> 0]
    /\ sleeping = [p \in Process |-> "no"]

\* A full mailbox takes the message and counts no more than Capacity.
Deposit(s, d) ==
    /\ sleeping[s] = "no"
    /\ mail' = [mail EXCEPT ![d] = IF @ < Capacity THEN @ + 1 ELSE @]
    /\ sleeping' = [sleeping EXCEPT ![d] = "no"]

WaitForRoom(s, d) ==
    /\ sleeping[s] = "no"
    /\ mail[d] = Capacity
    /\ sleeping' = [sleeping EXCEPT ![s] = "room"]
    /\ UNCHANGED mail

WaitForMail(p) ==
    /\ sleeping[p] = "no"
    /\ mail[p] = 0
    /\ sleeping' = [sleeping EXCEPT ![p] = "mail"]
    /\ UNCHANGED mail

Take(p) ==
    /\ sleeping[p] = "no"
    /\ mail[p] > 0
    /\ mail' = [mail EXCEPT ![p] = @ - 1]
    /\ UNCHANGED sleeping

Next ==
    \E p \in Process : \/ Take(p)
                       \/ WaitForMail(p)
                       \/ \E d \in Process : Deposit(p, d) \/ WaitForRoom(p, d)

Spec == Init /\ [][Next]_vars

=============================================================================
