------------------------------- MODULE Relay -------------------------------
(***************************************************************************)
(* One call of util::relay (util.rs:160-177): two threads that copy between*)
(* two TCP connections, here called links, one thread for each direction.  *)
(* Link A leads to the client, link B to the server; direction "fwd" goes  *)
(* from the client to the server, "back" the other way.                    *)
(***************************************************************************)
EXTENDS Naturals, Sequences

CONSTANTS
    A, B,       \* the two links of this relay
    Cap         \* chunks that a direction of a link holds

VARIABLES
    link,       \* for every link what is on its way in each direction, and
                \* whether the connection was reset
    phase,      \* connect (not yet relaying), relay, closed, or refused
    copier      \* for each direction: whether its thread still copies

Dir == {"fwd", "back"}
Fin == 0        \* the end of a stream; chunks are 1, 2, ...

Src(d) == IF d = "fwd" THEN A ELSE B
Dst(d) == IF d = "fwd" THEN B ELSE A

Inbox(d) == link[Src(d)][d]
HasData(d) == Inbox(d) # <<>> /\ Head(Inbox(d)) # Fin
Copying(d) == phase = "relay" /\ copier[d]

\* The second connection is there.
Begin ==
    /\ phase = "connect"
    /\ phase' = "relay"
    /\ UNCHANGED <<link, copier>>

\* It is not, and the first one is dropped.
Refuse ==
    /\ phase = "connect"
    /\ phase' = "refused"
    /\ link' = [link EXCEPT ![A].back = Append(@, Fin)]
    /\ UNCHANGED copier

\* Mutant: what cannot be written yet is kept in memory.
CopyAhead(d) ==
    /\ Copying(d) /\ HasData(d)
    /\ ~link[Dst(d)].reset
    /\ link' = [link EXCEPT ![Src(d)][d] = Tail(@),
                            ![Dst(d)][d] = Append(@, Head(Inbox(d)))]
    /\ UNCHANGED <<phase, copier>>

\* A write waits while the link is full.
Copy(d) ==
    /\ Copying(d) /\ HasData(d)
    /\ ~link[Dst(d)].reset /\ Len(link[Dst(d)][d]) < Cap
    /\ link' = [link EXCEPT ![Src(d)][d] = Tail(@),
                            ![Dst(d)][d] = Append(@, Head(Inbox(d)))]
    /\ UNCHANGED <<phase, copier>>

\* Mutant: no shutdown after the copy.
ShutdownNot(d) == UNCHANGED link

\* Mutant: the whole connection is shut down.
ShutdownBoth(d) ==
    link' = [link EXCEPT ![Dst(d)].fwd = Append(@, Fin),
                         ![Dst(d)].back = Append(@, Fin)]

\* shutdown(Write) on the other link; an error of it is ignored.
Shutdown(d) ==
    link' = IF link[Dst(d)].reset THEN link
            ELSE [link EXCEPT ![Dst(d)][d] = Append(@, Fin)]

\* Mutant: an empty read is taken for the end.
StopCopyWhenIdle(d) ==
    /\ Copying(d)
    /\ ~HasData(d)
    /\ Shutdown(d)
    /\ copier' = [copier EXCEPT ![d] = FALSE]
    /\ UNCHANGED phase

\* Mutant: errors are ignored.
StopCopyAtEof(d) ==
    /\ Copying(d)
    /\ Inbox(d) # <<>> /\ Head(Inbox(d)) = Fin
    /\ Shutdown(d)
    /\ copier' = [copier EXCEPT ![d] = FALSE]
    /\ UNCHANGED phase

\* io::copy ends: at the end of the stream, with an error of the read, or with
\* one of the write, which takes something to write.
StopCopy(d) ==
    /\ Copying(d)
    /\ \/ Inbox(d) # <<>> /\ Head(Inbox(d)) = Fin
       \/ link[Src(d)].reset
       \/ link[Dst(d)].reset /\ HasData(d)
    /\ Shutdown(d)
    /\ copier' = [copier EXCEPT ![d] = FALSE]
    /\ UNCHANGED phase

\* Both threads are done and the sockets are dropped.
Close ==
    /\ phase = "relay"
    /\ \A d \in Dir : ~copier[d]
    /\ phase' = "closed"
    /\ UNCHANGED <<link, copier>>

\* What is still in the inbox of a closed socket, or comes later, resets it.
ResetLate(d) ==
    /\ phase \in {"closed", "refused"}
    /\ HasData(d) /\ ~link[Src(d)].reset
    /\ link' = [link EXCEPT ![Src(d)].reset = TRUE]
    /\ UNCHANGED <<phase, copier>>

\* The process of the relay is killed.  Both links count as reset; the kernel ends
\* the stream of one with nothing unread, which is a break to its readers as well.
Killed ==
    /\ phase = "relay"
    /\ phase' = "closed"
    /\ link' = [link EXCEPT ![A].reset = TRUE, ![B].reset = TRUE]
    /\ copier' = [d \in Dir |-> FALSE]

\* What the threads do once they run.
Thread == Close \/ \E d \in Dir : Copy(d) \/ StopCopy(d) \/ ResetLate(d)
=============================================================================
