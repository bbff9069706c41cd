----------------------------- MODULE Connection -----------------------------
(***************************************************************************)
(* One connection of Firefox to a KIT server, from end to end: Firefox,    *)
(* the host relay (relay.rs:30-45) in the supervisor, the veth pair, the   *)
(* handler of the SOCKS5 server (socks5.rs:121-127) in the namespace, and  *)
(* the server beyond the tunnel.  Both relays are calls of util::relay;    *)
(* the middle link is the client's link of the one and the server's of the *)
(* other.  Socks.tla has the handshake.                                    *)
(***************************************************************************)
EXTENDS Naturals, Sequences

CONSTANTS
    Cap,        \* chunks that a direction of a link holds
    MaxData     \* bound: chunks that each end sends

ASSUME CapIsPositive == Cap \in Nat \ {0}
ASSUME MaxDataIsNat == MaxData \in Nat

VARIABLES
    link,       \* the three links: firefox, middle, server
    hostPhase, hostCopier,      \* the relay in the supervisor
    socksPhase, socksCopier,    \* the relay in the socks child
    sent, ended,    \* what each end sent, by direction, and whether it ended
    got, over,      \* what each end received, and what ended it
    vanished        \* the server is gone without a word

hostVars == <<hostPhase, hostCopier>>
socksVars == <<socksPhase, socksCopier>>
endVars == <<sent, ended, got, over, vanished>>
vars == <<link, hostVars, socksVars, endVars>>

Host == INSTANCE Relay WITH A <- "firefox", B <- "middle",
                            phase <- hostPhase, copier <- hostCopier
Socks == INSTANCE Relay WITH A <- "middle", B <- "server",
                             phase <- socksPhase, copier <- socksCopier

Dir == {"fwd", "back"}
Fin == 0
Link == {"firefox", "middle", "server"}

\* The link where the writer of a direction sends, and where its reader reads.
Near(d) == IF d = "fwd" THEN "firefox" ELSE "server"
Far(d) == IF d = "fwd" THEN "server" ELSE "firefox"

Init ==
    /\ link = [l \in Link |-> [fwd |-> <<>>, back |-> <<>>, reset |-> FALSE]]
    /\ hostPhase = "connect" /\ hostCopier = [d \in Dir |-> TRUE]
    /\ socksPhase = "connect" /\ socksCopier = [d \in Dir |-> TRUE]
    /\ sent = [d \in Dir |-> 0] /\ ended = [d \in Dir |-> FALSE]
    /\ got = [d \in Dir |-> <<>>] /\ over = [d \in Dir |-> "no"]
    /\ vanished = FALSE

-----------------------------------------------------------------------------
(* The relays *)

HostBegins == Host!Begin /\ UNCHANGED <<socksVars, endVars>>

\* The socks child does not listen.
HostRefuses == Host!Refuse /\ UNCHANGED <<socksVars, endVars>>

HostRelays == Host!Thread /\ UNCHANGED <<socksVars, endVars>>

HostKilled == Host!Killed /\ UNCHANGED <<socksVars, endVars>>

\* The handshake comes through the host relay.
SocksBegins ==
    /\ hostPhase \in {"relay", "closed"}
    /\ Socks!Begin
    /\ UNCHANGED <<hostVars, endVars>>

SocksRefuses ==
    /\ hostPhase \in {"relay", "closed"}
    /\ Socks!Refuse
    /\ UNCHANGED <<hostVars, endVars>>

SocksRelays == Socks!Thread /\ UNCHANGED <<hostVars, endVars>>

SocksKilled == Socks!Killed /\ UNCHANGED <<hostVars, endVars>>

-----------------------------------------------------------------------------
(* The ends: Firefox writes fwd and reads back, the server the other way *)

\* The handshake is over, and the server's link is there.
Established == socksPhase \in {"relay", "closed"}

\* The end that writes is there: Firefox always, the server until it vanishes.
There(d) == d = "fwd" \/ (Established /\ ~vanished)

Writes(d) == There(d) /\ ~ended[d] /\ ~link[Near(d)].reset

Reads(d) == over[d] = "no" /\ ~(d = "fwd" /\ vanished)

Send(d) ==
    /\ Established
    /\ Writes(d)
    /\ sent[d] < MaxData /\ Len(link[Near(d)][d]) < Cap
    /\ sent' = [sent EXCEPT ![d] = @ + 1]
    /\ link' = [link EXCEPT ![Near(d)][d] = Append(@, sent[d] + 1)]
    /\ UNCHANGED <<hostVars, socksVars, ended, got, over, vanished>>

Finish(d) ==
    /\ Writes(d)
    /\ ended' = [ended EXCEPT ![d] = TRUE]
    /\ link' = [link EXCEPT ![Near(d)][d] = Append(@, Fin)]
    /\ UNCHANGED <<hostVars, socksVars, sent, got, over, vanished>>

Read(d) ==
    /\ Reads(d)
    /\ link[Far(d)][d] # <<>>
    /\ LET x == Head(link[Far(d)][d])
       IN  IF x = Fin
           THEN over' = [over EXCEPT ![d] = "eof"] /\ UNCHANGED got
           ELSE got' = [got EXCEPT ![d] = Append(@, x)] /\ UNCHANGED over
    /\ link' = [link EXCEPT ![Far(d)][d] = Tail(@)]
    /\ UNCHANGED <<hostVars, socksVars, sent, ended, vanished>>

ReadFails(d) ==
    /\ Reads(d)
    /\ link[Far(d)].reset
    /\ over' = [over EXCEPT ![d] = "error"]
    /\ UNCHANGED <<link, hostVars, socksVars, sent, ended, got, vanished>>

\* An end resets its link: a tab that is closed, a server that gives up.
Abort(d) ==
    /\ There(d)
    /\ ~link[Near(d)].reset
    /\ link' = [link EXCEPT ![Near(d)].reset = TRUE]
    /\ ended' = [ended EXCEPT ![d] = TRUE]
    /\ over' = [e \in Dir |-> IF e # d /\ over[e] = "no" THEN "error" ELSE over[e]]
    /\ UNCHANGED <<hostVars, socksVars, sent, got, vanished>>

\* The tunnel goes down under the server's link: nothing comes, no end either.
Vanish ==
    /\ ~vanished
    /\ vanished' = TRUE
    /\ UNCHANGED <<link, hostVars, socksVars, sent, ended, got, over>>

-----------------------------------------------------------------------------
Ends == \E d \in Dir : Send(d) \/ Finish(d) \/ Read(d) \/ ReadFails(d) \/ Abort(d)

Next ==
    \/ HostBegins \/ HostRefuses \/ HostRelays \/ HostKilled
    \/ SocksBegins \/ SocksRefuses \/ SocksRelays \/ SocksKilled
    \/ Ends \/ Vanish

Spec == Init /\ [][Next]_vars

\* Threads are scheduled, connects and handshakes end, and an end that is there
\* reads.  No end is bound to send, to end, or to be there.
FairSpec ==
    /\ Spec
    /\ WF_vars(HostBegins \/ HostRefuses) /\ WF_vars(HostRelays)
    /\ WF_vars(SocksBegins \/ SocksRefuses) /\ WF_vars(SocksRelays)
    /\ \A d \in Dir : WF_vars(Read(d) \/ ReadFails(d))

-----------------------------------------------------------------------------
(* Properties *)

Phase == {"connect", "relay", "closed", "refused"}

TypeOK ==
    /\ link \in [Link -> [fwd : Seq(0..MaxData), back : Seq(0..MaxData),
                          reset : BOOLEAN]]
    /\ hostPhase \in Phase /\ hostCopier \in [Dir -> BOOLEAN]
    /\ socksPhase \in Phase /\ socksCopier \in [Dir -> BOOLEAN]
    /\ sent \in [Dir -> 0..MaxData] /\ ended \in [Dir -> BOOLEAN]
    /\ got \in [Dir -> Seq(1..MaxData)]
    /\ over \in [Dir -> {"no", "eof", "error"}]
    /\ vanished \in BOOLEAN
    /\ \A l \in Link, d \in Dir : Len(link[l][d]) <= Cap + 1

Broken ==
    \/ \E l \in Link : link[l].reset
    \/ "refused" \in {hostPhase, socksPhase}

Up == INSTANCE Pipe WITH sent <- sent["fwd"], ended <- ended["fwd"],
        got <- got["fwd"], over <- over["fwd"], broken <- Broken
Down == INSTANCE Pipe WITH sent <- sent["back"], ended <- ended["back"],
        got <- got["back"], over <- over["back"], broken <- Broken

\* Through two relays, four threads and three links, each direction is a pipe
\* (Pipe): no byte is lost, doubled, overtaken or sent the wrong way, and an end
\* of file that nobody's reset stands behind comes after the last byte.
UpIsPipe == Up!Spec
DownIsPipe == Down!Spec

\* While nothing breaks, all that is sent arrives, and the end of it: also in a
\* direction whose other direction has long ended (util.rs:172, 175 shut down
\* one direction only), and although full links make the copiers wait.
Delivered ==
    \A d \in Dir :
        /\ \A n \in 1..MaxData :
            sent[d] = n ~> (Len(got[d]) >= n \/ Broken \/ vanished)
        /\ ended[d] ~> (over[d] = "eof" \/ Broken \/ vanished)

EndOver(d) ==
    \/ ended[d] \/ link[Near(d)].reset
    \/ d = "back" /\ "refused" \in {hostPhase, socksPhase}

\* No connection is kept for ever: when both ends have ended or aborted, and the
\* server did not vanish, all four threads end, and both relays drop their
\* sockets, whatever was under way, refused or killed.
AllEnds ==
    (EndOver("fwd") /\ EndOver("back"))
        ~> (vanished \/ (hostPhase \in {"closed", "refused"}
                         /\ socksPhase # "relay"))
=============================================================================
