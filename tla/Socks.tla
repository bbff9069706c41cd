------------------------------- MODULE Socks -------------------------------
(***************************************************************************)
(* One connection's handler in the SOCKS5 server (socks5.rs:37-147), with  *)
(* the DNS client it calls (dns.rs:10-103): handshake, resolution through  *)
(* the listed servers in turn over one UDP socket, connect, reply.         *)
(*                                                                         *)
(* What the client sends is one of the kinds of messages the handler tells *)
(* apart; it may send them late, in part, or leave.  The response of a DNS *)
(* server may come at any time, more than once, or never, and the socket   *)
(* takes packets from anybody else as well: it is not connected, and the   *)
(* sender is not looked at (dns.rs:28-29).  Of the bytes of a packet the   *)
(* model keeps what the header says, the records, and where it is cut off. *)
(***************************************************************************)
EXTENDS Naturals, Sequences, FiniteSetsExt

CONSTANTS
    Servers,    \* how many dns_servers are listed
    Ip,         \* addresses
    Message,    \* what a packet may say
    None,       \* no address
    MaxAnswers, \* bound: copies of the response of one server
    MaxStrays   \* bound: packets of other senders

\* What the header says, the answer records in their order (an address, or a
\* record of another type), and how many of them are there in full.
MessageType ==
    [header : {"ok", "otherId", "query", "rcode"},
     records : Seq(Ip \cup {"other"}), whole : Nat]

ASSUME MessagesTyped ==
    \A m \in Message : m \in MessageType /\ m.whole <= Len(m.records)
ASSUME ServersIsNat == Servers \in Nat
ASSUME NoneNotIp == None \notin Ip
ASSUME BoundsAreNat == MaxAnswers \in Nat /\ MaxStrays \in Nat

\* A packet is a listed server's, or (0) anybody else's.
Packet == [from : 0..Servers, says : Message]

VARIABLES
    pc,         \* where the handler is
    client,     \* what the client's two messages are
    arrived,    \* how many of them are there
    gone,       \* the client left
    out,        \* the replies to it
    asking,     \* how many servers were looked at
    asked,      \* the servers that were sent the query
    gives,      \* the response of each server
    copies,     \* how many times it has come
    strays,     \* packets of other senders that have come
    heard,      \* the packets that reached the socket, oldest first
    taken,      \* how many of them were taken from it
    target,     \* the address to connect to, or None
    late,       \* one was taken that is not of the server waited for
    inTime      \* the servers whose address came within the wait for them

clientVars == <<client, arrived, gone>>
dnsVars == <<asking, asked, gives, copies, strays, heard, taken, late, inTime>>
vars == <<pc, clientVars, out, dnsVars, target>>

\* First message: the methods; second: the request, with its address.
Client == [methods : {"badVersion", "noneFree", "free"},
           request : {"badVersion", "bind", "ipv4", "name", "badName", "ipv6"}]

Init ==
    /\ pc = "greeting"
    /\ client \in Client /\ arrived = 0 /\ gone = FALSE
    /\ out = <<>>
    /\ asking = 0 /\ asked = {}
    /\ gives \in [1..Servers -> Message]
    /\ copies = [i \in 1..Servers |-> 0] /\ strays = 0
    /\ heard = <<>> /\ taken = 0
    /\ late = FALSE /\ inTime = {}
    /\ target = None

Goto(from, to) == pc = from /\ pc' = to
Reply(rep) == out' = Append(out, rep)

-----------------------------------------------------------------------------
(* The client *)

ClientSends ==
    /\ ~gone /\ arrived < 2
    /\ arrived' = arrived + 1
    /\ UNCHANGED <<pc, client, gone, out, dnsVars, target>>

ClientLeaves ==
    /\ ~gone
    /\ gone' = TRUE
    /\ UNCHANGED <<pc, client, arrived, out, dnsVars, target>>

-----------------------------------------------------------------------------
(* The handshake *)

\* read_exact fails: the client left before it had sent the message.
ReadFails ==
    /\ gone
    /\ \/ arrived = 0 /\ Goto("greeting", "done")
       \/ arrived = 1 /\ Goto("request", "done")
    /\ UNCHANGED <<clientVars, out, dnsVars, target>>

Greeting ==
    /\ arrived >= 1
    /\ \/ client.methods = "badVersion" /\ Goto("greeting", "done")
              /\ UNCHANGED out
       \/ client.methods = "noneFree" /\ Goto("greeting", "done")
              /\ Reply("noMethod")
       \/ client.methods = "free" /\ Goto("greeting", "request")
              /\ Reply("noAuth")
    /\ UNCHANGED <<clientVars, dnsVars, target>>

\* The version, the command, the type of the address, and the address itself.
Request ==
    /\ arrived = 2
    /\ \/ client.request = "badVersion" /\ Goto("request", "done")
              /\ UNCHANGED <<out, target>>
       \/ client.request = "bind" /\ Goto("request", "done")
              /\ Reply("command") /\ UNCHANGED target
       \/ client.request = "ipv6" /\ Goto("request", "done")
              /\ Reply("addressType") /\ UNCHANGED target
       \/ client.request = "ipv4" /\ Goto("request", "connect")
              /\ target' \in Ip /\ UNCHANGED out
       \/ client.request \in {"name", "badName"} /\ Goto("request", "resolve")
              /\ UNCHANGED <<out, target>>
    /\ UNCHANGED <<clientVars, dnsVars>>

-----------------------------------------------------------------------------
(* resolve_a *)

\* Mutant: the client is left without a reply.
FailSilently ==
    /\ Goto("resolve", "done")
    /\ UNCHANGED out

Fail ==
    /\ Goto("resolve", "done")
    /\ Reply("hostUnreachable")

\* A label that is empty or too long, no socket, or no server left.
ResolveFails ==
    /\ client.request = "badName" \/ asking \in {0, Servers}
    /\ Fail
    /\ UNCHANGED <<clientVars, dnsVars, target>>

\* The next server; one whose address does not parse, or to which nothing can be
\* sent, is passed over without a wait.
Ask ==
    /\ client.request = "name" /\ asking < Servers
    /\ asking' = asking + 1
    /\ \/ Goto("resolve", "wait") /\ asked' = asked \cup {asking'}
       \/ Goto("resolve", "resolve") /\ UNCHANGED asked
    /\ UNCHANGED <<clientVars, out, gives, copies, strays, heard, taken, late, inTime,
                   target>>

\* Mutant: the header is not looked at.
ParseAnyHeader(m) ==
    LET as == {n \in 1..m.whole : m.records[n] \in Ip}
    IN  IF as = {} THEN None ELSE m.records[Min(as)]

\* parse_response: the first address record of a response to this query without
\* an error, if nothing before it is cut off.
ParseResponse(m) ==
    LET as == {n \in 1..m.whole : m.records[n] \in Ip}
    IN  IF m.header # "ok" \/ as = {} THEN None ELSE m.records[Min(as)]

\* recv_from: the oldest packet, whoever it is from.
Take ==
    /\ taken < Len(heard)
    /\ taken' = taken + 1
    /\ target' = ParseResponse(heard[taken'].says)
    /\ Goto("wait", IF target' # None THEN "connect" ELSE "resolve")
    /\ late' = (late \/ heard[taken'].from # asking)
    /\ UNCHANGED <<clientVars, out, asking, asked, gives, copies, strays, heard, inTime>>

\* Mutant: the time is up although a packet is there.
TimeoutEarly ==
    /\ Goto("wait", "resolve")
    /\ UNCHANGED <<clientVars, out, dnsVars, target>>

\* Mutant: the socket has no timeout.
TimeoutNever == FALSE /\ UNCHANGED vars

\* Three seconds without a packet.
Timeout ==
    /\ taken = Len(heard)
    /\ Goto("wait", "resolve")
    /\ UNCHANGED <<clientVars, out, dnsVars, target>>

\* A packet reaches the socket.
Arrives(i, m) ==
    /\ pc \in {"resolve", "wait"}
    /\ heard' = Append(heard, [from |-> i, says |-> m])
    /\ UNCHANGED <<pc, clientVars, out, asking, asked, gives, taken, late, target>>

\* The response of a server, or a copy of it.
Answer(i) ==
    /\ i \in asked /\ copies[i] < MaxAnswers
    /\ copies' = [copies EXCEPT ![i] = @ + 1]
    /\ Arrives(i, gives[i])
    /\ inTime' = IF ParseResponse(gives[i]) # None /\ pc = "wait" /\ i = asking
                 THEN inTime \cup {i} ELSE inTime
    /\ UNCHANGED strays

\* A packet that no listed server sent.
Stray(m) ==
    /\ strays < MaxStrays
    /\ strays' = strays + 1
    /\ Arrives(0, m)
    /\ UNCHANGED <<copies, inTime>>

-----------------------------------------------------------------------------
(* connect_timeout *)

\* Mutant: a reply that is no SOCKS5 code.
ConnectFailsRaw ==
    /\ Goto("connect", "done")
    /\ Reply("errno")
    /\ UNCHANGED <<clientVars, dnsVars, target>>

Connect ==
    /\ Goto("connect", "relay")
    /\ Reply("succeeded")
    /\ UNCHANGED <<clientVars, dnsVars, target>>

ConnectFails ==
    /\ Goto("connect", "done")
    /\ \E rep \in {"refused", "netUnreachable", "general"} : Reply(rep)
    /\ UNCHANGED <<clientVars, dnsVars, target>>

-----------------------------------------------------------------------------
Handler ==
    \/ ReadFails \/ Greeting \/ Request
    \/ ResolveFails \/ Ask \/ Take \/ Timeout
    \/ Connect \/ ConnectFails

World ==
    \/ ClientSends \/ ClientLeaves
    \/ \E i \in 1..Servers : Answer(i)
    \/ \E m \in Message : Stray(m)

Next == Handler \/ World

Spec == Init /\ [][Next]_vars

\* The handler is scheduled, and its waits are bounded.
FairSpec == Spec /\ WF_vars(Handler)

-----------------------------------------------------------------------------
(* Properties *)

Refusal == {"noMethod", "command", "addressType", "hostUnreachable",
            "refused", "netUnreachable", "general"}

TypeOK ==
    /\ pc \in {"greeting", "request", "resolve", "wait", "connect", "relay", "done"}
    /\ client \in Client /\ arrived \in 0..2 /\ gone \in BOOLEAN
    /\ out \in Seq(Refusal \cup {"noAuth", "succeeded"})
    /\ asking \in 0..Servers /\ asked \subseteq 1..asking
    /\ gives \in [1..Servers -> Message]
    /\ copies \in [1..Servers -> 0..MaxAnswers]
    /\ strays \in 0..MaxStrays
    /\ heard \in Seq(Packet) /\ taken \in 0..Len(heard)
    /\ target \in Ip \cup {None}
    /\ late \in BOOLEAN /\ inTime \subseteq asked

Malformed ==
    "badVersion" \in {client.methods, client.request}

\* On each way through the handler the client gets one final reply and no second
\* one: "succeeded" exactly when bytes are then relayed, a refusal whenever the
\* handler ends, unless the client broke off or spoke another protocol.
OneFinalReply ==
    /\ pc = "relay" => out = <<"noAuth", "succeeded">>
    /\ pc = "done" =>
        \/ out = <<"noMethod">>
        \/ \E rep \in Refusal : out = <<"noAuth", rep>>
        \/ out \in {<<>>, <<"noAuth">>} /\ (gone \/ Malformed)
    /\ pc \notin {"relay", "done"} => out \in {<<>>, <<"noAuth">>}

\* As long as each packet taken is of the server waited for: the first listed
\* server that gives an address in its time decides, and a name is refused only
\* if none did.  (A late packet or a stray one takes the place of a good one.)
FirstAnswerWins ==
    client.request = "name" /\ ~late =>
        /\ out = <<"noAuth", "hostUnreachable">> => inTime = {}
        /\ pc \in {"connect", "relay"} =>
            target = ParseResponse(gives[asking]) /\ inTime = {asking}

\* The record of a packet that is an address, there in full, when the packet is a
\* response to this query without an error.
Offers(m, ip) ==
    m.header = "ok" /\ \E n \in 1..m.whole : m.records[n] = ip

\* Whoever sends what, and whichever wait it falls into: of the packets taken for
\* a name the oldest that offers an address decides.  What the handler connects to
\* is offered by the last one taken, none before it offered any, and a name is
\* refused only if no packet taken did.
OldestOfferDecides ==
    client.request = "name" =>
        /\ pc \in {"connect", "relay"} =>
            /\ taken > 0 /\ Offers(heard[taken].says, target)
            /\ \A n \in 1..taken - 1, ip \in Ip : ~Offers(heard[n].says, ip)
        /\ out = <<"noAuth", "hostUnreachable">> =>
            \A n \in 1..taken, ip \in Ip : ~Offers(heard[n].says, ip)

\* A complete request is answered, however many servers stay silent.
RequestAnswered ==
    (arrived = 2 /\ ~Malformed) ~> pc \in {"relay", "done"}
=============================================================================
