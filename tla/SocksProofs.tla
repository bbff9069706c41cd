---------------------------- MODULE SocksProofs ----------------------------
(***************************************************************************)
(* What a connection of Socks promises for any number of listed servers,   *)
(* any responses and any number of copies of them.                         *)
(***************************************************************************)
EXTENDS Socks, LeastNumber, SequenceTheorems, TLAPS

-----------------------------------------------------------------------------
(* The inductive invariant *)

\* What was said to the client at each point of the handler.
TalkInv ==
    /\ pc = "greeting" => out = <<>>
    /\ pc \in {"request", "resolve", "wait", "connect"} => out = <<"noAuth">>
    /\ OneFinalReply

\* A name is on its way through the servers, or nobody was asked.
AskedInv ==
    /\ pc \in {"greeting", "request"} => asking = 0
    /\ pc \in {"resolve", "wait"} => client.request \in {"name", "badName"}
    /\ pc = "wait" => client.request = "name" /\ asking \in asked

\* A server's packet is its response, and comes only once it was asked.
SenderInv ==
    /\ \A n \in 1..Len(heard) : heard[n].from # 0 =>
            copies[heard[n].from] > 0 /\ heard[n].says = gives[heard[n].from]
    /\ \A i \in 1..Servers : copies[i] > 0 => i \in asked

\* As long as there is no address, no packet taken had one.
TakenInv ==
    pc \in {"greeting", "request", "resolve", "wait"} =>
        \A n \in 1..taken : ParseResponse(heard[n].says) = None

\* The current server's address counts as in time once it has come.
TimelyInv ==
    pc = "wait" /\ copies[asking] > 0 /\ ParseResponse(gives[asking]) # None =>
        asking \in inTime

\* Without a late packet, an address that came in time decides at once: none is
\* left behind, and the one of the wait is still to be taken.
FirstInv ==
    ~late =>
        /\ pc \in {"greeting", "request", "resolve"} => inTime = {}
        /\ pc = "wait" /\ inTime # {} =>
            /\ inTime = {asking} /\ taken < Len(heard)
            /\ ParseResponse(gives[asking]) # None

IInv ==
    /\ TypeOK /\ TalkInv /\ AskedInv /\ SenderInv /\ TakenInv /\ TimelyInv
    /\ FirstInv /\ FirstAnswerWins /\ OldestOfferDecides

-----------------------------------------------------------------------------
(* parse_response *)

\* An address that the packet offers, if it offers one.
LEMMA ParsedAddress ==
    ASSUME NEW m \in Message
    PROVE  /\ ParseResponse(m) \in Ip \cup {None}
           /\ ParseResponse(m) # None => Offers(m, ParseResponse(m))
           /\ ParseResponse(m) = None => \A ip \in Ip : ~Offers(m, ip)
  <1> DEFINE as == {n \in 1..m.whole : m.records[n] \in Ip}
  <1>1. as \in SUBSET Nat
    OBVIOUS
  <1>2. CASE m.header # "ok" \/ as = {}
    BY <1>2 DEF ParseResponse, Offers
  <1>3. CASE m.header = "ok" /\ as # {}
    <2>1. ParseResponse(m) = m.records[Min(as)]
      BY <1>3 DEF ParseResponse
    <2>2. Min(as) \in as
      BY <1>1, <1>3, MinProperties
    <2>3. QED
      BY <1>3, <2>1, <2>2, NoneNotIp DEF Offers
  <1>4. QED
    BY <1>2, <1>3

-----------------------------------------------------------------------------
(* The types *)

\* A connection starts with the types,
LEMMA TypeInit == Init => TypeOK
<1> SUFFICES ASSUME Init PROVE TypeOK
  OBVIOUS
<1>1. gone \in BOOLEAN /\ late \in BOOLEAN
  BY Zenon DEF Init
<1>2. out = <<>> /\ heard = <<>> /\ taken = 0 /\ asked = {} /\ inTime = {}
  BY DEF Init
<1>3. copies \in [1..Servers -> 0..MaxAnswers]
  BY BoundsAreNat DEF Init
<1>4. QED
  BY <1>1, <1>2, <1>3, ServersIsNat, BoundsAreNat, EmptySeq DEF Init, TypeOK

\* A packet more, none taken.
LEMMA ArrivesTypes ==
  ASSUME TypeOK, NEW i \in 0..Servers, NEW m \in Message, Arrives(i, m)
  PROVE  /\ heard' \in Seq(Packet) /\ taken' \in 0..Len(heard')
         /\ Len(heard') = Len(heard) + 1
         /\ heard'[Len(heard')] = [from |-> i, says |-> m]
         /\ \A n \in 1..Len(heard) : heard'[n] = heard[n]
<1>1. [from |-> i, says |-> m] \in Packet
  BY DEF Packet
<1>2. heard \in Seq(Packet) /\ heard' = Append(heard, [from |-> i, says |-> m])
  BY DEF Arrives, TypeOK
<1>3. QED
  BY <1>1, <1>2, AppendProperties, LenProperties DEF Arrives, TypeOK

\* and every step keeps them.
LEMMA TypeStep == TypeOK /\ [Next]_vars => TypeOK'
<1> SUFFICES ASSUME TypeOK, [Next]_vars PROVE TypeOK'
  OBVIOUS
<1> USE ServersIsNat, BoundsAreNat DEF TypeOK, Goto, Reply, clientVars, dnsVars
<1> DEFINE Said == Refusal \cup {"noAuth", "succeeded"}
<1>1. ASSUME NEW rep \in Said PROVE Append(out, rep) \in Seq(Said)
  BY <1>1, AppendProperties
<1>2. CASE ClientSends
  BY <1>2 DEF ClientSends
<1>3. CASE ClientLeaves
  BY <1>3 DEF ClientLeaves
<1>4. CASE ReadFails
  BY <1>4 DEF ReadFails
<1>5. CASE Greeting
  BY <1>1, <1>5 DEF Greeting, Refusal
<1>6. CASE Request
  BY <1>1, <1>6 DEF Request, Refusal
<1>7. CASE ResolveFails
  BY <1>1, <1>7 DEF ResolveFails, Fail, Refusal
<1>8. CASE Ask
  <2>1. asking' \in 1..Servers /\ asking' = asking + 1
    BY <1>8 DEF Ask
  <2>2. asked \subseteq 1..asking' /\ asking' \in 1..asking'
    BY <2>1
  <2>3. asked' \in {asked, asked \cup {asking'}}
    BY <1>8 DEF Ask
  <2>4. asked' \subseteq 1..asking' /\ asked \subseteq asked'
    BY <2>2, <2>3
  <2>5. QED
    BY <1>8, <2>1, <2>4 DEF Ask
<1>9. CASE Take
  <2>1. taken' \in 1..Len(heard) /\ heard[taken'] \in Packet
    <3>1. taken' \in 1..Len(heard)
      BY <1>9, LenProperties DEF Take
    <3>2. QED
      BY <3>1, ElementOfSeq
  <2>2. target' \in Ip \cup {None}
    BY <1>9, <2>1, ParsedAddress DEF Take, Packet
  <2>3. late' \in BOOLEAN
    BY <1>9, Zenon DEF Take
  <2>4. QED
    BY <1>9, <2>1, <2>2, <2>3 DEF Take
<1>10. CASE Timeout
  BY <1>10 DEF Timeout
<1>11. ASSUME NEW i \in 1..Servers, Answer(i) PROVE TypeOK'
  <2>1. copies' \in [1..Servers -> 0..MaxAnswers]
    <3>1. copies[i] \in 0..MaxAnswers /\ copies[i] < MaxAnswers
      BY <1>11 DEF Answer
    <3>2. copies[i] + 1 \in 0..MaxAnswers
      BY <3>1
    <3>3. QED
      BY <1>11, <3>2 DEF Answer
  <2>2. gives[i] \in Message
    OBVIOUS
  <2>3. heard' \in Seq(Packet) /\ taken' \in 0..Len(heard')
    <3>1. i \in 0..Servers
      OBVIOUS
    <3>2. QED
      BY <1>11, <2>2, <3>1, ArrivesTypes DEF Answer
  <2>4. inTime' \subseteq asked'
    BY <1>11 DEF Answer, Arrives
  <2>5. QED
    BY <1>11, <2>1, <2>3, <2>4 DEF Answer, Arrives
<1>11a. ASSUME NEW m \in Message, Stray(m) PROVE TypeOK'
  <2>1. heard' \in Seq(Packet) /\ taken' \in 0..Len(heard')
    <3>1. 0 \in 0..Servers
      OBVIOUS
    <3>2. Arrives(0, m)
      BY <1>11a DEF Stray
    <3>3. QED
      BY <3>1, <3>2, ArrivesTypes
  <2>2. QED
    BY <1>11a, <2>1 DEF Stray, Arrives
<1>12. CASE Connect
  BY <1>1, <1>12 DEF Connect
<1>13. CASE ConnectFails
  BY <1>1, <1>13 DEF ConnectFails, Refusal
<1>14. CASE UNCHANGED vars
  BY <1>14 DEF vars
<1>15. QED
  BY <1>2, <1>3, <1>4, <1>5, <1>6, <1>7, <1>8, <1>9, <1>10, <1>11, <1>12, <1>13,
     <1>14, <1>11a DEF Next, Handler, World

\* The types, for any number of servers.
THEOREM TypeCorrect == Spec => []TypeOK
  BY TypeInit, TypeStep, PTL DEF Spec

-----------------------------------------------------------------------------
(* The conversation *)

\* The first reply and the second.
LEMMA AppendedReply ==
  /\ \A a : Append(<<>>, a) = <<a>>
  /\ \A a, b : Append(<<a>>, b) = <<a, b>>
<1>1. ASSUME NEW a PROVE Append(<<>>, a) = <<a>>
  OBVIOUS
<1>2. ASSUME NEW a, NEW b PROVE Append(<<a>>, b) = <<a, b>>
  <2>1. <<a>> \in Seq({a, b}) /\ <<a, b>> \in Seq({a, b})
    OBVIOUS
  <2>2. /\ Append(<<a>>, b) \in Seq({a, b}) /\ Len(Append(<<a>>, b)) = 2
        /\ Append(<<a>>, b)[1] = a /\ Append(<<a>>, b)[2] = b
    BY <2>1, AppendProperties
  <2>3. Len(<<a, b>>) = 2 /\ <<a, b>>[1] = a /\ <<a, b>>[2] = b
    OBVIOUS
  <2>4. \A n \in 1..2 : Append(<<a>>, b)[n] = <<a, b>>[n]
    BY <2>2, <2>3
  <2>5. QED
    BY <2>1, <2>2, <2>3, <2>4, SeqEqual
<1>3. QED
  BY <1>1, <1>2

\* What is said to the client fits each point of the handler.
LEMMA TalkStep ==
  ASSUME TypeOK, TalkInv, [Next]_vars PROVE TalkInv'
<1> USE DEF TalkInv, OneFinalReply, Goto, Reply, clientVars, dnsVars
<1>1. /\ Append(<<>>, "noMethod") = <<"noMethod">>
      /\ Append(<<>>, "noAuth") = <<"noAuth">>
      /\ \A rep \in Refusal \cup {"succeeded"} :
            Append(<<"noAuth">>, rep) = <<"noAuth", rep>>
  BY AppendedReply
<1>2. CASE ClientSends \/ ClientLeaves
  BY <1>2 DEF ClientSends, ClientLeaves, Malformed
<1>3. CASE ReadFails
  BY <1>3 DEF ReadFails, Malformed
<1>4. CASE Greeting
  BY <1>1, <1>4 DEF Greeting, Malformed
<1>5. CASE Request
  BY <1>1, <1>5 DEF Request, Malformed, Refusal
<1>6. CASE ResolveFails
  BY <1>1, <1>6 DEF ResolveFails, Fail, Refusal
<1>7. CASE Ask \/ Take \/ Timeout
  BY <1>7 DEF Ask, Take, Timeout
<1>8. CASE (\E i \in 1..Servers : Answer(i)) \/ (\E m \in Message : Stray(m))
  BY <1>8 DEF Answer, Stray, Arrives
<1>9. CASE Connect
  BY <1>1, <1>9 DEF Connect
<1>10. CASE ConnectFails
  BY <1>1, <1>10 DEF ConnectFails, Refusal
<1>11. CASE UNCHANGED vars
  BY <1>11 DEF vars, Malformed
<1>12. QED
  BY <1>2, <1>3, <1>4, <1>5, <1>6, <1>7, <1>8, <1>9, <1>10, <1>11
     DEF Next, Handler, World

-----------------------------------------------------------------------------
(* The servers *)

\* A server is asked in the wait for it, and its packets are its own.
LEMMA AskStep ==
  ASSUME IInv, Ask
  PROVE  /\ AskedInv' /\ SenderInv' /\ TakenInv' /\ TimelyInv' /\ FirstInv'
         /\ FirstAnswerWins' /\ OldestOfferDecides'
<1> USE DEF IInv, Goto, clientVars, dnsVars
<1>1. /\ client.request = "name" /\ asking' = asking + 1 /\ asking' \in 1..Servers
      /\ pc = "resolve"
      /\ \/ pc' = "wait" /\ asked' = asked \cup {asking'}
         \/ pc' = "resolve" /\ asked' = asked
      /\ UNCHANGED <<client, out, gives, copies, heard, taken, late, inTime, target>>
  BY ServersIsNat DEF Ask, TypeOK
<1>2. copies[asking'] = 0
  <2>1. asking' \notin asked
    BY <1>1, ServersIsNat DEF TypeOK
  <2>2. copies[asking'] \in 0..MaxAnswers /\ ~(copies[asking'] > 0)
    BY <1>1, <2>1 DEF TypeOK, SenderInv
  <2>3. QED
    BY <2>2, BoundsAreNat
<1>3. AskedInv'
  BY <1>1 DEF AskedInv
<1>4. SenderInv' /\ TakenInv'
  BY <1>1 DEF SenderInv, TakenInv
<1>5. TimelyInv'
  BY <1>1, <1>2 DEF TimelyInv
<1>6. FirstInv'
  BY <1>1 DEF FirstInv
<1>7. FirstAnswerWins' /\ OldestOfferDecides'
  BY <1>1 DEF FirstAnswerWins, OldestOfferDecides, TalkInv
<1>8. QED
  BY <1>3, <1>4, <1>5, <1>6, <1>7

\* While there is no address, nothing taken offers one.
LEMMA TakenOffersNothing ==
  ASSUME IInv, pc \in {"greeting", "request", "resolve", "wait"}
  PROVE  \A n \in 1..taken, ip \in Ip : ~Offers(heard[n].says, ip)
<1> TAKE n \in 1..taken, ip \in Ip
<1>1. heard \in Seq(Packet) /\ taken \in 0..Len(heard) /\ Len(heard) \in Nat
  BY LenProperties DEF IInv, TypeOK
<1>2. n \in 1..Len(heard)
  BY <1>1
<1>3. heard[n].says \in Message
  <2>1. heard[n] \in Packet
    BY <1>1, <1>2, ElementOfSeq
  <2>2. QED
    BY <2>1 DEF Packet
<1>4. ParseResponse(heard[n].says) = None
  BY DEF IInv, TakenInv
<1>5. QED
  BY <1>3, <1>4, ParsedAddress

\* The oldest packet: one of another sender than the server waited for counts as
\* late, and without such a one it is that server's response.
LEMMA TakeStep ==
  ASSUME IInv, Take
  PROVE  /\ AskedInv' /\ SenderInv' /\ TakenInv' /\ TimelyInv' /\ FirstInv'
         /\ FirstAnswerWins' /\ OldestOfferDecides'
<1> USE DEF IInv, Goto, clientVars, dnsVars
<1> DEFINE i == heard[taken'].from
           m == heard[taken'].says
<1>1. /\ taken' = taken + 1 /\ taken < Len(heard)
      /\ pc = "wait" /\ target' = ParseResponse(m)
      /\ pc' = IF target' # None THEN "connect" ELSE "resolve"
      /\ late' <=> late \/ i # asking
      /\ UNCHANGED <<client, out, asking, asked, gives, copies, heard, inTime>>
  BY DEF Take
<1>2. /\ taken \in Nat /\ taken' \in 1..Len(heard) /\ m \in Message
      /\ asking \in 1..Servers
  <2>1. heard \in Seq(Packet) /\ taken \in 0..Len(heard) /\ Len(heard) \in Nat
    BY LenProperties DEF TypeOK
  <2>2. taken' \in 1..Len(heard)
    BY <1>1, <2>1
  <2>3. heard[taken'] \in Packet
    BY <2>1, <2>2, ElementOfSeq
  <2>4. asking \in 1..asking /\ asking \in 0..Servers
    BY <1>1 DEF TypeOK, AskedInv
  <2>5. QED
    BY <2>1, <2>2, <2>3, <2>4, ServersIsNat DEF Packet
<1>3. i = asking => copies[asking] > 0 /\ m = gives[asking]
  BY <1>2 DEF SenderInv
<1>4. AskedInv' /\ SenderInv'
  BY <1>1 DEF AskedInv, SenderInv
<1>5. TakenInv'
  <2>1. \A n \in 1..taken : ParseResponse(heard[n].says) = None
    BY <1>1 DEF TakenInv
  <2>2. pc' # "connect" => ParseResponse(heard[taken'].says) = None
    BY <1>1
  <2>3. \A n \in 1..taken' : n \in 1..taken \/ n = taken'
    BY <1>1, <1>2
  <2>4. pc' \in {"greeting", "request", "resolve", "wait"} =>
            \A n \in 1..taken' : ParseResponse(heard[n].says) = None
    BY <2>1, <2>2, <2>3
  <2>5. QED
    BY <1>1, <2>4 DEF TakenInv
<1>6. TimelyInv'
  BY <1>1 DEF TimelyInv
<1>7. ~late' => (target' # None <=> asking \in inTime) /\ inTime \subseteq {asking}
  BY <1>1, <1>3 DEF TimelyInv, FirstInv
<1>8. FirstInv'
  BY <1>1, <1>7 DEF FirstInv
<1>9. FirstAnswerWins'
  BY <1>1, <1>3, <1>7 DEF FirstAnswerWins, TalkInv
<1>10. OldestOfferDecides'
  <2>1. \A n \in 1..taken, ip \in Ip : ~Offers(heard[n].says, ip)
    BY <1>1, TakenOffersNothing
  <2>2. target' # None => Offers(m, target')
    BY <1>1, <1>2, ParsedAddress
  <2>3. taken' - 1 = taken /\ taken' > 0
    BY <1>1, <1>2
  <2>4. out' = <<"noAuth">> /\ heard' = heard /\ pc' # "relay"
    BY <1>1 DEF TalkInv
  <2>5. pc' = "connect" => target' # None
    BY <1>1
  <2>6. QED
    BY <2>1, <2>2, <2>3, <2>4, <2>5 DEF OldestOfferDecides
<1>11. QED
  BY <1>4, <1>5, <1>6, <1>8, <1>9, <1>10

\* A packet that comes leaves those that were taken.
LEMMA ArrivesStep ==
  ASSUME IInv, NEW i \in 0..Servers, NEW m \in Message, Arrives(i, m)
  PROVE  AskedInv' /\ TakenInv' /\ FirstAnswerWins' /\ OldestOfferDecides'
<1> USE DEF IInv
<1>1. /\ pc \in {"resolve", "wait"}
      /\ UNCHANGED <<pc, client, out, asking, asked, gives, taken, late, target>>
  BY DEF Arrives, clientVars
<1>2. AskedInv'
  BY <1>1 DEF AskedInv
<1>3. TakenInv'
  <2>1. \A n \in 1..taken : n \in 1..Len(heard)
    BY LenProperties DEF TypeOK
  <2>2. \A n \in 1..taken : heard'[n] = heard[n]
    BY <2>1, ArrivesTypes
  <2>3. QED
    BY <1>1, <2>2 DEF TakenInv
<1>4. FirstAnswerWins' /\ OldestOfferDecides'
  BY <1>1 DEF FirstAnswerWins, OldestOfferDecides, TalkInv
<1>5. QED
  BY <1>2, <1>3, <1>4

\* A response: in time if it is the first of the wait, and there to be taken.
LEMMA AnswerStep ==
  ASSUME IInv, NEW i \in 1..Servers, Answer(i)
  PROVE  /\ AskedInv' /\ SenderInv' /\ TakenInv' /\ TimelyInv' /\ FirstInv'
         /\ FirstAnswerWins' /\ OldestOfferDecides'
<1> USE DEF IInv
<1>1. /\ pc \in {"resolve", "wait"} /\ i \in asked
      /\ inTime' = IF ParseResponse(gives[i]) # None /\ pc = "wait" /\ i = asking
                   THEN inTime \cup {i} ELSE inTime
      /\ UNCHANGED <<pc, client, out, asking, asked, gives, taken, late, target>>
  BY DEF Answer, Arrives, clientVars
<1>2. /\ copies'[i] > 0
      /\ \A j \in 1..Servers : copies'[j] >= copies[j] /\ (j # i => copies'[j] = copies[j])
  <2>1. copies' = [copies EXCEPT ![i] = @ + 1] /\ \A j \in 1..Servers : copies[j] \in Nat
    BY BoundsAreNat DEF Answer, TypeOK
  <2>2. QED
    BY <2>1 DEF TypeOK
<1>3. /\ Len(heard') = Len(heard) + 1 /\ Len(heard) \in Nat
      /\ heard'[Len(heard')] = [from |-> i, says |-> gives[i]]
      /\ \A n \in 1..Len(heard) : heard'[n] = heard[n]
  <2>1. gives[i] \in Message /\ i \in 0..Servers
    BY DEF TypeOK
  <2>2. QED
    BY <2>1, ArrivesTypes, LenProperties DEF Answer, TypeOK
<1>4. AskedInv' /\ TakenInv' /\ FirstAnswerWins' /\ OldestOfferDecides'
  <2>1. gives[i] \in Message /\ i \in 0..Servers
    BY DEF TypeOK
  <2>2. QED
    BY <2>1, ArrivesStep DEF Answer
<1>5. SenderInv'
  <2>1. ASSUME NEW n \in 1..Len(heard'), heard'[n].from # 0
        PROVE  copies'[heard'[n].from] > 0 /\ heard'[n].says = gives[heard'[n].from]
    <3>1. CASE n \in 1..Len(heard)
      <4>1. heard[n].from \in 1..Servers
        <5>1. heard[n] \in Packet
          BY <3>1, ElementOfSeq DEF TypeOK
        <5>2. QED
          BY <1>3, <2>1, <3>1, <5>1, ServersIsNat DEF Packet
      <4>2. copies[heard[n].from] > 0 /\ copies[heard[n].from] \in Nat
        BY <1>3, <2>1, <3>1, <4>1, BoundsAreNat DEF SenderInv, TypeOK
      <4>3. copies'[heard[n].from] > 0
        BY <1>2, <4>1, <4>2
      <4>4. QED
        BY <1>3, <2>1, <3>1, <4>3 DEF SenderInv
    <3>2. CASE n = Len(heard')
      BY <1>2, <1>3, <3>2
    <3>3. QED
      BY <1>3, <3>1, <3>2
  <2>2. ASSUME NEW j \in 1..Servers, copies'[j] > 0 PROVE j \in asked
    BY <1>1, <1>2, <2>2 DEF SenderInv
  <2>3. QED
    BY <1>1, <2>1, <2>2 DEF SenderInv
<1>6. TimelyInv'
  BY <1>1, <1>2 DEF TimelyInv, TypeOK
<1>7. FirstInv'
  BY <1>1, <1>3 DEF FirstInv, TypeOK
<1>8. QED
  BY <1>4, <1>5, <1>6, <1>7

\* A stray packet says nothing of the servers.
LEMMA StrayStep ==
  ASSUME IInv, NEW m \in Message, Stray(m)
  PROVE  /\ AskedInv' /\ SenderInv' /\ TakenInv' /\ TimelyInv' /\ FirstInv'
         /\ FirstAnswerWins' /\ OldestOfferDecides'
<1> USE DEF IInv
<1>1. UNCHANGED <<pc, asking, asked, gives, taken, late, copies, inTime>>
  BY DEF Stray, Arrives
<1>2. /\ Len(heard') = Len(heard) + 1 /\ Len(heard) \in Nat
      /\ heard'[Len(heard')] = [from |-> 0, says |-> m]
      /\ \A n \in 1..Len(heard) : heard'[n] = heard[n]
  BY ServersIsNat, ArrivesTypes, LenProperties DEF Stray, TypeOK
<1>3. AskedInv' /\ TakenInv' /\ FirstAnswerWins' /\ OldestOfferDecides'
  BY ServersIsNat, ArrivesStep DEF Stray
<1>4. SenderInv'
  <2>1. \A n \in 1..Len(heard') : n \in 1..Len(heard) \/ n = Len(heard')
    BY <1>2
  <2>2. QED
    BY <1>1, <1>2, <2>1 DEF SenderInv
<1>5. TimelyInv' /\ FirstInv'
  BY <1>1, <1>2 DEF TimelyInv, FirstInv, TypeOK
<1>6. QED
  BY <1>3, <1>4, <1>5

-----------------------------------------------------------------------------
(* It is inductive *)

\* A connection starts with the invariant,
LEMMA IInvInit == Init => IInv
<1> SUFFICES ASSUME Init PROVE IInv
  OBVIOUS
<1>1. TalkInv
  BY DEF Init, TalkInv, OneFinalReply
<1>2. AskedInv /\ SenderInv /\ TakenInv /\ TimelyInv /\ FirstInv
  BY ServersIsNat DEF Init, AskedInv, SenderInv, TakenInv, TimelyInv, FirstInv
<1>3. FirstAnswerWins /\ OldestOfferDecides
  BY DEF Init, FirstAnswerWins, OldestOfferDecides
<1>4. QED
  BY <1>1, <1>2, <1>3, TypeInit DEF IInv

\* and every step keeps it.
LEMMA IInvStep == IInv /\ [Next]_vars => IInv'
<1> SUFFICES ASSUME IInv, [Next]_vars PROVE IInv'
  OBVIOUS
<1> DEFINE Rest == /\ AskedInv /\ SenderInv /\ TakenInv /\ TimelyInv /\ FirstInv
                   /\ FirstAnswerWins /\ OldestOfferDecides
<1>1. TypeOK' /\ TalkInv'
  BY TypeStep, TalkStep DEF IInv
<1>2. CASE UNCHANGED <<client, out, dnsVars, target>> /\ pc' \in {pc, "done"}
  <2>1. UNCHANGED <<client, out, asking, asked, gives, copies, heard, taken, late, inTime, target>>
    BY <1>2 DEF dnsVars
  <2>2. AskedInv' /\ SenderInv' /\ TakenInv' /\ TimelyInv' /\ FirstInv'
    BY <1>2, <2>1 DEF IInv, AskedInv, SenderInv, TakenInv, TimelyInv, FirstInv
  <2>3. FirstAnswerWins' /\ OldestOfferDecides'
    BY <1>2, <2>1 DEF IInv, FirstAnswerWins, OldestOfferDecides
  <2>4. QED
    BY <1>1, <2>2, <2>3 DEF IInv
<1>3. CASE Greeting \/ Request
  <2>1. /\ UNCHANGED <<client, asking, asked, gives, copies, heard, taken, late, inTime>>
        /\ pc \in {"greeting", "request"}
        /\ \/ pc' \in {"request", "done"}
           \/ pc' = "connect" /\ client.request = "ipv4"
           \/ pc' = "resolve" /\ client.request \in {"name", "badName"}
        /\ pc' = "request" => pc = "greeting"
    BY <1>3 DEF Greeting, Request, Goto, clientVars, dnsVars
  <2>2. AskedInv' /\ SenderInv' /\ TakenInv' /\ TimelyInv' /\ FirstInv'
    BY <2>1 DEF IInv, AskedInv, SenderInv, TakenInv, TimelyInv, FirstInv
  <2>3. out' # <<"noAuth", "hostUnreachable">>
    BY <1>3, AppendedReply
       DEF Greeting, Request, Goto, Reply, IInv, TalkInv, clientVars, dnsVars
  <2>4. FirstAnswerWins' /\ OldestOfferDecides'
    BY <2>1, <2>3 DEF IInv, FirstInv, FirstAnswerWins, OldestOfferDecides
  <2>5. QED
    BY <1>1, <2>2, <2>4 DEF IInv
<1>4. CASE ResolveFails
  <2>1. /\ UNCHANGED <<client, asking, asked, gives, copies, heard, taken, late, inTime, target>>
        /\ pc = "resolve" /\ pc' = "done"
    BY <1>4 DEF ResolveFails, Fail, Goto, clientVars, dnsVars
  <2>2. AskedInv' /\ SenderInv' /\ TakenInv' /\ TimelyInv' /\ FirstInv'
    BY <2>1 DEF IInv, AskedInv, SenderInv, TakenInv, TimelyInv, FirstInv
  <2>3. \A n \in 1..taken, ip \in Ip : ~Offers(heard[n].says, ip)
    BY <2>1, TakenOffersNothing
  <2>4. FirstAnswerWins' /\ OldestOfferDecides'
    BY <2>1, <2>3 DEF IInv, FirstInv, FirstAnswerWins, OldestOfferDecides
  <2>5. QED
    BY <1>1, <2>2, <2>4 DEF IInv
<1>5. CASE Ask
  BY <1>1, <1>5, AskStep DEF IInv
<1>6. CASE Take
  BY <1>1, <1>6, TakeStep DEF IInv
<1>7. CASE Timeout
  <2>1. /\ UNCHANGED <<client, out, asking, asked, gives, copies, heard, taken, late, inTime, target>>
        /\ taken = Len(heard) /\ pc = "wait" /\ pc' = "resolve"
    BY <1>7 DEF Timeout, Goto, clientVars, dnsVars
  <2>2. AskedInv' /\ SenderInv' /\ TakenInv' /\ TimelyInv' /\ FirstInv'
    BY <2>1 DEF IInv, AskedInv, SenderInv, TakenInv, TimelyInv, FirstInv
  <2>3. FirstAnswerWins' /\ OldestOfferDecides'
    BY <2>1 DEF IInv, FirstAnswerWins, OldestOfferDecides, TalkInv
  <2>4. QED
    BY <1>1, <2>2, <2>3 DEF IInv
<1>8. CASE \E i \in 1..Servers : Answer(i)
  BY <1>1, <1>8, AnswerStep DEF IInv
<1>8a. CASE \E m \in Message : Stray(m)
  BY <1>1, <1>8a, StrayStep DEF IInv
<1>9. CASE Connect \/ ConnectFails
  <2>1. /\ UNCHANGED <<client, asking, asked, gives, copies, heard, taken, late, inTime, target>>
        /\ pc = "connect" /\ pc' \in {"relay", "done"}
        /\ \E rep \in {"succeeded", "refused", "netUnreachable", "general"} :
                out' = <<"noAuth", rep>>
    BY <1>9, AppendedReply
       DEF Connect, ConnectFails, Goto, Reply, clientVars, dnsVars, IInv, TalkInv
  <2>2. AskedInv' /\ SenderInv' /\ TakenInv' /\ TimelyInv' /\ FirstInv'
    BY <2>1 DEF IInv, AskedInv, SenderInv, TakenInv, TimelyInv, FirstInv
  <2>3. FirstAnswerWins' /\ OldestOfferDecides'
    BY <2>1 DEF IInv, FirstAnswerWins, OldestOfferDecides
  <2>4. QED
    BY <1>1, <2>2, <2>3 DEF IInv
<1>10. CASE ClientSends \/ ClientLeaves \/ ReadFails \/ UNCHANGED vars
  BY <1>2, <1>10 DEF ClientSends, ClientLeaves, ReadFails, Goto, vars, clientVars
<1>11. QED
  BY <1>3, <1>4, <1>5, <1>6, <1>7, <1>8, <1>8a, <1>9, <1>10
     DEF Next, Handler, World

\* Handler, servers and what is on its way agree in every reachable state: the
\* invariant is inductive.
THEOREM Invariance == Spec => []IInv
  BY IInvInit, IInvStep, PTL DEF Spec

-----------------------------------------------------------------------------
(* What follows *)

\* On every way through the handler the client gets one final reply.
THEOREM OneReply == Spec => []OneFinalReply
<1>1. IInv => OneFinalReply
  BY DEF IInv, TalkInv
<1>2. QED
  BY <1>1, Invariance, PTL

\* Without a late packet the first server that answers in time decides.
THEOREM FirstDecides == Spec => []FirstAnswerWins
<1>1. IInv => FirstAnswerWins
  BY DEF IInv
<1>2. QED
  BY <1>1, Invariance, PTL

\* The oldest packet that offers an address decides, whoever sent it.
THEOREM OldestDecides == Spec => []OldestOfferDecides
<1>1. IInv => OldestOfferDecides
  BY DEF IInv
<1>2. QED
  BY <1>1, Invariance, PTL
=============================================================================
