--------------------------- MODULE StartupProofs ---------------------------
(***************************************************************************)
(* A start takes the files of one install and gives its children addresses *)
(* and ports that fit together, for any networks, ports, texts and         *)
(* configurations; with what the operators of Parameters compute for every *)
(* argument.                                                               *)
(***************************************************************************)
EXTENDS Startup, LeastNumber, SequenceTheorems

-----------------------------------------------------------------------------
(* The inductive invariant *)

Nets == Range(Scan) \cup {c.subnet.net : c \in Edited}

IsSubnet(s) == s.net \in Nets /\ s.last \in 0..255 /\ s.prefix \in 0..255
IsConfig(c) == c.port \in 1..MaxPort /\ IsSubnet(c.subnet)

\* The two records are records, whatever is in them.
Shape ==
    /\ inst = [pc |-> inst.pc, text |-> inst.text, auth |-> inst.auth]
    /\ tun = [cfg |-> tun.cfg, used |-> tun.used, sub |-> tun.sub,
              rules |-> tun.rules, relay |-> tun.relay, vpn |-> tun.vpn,
              restarts |-> tun.restarts, child |-> tun.child]
    /\ tun.relay = [port |-> tun.relay.port, state |-> tun.relay.state,
                    target |-> tun.relay.target]

\* What the installer has written of its arguments where it is.
InstInv ==
    /\ inst.pc = "idle" <=> inst = Idle
    /\ inst.pc # "idle" => inst.text \in Text
    /\ inst.pc \notin {"idle", "ovpn"} => whole = None /\ ~quiet
    /\ inst.pc \in {"auth", "authText", "conf", "confText"} => ovpn = inst.text
    /\ inst.pc = "auth" => inst.auth # None
    /\ inst.pc = "authText" => inst.auth \in Creds
    /\ inst.pc \in {"conf", "confText"} =>
        /\ inst.auth # Short
        /\ inst.auth # None => authFile = inst.auth

\* The files of the last install, as long as none was begun or edited since.
WholeInv ==
    whole # None =>
        /\ whole = [text |-> whole.text, auth |-> whole.auth]
        /\ whole.text \in Text /\ whole.auth \in Creds \cup {None}
        /\ ovpn = whole.text /\ conf = ConfigFor(whole.text, whole.auth)
        /\ whole.auth # None => authFile = whole.auth

Past(p) ==
    CASE p = "subnet" -> {"rules", "probe", "vpn", "socks", "up"}
      [] p = "rules" -> {"probe", "vpn", "socks", "up"}
      [] p = "probe" -> {"vpn", "socks", "up"}
      [] p = "vpn" -> {"socks", "up"}

\* What the start has settled so far fits together.
StartInv ==
    /\ pc # "off" => refused = None /\ IsConfig(tun.cfg)
    /\ pc \in Past("subnet") =>
        /\ tun.sub # None /\ tun.sub.host \notin tun.used
        /\ tun.cfg.subnet.prefix = 30 /\ tun.cfg.subnet.last % 4 = 0 => OnOneLink(tun.sub)
    /\ pc \in Past("probe") =>
        tun.relay.target = [ip |-> tun.sub.ns, port |-> tun.cfg.port]
    /\ pc = "up" =>
        tun.child = [ip |-> tun.sub.ns, port |-> tun.cfg.port,
                     dns |-> SplitJoined(tun.cfg.dns)]

\* What it has read is what the files still say, if no install touched them.
FreshInv ==
    quiet /\ whole # None =>
        /\ pc # "off" => tun.cfg = conf
        /\ pc \in Past("rules") => tun.rules \subseteq Range(ParseRemotes(ovpn))
        /\ pc \in Past("vpn") =>
            tun.vpn = [text |-> ovpn, auth |-> IF conf.auth THEN authFile ELSE None]

IInv == TypeOK /\ Shape /\ InstInv /\ WholeInv /\ StartInv /\ FreshInv

-----------------------------------------------------------------------------
(* The lines of a text: ArgsOf is a recursive function, which exists because *)
(* a least length for which it did not would have one before it.             *)

Taken(f, text, word, n) ==
    IF n = 0 THEN <<>>
    ELSE IF text[n].word = word THEN Append(f[n - 1], text[n].arg)
    ELSE f[n - 1]

TakenUpTo(f, text, word, k) == f = [n \in 0..k |-> Taken(f, text, word, n)]

\* The function that collects a keyword's values exists for every length.
LEMMA TakenExists ==
    ASSUME NEW text, NEW word, NEW m \in Nat
    PROVE  \E f : TakenUpTo(f, text, word, m)
  <1> DEFINE Bad == {k \in Nat : ~\E f : TakenUpTo(f, text, word, k)}
  <1>1. ASSUME Bad # {} PROVE FALSE
    <2>1. PICK k \in Bad : \A j \in Bad : k <= j
      BY <1>1, MinProperties
    <2>2. k \in Nat /\ ~\E f : TakenUpTo(f, text, word, k)
      BY <2>1
    <2> HIDE DEF Bad
    <2>3. CASE k = 0
      <3> DEFINE f == [n \in 0..0 |-> <<>>]
      <3>1. TakenUpTo(f, text, word, 0)
        <4>1. \A n \in 0..0 : Taken(f, text, word, n) = <<>>
          BY DEF Taken
        <4>2. QED
          BY <4>1 DEF TakenUpTo
      <3>2. QED
        BY <2>2, <2>3, <3>1
    <2>4. CASE k # 0
      <3>1. k - 1 \in Nat /\ ~(k <= k - 1)
        BY <2>2, <2>4
      <3>2. PICK f : TakenUpTo(f, text, word, k - 1)
        BY <2>1, <3>1 DEF Bad
      <3> DEFINE g == [n \in 0..k |-> Taken(f, text, word, n)]
      <3>3. \A n \in 0..(k - 1) : g[n] = f[n]
        BY <2>2, <2>4, <3>2 DEF TakenUpTo
      <3>4. \A n \in 0..k : Taken(g, text, word, n) = Taken(f, text, word, n)
        <4>1. \A n \in 0..k : n # 0 => n - 1 \in 0..(k - 1)
          BY <2>2
        <4> HIDE DEF g
        <4>2. QED
          BY <3>3, <4>1 DEF Taken
      <3>5. TakenUpTo(g, text, word, k)
        BY <3>4 DEF TakenUpTo
      <3>6. QED
        BY <2>2, <3>5
    <2>5. QED
      BY <2>3, <2>4
  <1>2. QED
    BY <1>1

\* Appending adds one to what is in a sequence.
LEMMA RangeOfAppend ==
    ASSUME NEW S, NEW q \in Seq(S), NEW x \in S
    PROVE  Append(q, x) \in Seq(S) /\ Range(Append(q, x)) = Range(q) \cup {x}
  <1>1. /\ Append(q, x) \in Seq(S) /\ Append(q, x) = q \o <<x>>
        /\ <<x>> \in Seq(S)
    BY AppendProperties, AppendIsConcat
  <1>2. Range(<<x>>) = {x}
    BY DEF Range
  <1>3. Range(q \o <<x>>) = Range(q) \cup Range(<<x>>)
    BY <1>1, RangeConcatenation
  <1>4. QED
    BY <1>1, <1>2, <1>3

\* The values of the lines with a keyword, those and no others.
ArgsIn(text, word, n) == {text[i].arg : i \in {j \in 1..n : text[j].word = word}}

\* What it has collected up to a line is of the lines up to there.
LEMMA TakenProperties ==
    ASSUME NEW text, NEW word, NEW m \in Nat,
           NEW f, TakenUpTo(f, text, word, m), NEW n \in 0..m
    PROVE  /\ f[n] \in Seq(ArgsIn(text, word, m))
           /\ Range(f[n]) = ArgsIn(text, word, n)
  <1> DEFINE S == ArgsIn(text, word, m)
             Good(k) == f[k] \in Seq(S) /\ Range(f[k]) = ArgsIn(text, word, k)
             Bad == {k \in 0..m : ~Good(k)}
  <1>1. \A k \in 0..m : f[k] = Taken(f, text, word, k)
    BY DEF TakenUpTo
  <1>2. Good(0)
    <2>1. f[0] = <<>> /\ ArgsIn(text, word, 0) = {}
      <3>1. 0 \in 0..m /\ 1..0 = {}
        OBVIOUS
      <3>2. f[0] = Taken(f, text, word, 0)
        BY <1>1, <3>1
      <3>3. QED
        BY <3>1, <3>2 DEF Taken, ArgsIn
    <2>2. <<>> \in Seq(S) /\ Range(<<>>) = {}
      BY EmptySeq DEF Range
    <2>3. QED
      BY <2>1, <2>2
  <1>3. ASSUME NEW k \in 1..m, Good(k - 1) PROVE Good(k)
    <2>1. k - 1 \in 0..m /\ k \in 0..m /\ k # 0
      OBVIOUS
    <2>2. ArgsIn(text, word, k) = IF text[k].word = word
                                  THEN ArgsIn(text, word, k - 1) \cup {text[k].arg}
                                  ELSE ArgsIn(text, word, k - 1)
      <3>1. \A j : j \in 1..k <=> (j \in 1..(k - 1) \/ j = k)
        OBVIOUS
      <3>2. QED
        BY <3>1 DEF ArgsIn
    <2>3. CASE text[k].word = word
      <3>1. f[k] = Append(f[k - 1], text[k].arg)
        BY <1>1, <2>1, <2>3 DEF Taken
      <3>2. text[k].arg \in S
        BY <2>3 DEF ArgsIn
      <3>3. f[k] \in Seq(S) /\ Range(f[k]) = Range(f[k - 1]) \cup {text[k].arg}
        BY <1>3, <3>1, <3>2, RangeOfAppend
      <3>4. QED
        BY <1>3, <2>2, <2>3, <3>3
    <2>4. CASE text[k].word # word
      <3>1. f[k] = f[k - 1]
        BY <1>1, <2>1, <2>4 DEF Taken
      <3>2. QED
        BY <1>3, <2>2, <2>4, <3>1
    <2>5. QED
      BY <2>3, <2>4
  <1>4. ASSUME Bad # {} PROVE FALSE
    <2>1. Bad \in SUBSET Nat
      OBVIOUS
    <2>2. PICK k \in Bad : \A j \in Bad : k <= j
      BY <1>4, <2>1, MinProperties
    <2>3. k \in 0..m /\ ~Good(k)
      BY <2>2
    <2> HIDE DEF Good
    <2>4. k \in 1..m /\ k - 1 \in 0..m /\ ~(k <= k - 1)
      BY <1>2, <2>3
    <2>5. Good(k - 1)
      BY <2>2, <2>4
    <2>6. QED
      BY <1>3, <2>3, <2>4, <2>5
  <1>5. QED
    BY <1>4

\* ArgsOf gives the values of the lines with the keyword, all of them.
LEMMA ArgsOfProperties ==
    ASSUME NEW text, text \in Seq(Range(text)), NEW word
    PROVE  /\ ArgsOf(text, word) \in Seq(ArgsIn(text, word, Len(text)))
           /\ Range(ArgsOf(text, word)) =
                {l.arg : l \in {k \in Range(text) : k.word = word}}
  <1>1. Len(text) \in Nat /\ DOMAIN text = 1..Len(text)
    BY LenProperties
  <1>2. \E f : TakenUpTo(f, text, word, Len(text))
    BY <1>1, TakenExists
  <1>3. PICK f : /\ TakenUpTo(f, text, word, Len(text))
                 /\ ArgsOf(text, word) = f[Len(text)]
    BY <1>2 DEF TakenUpTo, Taken, ArgsOf
  <1>4. Len(text) \in 0..Len(text)
    BY <1>1
  <1>5. /\ ArgsOf(text, word) \in Seq(ArgsIn(text, word, Len(text)))
        /\ Range(ArgsOf(text, word)) = ArgsIn(text, word, Len(text))
    BY <1>1, <1>3, <1>4, TakenProperties
  <1>6. ArgsIn(text, word, Len(text)) = {l.arg : l \in {k \in Range(text) : k.word = word}}
    BY <1>1 DEF ArgsIn, Range
  <1>7. QED
    BY <1>5, <1>6

\* A configuration always names servers: those of the text, or the default ones.
LEMMA DnsForProperties ==
    ASSUME NEW text, text \in Seq(Range(text))
    PROVE  LET named == {l.arg : l \in {k \in Range(text) : k.word = "dns"}}
           IN  /\ DnsFor(text) # <<>>
               /\ Range(DnsFor(text)) = IF named = {} THEN Range(DefaultDns) ELSE named
  <1> DEFINE named == {l.arg : l \in {k \in Range(text) : k.word = "dns"}}
             dns == ParseDhcpDns(text)
             S == ArgsIn(text, "dns", Len(text))
  <1>1. dns \in Seq(S) /\ Range(dns) = named
    BY ArgsOfProperties DEF ParseDhcpDns
  <1>2. dns = <<>> <=> Range(dns) = {}
    <2>1. dns = <<>> => Range(dns) = {}
      BY DEF Range
    <2>2. ASSUME dns # <<>> PROVE Range(dns) # {}
      <3>1. Len(dns) \in Nat \ {0} /\ DOMAIN dns = 1..Len(dns)
        BY <1>1, <2>2, EmptySeq, LenProperties
      <3>2. 1 \in DOMAIN dns
        BY <3>1
      <3>3. QED
        BY <3>2 DEF Range
    <2>3. QED
      BY <2>1, <2>2
  <1>3. DefaultDns # <<>>
    BY ParametersTyped
  <1> HIDE DEF dns, named
  <1>4. DnsFor(text) = IF dns = <<>> THEN DefaultDns ELSE dns
    BY DEF DnsFor, dns
  <1>5. QED
    BY <1>1, <1>2, <1>3, <1>4 DEF named

-----------------------------------------------------------------------------
(* The subnet, the port and the arguments *)

\* The first base is the configured one, the others are those of the scan.
LEMMA BasesProperties ==
    ASSUME NEW subnet, IsSubnet(subnet)
    PROVE  /\ Bases(subnet) \in Seq(Addresses)
           /\ Len(Bases(subnet)) = Len(Scan) + 1
           /\ Bases(subnet)[1] = Address(subnet.net, subnet.last)
           /\ \A i \in DOMAIN Scan : Bases(subnet)[i + 1] = Address(Scan[i], 0)
  <1>1. /\ Scan \in Seq(Range(Scan)) /\ Len(Scan) \in Nat
        /\ DOMAIN Scan = 1..Len(Scan)
        /\ \A i \in 1..Len(Scan) : Scan[i] \in Range(Scan)
    BY ParametersTyped, LenProperties, ElementOfSeq
  <1> DEFINE own == <<Address(subnet.net, subnet.last)>>
             scan == [i \in DOMAIN Scan |-> Address(Scan[i], 0)]
  <1>2. Address(subnet.net, subnet.last) \in Addresses
    BY DEF IsSubnet, Nets, Address, Addresses
  <1>3. own \in Seq(Addresses) /\ Len(own) = 1 /\ own[1] = Address(subnet.net, subnet.last)
    BY <1>2
  <1>4. scan \in Seq(Addresses) /\ Len(scan) = Len(Scan)
    <2>1. \A i \in 1..Len(Scan) : Address(Scan[i], 0) \in Addresses
      BY <1>1 DEF Address, Addresses
    <2>2. QED
      BY <1>1, <2>1
  <1>5. Bases(subnet) = own \o scan
    BY DEF Bases
  <1>6. \A i \in DOMAIN Scan : scan[i] = Address(Scan[i], 0)
    OBVIOUS
  <1> HIDE DEF own, scan
  <1>7. /\ own \o scan \in Seq(Addresses)
        /\ Len(own \o scan) = Len(own) + Len(scan)
        /\ \A i \in 1..(Len(own) + Len(scan)) :
                (own \o scan)[i] = IF i <= Len(own) THEN own[i] ELSE scan[i - Len(own)]
    BY <1>3, <1>4, ConcatProperties
  <1>8. (own \o scan)[1] = own[1]
    BY <1>1, <1>3, <1>4, <1>7
  <1>9. ASSUME NEW i \in DOMAIN Scan PROVE (own \o scan)[i + 1] = scan[i]
    <2>1. i + 1 \in 1..(1 + Len(Scan)) /\ ~(i + 1 <= 1) /\ (i + 1) - 1 = i
      BY <1>1
    <2>2. QED
      BY <1>3, <1>4, <1>7, <2>1
  <1>10. QED
    BY <1>1, <1>3, <1>4, <1>5, <1>6, <1>7, <1>8, <1>9

\* Both ends of the pair are addresses, the near one is not in use, and a /30 that
\* begins where one may has them both.
LEMMA PickSubnetProperties ==
    ASSUME NEW subnet, IsSubnet(subnet), NEW used,
           NEW sub, sub = PickSubnet(subnet, used), sub # None
    PROVE  /\ sub.host \in Addresses /\ sub.ns \in Addresses
           /\ sub.host \notin used
           /\ subnet.prefix = 30 /\ subnet.last % 4 = 0 => OnOneLink(sub)
  <1> DEFINE bases == Bases(subnet)
             free == FreeBases(subnet, used)
             base == bases[Min(free)]
  <1>1. /\ Len(Scan) \in Nat /\ DOMAIN Scan = 1..Len(Scan)
        /\ bases \in Seq(Addresses) /\ Len(bases) = Len(Scan) + 1
        /\ DOMAIN bases = 1..(Len(Scan) + 1)
        /\ bases[1] = Address(subnet.net, subnet.last)
        /\ \A i \in DOMAIN Scan : bases[i + 1] = Address(Scan[i], 0)
    BY ParametersTyped, LenProperties, BasesProperties
  <1> HIDE DEF bases
  <1>2. free = {i \in DOMAIN bases :
                    bases[i].last <= 253 /\ HostOf(bases[i]) \notin used}
    BY DEF FreeBases, bases
  <1> HIDE DEF free
  <1>3. sub = IF subnet.prefix < 30 \/ free = {} THEN None
              ELSE PairOn(base, subnet.prefix)
    BY DEF PickSubnet, free, bases
  <1>4. CASE subnet.prefix < 30
    BY <1>3, <1>4
  <1>5. CASE free = {}
    BY <1>3, <1>5
  <1>6. CASE subnet.prefix \in 30..255 /\ free # {}
    <2>1. free \in SUBSET Nat
      BY <1>1, <1>2
    <2>2. Min(free) \in free
      BY <1>6, <2>1, MinProperties
    <2>3. /\ Min(free) \in 1..(Len(Scan) + 1)
          /\ base.last <= 253 /\ HostOf(base) \notin used
      BY <1>1, <1>2, <2>2
    <2>4. base \in Addresses
      BY <1>1, <2>3, ElementOfSeq
    <2>5. base.net \in Nets /\ base.last \in 0..253
      <3>1. \A a \in Addresses : a.last <= 253 => a.net \in Nets /\ a.last \in 0..253
        BY DEF Addresses, Nets
      <3>2. QED
        BY <2>3, <2>4, <3>1
    <2>6. Min(free) = 1 \/ Min(free) - 1 \in DOMAIN Scan
      BY <1>1, <2>3
    <2>7. base = Address(subnet.net, subnet.last) \/ base.last = 0
      <3>1. CASE Min(free) = 1
        BY <1>1, <3>1
      <3>2. CASE Min(free) - 1 \in DOMAIN Scan
        <4>1. (Min(free) - 1) + 1 = Min(free)
          BY <2>3
        <4>2. base = Address(Scan[Min(free) - 1], 0)
          BY <1>1, <3>2, <4>1
        <4>3. QED
          BY <4>2 DEF Address
      <3>3. QED
        BY <2>6, <3>1, <3>2
    <2> HIDE DEF base
    <2>8. sub = [host |-> HostOf(base), ns |-> NsOf(base), prefix |-> subnet.prefix]
      <3>1. ~(subnet.prefix < 30)
        BY <1>6
      <3>2. QED
        BY <1>3, <1>6, <3>1 DEF PairOn
    <2>9. /\ sub.host = [net |-> base.net, last |-> base.last + 1]
          /\ sub.ns = [net |-> base.net, last |-> base.last + 2]
      BY <2>8 DEF HostOf, NsOf, Address
    <2>10. sub.host \in Addresses /\ sub.ns \in Addresses
      BY <2>5, <2>9 DEF Addresses, Nets
    <2>11. sub \in [host : Addresses, ns : Addresses, prefix : 0..255]
      BY <1>6, <2>8, <2>10
    <2>12. sub # None
      BY <2>11, Distinct
    <2>13. ASSUME subnet.last % 4 = 0 PROVE OnOneLink(sub)
      <3>1. base.last % 4 = 0
        BY <2>7, <2>13 DEF Address
      <3>2. /\ (base.last + 1) % 4 = 1 /\ (base.last + 2) % 4 = 2
            /\ (base.last + 1) \div 4 = (base.last + 2) \div 4
            /\ base.last + 1 # base.last + 2
        BY <2>5, <3>1
      <3>3. QED
        BY <2>9, <3>2 DEF OnOneLink
    <2>14. QED
      BY <2>3, <2>8, <2>10, <2>12, <2>13
  <1>7. QED
    BY <1>4, <1>5, <1>6 DEF IsSubnet

\* The port of the relay, if there is one, is a port.
LEMMA BindFreePortProperties ==
    ASSUME NEW port \in 1..MaxPort, NEW taken,
           NEW p, p = BindFreePort(port, taken)
    PROVE  p # None => p \in 1..MaxPort
  <1> DEFINE free == PortsTried(port) \ taken
  <1>1. MaxPort \in Nat /\ Span \in Nat /\ None \notin Nat
    BY ParametersTyped, NoneIsNoNumber
  <1>2. free \in SUBSET (1..MaxPort)
    BY <1>1 DEF PortsTried
  <1> HIDE DEF free
  <1>3. p = IF free = {} THEN None ELSE Min(free)
    BY DEF BindFreePort, free
  <1>4. free # {} => Min(free) \in free
    <2>1. free \in SUBSET Nat
      BY <1>1, <1>2
    <2>2. QED
      BY <2>1, MinProperties
  <1>5. QED
    BY <1>2, <1>3, <1>4

\* The child is told what the supervisor passes.
LEMMA ChildSocks ==
    ASSUME NEW ns, NEW port, NEW dns
    PROVE  ParseChildSocks(SocksArgs(ns, port, dns))
            = [ip |-> ns, port |-> port, dns |-> SplitJoined(dns)]
  <1> DEFINE args == SocksArgs(ns, port, dns)
             at(f) == {i \in 2..Len(args) : args[i - 1].flag = f}
  <1>1. Len(args) = 8
    BY DEF SocksArgs
  <1>2. /\ args[1].flag = "--bind-ip" /\ args[3].flag = "--port"
        /\ args[5].flag = "--dns" /\ args[7].flag = "--log"
        /\ args[2].flag = None /\ args[4].flag = None /\ args[6].flag = None
        /\ args[2].val = ns /\ args[4].val = port /\ args[6].val = dns
    BY DEF SocksArgs, Flag, Arg
  <1>3. at("--bind-ip") = {2} /\ at("--port") = {4} /\ at("--dns") = {6}
    <2>1. \A i \in 2..8 : i - 1 \in {1, 2, 3, 4, 5, 6, 7}
      OBVIOUS
    <2> HIDE DEF args
    <2>2. QED
      BY <1>1, <1>2, <2>1, NoneIsNoFlag
  <1>4. Max({2}) = 2 /\ Max({4}) = 4 /\ Max({6}) = 6
    BY DEF Max
  <1> HIDE DEF args
  <1>5. QED
    BY <1>2, <1>3, <1>4 DEF ParseChildSocks, args

-----------------------------------------------------------------------------
(* The installer and the administrator *)

InstPc == {"idle", "ovpn", "ovpnText", "auth", "authText", "conf", "confText"}
Confs == {None, Empty} \cup Edited \cup
            {ConfigFor(t, a) : t \in Text, a \in {None} \cup Creds}

\* TypeOK, by names for its long sets.
LEMMA FileTypes ==
    TypeOK <=> /\ ovpn \in Text \cup {None, <<>>}
               /\ authFile \in Creds \cup {Empty, None}
               /\ conf \in Confs
               /\ inst.pc \in InstPc
               /\ inst.text \in Text \cup {None} /\ inst.auth \in Creds \cup {Short, None}
               /\ pc \in {"off", "check", "subnet", "rules", "probe", "vpn", "socks", "up"}
               /\ tun.sub # None => tun.sub.host \in Addresses /\ tun.sub.ns \in Addresses
               /\ tun.relay.port \in {None} \cup 1..MaxPort
               /\ tun.relay.state \in {"none", "binding", "listening", "gone"}
               /\ refused \in {None, "ovpn", "subnet", "port"}
               /\ quiet \in BOOLEAN
               /\ installs \in 0..MaxInstalls /\ tun.restarts \in 0..MaxRestarts
  BY DEF TypeOK, Confs, InstPc

\* What it does not touch is as it was, and a file it does touch is not taken for
\* one of a start before.
LEMMA InstallerKeeps ==
    ASSUME IInv, UNCHANGED startVars,
           ovpn' \in Text \cup {None, <<>>}, authFile' \in Creds \cup {Empty, None},
           conf' \in Confs, inst'.pc \in InstPc, inst'.text \in Text \cup {None},
           inst'.auth \in Creds \cup {Short, None},
           inst' = [pc |-> inst'.pc, text |-> inst'.text, auth |-> inst'.auth],
           quiet' \in BOOLEAN, installs' \in 0..MaxInstalls,
           InstInv', WholeInv',
           quiet' /\ whole' # None => quiet /\ UNCHANGED <<files, whole>>
    PROVE  IInv'
  <1>1. TypeOK'
    BY FileTypes DEF IInv, startVars, TypeOK, Confs, InstPc
  <1>2. Shape'
    BY DEF IInv, Shape, startVars
  <1>3. StartInv' /\ FreshInv'
    BY DEF IInv, StartInv, FreshInv, startVars, files
  <1>4. QED
    BY <1>1, <1>2, <1>3 DEF IInv

\* A step of the installer from one place to the next.
LEMMA InstGotoStep ==
    ASSUME IInv, NEW from \in InstPc \ {"idle"}, NEW to \in InstPc \ {"idle"},
           InstGoto(from, to)
    PROVE  /\ inst'.pc = to /\ inst'.text = inst.text /\ inst'.auth = inst.auth
           /\ inst' = [pc |-> inst'.pc, text |-> inst'.text, auth |-> inst'.auth]
           /\ inst' # Idle /\ inst.pc = from
           /\ inst.text \in Text /\ inst.auth \in Creds \cup {Short, None}
           /\ UNCHANGED <<startVars, installs>>
           /\ TypeOK
  <1>1. inst = [pc |-> inst.pc, text |-> inst.text, auth |-> inst.auth]
    BY DEF IInv, Shape
  <1>2. inst.pc = from /\ inst' = [pc |-> to, text |-> inst.text, auth |-> inst.auth]
    BY <1>1 DEF InstGoto
  <1>3. QED
    BY <1>1, <1>2 DEF InstGoto, Idle, IInv, InstInv, TypeOK

\* An install begins with its arguments.
LEMMA InstallStep ==
    ASSUME IInv, NEW t \in Text, NEW a \in Creds \cup {Short, None}, Install(t, a)
    PROVE  IInv'
  <1>1. /\ inst = Idle /\ installs < MaxInstalls /\ installs' = installs + 1
        /\ inst' = [pc |-> "ovpn", text |-> t, auth |-> a]
        /\ UNCHANGED <<files, startVars, foreign, whole, quiet>>
    BY DEF Install
  <1>2. TypeOK /\ InstInv /\ WholeInv
    BY DEF IInv
  <1>3. installs' \in 0..MaxInstalls
    BY <1>1, <1>2, StartupTyped DEF TypeOK
  <1>4. inst'.pc = "ovpn" /\ inst'.text = t /\ inst'.auth = a /\ inst' # Idle
    BY <1>1 DEF Idle
  <1>5. InstInv'
    BY <1>4 DEF InstInv
  <1>6. WholeInv'
    BY <1>1, <1>2 DEF WholeInv, files
  <1>7. QED
    BY <1>1, <1>2, <1>3, <1>4, <1>5, <1>6, FileTypes, InstallerKeeps DEF files, InstPc

\* The .ovpn is truncated, then written from the installer's text.
LEMMA OvpnStep ==
    ASSUME IInv, TruncateOvpn \/ WriteOvpn
    PROVE  IInv'
  <1>1. CASE TruncateOvpn
    <2>1. /\ inst'.pc = "ovpnText" /\ inst'.text = inst.text /\ inst'.auth = inst.auth
          /\ inst' = [pc |-> inst'.pc, text |-> inst'.text, auth |-> inst'.auth]
          /\ inst' # Idle
          /\ inst.text \in Text /\ inst.auth \in Creds \cup {Short, None}
          /\ UNCHANGED <<startVars, installs>> /\ TypeOK
      BY <1>1, InstGotoStep DEF TruncateOvpn, InstPc
    <2>2. ovpn' = <<>> /\ whole' = None /\ quiet' = FALSE /\ UNCHANGED <<authFile, conf>>
      BY <1>1 DEF TruncateOvpn
    <2>3. InstInv' /\ WholeInv'
      BY <2>1, <2>2 DEF InstInv, WholeInv
    <2>4. QED
      BY <2>1, <2>2, <2>3, FileTypes, InstallerKeeps DEF InstPc
  <1>2. CASE WriteOvpn
    <2> DEFINE to == IF inst.auth = None THEN "conf" ELSE "auth"
    <2>1. /\ inst'.pc = to /\ inst'.text = inst.text /\ inst'.auth = inst.auth
          /\ inst' = [pc |-> inst'.pc, text |-> inst'.text, auth |-> inst'.auth]
          /\ inst' # Idle /\ inst.pc = "ovpnText"
          /\ inst.text \in Text /\ inst.auth \in Creds \cup {Short, None}
          /\ UNCHANGED <<startVars, installs>> /\ TypeOK
      BY <1>2, InstGotoStep DEF WriteOvpn, InstPc
    <2>2. ovpn' = inst.text /\ UNCHANGED <<authFile, conf, whole, quiet>>
      BY <1>2 DEF WriteOvpn
    <2>3. whole = None /\ ~quiet
      BY <2>1 DEF IInv, InstInv
    <2>4. InstInv' /\ WholeInv'
      BY <2>1, <2>2, <2>3, StartupTyped DEF InstInv, WholeInv
    <2>5. QED
      BY <2>1, <2>2, <2>3, <2>4, FileTypes, InstallerKeeps DEF InstPc
  <1>3. QED
    BY <1>1, <1>2

\* The credentials are truncated, then written if they are two lines.
LEMMA AuthStep ==
    ASSUME IInv, TruncateAuth \/ WriteAuth
    PROVE  IInv'
  <1>1. CASE TruncateAuth
    <2>1. /\ inst'.pc = "authText" /\ inst'.text = inst.text /\ inst'.auth = inst.auth
          /\ inst' = [pc |-> inst'.pc, text |-> inst'.text, auth |-> inst'.auth]
          /\ inst' # Idle /\ inst.pc = "auth"
          /\ inst.text \in Text /\ inst.auth \in Creds \cup {Short, None}
          /\ UNCHANGED <<startVars, installs>> /\ TypeOK
      BY <1>1, InstGotoStep DEF TruncateAuth, InstPc
    <2>2. /\ authFile' = Empty /\ inst.auth # Short
          /\ UNCHANGED <<ovpn, conf, whole, quiet>>
      BY <1>1 DEF TruncateAuth
    <2>3. whole = None /\ ~quiet /\ ovpn = inst.text /\ inst.auth \in Creds
      BY <2>1, <2>2 DEF IInv, InstInv
    <2>4. InstInv' /\ WholeInv'
      BY <2>1, <2>2, <2>3 DEF InstInv, WholeInv
    <2>5. QED
      BY <2>1, <2>2, <2>3, <2>4, FileTypes, InstallerKeeps DEF InstPc
  <1>2. CASE WriteAuth
    <2>1. /\ inst'.pc = "conf" /\ inst'.text = inst.text /\ inst'.auth = inst.auth
          /\ inst' = [pc |-> inst'.pc, text |-> inst'.text, auth |-> inst'.auth]
          /\ inst' # Idle /\ inst.pc = "authText"
          /\ inst.text \in Text /\ inst.auth \in Creds \cup {Short, None}
          /\ UNCHANGED <<startVars, installs>> /\ TypeOK
      BY <1>2, InstGotoStep DEF WriteAuth, InstPc
    <2>2. authFile' = inst.auth /\ UNCHANGED <<ovpn, conf, whole, quiet>>
      BY <1>2 DEF WriteAuth
    <2>3. whole = None /\ ~quiet /\ ovpn = inst.text /\ inst.auth \in Creds
      BY <2>1 DEF IInv, InstInv
    <2>4. InstInv' /\ WholeInv'
      BY <2>1, <2>2, <2>3, StartupTyped DEF InstInv, WholeInv
    <2>5. QED
      BY <2>1, <2>2, <2>3, <2>4, FileTypes, InstallerKeeps DEF InstPc
  <1>3. QED
    BY <1>1, <1>2

\* The configuration comes last, and makes the install whole.
LEMMA ConfStep ==
    ASSUME IInv, TruncateConf \/ WriteConf
    PROVE  IInv'
  <1>1. CASE TruncateConf
    <2>1. /\ inst'.pc = "confText" /\ inst'.text = inst.text /\ inst'.auth = inst.auth
          /\ inst' = [pc |-> inst'.pc, text |-> inst'.text, auth |-> inst'.auth]
          /\ inst' # Idle /\ inst.pc = "conf"
          /\ inst.text \in Text /\ inst.auth \in Creds \cup {Short, None}
          /\ UNCHANGED <<startVars, installs>> /\ TypeOK
      BY <1>1, InstGotoStep DEF TruncateConf, InstPc
    <2>2. conf' = Empty /\ UNCHANGED <<ovpn, authFile, whole, quiet>>
      BY <1>1 DEF TruncateConf
    <2>3. /\ whole = None /\ ~quiet /\ ovpn = inst.text /\ inst.auth # Short
          /\ inst.auth # None => authFile = inst.auth
      BY <2>1 DEF IInv, InstInv
    <2>4. InstInv' /\ WholeInv'
      BY <2>1, <2>2, <2>3 DEF InstInv, WholeInv
    <2>5. QED
      BY <2>1, <2>2, <2>3, <2>4, FileTypes, InstallerKeeps DEF InstPc, Confs
  <1>2. CASE WriteConf
    <2>1. /\ inst.pc = "confText" /\ inst' = Idle
          /\ conf' = ConfigFor(inst.text, inst.auth)
          /\ whole' = [text |-> inst.text, auth |-> inst.auth]
          /\ UNCHANGED <<ovpn, authFile, startVars, foreign, quiet, installs>>
      BY <1>2 DEF WriteConf
    <2>2. /\ TypeOK /\ ~quiet /\ ovpn = inst.text /\ inst.auth # Short
          /\ inst.auth # None => authFile = inst.auth
          /\ inst.text \in Text
      BY <2>1 DEF IInv, InstInv
    <2>3. inst.auth \in Creds \cup {None} /\ conf' \in Confs
      BY <2>1, <2>2 DEF Confs, TypeOK
    <2>4. /\ inst'.pc = "idle" /\ inst'.text = None /\ inst'.auth = None
          /\ inst' = [pc |-> inst'.pc, text |-> inst'.text, auth |-> inst'.auth]
      BY <2>1 DEF Idle
    <2>5. InstInv'
      BY <2>1, <2>4 DEF InstInv
    <2>6. WholeInv'
      BY <2>1, <2>2, <2>3 DEF WholeInv
    <2>7. QED
      BY <2>1, <2>2, <2>3, <2>4, <2>5, <2>6, FileTypes, InstallerKeeps DEF InstPc
  <1>3. QED
    BY <1>1, <1>2

\* An install that fails on its way leaves what it has written.
LEMMA InstallFailsStep ==
    ASSUME IInv, InstallFails
    PROVE  IInv'
  <1>1. /\ inst' = Idle
        /\ UNCHANGED <<files, startVars, foreign, whole, quiet, installs>>
    BY DEF InstallFails
  <1>2. TypeOK /\ InstInv /\ WholeInv
    BY DEF IInv
  <1>3. /\ inst'.pc = "idle" /\ inst'.text = None /\ inst'.auth = None
        /\ inst' = [pc |-> inst'.pc, text |-> inst'.text, auth |-> inst'.auth]
    BY <1>1 DEF Idle
  <1>4. InstInv' /\ WholeInv'
    BY <1>1, <1>2, <1>3 DEF InstInv, WholeInv, files
  <1>5. QED
    BY <1>1, <1>2, <1>3, <1>4, FileTypes, InstallerKeeps DEF InstPc, files

\* The administrator's configuration is no install's any more.
LEMMA EditStep ==
    ASSUME IInv, NEW c \in Edited, Edit(c)
    PROVE  IInv'
  <1>1. /\ inst = Idle /\ conf' = c /\ whole' = None /\ quiet' = FALSE
        /\ UNCHANGED <<ovpn, authFile, inst, startVars, foreign, installs>>
    BY DEF Edit
  <1>2. TypeOK /\ InstInv
    BY DEF IInv
  <1>3. /\ inst'.pc = "idle"
        /\ inst' = [pc |-> inst'.pc, text |-> inst'.text, auth |-> inst'.auth]
    BY <1>1 DEF Idle
  <1>4. InstInv' /\ WholeInv'
    BY <1>1, <1>2, <1>3 DEF InstInv, WholeInv
  <1>5. conf' \in Confs
    BY <1>1 DEF Confs
  <1>6. /\ ovpn' \in Text \cup {None, <<>>} /\ authFile' \in Creds \cup {Empty, None}
        /\ inst'.pc \in InstPc /\ inst'.text \in Text \cup {None}
        /\ inst'.auth \in Creds \cup {Short, None}
        /\ quiet' \in BOOLEAN /\ installs' \in 0..MaxInstalls
    BY <1>1, <1>2, FileTypes
  <1>7. UNCHANGED startVars /\ ~quiet' /\ whole' = None
    BY <1>1
  <1>8. QED
    BY <1>3, <1>4, <1>5, <1>6, <1>7, InstallerKeeps

-----------------------------------------------------------------------------
(* The start *)

StartPc == {"off", "check", "subnet", "rules", "probe", "vpn", "socks", "up"}

TunTypes ==
    /\ tun.sub # None => tun.sub.host \in Addresses /\ tun.sub.ns \in Addresses
    /\ tun.relay.port \in {None} \cup 1..MaxPort
    /\ tun.relay.state \in {"none", "binding", "listening", "gone"}
    /\ tun.restarts \in 0..MaxRestarts

TunShape ==
    /\ tun = [cfg |-> tun.cfg, used |-> tun.used, sub |-> tun.sub,
              rules |-> tun.rules, relay |-> tun.relay, vpn |-> tun.vpn,
              restarts |-> tun.restarts, child |-> tun.child]
    /\ tun.relay = [port |-> tun.relay.port, state |-> tun.relay.state,
                    target |-> tun.relay.target]

\* A step of the start touches no file and keeps what is said of them.
LEMMA StartKeeps ==
    ASSUME IInv, UNCHANGED <<files, inst, whole, installs>>,
           pc' \in StartPc, refused' \in {None, "ovpn", "subnet", "port"},
           quiet' \in BOOLEAN, quiet' => quiet \/ inst = Idle,
           TunTypes', TunShape', StartInv', FreshInv'
    PROVE  IInv'
  <1>1. TypeOK'
    BY FileTypes DEF IInv, TypeOK, StartPc, TunTypes, files
  <1>2. Shape'
    BY DEF IInv, Shape, TunShape
  <1>3. InstInv' /\ WholeInv'
    BY DEF IInv, InstInv, WholeInv, files
  <1>4. QED
    BY <1>1, <1>2, <1>3 DEF IInv

\* What load reads is a configuration, the defaults where the file is empty.
LEMMA ConfigIsConfig ==
    ASSUME NEW c \in Confs \ {None}
    PROVE  IsConfig(IF c = Empty THEN DefaultConfig ELSE c)
  <1>1. IsSubnet(DefaultSubnet) /\ DefaultPort \in 1..MaxPort
    BY ParametersTyped DEF IsSubnet, Nets
  <1>2. IsConfig(DefaultConfig)
    BY <1>1 DEF IsConfig, DefaultConfig
  <1>3. \A t, a : IsConfig(ConfigFor(t, a))
    BY <1>1 DEF IsConfig, ConfigFor, DefaultConfig
  <1>4. \A e \in Edited : IsConfig(e)
    BY EditedTyped DEF IsConfig, IsSubnet, Nets
  <1>5. QED
    BY <1>2, <1>3, <1>4 DEF Confs

\* A start begins with nothing but its configuration.
LEMMA NoTunnelTypes ==
    ASSUME NEW c, NEW t, t = [NoTunnel EXCEPT !.cfg = c]
    PROVE  /\ t.cfg = c /\ t.sub = None /\ t.relay.port = None
           /\ t.relay.state = "none" /\ t.restarts = 0
           /\ t = [cfg |-> t.cfg, used |-> t.used, sub |-> t.sub,
                   rules |-> t.rules, relay |-> t.relay, vpn |-> t.vpn,
                   restarts |-> t.restarts, child |-> t.child]
           /\ t.relay = [port |-> t.relay.port, state |-> t.relay.state,
                         target |-> t.relay.target]
  BY DEF NoTunnel

\* load: the configuration is what the file says now.
LEMMA LoadStep ==
    ASSUME IInv, Load
    PROVE  IInv'
  <1> DEFINE c == IF conf = Empty THEN DefaultConfig ELSE conf
  <1>1. /\ conf # None /\ pc' = "check" /\ refused' = None
        /\ tun' = [NoTunnel EXCEPT !.cfg = c]
        /\ quiet' = (inst = Idle)
        /\ UNCHANGED <<files, inst, foreign, whole, installs>>
    BY DEF Load, Goto
  <1>2. TypeOK /\ WholeInv
    BY DEF IInv
  <1>3. IsConfig(c)
    BY <1>1, <1>2, FileTypes, ConfigIsConfig
  <1> HIDE DEF c
  <1>4. TunTypes' /\ TunShape' /\ tun'.cfg = c
    <2>1. /\ tun'.cfg = c /\ tun'.sub = None /\ tun'.relay.port = None
          /\ tun'.relay.state = "none" /\ tun'.restarts = 0
          /\ tun' = [cfg |-> tun'.cfg, used |-> tun'.used, sub |-> tun'.sub,
                     rules |-> tun'.rules, relay |-> tun'.relay, vpn |-> tun'.vpn,
                     restarts |-> tun'.restarts, child |-> tun'.child]
          /\ tun'.relay = [port |-> tun'.relay.port, state |-> tun'.relay.state,
                           target |-> tun'.relay.target]
      BY <1>1, NoTunnelTypes
    <2>2. 0 \in 0..MaxRestarts
      BY StartupTyped
    <2>3. QED
      BY <2>1, <2>2 DEF TunTypes, TunShape
  <1>5. quiet' \in BOOLEAN
    BY <1>1
  <1>6. StartInv'
    BY <1>1, <1>3, <1>4 DEF StartInv, Past
  <1>7. whole # None => c = conf
    BY <1>2, Distinct DEF WholeInv, c
  <1>8. FreshInv'
    BY <1>1, <1>4, <1>7 DEF FreshInv, Past, files
  <1>9. QED
    BY <1>1, <1>4, <1>5, <1>6, <1>8, StartKeeps DEF StartPc

\* Without an .ovpn the start is refused.
LEMMA CheckStep ==
    ASSUME IInv, Check
    PROVE  IInv'
  <1>1. /\ pc = "check" /\ UNCHANGED <<tun, quiet>>
        /\ \/ pc' = "off" /\ refused' = "ovpn"
           \/ pc' = "subnet" /\ refused' = None
        /\ UNCHANGED <<files, inst, foreign, whole, installs>>
    BY DEF Check, Goto
  <1>2. TypeOK /\ Shape /\ StartInv /\ FreshInv
    BY DEF IInv
  <1>3. TunTypes' /\ TunShape'
    BY <1>1, <1>2 DEF TypeOK, Shape, TunTypes, TunShape
  <1>4. StartInv' /\ FreshInv'
    BY <1>1, <1>2 DEF StartInv, FreshInv, Past, files
  <1>5. QED
    BY <1>1, <1>2, <1>3, <1>4, StartKeeps DEF StartPc, TypeOK

\* The subnet's host address is not in use, and both ends are of one base.
LEMMA PickStep ==
    ASSUME IInv, Pick
    PROVE  IInv'
  <1>1. TypeOK /\ Shape /\ StartInv /\ FreshInv
    BY DEF IInv
  <1>2. PICK used : tun' = [tun EXCEPT !.used = used,
                                       !.sub = PickSubnet(tun.cfg.subnet, used)]
    BY DEF Pick
  <1>3. /\ pc = "subnet" /\ UNCHANGED quiet
        /\ \/ tun'.sub = None /\ pc' = "off" /\ refused' = "subnet"
           \/ tun'.sub # None /\ pc' = "rules" /\ refused' = None
        /\ UNCHANGED <<files, inst, foreign, whole, installs>>
    BY DEF Pick, Goto
  <1>4. /\ tun'.cfg = tun.cfg /\ tun'.used = used
        /\ tun'.sub = PickSubnet(tun.cfg.subnet, used)
        /\ tun'.relay = tun.relay /\ tun'.restarts = tun.restarts
        /\ TunShape'
    BY <1>1, <1>2 DEF Shape, TunShape
  <1>5. IsConfig(tun.cfg) /\ IsSubnet(tun.cfg.subnet)
    BY <1>1, <1>3 DEF StartInv, IsConfig
  <1>6. tun'.sub # None =>
            /\ tun'.sub.host \in Addresses /\ tun'.sub.ns \in Addresses
            /\ tun'.sub.host \notin used
            /\ tun.cfg.subnet.prefix = 30 /\ tun.cfg.subnet.last % 4 = 0
                    => OnOneLink(tun'.sub)
    BY <1>4, <1>5, PickSubnetProperties
  <1>7. TunTypes'
    BY <1>1, <1>4, <1>6 DEF TypeOK, TunTypes
  <1>8. StartInv'
    BY <1>3, <1>4, <1>5, <1>6 DEF StartInv, Past
  <1>9. FreshInv'
    BY <1>1, <1>3, <1>4 DEF FreshInv, Past, files
  <1>10. QED
    BY <1>1, <1>3, <1>4, <1>7, <1>8, <1>9, StartKeeps DEF StartPc, TypeOK

\* The rules are of servers that the .ovpn names now.
LEMMA AddRulesStep ==
    ASSUME IInv, AddRules
    PROVE  IInv'
  <1>1. /\ pc = "rules" /\ pc' = "probe" /\ refused' = None /\ UNCHANGED quiet
        /\ \E ruled \in SUBSET Range(ParseRemotes(ovpn)) :
                tun' = [tun EXCEPT !.rules = ruled]
        /\ UNCHANGED <<files, inst, foreign, whole, installs>>
    BY DEF AddRules, Goto
  <1>2. TypeOK /\ Shape /\ StartInv /\ FreshInv
    BY DEF IInv
  <1>3. /\ tun'.rules \subseteq Range(ParseRemotes(ovpn))
        /\ tun'.cfg = tun.cfg /\ tun'.used = tun.used /\ tun'.sub = tun.sub
        /\ tun'.relay = tun.relay /\ tun'.restarts = tun.restarts
        /\ TunShape'
    BY <1>1, <1>2 DEF Shape, TunShape
  <1>4. TunTypes'
    BY <1>2, <1>3 DEF TypeOK, TunTypes
  <1>5. StartInv'
    BY <1>1, <1>2, <1>3 DEF StartInv, Past, OnOneLink
  <1>6. FreshInv'
    BY <1>1, <1>2, <1>3 DEF FreshInv, Past, files
  <1>7. QED
    BY <1>1, <1>2, <1>3, <1>4, <1>5, <1>6, StartKeeps DEF StartPc, TypeOK

\* The port is free, and the relay's target is the namespace end's address.
LEMMA ProbeStep ==
    ASSUME IInv, Probe
    PROVE  IInv'
  <1> DEFINE p == BindFreePort(tun.cfg.port, foreign)
             r == [port |-> p, state |-> "binding",
                   target |-> [ip |-> tun.sub.ns, port |-> tun.cfg.port]]
  <1>1. /\ pc = "probe" /\ UNCHANGED quiet
        /\ UNCHANGED <<files, inst, foreign, whole, installs>>
        /\ \/ pc' = "off" /\ refused' = "port" /\ UNCHANGED tun
           \/ /\ p # None /\ pc' = "vpn" /\ refused' = None
              /\ tun' = [tun EXCEPT !.relay = r]
    BY DEF Probe, Goto
  <1>2. TypeOK /\ Shape /\ StartInv /\ FreshInv
    BY DEF IInv
  <1>3. CASE pc' = "off" /\ refused' = "port" /\ UNCHANGED tun
    <2>1. TunTypes' /\ TunShape'
      BY <1>2, <1>3 DEF TypeOK, Shape, TunTypes, TunShape
    <2>2. StartInv' /\ FreshInv'
      BY <1>1, <1>2, <1>3 DEF StartInv, FreshInv, Past, files
    <2>3. QED
      BY <1>1, <1>2, <1>3, <2>1, <2>2, StartKeeps DEF StartPc, TypeOK
  <1>4. CASE /\ p # None /\ pc' = "vpn" /\ refused' = None
             /\ tun' = [tun EXCEPT !.relay = r]
    <2>1. p \in 1..MaxPort
      <3>1. tun.cfg.port \in 1..MaxPort
        BY <1>1, <1>2 DEF StartInv, IsConfig
      <3>2. QED
        BY <1>4, <3>1, BindFreePortProperties
    <2>2. /\ r.port = p /\ r.state = "binding"
          /\ r.target = [ip |-> tun.sub.ns, port |-> tun.cfg.port]
          /\ r = [port |-> r.port, state |-> r.state, target |-> r.target]
      OBVIOUS
    <2> HIDE DEF p, r
    <2>3. /\ tun'.relay = r
          /\ tun'.cfg = tun.cfg /\ tun'.used = tun.used /\ tun'.sub = tun.sub
          /\ tun'.rules = tun.rules /\ tun'.restarts = tun.restarts
          /\ TunShape'
      BY <1>2, <1>4, <2>2 DEF Shape, TunShape
    <2>4. TunTypes'
      BY <1>2, <2>1, <2>2, <2>3 DEF TypeOK, TunTypes
    <2>5. StartInv'
      BY <1>1, <1>2, <1>4, <2>2, <2>3 DEF StartInv, Past, OnOneLink
    <2>6. FreshInv'
      BY <1>1, <1>2, <1>4, <2>3 DEF FreshInv, Past, files
    <2>7. QED
      BY <1>1, <1>2, <1>4, <2>3, <2>4, <2>5, <2>6, StartKeeps DEF StartPc, TypeOK
  <1>5. QED
    BY <1>1, <1>3, <1>4

\* Whether the relay gets its port changes nothing else.
LEMMA RelayBindsStep ==
    ASSUME IInv, RelayBinds
    PROVE  IInv'
  <1> DEFINE st == IF tun.relay.port \in foreign THEN "gone" ELSE "listening"
  <1>1. /\ tun' = [tun EXCEPT !.relay.state = st]
        /\ UNCHANGED <<files, inst, pc, foreign, refused, whole, quiet, installs>>
    BY DEF RelayBinds
  <1>2. TypeOK /\ Shape /\ StartInv /\ FreshInv
    BY DEF IInv
  <1>3. st \in {"gone", "listening"}
    OBVIOUS
  <1> HIDE DEF st
  <1>4. /\ tun'.relay = [tun.relay EXCEPT !.state = st]
        /\ tun'.cfg = tun.cfg /\ tun'.used = tun.used /\ tun'.sub = tun.sub
        /\ tun'.rules = tun.rules /\ tun'.restarts = tun.restarts
        /\ tun'.vpn = tun.vpn /\ tun'.child = tun.child
        /\ tun' = [cfg |-> tun'.cfg, used |-> tun'.used, sub |-> tun'.sub,
                   rules |-> tun'.rules, relay |-> tun'.relay, vpn |-> tun'.vpn,
                   restarts |-> tun'.restarts, child |-> tun'.child]
    BY <1>1, <1>2 DEF Shape
  <1>5. /\ tun'.relay.state = st /\ tun'.relay.port = tun.relay.port
        /\ tun'.relay.target = tun.relay.target
        /\ tun'.relay = [port |-> tun'.relay.port, state |-> tun'.relay.state,
                         target |-> tun'.relay.target]
    BY <1>2, <1>4 DEF Shape
  <1>6. TunTypes' /\ TunShape'
    BY <1>2, <1>3, <1>4, <1>5 DEF TypeOK, TunTypes, TunShape
  <1>7. StartInv'
    BY <1>1, <1>2, <1>4, <1>5 DEF StartInv, Past, OnOneLink
  <1>8. FreshInv'
    BY <1>1, <1>2, <1>4 DEF FreshInv, Past, files
  <1>9. QED
    BY <1>1, <1>2, <1>6, <1>7, <1>8, StartKeeps DEF StartPc, TypeOK

\* openvpn reads the .ovpn and the credentials now.
LEMMA SpawnVpnStep ==
    ASSUME IInv, SpawnVpn
    PROVE  IInv'
  <1>1. /\ pc = "vpn" /\ pc' = "socks" /\ refused' = None /\ UNCHANGED quiet
        /\ tun' = [tun EXCEPT !.vpn = VpnReads]
        /\ UNCHANGED <<files, inst, foreign, whole, installs>>
    BY DEF SpawnVpn, Goto
  <1>2. TypeOK /\ Shape /\ StartInv /\ FreshInv
    BY DEF IInv
  <1>3. /\ tun'.vpn = VpnReads
        /\ tun'.cfg = tun.cfg /\ tun'.used = tun.used /\ tun'.sub = tun.sub
        /\ tun'.rules = tun.rules /\ tun'.relay = tun.relay
        /\ tun'.restarts = tun.restarts
        /\ TunShape'
    BY <1>1, <1>2 DEF Shape, TunShape
  <1>4. TunTypes'
    BY <1>2, <1>3 DEF TypeOK, TunTypes
  <1>5. StartInv'
    BY <1>1, <1>2, <1>3 DEF StartInv, Past, OnOneLink
  <1>6. FreshInv'
    BY <1>1, <1>2, <1>3 DEF FreshInv, Past, files, VpnReads
  <1>7. QED
    BY <1>1, <1>2, <1>3, <1>4, <1>5, <1>6, StartKeeps DEF StartPc, TypeOK

\* The socks child parses what it was given back from its arguments.
LEMMA SpawnSocksStep ==
    ASSUME IInv, SpawnSocks
    PROVE  IInv'
  <1>1. /\ pc = "socks" /\ pc' = "up" /\ refused' = None /\ UNCHANGED quiet
        /\ tun' = [tun EXCEPT !.child = [ip |-> tun.sub.ns, port |-> tun.cfg.port,
                                         dns |-> SplitJoined(tun.cfg.dns)]]
        /\ UNCHANGED <<files, inst, foreign, whole, installs>>
    BY ChildSocks DEF SpawnSocks, Goto
  <1>2. TypeOK /\ Shape /\ StartInv /\ FreshInv
    BY DEF IInv
  <1>3. /\ tun'.child = [ip |-> tun.sub.ns, port |-> tun.cfg.port,
                         dns |-> SplitJoined(tun.cfg.dns)]
        /\ tun'.cfg = tun.cfg /\ tun'.used = tun.used /\ tun'.sub = tun.sub
        /\ tun'.rules = tun.rules /\ tun'.relay = tun.relay /\ tun'.vpn = tun.vpn
        /\ tun'.restarts = tun.restarts
        /\ TunShape'
    BY <1>1, <1>2 DEF Shape, TunShape
  <1>4. TunTypes'
    BY <1>2, <1>3 DEF TypeOK, TunTypes
  <1>5. StartInv'
    BY <1>1, <1>2, <1>3 DEF StartInv, Past, OnOneLink
  <1>6. FreshInv'
    BY <1>1, <1>2, <1>3 DEF FreshInv, Past, files
  <1>7. QED
    BY <1>1, <1>2, <1>3, <1>4, <1>5, <1>6, StartKeeps DEF StartPc, TypeOK

\* A restarted openvpn reads the same files again.
LEMMA RestartVpnStep ==
    ASSUME IInv, RestartVpn
    PROVE  IInv'
  <1>1. /\ tun.restarts < MaxRestarts
        /\ pc = "up" /\ pc' = "up" /\ refused' = None /\ UNCHANGED quiet
        /\ tun' = [tun EXCEPT !.vpn = VpnReads, !.restarts = tun.restarts + 1]
        /\ UNCHANGED <<files, inst, foreign, whole, installs>>
    BY DEF RestartVpn, Goto
  <1>2. TypeOK /\ Shape /\ StartInv /\ FreshInv
    BY DEF IInv
  <1>3. /\ tun'.vpn = VpnReads /\ tun'.restarts = tun.restarts + 1
        /\ tun'.cfg = tun.cfg /\ tun'.used = tun.used /\ tun'.sub = tun.sub
        /\ tun'.rules = tun.rules /\ tun'.relay = tun.relay /\ tun'.child = tun.child
        /\ TunShape'
    BY <1>1, <1>2 DEF Shape, TunShape
  <1>4. tun'.restarts \in 0..MaxRestarts
    BY <1>1, <1>2, <1>3, StartupTyped DEF TypeOK
  <1>5. TunTypes'
    BY <1>2, <1>3, <1>4 DEF TypeOK, TunTypes
  <1>6. StartInv'
    BY <1>1, <1>2, <1>3 DEF StartInv, Past, OnOneLink
  <1>7. FreshInv'
    BY <1>1, <1>2, <1>3 DEF FreshInv, Past, files, VpnReads
  <1>8. QED
    BY <1>1, <1>2, <1>3, <1>5, <1>6, <1>7, StartKeeps DEF StartPc, TypeOK

\* A tunnel that stops leaves nothing of itself.
LEMMA StopStep ==
    ASSUME IInv, Stop
    PROVE  IInv'
  <1>1. /\ pc' = "off" /\ refused' = None /\ UNCHANGED quiet
        /\ tun' = NoTunnel
        /\ UNCHANGED <<files, inst, foreign, whole, installs>>
    BY DEF Stop, Goto
  <1>2. TunTypes' /\ TunShape'
    BY <1>1, StartupTyped DEF NoTunnel, TunTypes, TunShape
  <1>3. StartInv' /\ FreshInv'
    BY <1>1 DEF StartInv, FreshInv, Past
  <1>4. TypeOK
    BY DEF IInv
  <1>5. QED
    BY <1>1, <1>2, <1>3, <1>4, StartKeeps DEF StartPc, TypeOK

\* The rest of the world, and a step of nobody.
LEMMA SameStep ==
    ASSUME IInv, UNCHANGED <<files, inst, startVars, whole, quiet, installs>>
    PROVE  IInv'
  <1>1. TypeOK' /\ Shape' /\ InstInv'
    BY DEF IInv, TypeOK, Shape, InstInv, files, startVars
  <1>2. WholeInv' /\ StartInv' /\ FreshInv'
    BY DEF IInv, WholeInv, StartInv, FreshInv, files, startVars
  <1>3. QED
    BY <1>1, <1>2 DEF IInv

-----------------------------------------------------------------------------
(* The theorems *)

\* Before anything is installed or started the invariant holds.
LEMMA IInvInit == Init => IInv
<1> SUFFICES ASSUME Init PROVE IInv
  OBVIOUS
<1>1. TypeOK
  <2>1. /\ inst.pc = "idle" /\ inst.text = None /\ inst.auth = None
        /\ tun.sub = None /\ tun.relay.port = None /\ tun.relay.state = "none"
        /\ tun.restarts = 0
    BY DEF Init, Idle, NoTunnel
  <2>2. 0 \in 0..MaxRestarts /\ 0 \in 0..MaxInstalls
    BY StartupTyped
  <2>3. QED
    BY <2>1, <2>2 DEF Init, TypeOK
<1>2. Shape
  BY DEF Init, Shape, Idle, NoTunnel
<1>3. InstInv /\ WholeInv /\ FreshInv
  BY DEF Init, InstInv, WholeInv, FreshInv, Idle
<1>4. StartInv
  BY DEF Init, StartInv, Past
<1>5. QED
  BY <1>1, <1>2, <1>3, <1>4 DEF IInv

\* Files, installer and start agree in every reachable state: the invariant is
\* inductive.
THEOREM Invariance == Spec => []IInv
<1>1. IInv /\ [Next]_vars => IInv'
  <2> SUFFICES ASSUME IInv, [Next]_vars PROVE IInv'
    OBVIOUS
  <2>1. CASE Installer
    BY <2>1, InstallStep, OvpnStep, AuthStep, ConfStep, InstallFailsStep DEF Installer
  <2>2. CASE \E c \in Edited : Edit(c)
    BY <2>2, EditStep
  <2>3. CASE Start
    BY <2>3, LoadStep, CheckStep, PickStep, AddRulesStep, ProbeStep, RelayBindsStep,
       SpawnVpnStep, SpawnSocksStep, RestartVpnStep DEF Start
  <2>4. CASE Stop
    BY <2>4, StopStep
  <2>5. CASE (\E p \in 1..MaxPort : Toggle(p)) \/ UNCHANGED vars
    BY <2>5, SameStep DEF Toggle, vars
  <2>6. QED
    BY <2>1, <2>2, <2>3, <2>4, <2>5 DEF Next
<1>2. QED
  BY <1>1, IInvInit, PTL DEF Spec

\* Every variable has its type: no subnet has an octet that overflowed
\* (netns.rs:97), and the relay's port is in the range.
THEOREM TypeCorrect == Spec => []TypeOK
<1>1. IInv => TypeOK
  BY DEF IInv
<1>2. QED
  BY <1>1, Invariance, PTL

\* An install that goes through leaves three files that belong together, whatever
\* earlier ones left behind half done (config.rs install_ovpn).
THEOREM Mends == Spec => []InstallMends
<1>1. ASSUME IInv, whole # None PROVE InstallMends
  <2>1. /\ whole.text \in Text /\ ovpn = whole.text
        /\ conf = ConfigFor(whole.text, whole.auth)
        /\ whole.auth # None => authFile = whole.auth
    BY <1>1 DEF IInv, WholeInv
  <2>2. conf.dns = DnsFor(whole.text) /\ conf.auth = (whole.auth # None)
    BY <2>1 DEF ConfigFor, DefaultConfig
  <2>3. whole.text \in Seq(Range(whole.text))
    BY <2>1, StartupTyped
  <2>4. QED
    BY <2>1, <2>2, <2>3, DnsForProperties DEF InstallMends
<1>2. IInv => InstallMends
  BY <1>1 DEF InstallMends
<1>3. QED
  BY <1>2, Invariance, PTL

\* A tunnel has the text, the credentials, the servers' rules and the DNS servers
\* of one install, though they are read at five times.
THEOREM OneInstall == Spec => []TunnelOfOneInstall
<1>1. ASSUME IInv, pc = "up", quiet, whole # None
      PROVE  /\ tun.vpn = whole
             /\ tun.rules \subseteq Range(ParseRemotes(whole.text))
             /\ Range(tun.child.dns) = Range(conf.dns)
  <2>1. /\ whole = [text |-> whole.text, auth |-> whole.auth]
        /\ whole.text \in Text /\ ovpn = whole.text
        /\ conf = ConfigFor(whole.text, whole.auth)
        /\ whole.auth # None => authFile = whole.auth
    BY <1>1 DEF IInv, WholeInv
  <2>2. /\ tun.cfg = conf /\ tun.rules \subseteq Range(ParseRemotes(ovpn))
        /\ tun.vpn = [text |-> ovpn, auth |-> IF conf.auth THEN authFile ELSE None]
    BY <1>1 DEF IInv, FreshInv, Past
  <2>3. conf.dns = DnsFor(whole.text) /\ conf.auth = (whole.auth # None)
    BY <2>1 DEF ConfigFor, DefaultConfig
  <2>4. tun.vpn = [text |-> whole.text, auth |-> whole.auth]
    BY <2>1, <2>2, <2>3
  <2>5. conf.dns # <<>>
    BY <2>1, <2>3, StartupTyped, DnsForProperties
  <2>6. tun.child.dns = conf.dns
    BY <1>1, <2>2, <2>5 DEF IInv, StartInv, SplitJoined
  <2>7. QED
    BY <2>1, <2>2, <2>4, <2>6
<1>2. IInv => TunnelOfOneInstall
  BY <1>1 DEF TunnelOfOneInstall
<1>3. QED
  BY <1>2, Invariance, PTL

\* The relay's target is where the SOCKS child was told to listen, and the pair's
\* addresses are two hosts of one link (supervisor.rs, netns.rs pick_subnet).
THEOREM Reaches == Spec => []RelayReachesSocks
<1>1. ASSUME IInv, pc = "up" PROVE RelayReachesSocks
  <2>1. pc \in Past("subnet") /\ pc \in Past("probe") /\ StartInv
    BY <1>1 DEF IInv, Past
  <2>2. /\ tun.child.ip = tun.sub.ns /\ tun.child.port = tun.cfg.port
        /\ tun.child.dns = SplitJoined(tun.cfg.dns)
        /\ tun.relay.target = [ip |-> tun.sub.ns, port |-> tun.cfg.port]
    BY <1>1, <2>1 DEF StartInv
  <2>3. tun.cfg.dns # <<>> => tun.child.dns = tun.cfg.dns
    BY <2>2 DEF SplitJoined
  <2>4. /\ tun.sub.host \notin tun.used
        /\ tun.cfg.subnet.prefix = 30 /\ tun.cfg.subnet.last % 4 = 0
                => OnOneLink(tun.sub)
    BY <2>1 DEF StartInv
  <2>5. QED
    BY <2>2, <2>3, <2>4 DEF RelayReachesSocks
<1>2. IInv => RelayReachesSocks
  BY <1>1 DEF RelayReachesSocks
<1>3. QED
  BY <1>2, Invariance, PTL
=============================================================================
