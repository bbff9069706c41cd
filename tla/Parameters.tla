----------------------------- MODULE Parameters -----------------------------
(***************************************************************************)
(* What the companion computes before a tunnel is up, as operators: the    *)
(* lines it takes from an .ovpn file and the configuration written from    *)
(* them (config.rs), the subnet of the veth pair (netns.rs), the port of   *)
(* the relay (relay.rs), the arguments of the SOCKS child (supervisor.rs,  *)
(* main.rs).                                                               *)
(***************************************************************************)
EXTENDS Naturals, SequencesExt

CONSTANTS
    None,           \* no such thing
    DefaultDns,     \* DEFAULT_DNS
    DefaultPort,    \* DEFAULT_SOCKS_PORT
    DefaultSubnet,  \* DEFAULT_SUBNET
    Scan,           \* the networks 10.200.x that are tried, in their order
    MaxPort,        \* 65535
    Span            \* how many ports are tried: 20

ASSUME ParametersTyped ==
    /\ MaxPort \in Nat /\ Span \in Nat /\ DefaultPort \in 1..MaxPort
    /\ DefaultDns \in Seq(Range(DefaultDns)) \ {<<>>}
    /\ Scan \in Seq(Range(Scan))
    /\ DefaultSubnet \in [net : Range(Scan), last : 0..255, prefix : 30..32]

ASSUME NoneIsNoNumber == None \notin Nat
ASSUME NoneIsNoFlag == None \notin {"--bind-ip", "--port", "--dns", "--log"}

-----------------------------------------------------------------------------
(* .ovpn files: a text is a sequence of lines, a line a keyword and a value. *)

\* The values of the lines that have the keyword, in the order of the lines.
ArgsOf(text, word) ==
    LET taken[n \in 0..Len(text)] ==
            IF n = 0 THEN <<>>
            ELSE IF text[n].word = word THEN Append(taken[n - 1], text[n].arg)
            ELSE taken[n - 1]
    IN  taken[Len(text)]

ParseRemotes(text) == ArgsOf(text, "remote")
ParseDhcpDns(text) == ArgsOf(text, "dns")

\* "client" counts only where the text begins.
LooksLikeOvpn(text) ==
    \/ \E l \in Range(text) : l.word \in {"remote", "<ca>"}
    \/ text # <<>> /\ text[1].word = "client"

DnsFor(text) ==
    IF ParseDhcpDns(text) = <<>> THEN DefaultDns ELSE ParseDhcpDns(text)

\* Config::default, which also fills in the fields a file does not have.
DefaultConfig ==
    [port |-> DefaultPort, dns |-> DefaultDns, subnet |-> DefaultSubnet,
     auth |-> FALSE]

\* The configuration written for a text, with or without a file of credentials.
ConfigFor(text, auth) ==
    [DefaultConfig EXCEPT !.dns = DnsFor(text), !.auth = auth # None]

-----------------------------------------------------------------------------
(* pick_subnet.  An address is its first three octets and its last. *)

Address(net, last) == [net |-> net, last |-> last]
HostOf(t) == Address(t.net, t.last + 1)
NsOf(t) == Address(t.net, t.last + 2)

\* The configured base, then the scan.
Bases(subnet) ==
    <<Address(subnet.net, subnet.last)>>
        \o [i \in DOMAIN Scan |-> Address(Scan[i], 0)]

\* Mutant: the limit is one too high.
FreeBasesHigh(subnet, used) ==
    {i \in DOMAIN Bases(subnet) :
        Bases(subnet)[i].last <= 254 /\ HostOf(Bases(subnet)[i]) \notin used}

\* The positions of the bases that fit: their host address is not on the host, and
\* no octet overflows.
FreeBases(subnet, used) ==
    {i \in DOMAIN Bases(subnet) :
        Bases(subnet)[i].last <= 253 /\ HostOf(Bases(subnet)[i]) \notin used}

PairOn(base, prefix) == [host |-> HostOf(base), ns |-> NsOf(base), prefix |-> prefix]

\* The first base that fits.  A text that is no subnet at all is refused as a
\* prefix that is too short is.
PickSubnet(subnet, used) ==
    LET free == FreeBases(subnet, used)
    IN  IF subnet.prefix < 30 \/ free = {} THEN None
        ELSE PairOn(Bases(subnet)[Min(free)], subnet.prefix)

-----------------------------------------------------------------------------
(* bind_free_port *)

\* port..port.saturating_add(20), without its end
PortsTried(port) ==
    port..((IF port + Span > MaxPort THEN MaxPort ELSE port + Span) - 1)

BindFreePort(port, taken) ==
    LET free == PortsTried(port) \ taken
    IN  IF free = {} THEN None ELSE Min(free)

-----------------------------------------------------------------------------
(* The arguments of child-socks: flags and values, one list for both.  Joined *)
(* by commas and split again, an empty list is a list of one empty name.      *)

Flag(f) == [flag |-> f, val |-> None]
Arg(v) == [flag |-> None, val |-> v]

SocksArgs(ns, port, dns) ==
    <<Flag("--bind-ip"), Arg(ns), Flag("--port"), Arg(port),
      Flag("--dns"), Arg(dns), Flag("--log"), Arg("socks.log")>>

SplitJoined(dns) == IF dns = <<>> THEN <<"">> ELSE dns

\* parse_child_socks: the last value of each flag, or its default.  No value that
\* the supervisor passes looks like a flag.
ParseChildSocks(args) ==
    LET at(f) == {i \in 2..Len(args) : args[i - 1].flag = f}
        value(f, default) == IF at(f) = {} THEN default ELSE args[Max(at(f))].val
    IN  [ip |-> value("--bind-ip", None), port |-> value("--port", 0),
         dns |-> IF at("--dns") = {} THEN <<>> ELSE SplitJoined(value("--dns", None))]
=============================================================================
