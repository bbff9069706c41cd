----------------------------- MODULE MCStartup -----------------------------
(* Startup with two .ovpn files, few ports and few networks.                *)
EXTENDS Startup

CONSTANTS home, work, default, dnsDefault, dnsWork, creds

Line(word, arg) == [word |-> word, arg |-> arg]

\* One file names its servers, another does not; the last is refused.
Texts ==
    {<<Line("client", None), Line("remote", home)>>,
     <<Line("remote", work), Line("dns", dnsWork), Line("remote", home)>>,
     <<Line("dns", dnsWork), Line("client", None)>>}

Subnet(net, last, prefix) == [net |-> net, last |-> last, prefix |-> prefix]

OneDns == <<dnsDefault>>
OnePort == 1
ThreePorts == 3
TwoTried == 2
UsualSubnet == Subnet(default, 0, 30)
Scanned == <<default, home>>
OneCreds == {creds}

\* By hand: a port close to the end and a base too high; no DNS servers and a
\* base that is no boundary of a /31; a prefix that is refused.
ByHand ==
    {[port |-> 2, dns |-> <<dnsWork>>, subnet |-> Subnet(work, 254, 30), auth |-> TRUE],
     [port |-> 3, dns |-> <<>>, subnet |-> Subnet(work, 253, 31), auth |-> FALSE],
     [port |-> 1, dns |-> <<dnsWork>>, subnet |-> Subnet(work, 0, 29), auth |-> FALSE]}
=============================================================================
