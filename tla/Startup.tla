------------------------------ MODULE Startup ------------------------------
(***************************************************************************)
(* From the installed files to a tunnel that is set up: the installer      *)
(* `config --ovpn FILE [--auth-user-pass FILE]` writes the three files in  *)
(* /etc/kit-vpn one after the other, in place; enable and the supervisor   *)
(* read them, each at a time of its own, and settle subnet, ports and the  *)
(* arguments of the children.                                              *)
(*                                                                         *)
(* One installer and one enable at a time; what several enables do to each *)
(* other is in Lifecycle, what becomes of the children in Supervisor.      *)
(***************************************************************************)
EXTENDS Parameters

CONSTANTS
    Text,           \* the .ovpn files a user may have
    Creds,          \* files of credentials, two lines each
    Short,          \* one with less than two lines
    Empty,          \* what is in a file that is just truncated
    Edited,         \* configurations an administrator may write by hand
    MaxInstalls,    \* bound: calls of the installer
    MaxRestarts     \* bound: restarts of openvpn

ASSUME StartupTyped ==
    /\ MaxInstalls \in Nat /\ MaxRestarts \in Nat
    /\ Short \notin Creds \cup {None} /\ None \notin Creds
    /\ \A t \in Text : t \in Seq(Range(t))

Addresses ==
    [net : Range(Scan) \cup {c.subnet.net : c \in Edited}, last : 0..255]

\* What an administrator may write: octets and ports have their widths.  Port 0,
\* which a bind takes for any port, is left out.
ASSUME EditedTyped ==
    \A c \in Edited :
        /\ c.port \in 1..MaxPort
        /\ c.subnet.last \in 0..255 /\ c.subnet.prefix \in 0..255

\* None and Empty are values of their own.
ASSUME Distinct ==
    /\ None \notin [host : Addresses, ns : Addresses, prefix : 0..255]
    /\ None \notin {"ovpn", "subnet", "port"}
    /\ \A t \in Text, a \in Creds \cup {None} : ConfigFor(t, a) # Empty

VARIABLES
    ovpn,       \* kit.ovpn: a text, <<>> when just truncated, or None
    authFile,   \* auth.txt: credentials, Empty, or None
    conf,       \* config.toml: a configuration, Empty, or None
    inst,       \* the installer: where it is and its arguments
    pc,         \* where enable, and then the supervisor, is
    tun,        \* what it has found out and started, see NoTunnel
    foreign,    \* ports other programs listen on
    refused,    \* why the last start came to nothing
    whole,      \* the last install, if nothing was begun or edited since
    quiet,      \* no install was under way since the configuration was loaded
    installs    \* calls of the installer so far

files == <<ovpn, authFile, conf>>
startVars == <<pc, tun, refused>>
vars == <<files, inst, startVars, foreign, whole, quiet, installs>>

Idle == [pc |-> "idle", text |-> None, auth |-> None]

NoTunnel ==
    [cfg |-> None,      \* the configuration that was loaded
     used |-> {},       \* addresses the host has, or of which `ip` cannot tell
     sub |-> None,      \* the subnet
     rules |-> {},      \* the servers that have rules
     relay |-> [port |-> None, state |-> "none", target |-> None],
     vpn |-> None,      \* the text and the credentials openvpn has read
     restarts |-> 0,    \* how often it was started again
     child |-> None]    \* what the SOCKS child has been told

Init ==
    /\ ovpn = None /\ authFile = None /\ conf \in {None} \cup Edited
    /\ inst = Idle
    /\ pc = "off" /\ tun = NoTunnel /\ refused = None
    /\ foreign \in SUBSET (1..MaxPort)
    /\ whole = None /\ quiet = FALSE /\ installs = 0

-----------------------------------------------------------------------------
(* install_ovpn *)

InstGoto(from, to) ==
    /\ inst.pc = from /\ inst' = [inst EXCEPT !.pc = to]
    /\ UNCHANGED <<startVars, foreign, installs>>

\* A text that does not look like a configuration is refused before anything
\* is written.
Install(text, auth) ==
    /\ inst = Idle /\ installs < MaxInstalls
    /\ LooksLikeOvpn(text)
    /\ inst' = [pc |-> "ovpn", text |-> text, auth |-> auth]
    /\ installs' = installs + 1
    /\ UNCHANGED <<files, startVars, foreign, whole, quiet>>

\* fs::write opens with truncation and then writes.
TruncateOvpn ==
    /\ InstGoto("ovpn", "ovpnText")
    /\ ovpn' = <<>>
    /\ whole' = None /\ quiet' = FALSE
    /\ UNCHANGED <<authFile, conf>>

WriteOvpn ==
    /\ InstGoto("ovpnText", IF inst.auth = None THEN "conf" ELSE "auth")
    /\ ovpn' = inst.text
    /\ UNCHANGED <<authFile, conf, whole, quiet>>

\* The credentials are looked at only now: fewer than two lines end it here.
TruncateAuth ==
    /\ inst.auth # Short
    /\ InstGoto("auth", "authText")
    /\ authFile' = Empty
    /\ UNCHANGED <<ovpn, conf, whole, quiet>>

WriteAuth ==
    /\ InstGoto("authText", "conf")
    /\ authFile' = inst.auth
    /\ UNCHANGED <<ovpn, conf, whole, quiet>>

TruncateConf ==
    /\ InstGoto("conf", "confText")
    /\ conf' = Empty
    /\ UNCHANGED <<ovpn, authFile, whole, quiet>>

\* Mutant: credentials that lie there from an earlier install stay in use.
WriteConfKeepsAuth ==
    /\ inst.pc = "confText" /\ inst' = Idle
    /\ conf' = [ConfigFor(inst.text, inst.auth) EXCEPT !.auth = authFile # None]
    /\ whole' = [text |-> inst.text, auth |-> inst.auth]
    /\ UNCHANGED <<ovpn, authFile, startVars, foreign, quiet, installs>>

WriteConf ==
    /\ inst.pc = "confText" /\ inst' = Idle
    /\ conf' = ConfigFor(inst.text, inst.auth)
    /\ whole' = [text |-> inst.text, auth |-> inst.auth]
    /\ UNCHANGED <<ovpn, authFile, startVars, foreign, quiet, installs>>

\* It fails or is killed wherever it is; nothing is undone.
InstallFails ==
    /\ inst # Idle /\ inst' = Idle
    /\ UNCHANGED <<files, startVars, foreign, whole, quiet, installs>>

\* The administrator edits config.toml.
Edit(c) ==
    /\ inst = Idle /\ conf # None
    /\ conf' = c
    /\ whole' = None /\ quiet' = FALSE
    /\ UNCHANGED <<ovpn, authFile, inst, startVars, foreign, installs>>

-----------------------------------------------------------------------------
(* enable, and the start of the supervisor *)

\* A step of the start; what it reads, it reads as it is now.
Goto(from, to, why) ==
    /\ pc = from /\ pc' = to /\ refused' = why
    /\ UNCHANGED <<files, inst, foreign, whole, installs>>

\* config::load: every field a file lacks has its default, so a file that is
\* just truncated is a configuration.
Load ==
    /\ conf # None
    /\ Goto("off", "check", None)
    /\ tun' = [NoTunnel EXCEPT !.cfg = IF conf = Empty THEN DefaultConfig ELSE conf]
    /\ quiet' = (inst = Idle)

\* is_file
Check ==
    /\ IF ovpn = None THEN Goto("check", "off", "ovpn")
                      ELSE Goto("check", "subnet", None)
    /\ UNCHANGED <<tun, quiet>>

Pick ==
    /\ pc = "subnet"
    /\ \E used \in SUBSET {HostOf(b) : b \in Range(Bases(tun.cfg.subnet))} :
        tun' = [tun EXCEPT !.used = used, !.sub = PickSubnet(tun.cfg.subnet, used)]
    /\ IF tun'.sub = None THEN Goto("subnet", "off", "subnet")
                          ELSE Goto("subnet", "rules", None)
    /\ UNCHANGED quiet

\* The .ovpn file is read again for the servers.  One that does not resolve, or
\* whose rule cannot be added, has none.
AddRules ==
    /\ Goto("rules", "probe", None)
    /\ \E ruled \in SUBSET Range(ParseRemotes(ovpn)) :
        tun' = [tun EXCEPT !.rules = ruled]
    /\ UNCHANGED quiet

\* bind_free_port binds and lets go; the thread of the relay binds again.
Probe ==
    /\ pc = "probe"
    /\ LET p == BindFreePort(tun.cfg.port, foreign)
       IN  IF p = None THEN Goto("probe", "off", "port") /\ UNCHANGED tun
           ELSE /\ Goto("probe", "vpn", None)
                /\ tun' = [tun EXCEPT !.relay =
                            [port |-> p, state |-> "binding",
                             target |-> [ip |-> tun.sub.ns, port |-> tun.cfg.port]]]
    /\ UNCHANGED quiet

RelayBinds ==
    /\ tun.relay.state = "binding"
    /\ tun' = [tun EXCEPT !.relay.state =
                IF tun.relay.port \in foreign THEN "gone" ELSE "listening"]
    /\ UNCHANGED <<files, inst, pc, foreign, refused, whole, quiet, installs>>

\* Mutant: credentials are passed whenever there are some.
VpnReadsAny == [text |-> ovpn, auth |-> authFile]

\* openvpn reads the files as they are when it starts.
VpnReads ==
    [text |-> ovpn, auth |-> IF tun.cfg.auth THEN authFile ELSE None]

SpawnVpn ==
    /\ Goto("vpn", "socks", None)
    /\ tun' = [tun EXCEPT !.vpn = VpnReads]
    /\ UNCHANGED quiet

\* Mutant: the child is given the port of the relay.
SpawnSocksRelayPort ==
    /\ Goto("socks", "up", None)
    /\ tun' = [tun EXCEPT !.child = ParseChildSocks(
                SocksArgs(tun.sub.ns, tun.relay.port, tun.cfg.dns))]
    /\ UNCHANGED quiet

SpawnSocks ==
    /\ Goto("socks", "up", None)
    /\ tun' = [tun EXCEPT !.child = ParseChildSocks(
                SocksArgs(tun.sub.ns, tun.cfg.port, tun.cfg.dns))]
    /\ UNCHANGED quiet

\* The loop starts openvpn again with the configuration of before and the
\* files of now.
RestartVpn ==
    /\ tun.restarts < MaxRestarts
    /\ Goto("up", "up", None)
    /\ tun' = [tun EXCEPT !.vpn = VpnReads, !.restarts = @ + 1]
    /\ UNCHANGED quiet

Stop ==
    /\ Goto("up", "off", None)
    /\ tun' = NoTunnel
    /\ UNCHANGED quiet

-----------------------------------------------------------------------------
\* Another program takes a port or lets it go.
Toggle(p) ==
    /\ ~(tun.relay.state = "listening" /\ tun.relay.port = p)
    /\ foreign' = IF p \in foreign THEN foreign \ {p} ELSE foreign \cup {p}
    /\ UNCHANGED <<files, inst, startVars, whole, quiet, installs>>

Installer ==
    \/ \E t \in Text, a \in Creds \cup {Short, None} : Install(t, a)
    \/ TruncateOvpn \/ WriteOvpn
    \/ TruncateAuth \/ WriteAuth
    \/ TruncateConf \/ WriteConf
    \/ InstallFails

Start ==
    \/ Load \/ Check \/ Pick \/ AddRules
    \/ Probe \/ RelayBinds
    \/ SpawnVpn \/ SpawnSocks \/ RestartVpn

Next ==
    \/ Installer \/ \E c \in Edited : Edit(c)
    \/ Start \/ Stop
    \/ \E p \in 1..MaxPort : Toggle(p)

Spec == Init /\ [][Next]_vars

-----------------------------------------------------------------------------
(* Properties *)

TypeOK ==
    /\ ovpn \in Text \cup {None, <<>>}
    /\ authFile \in Creds \cup {Empty, None}
    /\ \/ conf \in {None, Empty} \cup Edited
       \/ \E t \in Text, a \in {None} \cup Creds : conf = ConfigFor(t, a)
    /\ inst.pc \in {"idle", "ovpn", "ovpnText", "auth", "authText", "conf", "confText"}
    /\ inst.text \in Text \cup {None} /\ inst.auth \in Creds \cup {Short, None}
    /\ pc \in {"off", "check", "subnet", "rules", "probe", "vpn", "socks", "up"}
    /\ tun.sub # None => tun.sub.host \in Addresses /\ tun.sub.ns \in Addresses
    /\ tun.relay.port \in {None} \cup 1..MaxPort
    /\ tun.relay.state \in {"none", "binding", "listening", "gone"}
    /\ refused \in {None, "ovpn", "subnet", "port"}
    /\ quiet \in BOOLEAN
    /\ installs \in 0..MaxInstalls /\ tun.restarts \in 0..MaxRestarts

\* Whatever earlier installs left behind half done, one that goes through leaves
\* three files that belong together: its own .ovpn, the servers that file names
\* or else the default ones, and credentials exactly if it was given some.
InstallMends ==
    whole # None =>
        LET named == {l.arg : l \in {k \in Range(whole.text) : k.word = "dns"}}
        IN  /\ ovpn = whole.text
            /\ Range(conf.dns) = IF named = {} THEN Range(DefaultDns) ELSE named
            /\ conf.auth = (whole.auth # None)
            /\ whole.auth # None => authFile = whole.auth

\* Configuration, .ovpn, rules and credentials are read at five different times,
\* the .ovpn again at each restart of openvpn: with no install under way since
\* the first of them, all of a tunnel comes from the last install; a server may
\* lack its rule, but none of another install has one.
TunnelOfOneInstall ==
    pc = "up" /\ quiet /\ whole # None =>
        /\ tun.vpn = whole
        /\ tun.rules \subseteq Range(ParseRemotes(whole.text))
        /\ Range(tun.child.dns) = Range(conf.dns)

OnOneLink(s) ==
    /\ s.host.net = s.ns.net /\ s.host # s.ns
    /\ s.host.last \div 4 = s.ns.last \div 4
    /\ {s.host.last % 4, s.ns.last % 4} = {1, 2}

\* Whichever port the relay had to take and whichever subnet was free, its target
\* is the address on which the SOCKS child was told to listen, the child has the
\* servers of the configuration, and both ends of the pair are hosts of one /30
\* (if the configured one is a /30), the near one not yet on the host.
RelayReachesSocks ==
    pc = "up" =>
        /\ [ip |-> tun.child.ip, port |-> tun.child.port] = tun.relay.target
        /\ tun.cfg.dns # <<>> => tun.child.dns = tun.cfg.dns
        /\ tun.sub.host \notin tun.used
        /\ tun.cfg.subnet.prefix = 30 /\ tun.cfg.subnet.last % 4 = 0 => OnOneLink(tun.sub)
=============================================================================
