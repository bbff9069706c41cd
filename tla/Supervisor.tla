----------------------------- MODULE Supervisor -----------------------------
(***************************************************************************)
(* One supervisor, from its fork to its end (supervisor.rs:40-221), with   *)
(* its two children and the tun device that openvpn creates on the host    *)
(* and the supervisor moves into the namespace (netns.rs:117-203).         *)
(*                                                                         *)
(* The loop is taken apart at every look at the world, because openvpn,    *)
(* the socks child and a `helper disable` go on between any two of them.   *)
(* Time is counted in turns of the loop.                                   *)
(***************************************************************************)
EXTENDS Naturals

CONSTANTS
    MaxRestarts,    \* MAX_OPENVPN_RESTARTS
    RestartDelay    \* RESTART_DELAY, in turns of the loop

ASSUME RestartsIsNat == MaxRestarts \in Nat
ASSUME DelayIsNat == RestartDelay \in Nat

VARIABLES
    pc,         \* where the supervisor is
    state,      \* status.state, which the status file shows
    restarts,   \* restarts of openvpn so far
    elapsed,    \* turns since last_restart, counted up to RestartDelay
    stop,       \* STOP
    vpn,        \* the openvpn child: none, running, dead (and not yet reaped),
                \* or stuck: not even SIGKILL ends it
    socks,      \* the socks child, likewise
    ns,         \* whether the namespace has its name
    hostTun,    \* openvpn's device on the host: none, bare or with an address
    nsTun,      \* the device in the namespace: none, down, up, or stale, left
                \* over from an openvpn that closed it
    route       \* whether the namespace's default route goes through it

vpnVars == <<restarts, elapsed, vpn>>
tunVars == <<hostTun, nsTun, route>>
vars == <<pc, state, vpnVars, stop, socks, ns, tunVars>>

LoopPc == {"stop?", "ns?", "vpn?", "socks?", "tun?", "move", "set", "up",
           "look", "route", "sleep"}
EndPc == {"final", "stopvpn", "stopsocks", "nsdel"}
Pc == {"bind", "spawnvpn", "spawnsocks", "wait", "exited"} \cup LoopPc \cup EndPc

Init ==
    /\ pc = "bind" /\ state = "starting"
    /\ restarts = 0 /\ elapsed = 0 /\ stop = FALSE
    /\ vpn = "none" /\ socks = "none"
    /\ ns = TRUE
    /\ hostTun = "none" /\ nsTun = "none" /\ route = FALSE

Goto(from, to) == pc = from /\ pc' = to

\* openvpn closes its device, which goes away or lingers in the namespace.
CloseTun ==
    /\ hostTun' = "none"
    /\ nsTun' \in IF nsTun \in {"down", "up"} THEN {"none", "stale"} ELSE {nsTun}
    /\ route' = FALSE

-----------------------------------------------------------------------------
(* Start *)

\* No free port, or no openvpn: an error, and then only a signal helps.
Bind ==
    /\ \/ Goto("bind", "spawnvpn") /\ UNCHANGED state
       \/ Goto("bind", "wait") /\ state' = "error"
    /\ UNCHANGED <<vpnVars, stop, socks, ns, tunVars>>

SpawnVpn ==
    /\ \/ Goto("spawnvpn", "spawnsocks") /\ vpn' = "running" /\ UNCHANGED state
       \/ Goto("spawnvpn", "wait") /\ state' = "error" /\ UNCHANGED vpn
    /\ UNCHANGED <<restarts, elapsed, stop, socks, ns, tunVars>>

\* The socks child needs the namespace; last_restart starts here.
SpawnSocks ==
    /\ \/ ns /\ Goto("spawnsocks", "stop?") /\ socks' = "running"
             /\ UNCHANGED state
       \/ Goto("spawnsocks", "wait") /\ state' = "error" /\ UNCHANGED socks
    /\ elapsed' = 0
    /\ UNCHANGED <<restarts, vpn, stop, ns, tunVars>>

WaitForStop ==
    /\ stop
    /\ Goto("wait", "stopvpn")
    /\ UNCHANGED <<state, vpnVars, stop, socks, ns, tunVars>>

-----------------------------------------------------------------------------
(* The loop *)

CheckStop ==
    /\ Goto("stop?", IF stop THEN "final" ELSE "ns?")
    /\ UNCHANGED <<state, vpnVars, stop, socks, ns, tunVars>>

CheckNs ==
    /\ Goto("ns?", IF ns THEN "vpn?" ELSE "final")
    /\ state' = IF ns THEN state ELSE "error"
    /\ UNCHANGED <<vpnVars, stop, socks, ns, tunVars>>

\* Mutant: one restart too many.
RestartOnceMore ==
    /\ restarts <= MaxRestarts
    /\ elapsed >= RestartDelay
    /\ restarts' = restarts + 1
    /\ elapsed' = 0
    /\ \/ vpn' = "running" /\ state' = "starting"
       \/ vpn' = "none" /\ state' = "error"

\* Mutant: restarts are not counted.
RestartUncounted ==
    /\ elapsed >= RestartDelay
    /\ elapsed' = 0
    /\ UNCHANGED restarts
    /\ vpn' = "running" /\ state' = "starting"

\* A restart is due, and openvpn comes up or not.
Restart ==
    /\ restarts < MaxRestarts
    /\ elapsed >= RestartDelay
    /\ restarts' = restarts + 1
    /\ elapsed' = 0
    /\ \/ vpn' = "running" /\ state' = "starting"
       \/ vpn' = "none" /\ state' = "error"

\* Mutant: no status for giving up.
GiveUpSilently ==
    /\ restarts >= MaxRestarts \/ elapsed < RestartDelay
    /\ vpn' = "none"
    /\ UNCHANGED <<restarts, elapsed, state>>

\* Too many restarts, or too soon after the last one.
GiveUp ==
    /\ restarts >= MaxRestarts \/ elapsed < RestartDelay
    /\ vpn' = "none" /\ state' = "error"
    /\ UNCHANGED <<restarts, elapsed>>

ReapVpn ==
    /\ Goto("vpn?", "socks?")
    /\ \/ vpn # "dead" /\ UNCHANGED <<vpnVars, state>>
       \/ vpn = "dead" /\ (Restart \/ GiveUp)
    /\ UNCHANGED <<stop, socks, ns, tunVars>>

\* One attempt: a child that cannot be started again is not asked for later.
ReapSocks ==
    /\ Goto("socks?", "tun?")
    /\ \/ socks # "dead" /\ UNCHANGED socks
       \/ socks = "dead" /\ ns /\ socks' = "running"
       \/ socks = "dead" /\ socks' = "none"
    /\ UNCHANGED <<state, vpnVars, stop, ns, tunVars>>

\* Mutant: the device is not moved.
HostTunIgnored ==
    /\ Goto("tun?", "look")
    /\ UNCHANGED <<state, vpnVars, stop, socks, ns, tunVars>>

\* host_tun_ready
HostTunReady ==
    /\ Goto("tun?", IF hostTun = "address" THEN "move" ELSE "look")
    /\ UNCHANGED <<state, vpnVars, stop, socks, ns, tunVars>>

\* move_tun_to_netns: what lies in the namespace under that name is deleted,
MoveTunDel ==
    /\ Goto("move", "set")
    /\ nsTun' = IF ns THEN "none" ELSE nsTun
    /\ route' = (route /\ ~ns)
    /\ UNCHANGED <<state, vpnVars, stop, socks, ns, hostTun>>

\* the device moved, unless it or the namespace went away
TunMoves ==
    /\ ns /\ hostTun # "none"
    /\ Goto("set", "up") /\ hostTun' = "none" /\ nsTun' = "down"
    /\ UNCHANGED <<state, vpnVars, stop, socks, ns, route>>

\* or `ip` fails otherwise, which is logged and no more,
MoveTunSet ==
    \/ TunMoves
    \/ /\ Goto("set", "look")
       /\ UNCHANGED <<state, vpnVars, stop, socks, ns, tunVars>>

\* given its address again, and set up, if that does not fail.
MoveTunUp ==
    /\ Goto("up", "look")
    /\ \/ ns /\ nsTun = "down" /\ nsTun' = "up"
       \/ UNCHANGED nsTun
    /\ UNCHANGED <<state, vpnVars, stop, socks, ns, hostTun, route>>

TunUp == ns /\ nsTun = "up"

\* Mutant: a tunnel that went down is not told.
LookForgets ==
    /\ Goto("look", IF TunUp THEN "route" ELSE "sleep")
    /\ UNCHANGED <<state, vpnVars, stop, socks, ns, tunVars>>

\* ns_tun_ready, and what a tunnel that went down does to the status.
Look ==
    /\ Goto("look", IF TunUp THEN "route" ELSE "sleep")
    /\ state' = IF ~TunUp /\ state = "running" THEN "reconnecting" ELSE state
    /\ UNCHANGED <<vpnVars, stop, socks, ns, tunVars>>

\* ensure_ns_tun_default, and "running", whether the route was set or not.
Route ==
    /\ Goto("route", "sleep")
    /\ route' = (route \/ TunUp)
    /\ state' = "running"
    /\ UNCHANGED <<vpnVars, stop, socks, ns, hostTun, nsTun>>

Sleep ==
    /\ Goto("sleep", "stop?")
    /\ elapsed' = IF elapsed < RestartDelay THEN elapsed + 1 ELSE elapsed
    /\ UNCHANGED <<state, restarts, vpn, stop, socks, ns, tunVars>>

-----------------------------------------------------------------------------
(* The end *)

Final ==
    /\ Goto("final", "stopvpn")
    /\ state' = "stopped"
    /\ UNCHANGED <<vpnVars, stop, socks, ns, tunVars>>

\* stop_child: SIGTERM, after five seconds SIGKILL, after five more no more.
Stopped(child) == IF child = "running" THEN {"none", "stuck"} ELSE {"none"}

\* Mutant: an unbounded wait for the child.
StopVpnForever ==
    /\ pc = "stopvpn"
    /\ \/ vpn \notin {"running", "stuck"} /\ pc' = "stopsocks" /\ UNCHANGED vpn
       \/ vpn = "running" /\ vpn' \in {"dead", "stuck"} /\ UNCHANGED pc
    /\ UNCHANGED <<state, restarts, elapsed, stop, socks, ns, tunVars>>

StopVpn ==
    /\ Goto("stopvpn", "stopsocks")
    /\ vpn' \in Stopped(vpn)
    /\ IF vpn' = "none" THEN CloseTun ELSE UNCHANGED tunVars
    /\ UNCHANGED <<state, restarts, elapsed, stop, socks, ns>>

StopSocks ==
    /\ Goto("stopsocks", "nsdel")
    /\ socks' \in Stopped(socks)
    /\ UNCHANGED <<state, vpnVars, stop, ns, tunVars>>

CleanupNetns ==
    /\ Goto("nsdel", "exited")
    /\ ns' = FALSE
    /\ UNCHANGED <<state, vpnVars, stop, socks, tunVars>>

-----------------------------------------------------------------------------
(* The world *)

Sigterm ==
    /\ ~stop
    /\ stop' = TRUE
    /\ UNCHANGED <<pc, state, vpnVars, socks, ns, tunVars>>

\* ip netns del, by a helper
NsDeleted ==
    /\ ns
    /\ ns' = FALSE
    /\ UNCHANGED <<pc, state, vpnVars, stop, socks, tunVars>>

VpnDies ==
    /\ vpn = "running"
    /\ vpn' = "dead"
    /\ CloseTun
    /\ UNCHANGED <<pc, state, restarts, elapsed, stop, socks, ns>>

\* A reconnect inside openvpn closes the device and opens another one.
VpnReconnects ==
    /\ vpn = "running"
    /\ hostTun # "none" \/ nsTun \in {"down", "up"}
    /\ CloseTun
    /\ UNCHANGED <<pc, state, vpnVars, stop, socks, ns>>

VpnOpensTun ==
    /\ vpn = "running"
    /\ hostTun = "none" /\ nsTun \in {"none", "stale"}
    /\ hostTun' = "bare"
    /\ UNCHANGED <<pc, state, vpnVars, stop, socks, ns, nsTun, route>>

VpnConfiguresTun ==
    /\ vpn = "running"
    /\ hostTun = "bare"
    /\ hostTun' = "address"
    /\ UNCHANGED <<pc, state, vpnVars, stop, socks, ns, nsTun, route>>

SocksDies ==
    /\ socks = "running"
    /\ socks' = "dead"
    /\ UNCHANGED <<pc, state, vpnVars, stop, ns, tunVars>>

-----------------------------------------------------------------------------
Step ==
    \/ Bind \/ SpawnVpn \/ SpawnSocks \/ WaitForStop
    \/ CheckStop \/ CheckNs \/ ReapVpn \/ ReapSocks
    \/ HostTunReady \/ MoveTunDel \/ MoveTunSet \/ MoveTunUp
    \/ Look \/ Route \/ Sleep
    \/ Final \/ StopVpn \/ StopSocks \/ CleanupNetns

World ==
    \/ Sigterm \/ NsDeleted \/ SocksDies
    \/ VpnDies \/ VpnReconnects \/ VpnOpensTun \/ VpnConfiguresTun

Next == Step \/ World

Spec == Init /\ [][Next]_vars

\* The supervisor is scheduled, and `ip link set netns` does not fail each time
\* that it is tried and could work.  Nothing is asked of the world.
FairSpec == Spec /\ WF_vars(Step) /\ SF_vars(TunMoves)

-----------------------------------------------------------------------------
(* Properties *)

Child == {"none", "running", "dead", "stuck"}

TypeOK ==
    /\ pc \in Pc
    /\ state \in {"starting", "running", "reconnecting", "error", "stopped"}
    /\ restarts \in 0..MaxRestarts /\ elapsed \in 0..RestartDelay
    /\ stop \in BOOLEAN /\ ns \in BOOLEAN /\ route \in BOOLEAN
    /\ vpn \in Child /\ socks \in Child
    /\ hostTun \in {"none", "bare", "address"}
    /\ nsTun \in {"none", "stale", "down", "up"}

\* A supervisor that has given up openvpn says so: at the end of each turn its
\* status is "error", never a "running" or "reconnecting" of earlier days that
\* the tun checks of the same turn put back.
GivenUpShowsError == pc = "sleep" /\ vpn = "none" => state = "error"

\* The status follows the tunnel: once the device stays up, and the supervisor
\* in its loop, the status comes to "running" for good, and once it stays down
\* the status leaves "running" for good.
StatusFollowsTunnel ==
    /\ <>[](TunUp /\ pc \in LoopPc) => <>[](state = "running")
    /\ <>[](~TunUp) => <>[](state # "running")

\* A configured tun device does not stay on the host while the supervisor
\* supervises: it is moved, or its openvpn ends (README.md:57-59).
TunLeavesHost ==
    (hostTun = "address" /\ pc \in LoopPc)
        ~> (hostTun # "address" \/ pc \notin LoopPc)

\* An openvpn that keeps dying is not started for ever: from some point on
\* nothing is left to restart.
NoRestartStorm == <>[](vpn # "dead" \/ pc \notin LoopPc)

\* SIGTERM ends the supervisor, wherever it is, even with children that neither
\* SIGTERM nor SIGKILL ends, and so does the loss of its namespace in the loop.
StopEnds ==
    /\ stop ~> pc = "exited"
    /\ (~ns /\ pc \in LoopPc) ~> pc = "exited"
=============================================================================
