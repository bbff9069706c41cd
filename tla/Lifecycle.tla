----------------------------- MODULE Lifecycle -----------------------------
(***************************************************************************)
(* The life of the tunnel: `helper enable` and `helper disable` (helper.rs)*)
(* and the supervisor that an enable forks (supervisor.rs), over what they *)
(* share: the lock file, the pid file, the status file, the namespace      *)
(* called kitvpn, the veth pair and the direct-routing rules.              *)
(*                                                                         *)
(* A call is one invocation of the helper; call c forks at most one        *)
(* supervisor, and sup[c], stop[c], ... are that supervisor's.  The        *)
(* supervisor inherits the open file description of the lock, so the lock  *)
(* is held by a call, whichever of its two processes is alive.             *)
(* supervisor.rs:104-211, the supervision loop, is a single control point  *)
(* here; Supervisor.tla takes it apart.                                    *)
(***************************************************************************)
CONSTANTS
    Call,       \* the invocations of the helper
    None,       \* no call, no namespace
    HostNs,     \* the host's own network namespace
    Addr,       \* IPv4 addresses of the VPN servers
    Resolve,    \* the sets of addresses enable may get rules for: what it can
                \* resolve of the configured .ovpn and add
    ResolveDefault  \* the sets of addresses disable may get from the .ovpn at
                    \* the default path; {} if that file cannot be read

ASSUME NoneNotCall == None \notin Call
ASSUME HostNsFresh == HostNs \notin Call \cup {None}
ASSUME ResolveType == Resolve \cup ResolveDefault \subseteq SUBSET Addr

VARIABLES
    helper,     \* control point of each call
    target,     \* the call whose supervisor's pid it read from the pid file
    sup,        \* control point of each call's supervisor
    mem,        \* the supervisor's in-memory status.state
    stop,       \* its STOP flag, set by SIGTERM
    ovpn,       \* whether its openvpn child runs
    socks,      \* the namespace its socks child lives in, or None
    outlived,   \* which of its children neither SIGTERM nor SIGKILL ended
    lock,       \* the call whose open file description holds the flock, or None
    pidfile,    \* the call whose supervisor the pid file names, or None
    status,     \* the state the status file shows
    nsName,     \* the call that created the namespace named kitvpn, or None
    veth,       \* where the kitvpn1 end of the pair is: None, HostNs, or the
                \* call whose namespace it was moved to
    rules,      \* the addresses with a direct-routing rule
    mode        \* "serial" where a single native host issues all calls, one at a
                \* time, or "free"; never changes

helperVars == <<helper, target>>
childVars == <<ovpn, socks, outlived>>
supVars == <<sup, mem, stop, childVars>>
fileVars == <<lock, pidfile, status>>
netVars == <<nsName, veth, rules>>
vars == <<helperVars, supVars, fileVars, netVars, mode>>

EnablePc == {"probe", "health", "kill", "unpid", "flock", "poll", "netns",
             "veth", "plumb", "addr", "rules", "fork", "abort"}
DisablePc == {"term", "await", "nsdel", "drm", "drules", "dstatus"}
HelperPc == {"idle", "done"} \cup EnablePc \cup DisablePc

\* Between flock and the return of enable: these calls hold the lock.
Critical == {"netns", "veth", "plumb", "addr", "rules", "fork", "abort"}

LivePc == {"forked", "announce", "launch", "socks", "loop", "wait", "final",
           "unpid", "reap", "nsdel"}
SupPc == {"none", "exited", "killed"} \cup LivePc

Healthy == {"running", "starting", "reconnecting"}
State == Healthy \cup {"error", "stopped"}

Alive(c) == sup[c] \in LivePc

\* A network namespace lives while it has its name or a process in it.
NsLive(c) == nsName = c \/ \E d \in Call : socks[d] = c

\* The kernel destroys the pair with the namespace that holds one end of it.
VethExists == veth = HostNs \/ \E c \in Call : veth = c /\ NsLive(c)

Init ==
    /\ helper = [c \in Call |-> "idle"]
    /\ target = [c \in Call |-> None]
    /\ sup = [c \in Call |-> "none"]
    /\ mem = [c \in Call |-> "starting"]
    /\ stop = [c \in Call |-> FALSE]
    /\ ovpn = [c \in Call |-> FALSE]
    /\ socks = [c \in Call |-> None]
    /\ outlived = [c \in Call |-> {}]
    /\ lock = None /\ pidfile = None /\ status = "absent"
    /\ nsName = None /\ veth = None /\ rules = {}
    /\ mode \in {"serial", "free"}

-----------------------------------------------------------------------------
(* Steps *)

Goto(c, from, to) == helper[c] = from /\ helper' = [helper EXCEPT ![c] = to]
SupGoto(c, from, to) == sup[c] = from /\ sup' = [sup EXCEPT ![c] = to]

\* The pid it read goes out of scope.
Forget(c) == target' = [target EXCEPT ![c] = None]

Serial == mode = "serial"

\* The nm.rs loop runs a helper to its end before it reads the next message.
MayStart(c) == Serial => \A d \in Call : helper[d] \in {"idle", "done"}

\* set_state and write_status: the in-memory state and the file change together.
SetState(c, state) ==
    /\ mem' = [mem EXCEPT ![c] = state]
    /\ status' = state

\* A process that ends gives up the lock, unless its parent or its child
\* holds the same open file description.
Unlock(c) == lock' = IF lock = c THEN None ELSE lock

\* The supervisor's process ends, and with it the lock and all it had in memory.
SupEnds(c, how) ==
    /\ sup' = [sup EXCEPT ![c] = how]
    /\ mem' = [mem EXCEPT ![c] = "starting"]
    /\ stop' = [stop EXCEPT ![c] = FALSE]
    /\ Unlock(c)

-----------------------------------------------------------------------------
(* helper enable *)

\* No config, or no .ovpn file: an error and nothing touched.
EnableNoConfig(c) ==
    /\ MayStart(c)
    /\ Goto(c, "idle", "done")
    /\ UNCHANGED <<target, supVars, fileVars, netVars>>

EnableReadPid(c) ==
    /\ MayStart(c)
    /\ Goto(c, "idle", IF pidfile = None THEN "flock" ELSE "probe")
    /\ target' = [target EXCEPT ![c] = pidfile]
    /\ UNCHANGED <<supVars, fileVars, netVars>>

\* kill(pid, 0)
EnableProbe(c) ==
    /\ Goto(c, "probe", IF Alive(target[c]) THEN "health" ELSE "flock")
    /\ target' = [target EXCEPT ![c] = IF Alive(@) THEN @ ELSE None]
    /\ UNCHANGED <<supVars, fileVars, netVars>>

EnableHealth(c) ==
    /\ \/ /\ status \in Healthy
          /\ Goto(c, "health", "done")
          /\ Forget(c)
       \/ /\ status \notin Healthy
          /\ Goto(c, "health", "kill")
          /\ UNCHANGED target
    /\ UNCHANGED <<supVars, fileVars, netVars>>

\* SIGKILL and wait: the children of the supervisor are left behind.
EnableKill(c) ==
    /\ Goto(c, "kill", "unpid")
    /\ IF Alive(target[c])
       THEN SupEnds(target[c], "killed")
       ELSE UNCHANGED <<sup, mem, stop, lock>>
    /\ Forget(c)
    /\ UNCHANGED <<childVars, pidfile, status, netVars>>

EnableUnpid(c) ==
    /\ Goto(c, "unpid", "flock")
    /\ pidfile' = None
    /\ UNCHANGED <<target, supVars, lock, status, netVars>>

\* Mutant: the result of flock is not looked at.
EnableFlockNoTest(c) ==
    /\ Goto(c, "flock", "netns")
    /\ lock' = c
    /\ UNCHANGED <<target, supVars, pidfile, status, netVars>>

\* LOCK_EX | LOCK_NB: a single attempt.  A lock file that cannot be opened is an
\* error at once.
EnableFlock(c) ==
    /\ \/ /\ lock = None
          /\ Goto(c, "flock", "netns")
          /\ lock' = c
       \/ /\ lock # None
          /\ Goto(c, "flock", "poll")
          /\ UNCHANGED lock
       \/ /\ Goto(c, "flock", "done")
          /\ UNCHANGED lock
    /\ UNCHANGED <<target, supVars, pidfile, status, netVars>>

\* Thirty looks at the status file, and then an answer either way.  The lock is
\* not tried again.
EnablePoll(c) ==
    /\ Goto(c, "poll", "done")
    /\ UNCHANGED <<target, supVars, fileVars, netVars>>

\* pick_subnet rejects the configured subnet.
EnableNoSubnet(c) ==
    /\ Goto(c, "netns", "done")
    /\ Unlock(c)
    /\ UNCHANGED <<target, supVars, pidfile, status, netVars>>

\* Mutant: an existing name is taken over.
EnableNetnsReuse(c) ==
    /\ Goto(c, "netns", "veth")
    /\ nsName' = c
    /\ UNCHANGED <<target, supVars, fileVars, veth, rules>>

\* Each command of setup fails where the kernel has a reason to refuse it, and
\* may fail for reasons of its own; the first that fails is the last.
SetupFails(c, command) == Goto(c, command, "abort") /\ UNCHANGED <<nsName, veth>>

\* ip netns add: fails when the name exists.
EnableNetns(c) ==
    /\ \/ /\ nsName = None
          /\ Goto(c, "netns", "veth")
          /\ nsName' = c
          /\ UNCHANGED veth
       \/ SetupFails(c, "netns")
    /\ UNCHANGED <<target, supVars, fileVars, rules>>

\* ip link add: both ends are created in the host's namespace.
EnableVeth(c) ==
    /\ \/ /\ ~VethExists
          /\ Goto(c, "veth", "plumb")
          /\ veth' = HostNs
          /\ UNCHANGED nsName
       \/ SetupFails(c, "veth")
    /\ UNCHANGED <<target, supVars, fileVars, rules>>

\* Mutant: the result of the move is not looked at.
EnablePlumbAnyway(c) ==
    /\ Goto(c, "plumb", "addr")
    /\ veth' \in {nsName, veth} \ {None}
    /\ UNCHANGED <<target, supVars, fileVars, nsName, rules>>

\* ip link set kitvpn1 netns kitvpn: the namespace is named, not remembered.
EnablePlumb(c) ==
    /\ \/ /\ nsName # None
          /\ Goto(c, "plumb", "addr")
          /\ veth' = nsName
          /\ UNCHANGED nsName
       \/ SetupFails(c, "plumb")
    /\ UNCHANGED <<target, supVars, fileVars, rules>>

\* The addresses and the links of both ends.
EnableAddr(c) ==
    /\ \/ /\ nsName # None
          /\ Goto(c, "addr", "rules")
          /\ UNCHANGED <<nsName, veth>>
       \/ SetupFails(c, "addr")
    /\ UNCHANGED <<target, supVars, fileVars, rules>>

\* setup failed: remove the namespace, by name, and return the error.  A pair
\* that was not moved yet stays on the host.
EnableAbort(c) ==
    /\ Goto(c, "abort", "done")
    /\ nsName' = None
    /\ Unlock(c)
    /\ UNCHANGED <<target, supVars, pidfile, status, veth, rules>>

EnableRules(c) ==
    /\ Goto(c, "rules", "fork")
    /\ \E ips \in Resolve : rules' = rules \cup ips
    /\ UNCHANGED <<target, supVars, fileVars, nsName, veth>>

\* Mutant: the child closes the lock file.
EnableForkUnlocks(c) ==
    /\ Goto(c, "fork", "done")
    /\ sup' = [sup EXCEPT ![c] = "forked"]
    /\ Unlock(c)
    /\ UNCHANGED <<target, mem, stop, childVars, pidfile, status, netVars>>

\* The parent reports "starting" and exits; the child keeps the lock.
EnableFork(c) ==
    /\ Goto(c, "fork", "done")
    /\ sup' = [sup EXCEPT ![c] = "forked"]
    /\ UNCHANGED <<target, mem, stop, childVars, fileVars, netVars>>

\* fork failed: the namespace and the rules stay.
EnableForkFails(c) ==
    /\ Goto(c, "fork", "done")
    /\ Unlock(c)
    /\ UNCHANGED <<target, supVars, pidfile, status, netVars>>

-----------------------------------------------------------------------------
(* helper disable *)

DisableReadPid(c) ==
    /\ MayStart(c)
    /\ Goto(c, "idle", IF pidfile = None THEN "nsdel" ELSE "term")
    /\ target' = [target EXCEPT ![c] = pidfile]
    /\ UNCHANGED <<supVars, fileVars, netVars>>

\* Mutant: the signal is lost.
DisableTermLost(c) ==
    /\ Goto(c, "term", "await")
    /\ UNCHANGED <<target, supVars, fileVars, netVars>>

\* SIGTERM: the handler stores STOP, and the supervisor sees it later.
DisableTerm(c) ==
    /\ Goto(c, "term", "await")
    /\ stop' = [stop EXCEPT ![target[c]] = @ \/ Alive(target[c])]
    /\ UNCHANGED <<target, sup, mem, childVars, fileVars, netVars>>

\* The supervisor is gone, or ten seconds are over.
DisableAwait(c) ==
    /\ Goto(c, "await", "nsdel")
    /\ Forget(c)
    /\ UNCHANGED <<supVars, fileVars, netVars>>

\* ip netns del, with or without a supervisor that still uses it.
DisableNsDel(c) ==
    /\ Goto(c, "nsdel", "drm")
    /\ nsName' = None
    /\ UNCHANGED <<target, supVars, fileVars, veth, rules>>

DisableUnpid(c) ==
    /\ Goto(c, "drm", "drules")
    /\ pidfile' = None
    /\ UNCHANGED <<target, supVars, lock, status, netVars>>

\* Mutant: the rules are forgotten.
DisableRulesKept(c) ==
    /\ Goto(c, "drules", "dstatus")
    /\ UNCHANGED <<target, supVars, fileVars, netVars>>

\* The rules of the addresses the .ovpn at the default path resolves to now;
\* enable went by the configured path.
DisableRules(c) ==
    /\ Goto(c, "drules", "dstatus")
    /\ \E ips \in ResolveDefault : rules' = rules \ ips
    /\ UNCHANGED <<target, supVars, fileVars, nsName, veth>>

\* Mutant: a state nobody knows.
DisableStatusOther(c) ==
    /\ Goto(c, "dstatus", "done")
    /\ status' = "off"
    /\ UNCHANGED <<target, supVars, lock, pidfile, netVars>>

DisableStatus(c) ==
    /\ Goto(c, "dstatus", "done")
    /\ status' = "stopped"
    /\ UNCHANGED <<target, supVars, lock, pidfile, netVars>>

-----------------------------------------------------------------------------
(* The supervisor *)

SupPid(c) ==
    /\ SupGoto(c, "forked", "announce")
    /\ pidfile' = c
    /\ UNCHANGED <<helperVars, mem, stop, childVars, lock, status, netVars>>

SupAnnounce(c) ==
    /\ SupGoto(c, "announce", "launch")
    /\ SetState(c, "starting")
    /\ UNCHANGED <<helperVars, stop, childVars, lock, pidfile, netVars>>

\* No free port for the relay, or openvpn cannot be started.
SupLaunchFails(c) ==
    /\ SupGoto(c, "launch", "wait")
    /\ SetState(c, "error")
    /\ UNCHANGED <<helperVars, stop, childVars, lock, pidfile, netVars>>

SupLaunch(c) ==
    /\ SupGoto(c, "launch", "socks")
    /\ ovpn' = [ovpn EXCEPT ![c] = TRUE]
    /\ UNCHANGED <<helperVars, mem, stop, socks, outlived, fileVars, netVars>>

\* The socks child enters whatever namespace is called kitvpn.
SupSocks(c) ==
    /\ nsName # None
    /\ SupGoto(c, "socks", "loop")
    /\ socks' = [socks EXCEPT ![c] = nsName]
    /\ UNCHANGED <<helperVars, mem, stop, ovpn, outlived, fileVars, netVars>>

SupSocksFails(c) ==
    /\ SupGoto(c, "socks", "wait")
    /\ SetState(c, "error")
    /\ UNCHANGED <<helperVars, stop, childVars, lock, pidfile, netVars>>

\* wait_for_stop: only SIGTERM ends it.
SupWaitOver(c) ==
    /\ stop[c]
    /\ SupGoto(c, "wait", "reap")
    /\ UNCHANGED <<helperVars, mem, stop, childVars, fileVars, netVars>>

LoopStop(c) ==
    /\ stop[c]
    /\ SupGoto(c, "loop", "final")
    /\ UNCHANGED <<helperVars, mem, stop, childVars, fileVars, netVars>>

\* Mutant: no check of the namespace.
LoopNsGoneIgnored(c) == FALSE /\ UNCHANGED vars

LoopNsGone(c) ==
    /\ nsName = None
    /\ SupGoto(c, "loop", "final")
    /\ SetState(c, "error")
    /\ UNCHANGED <<helperVars, stop, childVars, lock, pidfile, netVars>>

\* openvpn exited and is started again.
LoopRestart(c) ==
    /\ sup[c] = "loop"
    /\ ovpn[c]
    /\ SetState(c, "starting")
    /\ UNCHANGED <<helperVars, sup, stop, childVars, lock, pidfile, netVars>>

\* openvpn exited and stays away: too soon, too often, or no binary.
LoopGiveUp(c) ==
    /\ sup[c] = "loop"
    /\ ovpn[c]
    /\ ovpn' = [ovpn EXCEPT ![c] = FALSE]
    /\ SetState(c, "error")
    /\ UNCHANGED <<helperVars, sup, stop, socks, outlived, lock, pidfile,
                   netVars>>

\* The socks child exited: one new one, in the namespace of that name, or none
\* where it cannot be started.
LoopSocks(c) ==
    /\ sup[c] = "loop"
    /\ socks[c] # None
    /\ \E ns \in {nsName, None} : socks' = [socks EXCEPT ![c] = ns]
    /\ UNCHANGED <<helperVars, sup, mem, stop, ovpn, outlived, fileVars, netVars>>

\* The tun device, of whichever openvpn, is up in the namespace.
LoopTunUp(c) ==
    /\ sup[c] = "loop"
    /\ nsName # None
    /\ \E d \in Call : ovpn[d]
    /\ mem[c] # "running"
    /\ SetState(c, "running")
    /\ UNCHANGED <<helperVars, sup, stop, childVars, lock, pidfile, netVars>>

LoopTunDown(c) ==
    /\ sup[c] = "loop"
    /\ mem[c] = "running"
    /\ SetState(c, "reconnecting")
    /\ UNCHANGED <<helperVars, sup, stop, childVars, lock, pidfile, netVars>>

SupFinal(c) ==
    /\ SupGoto(c, "final", "unpid")
    /\ status' = "stopped"
    /\ UNCHANGED <<helperVars, mem, stop, childVars, lock, pidfile, netVars>>

\* The pid file goes, whoever it names by now.
SupUnpid(c) ==
    /\ SupGoto(c, "unpid", "reap")
    /\ pidfile' = None
    /\ UNCHANGED <<helperVars, mem, stop, childVars, lock, status, netVars>>

\* Mutant: the socks child is forgotten.
SupReapOvpnOnly(c) ==
    /\ SupGoto(c, "reap", "nsdel")
    /\ ovpn' = [ovpn EXCEPT ![c] = FALSE]
    /\ UNCHANGED <<helperVars, mem, stop, socks, outlived, fileVars, netVars>>

Children(c) == {child \in {"ovpn", "socks"} :
                   IF child = "ovpn" THEN ovpn[c] ELSE socks[c] # None}

\* SIGTERM and SIGKILL to each child in turn.  One that is still there ten
\* seconds later is given up and left to init.
SupReap(c) ==
    /\ SupGoto(c, "reap", "nsdel")
    /\ \E left \in SUBSET Children(c) :
          /\ outlived' = [outlived EXCEPT ![c] = left]
          /\ ovpn' = [ovpn EXCEPT ![c] = "ovpn" \in left]
          /\ socks' = [socks EXCEPT ![c] = IF "socks" \in left THEN @ ELSE None]
    /\ UNCHANGED <<helperVars, mem, stop, fileVars, netVars>>

\* cleanup_netns, then the process ends and with it the lock.
SupNsDel(c) ==
    /\ sup[c] = "nsdel"
    /\ nsName' = None
    /\ SupEnds(c, "exited")
    /\ UNCHANGED <<helperVars, childVars, pidfile, status, veth, rules>>

\* The supervisor dies uncleanly.
SupCrash(c) ==
    /\ Alive(c)
    /\ SupEnds(c, "killed")
    /\ UNCHANGED <<helperVars, childVars, pidfile, status, netVars, mode>>

\* A child whose supervisor is gone ends some time, or never.
OrphanEnds(c) ==
    /\ sup[c] \in {"exited", "killed"}
    /\ \/ /\ ovpn[c]
          /\ ovpn' = [ovpn EXCEPT ![c] = FALSE]
          /\ UNCHANGED socks
       \/ /\ socks[c] # None
          /\ socks' = [socks EXCEPT ![c] = None]
          /\ UNCHANGED ovpn
    /\ UNCHANGED <<helperVars, sup, mem, stop, outlived, fileVars, netVars, mode>>

-----------------------------------------------------------------------------
(* The whole *)

EnableStep(c) ==
    /\ UNCHANGED mode
    /\ \/ EnableNoConfig(c) \/ EnableReadPid(c) \/ EnableProbe(c)
       \/ EnableHealth(c) \/ EnableKill(c) \/ EnableUnpid(c)
       \/ EnableFlock(c) \/ EnablePoll(c) \/ EnableNoSubnet(c)
       \/ EnableNetns(c) \/ EnableVeth(c) \/ EnablePlumb(c)
       \/ EnableAddr(c) \/ EnableAbort(c) \/ EnableRules(c)
       \/ EnableFork(c) \/ EnableForkFails(c)

DisableStep(c) ==
    /\ UNCHANGED mode
    /\ \/ DisableReadPid(c) \/ DisableTerm(c) \/ DisableAwait(c)
       \/ DisableNsDel(c) \/ DisableUnpid(c) \/ DisableRules(c)
       \/ DisableStatus(c)

\* What the supervisor does without the world making it.
SupStep(c) ==
    /\ UNCHANGED mode
    /\ \/ SupPid(c) \/ SupAnnounce(c) \/ SupLaunch(c) \/ SupLaunchFails(c)
       \/ SupSocks(c) \/ SupSocksFails(c) \/ SupWaitOver(c)
       \/ LoopStop(c) \/ LoopNsGone(c)
       \/ SupFinal(c) \/ SupUnpid(c) \/ SupReap(c) \/ SupNsDel(c)

\* What it does when a child or the tun device changes under it.
LoopEvent(c) ==
    /\ UNCHANGED mode
    /\ \/ LoopRestart(c) \/ LoopGiveUp(c) \/ LoopSocks(c)
       \/ LoopTunUp(c) \/ LoopTunDown(c)

Next ==
    \E c \in Call : EnableStep(c) \/ DisableStep(c) \/ SupStep(c)
                    \/ LoopEvent(c) \/ SupCrash(c) \/ OrphanEnds(c)

Spec == Init /\ [][Next]_vars

\* The scheduler runs every process, and every wait in the helper is bounded.
Running(c) == helper[c] # "idle" /\ (EnableStep(c) \/ DisableStep(c))

FairSpec ==
    /\ Spec
    /\ \A c \in Call : WF_vars(Running(c)) /\ WF_vars(SupStep(c))

-----------------------------------------------------------------------------
(* Safety *)

TypeOK ==
    /\ helper \in [Call -> HelperPc]
    /\ target \in [Call -> Call \cup {None}]
    /\ sup \in [Call -> SupPc]
    /\ mem \in [Call -> State]
    /\ stop \in [Call -> BOOLEAN]
    /\ ovpn \in [Call -> BOOLEAN]
    /\ socks \in [Call -> Call \cup {None}]
    /\ outlived \in [Call -> SUBSET {"ovpn", "socks"}]
    /\ lock \in Call \cup {None}
    /\ pidfile \in Call \cup {None}
    /\ status \in State \cup {"absent"}
    /\ nsName \in Call \cup {None}
    /\ veth \in Call \cup {None, HostNs}
    /\ rules \subseteq Addr
    /\ mode \in {"serial", "free"}

\* A call owns the tunnel while it builds it and while its supervisor lives.
Owns(c) == helper[c] \in Critical \/ Alive(c)

\* Whatever calls overlap, and whoever is killed, no two calls build or
\* supervise a tunnel at the same time: the lock outlives the helper in the
\* forked supervisor (helper.rs:74-78).
OneTunnel == \A c, d \in Call : Owns(c) /\ Owns(d) => c = d

\* A supervisor never finds another call's namespace under the name it works
\* with: the one called kitvpn is its own or there is none, although every
\* command names it and disable removes it without the lock.
OwnNamespace == \A c \in Call : Alive(c) => nsName \in {c, None}

\* A socks child, which enters the namespace by name each time it is started,
\* only ever lives in the namespace its own call built, also after its
\* supervisor died and others came.
OwnSocks == \A c \in Call : socks[c] \in {c, None}

\* From the moment it has written the pid file a supervisor is never shadowed
\* by another pid: the file names it or is gone.  SIGTERM and SIGKILL, which go
\* by this file, cannot hit another supervisor in its place.
OwnPid ==
    \A c \in Call : Alive(c) /\ sup[c] # "forked" => pidfile \in {c, None}

\* A supervisor that ends by itself, on any of its five ways out, leaves its name
\* and its lock free, and no child but one that neither of its two signals ended
\* (supervisor.rs:356); its namespace lives on only by such a child.
CleanExit ==
    \A c \in Call : sup[c] = "exited" =>
        /\ nsName # c /\ lock # c
        /\ ovpn[c] => "ovpn" \in outlived[c]
        /\ NsLive(c) => "socks" \in outlived[c]

\* Whatever failed setups, orphans and disables left behind, the veth pair under
\* a live supervisor is the one its own call made and moved: it never supervises
\* over a pair that stayed on the host, or that sits in an orphan's namespace
\* (netns.rs:41-51 stops at the first command that fails).
OwnPair == \A c \in Call : Alive(c) => veth = c

\* The addresses that every reading of the default .ovpn gives.
Sure == {a \in Addr : \A ips \in ResolveDefault : a \in ips}

\* With one call at a time, a disable comes to its last command, the status, with
\* no namespace of that name and without a rule for an address it is sure to be
\* given, whatever supervisor was starting, dying or dead when it came and
\* whatever enable was given.  The rules of other addresses may stay.
DisableClears ==
    Serial => \A c \in Call : helper[c] = "dstatus" =>
                  nsName = None /\ rules \cap Sure = {}

\* The calls together behave as one exclusive owner (TunnelOwnership).
Tunnel == INSTANCE TunnelOwnership
            WITH owner <- lock, ns <- nsName, pid <- pidfile

TunnelSpec == Tunnel!Spec

-----------------------------------------------------------------------------
(* Liveness *)

\* A disable that has read the pid of a live supervisor ends its ownership,
\* whatever that supervisor is doing, so that a later enable finds the lock
\* free of it.
StopFreesLock ==
    \A c \in Call :
        (\E d \in Call : helper[d] = "term" /\ target[d] = c) ~> lock # c

\* A supervisor whose namespace was taken away while it supervises does not
\* linger: it ends and frees the lock (supervisor.rs:109-111, "exit and let a
\* fresh enable rebuild everything").
LostNamespaceEnds ==
    \A c \in Call : (sup[c] = "loop" /\ nsName = None) ~> lock # c

-----------------------------------------------------------------------------
(* What the repository says of the program and the code does not keep *)

\* "The supervisor daemon can be stopped at any time with ... helper disable"
\* (README.md:182-183): one that only SIGTERM can end is named by the pid file,
\* or a disable already holds its pid.
StoppableByDisable ==
    \A c \in Call : sup[c] = "wait" /\ ~stop[c] =>
        pidfile = c \/ \E d \in Call : helper[d] = "term" /\ target[d] = c

\* "a second enable cannot tear the tunnel down" (helper.rs:76-78): an enable
\* does not kill a supervisor whose tunnel is up and that nobody asked to stop.
EnableNeverTearsDown ==
    [][\A c \in Call : helper[c] = "kill" /\ helper'[c] = "unpid" =>
        ~ /\ sup[target[c]] = "loop"
          /\ mem[target[c]] = "running"
          /\ ~stop[target[c]]]_vars
=============================================================================
