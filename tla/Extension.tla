----------------------------- MODULE Extension -----------------------------
(***************************************************************************)
(* The Firefox extension (extension/background.js) with what it talks to:  *)
(* its own storage, the native messaging port, and the companion behind it *)
(* (nm.rs), which runs one helper at a time.                               *)
(*                                                                         *)
(* Every handler of the background page runs to its end or to its await,   *)
(* so a handler is one action; what runs between them is Firefox's choice. *)
(* The tunnel is what the status file shows of it; Lifecycle.tla has the   *)
(* rest.                                                                   *)
(***************************************************************************)
EXTENDS Naturals, Sequences, Functions

CONSTANTS
    Domain,             \* base domains the user may list
    DefaultDomains,     \* DEFAULT_DOMAINS
    DefaultPort,        \* 1080, preferred by companion and extension alike
    OtherPort,          \* one the relay may have to take instead
    MaxUserOps,         \* bound: what the user does in the popup
    MaxFaults,          \* bound: faults of the tunnel
    MaxErrors,          \* bound: helpers that end with an error or find the lock
                        \* held, calls of connectNative that throw
    MaxExits,           \* bound: native hosts that die, reloads of the page
    MaxMessages         \* bound: messages on the port while the page polls

ASSUME DefaultsListed == DefaultDomains \subseteq Domain
ASSUME PortsDiffer == DefaultPort # OtherPort
ASSUME DirectIsNoPort == "direct" \notin {DefaultPort, OtherPort}
ASSUME BoundsAreNat ==
    {MaxUserOps, MaxFaults, MaxErrors, MaxExits, MaxMessages} \subseteq Nat

Healthy == {"starting", "running", "reconnecting"}

VARIABLES
    ready,      \* loadState is over and the page is set up
    prefs,      \* state.enabled and state.domains
    socksPort,  \* state.socksPort
    uiState,    \* state.status.state
    listener,   \* the base domains of the registered proxy filters
    inFlight,   \* enableInFlight
    port,       \* how many native ports are open; the page's variable has the last
    timer,      \* how many timers for a reconnect are set; reconnectTimer, the last
    stored,     \* the preferences in storage.local
    writes,     \* calls of storage.local.set that are not done
    changes,    \* onChanged events that are not delivered
    resumes,    \* setEnabled calls whose write is done
    toHost,     \* messages on the way to the native host
    toPage,     \* replies on the way back
    tunnel,     \* the state in the status file
    relay,      \* the port of the relay of the last tunnel
    left        \* what is left of the bounds

pageVars == <<ready, prefs, socksPort, uiState, listener, inFlight>>
portVars == <<port, timer>>
storageVars == <<stored, writes, changes, resumes>>
queueVars == <<toHost, toPage>>
worldVars == <<tunnel, relay>>
vars == <<pageVars, portVars, storageVars, queueVars, worldVars, left>>

Prefs == [enabled : BOOLEAN, domains : SUBSET Domain]
Request == {"status", "enable", "disable"}
UiState == Healthy \cup {"stopped", "error", "unavailable", "unknown"}
Port == {DefaultPort, OtherPort}
Reply == [state : UiState, port : Port]

Init ==
    /\ stored \in Prefs
    /\ ready = FALSE
    /\ prefs = [enabled |-> TRUE, domains |-> DefaultDomains]
    /\ socksPort = DefaultPort /\ uiState = "unknown"
    /\ listener = {} /\ inFlight = FALSE
    /\ port = 0 /\ timer = 0
    /\ writes = <<>> /\ changes = <<>> /\ resumes = <<>>
    /\ toHost = <<>> /\ toPage = <<>>
    /\ tunnel = "stopped" /\ relay \in Port
    /\ left = [ops |-> MaxUserOps, faults |-> MaxFaults,
               errors |-> MaxErrors, exits |-> MaxExits]

Spend(what) == left[what] > 0 /\ left' = [left EXCEPT ![what] = @ - 1]

-----------------------------------------------------------------------------
(* Operations of the page *)

\* refreshProxyListener, for preferences p
Filters(p) == IF p.enabled THEN p.domains ELSE {}

\* handleProxyRequest for a page of domain d, and Firefox where no listener
\* of the extension matches.
Route(d) ==
    IF d \in listener /\ prefs.enabled /\ d \in prefs.domains
    THEN socksPort ELSE "direct"

\* saveState: the write carries the preferences as they are now.
Save(p, then) == writes' = Append(writes, [prefs |-> p, then |-> then])

\* sendNative: lost when there is no port.
Sent(queue, msgs) == IF port > 0 THEN queue \o msgs ELSE queue

\* requestEnable, when the page has preferences p.
WantsEnable(p, flying) == p.enabled /\ port > 0 /\ ~flying

\* connectNative opened a port.
Connected == port' = port + 1

\* Or it threw, and the catch shows the error: no port, and no timer for another
\* try.
ConnectThrows ==
    /\ Spend("errors")
    /\ uiState' = "error" /\ socksPort' = DefaultPort
    /\ UNCHANGED <<port, inFlight, toHost>>

-----------------------------------------------------------------------------
(* Startup *)

\* The end of loadState, where an empty list counts as none, and the rest of
\* init; without a port what it sends is lost.
Load ==
    /\ ~ready
    /\ ready' = TRUE
    /\ prefs' = IF stored.domains = {}
                THEN [prefs EXCEPT !.enabled = stored.enabled] ELSE stored
    /\ listener' = Filters(prefs')
    /\ \/ /\ Connected
          /\ toHost' = <<"status">> \o IF prefs'.enabled THEN <<"enable">> ELSE <<>>
          /\ inFlight' = prefs'.enabled
          /\ UNCHANGED <<socksPort, uiState, left>>
       \/ ConnectThrows
    /\ UNCHANGED <<timer, storageVars, toPage, worldVars>>

-----------------------------------------------------------------------------
(* The popup *)

SetEnabled(v) ==
    /\ Spend("ops")
    /\ prefs' = [prefs EXCEPT !.enabled = v]
    /\ Save(prefs', IF v THEN "enable" ELSE "disable")
    /\ UNCHANGED <<ready, socksPort, uiState, listener, inFlight, portVars,
                   stored, changes, resumes, queueVars, worldVars>>

AddDomain(d) ==
    /\ Spend("ops")
    /\ prefs' = [prefs EXCEPT !.domains = @ \cup {d}]
    /\ Save(prefs', "nothing")
    /\ UNCHANGED <<ready, socksPort, uiState, listener, inFlight, portVars,
                   stored, changes, resumes, queueVars, worldVars>>

RemoveDomain(d) ==
    /\ Spend("ops")
    /\ prefs' = [prefs EXCEPT !.domains = @ \ {d}]
    /\ Save(prefs', "nothing")
    /\ UNCHANGED <<ready, socksPort, uiState, listener, inFlight, portVars,
                   stored, changes, resumes, queueVars, worldVars>>

-----------------------------------------------------------------------------
(* Storage *)

\* Firefox carries out a write, tells every context of the extension and
\* resolves the promise; the event and the promise take their own ways.  The
\* read of loadState was asked for before any write.
StorageWrite ==
    /\ ready
    /\ writes # <<>>
    /\ LET w == Head(writes)
       IN  /\ stored' = w.prefs
           /\ changes' = Append(changes, w.prefs)
           /\ resumes' = IF w.then = "nothing" THEN resumes
                                               ELSE Append(resumes, w.then)
    /\ writes' = Tail(writes)
    /\ UNCHANGED <<pageVars, portVars, queueVars, worldVars, left>>

\* Mutant: the listener stays as it is.
OnChangedNoRefresh ==
    /\ changes # <<>>
    /\ changes' = Tail(changes)
    /\ prefs' = Head(changes)
    /\ UNCHANGED <<ready, socksPort, uiState, listener, inFlight, portVars,
                   stored, writes, resumes, queueVars, worldVars, left>>

\* storage.onChanged: the event's values become the page's, older or not.
OnChanged ==
    /\ changes # <<>>
    /\ changes' = Tail(changes)
    /\ prefs' = Head(changes)
    /\ listener' = Filters(prefs')
    /\ UNCHANGED <<ready, socksPort, uiState, inFlight, portVars,
                   stored, writes, resumes, queueVars, worldVars, left>>

\* setEnabled after its await; v is the argument of the call, the guard in
\* requestEnable reads the preferences of now.
Resume ==
    /\ resumes # <<>>
    /\ resumes' = Tail(resumes)
    /\ LET on == Head(resumes) = "enable"
       IN  /\ inFlight' = (on /\ WantsEnable(prefs, FALSE))
           /\ toHost' = Sent(toHost,
                            (CASE inFlight' -> <<"enable">>
                               [] ~on -> <<"disable">>
                               [] OTHER -> <<>>) \o <<"status">>)
    /\ UNCHANGED <<ready, prefs, socksPort, uiState, listener, portVars,
                   stored, writes, changes, toPage, worldVars, left>>

-----------------------------------------------------------------------------
(* The native port *)

\* pollStatus every three seconds.
Poll ==
    /\ ready /\ port > 0
    /\ Len(toHost) + Len(toPage) < MaxMessages
    /\ toHost' = Append(toHost, "status")
    /\ UNCHANGED <<pageVars, portVars, storageVars, toPage, worldVars, left>>

\* Mutant: the port is not taken over.
ApplyStatusOldPort(state, p) ==
    /\ uiState' = state
    /\ UNCHANGED socksPort
    /\ inFlight' =
        CASE state \in Healthy -> FALSE
          [] state = "stopped" -> inFlight \/ WantsEnable(prefs, inFlight)
          [] OTHER -> inFlight
    /\ toHost' = IF state = "stopped" /\ WantsEnable(prefs, inFlight)
                 THEN Append(toHost, "enable") ELSE toHost

\* Mutant: polling alone, as it "used to" be.
ApplyStatusNoEnable(state, p) ==
    /\ uiState' = state
    /\ socksPort' = p
    /\ inFlight' = (inFlight /\ state \notin Healthy)
    /\ UNCHANGED toHost

\* applyStatus, with what it may send.
ApplyStatus(state, p) ==
    /\ uiState' = state
    /\ socksPort' = p
    /\ inFlight' =
        CASE state \in Healthy -> FALSE
          [] state = "stopped" -> inFlight \/ WantsEnable(prefs, inFlight)
          [] OTHER -> inFlight
    /\ toHost' = IF state = "stopped" /\ WantsEnable(prefs, inFlight)
                 THEN Append(toHost, "enable") ELSE toHost

OnNativeMessage ==
    /\ port > 0 /\ toPage # <<>>
    /\ toPage' = Tail(toPage)
    /\ ApplyStatus(Head(toPage).state, Head(toPage).port)
    /\ UNCHANGED <<ready, prefs, listener, portVars, storageVars, worldVars, left>>

\* The port of a new supervisor's relay is whichever was free.
NewTunnel == tunnel' = "starting" /\ relay' \in Port

\* What is on the way is lost, but a helper that the host has started as root
\* runs on to its end.
HostDies ==
    /\ toHost' = <<>> /\ toPage' = <<>>
    /\ \/ UNCHANGED worldVars
       \/ /\ toHost # <<>> /\ Head(toHost) = "enable"
          /\ tunnel \notin Healthy /\ NewTunnel
       \/ /\ toHost # <<>> /\ Head(toHost) = "disable"
          /\ tunnel' = "stopped" /\ UNCHANGED relay

\* The host died: port.onDisconnect.  A timer that is still set is cleared for
\* the new one.
OnDisconnect ==
    /\ port > 0
    /\ Spend("exits")
    /\ port' = port - 1
    /\ timer' = IF timer = 0 THEN 1 ELSE timer
    /\ inFlight' = FALSE
    /\ uiState' = "unavailable" /\ socksPort' = DefaultPort
    /\ HostDies
    /\ UNCHANGED <<ready, prefs, listener, storageVars>>

\* Firefox is restarted or the extension reloaded: the port goes with the page,
\* and of the writes that were asked for the first so many are carried out.
Reload ==
    /\ Spend("exits")
    /\ ready' = FALSE
    /\ prefs' = [enabled |-> TRUE, domains |-> DefaultDomains]
    /\ socksPort' = DefaultPort /\ uiState' = "unknown"
    /\ listener' = {} /\ inFlight' = FALSE
    /\ port' = 0 /\ timer' = 0
    /\ writes' = <<>> /\ changes' = <<>> /\ resumes' = <<>>
    /\ stored' \in {stored} \cup {w.prefs : w \in Range(writes)}
    /\ HostDies

\* Mutant: the timer comes again, as setInterval would have it.
ReconnectKeepsTimer ==
    /\ timer > 0
    /\ UNCHANGED timer
    /\ \/ /\ Connected
          /\ UNCHANGED <<inFlight, socksPort, uiState, toHost, left>>
       \/ ConnectThrows
    /\ UNCHANGED <<ready, prefs, listener, storageVars, toPage, worldVars>>

\* connectNative, three seconds later.
Reconnect ==
    /\ timer > 0
    /\ timer' = timer - 1
    /\ \/ /\ Connected
          /\ UNCHANGED <<inFlight, socksPort, uiState, toHost, left>>
       \/ ConnectThrows
    /\ UNCHANGED <<ready, prefs, listener, storageVars, toPage, worldVars>>

-----------------------------------------------------------------------------
(* The native host *)

\* The ports a status of the file may carry: the relay's from the moment it is
\* bound, and before that, or from a disable, the configured one or 0, which
\* the page reads as the default.
ShownPorts(state) ==
    IF state \in {"running", "reconnecting"} THEN {relay}
                                             ELSE {relay, DefaultPort}

\* Mutant: the port 0 of an error goes through.
AnswerRaw(state, p) == toPage' = Append(toPage, [state |-> state, port |-> "0"])

\* json_reply
Answer(state, p) == toPage' = Append(toPage, [state |-> state, port |-> p])

HostTakes(msg) ==
    /\ port > 0 /\ toHost # <<>> /\ Head(toHost) = msg
    /\ toHost' = Tail(toHost)
    /\ UNCHANGED <<pageVars, portVars, storageVars>>

HostStatus ==
    /\ HostTakes("status")
    /\ \E p \in ShownPorts(tunnel) : Answer(tunnel, p)
    /\ UNCHANGED <<worldVars, left>>

\* A tunnel that is up or coming up is reported as it is; else a new one is
\* started, and reported with the configured port.
HostEnable ==
    /\ HostTakes("enable")
    /\ IF tunnel \in Healthy
       THEN /\ \E p \in ShownPorts(tunnel) : Answer(tunnel, p)
            /\ UNCHANGED worldVars
       ELSE Answer("starting", DefaultPort) /\ NewTunnel
    /\ UNCHANGED left

\* No tunnel comes of it.  sudo refused, no configuration, setup failed: an error,
\* with port 0, and the status file as it was.  Setup does fail after the
\* force-kill of a supervisor in error, so that is nothing out of the way.  Or the
\* lock is still held by a supervisor on its way out, whose status is all there
\* is to answer.
HostEnableFails ==
    /\ HostTakes("enable")
    /\ \/ tunnel = "error" /\ UNCHANGED left
       \/ tunnel = "stopped" /\ Spend("errors")
    /\ \/ Answer("error", DefaultPort)
       \/ \E p \in ShownPorts(tunnel) : Answer(tunnel, p)
    /\ UNCHANGED worldVars

HostDisable ==
    /\ HostTakes("disable")
    /\ Answer("stopped", DefaultPort)
    /\ tunnel' = "stopped"
    /\ UNCHANGED <<relay, left>>

\* sudo refused: the tunnel stays.
HostDisableFails ==
    /\ HostTakes("disable")
    /\ Spend("errors")
    /\ Answer("error", DefaultPort)
    /\ UNCHANGED worldVars

-----------------------------------------------------------------------------
(* The tunnel *)

TunnelMoves ==
    /\ tunnel' = "running"
    /\ tunnel \in {"starting", "reconnecting"}
    /\ UNCHANGED <<pageVars, portVars, storageVars, queueVars, relay, left>>

\* The tun device goes, openvpn is started again or given up, or the supervisor
\* ends; or one that was still starting when it was disabled writes its status
\* late.
TunnelFails ==
    /\ Spend("faults")
    /\ \/ tunnel = "running" /\ tunnel' = "reconnecting"
       \/ tunnel \in Healthy \cup {"error"} /\ tunnel' \in {"error", "stopped"} \ {tunnel}
       \/ tunnel \in {"running", "reconnecting"} /\ tunnel' = "starting"
       \/ tunnel = "stopped" /\ tunnel' \in {"starting", "error"}
    /\ UNCHANGED <<pageVars, portVars, storageVars, queueVars, relay>>

-----------------------------------------------------------------------------
User ==
    \/ \E v \in BOOLEAN : SetEnabled(v)
    \/ \E d \in Domain : AddDomain(d) \/ RemoveDomain(d)

Host ==
    \/ HostStatus
    \/ HostEnable \/ HostEnableFails
    \/ HostDisable \/ HostDisableFails

Next ==
    \/ Load \/ Reload \/ User
    \/ StorageWrite \/ OnChanged \/ Resume
    \/ Poll \/ OnNativeMessage \/ OnDisconnect \/ Reconnect
    \/ Host
    \/ TunnelMoves \/ TunnelFails

Spec == Init /\ [][Next]_vars

\* The event loop, Firefox's storage and the host's loop all go on; the timers
\* fire.  The user, the faults and the tunnel's progress are nobody's duty.
FairSpec ==
    /\ Spec
    /\ WF_vars(Load) /\ WF_vars(StorageWrite) /\ WF_vars(OnChanged)
    /\ WF_vars(Resume) /\ WF_vars(Poll) /\ WF_vars(OnNativeMessage)
    /\ WF_vars(Reconnect) /\ WF_vars(Host)

-----------------------------------------------------------------------------
(* Properties *)

TypeOK ==
    /\ ready \in BOOLEAN
    /\ prefs \in Prefs
    /\ socksPort \in Port
    /\ uiState \in UiState
    /\ listener \subseteq Domain
    /\ inFlight \in BOOLEAN
    /\ port \in Nat /\ timer \in Nat
    /\ stored \in Prefs
    /\ writes \in Seq([prefs : Prefs, then : {"enable", "disable", "nothing"}])
    /\ changes \in Seq(Prefs)
    /\ resumes \in Seq({"enable", "disable"})
    /\ toHost \in Seq(Request)
    /\ toPage \in Seq(Reply)
    /\ tunnel \in Healthy \cup {"stopped", "error"}
    /\ relay \in Port
    /\ left \in [{"ops", "faults", "errors", "exits"} -> Nat]

Settled == ready /\ writes = <<>> /\ changes = <<>>

\* However the user's clicks, the writes and the late change events interleave:
\* once they are through, a request goes to the proxy exactly when its domain
\* is listed and the extension enabled, and storage holds the preferences that
\* are in force, so that a restart changes nothing; except that an empty list is
\* taken for none.
RoutingSettles ==
    Settled =>
        /\ stored.enabled = prefs.enabled
        /\ \/ stored.domains = prefs.domains
           \/ stored.domains = {} /\ prefs.domains = DefaultDomains
        /\ \A d \in Domain :
            (Route(d) = socksPort) <=> (prefs.enabled /\ d \in prefs.domains)

\* No port is open and none will be.
CutOff == port + timer = 0

\* No sequence of exits and reconnects gives a page two native ports, or a port
\* and a timer for another; and one that has neither, because connectNative threw
\* (background.js:114-117), shows the user the error for as long.
ConnectedOrError ==
    ready => /\ port + timer <= 1
             /\ CutOff => uiState = "error"

\* Each tunnel may have another port, and replies of earlier ones, errors and
\* reconnects bring the page the wrong one: where a tunnel stays up and the page
\* is not cut off, it comes to send its requests to the port of the tunnel's
\* relay, and to stay with it.
PortConverges ==
    <>[](tunnel = "running" /\ ~CutOff) => <>[](socksPort = relay)

\* enableInFlight is set, and nothing on the way will clear it.
FlagHangs ==
    /\ inFlight
    /\ "enable" \notin Range(toHost)
    /\ \A reply \in Range(toPage) : reply.state \notin Healthy

\* An enabled page does not stay with a stopped tunnel, however hosts and tunnels
\* die and helpers fail, in all but two ways: it is cut off, or an enable that
\* brought no tunnel has left the flag set.
HealsUnlessFlagHangs ==
    (ready /\ prefs.enabled /\ tunnel = "stopped")
        ~> (tunnel # "stopped" \/ ~prefs.enabled \/ CutOff \/ FlagHangs)

\* "Keep an enabled extension self-healing ... polling status alone used to
\* leave the UI permanently at stopped" (background.js:157-160): an enabled page
\* that is not cut off does not stay with a stopped tunnel.
SelfHealing ==
    (ready /\ prefs.enabled /\ tunnel = "stopped")
        ~> (tunnel # "stopped" \/ ~prefs.enabled \/ CutOff)
=============================================================================
