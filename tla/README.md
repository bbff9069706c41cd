# Firefox-KIT-VPN in TLA+

A verification development for the KIT VPN extension and its companion: the
background page in Firefox, the native host it talks to, the root helper that
builds and removes the tunnel, and the supervisor that keeps it. The code is the
reference (`companion/src/*.rs`, `extension/*.js`); where a doc or a comment
says something else, the section *Where code and docs part* says so.

## 1. The system

| Part | State | Operations | Talks to |
|---|---|---|---|
| Background page (`background.js`) | enabled, domains, port, status, proxy listener, `enableInFlight`, native port, reconnect timer | popup messages, `onChanged`, `onMessage`, `onDisconnect`, two timers, request routing | storage, native host |
| Domain matching (`domainmatch.js`) | none | normalise, match | page |
| Popup (`popup.js`) | what it draws | toggle, add, remove | page, by messages |
| Native host (`nm.rs`) | none | status, enable, disable, one message at a time | page, helper, status file |
| Root helper (`helper.rs`) | none of its own | enable, disable | pid, status and lock files, namespace, rules, supervisor by signals |
| Supervisor (`supervisor.rs`) | status, children, restart budget, STOP | start, the loop, teardown | helper by files and signals, openvpn, socks child, relay thread |
| Network (`netns.rs`) | kernel: namespace `kitvpn`, pair `kitvpn0`/`kitvpn1`, rules, tun device | setup, cleanup, rules, move of the tun device | `ip` |
| Relay (`relay.rs`, `util::relay`) | connections | accept, copy both ways | Firefox, socks child |
| SOCKS5 and DNS (`socks5.rs`, `dns.rs`) | connections | handshake, resolve, connect | relay, tunnel |
| Files (`util.rs`, `config.rs`) | status, pid, lock | atomic write, read | all of the companion |
| Installer, configuration (`config.rs`) | `kit.ovpn`, `auth.txt`, `config.toml` | install, load, parse | helper, supervisor, openvpn |
| Command line (`main.rs`), scripts, tests | none in time | | |

What makes each part correct:

* **Helper and supervisor together**: one tunnel at a time, although any number
  of helpers may run, every resource is found by its *name*, and `disable` takes
  no lock. A dying supervisor leaves the rest of the system able to go on.
* **Supervisor**: its status is the truth about the tunnel; openvpn's device does
  not stay on the host; it can be stopped wherever it is; restarts are bounded.
* **Background page**: what is routed is what the user chose, and to the port
  where the relay is; it has one connection to its host, or says that it has
  none; it brings the tunnel back.
* **Files**: a reader of the status sees a whole one, and the last.
* **Relay**: each direction is a pipe, and no thread outlives its connection.
* **SOCKS and DNS**: one final reply per request; a name leads to the address that
  the oldest packet taken with one offers.
* **Installer and start**: what an installer leaves belongs together; relay, child
  and subnet agree although each learns its port and address in its own way.

What is hard: processes that share nothing but files and names; a lock inherited
through `fork`; state read before a signal and acted on after it; SIGKILL and
crashes between any two steps; a device that its owner closes while it is being
moved; storage events that overtake clicks; messages that die with a process.

## 2. Modules

| Module | Of | What it is |
|---|---|---|
| `TunnelOwnership` | enable, disable, supervisor | The abstract promise: ownership of the tunnel is exclusive and given up before it is taken; only the owner builds a namespace, where there is none, or announces a pid; anybody may take either away. |
| `Lifecycle` | `helper.rs`, start and ends of `supervisor.rs`, `setup` of `netns.rs` | The processes, in steps of one system call or command. Implements `TunnelOwnership`. |
| `Supervisor` | the loop of `supervisor.rs`, the tun device of `netns.rs` | One supervisor with everything that can happen to it between two steps. |
| `Extension` | `background.js`, `nm.rs` | The page with storage, port and host; of the tunnel the status file and the port of its relay. |
| `StatusFile` | `write_atomic`, `read_status` of `util.rs` | Writers and a reader over names, inodes and what is in them. |
| `Pipe` | | The abstract promise of one direction of a connection. |
| `Relay` | `util::relay`, the handler of `relay.rs` | One relay between two links, as actions over the links it is given. |
| `Connection` | `relay.rs`, the end of `socks5.rs` | Firefox, two instances of `Relay` in a row, a server. Implements `Pipe` twice. |
| `Socks` | `socks5.rs`, `dns.rs` | One connection's handler with its client and its DNS servers. |
| `Parameters` | `config.rs`, `pick_subnet`, `bind_free_port`, the arguments of `child-socks` | What is computed, as operators. |
| `Startup` | `install_ovpn`, `load`, the start in `helper.rs` and `supervisor.rs` | Who reads and writes which file, port and address when. Extends `Parameters`. |
| `LifecycleProofs`, `SupervisorProofs`, `ExtensionProofs`, `StatusFileProofs`, `ConnectionProofs`, `SocksProofs`, `StartupProofs` | | Theorems of the module each is named after, and their proofs. |
| `LeastNumber` | | That every set of numbers has a least one, for `SocksProofs` and `StartupProofs`. |
| `MC...` | | Values of the constants for TLC, one module each. |

`Lifecycle` has many supervisors whose loop is one control point; `Supervisor`
has one and takes the loop apart; `Extension` sees of both what the status file
shows. `StatusFile` takes apart what `Lifecycle` does in one step, the write of a
status, and `Startup` has the values that `Lifecycle` leaves out. Where one
module takes for granted what another has in detail, it allows more: the loop's
events in `Lifecycle` and the tunnel's moves in `Extension` may happen in any
order.

### Lifecycle

`Call` is the set of helper invocations. `helper[c]` is the program counter of
call `c`, `sup[c]` that of the supervisor it forks; `target[c]` is the pid it
has read. Pids are calls: `pidfile = c` means that the file holds the pid of the
supervisor of `c`. `lock` is the call whose open file description holds the
flock: the helper's until it exits, and through `fork` the supervisor's; only
the end of the last process that holds it gives it up (`Unlock`). The children of
the supervisor do not hold it, since Rust opens files close-on-exec.

The network is what outlives processes. `nsName` is the call that created what
is *called* `kitvpn`; a namespace without a name still lives while a socks child
is in it (`NsLive`), and the pair lives as long as the namespace of its far end
(`VethExists`). Every command goes by name, as in the code: `EnablePlumb` moves
the pair into whatever is called `kitvpn` by then, `SupSocks` enters it,
`SupNsDel` and `DisableNsDel` delete it.

One action is one step another process can come between: reading the pid file,
probing the pid, reading the status, SIGKILL, removing the pid file, flock, each
command of `setup` that can fail in its own way, the rules, the fork; and on the
supervisor's side the pid file, the status, the children, the final status, the
removal of the pid file, the reaping, the namespace, the exit. The parent's exit
is one step with the fork: nothing another process sees lies between them. Every
command of `setup` may also fail for no reason the model knows (`SetupFails`), and
what was built before it stays but for the namespace: a pair not yet moved stays on
the host, and no later `ip link add` goes through. `SupReap` may give up either
child after its two signals; `outlived` says which, and such a child goes on as long
as it likes (`OrphanEnds`), as those of a killed supervisor do.

`Resolve` are the answers `enable` may get for the servers of the configured
`.ovpn`, `ResolveDefault` those `disable` gets for the default one, the empty set if
it cannot be read.

`mode` says, once for all, whether calls may overlap (several hosts, or a user at
a terminal) or one native host issues them one at a time; `Serial` names the
latter.

### Supervisor

`pc` runs through the looks of the loop in their order. `vpn` and `socks` are
the children: none, running, dead and not reaped, or stuck. `hostTun` is the
device on the host, without and with an address, `nsTun` the device in the
namespace; one whose openvpn has closed it may linger as `stale`. The world
(SIGTERM, a deletion of the namespace, the deaths, openvpn's reconnects) acts
between any two looks. The commands of the move may fail for other reasons, too;
one that succeeds is `TunMoves`. Time is counted in turns: `elapsed` stands for
`last_restart.elapsed()` and stops at `RestartDelay`.

### Extension

The page's handlers are actions; `setEnabled` is two, divided at its `await`.
`writes`, `changes` and `resumes` are the calls of `storage.local.set` not done,
the `onChanged` events not delivered and the promises not resumed: writes are
done in order, the event and the promise of one write come in either order.
`port` and `timer` count the native ports and the reconnect timers, so that there
could be two; `connectNative` may throw (`ConnectThrows`), which leaves neither.
`toHost` and `toPage` are the port's two directions. The host handles one message
at a time, so a helper and its answer are one step; that a host dies while its
helper goes on is in `HostDies`. Filters and `handleProxyRequest` are
operators (`Filters`, `Route`); a domain stands for its normalised base. `relay` is
the port of the last tunnel's relay; which ports a status may carry is `ShownPorts`.
`HostEnableFails` is every enable that starts no tunnel: with an error, or with the
status of the file when the lock is held. `Reload` is a restart of Firefox or of
the extension, at any point, with the first so many of the pending writes done.

### StatusFile

A write is four steps of one process: open-and-truncate, any number of
writes at the descriptor's own offset, rename. `path` and `tmp` lead to inodes; a
renamed file still belongs to whoever has it open. A text is as many cells as it
is long, each of which says whose it is. `clash` and `torn` are history: whether
writes overlapped, for the file and for what the reader has open.

### Relay, Pipe, Connection

A link holds `Cap` chunks each way, then the end of the stream (`Fin`); `reset`
concerns both ways. `Copy` waits for room, `StopCopy` is `io::copy`'s return with
the shutdown after it, `Close` the join. Two instances share the middle link. The
ends may send, end, reset, or vanish without a word; each relay may be refused
its second connection, and each process killed.

### Socks

`client` is what Firefox will send, chosen at the start among the kinds the
handler tells apart; `arrived` is how much of it came. `gives` is each server's
response: what its header says, its records, and how many are there in full;
`copies` counts its arrivals. `heard` is all that ever reached the one UDP socket,
with who sent it, `taken` how many of it `recv_from` has returned; a `Stray` packet is
of anybody, with any contents, since dns.rs:28 does not look at the sender and the
id and port can be met. Messages whose id is not the query's are among the kinds.
`late` and `inTime` are history.

### Parameters and Startup

A text is a sequence of lines, each a keyword and a value. `fs::write` is two
steps, truncation and text. The installer (`inst`) may end anywhere. A start goes
through `pc`; `tun` collects what it found out and told its children; its rules are
those of any of the servers named, since a name may not resolve and a rule may
fail. `used`
are the addresses in use, one for which `ip` cannot tell included.
`foreign` are ports other programs listen on, which change at any time, also between
the two binds of the relay; addresses in use are chosen anew at each start. The
administrator may edit `config.toml`.

## 3. The runs

| Run | Instance | Properties | Shows |
|---|---|---|---|
| `lifecycle` | 3 calls, in both modes, fair | `TypeOK` `OneTunnel` `OwnNamespace` `OwnSocks` `OwnPid` `CleanExit` `OwnPair` `DisableClears` `TunnelSpec` `StopFreesLock` `LostNamespaceEnds` | one owner, names and a pair that never mix up two tunnels, an end that leaves nothing but what cannot be ended, the lock comes back |
| `supervisor` | 3 restarts, delay 2, fair | `TypeOK` `GivenUpShowsError` `StatusFollowsTunnel` `TunLeavesHost` `NoRestartStorm` `StopEnds` | a truthful status, a bounded restart, an end |
| `extension` | 2 domains, 2 clicks, 1 fault, 1 error, 1 exit or reload | `TypeOK` `RoutingSettles` `ConnectedOrError` | routing as chosen and as stored, one port or timer or a visible error |
| `extension_live` | 1 domain, 1 click, 2 faults, 2 errors, 2 exits or reloads, fair | `HealsUnlessFlagHangs` `PortConverges` | an enabled page brings the tunnel back but in two ways, and finds its port |
| `status_file` | 2 writers, 2 statuses of length 1 and 3, 4 inodes | `TypeOK` `RegisterUnlessClash` `LoneWriteMends` | a register while writes do not overlap, and again after |
| `connection` | room for 1 chunk, 2 chunks each way, fair | `TypeOK` `UpIsPipe` `DownIsPipe` `Delivered` `AllEnds` | bytes in order, all of them, and an end |
| `socks` | 2 servers, 5 kinds of response, each up to twice, 2 stray packets, fair | `TypeOK` `OneFinalReply` `FirstAnswerWins` `OldestOfferDecides` `RequestAnswered` | one reply, and who decides |
| `startup` | 2 installs, 3 texts (one refused), 3 edited configurations, 3 ports, 2 networks, 1 restart | `TypeOK` `InstallMends` `TunnelOfOneInstall` `RelayReachesSocks` | files, ports and addresses that agree |

Four more runs show a violation each; section 6.

**Bounds.** Three calls are a killer or a disable, its victim, and the one that
follows; the theorems of section 5 hold for any number. `MaxRestarts` is the
code's 3; a delay of two turns separates "too soon" from "due". The extension's
bounds count the user's clicks (`MaxUserOps`), faults of the tunnel
(`MaxFaults`), helpers that start nothing and connects that throw (`MaxErrors`),
dying hosts and reloads (`MaxExits`) and messages in flight before another poll
(`MaxMessages`); two clicks make a stale event possible, and one of each misfortune
reaches every pair of handlers. The run with fairness has two of each misfortune, so
that an error can be followed by a stop, and a failed enable by a dying host. Two
domains tell a default from an added one. Two writers are the supervisor and a disable; texts of length 1 and 3 leave both kinds of remains, a
long one's end and a hole. One place on a link makes every copier wait; two
chunks can be swapped. With two servers a late response or a stray one takes the turn
of the other; two copies and two strays fill every wait. `enable` is given both
addresses, `disable` one or both. Three ports, of which the last is the one the code
never tries, stand for 65535, and two tried for twenty; two networks for the 256 of the scan, which
differ in nothing else. `MaxInstalls` = 2 lets one install meet the remains of
another; `MaxRestarts` of `Startup` is 1, since each restart reads the same files.

**Symmetry.** The inodes of `StatusFile` are interchangeable; its run has no
liveness. No other run uses symmetry.

**Deadlock** is not checked: calls and bounds run out, and the system rests.

**Mutants.** Beside the actions stand a few of them with a plausible bug (no test
of flock, a timer not cleared, a restart not counted, a signal lost, ...), each
marked `Mutant`. Put in the place of its original, each one violates the
property it is listed with in `PROJECT.json`.

## 4. Fairness

* `Lifecycle!FairSpec`: weak fairness of every running helper, whose waits are all
  bounded, and of every supervisor's own steps. Nothing is asked of crashes, of
  children, or of new calls.
* `Supervisor!FairSpec`: weak fairness of the supervisor, and strong fairness of
  the move of the device (`TunMoves`): `ip link set ... netns` may fail any number of
  times for no known reason, but not every time for ever. Only `TunLeavesHost`
  and `StatusFollowsTunnel` could need it. `StopEnds` holds even when no child ever
  obeys; the world owes nothing.
* `Extension!FairSpec`: Firefox's event loop and storage go on, the host's loop
  goes on, timers fire. Neither user nor tunnel owes anything.
* `Connection!FairSpec`: threads are scheduled, connects and handshakes return, and an
  end that is there reads. No end owes a byte or an end of file.
* `Socks!FairSpec`: the handler is scheduled; its waits have timeouts in the
  code (three seconds for DNS, ten for the connect). Client and servers owe
  nothing, and `RequestAnswered` starts from a request that is there.

## 5. What is proved

Every safety invariant and every action property of the passing runs, and the
three refinements, are theorems about `Spec`, without fairness, for every value of
the constants. What they assume of the constants is named in the modules:

* `Lifecycle`: `None` and `HostNs` are no calls, `Resolve` and `ResolveDefault` are
  sets of sets of addresses. `Supervisor`, `Extension`, `Socks`: bounds are naturals.
* `Extension`: the default domains are domains, the two ports differ, and `"direct"` is
  neither. `Socks`: what the sets of messages may hold (`MessagesTyped`); `None` is no
  address.
* `StatusFile`: a status has at least one byte; `None` and the hole are no statuses.
  `Connection`: a link has room for a chunk.
* `Parameters`: ports begin at 1, `DEFAULT_DNS` is not empty, the default subnet has a
  prefix from 30 on; `None` is neither a number nor a flag. `Startup`: what an
  administrator writes has the widths of `u8` and `u16`, port 0 left out, since a
  bind takes it for any; marks like `Empty` are no values.

TLC evaluates all of them in each run of the module. Except where said, the
properties are not inductive; each module of proofs has an invariant `IInv` (in
`SupervisorProofs`, `SupInv`) that is.

`LifecycleProofs`: `OneTunnel` alone does not say why two calls cannot own: `IInv`
adds that whoever builds or supervises *holds the lock* (`LockInv`), that a call has
no supervisor before it returns (`PhaseInv`), that from `netns add` to the
supervisor's end the name is the call's own or free (`NameInv`), that from its move
on the pair is the one the call moved (`PairInv`), and which children a supervisor
has at each point, at its end only such as outlived both signals (`ChildInv`). Every
resource found by name is then the holder's or gone, since only the holder creates
one. From `IInv` follow `OneTunnel`, `OwnNamespace`, `OwnSocks`, `OwnPid`, `OwnPair`
and `CleanExit`; the refinement `TunnelCorrect` maps `EnableFlock` to `Acquire`,
`EnableNetns` to `Build`, `SupPid` to `Announce`, every end of a holder, a kill
included, to `Release`, and removals by name to the two that anybody may make. For
one call at a time (`mode`) `SerialInv` adds that at most one helper is busy and
what a disable has cleared by each of its steps (`ClearedInv`); `DisableClears`
follows. It rests on `ip netns del` succeeding where the name exists, as
`DisableNsDel` has it, and on `ip rule del` where there is a rule.

`SupervisorProofs`: the types, and `GivenUpShowsError` by `SupInv`: a device has
a live openvpn (`TunInv`), so that the tun checks of the turn in which openvpn is
given up find none and leave the `"error"` standing (`ErrorInv`, `RouteInv`).

`StatusFileProofs`: without an overlap a writer is alone (`AloneInv`), and a lone
one has the temporary file to itself, with so much of its text as it has
written (`LoneInv`); the temporary file is neither the status file nor
what a reader has open (`NamesInv`). So a rename publishes a whole text and
writes reach no reader: `Register`. `Mends` needs `LoneInv` only.

`ExtensionProofs`: the last pending event shows what the last write stored
(`ChangesInv`), so that with neither pending the page has taken over what is in
storage, but for the empty list of domains, which it does not (`RestInv`). Before
`loadState` is through there are no events, no port, and the domains are the
defaults unless a write is pending (`LoadingInv`): otherwise a stored empty list
would be read beside domains the popup has set. `ConnectedOrError` is inductive with
that.

`ConnectionProofs`: a direction is three queues and two copiers. What was received
and what the queues hold, from the reader's end on, is 1, 2, 3, ... up to what was
sent (`RunInv`); behind an end of file comes nothing, because the writer has
ended or the copier has stopped (`EndInv`); an end of file is passed on only when
all before it is, unless something broke (`CleanInv`). Each step of relays,
ends and tunnel is, in each direction, one of six *moves* (`NextIsMoves`), and
each move keeps the invariant (`DirStep`) and is a step of `Pipe` or none
(`DirIsPipe`): this is the refinement, for both directions at once.

`SocksProofs`: what was said fits where the handler is (`TalkInv`); no packet taken
while the search goes on offered an address (`TakenInv`), so that the last one
taken decides. A packet of a listed server is its response, and came after it was
asked (`SenderInv`); where each packet taken is of the server waited for, an address
that came in time is still to be taken by the wait for its server, and none is left
behind (`FirstInv`, `TimelyInv`).

`StartupProofs`: at each step of the installer the files written so far are its
arguments (`InstInv`), and after the last they belong together (`WholeInv`). The start
has read what the files still say if no install came between (`FreshInv`), and
what it hands on fits (`StartInv`). These rest on what the operators of
`Parameters` compute, for all arguments: `ArgsOfProperties`,
`PickSubnetProperties` (a free address without overflow, or none),
`BindFreePortProperties`, and `ChildSocks`, the round trip of the child's
arguments. `ArgsOf` is a recursive function; that it is defined, and what it
collects, is proved by a least counterexample in place of induction (`LeastNumber`),
since the induction theorems are out of the provers' reach.

**Only model-checked**: the liveness properties `StopFreesLock`,
`LostNamespaceEnds`, `StatusFollowsTunnel`, `TunLeavesHost`, `NoRestartStorm`, `StopEnds`,
`HealsUnlessFlagHangs`, `PortConverges`, `Delivered`, `AllEnds` and `RequestAnswered`, which
need fairness and `ENABLED`. No module declares a `RECURSIVE` operator.

## 6. Where code and docs part

| Run | Says | Does |
|---|---|---|
| `stoppable_by_disable` | README.md:182-184, the supervisor "can be stopped at any time" | A disable that comes while a supervisor starts deletes its pid file and its namespace; its socks child then cannot start, and it waits in `wait_for_stop` for a SIGTERM nobody can send, holding the lock. |
| `enable_never_tears_down` | helper.rs:76-78, a second enable "cannot tear the tunnel down" | An enable that read an old `"stopped"`, or one a late disable wrote, kills a supervisor whose tunnel is up. |
| `self_healing_after_error` | background.js:157-160, "self-healing" | After an `"error"` in reply to an enable, or a `"stopped"` from one that found the lock held, `enableInFlight` stays set, and every later `"stopped"` is ignored. |
| `atomic_write` | util.rs:114, "Atomically write a file" | All writers use one temporary file: two writes that overlap in it publish a mixture of two texts, which no reader can parse, until somebody writes again. |

The runs that pass state the conditions under which the code is right:
`HealsUnlessFlagHangs` excepts a page whose `connectNative` threw and one whose
`enableInFlight` hangs, the state that `self_healing_after_error` shows (a failing
helper brings it about, and so does a tunnel that goes from an error to a stop);
`DisableClears` has one call at a time, and addresses that `disable` is sure to be
given; `RegisterUnlessClash` no overlap; `FirstAnswerWins` no late or stray packet;
`TunnelOfOneInstall` no install since the start's first read; `AllEnds` no vanished
server (the relay has no timeout); `OnOneLink` an aligned /30.

Besides, met while reading and not run:

* when the pair cannot be moved into the namespace, `setup` deletes only the
  namespace (netns.rs:60-63) and the pair stays on the host: every later
  `ip link add` fails, until somebody deletes it;
* `enable` adds rules for the servers of `ovpn_path` (helper.rs:24-27, 113), `disable`
  removes those of the default path (helper.rs:167), or none if it cannot be read;
* a child that neither signal ends is given up (supervisor.rs:356), and if it is the socks
  child the namespace lives on without its name;
* a `connectNative` that throws leaves neither port nor timer (background.js:114-117):
  the page shows an error until it is reloaded;
* `recv_from` takes a packet of any sender (dns.rs:28), and only its id ties it to the
  query: the oldest packet that offers an address decides, whoever sent it;
* `bind_free_port` starts at `port` "(inclusive)" (relay.rs:11), but 65535 is never tried:
  a start with that port is refused with nothing in use;
* a device whose address or link cannot be set after its move (netns.rs:155-162) stays
  down in the namespace, and nothing tries again;
* the last click need not win: a late storage event (background.js:45) or
  `loadState` (background.js:247) may set the preferences back, with storage and routing;
* an orphaned socks child keeps the unnamed namespace and the pair, and
  every later `ip link add` fails, against helper.rs:162 "remove any stale state";
* a disable lost with its host is not sent again, against README.md:182-185;
* a status with port 0 sends requests to port 1080, whoever listens there, against
  README.md:63-65, until the tunnel's next status;
* the lock is tried once although helper.rs:87 says "then try again"; the
  force-kill "so a fresh tunnel can come up" (helper.rs:37-38) is followed by a
  setup that fails, because the namespace is still there;
* rules stay when the resolver's answer changes, when `fork`
  fails and when the namespace is lost; README.md:75-76 ("Nothing else") does not
  count them;
* the installer looks at the credentials only after it has replaced the `.ovpn`
  (config.rs:151-159), and a `config.toml` that is cut off right after its
  truncation is a valid one, with every default;
* a subnet of /31 or /32, or one that begins at no boundary of a /30, is accepted, and
  the two ends need not share it;
* a relay whose port is taken between `bind_free_port` and its own bind ends at once, and
  the supervisor reports a tunnel without it.

## 7. What is not modelled, and why

* A pid used again by another process, and a pid file read half written (which
  acts as one not there).
* The death of a helper: it runs as root under `sudo`, and Firefox cannot end it.
  `SupCrash` and SIGKILL are for supervisors.
* `ip netns del` failing although the name exists, in `DisableNsDel` and `SupNsDel`;
  `ip rule del` failing although the rule exists, in `DisableRules`;
  `ip link del` of an old device failing, in `MoveTunDel`.
* What an administrator does to the path of the `.ovpn` in `config.toml`: `Startup`
  has the one file. `Lifecycle` has the two paths (`ResolveDefault`).
* Connections on the path from a killed process are reset (`Killed`); with nothing
  unread the kernel ends the stream instead. To `Pipe` both are a break. A chunk
  in the buffer of `io::copy` counts as not yet read.
* That `try_clone` fails in `util::relay`: both sockets are dropped, as in `Refuse`.
  A reset of one link is passed on as a clean end of file; `Pipe` allows it once
  something is broken.
* The length prefix of native messages (`read_message`, `write_message`): the page
  sends whole, short messages, so that no other case arises.
* The normalisation of domains (`domainmatch.js`): one regular expression over text.
* TOML, JSON, the bytes of SOCKS and DNS messages, the output of `ip`: what the
  code takes from them is in the models, their syntax is not. Names in DNS
  packets (`skip_name`) are where a response may be cut off.
* The resolution of the servers' names in `Startup`: its rules are by name; in
  `Lifecycle` a resolver chooses the addresses.
* Dispatch on `argv`, installer script, icon generator, logs, modes of files, the
  drawing of the popup: no behaviour in time.
* Firefox's storage, TCP, the kernel's namespaces and openvpn are modelled from how the
  code uses them, and marked external in `PROJECT.json`. `onChanged` carries every
  key written.

## 8. Plan

No safety property that a run checks is without a theorem. What would add
something:

1. `Supervisor` as the detail of the control point `loop` of `Lifecycle`: the
   refinement of one supervisor's start, loop and ends, checked and then proved.
2. Safety parts of the liveness properties as theorems of their own, where they
   say something by themselves: what `StatusFollowsTunnel` and `StopEnds` rest
   on in the loop of `Supervisor`.
