-------------------------- MODULE TunnelOwnership --------------------------
(***************************************************************************)
(* What the companion promises about its one tunnel, without saying how.   *)
(*                                                                         *)
(* The host holds one network namespace called `kitvpn` and one pid file.  *)
(* Each `helper enable` that really starts a tunnel is a potential owner.  *)
(* The promise (helper.rs:74-78, "exclusive lock held by the supervisor    *)
(* for its lifetime"): ownership is exclusive, it is never handed from one *)
(* call to another without being given up in between, only the owner       *)
(* creates a namespace or announces a pid, and a namespace is created only *)
(* where there is none.  Anybody may take the namespace or the pid file    *)
(* away: that is what `helper disable` and the force-kill path do.         *)
(***************************************************************************)
CONSTANTS
    Call,   \* the invocations of the root helper
    None    \* no call, and no member of Call

VARIABLES
    owner,  \* the call whose tunnel this is, or None
    ns,     \* the call that created the namespace named kitvpn, or None
    pid     \* the call whose supervisor the pid file names, or None

vars == <<owner, ns, pid>>

Init == owner = None /\ ns = None /\ pid = None

Acquire(c) ==
    /\ owner = None
    /\ owner' = c
    /\ UNCHANGED <<ns, pid>>

Build(c) ==
    /\ owner = c
    /\ ns = None
    /\ ns' = c
    /\ UNCHANGED <<owner, pid>>

Announce(c) ==
    /\ owner = c
    /\ pid' = c
    /\ UNCHANGED <<owner, ns>>

\* The owner may take the namespace down as it leaves; if it is killed the
\* namespace stays behind.
Release(c) ==
    /\ owner = c
    /\ owner' = None
    /\ ns' \in {ns, None}
    /\ UNCHANGED pid

DropNamespace ==
    /\ ns' = None
    /\ UNCHANGED <<owner, pid>>

WithdrawPid ==
    /\ pid' = None
    /\ UNCHANGED <<owner, ns>>

Next ==
    \/ \E c \in Call : Acquire(c) \/ Build(c) \/ Announce(c) \/ Release(c)
    \/ DropNamespace
    \/ WithdrawPid

Spec == Init /\ [][Next]_vars
=============================================================================
