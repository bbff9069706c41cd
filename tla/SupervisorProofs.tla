-------------------------- MODULE SupervisorProofs --------------------------
(***************************************************************************)
(* What Supervisor promises for any number of restarts and any delay.      *)
(***************************************************************************)
EXTENDS Supervisor, TLAPS

USE DEF vpnVars, tunVars

-----------------------------------------------------------------------------
(* The inductive invariant *)

\* A device of openvpn's, on the host or in the namespace, has a live openvpn.
TunInv ==
    hostTun # "none" \/ nsTun \in {"down", "up"} => vpn \in {"running", "stuck"}

\* A child that no signal ends is met only at the end, and the loop is entered
\* with an openvpn.
ChildInv ==
    /\ pc \in LoopPc => vpn # "stuck"
    /\ pc = "spawnsocks" => vpn \in {"running", "dead"}

\* Once openvpn is given up the status is "error", from the reap on through the
\* tun checks of that turn and all the turns after it.
ErrorInv == pc \in LoopPc \ {"route"} /\ vpn = "none" => state = "error"

\* The default route is asked for only with an openvpn that was alive.
RouteInv == pc = "route" => vpn \in {"running", "dead"}

SupInv == TypeOK /\ TunInv /\ ChildInv /\ ErrorInv /\ RouteInv

-----------------------------------------------------------------------------
(* It is inductive *)

\* The initial state satisfies it.
LEMMA SupInit == Init => SupInv
<1> SUFFICES ASSUME Init PROVE SupInv
  OBVIOUS
<1> USE RestartsIsNat, DelayIsNat DEF Init, Pc, LoopPc, EndPc, Child
<1>1. TypeOK
  <2>1. restarts \in 0..MaxRestarts /\ elapsed \in 0..RestartDelay
    OBVIOUS
  <2>2. stop \in BOOLEAN /\ ns \in BOOLEAN /\ route \in BOOLEAN
    BY Zenon
  <2>3. /\ pc \in Pc /\ state = "starting"
        /\ vpn \in Child /\ socks \in Child
        /\ hostTun = "none" /\ nsTun = "none"
    OBVIOUS
  <2>4. QED
    BY <2>1, <2>2, <2>3, Zenon DEF TypeOK
<1>2. TunInv /\ ChildInv /\ ErrorInv /\ RouteInv
  BY DEF TunInv, ChildInv, ErrorInv, RouteInv
<1>3. QED
  BY <1>1, <1>2 DEF SupInv

\* Every step of the supervisor and of the world keeps it.
LEMMA SupStep == SupInv /\ [Next]_vars => SupInv'
<1> SUFFICES ASSUME SupInv, [Next]_vars PROVE SupInv'
  OBVIOUS
<1> USE RestartsIsNat, DelayIsNat
    DEF SupInv, TypeOK, TunInv, ChildInv, ErrorInv, RouteInv, Pc, LoopPc,
        EndPc, Child, Goto
<1>1. ASSUME Step PROVE SupInv'
  <2>1. CASE Bind
    BY <2>1 DEF Bind
  <2>2. CASE SpawnVpn
    BY <2>2 DEF SpawnVpn
  <2>3. CASE SpawnSocks
    BY <2>3 DEF SpawnSocks
  <2>4. CASE WaitForStop
    BY <2>4 DEF WaitForStop
  <2>5. CASE CheckStop
    BY <2>5 DEF CheckStop
  <2>6. CASE CheckNs
    BY <2>6 DEF CheckNs
  <2>7. CASE ReapVpn
    <3>1. CASE vpn # "dead" /\ UNCHANGED <<vpnVars, state>>
      BY <2>7, <3>1 DEF ReapVpn
    <3>2. CASE vpn = "dead" /\ Restart
      BY <2>7, <3>2 DEF ReapVpn, Restart
    <3>3. CASE vpn = "dead" /\ GiveUp
      BY <2>7, <3>3 DEF ReapVpn, GiveUp
    <3>4. QED
      BY <2>7, <3>1, <3>2, <3>3 DEF ReapVpn
  <2>8. CASE ReapSocks
    BY <2>8 DEF ReapSocks
  <2>9. CASE HostTunReady
    BY <2>9 DEF HostTunReady
  <2>10. CASE MoveTunDel
    BY <2>10 DEF MoveTunDel
  <2>11. CASE MoveTunSet
    BY <2>11 DEF MoveTunSet, TunMoves
  <2>12. CASE MoveTunUp
    BY <2>12 DEF MoveTunUp
  <2>13. CASE Look
    BY <2>13 DEF Look, TunUp
  <2>14. CASE Route
    BY <2>14 DEF Route, TunUp
  <2>15. CASE Sleep
    BY <2>15 DEF Sleep
  <2>16. CASE Final
    BY <2>16 DEF Final
  <2>17. CASE StopVpn
    BY <2>17 DEF StopVpn, Stopped, CloseTun
  <2>18. CASE StopSocks
    BY <2>18 DEF StopSocks, Stopped
  <2>19. CASE CleanupNetns
    BY <2>19 DEF CleanupNetns
  <2>20. QED
    BY <1>1, <2>1, <2>2, <2>3, <2>4, <2>5, <2>6, <2>7, <2>8, <2>9, <2>10,
        <2>11, <2>12, <2>13, <2>14, <2>15, <2>16, <2>17, <2>18, <2>19 DEF Step
<1>2. ASSUME World PROVE SupInv'
  <2>1. CASE Sigterm
    BY <2>1 DEF Sigterm
  <2>2. CASE NsDeleted
    <3>1. TypeOK'
      <4>1. ns' \in BOOLEAN
        BY <2>2, Zenon DEF NsDeleted
      <4>2. UNCHANGED <<pc, state, restarts, elapsed, vpn, stop, socks, hostTun,
                        nsTun, route>>
        BY <2>2 DEF NsDeleted
      <4>3. QED
        BY <4>1, <4>2
    <3>2. TunInv' /\ ChildInv' /\ ErrorInv' /\ RouteInv'
      BY <2>2 DEF NsDeleted
    <3>3. QED
      BY <3>1, <3>2
  <2>3. CASE SocksDies
    BY <2>3 DEF SocksDies
  <2>4. CASE VpnDies
    <3>1. TypeOK'
      BY <2>4 DEF VpnDies, CloseTun
    <3>2. TunInv' /\ ChildInv' /\ ErrorInv' /\ RouteInv'
      BY <2>4 DEF VpnDies, CloseTun
    <3>3. QED
      BY <3>1, <3>2
  <2>5. CASE VpnReconnects
    <3>1. TypeOK'
      BY <2>5 DEF VpnReconnects, CloseTun
    <3>2. TunInv' /\ ChildInv' /\ ErrorInv' /\ RouteInv'
      BY <2>5 DEF VpnReconnects, CloseTun
    <3>3. QED
      BY <3>1, <3>2
  <2>6. CASE VpnOpensTun
    BY <2>6 DEF VpnOpensTun
  <2>7. CASE VpnConfiguresTun
    BY <2>7 DEF VpnConfiguresTun
  <2>8. QED
    BY <1>2, <2>1, <2>2, <2>3, <2>4, <2>5, <2>6, <2>7 DEF World
<1>3. ASSUME UNCHANGED vars PROVE SupInv'
  BY <1>3 DEF vars
<1>4. QED
  BY <1>1, <1>2, <1>3 DEF Next

\* The inductive invariant holds in every reachable state.
LEMMA SupCorrect == Spec => []SupInv
  BY SupInit, SupStep, PTL DEF Spec

-----------------------------------------------------------------------------
(* What follows from it *)

\* Every variable keeps its type; in particular openvpn is never restarted more
\* than MAX_OPENVPN_RESTARTS times.
THEOREM SupervisorTypes == Spec => []TypeOK
<1>1. SupInv => TypeOK
  BY DEF SupInv
<1>2. QED
  BY <1>1, SupCorrect, PTL

\* At the end of a turn the status of a supervisor that has given up openvpn is
\* "error" (supervisor.rs:156-168 with 184-208).
THEOREM GivenUpShowsErrorHolds == Spec => []GivenUpShowsError
<1>1. SupInv => GivenUpShowsError
  BY DEF SupInv, ErrorInv, GivenUpShowsError, LoopPc
<1>2. QED
  BY <1>1, SupCorrect, PTL
=============================================================================
