-------------------------- MODULE LifecycleProofs --------------------------
(***************************************************************************)
(* What Lifecycle promises for any set of calls, any resolver answers, and *)
(* calls one at a time or overlapping.                                     *)
(***************************************************************************)
EXTENDS Lifecycle, TLAPS

USE DEF helperVars, childVars, supVars, fileVars, netVars

-----------------------------------------------------------------------------
(* Types *)

\* How the calls are issued does not change.
LEMMA ModeStep == [Next]_vars => mode' = mode
  BY DEF Next, EnableStep, DisableStep, SupStep, LoopEvent, SupCrash,
         OrphanEnds, vars

\* The initial values have their types.
LEMMA TypeInit == Init => TypeOK
  BY DEF Init, TypeOK, HelperPc, SupPc, State, Healthy

\* Every step keeps the types.
LEMMA TypeStep == TypeOK /\ [Next]_vars => TypeOK'
<1> SUFFICES ASSUME TypeOK, [Next]_vars PROVE TypeOK'
  OBVIOUS
<1>0. mode' = mode
  BY ModeStep
<1> USE <1>0, ResolveType DEF TypeOK, HelperPc, EnablePc, DisablePc, SupPc, LivePc,
        State, Healthy
<1>1. ASSUME NEW c \in Call, EnableStep(c) PROVE TypeOK'
  <2>1. CASE EnableNoConfig(c)
    BY <2>1 DEF EnableNoConfig, Goto
  <2>2. CASE EnableReadPid(c)
    BY <2>2 DEF EnableReadPid, Goto
  <2>3. CASE EnableProbe(c)
    BY <2>3 DEF EnableProbe, Goto
  <2>4. CASE EnableHealth(c)
    BY <2>4 DEF EnableHealth, Goto, Forget
  <2>5. CASE EnableKill(c)
    BY <2>5 DEF EnableKill, Goto, Forget, SupEnds, Unlock
  <2>6. CASE EnableUnpid(c)
    BY <2>6 DEF EnableUnpid, Goto
  <2>7. CASE EnableFlock(c)
    BY <2>7 DEF EnableFlock, Goto
  <2>8. CASE EnablePoll(c)
    BY <2>8 DEF EnablePoll, Goto
  <2>9. CASE EnableNoSubnet(c)
    BY <2>9 DEF EnableNoSubnet, Goto, Unlock
  <2>10. CASE EnableNetns(c)
    BY <2>10 DEF EnableNetns, Goto, SetupFails
  <2>11. CASE EnableVeth(c)
    BY <2>11 DEF EnableVeth, Goto, SetupFails
  <2>12. CASE EnablePlumb(c)
    BY <2>12 DEF EnablePlumb, Goto, SetupFails
  <2>13. CASE EnableAddr(c)
    BY <2>13 DEF EnableAddr, Goto, SetupFails
  <2>14. CASE EnableAbort(c)
    BY <2>14 DEF EnableAbort, Goto, Unlock
  <2>15. CASE EnableRules(c)
    BY <2>15 DEF EnableRules, Goto
  <2>16. CASE EnableFork(c)
    BY <2>16 DEF EnableFork, Goto
  <2>17. CASE EnableForkFails(c)
    BY <2>17 DEF EnableForkFails, Goto, Unlock
  <2>18. QED
    BY <1>1, <2>1, <2>2, <2>3, <2>4, <2>5, <2>6, <2>7, <2>8, <2>9, <2>10,
        <2>11, <2>12, <2>13, <2>14, <2>15, <2>16, <2>17
       DEF EnableStep
<1>2. ASSUME NEW c \in Call, DisableStep(c) PROVE TypeOK'
  <2>1. CASE DisableReadPid(c)
    BY <2>1 DEF DisableReadPid, Goto
  <2>2. CASE DisableTerm(c)
    BY <2>2 DEF DisableTerm, Goto
  <2>3. CASE DisableAwait(c)
    BY <2>3 DEF DisableAwait, Goto, Forget
  <2>4. CASE DisableNsDel(c)
    BY <2>4 DEF DisableNsDel, Goto
  <2>5. CASE DisableUnpid(c)
    BY <2>5 DEF DisableUnpid, Goto
  <2>6. CASE DisableRules(c)
    BY <2>6 DEF DisableRules, Goto
  <2>7. CASE DisableStatus(c)
    BY <2>7 DEF DisableStatus, Goto
  <2>8. QED
    BY <1>2, <2>1, <2>2, <2>3, <2>4, <2>5, <2>6, <2>7
       DEF DisableStep
<1>3. ASSUME NEW c \in Call, SupStep(c) PROVE TypeOK'
  <2>1. CASE SupPid(c)
    BY <2>1 DEF SupPid, SupGoto
  <2>2. CASE SupAnnounce(c)
    BY <2>2 DEF SupAnnounce, SupGoto, SetState
  <2>3. CASE SupLaunch(c)
    BY <2>3 DEF SupLaunch, SupGoto
  <2>4. CASE SupLaunchFails(c)
    BY <2>4 DEF SupLaunchFails, SupGoto, SetState
  <2>5. CASE SupSocks(c)
    BY <2>5 DEF SupSocks, SupGoto
  <2>6. CASE SupSocksFails(c)
    BY <2>6 DEF SupSocksFails, SupGoto, SetState
  <2>7. CASE SupWaitOver(c)
    BY <2>7 DEF SupWaitOver, SupGoto
  <2>8. CASE LoopStop(c)
    BY <2>8 DEF LoopStop, SupGoto
  <2>9. CASE LoopNsGone(c)
    BY <2>9 DEF LoopNsGone, SupGoto, SetState
  <2>10. CASE SupFinal(c)
    BY <2>10 DEF SupFinal, SupGoto
  <2>11. CASE SupUnpid(c)
    BY <2>11 DEF SupUnpid, SupGoto
  <2>12. CASE SupReap(c)
    BY <2>12 DEF SupReap, SupGoto, Children
  <2>13. CASE SupNsDel(c)
    BY <2>13 DEF SupNsDel, SupEnds, Unlock
  <2>14. QED
    BY <1>3, <2>1, <2>2, <2>3, <2>4, <2>5, <2>6, <2>7, <2>8, <2>9, <2>10,
        <2>11, <2>12, <2>13
       DEF SupStep
<1>4. ASSUME NEW c \in Call, LoopEvent(c) PROVE TypeOK'
  <2>1. CASE LoopRestart(c)
    BY <2>1 DEF LoopRestart, SetState
  <2>2. CASE LoopGiveUp(c)
    BY <2>2 DEF LoopGiveUp, SetState
  <2>3. CASE LoopSocks(c)
    BY <2>3 DEF LoopSocks
  <2>4. CASE LoopTunUp(c)
    BY <2>4 DEF LoopTunUp, SetState
  <2>5. CASE LoopTunDown(c)
    BY <2>5 DEF LoopTunDown, SetState
  <2>6. QED
    BY <1>4, <2>1, <2>2, <2>3, <2>4, <2>5
       DEF LoopEvent
<1>5. ASSUME NEW c \in Call, SupCrash(c) PROVE TypeOK'
  BY <1>5 DEF SupCrash, SupEnds, Unlock
<1>6. ASSUME NEW c \in Call, OrphanEnds(c) PROVE TypeOK'
  BY <1>6 DEF OrphanEnds
<1>7. CASE UNCHANGED vars
  BY <1>7 DEF vars
<1>8. QED
  BY <1>1, <1>2, <1>3, <1>4, <1>5, <1>6, <1>7 DEF Next

\* Every variable keeps its type.
THEOREM TypeCorrect == Spec => []TypeOK
<1>1. Init => TypeOK
  BY TypeInit
<1>2. TypeOK /\ [Next]_vars => TypeOK'
  BY TypeStep
<1>3. QED
  BY <1>1, <1>2, PTL DEF Spec

-----------------------------------------------------------------------------
(* The inductive invariant *)

\* A call has no supervisor before it returns, and a pid once it aims at one.
PhaseInv ==
    \A c \in Call :
        /\ helper[c] # "done" => sup[c] = "none"
        /\ helper[c] \in {"probe", "health", "kill"} => target[c] \in Call

\* Both processes of a call hold the lock for as long as they own the tunnel.
LockInv == \A c \in Call : Owns(c) => lock = c

\* From netns add to the supervisor's end the name is the call's own, or free.
NameInv ==
    \A c \in Call :
        helper[c] \in {"veth", "plumb", "addr", "rules", "fork"} \/ Alive(c)
            => nsName \in {c, None}

\* From the move of the pair on, the pair is the one the call itself moved.
PairInv ==
    \A c \in Call :
        helper[c] \in {"addr", "rules", "fork"} \/ Alive(c) => veth = c

\* Which children a supervisor has at each point, and what is gone at its end.
ChildInv ==
    \A c \in Call :
        /\ sup[c] \in {"none", "forked", "announce", "launch"}
            => ~ovpn[c] /\ socks[c] = None
        /\ sup[c] = "socks" => socks[c] = None
        /\ sup[c] \in {"nsdel", "exited"} =>
              /\ ovpn[c] => "ovpn" \in outlived[c]
              /\ socks[c] # None => "socks" \in outlived[c]
        /\ sup[c] = "exited" => nsName # c /\ lock # c

IInv ==
    /\ TypeOK
    /\ PhaseInv
    /\ LockInv
    /\ NameInv
    /\ OwnSocks
    /\ OwnPid
    /\ PairInv
    /\ ChildInv

\* At first nobody owns anything.
LEMMA IInvInit == Init => IInv
<1> SUFFICES ASSUME Init PROVE IInv
  OBVIOUS
<1>1. TypeOK
  BY TypeInit
<1>2. /\ PhaseInv /\ LockInv /\ NameInv /\ OwnSocks /\ OwnPid /\ PairInv
      /\ ChildInv
  BY DEF Init, PhaseInv, LockInv, NameInv, OwnSocks, OwnPid, PairInv, ChildInv, Owns,
         Alive, LivePc, Critical
<1>3. QED
  BY <1>1, <1>2 DEF IInv

\* Every step keeps the inductive invariant.
LEMMA IInvStep == IInv /\ [Next]_vars => IInv'
<1> SUFFICES ASSUME IInv, [Next]_vars PROVE IInv'
  OBVIOUS
<1>0. TypeOK'
  BY TypeStep DEF IInv
<1> USE NoneNotCall, <1>0
    DEF IInv, TypeOK, PhaseInv, LockInv, NameInv, OwnSocks, OwnPid,
        PairInv, ChildInv, Owns, Alive, LivePc, Critical
<1>1. ASSUME NEW c \in Call, EnableStep(c) PROVE IInv'
  <2>1. CASE EnableNoConfig(c)
    BY <2>1 DEF EnableNoConfig, Goto
  <2>2. CASE EnableReadPid(c)
    BY <2>2 DEF EnableReadPid, Goto
  <2>3. CASE EnableProbe(c)
    BY <2>3 DEF EnableProbe, Goto
  <2>4. CASE EnableHealth(c)
    BY <2>4 DEF EnableHealth, Goto, Forget
  \* The target dies and gives up its own lock only: it stops owning.
  <2>5. CASE EnableKill(c)
    BY <2>5 DEF EnableKill, Goto, Forget, SupEnds, Unlock
  <2>6. CASE EnableUnpid(c)
    BY <2>6 DEF EnableUnpid, Goto
  \* The lock was free, so by LockInv no call owned the tunnel.
  <2>7. CASE EnableFlock(c)
    BY <2>7 DEF EnableFlock, Goto
  <2>8. CASE EnablePoll(c)
    BY <2>8 DEF EnablePoll, Goto
  <2>9. CASE EnableNoSubnet(c)
    BY <2>9 DEF EnableNoSubnet, Goto, Unlock
  \* The name was free, and no other call is alive to work with it.
  <2>10. CASE EnableNetns(c)
    BY <2>10 DEF EnableNetns, Goto, SetupFails
  <2>11. CASE EnableVeth(c)
    BY <2>11 DEF EnableVeth, Goto, SetupFails
  <2>12. CASE EnablePlumb(c)
    BY <2>12 DEF EnablePlumb, Goto, SetupFails
  <2>13. CASE EnableAddr(c)
    BY <2>13 DEF EnableAddr, Goto, SetupFails
  <2>14. CASE EnableAbort(c)
    BY <2>14 DEF EnableAbort, Goto, Unlock
  <2>15. CASE EnableRules(c)
    BY <2>15 DEF EnableRules, Goto
  \* The supervisor takes over lock and name from the helper.
  <2>16. CASE EnableFork(c)
    BY <2>16 DEF EnableFork, Goto
  <2>17. CASE EnableForkFails(c)
    BY <2>17 DEF EnableForkFails, Goto, Unlock
  <2>18. QED
    BY <1>1, <2>1, <2>2, <2>3, <2>4, <2>5, <2>6, <2>7, <2>8, <2>9, <2>10,
        <2>11, <2>12, <2>13, <2>14, <2>15, <2>16, <2>17
       DEF EnableStep
<1>2. ASSUME NEW c \in Call, DisableStep(c) PROVE IInv'
  <2>1. CASE DisableReadPid(c)
    BY <2>1 DEF DisableReadPid, Goto
  <2>2. CASE DisableTerm(c)
    BY <2>2 DEF DisableTerm, Goto
  <2>3. CASE DisableAwait(c)
    BY <2>3 DEF DisableAwait, Goto, Forget
  <2>4. CASE DisableNsDel(c)
    BY <2>4 DEF DisableNsDel, Goto
  <2>5. CASE DisableUnpid(c)
    BY <2>5 DEF DisableUnpid, Goto
  <2>6. CASE DisableRules(c)
    BY <2>6 DEF DisableRules, Goto
  <2>7. CASE DisableStatus(c)
    BY <2>7 DEF DisableStatus, Goto
  <2>8. QED
    BY <1>2, <2>1, <2>2, <2>3, <2>4, <2>5, <2>6, <2>7
       DEF DisableStep
<1>3. ASSUME NEW c \in Call, SupStep(c) PROVE IInv'
  \* Only the lock holder announces itself, so the file names nobody else.
  <2>1. CASE SupPid(c)
    BY <2>1 DEF SupPid, SupGoto
  <2>2. CASE SupAnnounce(c)
    BY <2>2 DEF SupAnnounce, SupGoto, SetState
  <2>3. CASE SupLaunch(c)
    BY <2>3 DEF SupLaunch, SupGoto
  <2>4. CASE SupLaunchFails(c)
    BY <2>4 DEF SupLaunchFails, SupGoto, SetState
  \* By NameInv the namespace of that name is the call's own.
  <2>5. CASE SupSocks(c)
    BY <2>5 DEF SupSocks, SupGoto
  <2>6. CASE SupSocksFails(c)
    BY <2>6 DEF SupSocksFails, SupGoto, SetState
  <2>7. CASE SupWaitOver(c)
    BY <2>7 DEF SupWaitOver, SupGoto
  <2>8. CASE LoopStop(c)
    BY <2>8 DEF LoopStop, SupGoto
  <2>9. CASE LoopNsGone(c)
    BY <2>9 DEF LoopNsGone, SupGoto, SetState
  <2>10. CASE SupFinal(c)
    BY <2>10 DEF SupFinal, SupGoto
  <2>11. CASE SupUnpid(c)
    BY <2>11 DEF SupUnpid, SupGoto
  \* What still runs afterwards is what the signals did not end.
  <2>12. CASE SupReap(c)
    <3>1. PICK left \in SUBSET Children(c) :
             /\ outlived' = [outlived EXCEPT ![c] = left]
             /\ ovpn' = [ovpn EXCEPT ![c] = "ovpn" \in left]
             /\ socks' = [socks EXCEPT ![c] = IF "socks" \in left THEN @ ELSE None]
      BY <2>12 DEF SupReap
    <3>2. /\ outlived'[c] = left
          /\ ovpn'[c] => "ovpn" \in left
          /\ socks'[c] # None => "socks" \in left
          /\ socks'[c] \in {c, None}
      BY <3>1
    <3>3. ChildInv'
      BY <2>12, <3>1, <3>2 DEF SupReap, SupGoto
    <3>4. OwnSocks'
      BY <3>1, <3>2
    <3>5. QED
      BY <2>12, <3>3, <3>4 DEF SupReap, SupGoto
  \* By ChildInv the children are gone before the lock is.
  <2>13. CASE SupNsDel(c)
    BY <2>13 DEF SupNsDel, SupEnds, Unlock
  <2>14. QED
    BY <1>3, <2>1, <2>2, <2>3, <2>4, <2>5, <2>6, <2>7, <2>8, <2>9, <2>10,
        <2>11, <2>12, <2>13
       DEF SupStep
<1>4. ASSUME NEW c \in Call, LoopEvent(c) PROVE IInv'
  <2>1. CASE LoopRestart(c)
    BY <2>1 DEF LoopRestart, SetState
  <2>2. CASE LoopGiveUp(c)
    BY <2>2 DEF LoopGiveUp, SetState
  <2>3. CASE LoopSocks(c)
    BY <2>3 DEF LoopSocks
  <2>4. CASE LoopTunUp(c)
    BY <2>4 DEF LoopTunUp, SetState
  <2>5. CASE LoopTunDown(c)
    BY <2>5 DEF LoopTunDown, SetState
  <2>6. QED
    BY <1>4, <2>1, <2>2, <2>3, <2>4, <2>5
       DEF LoopEvent
<1>5. ASSUME NEW c \in Call, SupCrash(c) PROVE IInv'
  BY <1>5 DEF SupCrash, SupEnds, Unlock
<1>6. ASSUME NEW c \in Call, OrphanEnds(c) PROVE IInv'
  BY <1>6 DEF OrphanEnds
<1>7. CASE UNCHANGED vars
  BY <1>7 DEF vars
<1>8. QED
  BY <1>1, <1>2, <1>3, <1>4, <1>5, <1>6, <1>7 DEF Next

\* The inductive invariant holds in every state the program reaches: the lock
\* is held by whoever builds or supervises, and name, pid file and children
\* follow its holder.
THEOREM IInvCorrect == Spec => []IInv
<1>1. Init => IInv
  BY IInvInit
<1>2. IInv /\ [Next]_vars => IInv'
  BY IInvStep
<1>3. QED
  BY <1>1, <1>2, PTL DEF Spec

-----------------------------------------------------------------------------
(* What follows from it *)

\* The six safety properties follow from the inductive invariant.
LEMMA IInvImplies ==
    IInv => /\ OneTunnel /\ OwnNamespace /\ OwnSocks /\ OwnPid /\ OwnPair
            /\ CleanExit
<1> SUFFICES ASSUME IInv
             PROVE /\ OneTunnel /\ OwnNamespace /\ OwnSocks /\ OwnPid /\ OwnPair
                   /\ CleanExit
  OBVIOUS
<1>1. OneTunnel
  BY DEF IInv, LockInv, OneTunnel
<1>2. OwnNamespace
  BY DEF IInv, NameInv, OwnNamespace
<1>3. OwnSocks /\ OwnPid
  BY DEF IInv
<1>4. OwnPair
  BY DEF IInv, PairInv, OwnPair
<1>5. CleanExit
  <2> SUFFICES ASSUME NEW c \in Call, sup[c] = "exited"
               PROVE  /\ nsName # c /\ lock # c
                      /\ ovpn[c] => "ovpn" \in outlived[c]
                      /\ NsLive(c) => "socks" \in outlived[c]
    BY DEF CleanExit
  <2>1. /\ nsName # c /\ lock # c
        /\ ovpn[c] => "ovpn" \in outlived[c]
        /\ socks[c] # None => "socks" \in outlived[c]
    BY DEF IInv, ChildInv
  \* Without its name it lives by a socks child, which can only be its own.
  <2>2. NsLive(c) => socks[c] = c
    BY <2>1, NoneNotCall DEF NsLive, IInv, OwnSocks
  <2>3. QED
    BY <2>1, <2>2, NoneNotCall
<1>6. QED
  BY <1>1, <1>2, <1>3, <1>4, <1>5

\* No two calls ever build or supervise a tunnel at once.
THEOREM OneTunnelHolds == Spec => []OneTunnel
  BY IInvCorrect, IInvImplies, PTL

\* The namespace a supervisor finds under the name is its own.
THEOREM OwnNamespaceHolds == Spec => []OwnNamespace
  BY IInvCorrect, IInvImplies, PTL

\* A socks child lives in the namespace its own call built.
THEOREM OwnSocksHolds == Spec => []OwnSocks
  BY IInvCorrect, IInvImplies, PTL

\* The pid file never names another supervisor than a live announced one.
THEOREM OwnPidHolds == Spec => []OwnPid
  BY IInvCorrect, IInvImplies, PTL

\* The pair under a live supervisor is the one its own call made and moved.
THEOREM OwnPairHolds == Spec => []OwnPair
  BY IInvCorrect, IInvImplies, PTL

\* A supervisor that ends by itself leaves nothing of its own behind but a child
\* that its signals did not end.
THEOREM CleanExitHolds == Spec => []CleanExit
  BY IInvCorrect, IInvImplies, PTL

-----------------------------------------------------------------------------
(* Lifecycle implements TunnelOwnership *)

\* The initial states map to the abstract one.
LEMMA TunnelInit == Init => Tunnel!Init
  BY DEF Init, Tunnel!Init

\* EnableFlock is Acquire, EnableNetns is Build, SupPid is Announce; every end
\* of a lock holder, a kill included, is Release; the removals by name are
\* DropNamespace and WithdrawPid; the rest stutters.
LEMMA TunnelStep == IInv /\ [Next]_vars => [Tunnel!Next]_(Tunnel!vars)
<1> SUFFICES ASSUME IInv, [Next]_vars PROVE [Tunnel!Next]_(Tunnel!vars)
  OBVIOUS
<1> USE NoneNotCall DEF IInv, TypeOK, PhaseInv, LockInv, Owns, Alive, LivePc,
        Critical
<1> USE DEF Tunnel!Next, Tunnel!vars, Tunnel!Acquire, Tunnel!Build,
        Tunnel!Announce, Tunnel!Release, Tunnel!DropNamespace,
        Tunnel!WithdrawPid
<1>1. ASSUME NEW c \in Call, EnableStep(c) PROVE [Tunnel!Next]_(Tunnel!vars)
  BY <1>1 DEF EnableStep, EnableNoConfig, EnableReadPid, EnableProbe,
        EnableHealth, EnableKill, EnableUnpid, EnableFlock, EnablePoll,
        EnableNoSubnet, EnableNetns, EnableVeth, EnablePlumb, EnableAddr,
        EnableAbort, EnableRules, EnableFork, EnableForkFails, Goto, Forget,
        SetupFails, SupEnds, Unlock
<1>2. ASSUME NEW c \in Call, DisableStep(c) PROVE [Tunnel!Next]_(Tunnel!vars)
  BY <1>2 DEF DisableStep, DisableReadPid, DisableTerm, DisableAwait,
        DisableNsDel, DisableUnpid, DisableRules, DisableStatus, Goto, Forget
<1>3. ASSUME NEW c \in Call, SupStep(c) PROVE [Tunnel!Next]_(Tunnel!vars)
  BY <1>3 DEF SupStep, SupPid, SupAnnounce, SupLaunch, SupLaunchFails,
        SupSocks, SupSocksFails, SupWaitOver, LoopStop, LoopNsGone, SupFinal,
        SupUnpid, SupReap, SupNsDel, SupEnds, SetState, SupGoto, Unlock
<1>4. ASSUME NEW c \in Call, LoopEvent(c) PROVE [Tunnel!Next]_(Tunnel!vars)
  BY <1>4 DEF LoopEvent, LoopRestart, LoopGiveUp, LoopSocks, LoopTunUp,
        LoopTunDown, SetState
<1>5. ASSUME NEW c \in Call, SupCrash(c) PROVE [Tunnel!Next]_(Tunnel!vars)
  BY <1>5 DEF SupCrash, SupEnds, Unlock
<1>6. ASSUME NEW c \in Call, OrphanEnds(c) PROVE [Tunnel!Next]_(Tunnel!vars)
  BY <1>6 DEF OrphanEnds
<1>7. CASE UNCHANGED vars
  BY <1>7 DEF vars
<1>8. QED
  BY <1>1, <1>2, <1>3, <1>4, <1>5, <1>6, <1>7 DEF Next

\* The calls together are one exclusive owner of namespace and pid file.
THEOREM TunnelCorrect == Spec => TunnelSpec
<1>1. Init => Tunnel!Init
  BY TunnelInit
<1>2. IInv /\ [Next]_vars => [Tunnel!Next]_(Tunnel!vars)
  BY TunnelStep
<1>3. QED
  BY <1>1, <1>2, IInvCorrect, PTL DEF Spec, TunnelSpec, Tunnel!Spec

-----------------------------------------------------------------------------
(* One call at a time *)

Busy(c) == helper[c] \notin {"idle", "done"}

\* While a disable finishes, no other call runs that could add the name or a rule.
ClearedInv ==
    \A c \in Call :
        /\ helper[c] \in {"drm", "drules", "dstatus"} => nsName = None
        /\ helper[c] = "dstatus" => rules \cap Sure = {}

SerialInv ==
    Serial => /\ \A c, d \in Call : Busy(c) /\ Busy(d) => c = d
              /\ ClearedInv

\* At first no call runs.
LEMMA SerialInit == Init => SerialInv
  BY DEF Init, SerialInv, Busy, ClearedInv

\* Every step keeps what holds while helpers run one at a time.
LEMMA SerialStep == IInv /\ SerialInv /\ [Next]_vars => SerialInv'
<1> SUFFICES ASSUME IInv, SerialInv, [Next]_vars PROVE SerialInv'
  OBVIOUS
<1>0. mode' = mode
  BY ModeStep
<1> USE <1>0, NoneNotCall, HostNsFresh
    DEF Serial, IInv, TypeOK, PhaseInv, LockInv, Owns, Alive, LivePc, Critical,
        SerialInv, Busy, ClearedInv, MayStart
<1>1. ASSUME NEW c \in Call, EnableStep(c) PROVE SerialInv'
  <2>1. CASE EnableNoConfig(c)
    BY <2>1 DEF EnableNoConfig, Goto
  <2>2. CASE EnableReadPid(c)
    BY <2>2 DEF EnableReadPid, Goto
  <2>3. CASE EnableProbe(c)
    BY <2>3 DEF EnableProbe, Goto
  <2>4. CASE EnableHealth(c)
    BY <2>4 DEF EnableHealth, Goto, Forget
  <2>5. CASE EnableKill(c)
    BY <2>5 DEF EnableKill, Goto, Forget, SupEnds, Unlock
  <2>6. CASE EnableUnpid(c)
    BY <2>6 DEF EnableUnpid, Goto
  <2>7. CASE EnableFlock(c)
    BY <2>7 DEF EnableFlock, Goto
  <2>8. CASE EnablePoll(c)
    BY <2>8 DEF EnablePoll, Goto
  <2>9. CASE EnableNoSubnet(c)
    BY <2>9 DEF EnableNoSubnet, Goto, Unlock
  <2>10. CASE EnableNetns(c)
    BY <2>10 DEF EnableNetns, Goto, SetupFails
  <2>11. CASE EnableVeth(c)
    BY <2>11 DEF EnableVeth, Goto, SetupFails
  <2>12. CASE EnablePlumb(c)
    BY <2>12 DEF EnablePlumb, Goto, SetupFails
  <2>13. CASE EnableAddr(c)
    BY <2>13 DEF EnableAddr, Goto, SetupFails
  <2>14. CASE EnableAbort(c)
    BY <2>14 DEF EnableAbort, Goto, Unlock
  <2>15. CASE EnableRules(c)
    BY <2>15 DEF EnableRules, Goto
  <2>16. CASE EnableFork(c)
    BY <2>16 DEF EnableFork, Goto
  <2>17. CASE EnableForkFails(c)
    BY <2>17 DEF EnableForkFails, Goto, Unlock
  <2>18. QED
    BY <1>1, <2>1, <2>2, <2>3, <2>4, <2>5, <2>6, <2>7, <2>8, <2>9, <2>10,
        <2>11, <2>12, <2>13, <2>14, <2>15, <2>16, <2>17
       DEF EnableStep
<1>2. ASSUME NEW c \in Call, DisableStep(c) PROVE SerialInv'
  <2>1. CASE DisableReadPid(c)
    BY <2>1 DEF DisableReadPid, Goto
  <2>2. CASE DisableTerm(c)
    BY <2>2 DEF DisableTerm, Goto
  <2>3. CASE DisableAwait(c)
    BY <2>3 DEF DisableAwait, Goto, Forget
  <2>4. CASE DisableNsDel(c)
    BY <2>4 DEF DisableNsDel, Goto
  <2>5. CASE DisableUnpid(c)
    BY <2>5 DEF DisableUnpid, Goto
  \* What it was given holds every address it was sure to be given.
  <2>6. CASE DisableRules(c)
    <3>1. PICK ips \in ResolveDefault : rules' = rules \ ips
      BY <2>6 DEF DisableRules
    <3>2. rules' \cap Sure = {}
      BY <3>1 DEF Sure
    <3>3. QED
      BY <2>6, <3>2 DEF DisableRules, Goto
  <2>7. CASE DisableStatus(c)
    BY <2>7 DEF DisableStatus, Goto
  <2>8. QED
    BY <1>2, <2>1, <2>2, <2>3, <2>4, <2>5, <2>6, <2>7
       DEF DisableStep
<1>3. ASSUME NEW c \in Call, SupStep(c) PROVE SerialInv'
  <2>1. CASE SupPid(c)
    BY <2>1 DEF SupPid, SupGoto
  <2>2. CASE SupAnnounce(c)
    BY <2>2 DEF SupAnnounce, SupGoto, SetState
  <2>3. CASE SupLaunch(c)
    BY <2>3 DEF SupLaunch, SupGoto
  <2>4. CASE SupLaunchFails(c)
    BY <2>4 DEF SupLaunchFails, SupGoto, SetState
  <2>5. CASE SupSocks(c)
    BY <2>5 DEF SupSocks, SupGoto
  <2>6. CASE SupSocksFails(c)
    BY <2>6 DEF SupSocksFails, SupGoto, SetState
  <2>7. CASE SupWaitOver(c)
    BY <2>7 DEF SupWaitOver, SupGoto
  <2>8. CASE LoopStop(c)
    BY <2>8 DEF LoopStop, SupGoto
  <2>9. CASE LoopNsGone(c)
    BY <2>9 DEF LoopNsGone, SupGoto, SetState
  <2>10. CASE SupFinal(c)
    BY <2>10 DEF SupFinal, SupGoto
  <2>11. CASE SupUnpid(c)
    BY <2>11 DEF SupUnpid, SupGoto
  <2>12. CASE SupReap(c)
    BY <2>12 DEF SupReap, SupGoto, Children
  <2>13. CASE SupNsDel(c)
    BY <2>13 DEF SupNsDel, SupEnds, Unlock
  <2>14. QED
    BY <1>3, <2>1, <2>2, <2>3, <2>4, <2>5, <2>6, <2>7, <2>8, <2>9, <2>10,
        <2>11, <2>12, <2>13
       DEF SupStep
<1>4. ASSUME NEW c \in Call, LoopEvent(c) PROVE SerialInv'
  <2>1. CASE LoopRestart(c)
    BY <2>1 DEF LoopRestart, SetState
  <2>2. CASE LoopGiveUp(c)
    BY <2>2 DEF LoopGiveUp, SetState
  <2>3. CASE LoopSocks(c)
    BY <2>3 DEF LoopSocks
  <2>4. CASE LoopTunUp(c)
    BY <2>4 DEF LoopTunUp, SetState
  <2>5. CASE LoopTunDown(c)
    BY <2>5 DEF LoopTunDown, SetState
  <2>6. QED
    BY <1>4, <2>1, <2>2, <2>3, <2>4, <2>5
       DEF LoopEvent
<1>5. ASSUME NEW c \in Call, SupCrash(c) PROVE SerialInv'
  BY <1>5 DEF SupCrash, SupEnds, Unlock
<1>6. ASSUME NEW c \in Call, OrphanEnds(c) PROVE SerialInv'
  BY <1>6 DEF OrphanEnds
<1>7. CASE UNCHANGED vars
  BY <1>7 DEF vars
<1>8. QED
  BY <1>1, <1>2, <1>3, <1>4, <1>5, <1>6, <1>7 DEF Next

\* So it holds in every state the program reaches.
LEMMA SerialCorrect == Spec => []SerialInv
<1>1. Init => SerialInv
  BY SerialInit
<1>2. IInv /\ SerialInv /\ [Next]_vars => SerialInv'
  BY SerialStep
<1>3. QED
  BY <1>1, <1>2, IInvCorrect, PTL DEF Spec

\* With one call at a time a disable ends with no namespace, and with no rule for
\* an address it is sure to be given.
THEOREM DisableClearsHolds == Spec => []DisableClears
<1>1. SerialInv => DisableClears
  BY DEF SerialInv, ClearedInv, DisableClears
<1>2. QED
  BY <1>1, SerialCorrect, PTL
=============================================================================
