-------------------------- MODULE ExtensionProofs --------------------------
(***************************************************************************)
(* The extension settles on the preferences that were set last, and has    *)
(* one native port, or the timer for the next one, or shows an error, for  *)
(* any set of domains, any defaults and any bounds.                        *)
(***************************************************************************)
EXTENDS Extension, SequenceTheorems, TLAPS

-----------------------------------------------------------------------------
(* The inductive invariant *)

\* Writes wait for the page to be ready, so it gets no events before; it has the
\* default domains if the popup has set no others; and it has opened no port.
LoadingInv ==
    ~ready =>
        /\ changes = <<>> /\ port = 0 /\ timer = 0
        /\ writes = <<>> => prefs.domains = DefaultDomains

\* The last event to come shows what the last write has stored.
ChangesInv == writes = <<>> /\ changes # <<>> => changes[Len(changes)] = stored

\* With no write and no event to come, page, storage and listener agree.
RestInv ==
    Settled =>
        /\ listener = Filters(prefs)
        /\ stored.enabled = prefs.enabled
        /\ \/ stored.domains = prefs.domains
           \/ stored.domains = {} /\ prefs.domains = DefaultDomains

IInv == TypeOK /\ ConnectedOrError /\ LoadingInv /\ ChangesInv /\ RestInv

-----------------------------------------------------------------------------
(* Types *)

Write == [prefs : Prefs, then : {"enable", "disable", "nothing"}]
Tunnel == Healthy \cup {"stopped", "error"}
Left == [{"ops", "faults", "errors", "exits"} -> Nat]

\* What a click or an event does to preferences leaves preferences.
LEMMA PrefsTypes ==
    ASSUME NEW p \in Prefs
    PROVE  /\ p.enabled \in BOOLEAN /\ p.domains \subseteq Domain
           /\ \A v \in BOOLEAN : [p EXCEPT !.enabled = v] \in Prefs
           /\ \A d \in Domain : /\ [p EXCEPT !.domains = @ \cup {d}] \in Prefs
                                /\ [p EXCEPT !.domains = @ \ {d}] \in Prefs
           /\ Filters(p) \subseteq Domain
  BY DEF Prefs, Filters

\* A status carries a port of the relay's, or the default one.
LEMMA PortTypes ==
    ASSUME TypeOK, NEW s
    PROVE  ShownPorts(s) \subseteq Port /\ DefaultPort \in Port
  BY DEF ShownPorts, Port, TypeOK

\* A bound that is spent stays a number.
LEMMA SpendTypes ==
    ASSUME TypeOK, NEW w \in {"ops", "faults", "errors", "exits"}, Spend(w)
    PROVE  left' \in Left
  BY DEF TypeOK, Spend, Left

\* A connect that throws leaves an error of its type and no new port.
LEMMA ThrowTypes ==
    ASSUME TypeOK, ConnectThrows
    PROVE  /\ uiState' \in UiState /\ socksPort' \in Port /\ left' \in Left
           /\ port' \in Nat /\ inFlight' \in BOOLEAN /\ toHost' \in Seq(Request)
  <1>1. left' \in Left
    BY SpendTypes DEF ConnectThrows
  <1>2. QED
    BY <1>1 DEF ConnectThrows, TypeOK, UiState, Port

\* A queue takes a value of its type, and gives one.
LEMMA Queued ==
    ASSUME NEW S, NEW q \in Seq(S), NEW x \in S
    PROVE  /\ Append(q, x) \in Seq(S) /\ Append(q, x) # <<>>
           /\ Append(q, x)[Len(Append(q, x))] = x
  <1>1. /\ Append(q, x) \in Seq(S) /\ Append(q, x) # <<>>
        /\ Len(Append(q, x)) = Len(q) + 1
        /\ Append(q, x)[Len(q) + 1] = x
    BY AppendProperties
  <1>2. QED
    BY <1>1

\* Taking the first of a queue leaves its last where it is.
LEMMA Unqueued ==
    ASSUME NEW S, NEW q \in Seq(S), q # <<>>
    PROVE  /\ Head(q) \in S /\ Tail(q) \in Seq(S)
           /\ q[Len(q)] \in S
           /\ Tail(q) # <<>> => Tail(q)[Len(Tail(q))] = q[Len(q)]
           /\ Tail(q) = <<>> => Head(q) = q[Len(q)]
  <1>1. /\ Head(q) \in S /\ Tail(q) \in Seq(S) /\ Head(q) = q[1]
        /\ Len(Tail(q)) = Len(q) - 1
        /\ \A i \in 1..Len(Tail(q)) : Tail(q)[i] = q[i + 1]
    BY HeadTailProperties
  <1>2. Len(q) \in Nat \ {0}
    BY EmptySeq
  <1>3. Tail(q) # <<>> => Len(Tail(q)) \in Nat \ {0}
    BY <1>1, EmptySeq
  <1>4. Tail(q) = <<>> => Len(Tail(q)) = 0
    BY EmptySeq
  <1>5. q[Len(q)] \in S
    <2>1. Len(q) \in 1..Len(q)
      BY <1>2
    <2>2. QED
      BY <2>1, ElementOfSeq
  <1>6. Tail(q) # <<>> => Tail(q)[Len(Tail(q))] = q[Len(q)]
    BY <1>1, <1>2, <1>3
  <1>7. QED
    BY <1>1, <1>2, <1>4, <1>5, <1>6

-----------------------------------------------------------------------------
(* Each action preserves the invariant *)

Settling == ConnectedOrError /\ LoadingInv /\ ChangesInv /\ RestInv

\* What touches neither page, storage nor events keeps what is said of them; a
\* page with a port may show another state.
LEMMA Quiet ==
    ASSUME IInv, UNCHANGED <<ready, prefs, listener, portVars, stored, writes, changes>>,
           uiState' = uiState \/ port > 0
    PROVE  Settling'
  <1>1. port \in Nat /\ timer \in Nat
    BY DEF IInv, TypeOK
  <1>2. ConnectedOrError'
    BY <1>1 DEF IInv, ConnectedOrError, CutOff, portVars
  <1>3. QED
    BY <1>2 DEF IInv, Settling, LoadingInv, ChangesInv, RestInv, Settled, portVars

\* While a write waits, nothing is promised of what the page shows.
LEMMA Writing ==
    ASSUME IInv, writes' # <<>>, UNCHANGED <<ready, uiState, portVars, changes>>
    PROVE  Settling'
  BY DEF IInv, Settling, ConnectedOrError, CutOff, LoadingInv, ChangesInv, RestInv,
         Settled, portVars

\* loadState: the listener is that of what was loaded, and a port is opened or an
\* error shown.
LEMMA LoadStep ==
    ASSUME IInv, Load
    PROVE  IInv'
  <1>1. /\ ~ready /\ ready' = TRUE
        /\ UNCHANGED <<timer, storageVars, toPage, worldVars>>
        /\ prefs' = IF stored.domains = {}
                    THEN [prefs EXCEPT !.enabled = stored.enabled] ELSE stored
        /\ listener' = Filters(prefs')
    BY DEF Load
  <1>2. /\ TypeOK /\ changes = <<>> /\ port = 0 /\ timer = 0
        /\ writes = <<>> => prefs.domains = DefaultDomains
    BY <1>1 DEF IInv, LoadingInv
  <1>3. prefs' \in Prefs
    BY <1>1, <1>2, PrefsTypes DEF TypeOK
  <1>4. (LoadingInv /\ ChangesInv)'
    BY <1>1, <1>2 DEF LoadingInv, ChangesInv, storageVars
  <1>5. RestInv'
    BY <1>1, <1>2 DEF RestInv, Settled, storageVars, TypeOK, Prefs
  <1>6. ASSUME Connected,
               toHost' = <<"status">> \o IF prefs'.enabled THEN <<"enable">> ELSE <<>>,
               inFlight' = prefs'.enabled,
               UNCHANGED <<socksPort, uiState, left>>
        PROVE  TypeOK' /\ ConnectedOrError'
    <2>1. /\ <<"status">> \in Seq(Request) /\ <<"enable">> \in Seq(Request)
          /\ <<>> \in Seq(Request)
      BY EmptySeq DEF Request
    <2>2. toHost' \in Seq(Request)
      BY <1>6, <2>1, ConcatProperties
    <2>3. port' = 1
      BY <1>2, <1>6 DEF Connected
    <2>4. TypeOK'
      BY <1>1, <1>2, <1>3, <1>6, <2>2, <2>3, PrefsTypes DEF TypeOK, storageVars, worldVars
    <2>5. QED
      BY <1>1, <1>2, <2>3, <2>4 DEF ConnectedOrError, CutOff
  <1>7. CASE ConnectThrows
    <2>1. TypeOK'
      BY <1>1, <1>2, <1>3, <1>7, PrefsTypes, ThrowTypes DEF TypeOK, storageVars, worldVars, Left
    <2>2. ConnectedOrError'
      BY <1>1, <1>2, <1>7 DEF ConnectThrows, ConnectedOrError, CutOff
    <2>3. QED
      BY <1>4, <1>5, <2>1, <2>2 DEF IInv
  <1>8. QED
    BY <1>4, <1>5, <1>6, <1>7 DEF Load, IInv

\* A click leaves a write, so nothing is promised until it is done.
LEMMA SettledByWrite ==
    ASSUME IInv, UNCHANGED <<ready, listener, portVars, stored, changes>>,
           NEW p \in Prefs, NEW then \in {"enable", "disable", "nothing"},
           prefs' = p, Save(p, then),
           UNCHANGED <<socksPort, uiState, inFlight, resumes, queueVars, worldVars>>,
           left' \in Left
    PROVE  IInv'
  <1>1. [prefs |-> p, then |-> then] \in Write /\ writes \in Seq(Write)
    BY DEF Write, IInv, TypeOK
  <1>2. writes' \in Seq(Write) /\ writes' # <<>>
    BY <1>1, Queued DEF Save
  <1>3. TypeOK'
    BY <1>2 DEF IInv, TypeOK, portVars, queueVars, worldVars, Write, Left
  <1>4. Settling'
    BY <1>2, Writing
  <1>5. QED
    BY <1>3, <1>4 DEF IInv, Settling

\* Every message of the popup saves what it sets.
LEMMA UserStep ==
    ASSUME IInv, User
    PROVE  IInv'
  <1>1. prefs \in Prefs /\ TypeOK
    BY DEF IInv, TypeOK
  <1>2. ASSUME NEW v \in BOOLEAN, SetEnabled(v) PROVE IInv'
    <2> DEFINE p == [prefs EXCEPT !.enabled = v]
               then == IF v THEN "enable" ELSE "disable"
    <2>1. p \in Prefs /\ then \in {"enable", "disable", "nothing"} /\ left' \in Left
      BY <1>1, <1>2, PrefsTypes, SpendTypes DEF SetEnabled
    <2>2. prefs' = p /\ Save(p, then)
      BY <1>2 DEF SetEnabled
    <2> HIDE DEF p, then
    <2>3. QED
      BY <1>2, <2>1, <2>2, SettledByWrite DEF SetEnabled
  <1>3. ASSUME NEW d \in Domain, AddDomain(d) PROVE IInv'
    <2> DEFINE p == [prefs EXCEPT !.domains = @ \cup {d}]
    <2>1. p \in Prefs /\ left' \in Left
      BY <1>1, <1>3, PrefsTypes, SpendTypes DEF AddDomain
    <2>2. prefs' = p /\ Save(p, "nothing")
      BY <1>3 DEF AddDomain
    <2> HIDE DEF p
    <2>3. QED
      BY <1>3, <2>1, <2>2, SettledByWrite DEF AddDomain
  <1>4. ASSUME NEW d \in Domain, RemoveDomain(d) PROVE IInv'
    <2> DEFINE p == [prefs EXCEPT !.domains = @ \ {d}]
    <2>1. p \in Prefs /\ left' \in Left
      BY <1>1, <1>4, PrefsTypes, SpendTypes DEF RemoveDomain
    <2>2. prefs' = p /\ Save(p, "nothing")
      BY <1>4 DEF RemoveDomain
    <2> HIDE DEF p
    <2>3. QED
      BY <1>4, <2>1, <2>2, SettledByWrite DEF RemoveDomain
  <1>5. QED
    BY <1>2, <1>3, <1>4 DEF User

\* A write that is done leaves its event as the last.
LEMMA StorageWriteStep ==
    ASSUME IInv, StorageWrite
    PROVE  IInv'
  <1> DEFINE w == Head(writes)
  <1>1. /\ ready /\ writes # <<>> /\ stored' = w.prefs
        /\ changes' = Append(changes, w.prefs)
        /\ resumes' = IF w.then = "nothing" THEN resumes ELSE Append(resumes, w.then)
        /\ writes' = Tail(writes)
        /\ UNCHANGED <<pageVars, portVars, queueVars, worldVars, left>>
    BY DEF StorageWrite
  <1>2. TypeOK /\ ConnectedOrError /\ writes \in Seq(Write)
    BY DEF IInv, TypeOK, Write
  <1>3. w \in Write /\ Tail(writes) \in Seq(Write)
    BY <1>1, <1>2, Unqueued
  <1>4. w.prefs \in Prefs /\ (w.then # "nothing" => w.then \in {"enable", "disable"})
    BY <1>3 DEF Write
  <1>5. /\ changes' \in Seq(Prefs) /\ changes' # <<>>
        /\ changes'[Len(changes')] = w.prefs
    <2>1. changes \in Seq(Prefs)
      BY <1>2 DEF TypeOK
    <2>2. /\ Append(changes, w.prefs) \in Seq(Prefs)
          /\ Append(changes, w.prefs) # <<>>
          /\ Append(changes, w.prefs)[Len(Append(changes, w.prefs))] = w.prefs
      BY <1>4, <2>1, Queued
    <2>3. QED
      BY <1>1, <2>2
  <1>6. resumes' \in Seq({"enable", "disable"})
    <2>1. resumes \in Seq({"enable", "disable"})
      BY <1>2 DEF TypeOK
    <2>2. CASE w.then = "nothing"
      BY <1>1, <2>1, <2>2
    <2>3. CASE w.then # "nothing"
      <3>1. Append(resumes, w.then) \in Seq({"enable", "disable"})
        BY <1>4, <2>1, <2>3, Queued
      <3>2. QED
        BY <1>1, <2>3, <3>1
    <2>4. QED
      BY <2>2, <2>3
  <1>7. TypeOK'
    BY <1>1, <1>2, <1>3, <1>4, <1>5, <1>6
       DEF TypeOK, Write, pageVars, portVars, queueVars, worldVars
  <1>8. Settling'
    BY <1>1, <1>2, <1>5
       DEF Settling, ConnectedOrError, CutOff, LoadingInv, ChangesInv, RestInv, Settled,
           pageVars, portVars
  <1>9. QED
    BY <1>7, <1>8 DEF IInv, Settling

\* The event of the last write brings the page to what is stored.
LEMMA OnChangedStep ==
    ASSUME IInv, OnChanged
    PROVE  IInv'
  <1>1. /\ changes # <<>> /\ changes' = Tail(changes)
        /\ prefs' = Head(changes) /\ listener' = Filters(prefs')
        /\ UNCHANGED <<ready, socksPort, uiState, inFlight, portVars,
                       stored, writes, resumes, queueVars, worldVars, left>>
    BY DEF OnChanged
  <1>2. TypeOK /\ ConnectedOrError /\ ChangesInv /\ ready
    BY <1>1 DEF IInv, LoadingInv
  <1>3. /\ Head(changes) \in Prefs /\ Tail(changes) \in Seq(Prefs)
        /\ Tail(changes) # <<>> => Tail(changes)[Len(Tail(changes))] = changes[Len(changes)]
        /\ Tail(changes) = <<>> => Head(changes) = changes[Len(changes)]
    BY <1>1, <1>2, Unqueued DEF TypeOK
  <1>4. TypeOK'
    BY <1>1, <1>2, <1>3, PrefsTypes DEF TypeOK, portVars, queueVars, worldVars
  <1>5. Settling'
    BY <1>1, <1>2, <1>3
       DEF Settling, ConnectedOrError, CutOff, LoadingInv, ChangesInv, RestInv, Settled,
           portVars
  <1>6. QED
    BY <1>4, <1>5 DEF IInv, Settling

\* What setEnabled does after its await touches no preferences.
LEMMA ResumeStep ==
    ASSUME IInv, Resume
    PROVE  IInv'
  <1> DEFINE on == Head(resumes) = "enable"
             msgs == CASE inFlight' -> <<"enable">>
                       [] ~on -> <<"disable">>
                       [] OTHER -> <<>>
  <1>1. /\ resumes # <<>> /\ resumes' = Tail(resumes)
        /\ inFlight' = (on /\ WantsEnable(prefs, FALSE))
        /\ toHost' = Sent(toHost, msgs \o <<"status">>)
        /\ UNCHANGED <<ready, prefs, socksPort, uiState, listener, portVars,
                       stored, writes, changes, toPage, worldVars, left>>
    BY DEF Resume
  <1>2. TypeOK
    BY DEF IInv
  <1>3. Tail(resumes) \in Seq({"enable", "disable"})
    BY <1>1, <1>2, Unqueued DEF TypeOK
  <1>4. inFlight' \in BOOLEAN
    BY <1>1, Zenon DEF WantsEnable
  <1>5. toHost' \in Seq(Request)
    <2>1. /\ <<"status">> \in Seq(Request) /\ <<"enable">> \in Seq(Request)
          /\ <<"disable">> \in Seq(Request) /\ <<>> \in Seq(Request)
      BY EmptySeq DEF Request
    <2>2. msgs \in Seq(Request)
      BY <2>1
    <2> HIDE DEF msgs
    <2>3. msgs \o <<"status">> \in Seq(Request)
      BY <2>1, <2>2, ConcatProperties
    <2>4. toHost \o (msgs \o <<"status">>) \in Seq(Request)
      BY <1>2, <2>3, ConcatProperties DEF TypeOK
    <2>5. QED
      BY <1>1, <1>2, <2>4 DEF Sent, TypeOK
  <1>6. TypeOK'
    BY <1>1, <1>2, <1>3, <1>4, <1>5 DEF TypeOK, portVars, worldVars
  <1>7. QED
    BY <1>1, <1>6, Quiet DEF IInv, Settling

\* A poll only sends.
LEMMA PollStep ==
    ASSUME IInv, Poll
    PROVE  IInv'
  <1>1. Append(toHost, "status") \in Seq(Request)
    BY Queued DEF IInv, TypeOK, Request
  <1>2. TypeOK'
    BY <1>1 DEF Poll, IInv, TypeOK, pageVars, portVars, storageVars, worldVars
  <1>3. QED
    BY <1>2, Quiet DEF Poll, IInv, Settling, pageVars, storageVars

\* A status changes the port, and may ask for an enable.
LEMMA OnNativeMessageStep ==
    ASSUME IInv, OnNativeMessage
    PROVE  IInv'
  <1> DEFINE r == Head(toPage)
  <1>1. /\ toPage # <<>> /\ toPage' = Tail(toPage)
        /\ ApplyStatus(r.state, r.port)
        /\ UNCHANGED <<ready, prefs, listener, portVars, storageVars, worldVars, left>>
    BY DEF OnNativeMessage
  <1>2. TypeOK
    BY DEF IInv
  <1>3. r \in Reply /\ Tail(toPage) \in Seq(Reply)
    BY <1>1, <1>2, Unqueued DEF TypeOK
  <1>4. uiState' \in UiState /\ socksPort' \in Port
    BY <1>1, <1>3 DEF ApplyStatus, Reply
  <1>5. inFlight' \in BOOLEAN
    <2>1. inFlight \in BOOLEAN /\ (inFlight \/ WantsEnable(prefs, inFlight)) \in BOOLEAN
      BY <1>2, Zenon DEF TypeOK
    <2>2. QED
      BY <1>1, <2>1 DEF ApplyStatus
  <1>6. toHost' \in Seq(Request)
    <2>1. toHost \in Seq(Request) /\ Append(toHost, "enable") \in Seq(Request)
      BY <1>2, Queued DEF TypeOK, Request
    <2>2. QED
      BY <1>1, <2>1 DEF ApplyStatus
  <1>7. TypeOK'
    BY <1>1, <1>2, <1>3, <1>4, <1>5, <1>6
       DEF TypeOK, portVars, storageVars, worldVars
  <1>8. QED
    BY <1>1, <1>7, Quiet DEF OnNativeMessage, IInv, Settling, storageVars

\* A host that dies takes messages with it and leaves the rest typed.
LEMMA HostDiesTypes ==
    ASSUME TypeOK, HostDies
    PROVE  /\ toHost' \in Seq(Request) /\ toPage' \in Seq(Reply)
           /\ tunnel' \in Tunnel /\ relay' \in Port
  <1>1. toHost' \in Seq(Request) /\ toPage' \in Seq(Reply)
    BY EmptySeq DEF HostDies
  <1>2. tunnel' \in Tunnel /\ relay' \in Port
    BY DEF HostDies, NewTunnel, TypeOK, worldVars, Tunnel, Healthy
  <1>3. QED
    BY <1>1, <1>2

\* A port that is lost leaves the timer instead.
LEMMA OnDisconnectStep ==
    ASSUME IInv, OnDisconnect
    PROVE  IInv'
  <1>1. TypeOK /\ DefaultPort \in Port
    BY DEF IInv, Port
  <1>2. ready /\ port = 1 /\ timer = 0
    BY <1>1 DEF OnDisconnect, IInv, LoadingInv, ConnectedOrError, TypeOK
  <1>3. port' = 0 /\ timer' = 1
    BY <1>2 DEF OnDisconnect
  <1>4. TypeOK'
    <2>1. /\ toHost' \in Seq(Request) /\ toPage' \in Seq(Reply)
          /\ tunnel' \in Tunnel /\ relay' \in Port /\ left' \in Left
      BY <1>1, HostDiesTypes, SpendTypes DEF OnDisconnect
    <2>2. port' \in Nat /\ timer' \in Nat
      BY <1>3
    <2>3. QED
      BY <1>1, <2>1, <2>2 DEF OnDisconnect, TypeOK, storageVars, UiState, Tunnel, Left
  <1>5. Settling'
    BY <1>2, <1>3 DEF OnDisconnect, IInv, Settling, ConnectedOrError, CutOff, LoadingInv,
           ChangesInv, RestInv, Settled, storageVars
  <1>6. QED
    BY <1>4, <1>5 DEF IInv, Settling

\* A reload begins anew with what storage holds by then.
LEMMA ReloadStep ==
    ASSUME IInv, Reload
    PROVE  IInv'
  <1>1. TypeOK /\ DefaultPort \in Port
    BY DEF IInv, Port
  <1>2. prefs' \in Prefs /\ prefs'.domains = DefaultDomains
    BY DefaultsListed DEF Reload, Prefs
  <1>3. stored' \in Prefs
    <2>1. Range(writes) \subseteq Write
      BY <1>1, RangeOfSeq DEF TypeOK, Write
    <2>2. \A w \in Write : w.prefs \in Prefs
      BY DEF Write
    <2>3. QED
      BY <1>1, <2>1, <2>2 DEF Reload, TypeOK
  <1>4. /\ writes' \in Seq(Write) /\ changes' \in Seq(Prefs)
        /\ resumes' \in Seq({"enable", "disable"})
    BY EmptySeq DEF Reload
  <1>5. TypeOK'
    BY <1>1, <1>2, <1>3, <1>4, HostDiesTypes, SpendTypes
       DEF Reload, TypeOK, UiState, Tunnel, Left, Write
  <1>6. Settling'
    BY <1>2 DEF Reload, Settling, ConnectedOrError, LoadingInv, ChangesInv, RestInv, Settled
  <1>7. QED
    BY <1>5, <1>6 DEF IInv, Settling

\* The timer opens a port, or an error is shown, and the timer is gone.
LEMMA ReconnectStep ==
    ASSUME IInv, Reconnect
    PROVE  IInv'
  <1>1. /\ TypeOK /\ timer > 0 /\ timer' = timer - 1
        /\ UNCHANGED <<ready, prefs, listener, storageVars, toPage, worldVars>>
    BY DEF Reconnect, IInv
  <1>2. ready /\ port = 0 /\ timer' = 0
    BY <1>1 DEF IInv, LoadingInv, ConnectedOrError, TypeOK
  <1>3. (LoadingInv /\ ChangesInv /\ RestInv)'
    BY <1>1, <1>2 DEF IInv, LoadingInv, ChangesInv, RestInv, Settled, storageVars
  <1>4. ASSUME Connected, UNCHANGED <<inFlight, socksPort, uiState, toHost, left>>
        PROVE  TypeOK' /\ ConnectedOrError'
    <2>1. port' = 1
      BY <1>2, <1>4 DEF Connected
    <2>2. TypeOK'
      BY <1>1, <1>2, <1>4, <2>1 DEF TypeOK, storageVars, worldVars
    <2>3. QED
      BY <1>2, <2>1, <2>2 DEF ConnectedOrError, CutOff
  <1>5. CASE ConnectThrows
    <2>1. TypeOK'
      BY <1>1, <1>2, <1>5, ThrowTypes DEF TypeOK, storageVars, worldVars, Left
    <2>2. ConnectedOrError'
      BY <1>2, <1>5 DEF ConnectThrows, ConnectedOrError, CutOff
    <2>3. QED
      BY <1>3, <2>1, <2>2 DEF IInv
  <1>6. QED
    BY <1>3, <1>4, <1>5 DEF Reconnect, IInv

-----------------------------------------------------------------------------
\* An answer of the host is a reply.
LEMMA AnswerTypes ==
    ASSUME TypeOK, NEW s \in UiState, NEW p \in Port, Answer(s, p)
    PROVE  toPage' \in Seq(Reply)
  <1>1. [state |-> s, port |-> p] \in Reply
    BY DEF Reply
  <1>2. QED
    BY <1>1, Queued DEF Answer, TypeOK

\* Nothing the host does is seen by page or storage but by its replies.
LEMMA HostStep ==
    ASSUME IInv, Host
    PROVE  IInv'
  <1>1. /\ TypeOK /\ tunnel \in UiState /\ DefaultPort \in Port
        /\ ShownPorts(tunnel) \subseteq Port
        /\ {"starting", "stopped", "error"} \subseteq UiState
    BY PortTypes DEF IInv, TypeOK, UiState, Healthy
  <1>2. UNCHANGED <<pageVars, portVars, storageVars>>
    BY DEF Host, HostStatus, HostEnable, HostEnableFails, HostDisable, HostDisableFails,
           HostTakes
  <1>3. toHost' \in Seq(Request)
    <2>1. toHost # <<>> /\ toHost' = Tail(toHost)
      BY DEF Host, HostStatus, HostEnable, HostEnableFails, HostDisable,
             HostDisableFails, HostTakes
    <2>2. QED
      BY <1>1, <2>1, Unqueued DEF TypeOK
  <1>4. toPage' \in Seq(Reply)
    BY <1>1, AnswerTypes
       DEF Host, HostStatus, HostEnable, HostEnableFails, HostDisable, HostDisableFails
  <1>5. tunnel' \in Tunnel /\ relay' \in Port
    BY <1>1 DEF Host, HostStatus, HostEnable, HostEnableFails, HostDisable,
                HostDisableFails, NewTunnel, worldVars, TypeOK, Tunnel, Healthy
  <1>6. left' \in Left
    BY <1>1, SpendTypes DEF Host, HostStatus, HostEnable, HostEnableFails, HostDisable,
                            HostDisableFails, TypeOK, Left
  <1>7. TypeOK'
    BY <1>1, <1>2, <1>3, <1>4, <1>5, <1>6
       DEF TypeOK, pageVars, portVars, storageVars, Tunnel, Left
  <1>8. QED
    BY <1>2, <1>7, Quiet DEF IInv, Settling, pageVars, storageVars

\* Nor is what becomes of the tunnel.
LEMMA TunnelStep ==
    ASSUME IInv, TunnelMoves \/ TunnelFails
    PROVE  IInv'
  <1>1. TypeOK /\ UNCHANGED <<pageVars, portVars, storageVars, queueVars, relay>>
    BY DEF IInv, TunnelMoves, TunnelFails
  <1>2. tunnel' \in Tunnel
    BY DEF TunnelMoves, TunnelFails, Tunnel, Healthy
  <1>3. left' \in Left
    BY <1>1, SpendTypes DEF TunnelMoves, TunnelFails, TypeOK, Left
  <1>4. TypeOK'
    BY <1>1, <1>2, <1>3
       DEF TypeOK, pageVars, portVars, storageVars, queueVars, Tunnel, Left
  <1>5. QED
    BY <1>1, <1>4, Quiet DEF IInv, Settling, pageVars, storageVars

-----------------------------------------------------------------------------
(* The theorems *)

\* A page that is not loaded yet has nothing to agree with.
LEMMA IInvInit == Init => IInv
<1> SUFFICES ASSUME Init PROVE IInv
  OBVIOUS
<1>1. /\ writes \in Seq(Write) /\ changes \in Seq(Prefs)
      /\ resumes \in Seq({"enable", "disable"})
      /\ toHost \in Seq(Request) /\ toPage \in Seq(Reply)
  BY EmptySeq DEF Init
<1>2. prefs \in Prefs /\ prefs.domains = DefaultDomains
  BY DefaultsListed DEF Init, Prefs
<1>3. left \in Left
  BY BoundsAreNat DEF Init, Left
<1>4. TypeOK
  BY <1>1, <1>2, <1>3 DEF Init, TypeOK, Port, UiState, Write, Left
<1>5. Settling
  BY <1>2 DEF Init, Settling, ConnectedOrError, LoadingInv, ChangesInv, RestInv, Settled
<1>6. QED
  BY <1>4, <1>5 DEF IInv, Settling

\* Page, storage, listener and pending writes and events agree in every reachable
\* state: the invariant is inductive.
THEOREM Invariance == Spec => []IInv
<1>1. IInv /\ [Next]_vars => IInv'
  <2> SUFFICES ASSUME IInv, [Next]_vars PROVE IInv'
    OBVIOUS
  <2>1. CASE UNCHANGED vars
    <3>1. TypeOK'
      BY <2>1 DEF IInv, TypeOK, vars, pageVars, portVars, storageVars, queueVars, worldVars
    <3>2. QED
      BY <2>1, <3>1, Quiet DEF IInv, Settling, vars, pageVars, storageVars
  <2>2. CASE Load \/ Reload \/ User
    BY <2>2, LoadStep, ReloadStep, UserStep
  <2>3. CASE StorageWrite \/ OnChanged \/ Resume
    BY <2>3, StorageWriteStep, OnChangedStep, ResumeStep
  <2>4. CASE Poll \/ OnNativeMessage \/ OnDisconnect \/ Reconnect
    BY <2>4, PollStep, OnNativeMessageStep, OnDisconnectStep, ReconnectStep
  <2>5. CASE Host \/ TunnelMoves \/ TunnelFails
    BY <2>5, HostStep, TunnelStep
  <2>6. QED
    BY <2>1, <2>2, <2>3, <2>4, <2>5 DEF Next
<1>2. QED
  BY <1>1, IInvInit, PTL DEF Spec

\* Every variable has its type, and the port the page sends its requests to is
\* one the relay may have, whatever replies, errors and reconnects brought.
THEOREM TypeCorrect == Spec => []TypeOK
<1>1. IInv => TypeOK
  BY DEF IInv
<1>2. QED
  BY <1>1, Invariance, PTL

\* A page that is up has at most one native port or timer (background.js
\* connectNative, onDisconnect), and with neither it shows the error of the
\* connect that threw.
THEOREM PortOrTimer == Spec => []ConnectedOrError
<1>1. IInv => ConnectedOrError
  BY DEF IInv
<1>2. QED
  BY <1>1, Invariance, PTL

\* Once writes and events are through, the routing is that of the preferences in
\* force and storage holds them, in whatever order clicks, writes and late
\* change events came (background.js saveState, onChanged, handleProxyRequest).
THEOREM Routing == Spec => []RoutingSettles
<1>1. ASSUME IInv, Settled, NEW d \in Domain
      PROVE  (Route(d) = socksPort) <=> (prefs.enabled /\ d \in prefs.domains)
  <2>1. listener = Filters(prefs) /\ socksPort # "direct"
    BY <1>1, DirectIsNoPort DEF IInv, RestInv, TypeOK, Port
  <2>2. QED
    BY <2>1 DEF Route, Filters
<1>2. IInv => RoutingSettles
  BY <1>1 DEF IInv, RestInv, RoutingSettles
<1>3. QED
  BY <1>2, Invariance, PTL
=============================================================================
