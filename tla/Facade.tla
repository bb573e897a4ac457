------------------------------- MODULE Facade -------------------------------
(***************************************************************************)
(* core/facade.py, FacadeAppleTV: one object that the user holds, made of   *)
(* several protocols that were set up one after the other.  Modelled are    *)
(* connect(), close(), the device listener (a StateProducer with            *)
(* max_calls=1), the push updater relay, the feature map, and takeover().   *)
(* A setup is one SetupData; a protocol may yield setups of other protocols *)
(* (AirPlay yields RAOP and an MRP tunnel), so there may be several of one  *)
(* protocol, of which the first to connect is used.                         *)
(***************************************************************************)
EXTENDS Naturals, Sequences

CONSTANTS
    Protocol, Setup, Iface, Feature,
    Rank,        \* position of a protocol in DEFAULT_PRIORITIES
    Queue,       \* the setups in the order add_protocol was called
    ProtocolOf,  \* setup_data.protocol
    ActsAs,      \* the protocol that core.takeover of a setup is locked to
    Provides,    \* the keys of setup_data.interfaces
    FeaturesOf,  \* setup_data.features
    Takes,       \* the interfaces a stream of this setup takes over
    Exclusive,   \* setups whose stream first acquires a playback manager
    Connection,  \* setups that keep a connection and report its end
    TellsOnClose,\* setups whose close() calls the device listener itself
    None

ASSUME PriorityAssumption ==
    /\ Rank \in [Protocol -> Nat]
    /\ \A p, q \in Protocol : Rank[p] = Rank[q] => p = q
ASSUME SetupAssumption ==
    /\ Queue \in Seq(Setup)
    /\ \A i, j \in DOMAIN Queue : Queue[i] = Queue[j] => i = j
    /\ ProtocolOf \in [Setup -> Protocol]
    /\ ActsAs \in [Setup -> Protocol]
    /\ Provides \in [Setup -> SUBSET Iface]
    /\ FeaturesOf \in [Setup -> SUBSET Feature]
    /\ Takes \in [Setup -> SUBSET Iface]
    /\ Exclusive \subseteq Setup
    /\ Connection \subseteq Setup
    /\ TellsOnClose \subseteq Setup
ASSUME NoneAssumption ==
    /\ None \notin Setup \cup Protocol
    /\ {"idle", "returned", "raised"} \cap Setup = {}

VARIABLES
    queue,       \* self._protocols_to_setup
    connecting,  \* connect(): "idle", the setup it awaits, "returned", "raised"
    handlers,    \* self._protocol_handlers, in the order of insertion
    life,        \* each setup's own state
    closes,      \* how often each setup's close() was called
    closed,      \* self._pending_tasks is not None
    blocked,     \* the shield is blocking
    listener,    \* the user's device listener; only a weak reference is kept
    announced,   \* calls_made has reached max_calls
    told,        \* how often the user's listener was called
    raised,      \* the user's listener raised an exception into close()
    push,        \* the push updaters that were started and not stopped
    featureMap,  \* FacadeFeatures._feature_map
    owner,       \* the takeover protocol of each relayer
    streaming,   \* setups with a stream_file or play_url in progress
    acquired     \* setups whose playback manager is acquired

connectVars == <<queue, connecting, handlers, featureMap>>
closeVars == <<closes, closed, blocked, raised>>
listenerVars == <<listener, announced, told>>
streamVars == <<owner, streaming, acquired>>
vars == <<queue, connecting, handlers, life, closes, closed, blocked, listener,
          announced, told, raised, push, featureMap, owner, streaming, acquired>>

Elements(s) == {s[i] : i \in DOMAIN s}
Handled == Elements(handlers)

TypeOK ==
    /\ queue \in Seq(Setup)
    /\ connecting \in {"idle", "returned", "raised"} \cup Setup
    /\ handlers \in Seq(Setup)
    /\ life \in [Setup -> {"idle", "connecting", "up", "closing", "ended"}]
    /\ closes \in [Setup -> 0..1]
    /\ closed \in BOOLEAN
    /\ blocked \in BOOLEAN
    /\ listener \in {"unset", "alive", "dead"}
    /\ announced \in BOOLEAN
    /\ told \in 0..1
    /\ raised \in BOOLEAN
    /\ push \subseteq Setup
    /\ featureMap \in [Feature -> Setup \cup {None}]
    /\ owner \in [Iface -> Protocol \cup {None}]
    /\ streaming \subseteq Setup
    /\ acquired \subseteq Exclusive

Init ==
    /\ queue = Queue
    /\ connecting = "idle"
    /\ handlers = <<>>
    /\ life = [s \in Setup |-> "idle"]
    /\ closes = [s \in Setup |-> 0]
    /\ closed = FALSE
    /\ blocked = FALSE
    /\ listener = "unset"
    /\ announced = FALSE
    /\ told = 0
    /\ raised = FALSE
    /\ push = {}
    /\ featureMap = [f \in Feature |-> None]
    /\ owner = [i \in Iface |-> None]
    /\ streaming = {}
    /\ acquired = {}

-----------------------------------------------------------------------------
(* connect()                                                                *)

Fresh(q, hs) ==
    {i \in DOMAIN q : \A h \in Elements(hs) : ProtocolOf[q[i]] # ProtocolOf[h]}

(* The loop goes on: setups of a protocol that is set up already are        *)
(* skipped, the next one is awaited; when there is none, connect returns.   *)
(* `states' are the setups' states but for the one that is awaited next.    *)
Proceed(q, hs, states) ==
    IF Fresh(q, hs) = {}
    THEN /\ queue' = <<>>
         /\ connecting' = "returned"
         /\ life' = states
    ELSE \E i \in Fresh(q, hs) :
            /\ \A k \in Fresh(q, hs) : i <= k
            /\ queue' = SubSeq(q, i + 1, Len(q))
            /\ connecting' = q[i]
            /\ life' = [states EXCEPT ![q[i]] = "connecting"]

Connect ==
    /\ connecting = "idle"
    /\ queue # <<>>
    /\ Proceed(queue, handlers, life)
    /\ UNCHANGED <<handlers, featureMap, closeVars, listenerVars, push, streamVars>>

Outranks(s, t) == Rank[ProtocolOf[s]] < Rank[ProtocolOf[t]]

(* add_mapping, in the setup's own order of arrival.                        *)
AddMapping(s) ==
    [f \in Feature |->
        IF f \in FeaturesOf[s] /\ (featureMap[f] = None \/ Outranks(s, featureMap[f]))
        THEN s ELSE featureMap[f]]

(* The awaited setup connected: it is registered whatever has happened to   *)
(* the facade meanwhile, and even if its own connection is gone (Companion  *)
(* ignores that its last commands fail).                                    *)
SetupConnects(s) ==
    /\ connecting = s
    /\ handlers' = Append(handlers, s)
    /\ featureMap' = AddMapping(s)
    /\ Proceed(queue, handlers', [life EXCEPT ![s] = IF @ = "ended" THEN @ ELSE "up"])
    /\ UNCHANGED <<closeVars, listenerVars, push, streamVars>>

(* connect() of the setup returned False.                                   *)
SetupDeclines(s) ==
    /\ connecting = s
    /\ Proceed(queue, handlers, [life EXCEPT ![s] = "ended"])
    /\ UNCHANGED <<handlers, featureMap, closeVars, listenerVars, push, streamVars>>

(* It raised: pyatv.connect closes the client session and nothing else.     *)
SetupRaises(s) ==
    /\ connecting = s
    /\ connecting' = "raised"
    /\ life' = [life EXCEPT ![s] = "ended"]
    /\ UNCHANGED <<queue, handlers, featureMap, closeVars, listenerVars, push, streamVars>>

-----------------------------------------------------------------------------
(* close() and the device listener.                                         *)

(* Those whose close() is called: all, or, when the listener raises out of  *)
(* a close() that told it, those up to that one.                            *)
Tellers == {i \in DOMAIN handlers : handlers[i] \in TellsOnClose}
UpToFirstTeller ==
    {handlers[i] : i \in {j \in DOMAIN handlers : \A t \in Tellers : j <= t}}

(* Mutant: close() of a protocol leaves its connection open.                *)
ClosingKeepsConnection(s, stopped) ==
    IF s \in stopped \ Connection THEN "ended" ELSE life[s]

Closing(s, stopped) ==
    IF s \notin stopped THEN life[s]
    ELSE IF s \in Connection \ TellsOnClose /\ life[s] = "up" THEN "closing" ELSE "ended"

(* What close() does when nobody has closed before.                         *)
CloseHandlers(stopped) ==
    /\ closed' = TRUE
    /\ push' = {}
    /\ closes' = [s \in Setup |-> IF s \in stopped THEN closes[s] + 1 ELSE closes[s]]
    /\ life' = [s \in Setup |-> Closing(s, stopped)]

(* close() called by the user.  The listener may be told from inside it.    *)
UserCloses ==
    /\ connecting = "returned"
    /\ ~closed
    /\ LET tells == Tellers # {} /\ ~announced
       IN /\ announced' = (announced \/ tells)
          /\ told' = IF tells /\ listener = "alive" THEN told + 1 ELSE told
          /\ \/ CloseHandlers(Handled) /\ blocked' = TRUE /\ UNCHANGED raised
             \/ /\ tells /\ listener = "alive"
                /\ CloseHandlers(UpToFirstTeller) /\ raised' = TRUE /\ UNCHANGED blocked
    /\ UNCHANGED <<connectVars, listener, streamVars>>

(* connection_lost or connection_closed of the device listener: the proxy   *)
(* counts the call, and calls the user's method if it is alive.             *)
Announce ==
    /\ announced' = TRUE
    /\ told' = IF listener = "alive" /\ ~announced THEN told + 1 ELSE told

(* state_was_updated is called unless the listener is a dead reference.     *)
StateWasUpdated == listener # "dead" /\ ~announced

(* A protocol's connection ends, by itself or after close(), also while     *)
(* connect() awaits that protocol or a later one.  (A protocol that has no  *)
(* connection to lose yet, DMAP, reports a failed poll once it is up.)      *)
ConnectionEnds(s) ==
    /\ s \in Connection
    /\ life[s] \in {"connecting", "up", "closing"}
    /\ s \in TellsOnClose => life[s] = "up"
    /\ Announce
    /\ IF StateWasUpdated /\ ~closed
       THEN /\ closed' = TRUE
            /\ blocked' = TRUE
            /\ push' = {}
            /\ closes' = [t \in Setup |-> IF t \in Handled THEN closes[t] + 1 ELSE closes[t]]
            /\ life' = [t \in Setup |-> IF t = s THEN "ended" ELSE Closing(t, Handled)]
       ELSE /\ life' = [life EXCEPT ![s] = "ended"]
            /\ UNCHANGED <<closes, closed, blocked, push>>
    /\ UNCHANGED <<connectVars, listener, raised, streamVars>>

(* atv.listener = ...; the user keeps the only strong reference to it.      *)
SetListener ==
    /\ connecting = "returned"
    /\ listener = "unset"
    /\ listener' = "alive"
    /\ UNCHANGED <<connectVars, life, closeVars, announced, told, push, streamVars>>

ListenerDies ==
    /\ listener = "alive"
    /\ listener' = "dead"
    /\ UNCHANGED <<connectVars, life, closeVars, announced, told, push, streamVars>>

-----------------------------------------------------------------------------
(* What the user asks of the facade.                                        *)

(* Mutant: start() of the push updater is not guarded by the shield.        *)
PushStartUnshielded ==
    /\ connecting = "returned"
    /\ push' = {s \in Handled : "push" \in Provides[s]}
    /\ UNCHANGED <<connectVars, life, closeVars, listenerVars, streamVars>>

PushStart ==
    /\ connecting = "returned"
    /\ ~blocked
    /\ push' = {s \in Handled : "push" \in Provides[s]}
    /\ UNCHANGED <<connectVars, life, closeVars, listenerVars, streamVars>>

PushStop ==
    /\ connecting = "returned"
    /\ ~blocked
    /\ push' = {}
    /\ UNCHANGED <<connectVars, life, closeVars, listenerVars, streamVars>>

(* Mutant: the relayers that were taken over before the failure stay so.    *)
TakeoverWithoutRollback(s) ==
    /\ owner' = [i \in Iface |-> IF i \in Takes[s] /\ owner[i] = None THEN ActsAs[s]
                                 ELSE owner[i]]
    /\ streaming' = IF \A i \in Takes[s] : owner[i] = None THEN streaming \cup {s}
                    ELSE streaming

(* takeover: all of the interfaces, or none and an exception.               *)
Takeover(s) ==
    IF \A i \in Takes[s] : owner[i] = None
    THEN /\ owner' = [i \in Iface |-> IF i \in Takes[s] THEN ActsAs[s] ELSE owner[i]]
         /\ streaming' = streaming \cup {s}
    ELSE UNCHANGED <<owner, streaming>>

(* stream_file or play_url begins, through the shielded Stream interface:   *)
(* the playback manager is acquired, then the interfaces are taken over,    *)
(* and only then does the "try" begin whose "finally" gives both back.      *)
StreamStarts(s) ==
    /\ connecting = "returned"
    /\ ~blocked
    /\ s \in Handled \ (streaming \cup acquired)
    /\ Takes[s] # {}
    /\ acquired' = acquired \cup ({s} \cap Exclusive)
    /\ Takeover(s)
    /\ UNCHANGED <<connectVars, life, closeVars, listenerVars, push>>

(* Its "finally".  close() does not wait for it.                            *)
StreamEnds(s) ==
    /\ s \in streaming
    /\ owner' = [i \in Iface |-> IF i \in Takes[s] THEN None ELSE owner[i]]
    /\ streaming' = streaming \ {s}
    /\ acquired' = acquired \ {s}
    /\ UNCHANGED <<connectVars, life, closeVars, listenerVars, push>>

Next ==
    \/ Connect
    \/ \E s \in Setup : SetupConnects(s) \/ SetupDeclines(s) \/ SetupRaises(s)
    \/ \E s \in Setup : ConnectionEnds(s) \/ StreamStarts(s) \/ StreamEnds(s)
    \/ UserCloses \/ SetListener \/ ListenerDies \/ PushStart \/ PushStop

Spec == Init /\ [][Next]_vars

(* A connection that is being closed ends.                                  *)
FairSpec == Spec /\ \A s \in Setup : WF_vars(life[s] = "closing" /\ ConnectionEnds(s))

-----------------------------------------------------------------------------
(* Properties.                                                              *)

(* No protocol is closed but by close(), a protocol is closed only after    *)
(* those that were set up before it, and a facade that is closed lets       *)
(* nothing through: it is shielded and no push updater runs, whoever calls  *)
(* close() and whenever.  (Excepted is a listener that raises into close().) *)
ClosedOnce ==
    /\ \A s \in Setup : closes[s] > 0 => closed /\ s \in Handled
    /\ \A i, j \in DOMAIN handlers :
          i < j /\ closes[handlers[j]] > 0 => closes[handlers[i]] > 0
    /\ closed /\ ~raised => blocked /\ push = {}

(* The user's listener is called at most once, and never before close() was *)
(* called, though it is close() that may call it.                           *)
ToldOnceAfterClose == told <= 1 /\ (told = 1 => closed)

(* The map that is maintained step by step names, for every feature, the    *)
(* registered protocol of highest priority, in whatever order they came.    *)
FeatureOwner ==
    \A f \in Feature :
        LET able == {s \in Handled : f \in FeaturesOf[s]}
        IN IF able = {} THEN featureMap[f] = None
           ELSE featureMap[f] \in able /\ \A s \in able : ~Outranks(s, featureMap[f])

(* A stream that runs holds every interface it asked for, no interface is   *)
(* held by two streams, and none is held when nobody streams.               *)
TakeoverWhole ==
    /\ \A s \in streaming : \A i \in Takes[s] : owner[i] = ActsAs[s]
    /\ \A s, t \in streaming : s # t => Takes[s] \cap Takes[t] = {}
    /\ \A i \in Iface : owner[i] # None => \E s \in streaming : i \in Takes[s]

(* A facade that was closed after connect() leaves nothing behind: every    *)
(* connection ends.                                                         *)
TornDown ==
    (blocked /\ connecting = "returned" /\ \A s \in Handled : closes[s] = 1)
        ~> \A s \in Handled : life[s] = "ended"
=============================================================================
