---------------------------- MODULE Facade_proofs ----------------------------
(***************************************************************************)
(* Theorems about the facade and what stands beside it.                     *)
(*                                                                         *)
(* Facade, for any protocols, priorities, setups, interfaces and features:  *)
(* ClosedOnce is not inductive, as a setup that is registered late must not *)
(* have been closed, which holds because the one that connect() awaits is   *)
(* never registered already.  ToldOnceAfterClose rests on what the count of *)
(* reports says about the user's listener.                                  *)
(*                                                                         *)
(* NowPlaying, for any players, contents and coroutines: the types, which   *)
(* say where each kind of coroutine may be suspended and what it holds      *)
(* there, and that no lookup overwrites a name that the device sent.        *)
(*                                                                         *)
(* Interfaces, for any length of a behaviour: whatever is in the queue of   *)
(* the event loop, the last message about a thing says what it is, and with *)
(* no message the user was told.                                            *)
(***************************************************************************)
EXTENDS MCFacade, SequenceTheorems, TLAPS

(* The setup that connect() awaits is not registered.                       *)
AwaitedIsNew == connecting \in Setup => connecting \notin Handled

(* No setup is registered twice.                                            *)
Distinct == \A i, j \in DOMAIN handlers : handlers[i] = handlers[j] => i = j

(* A report that reached the user was counted.                              *)
ToldIsCounted == told = 1 => announced

Inv ==
    /\ TypeOK
    /\ AwaitedIsNew
    /\ Distinct
    /\ ToldIsCounted
    /\ ClosedOnce
    /\ ToldOnceAfterClose
    /\ FeatureOwner
    /\ TakeoverWhole

(* What is in a sequence of setups are setups.                              *)
LEMMA ElementsType ==
    ASSUME NEW s \in Seq(Setup)
    PROVE  Elements(s) \subseteq Setup
BY DEF Elements

(* Appending adds one.                                                      *)
LEMMA ElementsAppend ==
    ASSUME NEW s \in Seq(Setup), NEW e \in Setup
    PROVE  /\ Append(s, e) \in Seq(Setup)
           /\ Elements(Append(s, e)) = Elements(s) \cup {e}
<1>1. Append(s, e) \in Seq(Setup) /\ Len(s) \in Nat
  OBVIOUS
<1>2. DOMAIN Append(s, e) = 1..(Len(s) + 1) /\ DOMAIN s = 1..Len(s)
  OBVIOUS
<1>3. \A i \in DOMAIN s : Append(s, e)[i] = s[i]
  OBVIOUS
<1>4. Append(s, e)[Len(s) + 1] = e
  OBVIOUS
<1>5. DOMAIN Append(s, e) = DOMAIN s \cup {Len(s) + 1}
  BY <1>1, <1>2
<1> QED
  BY <1>1, <1>3, <1>4, <1>5 DEF Elements

-----------------------------------------------------------------------------
(* connect()                                                                *)

(* Going on awaits a setup whose protocol is not registered yet.             *)
LEMMA ProceedAwaitsNew ==
    ASSUME NEW q \in Seq(Setup), NEW hs \in Seq(Setup),
           NEW states \in [Setup -> {"idle", "connecting", "up", "closing", "ended"}],
           Proceed(q, hs, states)
    PROVE  /\ queue' \in Seq(Setup)
           /\ connecting' \in {"returned"} \cup Setup
           /\ connecting' \in Setup => connecting' \notin Elements(hs)
           /\ life' \in [Setup -> {"idle", "connecting", "up", "closing", "ended"}]
<1>1. CASE Fresh(q, hs) = {}
  <2>1. <<>> \in Seq(Setup) /\ "returned" \notin Setup
    BY NoneAssumption
  <2> QED
    BY <1>1, <2>1 DEF Proceed
<1>2. CASE Fresh(q, hs) # {}
  <2>1. PICK i \in Fresh(q, hs) :
          /\ queue' = SubSeq(q, i + 1, Len(q))
          /\ connecting' = q[i]
          /\ life' = [states EXCEPT ![q[i]] = "connecting"]
    BY <1>2 DEF Proceed
  <2>2. i \in 1..Len(q) /\ Len(q) \in Nat /\ q[i] \in Setup /\ q[i] \notin Elements(hs)
    BY DEF Fresh
  <2>3. SubSeq(q, i + 1, Len(q)) \in Seq(Setup)
    BY <2>2
  <2> QED
    BY <2>1, <2>2, <2>3
<1> QED
  BY <1>1, <1>2

(* What the steps of connect() that do not register a setup leave alone.    *)
LEMMA GoesOn ==
    ASSUME Inv, NEW states \in [Setup -> {"idle", "connecting", "up", "closing", "ended"}],
           Proceed(queue, handlers, states),
           UNCHANGED <<handlers, featureMap, closeVars, listenerVars, push, streamVars>>
    PROVE  Inv'
<1> USE DEF Inv, TypeOK
<1>1. TypeOK' /\ AwaitedIsNew' /\ Distinct'
  BY ProceedAwaitsNew DEF AwaitedIsNew, Distinct, Handled, closeVars, listenerVars, streamVars
<1>2. ToldIsCounted' /\ ToldOnceAfterClose'
  BY DEF ToldIsCounted, ToldOnceAfterClose, closeVars, listenerVars
<1>3. ClosedOnce' /\ FeatureOwner' /\ TakeoverWhole'
  BY DEF ClosedOnce, FeatureOwner, TakeoverWhole, Handled, closeVars, streamVars
<1> QED
  BY <1>1, <1>2, <1>3

(* The feature map after another setup was registered.                      *)
LEMMA AddMappingKeepsOwner ==
    ASSUME TypeOK, FeatureOwner, NEW s \in Setup,
           handlers' = Append(handlers, s), featureMap' = AddMapping(s)
    PROVE  FeatureOwner'
<1> SUFFICES ASSUME NEW f \in Feature
             PROVE  LET able == {t \in Handled' : f \in FeaturesOf[t]}
                    IN IF able = {} THEN featureMap'[f] = None
                       ELSE featureMap'[f] \in able /\ \A t \in able : ~Outranks(t, featureMap'[f])
  BY DEF FeatureOwner
<1> DEFINE able == {t \in Handled : f \in FeaturesOf[t]}
           owned == featureMap[f]
<1>1. Handled' = Handled \cup {s} /\ Handled \subseteq Setup
  BY ElementsAppend, ElementsType DEF Handled, TypeOK
<1>2. featureMap'[f] =
        IF f \in FeaturesOf[s] /\ (owned = None \/ Outranks(s, owned)) THEN s ELSE owned
  BY DEF AddMapping
<1>3. IF able = {} THEN owned = None
      ELSE owned \in able /\ \A t \in able : ~Outranks(t, owned)
  BY DEF FeatureOwner
<1>4. CASE f \notin FeaturesOf[s]
  <2>1. {t \in Handled' : f \in FeaturesOf[t]} = able /\ featureMap'[f] = owned
    BY <1>1, <1>2, <1>4
  <2> QED
    BY <1>3, <2>1
<1>5. CASE f \in FeaturesOf[s]
  <2>1. {t \in Handled' : f \in FeaturesOf[t]} = able \cup {s}
    BY <1>1, <1>5
  <2>2. CASE able = {}
    <3>1. featureMap'[f] = s /\ ~Outranks(s, s)
      BY <1>2, <1>3, <1>5, <2>2, PriorityAssumption, SetupAssumption DEF Outranks
    <3> QED
      BY <2>1, <2>2, <3>1
  <2>3. CASE able # {}
    <3>1. owned \in able /\ owned # None /\ \A t \in able : ~Outranks(t, owned)
      BY <1>1, <1>3, <2>3, NoneAssumption
    <3>2. \A t \in able \cup {s} : t \in Setup /\ Rank[ProtocolOf[t]] \in Nat
      BY <1>1, PriorityAssumption, SetupAssumption
    <3>3. CASE Outranks(s, owned)
      <4>1. featureMap'[f] = s
        BY <1>2, <1>5, <3>3
      <4>2. \A t \in able \cup {s} : ~Outranks(t, s)
        BY <3>1, <3>2, <3>3 DEF Outranks
      <4> QED
        BY <2>1, <4>1, <4>2
    <3>4. CASE ~Outranks(s, owned)
      <4>1. featureMap'[f] = owned
        BY <1>2, <3>1, <3>4
      <4> QED
        BY <2>1, <3>1, <3>4, <4>1
    <3> QED
      BY <3>3, <3>4
  <2> QED
    BY <2>2, <2>3
<1> QED
  BY <1>4, <1>5

(* A setup connects and is registered.                                      *)
LEMMA SetupConnectsStep ==
    ASSUME Inv, NEW s \in Setup, SetupConnects(s)
    PROVE  Inv'
<1> USE DEF Inv
<1>1. s \notin Handled /\ Handled' = Handled \cup {s} /\ handlers' \in Seq(Setup)
  BY ElementsAppend DEF AwaitedIsNew, SetupConnects, Handled, TypeOK
<1>2. /\ handlers' = Append(handlers, s)
      /\ featureMap' = AddMapping(s)
      /\ UNCHANGED <<closes, closed, blocked, raised, listener, announced, told, push,
                     owner, streaming, acquired>>
  BY DEF SetupConnects, closeVars, listenerVars, streamVars
<1>3. featureMap' \in [Feature -> Setup \cup {None}]
  BY <1>2 DEF AddMapping, TypeOK
<1> DEFINE states == [life EXCEPT ![s] = IF @ = "ended" THEN @ ELSE "up"]
<1>4. states \in [Setup -> {"idle", "connecting", "up", "closing", "ended"}]
  BY DEF TypeOK
<1>5. Proceed(queue, handlers', states)
  BY DEF SetupConnects
<1>6. /\ queue' \in Seq(Setup)
      /\ connecting' \in {"returned"} \cup Setup
      /\ connecting' \in Setup => connecting' \notin Handled'
      /\ life' \in [Setup -> {"idle", "connecting", "up", "closing", "ended"}]
  <2> HIDE DEF states
  <2> QED
    BY <1>1, <1>4, <1>5, ProceedAwaitsNew DEF TypeOK, Handled
<1>7. TypeOK' /\ AwaitedIsNew'
  BY <1>1, <1>2, <1>3, <1>6 DEF TypeOK, AwaitedIsNew
<1>8. ToldIsCounted' /\ ToldOnceAfterClose'
  BY <1>2 DEF ToldIsCounted, ToldOnceAfterClose
<1>9. /\ DOMAIN handlers' = 1..(Len(handlers) + 1) /\ Len(handlers) \in Nat
      /\ DOMAIN handlers = 1..Len(handlers)
      /\ handlers'[Len(handlers) + 1] = s
      /\ \A k \in 1..Len(handlers) : handlers'[k] = handlers[k] /\ handlers[k] # s
  <2>1. \A k \in DOMAIN handlers : handlers[k] # s
    BY <1>1 DEF Handled, Elements
  <2> QED
    BY <1>2, <2>1 DEF TypeOK
<1>10. Distinct'
  <2> SUFFICES ASSUME NEW i \in DOMAIN handlers', NEW j \in DOMAIN handlers',
                      handlers'[i] = handlers'[j]
               PROVE  i = j
    BY DEF Distinct
  <2>1. CASE i = Len(handlers) + 1 \/ j = Len(handlers) + 1
    BY <1>9, <2>1
  <2>2. CASE i \in DOMAIN handlers /\ j \in DOMAIN handlers
    BY <1>9, <2>2 DEF Distinct
  <2> QED
    BY <1>9, <2>1, <2>2
<1>11. ClosedOnce'
  <2>1. closes[s] = 0
    BY <1>1 DEF ClosedOnce, TypeOK
  <2>2. ASSUME NEW i \in DOMAIN handlers', NEW j \in DOMAIN handlers',
               i < j, closes[handlers'[j]] > 0
        PROVE  closes[handlers'[i]] > 0
    <3>2. j # Len(handlers) + 1
      BY <1>9, <2>1, <2>2
    <3>3. i \in DOMAIN handlers /\ j \in DOMAIN handlers
      BY <1>9, <2>2, <3>2
    <3> QED
      BY <1>9, <2>2, <3>3 DEF ClosedOnce
  <2> QED
    BY <1>1, <1>2, <2>2 DEF ClosedOnce
<1>12. FeatureOwner'
  BY <1>2, AddMappingKeepsOwner
<1>13. TakeoverWhole'
  BY <1>2 DEF TakeoverWhole
<1> QED
  BY <1>7, <1>8, <1>10, <1>11, <1>12, <1>13

-----------------------------------------------------------------------------
(* close()                                                                  *)

(* Where a setup is that is closed.                                         *)
LEMMA ClosingType ==
    ASSUME TypeOK, NEW s \in Setup, NEW stopped
    PROVE  Closing(s, stopped) \in {"idle", "connecting", "up", "closing", "ended"}
BY DEF Closing, TypeOK

(* Closing a prefix of the handlers of a facade that was not closed before. *)
LEMMA ClosesPrefix ==
    ASSUME TypeOK, ClosedOnce, ~closed, NEW stopped \in SUBSET Handled,
           \A i, j \in DOMAIN handlers : i < j /\ handlers[j] \in stopped => handlers[i] \in stopped,
           closes' = [s \in Setup |-> IF s \in stopped THEN closes[s] + 1 ELSE closes[s]],
           UNCHANGED handlers, closed'
    PROVE  /\ closes' \in [Setup -> 0..1]
           /\ \A s \in Setup : closes'[s] > 0 => s \in Handled'
           /\ \A i, j \in DOMAIN handlers' :
                 i < j /\ closes'[handlers'[j]] > 0 => closes'[handlers'[i]] > 0
<1>1. \A s \in Setup : closes[s] = 0
  BY DEF ClosedOnce, TypeOK
<1>2. \A s \in Setup : closes'[s] = IF s \in stopped THEN 1 ELSE 0
  BY <1>1
<1>3. \A i \in DOMAIN handlers : handlers[i] \in Setup
  BY DEF TypeOK
<1>4. closes' \in [Setup -> 0..1]
  BY <1>2
<1>5. \A s \in Setup : closes'[s] > 0 => s \in Handled'
  BY <1>2 DEF Handled
<1>6. \A i, j \in DOMAIN handlers' :
         i < j /\ closes'[handlers'[j]] > 0 => closes'[handlers'[i]] > 0
  BY <1>2, <1>3
<1> QED
  BY <1>4, <1>5, <1>6

(* close() closes what is registered.                                       *)
LEMMA UserClosesStep ==
    ASSUME Inv, UserCloses
    PROVE  Inv'
<1> USE DEF Inv
<1>1. ~closed /\ UNCHANGED <<queue, connecting, handlers, featureMap, listener,
                             owner, streaming, acquired>>
  BY DEF UserCloses, connectVars, streamVars
<1>2. PICK stopped \in SUBSET Handled :
        /\ CloseHandlers(stopped)
        /\ \A i, j \in DOMAIN handlers :
              i < j /\ handlers[j] \in stopped => handlers[i] \in stopped
        /\ (blocked' /\ blocked' \in BOOLEAN /\ UNCHANGED raised)
             \/ (raised' = TRUE /\ UNCHANGED blocked)
  <2>1. CASE CloseHandlers(Handled) /\ blocked' = TRUE /\ UNCHANGED raised
    <3>1. \A i \in DOMAIN handlers : handlers[i] \in Handled
      BY DEF Handled, Elements
    <3> QED
      BY <2>1, <3>1
  <2>2. CASE CloseHandlers(UpToFirstTeller) /\ raised' = TRUE /\ UNCHANGED blocked
    <3>1. UpToFirstTeller \subseteq Handled
      BY DEF UpToFirstTeller, Handled, Elements
    <3>2. ASSUME NEW i \in DOMAIN handlers, NEW j \in DOMAIN handlers, i < j,
                 handlers[j] \in UpToFirstTeller
          PROVE  handlers[i] \in UpToFirstTeller
      <4>1. PICK k \in DOMAIN handlers :
              handlers[k] = handlers[j] /\ \A t \in Tellers : k <= t
        BY <3>2 DEF UpToFirstTeller
      <4>2. k = j
        BY <4>1 DEF Distinct
      <4>3. \A t \in Tellers : i <= t
        BY <3>2, <4>1, <4>2 DEF Tellers, TypeOK
      <4> QED
        BY <4>3 DEF UpToFirstTeller
    <3> QED
      BY <2>2, <3>1, <3>2
  <2> QED
    BY <2>1, <2>2 DEF UserCloses
<1>3. closed' = TRUE /\ push' = {}
  BY <1>2 DEF CloseHandlers
<1>4. /\ closes' \in [Setup -> 0..1]
      /\ \A s \in Setup : closes'[s] > 0 => s \in Handled'
      /\ \A i, j \in DOMAIN handlers' :
            i < j /\ closes'[handlers'[j]] > 0 => closes'[handlers'[i]] > 0
  BY <1>1, <1>2, <1>3, ClosesPrefix DEF CloseHandlers
<1>5. life' \in [Setup -> {"idle", "connecting", "up", "closing", "ended"}]
  BY <1>2, ClosingType DEF CloseHandlers
<1>6. /\ announced' \in BOOLEAN /\ told' \in 0..1
      /\ told' = 1 => announced'
  <2> DEFINE tells == Tellers # {} /\ ~announced
  <2>1. /\ announced' = (announced \/ tells)
        /\ told' = IF tells /\ listener = "alive" THEN told + 1 ELSE told
    BY DEF UserCloses
  <2>2. announced \in BOOLEAN /\ told \in 0..1 /\ (told = 1 => announced)
    BY DEF TypeOK, ToldIsCounted
  <2>3. announced' \in BOOLEAN
    BY <2>1, <2>2
  <2>4. CASE tells
    <3>1. announced' = TRUE
      BY <2>1, <2>4
    <3>2. ~announced
      BY <2>4
    <3>3. told = 0
      BY <2>2, <3>2
    <3> QED
      BY <2>1, <3>1, <3>3
  <2>5. CASE ~tells
    <3>1. told' = told /\ (announced => announced')
      BY <2>1, <2>5
    <3> QED
      BY <2>2, <2>3, <3>1
  <2> QED
    BY <2>4, <2>5
<1>7. blocked' \in BOOLEAN /\ raised' \in BOOLEAN /\ (~raised' => blocked')
  BY <1>2 DEF TypeOK
<1>8. TypeOK' /\ AwaitedIsNew' /\ Distinct' /\ TakeoverWhole' /\ FeatureOwner'
  BY <1>1, <1>3, <1>4, <1>5, <1>6, <1>7
     DEF TypeOK, AwaitedIsNew, Distinct, TakeoverWhole, FeatureOwner, Handled
<1>9. ToldIsCounted' /\ ToldOnceAfterClose'
  BY <1>3, <1>6 DEF ToldIsCounted, ToldOnceAfterClose
<1>10. ClosedOnce'
  BY <1>3, <1>4, <1>7 DEF ClosedOnce
<1> QED
  BY <1>8, <1>9, <1>10

(* A connection ends, and the facade may be told.                           *)
LEMMA ConnectionEndsStep ==
    ASSUME Inv, NEW s \in Setup, ConnectionEnds(s)
    PROVE  Inv'
<1> USE DEF Inv
<1>1. UNCHANGED <<queue, connecting, handlers, featureMap, listener, raised,
                  owner, streaming, acquired>>
  BY DEF ConnectionEnds, connectVars, streamVars
<1>2. /\ announced' = TRUE /\ told' \in 0..1
      /\ told' = 1 => told = 1 \/ StateWasUpdated
  BY DEF ConnectionEnds, Announce, StateWasUpdated, TypeOK, ToldIsCounted
<1>3. CASE StateWasUpdated /\ ~closed
  <2>1. /\ closed' = TRUE /\ blocked' = TRUE /\ push' = {}
        /\ closes' = [t \in Setup |-> IF t \in Handled THEN closes[t] + 1 ELSE closes[t]]
        /\ life' = [t \in Setup |-> IF t = s THEN "ended" ELSE Closing(t, Handled)]
    BY <1>3 DEF ConnectionEnds
  <2>2. \A i \in DOMAIN handlers : handlers[i] \in Handled
    BY DEF Handled, Elements
  <2>3. /\ closes' \in [Setup -> 0..1]
        /\ \A t \in Setup : closes'[t] > 0 => t \in Handled'
        /\ \A i, j \in DOMAIN handlers' :
              i < j /\ closes'[handlers'[j]] > 0 => closes'[handlers'[i]] > 0
    BY <1>1, <1>3, <2>1, <2>2, ClosesPrefix
  <2>4. life' \in [Setup -> {"idle", "connecting", "up", "closing", "ended"}]
    BY <2>1, ClosingType
  <2>5. TypeOK' /\ AwaitedIsNew' /\ Distinct' /\ TakeoverWhole' /\ FeatureOwner'
    BY <1>1, <1>2, <2>1, <2>3, <2>4
       DEF TypeOK, AwaitedIsNew, Distinct, TakeoverWhole, FeatureOwner, Handled
  <2>6. ToldIsCounted' /\ ToldOnceAfterClose' /\ ClosedOnce'
    <3>1. ToldIsCounted' /\ ToldOnceAfterClose'
      BY <1>2, <2>1 DEF ToldIsCounted, ToldOnceAfterClose
    <3>2. ClosedOnce'
      BY <2>1, <2>3 DEF ClosedOnce
    <3> QED
      BY <3>1, <3>2
  <2> QED
    BY <2>5, <2>6
<1>4. CASE ~(StateWasUpdated /\ ~closed)
  <2>1. life' = [life EXCEPT ![s] = "ended"] /\ UNCHANGED <<closes, closed, blocked, push>>
    BY <1>4 DEF ConnectionEnds
  <2>2. TypeOK' /\ AwaitedIsNew' /\ Distinct' /\ TakeoverWhole' /\ FeatureOwner'
    BY <1>1, <1>2, <2>1 DEF TypeOK, AwaitedIsNew, Distinct, TakeoverWhole, FeatureOwner, Handled
  <2>3. ToldIsCounted' /\ ToldOnceAfterClose' /\ ClosedOnce'
    BY <1>1, <1>2, <1>4, <2>1 DEF TypeOK, ToldIsCounted, ToldOnceAfterClose, ClosedOnce, Handled
  <2> QED
    BY <2>2, <2>3
<1> QED
  BY <1>3, <1>4

-----------------------------------------------------------------------------
(* Listeners, push updates and streams                                      *)

(* The user sets his listener, or drops it.                                 *)
LEMMA ListenerStep ==
    ASSUME Inv, SetListener \/ ListenerDies
    PROVE  Inv'
<1>1. /\ UNCHANGED <<connectVars, life, closeVars, announced, told, push, streamVars>>
      /\ listener' \in {"unset", "alive", "dead"}
  BY DEF SetListener, ListenerDies
<1> QED
  BY <1>1 DEF Inv, TypeOK, AwaitedIsNew, Distinct, ToldIsCounted, ClosedOnce, ToldOnceAfterClose,
     FeatureOwner, TakeoverWhole, Handled, connectVars, closeVars, streamVars

(* Push updates are started or stopped.                                     *)
LEMMA PushStep ==
    ASSUME Inv, PushStart \/ PushStop
    PROVE  Inv'
<1> USE DEF Inv
<1>1. /\ ~blocked
      /\ UNCHANGED <<connectVars, life, closeVars, listenerVars, streamVars>>
      /\ push' \subseteq Setup
  BY ElementsType DEF PushStart, PushStop, Handled, TypeOK
<1>2. closed => raised
  BY <1>1 DEF ClosedOnce
<1>3. ClosedOnce'
  BY <1>1, <1>2 DEF ClosedOnce, Handled, connectVars, closeVars
<1>4. TypeOK'
  BY <1>1 DEF TypeOK, connectVars, closeVars, listenerVars, streamVars
<1>5. AwaitedIsNew' /\ Distinct' /\ FeatureOwner'
  BY <1>1 DEF AwaitedIsNew, Distinct, FeatureOwner, Handled, connectVars
<1>6. ToldIsCounted' /\ ToldOnceAfterClose' /\ TakeoverWhole'
  BY <1>1 DEF ToldIsCounted, ToldOnceAfterClose, TakeoverWhole, closeVars, listenerVars, streamVars
<1> QED
  BY <1>3, <1>4, <1>5, <1>6

(* A step that touches only what streams hold.                              *)
LEMMA StreamFrame ==
    ASSUME Inv, UNCHANGED <<connectVars, life, closeVars, listenerVars, push>>,
           owner' \in [Iface -> Protocol \cup {None}],
           streaming' \subseteq Setup, acquired' \subseteq Exclusive, TakeoverWhole'
    PROVE  Inv'
BY DEF Inv, TypeOK, AwaitedIsNew, Distinct, ToldIsCounted, ClosedOnce, ToldOnceAfterClose,
   FeatureOwner, Handled, connectVars, closeVars, listenerVars

(* A stream takes its interfaces over.                                      *)
LEMMA StreamStartsStep ==
    ASSUME Inv, NEW s \in Setup, StreamStarts(s)
    PROVE  Inv'
<1> USE DEF Inv
<1>1. /\ UNCHANGED <<connectVars, life, closeVars, listenerVars, push>>
      /\ acquired' \subseteq Exclusive
      /\ Takeover(s)
  BY DEF StreamStarts, TypeOK
<1>2. CASE \A i \in Takes[s] : owner[i] = None
  <2>1. /\ owner' = [i \in Iface |-> IF i \in Takes[s] THEN ActsAs[s] ELSE owner[i]]
        /\ streaming' = streaming \cup {s}
    BY <1>1, <1>2 DEF Takeover
  <2>2. /\ \A t \in Setup : Takes[t] \subseteq Iface /\ ActsAs[t] # None
        /\ streaming \subseteq Setup
    BY SetupAssumption, NoneAssumption DEF TypeOK
  <2>3. ASSUME NEW t \in streaming
        PROVE  Takes[t] \cap Takes[s] = {}
    BY <1>2, <2>2 DEF TakeoverWhole
  <2>4. TakeoverWhole'
    <3>1. \A t \in streaming' : \A i \in Takes[t] : owner'[i] = ActsAs[t]
      BY <2>1, <2>2, <2>3 DEF TakeoverWhole
    <3>2. \A t, u \in streaming' : t # u => Takes[t] \cap Takes[u] = {}
      BY <2>1, <2>3 DEF TakeoverWhole
    <3>3. \A i \in Iface : owner'[i] # None => \E t \in streaming' : i \in Takes[t]
      BY <2>1 DEF TakeoverWhole
    <3> QED
      BY <3>1, <3>2, <3>3 DEF TakeoverWhole
  <2>5. owner' \in [Iface -> Protocol \cup {None}] /\ streaming' \subseteq Setup
    BY <2>1, SetupAssumption DEF TypeOK
  <2> QED
    BY <1>1, <2>4, <2>5, StreamFrame
<1>3. CASE ~ \A i \in Takes[s] : owner[i] = None
  <2>1. UNCHANGED <<owner, streaming>>
    BY <1>1, <1>3 DEF Takeover
  <2> QED
    BY <1>1, <2>1, StreamFrame DEF TypeOK, TakeoverWhole
<1> QED
  BY <1>2, <1>3

(* It ends and gives them back.                                             *)
LEMMA StreamEndsStep ==
    ASSUME Inv, NEW s \in Setup, StreamEnds(s)
    PROVE  Inv'
<1> USE DEF Inv
<1>1. /\ s \in streaming
      /\ owner' = [i \in Iface |-> IF i \in Takes[s] THEN None ELSE owner[i]]
      /\ streaming' = streaming \ {s}
      /\ acquired' \subseteq Exclusive
      /\ UNCHANGED <<connectVars, life, closeVars, listenerVars, push>>
  BY DEF StreamEnds, TypeOK
<1>2. \A t \in streaming' : t \in Setup /\ Takes[t] \subseteq Iface /\ Takes[t] \cap Takes[s] = {}
  BY <1>1, SetupAssumption DEF TypeOK, TakeoverWhole
<1>3. TakeoverWhole'
  BY <1>1, <1>2 DEF TakeoverWhole
<1>4. owner' \in [Iface -> Protocol \cup {None}] /\ streaming' \subseteq Setup
  BY <1>1 DEF TypeOK
<1> QED
  BY <1>1, <1>3, <1>4, StreamFrame

-----------------------------------------------------------------------------

(* The registry is in order before the first message.                       *)
LEMMA InvInit == Init => Inv
<1> SUFFICES ASSUME Init PROVE Inv
  OBVIOUS
<1>1. Handled = {} /\ <<>> \in Seq(Setup) /\ DOMAIN handlers = {}
  BY DEF Init, Handled, Elements
<1>2. TypeOK
  <2>1. queue \in Seq(Setup) /\ handlers \in Seq(Setup)
    BY <1>1, SetupAssumption DEF Init
  <2>2. closed \in BOOLEAN /\ blocked \in BOOLEAN /\ announced \in BOOLEAN /\ raised \in BOOLEAN
    BY DEF Init
  <2>3. told \in 0..1 /\ closes \in [Setup -> 0..1]
    BY DEF Init
  <2> QED
    BY <2>1, <2>2, <2>3 DEF Init, TypeOK
<1>3. AwaitedIsNew /\ Distinct /\ ToldIsCounted
  BY <1>1 DEF Init, AwaitedIsNew, Distinct, ToldIsCounted
<1>4. ClosedOnce /\ ToldOnceAfterClose
  BY <1>1 DEF Init, ClosedOnce, ToldOnceAfterClose
<1>5. FeatureOwner /\ TakeoverWhole
  BY <1>1 DEF Init, FeatureOwner, TakeoverWhole
<1> QED
  BY <1>2, <1>3, <1>4, <1>5 DEF Inv

(* No message of the device leaves an unregistered client or player active. *)
LEMMA InvStep == Inv /\ [Next]_vars => Inv'
<1> SUFFICES ASSUME Inv, [Next]_vars PROVE Inv'
  OBVIOUS
<1>1. CASE Connect
  BY <1>1, GoesOn DEF Connect, Inv, TypeOK
<1>2. ASSUME NEW s \in Setup, SetupDeclines(s)
      PROVE  Inv'
  <2> DEFINE states == [life EXCEPT ![s] = "ended"]
  <2>1. states \in [Setup -> {"idle", "connecting", "up", "closing", "ended"}]
    BY DEF Inv, TypeOK
  <2>2. /\ Proceed(queue, handlers, states)
        /\ UNCHANGED <<handlers, featureMap, closeVars, listenerVars, push, streamVars>>
    BY <1>2 DEF SetupDeclines
  <2> HIDE DEF states
  <2> QED
    BY <2>1, <2>2, GoesOn
<1>3. ASSUME NEW s \in Setup, SetupRaises(s)
      PROVE  Inv'
  <2>1. /\ connecting' = "raised" /\ life' = [life EXCEPT ![s] = "ended"]
        /\ UNCHANGED <<queue, handlers, featureMap, closeVars, listenerVars, push, streamVars>>
    BY <1>3 DEF SetupRaises
  <2>2. TypeOK' /\ AwaitedIsNew' /\ Distinct'
    BY <2>1, NoneAssumption
       DEF Inv, TypeOK, AwaitedIsNew, Distinct, closeVars, listenerVars, streamVars
  <2> QED
    BY <2>1, <2>2 DEF Inv, ToldIsCounted, ClosedOnce, ToldOnceAfterClose, FeatureOwner,
       TakeoverWhole, Handled, closeVars, listenerVars, streamVars
<1>4. CASE UNCHANGED vars
  BY <1>4 DEF vars, Inv, TypeOK, AwaitedIsNew, Distinct, ToldIsCounted, ClosedOnce,
     ToldOnceAfterClose, FeatureOwner, TakeoverWhole, Handled
<1> QED
  BY <1>1, <1>2, <1>3, <1>4, SetupConnectsStep, UserClosesStep, ConnectionEndsStep, ListenerStep,
     PushStep, StreamStartsStep, StreamEndsStep DEF Next

(* The invariant of the registry, for every behaviour.                      *)
LEMMA Invariance == Spec => []Inv
BY InvInit, InvStep, PTL DEF Spec

(* The facade keeps its types; in particular no setup is closed twice.       *)
THEOREM TypeCorrect == Spec => []TypeOK
BY Invariance, PTL DEF Inv

(* Whoever closes the facade and whenever, also while connect() is under     *)
(* way: only registered setups are closed, those set up first before the    *)
(* others, and a closed facade is shielded and pushes nothing.              *)
THEOREM ClosedInOrder == Spec => []ClosedOnce
BY Invariance, PTL DEF Inv

(* The user's listener is told at most once, however many protocols report.  *)
THEOREM ToldOnce == Spec => []ToldOnceAfterClose
BY Invariance, PTL DEF Inv

(* Each feature is mapped to the registered protocol of highest priority     *)
(* that has it, in whatever order the protocols connected.                  *)
THEOREM FeaturesByPriority == Spec => []FeatureOwner
BY Invariance, PTL DEF Inv

(* Streams hold every interface they take, share none, and leave none taken. *)
THEOREM TakeoversAreWhole == Spec => []TakeoverWhole
BY Invariance, PTL DEF Inv

-----------------------------------------------------------------------------
(* What plays, looked up and posted.                                        *)
(* A coroutine that is where it may be and holds what it may hold.          *)
WellPlaced(r) ==
    /\ r \in Coroutine
    /\ r.kind = "none" <=> r.pc = "done"
    /\ r.pc = "sleep" => r.kind = "poll"
    /\ r.pc = "lookup" <=> r.content # Nothing
    /\ r.player # Nothing <=> r.content # Nothing

(* Types say where a coroutine is.                                          *)
LEMMA PlacedTasks ==
    ASSUME PlayingTypeOK, NEW t \in Task
    PROVE  WellPlaced(task[t])
BY DEF PlayingTypeOK, WellPlaced

(* Tasks stay well placed when one or two of them get a well placed state.   *)
LEMMA TypeFromTasks ==
    ASSUME active' \in Player \cup {Nothing},
           item' \in [Player -> Item \cup {Nothing}],
           on' \in BOOLEAN,
           posted' \in Item \cup {Nothing},
           changes' \in 0..MaxChanges, starts' \in 0..MaxStarts,
           task' \in [Task -> Coroutine],
           \A t \in Task : WellPlaced(task'[t])
    PROVE  PlayingTypeOK'
BY DEF PlayingTypeOK, WellPlaced

(* A coroutine that has not begun.                                          *)
LEMMA IdlePlaced ==
    /\ WellPlaced(Idle)
    /\ \A kind \in {"push", "poll", "user"} : WellPlaced(Ready(kind))
    /\ WellPlaced([Ready("poll") EXCEPT !.pc = "sleep"])
BY DEF WellPlaced, Idle, Ready, Coroutine

(* A coroutine at rest is well placed.                                      *)
LEMMA RestPlaced ==
    ASSUME NEW t \in Task
    PROVE  WellPlaced(Rest(t))
BY IdlePlaced DEF Rest

(* The start of playing(), in a coroutine that is scheduled or asleep.       *)
LEMMA PlayType ==
    ASSUME PlayingTypeOK, NEW t \in Task, task[t].pc \in {"ready", "sleep"}, Play(t)
    PROVE  /\ task' \in [Task -> Coroutine]
           /\ \A u \in Task : WellPlaced(task'[u])
           /\ posted' \in Item \cup {Nothing}
<1>1. Current \in Item \cup {Nothing}
  BY DEF Current, PlayingTypeOK
<1>2. CASE NeedsLookup(Current)
  <2> DEFINE r == [task[t] EXCEPT !.pc = "lookup", !.player = active, !.content = Current.id]
  <2>1. Current \in Item /\ active \in Player /\ Current.id \in Content
    BY <1>1, <1>2 DEF NeedsLookup, Current, PlayingTypeOK, Item
  <2>2. WellPlaced(task[t]) /\ task[t].kind # "none"
    BY PlacedTasks DEF WellPlaced
  <2>3. WellPlaced(r)
    BY <2>1, <2>2, ConstantsAssumption DEF WellPlaced, Coroutine
  <2>4. task' = [task EXCEPT ![t] = r] /\ posted' = posted
    BY <1>2 DEF Play, PlayingTypeOK
  <2> HIDE DEF r
  <2> QED
    BY <2>3, <2>4, PlacedTasks DEF PlayingTypeOK, WellPlaced
<1>3. CASE ~NeedsLookup(Current)
  <2>1. task' = [task EXCEPT ![t] = Rest(t)] /\ posted' \in {posted, Current}
    BY <1>3 DEF Play, Post
  <2> QED
    BY <1>1, <2>1, RestPlaced, PlacedTasks DEF PlayingTypeOK, WellPlaced
<1> QED
  BY <1>2, <1>3

(* At first no coroutine runs.                                              *)
LEMMA PlayingTypeInit == PlayingInit => PlayingTypeOK
<1> SUFFICES ASSUME PlayingInit PROVE PlayingTypeOK
  OBVIOUS
<1>1. task \in [Task -> Coroutine] /\ \A t \in Task : task[t] = Idle
  BY IdlePlaced DEF PlayingInit, WellPlaced
<1>2. changes \in 0..MaxChanges /\ starts \in 0..MaxStarts
  BY ConstantsAssumption DEF PlayingInit
<1>3. \A t \in Task : WellPlaced(task[t])
  BY <1>1, IdlePlaced
<1> QED
  BY <1>1, <1>2, <1>3 DEF PlayingInit, PlayingTypeOK, WellPlaced

(* Coroutines that are left alone, or of which one or two free ones become   *)
(* ready.                                                                  *)
LEMMA ToldType ==
    ASSUME PlayingTypeOK, NEW relevant, Told(relevant)
    PROVE  task' \in [Task -> Coroutine] /\ \A u \in Task : WellPlaced(task'[u])
BY PlacedTasks, IdlePlaced DEF Told, PlayingTypeOK, WellPlaced

(* The device sets, updates or removes what plays.                          *)
LEMMA DeviceType ==
    ASSUME PlayingTypeOK, Device
    PROVE  PlayingTypeOK'
<1>1. PICK p \in Player :
        \/ \E m \in Item \cup {Nothing} : SetsItem(p, m)
        \/ UpdatesItem(p)
        \/ Switches(p)
        \/ Removes
  BY DEF Device, Item, Source
<1>2. Change /\ UNCHANGED <<on, posted, starts>>
  BY <1>1 DEF SetsItem, UpdatesItem, Switches, Removes
<1>3. changes' \in 0..MaxChanges
  BY <1>2, ConstantsAssumption DEF Change, PlayingTypeOK
<1>4. task' \in [Task -> Coroutine] /\ \A u \in Task : WellPlaced(task'[u])
  <2>1. CASE \E m \in Item \cup {Nothing} : SetsItem(p, m)
    <3>1. Told(active' \in {p, Nothing})
      BY <2>1 DEF SetsItem
    <3> QED
      BY <3>1, ToldType
  <2>2. CASE UpdatesItem(p)
    <3>1. Told(active \in {p, Nothing})
      BY <2>2 DEF UpdatesItem
    <3> QED
      BY <3>1, ToldType
  <2>3. CASE Switches(p) \/ Removes
    <3>1. Told(TRUE)
      BY <2>3 DEF Switches, Removes
    <3> QED
      BY <3>1, ToldType
  <2> QED
    BY <1>1, <2>1, <2>2, <2>3
<1>5. active' \in Player \cup {Nothing}
  BY <1>1 DEF SetsItem, UpdatesItem, Switches, Removes, PlayingTypeOK
<1>6. item' \in [Player -> Item \cup {Nothing}]
  <2>1. ASSUME UpdatesItem(p)
        PROVE  [item[p] EXCEPT !.series = "device"] \in Item
    BY <2>1 DEF UpdatesItem, PlayingTypeOK, Item, Source
  <2> QED
    BY <1>1, <2>1 DEF SetsItem, UpdatesItem, Switches, Removes, PlayingTypeOK
<1> QED
  BY <1>2, <1>3, <1>5, <1>6, <1>4, TypeFromTasks DEF PlayingTypeOK

(* An item that took what a lookup found is one.                            *)
LEMMA EnrichedType ==
    ASSUME NEW m \in Item \cup {Nothing}, NEW c \in Content, NEW found \in Found(c)
    PROVE  Enriched(m, found) \in Item \cup {Nothing}
BY ConstantsAssumption DEF Enriched, NeedsLookup, Found, Item, Source

(* A coroutine goes on.                                                     *)
LEMMA StepsType ==
    ASSUME PlayingTypeOK, NEW t \in Task, Steps(t)
    PROVE  PlayingTypeOK'
<1>1. CASE Begin(t)
  <2>1. UNCHANGED <<active, item, on, changes, starts>> /\ task[t].pc = "ready"
    BY <1>1 DEF Begin
  <2>2. /\ task' \in [Task -> Coroutine]
        /\ \A u \in Task : WellPlaced(task'[u])
        /\ posted' \in Item \cup {Nothing}
    BY <1>1, PlayType, RestPlaced, PlacedTasks DEF Begin, PlayingTypeOK, WellPlaced
  <2> QED
    BY <2>1, <2>2, TypeFromTasks DEF PlayingTypeOK
<1>2. CASE PollWakes(t)
  <2>1. UNCHANGED <<active, item, on, changes, starts>> /\ task[t].pc = "sleep"
    BY <1>2 DEF PollWakes
  <2>2. /\ task' \in [Task -> Coroutine]
        /\ \A u \in Task : WellPlaced(task'[u])
        /\ posted' \in Item \cup {Nothing}
    BY <1>2, PlayType, IdlePlaced, PlacedTasks DEF PollWakes, PlayingTypeOK, WellPlaced
  <2> QED
    BY <2>1, <2>2, TypeFromTasks DEF PlayingTypeOK
<1>3. CASE LookupReturns(t)
  <2> DEFINE p == task[t].player
             c == task[t].content
  <2>1. p \in Player /\ c \in Content
    BY <1>3, PlacedTasks DEF LookupReturns, WellPlaced, Coroutine
  <2>2. PICK found \in Found(c) :
          IF item[p] = Nothing /\ found # Nothing
          THEN UNCHANGED <<item, posted>>
          ELSE item' = [item EXCEPT ![p] = Enriched(item[p], found)]
               /\ Post(t, Enriched(item[p], found))
    BY <1>3 DEF LookupReturns
  <2>3. Enriched(item[p], found) \in Item \cup {Nothing}
    BY <2>1, EnrichedType DEF PlayingTypeOK
  <2>4. item' \in [Player -> Item \cup {Nothing}] /\ posted' \in Item \cup {Nothing}
    BY <2>1, <2>2, <2>3 DEF Post, PlayingTypeOK
  <2>5. /\ task' = [task EXCEPT ![t] = Rest(t)]
        /\ UNCHANGED <<active, on, changes, starts>>
    BY <1>3 DEF LookupReturns
  <2>6. task' \in [Task -> Coroutine] /\ \A u \in Task : WellPlaced(task'[u])
    BY <2>5, RestPlaced, PlacedTasks DEF PlayingTypeOK, WellPlaced
  <2> QED
    BY <2>4, <2>5, <2>6, TypeFromTasks DEF PlayingTypeOK
<1> QED
  BY <1>1, <1>2, <1>3 DEF Steps

(* Every step keeps the types.                                              *)
LEMMA PlayingTypeStep == PlayingTypeOK /\ [PlayingNext]_playingVars => PlayingTypeOK'
<1> SUFFICES ASSUME PlayingTypeOK, [PlayingNext]_playingVars PROVE PlayingTypeOK'
  OBVIOUS
<1>1. CASE Device
  BY <1>1, DeviceType
<1>2. CASE Start
  <2>1. PICK t \in Task, u \in Task :
          task' = [task EXCEPT ![t] = Ready("push"), ![u] = Ready("poll")]
    BY <1>2 DEF Start
  <2>2. task' \in [Task -> Coroutine] /\ \A v \in Task : WellPlaced(task'[v])
    BY <2>1, IdlePlaced, PlacedTasks DEF PlayingTypeOK, WellPlaced
  <2>3. /\ on' = TRUE /\ starts' = starts + 1 /\ starts < MaxStarts
        /\ UNCHANGED <<active, item, posted, changes>>
    BY <1>2 DEF Start
  <2> QED
    BY <2>2, <2>3, TypeFromTasks, ConstantsAssumption DEF PlayingTypeOK
<1>3. CASE Stop
  BY <1>3 DEF Stop, PlayingTypeOK
<1>4. ASSUME NEW t \in Task, Asks(t)
      PROVE  PlayingTypeOK'
  <2>1. task' \in [Task -> Coroutine] /\ \A v \in Task : WellPlaced(task'[v])
    BY <1>4, IdlePlaced, PlacedTasks DEF Asks, PlayingTypeOK, WellPlaced
  <2> QED
    BY <1>4, <2>1, TypeFromTasks DEF Asks, PlayingTypeOK
<1>5. CASE UNCHANGED playingVars
  BY <1>5 DEF playingVars, PlayingTypeOK
<1> QED
  BY <1>1, <1>2, <1>3, <1>4, <1>5, StepsType DEF PlayingNext

(* Types, and where coroutines are suspended, for any number of them.        *)
THEOREM PlayingTypeCorrect == PlayingSpec => []PlayingTypeOK
BY PlayingTypeInit, PlayingTypeStep, PTL DEF PlayingSpec

(* A name from the device is not overwritten by the result of any lookup,    *)
(* however many are under way and whatever they are for.                     *)
THEOREM NamesAreKept == PlayingSpec => NameKept
<1>1. ASSUME PlayingTypeOK, [PlayingNext]_playingVars, NEW p \in Player,
             item[p] # Nothing, item[p].series = "device", changes' = changes
      PROVE  item'[p] = item[p]
  <2>1. ~Device
    <3>1. Device => changes' = changes + 1
      BY DEF Device, SetsItem, UpdatesItem, Switches, Removes, Change
    <3>2. changes \in Nat
      BY <1>1 DEF PlayingTypeOK
    <3> QED
      BY <1>1, <3>1, <3>2
  <2>2. ASSUME NEW t \in Task, LookupReturns(t)
        PROVE  item'[p] = item[p]
    <3> DEFINE q == task[t].player
    <3>1. PICK found : \/ UNCHANGED item
                       \/ item' = [item EXCEPT ![q] = Enriched(item[q], found)]
      BY <2>2 DEF LookupReturns
    <3>2. Enriched(item[p], found) = item[p]
      BY <1>1, ConstantsAssumption DEF Enriched, NeedsLookup
    <3> QED
      BY <1>1, <3>1, <3>2 DEF PlayingTypeOK
  <2>3. ASSUME NEW t \in Task, Asks(t) \/ Begin(t) \/ PollWakes(t)
        PROVE  item'[p] = item[p]
    BY <2>3 DEF Asks, Begin, PollWakes
  <2> QED
    BY <1>1, <2>1, <2>2, <2>3 DEF PlayingNext, Steps, Start, Stop, playingVars
<1>2. PlayingTypeOK /\ [PlayingNext]_playingVars
        => [\A p \in Player :
              item[p] # Nothing /\ item[p].series = "device" /\ changes' = changes
                 => item'[p] = item[p]]_playingVars
  BY <1>1
<1> QED
  BY <1>2, PlayingTypeCorrect, PTL DEF PlayingSpec, NameKept

-----------------------------------------------------------------------------
(* What the interfaces tell the user.                                       *)
(* What is said about one thing in a queue is said by the messages of K: the *)
(* last of them is about v; or there is none, and then now.                 *)
NoneIn(q, K) == \A i \in 1..Len(q) : q[i] \notin K
LastIn(q, K, v) ==
    \E i \in 1..Len(q) : /\ q[i] \in K /\ q[i].what = v
                         /\ \A j \in 1..Len(q) : j > i => q[j] \notin K
Said(q, K, v, now) == IF NoneIn(q, K) THEN now ELSE LastIn(q, K, v)

Updater == {"MRP", "RAOP"}
Queued ==
    [run : {"updated", "show"}, of : Updater, what : Int] \cup [run : {"volume"}, of : {"facade", "RAOP"}, what : Int]
Shows(u) == {c \in Queued : c.run = "show" /\ c.of = u}
Volumes == {c \in Queued : c.run = "volume"}

(* The updater that counts while no stream changes it.                      *)
Counts == IF beside THEN "MRP" ELSE "RAOP"

InterfaceType ==
    /\ beside \in BOOLEAN /\ hosted \in BOOLEAN /\ pushing \in BOOLEAN /\ unsaid \in BOOLEAN
    /\ holder \in {Nobody, "AirPlay", "RAOP"} /\ (holder # Nobody => holder = IF hosted THEN "AirPlay" ELSE "RAOP")
    /\ shows \in [Updater -> Int] /\ previous \in [Updater -> Int]
    /\ shown \in Int /\ lost \subseteq Updater
    /\ guess \in Int /\ level \in Int /\ setting \subseteq Int
    /\ ready \in Seq(Queued)

(* Whoever shows what it has not posted is about to.                        *)
UpdatesAreMade ==
    pushing => \A u \in Updaters : previous[u] # shows[u] =>
                  \E i \in 1..Len(ready) : ready[i].run = "updated" /\ ready[i].of = u

(* What was posted last is shown in the end, if it was posted to somebody.  *)
PostsAreShown ==
    (hosted \/ ~ beside) /\ Counts \notin lost
        => Said(ready, Shows(Counts), previous[Counts], shown = previous[Counts])

(* A level is told to the facade and then to RAOP, with nothing in between;  *)
(* with none on the way, RAOP goes by what the user was told.               *)
LevelsPaired(q, lv) ==
    /\ \A i \in 1..Len(q) : q[i] \in Volumes /\ q[i].of = "facade" =>
          i < Len(q) /\ q[i + 1] = [q[i] EXCEPT !.of = "RAOP"]
    /\ \A i \in 1..Len(q) : q[i] \in Volumes /\ q[i].of # "facade" =>
          /\ q[i].of = "RAOP"
          /\ IF i = 1 THEN lv = q[1].what ELSE q[i - 1] = [q[i] EXCEPT !.of = "facade"]
LevelsAgree ==
    /\ LevelsPaired(ready, level)
    /\ NoneIn(ready, Volumes) => guess = NoLevel \/ unsaid \/ guess = level

InterfaceInv == InterfaceType /\ UpdatesAreMade /\ PostsAreShown /\ LevelsAgree

CallbackSet == [about : {"power"}, what : {"On", "Off", "Unknown"}] \cup [about : {"focus"}, what : {"Focused", "Unfocused"}]
About(a) == {c \in CallbackSet : c.about = a}

AwareType ==
    /\ present \in {{"MRP"}, {"Companion"}, {"MRP", "Companion"}}
    /\ registered \subseteq present /\ listens \in BOOLEAN
    /\ power \in [{"MRP", "Companion"} -> {"On", "Off", "Unknown"}]
    /\ focus \in {"Focused", "Unfocused", "Unknown"} /\ kept \in {"Focused", "Unfocused", "Unknown"}
    /\ callbacks \in Seq(CallbackSet)
    /\ toldUser = [about \in {"power", "focus"} |-> toldUser[about]]

(* Nobody is told before all are registered, and then the power of the main *)
(* one counts.                                                              *)
Listening ==
    /\ heard = IF registered = present THEN PowerOf(present) ELSE Nobody
    /\ listens => registered = present
    /\ ~ listens => toldUser["power"] = "nothing" /\ toldUser["focus"] = "nothing"

(* What was learned last is told in the end.                                *)
LastIsTold ==
    /\ heard # Nobody =>
          Said(callbacks, About("power"), power[heard], toldUser["power"] \in {"nothing", power[heard]})
    /\ Said(callbacks, About("focus"), focus, kept \in {"Unknown", focus})
    /\ toldUser["focus"] \in {"nothing", kept} /\ toldUser["focus"] # "Unknown"
    /\ "Companion" \notin registered => kept = "Unknown" /\ NoneIn(callbacks, About("focus"))
    /\ heard = Nobody => NoneIn(callbacks, About("power"))

AwareInv == AwareType /\ Listening /\ LastIsTold

-----------------------------------------------------------------------------
(* Queues.                                                                  *)
LEMMA HeadOfQueue ==
    ASSUME NEW S, NEW q \in Seq(S), q # <<>>
    PROVE  /\ Len(q) \in Nat \ {0} /\ Head(q) = q[1] /\ Head(q) \in S /\ Tail(q) \in Seq(S)
           /\ Len(Tail(q)) = Len(q) - 1
           /\ \A i \in 1..(Len(q) - 1) : i + 1 \in 1..Len(q) /\ Tail(q)[i] = q[i + 1]
           /\ \A i \in 1..Len(q) : i # 1 => i - 1 \in 1..(Len(q) - 1) /\ Tail(q)[i - 1] = q[i]
OBVIOUS

(* The head of a queue says its last word if nothing else does.             *)
LEMMA SaidByRest ==
    ASSUME NEW S, NEW q \in Seq(S), q # <<>>, NEW K, NEW v, NEW now, Said(q, K, v, now)
    PROVE  /\ q[1] \notin K => Said(Tail(q), K, v, now)
           /\ q[1] \in K => Said(Tail(q), K, v, q[1].what = v)
<1> DEFINE t == Tail(q)
           n == Len(q)
<1>1. /\ n \in Nat \ {0} /\ Len(t) = n - 1 /\ 1 \in 1..n
      /\ \A i \in 1..(n - 1) : i + 1 \in 1..n /\ t[i] = q[i + 1]
      /\ \A i \in 1..n : i # 1 => i - 1 \in 1..(n - 1) /\ t[i - 1] = q[i]
  BY HeadOfQueue
<1>2. \A i, j \in 1..n : j - 1 > i - 1 <=> j > i
  BY <1>1
<1>3. \A i, j \in 1..(n - 1) : j > i <=> j + 1 > i + 1
  BY <1>1
<1>6. \A i \in 1..(n - 1) : i \in Int /\ (i + 1) - 1 = i
  BY <1>1
<1> HIDE DEF t, n
<1>4. CASE NoneIn(q, K)
  BY <1>1, <1>4 DEF NoneIn, Said, n
<1>5. CASE ~ NoneIn(q, K)
  <2>1. PICK i \in 1..n : q[i] \in K /\ q[i].what = v /\ \A j \in 1..n : j > i => q[j] \notin K
    BY <1>5 DEF Said, LastIn, n
  <2>2. CASE i = 1
    <3>1. NoneIn(t, K)
      <4> SUFFICES ASSUME NEW k \in 1..(n - 1) PROVE t[k] \notin K
        BY <1>1 DEF NoneIn
      <4>1. k + 1 \in 1..n /\ k + 1 > 1 /\ t[k] = q[k + 1]
        BY <1>1
      <4> QED
        BY <2>1, <2>2, <4>1
    <3> QED
      BY <2>1, <2>2, <3>1 DEF Said, t
  <2>3. CASE i # 1
    <3>1. i - 1 \in 1..(n - 1) /\ t[i - 1] = q[i]
      BY <1>1, <2>3
    <3>2. ASSUME NEW k \in 1..(n - 1), k > i - 1 PROVE t[k] \notin K
      <4>1. k + 1 \in 1..n /\ t[k] = q[k + 1]
        BY <1>1
      <4>2. k + 1 > i
        BY <3>2, <1>1
      <4> QED
        BY <2>1, <4>1, <4>2
    <3>3. ~ NoneIn(t, K) /\ LastIn(t, K, v)
      BY <1>1, <2>1, <3>1, <3>2, Zenon DEF NoneIn, LastIn
    <3> QED
      BY <3>3 DEF Said, t
  <2> QED
    BY <2>2, <2>3
<1> QED
  BY <1>4, <1>5

(* A queue of two.                                                          *)
LEMMA TwoMessages ==
    ASSUME NEW S, NEW a \in S, NEW b \in S
    PROVE  <<a, b>> \in Seq(S) /\ Len(<<a, b>>) = 2 /\ <<a, b>>[1] = a /\ <<a, b>>[2] = b
OBVIOUS

(* Elements of two queues, one after the other.                             *)
LEMMA JoinedQueues ==
    ASSUME NEW S, NEW q \in Seq(S), NEW r \in Seq(S)
    PROVE  /\ q \o r \in Seq(S) /\ Len(q) \in Nat /\ Len(r) \in Nat
           /\ Len(q \o r) = Len(q) + Len(r)
           /\ \A i \in 1..(Len(q) + Len(r)) : (q \o r)[i] = IF i <= Len(q) THEN q[i] ELSE r[i - Len(q)]
<1>1. Len(q) \in Nat /\ Len(r) \in Nat
  OBVIOUS
<1> QED
  BY <1>1, ConcatProperties, Zenon

(* The same, without the conditional.                                       *)
LEMMA JoinedElements ==
    ASSUME NEW S, NEW q \in Seq(S), NEW r \in Seq(S), NEW m, m = Len(q), NEW n, n = Len(r)
    PROVE  /\ m \in Nat /\ n \in Nat /\ Len(q \o r) = m + n
           /\ \A i \in 1..m : i \in 1..(m + n) /\ (q \o r)[i] = q[i]
           /\ \A i \in 1..n : i + m \in 1..(m + n) /\ (q \o r)[i + m] = r[i]
           /\ \A i \in 1..(m + n) : i \in 1..m \/ (i - m \in 1..n /\ i > m /\ (q \o r)[i] = r[i - m])
<1>1. /\ m \in Nat /\ n \in Nat /\ Len(q \o r) = m + n
      /\ \A i \in 1..(m + n) : (q \o r)[i] = IF i <= m THEN q[i] ELSE r[i - m]
  BY JoinedQueues
<1> DEFINE s == q \o r
<1> HIDE DEF s
<1>2. \A i \in 1..(m + n) : s[i] = IF i <= m THEN q[i] ELSE r[i - m]
  BY <1>1 DEF s
<1>3. \A i \in 1..m : i \in 1..(m + n) /\ i <= m
  BY <1>1
<1>4. \A i \in 1..n : i + m \in 1..(m + n) /\ ~ (i + m <= m) /\ (i + m) - m = i
  BY <1>1
<1>5. \A i \in 1..(m + n) : i \in 1..m \/ (i - m \in 1..n /\ i > m /\ ~ (i <= m))
  BY <1>1
<1>6. \A i \in 1..m : s[i] = q[i]
  BY <1>2, <1>3
<1>7. \A i \in 1..n : s[i + m] = r[i]
  BY <1>2, <1>4
<1>8. \A i \in 1..(m + n) : i \in 1..m \/ (i - m \in 1..n /\ i > m /\ s[i] = r[i - m])
  BY <1>2, <1>5
<1> QED
  BY <1>1, <1>3, <1>4, <1>6, <1>7, <1>8 DEF s

(* What is put behind says nothing, or the last word.                       *)
LEMMA SaidBefore ==
    ASSUME NEW S, NEW q \in Seq(S), NEW r \in Seq(S), NEW K, NEW v, NEW now, Said(q, K, v, now), NoneIn(r, K)
    PROVE  Said(q \o r, K, v, now)
<1> DEFINE m == Len(q)
           n == Len(r)
           s == q \o r
<1>1. /\ m \in Nat /\ n \in Nat /\ Len(s) = m + n
      /\ \A i \in 1..m : i \in 1..(m + n) /\ s[i] = q[i]
      /\ \A i \in 1..n : i + m \in 1..(m + n) /\ s[i + m] = r[i]
      /\ \A i \in 1..(m + n) : i \in 1..m \/ (i - m \in 1..n /\ i > m /\ s[i] = r[i - m])
  BY JoinedElements
<1>2. NoneIn(r, K) /\ (NoneIn(r, K) <=> \A i \in 1..n : r[i] \notin K)
  BY DEF NoneIn
<1>3. NoneIn(q, K) <=> \A i \in 1..m : q[i] \notin K
  BY DEF NoneIn
<1>4. LastIn(q, K, v) <=> \E i \in 1..m : /\ q[i] \in K /\ q[i].what = v
                                          /\ \A j \in 1..m : j > i => q[j] \notin K
  BY DEF LastIn
<1>5. NoneIn(s, K) <=> \A i \in 1..Len(s) : s[i] \notin K
  BY DEF NoneIn
<1>6. LastIn(s, K, v) <=> \E i \in 1..Len(s) : /\ s[i] \in K /\ s[i].what = v
                                               /\ \A j \in 1..Len(s) : j > i => s[j] \notin K
  BY DEF LastIn
<1> HIDE DEF m, n, s
<1>7. CASE NoneIn(q, K)
  <2>1. NoneIn(s, K)
    BY <1>1, <1>2, <1>3, <1>5, <1>7
  <2> QED
    BY <1>7, <2>1 DEF Said, s
<1>8. CASE ~ NoneIn(q, K)
  <2>1. PICK i \in 1..m : /\ q[i] \in K /\ q[i].what = v
                          /\ \A j \in 1..m : j > i => q[j] \notin K
    BY <1>4, <1>8 DEF Said
  <2>2. s[i] \in K /\ s[i].what = v /\ i \in 1..(m + n)
    BY <1>1, <2>1
  <2>3. ASSUME NEW j \in 1..(m + n), j > i PROVE s[j] \notin K
    BY <1>1, <1>2, <2>1, <2>3
  <2>4. LastIn(s, K, v) /\ ~ NoneIn(s, K)
    BY <1>1, <1>5, <1>6, <2>2, <2>3
  <2> QED
    BY <2>4 DEF Said, s
<1> QED
  BY <1>7, <1>8

(* What is put last says the last word of its own thing, and none of        *)
(* another.                                                                 *)
LEMMA SaidLastOf ==
    ASSUME NEW S, NEW q \in Seq(S), NEW e \in S, NEW K, NEW v, NEW now
    PROVE  /\ e \notin K /\ Said(q, K, v, now) => Said(Append(q, e), K, v, now)
           /\ e \in K => Said(Append(q, e), K, e.what, now) /\ ~ NoneIn(Append(q, e), K)
           /\ e \notin K /\ NoneIn(q, K) => NoneIn(Append(q, e), K)
<1> DEFINE s == Append(q, e)
           n == Len(q)
<1>1. /\ n \in Nat /\ Len(s) = n + 1 /\ s[n + 1] = e /\ \A i \in 1..n : s[i] = q[i] /\ i \in 1..(n + 1)
      /\ n + 1 \in 1..(n + 1)
      /\ \A i \in 1..(n + 1) : i = n + 1 \/ i \in 1..n
      /\ \A i \in 1..(n + 1) : ~ (i > n + 1)
  OBVIOUS
<1>2. NoneIn(q, K) <=> \A i \in 1..n : q[i] \notin K
  BY DEF NoneIn
<1>3. NoneIn(s, K) <=> \A i \in 1..(n + 1) : s[i] \notin K
  BY <1>1 DEF NoneIn
<1>4. LastIn(q, K, v) <=> \E i \in 1..n : /\ q[i] \in K /\ q[i].what = v
                                          /\ \A j \in 1..n : j > i => q[j] \notin K
  BY DEF LastIn
<1>5. \A x : LastIn(s, K, x) <=> \E i \in 1..(n + 1) : /\ s[i] \in K /\ s[i].what = x
                                               /\ \A j \in 1..(n + 1) : j > i => s[j] \notin K
  BY <1>1 DEF LastIn
<1> HIDE DEF s, n
<1>6. ASSUME e \in K PROVE Said(s, K, e.what, now) /\ ~ NoneIn(s, K)
  <2>1. LastIn(s, K, e.what) /\ ~ NoneIn(s, K)
    BY <1>1, <1>3, <1>5, <1>6, Zenon
  <2> QED
    BY <2>1 DEF Said
<1>7. ASSUME e \notin K, NoneIn(q, K) PROVE NoneIn(s, K)
  BY <1>1, <1>2, <1>3, <1>7
<1>8. ASSUME e \notin K, Said(q, K, v, now) PROVE Said(s, K, v, now)
  <2>1. CASE NoneIn(q, K)
    BY <1>7, <1>8, <2>1 DEF Said
  <2>2. CASE ~ NoneIn(q, K)
    <3>1. PICK i \in 1..n : /\ q[i] \in K /\ q[i].what = v
                            /\ \A j \in 1..n : j > i => q[j] \notin K
      BY <1>4, <1>8, <2>2 DEF Said
    <3>2. LastIn(s, K, v) /\ ~ NoneIn(s, K)
      BY <1>1, <1>3, <1>5, <1>8, <3>1, Zenon
    <3> QED
      BY <3>2 DEF Said
  <2> QED
    BY <2>1, <2>2
<1> QED
  BY <1>6, <1>7, <1>8 DEF s

(* A queue of one.                                                          *)
LEMMA OneMessage ==
    ASSUME NEW S, NEW e \in S
    PROVE  <<e>> \in Seq(S) /\ Len(<<e>>) = 1 /\ <<e>>[1] = e
OBVIOUS

(* To append is to put a queue of one behind.                               *)
LEMMA AppendedIs ==
    ASSUME NEW S, NEW q \in Seq(S), NEW e \in S
    PROVE  Append(q, e) = q \o <<e>>
<1> DEFINE s == Append(q, e)
           n == Len(q)
<1>1. /\ n \in Nat /\ s \in Seq(S) /\ Len(s) = n + 1 /\ s[n + 1] = e /\ \A i \in 1..n : s[i] = q[i]
  OBVIOUS
<1>2. <<e>> \in Seq(S) /\ Len(<<e>>) = 1 /\ <<e>>[1] = e
  BY OneMessage
<1> DEFINE r == <<e>>
<1> HIDE DEF s, n, r
<1>3. q \o r \in Seq(S) /\ Len(q \o r) = n + 1
  BY <1>2, JoinedQueues DEF n, r
<1>4. /\ \A i \in 1..n : (q \o r)[i] = q[i]
      /\ \A i \in 1..1 : (q \o r)[i + n] = r[i]
  BY <1>2, JoinedElements DEF n, r
<1>5. (q \o r)[n + 1] = e
  <2>1. (q \o r)[1 + n] = r[1] /\ 1 + n = n + 1
    <3>1. 1 \in 1..1 /\ 1 + n = n + 1
      BY <1>1
    <3> QED
      BY <1>4, <3>1, Zenon
  <2> QED
    BY <1>2, <2>1 DEF r
<1>6. \A i \in 1..(n + 1) : i \in 1..n \/ i = n + 1
  BY <1>1
<1>7. \A i \in 1..(n + 1) : s[i] = (q \o r)[i]
  BY <1>1, <1>4, <1>5, <1>6
<1>8. s = q \o r
  BY <1>1, <1>3, <1>7, SeqEqual
<1> QED
  BY <1>8 DEF s, r

-----------------------------------------------------------------------------
(* Levels.                                                                  *)

(* The head of a queue is no level, or it is taken.                         *)
LEMMA PairedRest ==
    ASSUME NEW q \in Seq(Queued), q # <<>>, NEW lv, LevelsPaired(q, lv)
    PROVE  /\ q[1] \notin Volumes => LevelsPaired(Tail(q), lv)
           /\ q[1] \in Volumes /\ q[1].of = "facade"
                 => LevelsPaired(Tail(q), q[1].what) /\ ~ NoneIn(Tail(q), Volumes)
           /\ q[1] \in Volumes /\ q[1].of # "facade"
                 => LevelsPaired(Tail(q), lv) /\ lv = q[1].what /\ q[1].of = "RAOP"
<1> DEFINE t == Tail(q)
           n == Len(q)
<1>1. /\ n \in Nat \ {0} /\ Len(t) = n - 1 /\ 1 \in 1..n
      /\ \A i \in 1..(n - 1) : i + 1 \in 1..n /\ t[i] = q[i + 1]
      /\ \A i \in 1..n : q[i] \in Queued
  BY HeadOfQueue
<1>2. /\ \A i \in 1..n : q[i] \in Volumes /\ q[i].of = "facade" =>
                             i < n /\ q[i + 1] = [q[i] EXCEPT !.of = "RAOP"]
      /\ \A i \in 1..n : q[i] \in Volumes /\ q[i].of # "facade" =>
                             /\ q[i].of = "RAOP"
                             /\ IF i = 1 THEN lv = q[1].what ELSE q[i - 1] = [q[i] EXCEPT !.of = "facade"]
  BY DEF LevelsPaired
<1> HIDE DEF t, n
<1>3. \A i \in 1..(n - 1) : /\ i + 1 \in 1..n /\ i + 1 # 1 /\ (i + 1) - 1 = i
                            /\ i + 1 < n => i < n - 1 /\ i + 1 \in 1..(n - 1)
                            /\ i # 1 => i - 1 \in 1..(n - 1) /\ (i - 1) + 1 = i
  BY <1>1
<1>4. \A i \in 1..(n - 1) : t[i] \in Volumes /\ t[i].of = "facade" =>
                               i < n - 1 /\ t[i + 1] = [t[i] EXCEPT !.of = "RAOP"]
  <2> SUFFICES ASSUME NEW i \in 1..(n - 1), t[i] \in Volumes, t[i].of = "facade"
               PROVE  i < n - 1 /\ t[i + 1] = [t[i] EXCEPT !.of = "RAOP"]
    OBVIOUS
  <2>1. i + 1 \in 1..n /\ q[i + 1] = t[i]
    BY <1>1
  <2>2. i + 1 < n /\ q[(i + 1) + 1] = [t[i] EXCEPT !.of = "RAOP"]
    BY <1>2, <2>1
  <2>3. i < n - 1 /\ i + 1 \in 1..(n - 1)
    BY <1>3, <2>2
  <2>4. t[i + 1] = q[(i + 1) + 1]
    BY <1>1, <2>3
  <2> QED
    BY <2>2, <2>3, <2>4
<1>5. ASSUME NEW i \in 1..(n - 1), t[i] \in Volumes, t[i].of # "facade"
      PROVE  t[i].of = "RAOP" /\ q[i] = [t[i] EXCEPT !.of = "facade"] /\ (i # 1 => t[i - 1] = q[i])
  <2>1. i + 1 \in 1..n /\ q[i + 1] = t[i] /\ i + 1 # 1 /\ (i + 1) - 1 = i
    BY <1>1, <1>3
  <2>2. t[i].of = "RAOP" /\ q[(i + 1) - 1] = [t[i] EXCEPT !.of = "facade"]
    BY <1>2, <1>5, <2>1
  <2>3. i # 1 => t[i - 1] = q[i]
    BY <1>1, <1>3
  <2> QED
    BY <2>1, <2>2, <2>3
<1>6. ASSUME NEW x, \A i \in 1..(n - 1) : t[i] \in Volumes /\ t[i].of # "facade" /\ i = 1 => x = t[1].what
      PROVE  LevelsPaired(t, x)
  <2>1. \A i \in 1..(n - 1) : t[i] \in Volumes /\ t[i].of # "facade" =>
           t[i].of = "RAOP" /\ IF i = 1 THEN x = t[1].what ELSE t[i - 1] = [t[i] EXCEPT !.of = "facade"]
    BY <1>5, <1>6
  <2> DEFINE k == n - 1
  <2>2. Len(t) = k
    BY <1>1
  <2>3. /\ \A i \in 1..k : t[i] \in Volumes /\ t[i].of = "facade" =>
                           i < k /\ t[i + 1] = [t[i] EXCEPT !.of = "RAOP"]
        /\ \A i \in 1..k : t[i] \in Volumes /\ t[i].of # "facade" =>
                           /\ t[i].of = "RAOP"
                           /\ IF i = 1 THEN x = t[1].what ELSE t[i - 1] = [t[i] EXCEPT !.of = "facade"]
    BY <1>4, <2>1
  <2> HIDE DEF k
  <2> QED
    BY <2>2, <2>3 DEF LevelsPaired
<1>7. ASSUME NEW i \in 1..(n - 1), t[i] \in Volumes, t[i].of # "facade", i = 1
      PROVE  q[1] \in Volumes /\ q[1].of = "facade" /\ q[1].what = t[1].what
  BY <1>5, <1>7 DEF Volumes, Queued
<1>8. q[1] \notin Volumes => LevelsPaired(t, lv)
  BY <1>6, <1>7
<1>9. ASSUME q[1] \in Volumes, q[1].of = "facade"
      PROVE  LevelsPaired(t, q[1].what) /\ ~ NoneIn(t, Volumes)
  <2>1. 1 < n /\ q[1 + 1] = [q[1] EXCEPT !.of = "RAOP"]
    BY <1>1, <1>2, <1>9
  <2>2. 1 \in 1..(n - 1) /\ t[1] = q[1 + 1]
    BY <1>1, <2>1
  <2>3. t[1] \in Volumes
    BY <1>9, <2>1, <2>2 DEF Volumes, Queued, Updater
  <2>4. ~ NoneIn(t, Volumes)
    BY <1>1, <2>2, <2>3 DEF NoneIn
  <2> QED
    BY <1>6, <1>7, <2>4
<1>10. ASSUME q[1] \in Volumes, q[1].of # "facade"
       PROVE  LevelsPaired(t, lv) /\ lv = q[1].what /\ q[1].of = "RAOP"
  <2>1. lv = q[1].what /\ q[1].of = "RAOP"
    BY <1>1, <1>2, <1>10
  <2> QED
    BY <1>6, <1>7, <1>10, <2>1
<1> QED
  BY <1>8, <1>9, <1>10 DEF t

(* What is put behind has no level, or one for the facade and for RAOP.     *)
LEMMA PairedBefore ==
    ASSUME NEW q \in Seq(Queued), NEW r \in Seq(Queued), NEW lv, LevelsPaired(q, lv),
           LevelsPaired(r, r[1].what), r # <<>> => ~ (r[1] \in Volumes /\ r[1].of # "facade")
    PROVE  LevelsPaired(q \o r, lv)
<1> DEFINE m == Len(q)
           n == Len(r)
           s == q \o r
<1>1. /\ m \in Nat /\ n \in Nat /\ Len(s) = m + n
      /\ \A i \in 1..m : i \in 1..(m + n) /\ s[i] = q[i]
      /\ \A i \in 1..n : i + m \in 1..(m + n) /\ s[i + m] = r[i]
      /\ \A i \in 1..(m + n) : i \in 1..m \/ (i - m \in 1..n /\ i > m /\ s[i] = r[i - m])
  BY JoinedElements
<1>2. /\ \A i \in 1..m : q[i] \in Volumes /\ q[i].of = "facade" =>
                             i < m /\ q[i + 1] = [q[i] EXCEPT !.of = "RAOP"]
      /\ \A i \in 1..m : q[i] \in Volumes /\ q[i].of # "facade" =>
                             /\ q[i].of = "RAOP"
                             /\ IF i = 1 THEN lv = q[1].what ELSE q[i - 1] = [q[i] EXCEPT !.of = "facade"]
  BY DEF LevelsPaired
<1>3. /\ \A i \in 1..n : r[i] \in Volumes /\ r[i].of = "facade" =>
                             i < n /\ r[i + 1] = [r[i] EXCEPT !.of = "RAOP"]
      /\ \A i \in 1..n : r[i] \in Volumes /\ r[i].of # "facade" =>
                             /\ r[i].of = "RAOP"
                             /\ i = 1 \/ r[i - 1] = [r[i] EXCEPT !.of = "facade"]
  BY DEF LevelsPaired
<1>4. r # <<>> => ~ (r[1] \in Volumes /\ r[1].of # "facade")
  OBVIOUS
<1>5. n = 0 \/ r # <<>>
  BY DEF n
<1> HIDE DEF m, n, s
<1>6. \A i \in 1..m : i < m => i < m + n /\ i + 1 \in 1..m
  BY <1>1
<1>7. \A i \in 1..m : i # 1 => i - 1 \in 1..m
  BY <1>1
<1>8. \A i \in 1..(m + n) : i - m \in 1..n =>
         /\ (i - m) + 1 \in 1..n => (i - m) + 1 + m = i + 1
         /\ i - m < n => i < m + n /\ (i - m) + 1 \in 1..n
         /\ i - m # 1 => (i - m) - 1 \in 1..n /\ (i - m) - 1 + m = i - 1
         /\ i > m => i # 1 \/ i - m = 1
  BY <1>1
<1>9. ASSUME NEW i \in 1..(m + n), s[i] \in Volumes, s[i].of = "facade"
      PROVE  i < m + n /\ s[i + 1] = [s[i] EXCEPT !.of = "RAOP"]
  <2>1. CASE i \in 1..m
    <3>1. i < m /\ q[i + 1] = [s[i] EXCEPT !.of = "RAOP"]
      BY <1>1, <1>2, <1>9, <2>1
    <3> QED
      BY <1>1, <1>6, <2>1, <3>1
  <2>2. CASE i - m \in 1..n /\ i > m /\ s[i] = r[i - m]
    <3>1. i - m < n /\ r[(i - m) + 1] = [s[i] EXCEPT !.of = "RAOP"]
      BY <1>3, <1>9, <2>2
    <3>2. i < m + n /\ (i - m) + 1 \in 1..n /\ (i - m) + 1 + m = i + 1
      BY <1>8, <2>2, <3>1
    <3> QED
      BY <1>1, <3>1, <3>2
  <2> QED
    BY <1>1, <2>1, <2>2
<1>10. ASSUME NEW i \in 1..(m + n), s[i] \in Volumes, s[i].of # "facade"
       PROVE  /\ s[i].of = "RAOP"
              /\ IF i = 1 THEN lv = s[1].what ELSE s[i - 1] = [s[i] EXCEPT !.of = "facade"]
  <2>1. CASE i \in 1..m
    <3>1. /\ s[i].of = "RAOP"
          /\ IF i = 1 THEN lv = s[1].what ELSE q[i - 1] = [s[i] EXCEPT !.of = "facade"]
      BY <1>1, <1>2, <1>10, <2>1
    <3> QED
      BY <1>1, <1>7, <2>1, <3>1
  <2>2. CASE i - m \in 1..n /\ i > m /\ s[i] = r[i - m]
    <3>1. i - m # 1
      BY <1>4, <1>5, <1>10, <2>2, <1>1
    <3>2. s[i].of = "RAOP" /\ r[(i - m) - 1] = [s[i] EXCEPT !.of = "facade"]
      BY <1>3, <1>10, <2>2, <3>1
    <3>3. (i - m) - 1 \in 1..n /\ (i - m) - 1 + m = i - 1 /\ i # 1
      BY <1>8, <2>2, <3>1
    <3> QED
      BY <1>1, <3>2, <3>3
  <2> QED
    BY <1>1, <2>1, <2>2
<1>11. LevelsPaired(s, lv)
  BY <1>1, <1>9, <1>10 DEF LevelsPaired
<1> QED
  BY <1>11 DEF s

(* Nothing is said by two queues if neither says anything.                  *)
LEMMA NoneInBoth ==
    ASSUME NEW S, NEW q \in Seq(S), NEW r \in Seq(S), NEW K
    PROVE  NoneIn(q \o r, K) <=> NoneIn(q, K) /\ NoneIn(r, K)
<1> DEFINE m == Len(q)
           n == Len(r)
           s == q \o r
<1>1. /\ m \in Nat /\ n \in Nat /\ Len(s) = m + n
      /\ \A i \in 1..m : i \in 1..(m + n) /\ s[i] = q[i]
      /\ \A i \in 1..n : i + m \in 1..(m + n) /\ s[i + m] = r[i]
      /\ \A i \in 1..(m + n) : i \in 1..m \/ (i - m \in 1..n /\ i > m /\ s[i] = r[i - m])
  BY JoinedElements
<1>2. /\ NoneIn(q, K) <=> \A i \in 1..m : q[i] \notin K
      /\ NoneIn(r, K) <=> \A i \in 1..n : r[i] \notin K
      /\ NoneIn(s, K) <=> \A i \in 1..Len(s) : s[i] \notin K
  BY DEF NoneIn
<1> HIDE DEF m, n, s
<1>3. NoneIn(s, K) <=> NoneIn(q, K) /\ NoneIn(r, K)
  BY <1>1, <1>2
<1> QED
  BY <1>3 DEF s

-----------------------------------------------------------------------------
(* The messages.                                                            *)
LEMMA MessagesAre ==
    ASSUME NEW u \in Updater, NEW v \in Int, NEW w \in Updater
    PROVE  /\ Updated(u) \in Queued /\ Updated(u) \notin Volumes /\ Updated(u) \notin Shows(w)
           /\ Updated(u).run = "updated" /\ Updated(u).of = u
           /\ Show(u, v) \in Queued /\ Show(u, v) \notin Volumes
           /\ Show(u, v).what = v
           /\ Show(u, v) \in Shows(w) <=> u = w
BY DEF Updated, Show, Queued, Volumes, Shows, Updater, Unknown

(* A queue of one that is no level, and one that tells a level.             *)
LEMMA OneUpdated ==
    ASSUME NEW u \in Updater
    PROVE  /\ <<Updated(u)>> \in Seq(Queued)
           /\ NoneIn(<<Updated(u)>>, Volumes)
           /\ \A w \in Updater : NoneIn(<<Updated(u)>>, Shows(w))
           /\ \E i \in 1..Len(<<Updated(u)>>) : <<Updated(u)>>[i].run = "updated" /\ <<Updated(u)>>[i].of = u
<1>1. 0 \in Int
  OBVIOUS
<1>2. /\ Updated(u) \in Queued /\ Updated(u) \notin Volumes
      /\ \A w \in Updater : Updated(u) \notin Shows(w)
      /\ Updated(u).run = "updated" /\ Updated(u).of = u
  BY <1>1, MessagesAre
<1> DEFINE r == <<Updated(u)>>
<1>3. r \in Seq(Queued) /\ Len(r) = 1 /\ r[1] = Updated(u)
  BY <1>2, OneMessage
<1>4. 1 \in 1..1 /\ \A i \in 1..1 : i = 1
  OBVIOUS
<1> HIDE DEF r
<1>5. NoneIn(r, Volumes) /\ \A w \in Updater : NoneIn(r, Shows(w))
  BY <1>2, <1>3, <1>4 DEF NoneIn
<1>6. \E i \in 1..Len(r) : r[i].run = "updated" /\ r[i].of = u
  BY <1>2, <1>3, <1>4
<1> QED
  BY <1>3, <1>5, <1>6 DEF r

(* An empty queue says nothing.                                             *)
LEMMA NoneInNothing ==
    ASSUME NEW K, NEW S PROVE <<>> \in Seq(S) /\ NoneIn(<<>>, K)
BY DEF NoneIn

(* What tells a level is one pair, and shows no play status.                *)
LEMMA TellsLevel ==
    ASSUME NEW from, NEW v \in Int
    PROVE  LET r == Dispatched(from, v)
           IN  /\ r \in Seq(Queued)
               /\ LevelsPaired(r, r[1].what)
               /\ ~ NoneIn(r, Volumes)
               /\ ~ (r[1] \in Volumes /\ r[1].of # "facade")
               /\ \A w \in Updater : NoneIn(r, Shows(w))
<1> DEFINE a == [run |-> "volume", of |-> "facade", what |-> v]
           b == [run |-> "volume", of |-> "RAOP", what |-> v]
           r == Dispatched(from, v)
<1>1. /\ a \in Queued /\ b \in Queued /\ a \in Volumes /\ b \in Volumes
      /\ a.of = "facade" /\ b.of = "RAOP" /\ b = [a EXCEPT !.of = "RAOP"] /\ a = [b EXCEPT !.of = "facade"]
      /\ \A w \in Updater : a \notin Shows(w) /\ b \notin Shows(w)
  BY DEF Queued, Volumes, Shows, Updater
<1>2. r = <<a, b>>
  BY DEF Dispatched
<1> HIDE DEF a, b, r
<1>3. r \in Seq(Queued) /\ Len(r) = 2 /\ r[1] = a /\ r[2] = b
  BY <1>1, <1>2, TwoMessages, Zenon
<1>4. /\ 1 \in 1..2 /\ 1 < 2 /\ 1 + 1 = 2 /\ 2 - 1 = 1 /\ 2 # 1
      /\ \A i \in 1..2 : i = 1 \/ i = 2
  OBVIOUS
<1>5. LevelsPaired(r, r[1].what)
  <2>1. ASSUME NEW i \in 1..2, r[i] \in Volumes, r[i].of = "facade"
        PROVE  i < 2 /\ r[i + 1] = [r[i] EXCEPT !.of = "RAOP"]
    BY <1>1, <1>3, <1>4, <2>1
  <2>2. ASSUME NEW i \in 1..2, r[i] \in Volumes, r[i].of # "facade"
        PROVE  /\ r[i].of = "RAOP"
               /\ IF i = 1 THEN r[1].what = r[1].what ELSE r[i - 1] = [r[i] EXCEPT !.of = "facade"]
    BY <1>1, <1>3, <1>4, <2>2
  <2> QED
    BY <1>3, <2>1, <2>2 DEF LevelsPaired
<1>6. ~ NoneIn(r, Volumes) /\ \A w \in Updater : NoneIn(r, Shows(w))
  BY <1>1, <1>3, <1>4 DEF NoneIn
<1> QED
  BY <1>1, <1>3, <1>5, <1>6 DEF r

(* A queue without levels has none without its pair.                        *)
LEMMA PairedNone ==
    ASSUME NEW r, NEW lv, NoneIn(r, Volumes)
    PROVE  LevelsPaired(r, lv)
BY DEF NoneIn, LevelsPaired

(* An update of u is on its way.                                            *)
Updates(q, u) == \E i \in 1..Len(q) : q[i].run = "updated" /\ q[i].of = u

(* An update stays on its way until it is run.                              *)
LEMMA UpdatesStay ==
    ASSUME NEW S, NEW q \in Seq(S), NEW r \in Seq(S), NEW u
    PROVE  /\ Updates(q, u) => Updates(q \o r, u)
           /\ Updates(r, u) => Updates(q \o r, u)
           /\ q # <<>> /\ ~ (q[1].run = "updated" /\ q[1].of = u) /\ Updates(q, u) => Updates(Tail(q), u)
<1> DEFINE m == Len(q)
           n == Len(r)
           s == q \o r
<1>1. /\ m \in Nat /\ n \in Nat /\ Len(s) = m + n
      /\ \A i \in 1..m : i \in 1..(m + n) /\ s[i] = q[i]
      /\ \A i \in 1..n : i + m \in 1..(m + n) /\ s[i + m] = r[i]
  BY JoinedElements
<1>2. /\ Updates(q, u) <=> \E i \in 1..m : q[i].run = "updated" /\ q[i].of = u
      /\ Updates(r, u) <=> \E i \in 1..n : r[i].run = "updated" /\ r[i].of = u
      /\ Updates(s, u) <=> \E i \in 1..Len(s) : s[i].run = "updated" /\ s[i].of = u
  BY DEF Updates
<1>3. ASSUME q # <<>>, ~ (q[1].run = "updated" /\ q[1].of = u), Updates(q, u) PROVE Updates(Tail(q), u)
  <2>1. PICK i \in 1..Len(q) : q[i].run = "updated" /\ q[i].of = u
    BY <1>3 DEF Updates
  <2>2. i # 1
    BY <1>3, <2>1
  <2>3. i - 1 \in 1..(Len(q) - 1) /\ Tail(q)[i - 1] = q[i] /\ Len(Tail(q)) = Len(q) - 1
    BY <1>3, <2>2, HeadOfQueue
  <2> QED
    BY <2>1, <2>3 DEF Updates
<1> HIDE DEF m, n, s
<1>4. (Updates(q, u) => Updates(s, u)) /\ (Updates(r, u) => Updates(s, u))
  BY <1>1, <1>2
<1> QED
  BY <1>3, <1>4 DEF s

-----------------------------------------------------------------------------
(* The updater that counts is the main one, unless RAOP takes over from MRP. *)
LEMMA Ranked ==
    ASSUME InterfaceType
    PROVE  LET order == IF holder = Nobody THEN Priorities ELSE <<holder>> \o Priorities
           IN  /\ holder = Nobody =>
                     /\ DOMAIN order = 1..3 /\ order[1] = "MRP" /\ order[2] = "AirPlay" /\ order[3] = "RAOP"
               /\ holder # Nobody =>
                     /\ DOMAIN order = 1..4 /\ order[1] = holder
                     /\ order[2] = "MRP" /\ order[3] = "AirPlay" /\ order[4] = "RAOP"
<1> DEFINE S == {"nobody", "MRP", "AirPlay", "RAOP"}
<1>1. /\ Priorities \in Seq(S) /\ Len(Priorities) = 3 /\ DOMAIN Priorities = 1..3
      /\ Priorities[1] = "MRP" /\ Priorities[2] = "AirPlay" /\ Priorities[3] = "RAOP"
  BY DEF Priorities
<1>2. holder \in S
  BY DEF InterfaceType, Nobody
<1>3. <<holder>> \in Seq(S) /\ Len(<<holder>>) = 1 /\ <<holder>>[1] = holder
  BY <1>2, OneMessage
<1> DEFINE q == <<holder>>
           s == q \o Priorities
<1> HIDE DEF q, S
<1>4. /\ Len(s) = 1 + 3 /\ s \in Seq(S)
      /\ \A i \in 1..1 : s[i] = q[i]
      /\ \A i \in 1..3 : s[i + 1] = Priorities[i]
  <2>1. q \in Seq(S) /\ Len(q) = 1
    BY <1>3 DEF q
  <2>2. s \in Seq(S) /\ Len(s) = Len(q) + Len(Priorities)
    BY <1>1, <2>1, JoinedQueues, Zenon
  <2>3. /\ \A i \in 1..Len(q) : s[i] = q[i]
        /\ \A i \in 1..Len(Priorities) : s[i + Len(q)] = Priorities[i]
    <3> DEFINE p == Priorities
    <3>1. p \in Seq(S) /\ q \in Seq(S)
      BY <1>1, <2>1
    <3> HIDE DEF p
    <3> DEFINE m == Len(q)
               n == Len(p)
    <3>2. /\ m \in Nat /\ n \in Nat /\ Len(q \o p) = m + n
          /\ \A i \in 1..m : i \in 1..(m + n) /\ (q \o p)[i] = q[i]
          /\ \A i \in 1..n : i + m \in 1..(m + n) /\ (q \o p)[i + m] = p[i]
          /\ \A i \in 1..(m + n) : i \in 1..m \/ (i - m \in 1..n /\ i > m /\ (q \o p)[i] = p[i - m])
      BY <3>1, JoinedElements
    <3> QED
      BY <3>2 DEF p
  <2> QED
    BY <1>1, <2>1, <2>2, <2>3, Zenon
<1>5. 1 \in 1..1 /\ 1 \in 1..3 /\ 2 \in 1..3 /\ 3 \in 1..3 /\ 1 + 1 = 2 /\ 2 + 1 = 3 /\ 3 + 1 = 4 /\ 1 + 3 = 4
  OBVIOUS
<1> HIDE DEF s
<1>6. /\ DOMAIN s = 1..4 /\ s[1] = holder /\ s[2] = "MRP" /\ s[3] = "AirPlay" /\ s[4] = "RAOP"
  <2>1. DOMAIN s = 1..Len(s)
    BY <1>4
  <2> QED
    BY <1>1, <1>3, <1>4, <1>5, <2>1 DEF q
<1> QED
  BY <1>1, <1>6 DEF s, q

(* Unless RAOP takes over from MRP in its own name, the updater that counts *)
(* is the main one, and is what the user is shown.                          *)
LEMMA MainCounts ==
    ASSUME InterfaceType, hosted \/ ~ beside, NEW target \in {"push", "playing"}
    PROVE  Relayed(target) = Counts
<1> DEFINE order == IF holder = Nobody THEN Priorities ELSE <<holder>> \o Priorities
           fits == {i \in DOMAIN order : order[i] \in Registered /\ target \in Overrides[order[i]]}
           first == CHOOSE i \in fits : \A j \in fits : i <= j
<1>1. Relayed(target) = order[first]
  BY DEF Relayed
<1>2. /\ holder = Nobody =>
            /\ DOMAIN order = 1..3 /\ order[1] = "MRP" /\ order[2] = "AirPlay" /\ order[3] = "RAOP"
      /\ holder # Nobody =>
            /\ DOMAIN order = 1..4 /\ order[1] = holder
            /\ order[2] = "MRP" /\ order[3] = "AirPlay" /\ order[4] = "RAOP"
  BY Ranked
<1>3. \A i \in fits : i \in DOMAIN order /\ order[i] \in Registered /\ target \in Overrides[order[i]]
  OBVIOUS
<1>4. /\ Overrides["AirPlay"] = {} /\ target \in Overrides["MRP"] /\ target \in Overrides["RAOP"]
      /\ "RAOP" \in Registered /\ ("MRP" \in Registered <=> beside)
      /\ Registered \subseteq {"MRP", "AirPlay", "RAOP"}
  BY DEF Overrides, Registered
<1>5. holder \in {Nobody, "AirPlay", "RAOP"} /\ (holder = "RAOP" => ~ hosted)
  BY DEF InterfaceType, Nobody
<1>6. \A i \in DOMAIN order : i \in fits <=> order[i] = "RAOP" \/ (order[i] = "MRP" /\ beside)
  BY <1>2, <1>4, <1>5
<1> HIDE DEF order, fits
<1>7. /\ \A i \in 1..3 : i = 1 \/ i = 2 \/ i = 3
      /\ \A i \in 1..4 : i = 1 \/ i = 2 \/ i = 3 \/ i = 4
      /\ {1, 2, 3} \subseteq 1..3 /\ {1, 2, 3, 4} \subseteq 1..4
  OBVIOUS
<1>8. \E i \in fits : \A j \in fits : i <= j
  <2>1. CASE holder = Nobody /\ beside
    <3>1. 1 \in fits /\ \A j \in fits : 1 <= j
      BY <1>2, <1>3, <1>6, <1>7, <2>1
    <3> QED
      BY <3>1
  <2>2. CASE holder = Nobody /\ ~ beside
    <3>1. 3 \in fits /\ \A j \in fits : 3 <= j
      BY <1>2, <1>3, <1>6, <1>7, <2>2
    <3> QED
      BY <3>1
  <2>3. CASE holder = "AirPlay" /\ beside
    <3>1. 2 \in fits /\ \A j \in fits : 2 <= j
      BY <1>2, <1>3, <1>6, <1>7, <2>3 DEF Nobody
    <3> QED
      BY <3>1
  <2>4. CASE holder = "AirPlay" /\ ~ beside
    <3>1. 4 \in fits /\ \A j \in fits : 4 <= j
      BY <1>2, <1>3, <1>6, <1>7, <2>4 DEF Nobody
    <3> QED
      BY <3>1
  <2>5. CASE holder = "RAOP"
    <3>1. 1 \in fits /\ \A j \in fits : 1 <= j
      BY <1>2, <1>3, <1>6, <1>7, <2>5 DEF Nobody
    <3> QED
      BY <3>1
  <2> QED
    BY <1>5, <2>1, <2>2, <2>3, <2>4, <2>5
<1>9. first \in fits /\ \A j \in fits : first <= j
  BY <1>8
<1> HIDE DEF first
<1>10. order[first] = Counts
  <2>1. CASE ~ beside
    BY <1>3, <1>6, <1>9, <2>1 DEF Counts
  <2>2. CASE beside
    <3>1. hosted /\ holder # "RAOP"
      BY <1>5, <2>2
    <3>2. CASE holder = Nobody
      <4>1. 1 \in fits
        BY <1>2, <1>6, <1>7, <2>2, <3>2
      <4>2. first <= 1 /\ first \in 1..3
        BY <1>2, <1>3, <1>9, <3>2, <4>1
      <4> QED
        BY <1>2, <2>2, <3>2, <4>2 DEF Counts
    <3>3. CASE holder = "AirPlay"
      <4>1. 2 \in fits /\ 1 \notin fits
        BY <1>2, <1>3, <1>6, <1>7, <2>2, <3>3 DEF Nobody
      <4>2. first <= 2 /\ first \in 1..4 /\ first # 1
        BY <1>2, <1>3, <1>9, <3>3, <4>1 DEF Nobody
      <4> QED
        BY <1>2, <2>2, <3>3, <4>2 DEF Counts, Nobody
    <3> QED
      BY <1>5, <3>1, <3>2, <3>3
  <2> QED
    BY <2>1, <2>2
<1> QED
  BY <1>1, <1>10

-----------------------------------------------------------------------------
(* The steps of the interfaces.                                             *)
LEMMA CountsStays == UNCHANGED beside => Counts' = Counts
BY DEF Counts

(* Messages that show nothing and tell no level are put behind the others.   *)
LEMMA QuietKeeps ==
    ASSUME InterfaceInv, NEW r \in Seq(Queued), ready' = ready \o r,
           NoneIn(r, Volumes), \A u \in Updater : NoneIn(r, Shows(u)),
           UNCHANGED <<beside, hosted, previous, shown, lost, guess, level, unsaid>>
    PROVE  ready' \in Seq(Queued) /\ PostsAreShown' /\ LevelsAgree'
<1>1. ready \in Seq(Queued)
  BY DEF InterfaceInv, InterfaceType
<1>2. Counts \in Updater /\ Counts' = Counts
  BY CountsStays DEF Counts, Updater
<1>3. ready' \in Seq(Queued)
  BY <1>1, JoinedQueues
<1>4. ASSUME NEW v, NEW now, Said(ready, Shows(Counts), v, now) PROVE Said(ready', Shows(Counts), v, now)
  BY <1>1, <1>2, <1>4, SaidBefore
<1>5. PostsAreShown'
  BY <1>2, <1>4 DEF InterfaceInv, PostsAreShown
<1>6. LevelsPaired(r, r[1].what) /\ (r # <<>> => ~ (r[1] \in Volumes /\ r[1].of # "facade"))
  <2>1. r # <<>> => 1 \in 1..Len(r)
    BY HeadOfQueue
  <2> QED
    BY <2>1, PairedNone DEF NoneIn
<1>7. LevelsPaired(ready, level)
  BY DEF InterfaceInv, LevelsAgree
<1>8. LevelsPaired(ready', level)
  BY <1>1, <1>6, <1>7, PairedBefore
<1>9. NoneIn(ready', Volumes) => NoneIn(ready, Volumes)
  BY <1>1, NoneInBoth
<1>10. LevelsAgree'
  BY <1>8, <1>9 DEF InterfaceInv, LevelsAgree
<1> QED
  BY <1>3, <1>5, <1>10

(* A level is told to the facade and to RAOP.                               *)
LEMMA LevelKeeps ==
    ASSUME InterfaceInv, NEW from, NEW v \in Int, ready' = ready \o Dispatched(from, v),
           UNCHANGED <<beside, hosted, shows, previous, pushing, shown, lost, level>>
    PROVE  ready' \in Seq(Queued) /\ PostsAreShown' /\ LevelsAgree' /\ UpdatesAreMade'
<1> DEFINE r == Dispatched(from, v)
<1>1. /\ r \in Seq(Queued) /\ LevelsPaired(r, r[1].what) /\ ~ NoneIn(r, Volumes)
      /\ ~ (r[1] \in Volumes /\ r[1].of # "facade")
      /\ \A w \in Updater : NoneIn(r, Shows(w))
  BY TellsLevel
<1> HIDE DEF r
<1>2. ready \in Seq(Queued) /\ ready' = ready \o r
  BY DEF InterfaceInv, InterfaceType, r
<1>3. ready' \in Seq(Queued)
  BY <1>1, <1>2, JoinedQueues
<1>4. Counts \in Updater /\ Counts' = Counts
  BY CountsStays DEF Counts, Updater
<1>5. PostsAreShown'
  <2>1. ASSUME NEW x, NEW now, Said(ready, Shows(Counts), x, now) PROVE Said(ready', Shows(Counts), x, now)
    BY <1>1, <1>2, <1>4, <2>1, SaidBefore
  <2> QED
    BY <1>4, <2>1 DEF InterfaceInv, PostsAreShown
<1>6. LevelsPaired(ready', level)
  <2>1. LevelsPaired(ready, level)
    BY DEF InterfaceInv, LevelsAgree
  <2> QED
    BY <1>1, <1>2, <2>1, PairedBefore
<1>7. ~ NoneIn(ready', Volumes)
  BY <1>1, <1>2, NoneInBoth
<1>8. UpdatesAreMade'
  <2>1. \A u : Updates(ready, u) => Updates(ready', u)
    BY <1>1, <1>2, UpdatesStay
  <2> QED
    BY <2>1 DEF InterfaceInv, UpdatesAreMade, Updates, Updaters
<1> QED
  BY <1>3, <1>5, <1>6, <1>7, <1>8 DEF LevelsAgree

(* An updater posts what it shows, behind what else is on the way.          *)
LEMMA PostKeeps ==
    ASSUME InterfaceInv, NEW u \in Updater, NEW q \in Seq(Queued), Posts(u, q),
           shows' \in [Updater -> Int],
           (hosted \/ ~ beside) /\ Counts \notin lost
               => Said(q, Shows(Counts), previous[Counts], shown = previous[Counts]),
           LevelsPaired(q, level), NoneIn(q, Volumes) => NoneIn(ready, Volumes),
           UNCHANGED <<beside, hosted, shown, guess, level, unsaid, pushing>>
    PROVE  /\ ready' \in Seq(Queued) /\ PostsAreShown' /\ LevelsAgree'
           /\ previous' = [previous EXCEPT ![u] = shows'[u]] /\ lost' \subseteq Updater
           /\ \A w : Updates(q, w) => Updates(ready', w)
<1> DEFINE m == Show(u, shows'[u])
<1>1. shows'[u] \in Int
  OBVIOUS
<1>2. /\ m \in Queued /\ m \notin Volumes /\ m.what = shows'[u]
      /\ \A w \in Updater : m \in Shows(w) <=> u = w
  <2>1. ASSUME NEW w \in Updater PROVE m \in Shows(w) <=> u = w
    BY <1>1, MessagesAre, Zenon
  <2>2. m \in Queued /\ m \notin Volumes /\ m.what = shows'[u]
    <3>1. /\ Updated(u) \in Queued /\ Updated(u) \notin Volumes /\ Updated(u) \notin Shows(u)
          /\ Updated(u).run = "updated" /\ Updated(u).of = u
          /\ Show(u, shows'[u]) \in Queued /\ Show(u, shows'[u]) \notin Volumes
          /\ Show(u, shows'[u]).what = shows'[u]
          /\ Show(u, shows'[u]) \in Shows(u) <=> u = u
      BY <1>1, MessagesAre, Zenon
    <3> QED
      BY <3>1
  <2> QED
    BY <2>1, <2>2
<1> HIDE DEF m
<1>3. Counts \in Updater /\ Counts' = Counts
  BY CountsStays DEF Counts, Updater
<1>4. previous' = [previous EXCEPT ![u] = shows'[u]]
  BY DEF Posts
<1>5. previous'[u] = shows'[u] /\ \A w \in Updater : w # u => previous'[w] = previous[w]
  BY <1>4 DEF InterfaceInv, InterfaceType
<1>6. lost' \subseteq Updater
  BY DEF Posts, InterfaceInv, InterfaceType
<1>7. CASE shows'[u] # previous[u] /\ pushing
  <2>1. ready' = Append(q, m) /\ lost' = lost \ {u}
    BY <1>7 DEF Posts, m
  <2>2. Append(q, m) = q \o <<m>> /\ <<m>> \in Seq(Queued) /\ Len(<<m>>) = 1 /\ <<m>>[1] = m
    BY <1>2, AppendedIs, OneMessage
  <2>3. NoneIn(<<m>>, Volumes)
    BY <1>2, <2>2 DEF NoneIn
  <2>4. ready' \in Seq(Queued)
    BY <2>1, <2>2, JoinedQueues
  <2>5. LevelsPaired(ready', level) /\ (NoneIn(ready', Volumes) => NoneIn(q, Volumes))
    <3>1. LevelsPaired(<<m>>, <<m>>[1].what)
      BY <2>3, PairedNone
    <3>2. ~ (<<m>>[1] \in Volumes /\ <<m>>[1].of # "facade")
      BY <1>2, <2>2
    <3> DEFINE r == <<m>>
    <3>3. r \in Seq(Queued) /\ LevelsPaired(r, r[1].what) /\ ~ (r[1] \in Volumes /\ r[1].of # "facade")
      BY <2>2, <3>1, <3>2
    <3>4. ready' = q \o r
      BY <2>1, <2>2
    <3> HIDE DEF r
    <3> QED
      BY <3>3, <3>4, PairedBefore, NoneInBoth
  <2>6. PostsAreShown'
    <3>1. CASE u = Counts
      <4>1. m \in Shows(Counts)
        BY <1>2, <3>1
      <4>2. ASSUME NEW now PROVE Said(Append(q, m), Shows(Counts), m.what, now)
        BY <1>2, <4>1, SaidLastOf
      <4> QED
        BY <1>2, <1>3, <1>5, <2>1, <3>1, <4>2 DEF PostsAreShown
    <3>2. CASE u # Counts
      <4>1. m \notin Shows(Counts) /\ previous'[Counts] = previous[Counts]
        BY <1>2, <1>3, <1>5, <3>2
      <4>2. ASSUME NEW now, NEW x, Said(q, Shows(Counts), x, now)
            PROVE  Said(Append(q, m), Shows(Counts), x, now)
        BY <1>2, <4>1, <4>2, SaidLastOf
      <4> QED
        BY <1>3, <2>1, <3>2, <4>1, <4>2 DEF PostsAreShown
    <3> QED
      BY <3>1, <3>2
  <2>7. \A w : Updates(q, w) => Updates(ready', w)
    BY <2>1, <2>2, UpdatesStay
  <2> QED
    BY <1>4, <1>6, <2>4, <2>5, <2>6, <2>7 DEF InterfaceInv, LevelsAgree
<1>8. CASE ~ (shows'[u] # previous[u] /\ pushing)
  <2>1. ready' = q
    BY <1>8 DEF Posts
  <2>2. PostsAreShown'
    <3>1. CASE u = Counts /\ shows'[u] # previous[u]
      BY <1>3, <1>8, <3>1 DEF Posts, PostsAreShown
    <3>2. CASE ~ (u = Counts /\ shows'[u] # previous[u])
      <4>1. previous'[Counts] = previous[Counts]
        BY <1>3, <1>5, <3>2
      <4>2. Counts \notin lost' => Counts \notin lost
        BY <1>8, <3>2 DEF Posts
      <4> QED
        BY <1>3, <2>1, <4>1, <4>2 DEF PostsAreShown
    <3> QED
      BY <3>1, <3>2
  <2> QED
    BY <1>4, <1>6, <2>1, <2>2 DEF InterfaceInv, LevelsAgree
<1> QED
  BY <1>7, <1>8

(* What the event loop runs next.                                           *)
LEMMA RunsKeeps == ASSUME InterfaceInv, RunsNext PROVE InterfaceInv'
<1> DEFINE c == Head(ready)
           q == Tail(ready)
<1>1. ready \in Seq(Queued) /\ ready # <<>>
  BY DEF RunsNext, InterfaceInv, InterfaceType
<1>2. /\ c = ready[1] /\ c \in Queued /\ q \in Seq(Queued)
  BY <1>1, HeadOfQueue
<1>3. UNCHANGED <<beside, hosted, holder, phase, setting, moves>>
  BY DEF RunsNext
<1>4. Counts \in Updater /\ Counts' = Counts
  BY <1>3, CountsStays DEF Counts, Updater
<1>5. /\ c \notin Volumes => LevelsPaired(q, level)
      /\ c \in Volumes /\ c.of = "facade" => LevelsPaired(q, c.what) /\ ~ NoneIn(q, Volumes)
      /\ c \in Volumes /\ c.of # "facade" => LevelsPaired(q, level) /\ level = c.what /\ c.of = "RAOP"
  <2>1. LevelsPaired(ready, level)
    BY DEF InterfaceInv, LevelsAgree
  <2> QED
    BY <1>1, <1>2, <2>1, PairedRest
<1>6. c \notin Volumes /\ NoneIn(q, Volumes) => NoneIn(ready, Volumes)
  <2> SUFFICES ASSUME c \notin Volumes, NoneIn(q, Volumes), NEW i \in 1..Len(ready) PROVE ready[i] \notin Volumes
    BY DEF NoneIn
  <2>1. i # 1 => i - 1 \in 1..(Len(ready) - 1) /\ q[i - 1] = ready[i] /\ Len(q) = Len(ready) - 1
    BY <1>1, HeadOfQueue
  <2> QED
    BY <1>2, <2>1 DEF NoneIn
<1>7. ASSUME NEW x, NEW now, Said(ready, Shows(Counts), x, now)
      PROVE  /\ c \notin Shows(Counts) => Said(q, Shows(Counts), x, now)
             /\ c \in Shows(Counts) => Said(q, Shows(Counts), x, c.what = x)
  BY <1>1, <1>2, <1>7, SaidByRest
<1>8. \A u : ~ (c.run = "updated" /\ c.of = u) /\ Updates(ready, u) => Updates(q, u)
  BY <1>1, <1>2, UpdatesStay
<1>9. ASSUME RunsUpdated(c) PROVE InterfaceInv'
  <2>1. c.run = "updated" /\ shows' = shows /\ Posts(c.of, q) /\ UNCHANGED <<pushing, shown, guess, level, unsaid>>
    BY <1>9 DEF RunsUpdated, volumeVars
  <2>2. c \notin Volumes /\ c \notin Shows(Counts)
    BY <2>1 DEF Volumes, Shows
  <2>4. c.of \in Updater
    BY <1>2, <2>1 DEF Queued
  <2> DEFINE u == c.of
  <2> HIDE DEF c, q
  <2>11. shows' \in [Updater -> Int]
    BY <2>1 DEF InterfaceInv, InterfaceType
  <2>12. (hosted \/ ~ beside) /\ Counts \notin lost
           => Said(q, Shows(Counts), previous[Counts], shown = previous[Counts])
    BY <1>7, <2>2 DEF InterfaceInv, PostsAreShown
  <2>13. /\ ready' \in Seq(Queued) /\ PostsAreShown' /\ LevelsAgree'
        /\ previous' = [previous EXCEPT ![u] = shows'[u]] /\ lost' \subseteq Updater
        /\ \A w : Updates(q, w) => Updates(ready', w)
    BY <1>2, <1>3, <1>5, <1>6, <2>1, <2>2, <2>4, <2>11, <2>12, PostKeeps
  <2>14. InterfaceType'
    BY <1>3, <2>1, <2>4, <2>13 DEF InterfaceInv, InterfaceType
  <2>15. UpdatesAreMade'
    <3> SUFFICES ASSUME pushing, NEW w \in Updaters, previous'[w] # shows'[w] PROVE Updates(ready', w)
      BY <1>3, <2>1 DEF UpdatesAreMade, Updates, Updaters
    <3>1. w \in Updater
      BY DEF Updaters, Updater
    <3>2. w # u /\ previous'[w] = previous[w]
      BY <2>13, <2>4, <3>1 DEF InterfaceInv, InterfaceType
    <3>3. Updates(ready, w)
      BY <2>1, <3>2 DEF InterfaceInv, UpdatesAreMade, Updates
    <3> QED
      BY <1>8, <2>13, <3>2, <3>3
  <2> QED
    BY <2>13, <2>14, <2>15 DEF InterfaceInv
<1>10. ASSUME RunsShow(c) PROVE InterfaceInv'
  <2>1. /\ c.run = "show" /\ ready' = q
        /\ shown' = IF c.of = Main THEN c.what ELSE shown
        /\ UNCHANGED <<shows, previous, pushing, lost, guess, level, unsaid>>
    BY <1>10 DEF RunsShow, volumeVars
  <2>2. c \notin Volumes /\ (c \in Shows(Counts) <=> c.of = Counts) /\ c.what \in Int
    BY <1>2, <2>1 DEF Volumes, Shows, Queued
  <2>3. hosted \/ ~ beside => Main = Counts
    BY MainCounts DEF Main, InterfaceInv
  <2> HIDE DEF c, q
  <2>4. InterfaceType'
    BY <1>2, <1>3, <2>1, <2>2 DEF InterfaceInv, InterfaceType
  <2>5. UpdatesAreMade'
    <3>1. \A u : Updates(ready, u) => Updates(q, u)
      BY <1>8, <2>1
    <3> QED
      BY <1>3, <2>1, <3>1 DEF InterfaceInv, UpdatesAreMade, Updates, Updaters
  <2>6. PostsAreShown'
    <3> SUFFICES ASSUME hosted \/ ~ beside, Counts \notin lost
                 PROVE  Said(q, Shows(Counts), previous[Counts], shown' = previous[Counts])
      BY <1>3, <1>4, <2>1 DEF PostsAreShown
    <3>1. Said(ready, Shows(Counts), previous[Counts], shown = previous[Counts])
      BY DEF InterfaceInv, PostsAreShown
    <3>2. CASE c.of = Counts
      BY <1>7, <2>1, <2>2, <2>3, <3>1, <3>2
    <3>3. CASE c.of # Counts
      BY <1>7, <2>1, <2>2, <2>3, <3>1, <3>3
    <3> QED
      BY <3>2, <3>3
  <2>7. LevelsAgree'
    BY <1>5, <1>6, <2>1, <2>2 DEF InterfaceInv, LevelsAgree
  <2> QED
    BY <2>4, <2>5, <2>6, <2>7 DEF InterfaceInv
<1>11. ASSUME RunsVolume(c) PROVE InterfaceInv'
  <2>1. /\ c.run = "volume" /\ ready' = q
        /\ level' = IF c.of = "facade" THEN c.what ELSE level
        /\ guess' = IF c.of = "RAOP" THEN c.what ELSE guess
        /\ unsaid' = IF c.of = "RAOP" THEN FALSE ELSE unsaid
        /\ UNCHANGED <<shows, previous, pushing, shown, lost>>
    BY <1>11 DEF RunsVolume, statusVars
  <2>2. c \in Volumes /\ c \notin Shows(Counts) /\ c.what \in Int
    BY <1>2, <2>1 DEF Volumes, Shows, Queued
  <2> HIDE DEF c, q
  <2>3. InterfaceType'
    BY <1>2, <1>3, <2>1, <2>2 DEF InterfaceInv, InterfaceType
  <2>4. UpdatesAreMade'
    <3>1. \A u : Updates(ready, u) => Updates(q, u)
      BY <1>8, <2>1
    <3> QED
      BY <1>3, <2>1, <3>1 DEF InterfaceInv, UpdatesAreMade, Updates, Updaters
  <2>5. PostsAreShown'
    BY <1>3, <1>4, <1>7, <2>1, <2>2 DEF InterfaceInv, PostsAreShown
  <2>6. LevelsAgree'
    <3>1. CASE c.of = "facade"
      BY <1>5, <2>1, <2>2, <3>1 DEF LevelsAgree
    <3>2. CASE c.of # "facade"
      BY <1>5, <2>1, <2>2, <3>2 DEF LevelsAgree
    <3> QED
      BY <3>1, <3>2
  <2> QED
    BY <2>3, <2>4, <2>5, <2>6 DEF InterfaceInv
<1> QED
  BY <1>9, <1>10, <1>11 DEF RunsNext

(* Starting push updates runs an update of each updater that is not active. *)
LEMMA StartsKeeps == ASSUME InterfaceInv, StartsUpdates PROVE InterfaceInv'
<1> DEFINE a == IF beside /\ ~ pushing THEN <<Updated("MRP")>> ELSE <<>>
           b == <<Updated("RAOP")>>
<1>1. /\ pushing' = TRUE /\ ready' = ready \o a \o b
      /\ UNCHANGED <<beside, hosted, holder, shows, previous, shown, lost, guess, level, unsaid, phase, setting>>
  BY DEF StartsUpdates, volumeVars
<1>2. "MRP" \in Updater /\ "RAOP" \in Updater
  BY DEF Updater
<1>3. /\ a \in Seq(Queued) /\ NoneIn(a, Volumes) /\ \A w \in Updater : NoneIn(a, Shows(w))
      /\ beside /\ ~ pushing => Updates(a, "MRP")
  <2>1. CASE beside /\ ~ pushing
    BY <1>2, <2>1, OneUpdated DEF Updates
  <2>2. CASE ~ (beside /\ ~ pushing)
    BY <2>2, NoneInNothing
  <2> QED
    BY <2>1, <2>2
<1>4. /\ b \in Seq(Queued) /\ NoneIn(b, Volumes) /\ \A w \in Updater : NoneIn(b, Shows(w))
      /\ Updates(b, "RAOP")
  BY <1>2, OneUpdated DEF Updates
<1> HIDE DEF a, b
<1>5. ready \in Seq(Queued)
  BY DEF InterfaceInv, InterfaceType
<1>6. a \o b \in Seq(Queued) /\ ready \o a \in Seq(Queued)
  BY <1>3, <1>4, <1>5, JoinedQueues
<1>7. ready' = ready \o (a \o b)
  BY <1>1, <1>3, <1>4, <1>5, ConcatAssociative
<1>8. NoneIn(a \o b, Volumes) /\ \A w \in Updater : NoneIn(a \o b, Shows(w))
  BY <1>3, <1>4, NoneInBoth
<1>9. ready' \in Seq(Queued) /\ PostsAreShown' /\ LevelsAgree'
  BY <1>1, <1>6, <1>7, <1>8, QuietKeeps
<1>10. InterfaceType'
  BY <1>1, <1>9 DEF InterfaceInv, InterfaceType
<1>11. UpdatesAreMade'
  <2>1. \A u : Updates(ready, u) => Updates(ready \o a, u)
    BY <1>3, <1>5, UpdatesStay
  <2>2. \A u : Updates(a, u) => Updates(ready \o a, u)
    BY <1>3, <1>5, UpdatesStay
  <2>3. \A u : Updates(ready \o a, u) \/ Updates(b, u) => Updates(ready', u)
    BY <1>1, <1>4, <1>6, UpdatesStay
  <2> SUFFICES ASSUME NEW u \in Updaters, previous[u] # shows[u] PROVE Updates(ready', u)
    BY <1>1 DEF UpdatesAreMade, Updates, Updaters
  <2>4. CASE u = "RAOP"
    BY <1>4, <2>3, <2>4
  <2>5. CASE u = "MRP" /\ ~ pushing
    BY <1>3, <2>2, <2>3, <2>5 DEF Updaters
  <2>6. CASE pushing
    BY <2>1, <2>3, <2>6 DEF InterfaceInv, UpdatesAreMade, Updates
  <2> QED
    BY <2>4, <2>5, <2>6 DEF Updaters
<1> QED
  BY <1>9, <1>10, <1>11 DEF InterfaceInv

(* Stopping them removes nothing that is on its way.                        *)
LEMMA StopsKeeps == ASSUME InterfaceInv, StopsUpdates PROVE InterfaceInv'
<1>1. /\ pushing' = FALSE
      /\ UNCHANGED <<beside, hosted, holder, shows, previous, shown, lost, ready, guess, level, unsaid, setting>>
  BY DEF StopsUpdates, volumeVars
<1>2. InterfaceType' /\ UpdatesAreMade'
  BY <1>1 DEF InterfaceInv, InterfaceType, UpdatesAreMade
<1>3. PostsAreShown'
  BY <1>1, CountsStays DEF InterfaceInv, PostsAreShown
<1>4. LevelsAgree'
  BY <1>1 DEF InterfaceInv, LevelsAgree
<1> QED
  BY <1>2, <1>3, <1>4 DEF InterfaceInv

(* Steps that put nothing in the queue, and post nothing.                    *)
LEMMA IdleKeeps ==
    ASSUME InterfaceInv, UNCHANGED <<beside, hosted, previous, shown, lost, ready, level>>,
           NoneIn(ready, Volumes) => (guess' = NoLevel \/ unsaid' \/ guess' = level)
    PROVE  PostsAreShown' /\ LevelsAgree'
<1>1. PostsAreShown'
  BY CountsStays DEF InterfaceInv, PostsAreShown
<1>2. LevelsAgree'
  BY DEF InterfaceInv, LevelsAgree
<1> QED
  BY <1>1, <1>2

(* Something else plays on the device, and is posted.                       *)
LEMMA DeviceKeeps == ASSUME InterfaceInv, DevicePlays PROVE InterfaceInv'
<1>1. beside /\ UNCHANGED <<beside, hosted, holder, pushing, shown, guess, level, unsaid, phase, setting>>
  BY DEF DevicePlays, volumeVars
<1>2. PICK s \in {IdleStatus, 1} \ {shows["MRP"]} : shows' = [shows EXCEPT !["MRP"] = s]
  BY DEF DevicePlays
<1>3. s \in Int /\ "MRP" \in Updater
  BY DEF IdleStatus, Updater
<1>4. shows' \in [Updater -> Int] /\ \A u \in Updater : u # "MRP" => shows'[u] = shows[u]
  BY <1>2, <1>3 DEF InterfaceInv, InterfaceType
<1>5. ready \in Seq(Queued)
  BY DEF InterfaceInv, InterfaceType
<1>6. CASE pushing
  <2>1. Posts("MRP", ready)
    BY <1>6 DEF DevicePlays
  <2>2. (hosted \/ ~ beside) /\ Counts \notin lost
          => Said(ready, Shows(Counts), previous[Counts], shown = previous[Counts])
    BY DEF InterfaceInv, PostsAreShown
  <2>3. LevelsPaired(ready, level)
    BY DEF InterfaceInv, LevelsAgree
  <2>4. /\ ready' \in Seq(Queued) /\ PostsAreShown' /\ LevelsAgree'
        /\ previous' = [previous EXCEPT !["MRP"] = shows'["MRP"]] /\ lost' \subseteq Updater
        /\ \A w : Updates(ready, w) => Updates(ready', w)
    BY <1>1, <1>3, <1>4, <1>5, <2>1, <2>2, <2>3, PostKeeps
  <2>5. InterfaceType'
    BY <1>1, <1>3, <1>4, <2>4 DEF InterfaceInv, InterfaceType
  <2>6. UpdatesAreMade'
    <3> SUFFICES ASSUME NEW w \in Updaters, previous'[w] # shows'[w] PROVE Updates(ready', w)
      BY <1>1 DEF UpdatesAreMade, Updates, Updaters
    <3>1. w \in Updater
      BY DEF Updaters, Updater
    <3>2. w # "MRP" /\ previous'[w] = previous[w] /\ shows'[w] = shows[w]
      BY <1>3, <1>4, <2>4, <3>1 DEF InterfaceInv, InterfaceType
    <3>3. Updates(ready, w)
      BY <1>6, <3>2 DEF InterfaceInv, UpdatesAreMade, Updates
    <3> QED
      BY <2>4, <3>3
  <2> QED
    BY <2>4, <2>5, <2>6 DEF InterfaceInv
<1>7. CASE ~ pushing
  <2>1. UNCHANGED <<previous, lost, ready>>
    BY <1>7 DEF DevicePlays
  <2>2. PostsAreShown' /\ LevelsAgree'
    BY <1>1, <2>1, IdleKeeps DEF InterfaceInv, LevelsAgree
  <2>3. InterfaceType' /\ UpdatesAreMade'
    BY <1>1, <1>4, <1>7, <2>1 DEF InterfaceInv, InterfaceType, UpdatesAreMade
  <2> QED
    BY <2>2, <2>3 DEF InterfaceInv
<1> QED
  BY <1>6, <1>7

(* Levels are integers.                                                     *)
LEMMA LevelsAreInt == 0..MaxLevel \subseteq Int /\ InitialLevel \in Int /\ NoLevel \in Int /\ (0..MaxLevel) \subseteq Int
BY DEF MaxLevel, InitialLevel, NoLevel

(* A level is told, whoever it is from.                                     *)
LEMMA TellingKeeps ==
    ASSUME InterfaceInv, NEW from, NEW v \in Int, ready' = ready \o Dispatched(from, v),
           UNCHANGED <<beside, hosted, holder, shows, previous, pushing, shown, lost, level, unsaid>>,
           guess' \in Int, setting' \subseteq Int
    PROVE  InterfaceInv'
<1>1. ready' \in Seq(Queued) /\ PostsAreShown' /\ LevelsAgree' /\ UpdatesAreMade'
  BY LevelKeeps
<1> QED
  BY <1>1 DEF InterfaceInv, InterfaceType

(* The device tells its volume.                                             *)
LEMMA TellsKeeps == ASSUME InterfaceInv, DeviceTellsVolume PROVE InterfaceInv'
<1>1. UNCHANGED <<beside, hosted, holder, shows, previous, pushing, shown, lost, level, unsaid, guess, setting>>
  BY DEF DeviceTellsVolume, statusVars, volumeVars
<1>2. PICK v \in 0..MaxLevel : ready' = ready \o Dispatched("MRP", v)
  BY DEF DeviceTellsVolume
<1>3. v \in Int /\ guess' \in Int /\ setting' \subseteq Int
  BY <1>1, LevelsAreInt DEF InterfaceInv, InterfaceType
<1> QED
  BY <1>1, <1>2, <1>3, TellingKeeps

(* The rest of what is unchanged while no level is told.                    *)
LEMMA AskingKeeps ==
    ASSUME InterfaceInv,
           UNCHANGED <<beside, hosted, shows, previous, pushing, shown, lost, ready, level>>,
           holder' \in {Nobody, IF hosted THEN "AirPlay" ELSE "RAOP"},
           guess' \in Int, unsaid' \in BOOLEAN, setting' \subseteq Int,
           (guess' = guess /\ unsaid' = unsaid) \/ unsaid'
    PROVE  InterfaceInv'
<1>1. NoneIn(ready, Volumes) => (guess' = NoLevel \/ unsaid' \/ guess' = level)
  BY DEF InterfaceInv, LevelsAgree
<1>2. PostsAreShown' /\ LevelsAgree'
  BY <1>1, IdleKeeps
<1>3. UpdatesAreMade'
  BY DEF InterfaceInv, UpdatesAreMade, Updaters
<1>4. InterfaceType'
  BY DEF InterfaceInv, InterfaceType, Nobody
<1> QED
  BY <1>2, <1>3, <1>4 DEF InterfaceInv

(* Who took over is who the stream takes over for.                          *)
LEMMA HolderIs == InterfaceInv => holder \in {Nobody, IF hosted THEN "AirPlay" ELSE "RAOP"}
BY DEF InterfaceInv, InterfaceType

(* The user sets the volume, and RAOP asks the receiver or tells it.        *)
LEMMA SetsKeeps == ASSUME InterfaceInv, UserSetsVolume PROVE InterfaceInv'
<1>1. UNCHANGED <<beside, hosted, holder, shows, previous, pushing, shown, lost, phase>>
  BY DEF UserSetsVolume, statusVars
<1>2. PICK v \in Stepped \cup {MaxLevel} : Sets(v)
  BY DEF UserSetsVolume
<1>3. v \in Int
  BY DEF Stepped, MaxLevel
<1>4. CASE HasClient
  <2>1. setting' = setting \cup {v} /\ UNCHANGED <<guess, level, unsaid, ready>>
    BY <1>2, <1>4 DEF Sets, volumeVars
  <2>2. guess' \in Int /\ unsaid' \in BOOLEAN /\ setting' \subseteq Int
    BY <1>3, <2>1 DEF InterfaceInv, InterfaceType
  <2> QED
    BY <1>1, <2>1, <2>2, AskingKeeps, HolderIs
<1>5. CASE ~ HasClient
  <2>1. guess' = v /\ ready' = ready \o Dispatched("RAOP", v) /\ UNCHANGED <<level, unsaid, setting>>
    BY <1>2, <1>5 DEF Sets
  <2>2. guess' \in Int /\ setting' \subseteq Int
    BY <1>3, <2>1 DEF InterfaceInv, InterfaceType
  <2> QED
    BY <1>1, <1>3, <2>1, <2>2, TellingKeeps
<1> QED
  BY <1>4, <1>5

(* The receiver has the volume, which is told, or it failed.                *)
LEMMA IsSetKeeps == ASSUME InterfaceInv, VolumeIsSet PROVE InterfaceInv'
<1>1. UNCHANGED <<beside, hosted, holder, shows, previous, pushing, shown, lost, phase>>
  BY DEF VolumeIsSet, statusVars
<1>2. PICK v \in setting :
          /\ setting' = setting \ {v}
          /\ \/ guess' = v /\ ready' = ready \o Dispatched("RAOP", v) /\ UNCHANGED <<level, unsaid>>
             \/ UNCHANGED <<volumeVars, ready>>
  BY DEF VolumeIsSet
<1>3. v \in Int /\ setting' \subseteq Int
  BY <1>2 DEF InterfaceInv, InterfaceType
<1>4. CASE guess' = v /\ ready' = ready \o Dispatched("RAOP", v) /\ UNCHANGED <<level, unsaid>>
  BY <1>1, <1>3, <1>4, TellingKeeps
<1>5. CASE UNCHANGED <<volumeVars, ready>>
  <2>1. UNCHANGED <<guess, level, unsaid, ready>>
    BY <1>5 DEF volumeVars
  <2>2. guess' \in Int /\ unsaid' \in BOOLEAN
    BY <2>1 DEF InterfaceInv, InterfaceType
  <2> QED
    BY <1>1, <1>3, <2>1, <2>2, AskingKeeps, HolderIs
<1> QED
  BY <1>2, <1>4, <1>5

(* A stream begins, goes on and ends.                                       *)
LEMMA OpensKeeps == ASSUME InterfaceInv, StreamOpens \/ StreamIsGone PROVE InterfaceInv'
<1>1. UNCHANGED <<beside, hosted, shows, previous, pushing, shown, lost, ready, guess, level, unsaid, setting>>
  BY DEF StreamOpens, StreamIsGone, statusVars, volumeVars
<1>2. holder' \in {Nobody, IF hosted THEN "AirPlay" ELSE "RAOP"}
  BY DEF StreamOpens, StreamIsGone
<1>3. guess' \in Int /\ unsaid' \in BOOLEAN /\ setting' \subseteq Int
  BY <1>1 DEF InterfaceInv, InterfaceType
<1> QED
  BY <1>1, <1>2, <1>3, AskingKeeps

(* RAOP takes a volume of its own without a word.                           *)
LEMMA ClientKeeps == ASSUME InterfaceInv, ClientIsThere \/ DelayedVolume PROVE InterfaceInv'
<1>1. UNCHANGED <<beside, hosted, holder, shows, previous, pushing, shown, lost, ready, level>>
  BY DEF ClientIsThere, DelayedVolume, statusVars, volumeVars
<1>2. guess' \in Int /\ unsaid' \in BOOLEAN /\ setting' \subseteq Int
  BY LevelsAreInt DEF ClientIsThere, DelayedVolume, volumeVars, Volume, InterfaceInv, InterfaceType
<1>3. (guess' = guess /\ unsaid' = unsaid) \/ unsaid'
  BY DEF ClientIsThere, DelayedVolume, volumeVars
<1> QED
  BY <1>1, <1>2, <1>3, AskingKeeps, HolderIs

(* A stream plays or is over, and an update is run if updates are pushed.   *)
LEMMA PlaysKeeps == ASSUME InterfaceInv, StreamPlays \/ StreamIsOver PROVE InterfaceInv'
<1>1. /\ UNCHANGED <<beside, hosted, previous, pushing, shown, lost, guess, level, unsaid, setting>>
      /\ holder' \in {Nobody, IF hosted THEN "AirPlay" ELSE "RAOP"}
  BY HolderIs DEF StreamPlays, StreamIsOver, volumeVars
<1>2. "RAOP" \in Updater /\ IdleStatus \in Int
  BY DEF Updater, IdleStatus
<1>3. CASE UNCHANGED <<shows, ready>>
  <2>1. guess' \in Int /\ unsaid' \in BOOLEAN /\ setting' \subseteq Int
    BY <1>1 DEF InterfaceInv, InterfaceType
  <2> QED
    BY <1>1, <1>3, <2>1, AskingKeeps
<1>4. ASSUME NEW s \in Int, shows' = [shows EXCEPT !["RAOP"] = s], ready' = ready \o Triggered PROVE InterfaceInv'
  <2>1. /\ Triggered \in Seq(Queued) /\ NoneIn(Triggered, Volumes) /\ \A w \in Updater : NoneIn(Triggered, Shows(w))
        /\ pushing => Updates(Triggered, "RAOP")
    <3>1. CASE pushing
      BY <1>2, <3>1, OneUpdated DEF Updates, Triggered
    <3>2. CASE ~ pushing
      BY <3>2, NoneInNothing DEF Triggered
    <3> QED
      BY <3>1, <3>2
  <2>2. ready' \in Seq(Queued) /\ PostsAreShown' /\ LevelsAgree'
    BY <1>1, <1>4, <2>1, QuietKeeps
  <2>3. shows' \in [Updater -> Int] /\ \A u \in Updater : u # "RAOP" => shows'[u] = shows[u]
    BY <1>2, <1>4 DEF InterfaceInv, InterfaceType
  <2>4. InterfaceType'
    BY <1>1, <2>2, <2>3 DEF InterfaceInv, InterfaceType, Nobody
  <2>5. UpdatesAreMade'
    <3>1. ready \in Seq(Queued)
      BY DEF InterfaceInv, InterfaceType
    <3>2. \A u : Updates(ready, u) \/ Updates(Triggered, u) => Updates(ready', u)
      BY <1>4, <2>1, <3>1, UpdatesStay
    <3> SUFFICES ASSUME pushing, NEW u \in Updaters, previous[u] # shows'[u] PROVE Updates(ready', u)
      BY <1>1 DEF UpdatesAreMade, Updates, Updaters
    <3>3. CASE u = "RAOP"
      BY <2>1, <3>2, <3>3
    <3>4. CASE u # "RAOP"
      <4>1. shows'[u] = shows[u]
        BY <2>3, <3>4 DEF Updaters, Updater
      <4> QED
        BY <3>2, <4>1 DEF InterfaceInv, UpdatesAreMade, Updates
    <3> QED
      BY <3>3, <3>4
  <2> QED
    BY <2>2, <2>4, <2>5 DEF InterfaceInv
<1> QED
  BY <1>2, <1>3, <1>4 DEF StreamPlays, StreamIsOver

(* At first nothing is on its way.                                          *)
LEMMA InterfaceInvInit == InterfaceInit => InterfaceInv
<1> SUFFICES ASSUME InterfaceInit PROVE InterfaceInv
  OBVIOUS
<1>1. /\ ready = <<>> /\ ready \in Seq(Queued) /\ NoneIn(ready, Volumes) /\ guess = NoLevel /\ pushing = FALSE
      /\ \A u \in Updater : NoneIn(ready, Shows(u))
  BY NoneInNothing DEF InterfaceInit
<1>2. InterfaceType
  <2>1. shows \in [Updater -> Int] /\ previous \in [Updater -> Int]
    BY DEF InterfaceInit, IdleStatus, Unknown, Updater
  <2>2. shown \in Int /\ lost \subseteq Updater /\ guess \in Int /\ level \in Int /\ setting \subseteq Int
    BY DEF InterfaceInit, Unknown, NoLevel
  <2>3. beside \in BOOLEAN /\ hosted \in BOOLEAN /\ unsaid = FALSE /\ holder = Nobody
    BY Zenon DEF InterfaceInit
  <2> QED
    BY <1>1, <2>1, <2>2, <2>3 DEF InterfaceType
<1>3. UpdatesAreMade
  BY <1>1 DEF UpdatesAreMade
<1>4. PostsAreShown
  <2>1. Counts \in Updater
    BY DEF Counts, Updater
  <2>2. shown = previous[Counts]
    BY <2>1 DEF InterfaceInit, Updater
  <2> QED
    BY <1>1, <2>1, <2>2 DEF PostsAreShown, Said
<1>5. LevelsAgree
  BY <1>1, PairedNone DEF LevelsAgree
<1> QED
  BY <1>2, <1>3, <1>4, <1>5 DEF InterfaceInv

(* Every step of the interfaces keeps the invariant.                        *)
LEMMA InterfaceInvStep == ASSUME InterfaceInv, [InterfaceNext]_interfaceVars PROVE InterfaceInv'
<1>1. CASE UNCHANGED interfaceVars
  <2>1. UNCHANGED <<beside, hosted, holder, shows, previous, pushing, shown, lost, ready, guess, level, unsaid, setting>>
    BY <1>1 DEF interfaceVars, statusVars, volumeVars
  <2>2. guess' \in Int /\ unsaid' \in BOOLEAN /\ setting' \subseteq Int
    BY <2>1 DEF InterfaceInv, InterfaceType
  <2> QED
    BY <2>1, <2>2, AskingKeeps, HolderIs
<1>2. CASE InterfaceNext
  BY <1>2, RunsKeeps, StartsKeeps, StopsKeeps, DeviceKeeps, TellsKeeps, SetsKeeps, IsSetKeeps, OpensKeeps, ClientKeeps,
     PlaysKeeps DEF InterfaceNext
<1> QED
  BY <1>1, <1>2

-----------------------------------------------------------------------------
(* Power and the keyboard.                                                  *)
LEMMA AwareInvInit == AwareInit => AwareInv
<1> SUFFICES ASSUME AwareInit PROVE AwareInv
  OBVIOUS
<1>1. /\ callbacks = <<>> /\ callbacks \in Seq(CallbackSet)
      /\ NoneIn(callbacks, About("power")) /\ NoneIn(callbacks, About("focus"))
  BY NoneInNothing DEF AwareInit
<1>2. /\ present # {} /\ registered = {} /\ heard = Nobody /\ listens = FALSE /\ focus = "Unknown" /\ kept = "Unknown"
      /\ toldUser["power"] = "nothing" /\ toldUser["focus"] = "nothing"
  BY DEF AwareInit
<1>3. power \in [{"MRP", "Companion"} -> {"On", "Off", "Unknown"}]
  BY DEF AwareInit
<1>4. present \in {{"MRP"}, {"Companion"}, {"MRP", "Companion"}} /\ toldUser = [about \in {"power", "focus"} |-> toldUser[about]]
  BY DEF AwareInit
<1>5. AwareType
  BY <1>1, <1>2, <1>3, <1>4 DEF AwareType
<1>6. Listening /\ LastIsTold
  BY <1>1, <1>2 DEF Listening, LastIsTold, Said
<1> QED
  BY <1>5, <1>6 DEF AwareInv

(* Without the queue.                                                       *)
LEMMA MainPowerIs == AwareInv => PowerOf(present) \in present /\ PowerOf(present) # Nobody
                                 /\ (heard # Nobody => heard = PowerOf(present) /\ registered = present)
BY DEF AwareInv, AwareType, Listening, PowerOf, Nobody

(* The power of the one that is heard is that of the one the user asks.      *)
LEMMA RegistersKeeps == ASSUME AwareInv, NEW u \in present, Registers(u) PROVE AwareInv'
<1>1. /\ u \in present \ registered /\ registered' = registered \cup {u} /\ heard' = MainPower(u)
      /\ UNCHANGED <<present, power, focus, kept, callbacks, listens, toldUser>>
  BY DEF Registers
<1>2. AwareType'
  BY <1>1 DEF AwareInv, AwareType
<1>3. registered # present /\ heard = Nobody /\ ~ listens
  BY <1>1 DEF AwareInv, Listening, AwareType
<1>4. Listening'
  BY <1>1, <1>3 DEF AwareInv, Listening, MainPower
<1>5. toldUser["power"] = "nothing" /\ toldUser["focus"] = "nothing" /\ NoneIn(callbacks, About("power"))
  BY <1>3 DEF AwareInv, Listening, LastIsTold
<1>6. LastIsTold'
  <2>1. heard' # Nobody => Said(callbacks, About("power"), power[heard'], toldUser["power"] \in {"nothing", power[heard']})
    BY <1>5 DEF Said
  <2>2. Said(callbacks, About("focus"), focus, kept \in {"Unknown", focus})
    BY DEF AwareInv, LastIsTold
  <2>3. "Companion" \notin registered' => kept = "Unknown" /\ NoneIn(callbacks, About("focus"))
    BY <1>1 DEF AwareInv, LastIsTold
  <2> QED
    BY <1>1, <1>5, <2>1, <2>2, <2>3 DEF LastIsTold
<1> QED
  BY <1>2, <1>4, <1>6 DEF AwareInv

(* A callback is about one thing.                                           *)
LEMMA CallbackIs ==
    ASSUME NEW a \in {"power", "focus"}, NEW w, [about |-> a, what |-> w] \in CallbackSet
    PROVE  /\ [about |-> a, what |-> w].what = w
           /\ \A b \in {"power", "focus"} : [about |-> a, what |-> w] \in About(b) <=> a = b
BY DEF About

(* What is said of one thing is not changed by a callback about another; the *)
(* one about it says the last word.                                         *)
LEMMA CallbackSays ==
    ASSUME AwareInv, NEW a \in {"power", "focus"}, NEW b \in {"power", "focus"},
           NEW w, [about |-> a, what |-> w] \in CallbackSet, Callback(a, w)
    PROVE  /\ callbacks' \in Seq(CallbackSet)
           /\ a = b => \A now : Said(callbacks', About(b), w, now)
           /\ a # b => \A v, now : Said(callbacks, About(b), v, now) => Said(callbacks', About(b), v, now)
           /\ a # b /\ NoneIn(callbacks, About(b)) => NoneIn(callbacks', About(b))
<1> DEFINE e == [about |-> a, what |-> w]
<1>1. e \in CallbackSet /\ e.what = w /\ (e \in About(b) <=> a = b)
  BY CallbackIs
<1>2. callbacks' = Append(callbacks, e) /\ callbacks \in Seq(CallbackSet)
  BY DEF Callback, AwareInv, AwareType
<1> HIDE DEF e
<1>3. callbacks' \in Seq(CallbackSet)
  BY <1>1, <1>2
<1>4. ASSUME a = b, NEW now PROVE Said(callbacks', About(b), w, now)
  BY <1>1, <1>2, <1>4, SaidLastOf
<1>5. ASSUME a # b, NEW v, NEW now, Said(callbacks, About(b), v, now) PROVE Said(callbacks', About(b), v, now)
  BY <1>1, <1>2, <1>5, SaidLastOf
<1>6. ASSUME a # b, NoneIn(callbacks, About(b)) PROVE NoneIn(callbacks', About(b))
  BY <1>1, <1>2, <1>6, SaidLastOf
<1> QED
  BY <1>3, <1>4, <1>5, <1>6

(* A protocol learns of power; a callback is made if the facade listens to  *)
(* it.                                                                      *)
LEMMA LearnsPowerKeeps ==
    ASSUME AwareInv, NEW u \in present, NEW state \in {"On", "Off", "Unknown"}, LearnsPower(u, state) PROVE AwareInv'
<1>1. /\ power' = [power EXCEPT ![u] = state]
      /\ UNCHANGED <<present, registered, heard, focus, kept, listens, toldUser>>
  BY DEF LearnsPower
<1>2. power' \in [{"MRP", "Companion"} -> {"On", "Off", "Unknown"}] /\ power'[u] = state
      /\ (heard # Nobody /\ heard # u => power'[heard] = power[heard])
  BY <1>1, MainPowerIs DEF AwareInv, AwareType
<1>3. CASE heard = u
  <2>1. Callback("power", state) /\ u # Nobody /\ [about |-> "power", what |-> state] \in CallbackSet
    BY <1>3 DEF LearnsPower, AwareInv, AwareType, Nobody, CallbackSet
  <2>2. /\ callbacks' \in Seq(CallbackSet)
        /\ \A now : Said(callbacks', About("power"), state, now)
        /\ \A v, now : Said(callbacks, About("focus"), v, now) => Said(callbacks', About("focus"), v, now)
        /\ NoneIn(callbacks, About("focus")) => NoneIn(callbacks', About("focus"))
    BY <2>1, CallbackSays
  <2>3. AwareType'
    BY <1>1, <1>2, <2>2 DEF AwareInv, AwareType
  <2>4. Listening'
    BY <1>1 DEF AwareInv, Listening
  <2>5. Said(callbacks', About("power"), power'[heard], toldUser["power"] \in {"nothing", power'[heard]})
    BY <1>2, <1>3, <2>2
  <2>6. Said(callbacks', About("focus"), focus, kept \in {"Unknown", focus})
    BY <2>2 DEF AwareInv, LastIsTold
  <2>7. LastIsTold'
    BY <1>1, <1>3, <2>1, <2>2, <2>5, <2>6 DEF AwareInv, LastIsTold
  <2> QED
    BY <2>3, <2>4, <2>7 DEF AwareInv
<1>4. CASE heard # u
  <2>1. callbacks' = callbacks
    BY <1>4 DEF LearnsPower
  <2>2. AwareType'
    BY <1>1, <1>2, <2>1 DEF AwareInv, AwareType
  <2>3. Listening'
    BY <1>1 DEF AwareInv, Listening
  <2>4. LastIsTold'
    BY <1>1, <1>2, <1>4, <2>1 DEF AwareInv, LastIsTold
  <2> QED
    BY <2>2, <2>3, <2>4 DEF AwareInv
<1> QED
  BY <1>3, <1>4

(* Companion learns of the focus.                                           *)
LEMMA LearnsFocusKeeps ==
    ASSUME AwareInv, NEW state \in {"Focused", "Unfocused"}, LearnsFocus(state) PROVE AwareInv'
<1>1. focus' = state /\ UNCHANGED <<present, registered, heard, power, kept, listens, toldUser>>
  BY DEF LearnsFocus
<1>2. CASE "Companion" \in registered
  <2>1. Callback("focus", state) /\ [about |-> "focus", what |-> state] \in CallbackSet
    BY <1>2 DEF LearnsFocus, KeyboardOf, CallbackSet
  <2>2. /\ callbacks' \in Seq(CallbackSet)
        /\ \A now : Said(callbacks', About("focus"), state, now)
        /\ \A v, now : Said(callbacks, About("power"), v, now) => Said(callbacks', About("power"), v, now)
        /\ NoneIn(callbacks, About("power")) => NoneIn(callbacks', About("power"))
    BY <2>1, CallbackSays
  <2>3. AwareType'
    BY <1>1, <2>2 DEF AwareInv, AwareType
  <2>4. Listening'
    BY <1>1 DEF AwareInv, Listening
  <2>5. heard # Nobody => Said(callbacks', About("power"), power[heard], toldUser["power"] \in {"nothing", power[heard]})
    BY <2>2 DEF AwareInv, LastIsTold
  <2>6. LastIsTold'
    BY <1>1, <1>2, <2>2, <2>5 DEF AwareInv, LastIsTold
  <2> QED
    BY <2>3, <2>4, <2>6 DEF AwareInv
<1>3. CASE "Companion" \notin registered
  <2>1. callbacks' = callbacks
    BY <1>3 DEF LearnsFocus, KeyboardOf, Nobody
  <2>2. kept = "Unknown" /\ NoneIn(callbacks, About("focus"))
    BY <1>3 DEF AwareInv, LastIsTold
  <2>3. AwareType' /\ Listening'
    BY <1>1, <2>1 DEF AwareInv, AwareType, Listening
  <2>4. Said(callbacks, About("focus"), focus', kept \in {"Unknown", focus'})
    BY <2>2 DEF Said
  <2>5. LastIsTold'
    BY <1>1, <2>1, <2>4 DEF AwareInv, LastIsTold
  <2> QED
    BY <2>3, <2>5 DEF AwareInv
<1> QED
  BY <1>2, <1>3

(* A callback is run, and tells the user once he listens.                   *)
LEMMA RunsCallbackKeeps == ASSUME AwareInv, RunsCallback PROVE AwareInv'
<1> DEFINE c == Head(callbacks)
           q == Tail(callbacks)
<1>1. callbacks \in Seq(CallbackSet) /\ callbacks # <<>>
  BY DEF RunsCallback, AwareInv, AwareType
<1>2. c = callbacks[1] /\ c \in CallbackSet /\ q \in Seq(CallbackSet)
  BY <1>1, HeadOfQueue
<1>3. /\ callbacks' = q /\ UNCHANGED <<present, registered, heard, power, focus, listens>>
      /\ PowerstateUpdate(c) \/ FocusStateChanged(c)
  BY DEF RunsCallback
<1>4. ASSUME NEW K, NEW x, NEW now, Said(callbacks, K, x, now)
      PROVE  /\ c \notin K => Said(q, K, x, now)
             /\ c \in K => Said(q, K, x, c.what = x)
  BY <1>1, <1>2, <1>4, SaidByRest
<1>5. ASSUME NEW K, NoneIn(callbacks, K) PROVE NoneIn(q, K) /\ c \notin K
  <2>1. Len(callbacks) \in Nat \ {0} /\ Len(q) = Len(callbacks) - 1
        /\ \A i \in 1..(Len(callbacks) - 1) : i + 1 \in 1..Len(callbacks) /\ q[i] = callbacks[i + 1]
    BY <1>1, HeadOfQueue
  <2>2. 1 \in 1..Len(callbacks)
    BY <2>1
  <2> QED
    BY <1>2, <1>5, <2>1, <2>2 DEF NoneIn
<1>6. /\ c \in About("power") <=> c.about = "power"
      /\ c \in About("focus") <=> c.about = "focus"
      /\ c.about = "power" => c.what \in {"On", "Off", "Unknown"}
      /\ c.about = "focus" => c.what \in {"Focused", "Unfocused"}
  BY <1>2 DEF About, CallbackSet
<1>7. DOMAIN toldUser = {"power", "focus"} /\ toldUser = [about \in {"power", "focus"} |-> toldUser[about]]
  BY DEF AwareInv, AwareType
<1> HIDE DEF c, q
<1>8. ASSUME PowerstateUpdate(c) PROVE AwareInv'
  <2>1. c.about = "power" /\ Tells("power", c.what) /\ UNCHANGED kept
    BY <1>8 DEF PowerstateUpdate
  <2>2. /\ toldUser'["focus"] = toldUser["focus"]
        /\ toldUser'["power"] = IF listens THEN c.what ELSE toldUser["power"]
        /\ toldUser' = [about \in {"power", "focus"} |-> toldUser'[about]]
    BY <1>7, <2>1 DEF Tells
  <2>3. AwareType'
    BY <1>2, <1>3, <2>1, <2>2 DEF AwareInv, AwareType
  <2>4. Listening'
    BY <1>3, <2>2 DEF AwareInv, Listening
  <2>5. heard # Nobody => Said(q, About("power"), power[heard], toldUser'["power"] \in {"nothing", power[heard]})
    <3> SUFFICES ASSUME heard # Nobody
                 PROVE  Said(q, About("power"), power[heard], toldUser'["power"] \in {"nothing", power[heard]})
      OBVIOUS
    <3>1. Said(callbacks, About("power"), power[heard], toldUser["power"] \in {"nothing", power[heard]})
      BY DEF AwareInv, LastIsTold
    <3>2. Said(q, About("power"), power[heard], c.what = power[heard])
      BY <1>4, <1>6, <2>1, <3>1
    <3>3. ~ listens => toldUser["power"] = "nothing"
      BY DEF AwareInv, Listening
    <3>4. c.what = power[heard] => toldUser'["power"] \in {"nothing", power[heard]}
      BY <2>2, <3>3
    <3> QED
      BY <3>2, <3>4 DEF Said
  <2>6. Said(q, About("focus"), focus, kept \in {"Unknown", focus})
    BY <1>4, <1>6, <2>1 DEF AwareInv, LastIsTold
  <2>7. LastIsTold'
    BY <1>3, <1>5, <2>1, <2>2, <2>5, <2>6 DEF AwareInv, LastIsTold
  <2> QED
    BY <2>3, <2>4, <2>7 DEF AwareInv
<1>9. ASSUME FocusStateChanged(c) PROVE AwareInv'
  <2>1. c.about = "focus" /\ kept' = c.what /\ IF c.what # kept THEN Tells("focus", c.what) ELSE UNCHANGED toldUser
    BY <1>9 DEF FocusStateChanged
  <2>2. /\ toldUser'["power"] = toldUser["power"]
        /\ toldUser'["focus"] = IF c.what # kept /\ listens THEN c.what ELSE toldUser["focus"]
        /\ toldUser' = [about \in {"power", "focus"} |-> toldUser'[about]]
    BY <1>7, <2>1 DEF Tells
  <2>3. "Companion" \in registered
    BY <1>5, <1>6, <2>1 DEF AwareInv, LastIsTold
  <2>4. Said(q, About("focus"), focus, kept' \in {"Unknown", focus})
    <3>1. Said(callbacks, About("focus"), focus, kept \in {"Unknown", focus})
      BY DEF AwareInv, LastIsTold
    <3>2. Said(q, About("focus"), focus, c.what = focus)
      BY <1>4, <1>6, <2>1, <3>1
    <3> QED
      BY <2>1, <3>2 DEF Said
  <2>5. heard # Nobody => Said(q, About("power"), power[heard], toldUser["power"] \in {"nothing", power[heard]})
    BY <1>4, <1>6, <2>1 DEF AwareInv, LastIsTold
  <2>6. toldUser'["focus"] \in {"nothing", kept'} /\ toldUser'["focus"] # "Unknown"
    BY <1>6, <2>1, <2>2 DEF AwareInv, LastIsTold, Listening
  <2>7. Listening'
    BY <1>3, <2>2 DEF AwareInv, Listening
  <2>8. LastIsTold'
    BY <1>3, <1>5, <2>2, <2>3, <2>4, <2>5, <2>6 DEF AwareInv, LastIsTold
  <2>9. kept' \in {"Focused", "Unfocused", "Unknown"}
    BY <1>6, <2>1
  <2>10. AwareType'
    BY <1>2, <1>3, <2>2, <2>9 DEF AwareInv, AwareType
  <2> QED
    BY <2>7, <2>8, <2>10 DEF AwareInv
<1> QED
  BY <1>3, <1>8, <1>9

(* The user sets his listeners.                                             *)
LEMMA UserListensKeeps == ASSUME AwareInv, UserListens PROVE AwareInv'
<1>1. /\ registered = present /\ listens' = TRUE
      /\ UNCHANGED <<present, registered, heard, power, focus, kept, callbacks, toldUser>>
  BY DEF UserListens
<1>2. AwareType' /\ Listening'
  BY <1>1 DEF AwareInv, AwareType, Listening
<1>3. LastIsTold'
  BY <1>1 DEF AwareInv, LastIsTold
<1> QED
  BY <1>2, <1>3 DEF AwareInv

(* Every step of power and focus keeps the invariant.                       *)
LEMMA AwareInvStep == ASSUME AwareInv, [AwareNext]_awareVars PROVE AwareInv'
<1>1. CASE UNCHANGED awareVars
  BY <1>1 DEF awareVars, AwareInv, AwareType, Listening, LastIsTold
<1>2. CASE AwareNext
  BY <1>2, RegistersKeeps, LearnsPowerKeeps, LearnsFocusKeeps, RunsCallbackKeeps, UserListensKeeps DEF AwareNext
<1> QED
  BY <1>1, <1>2

(* Both invariants, with nothing left to run.                               *)
LEMMA ToldFromInv == ASSUME InterfaceInv, AwareInv PROVE UserIsTold
<1>1. ASSUME ready = <<>>
      PROVE  /\ pushing => \A u \in Updaters : previous[u] = shows[u]
             /\ pushing /\ (hosted \/ ~ beside) /\ Main \notin lost => shown = Playing
             /\ guess = NoLevel \/ unsaid \/ guess = level
  <2>1. \A K : NoneIn(ready, K)
    BY <1>1, NoneInNothing
  <2>2. pushing => \A u \in Updaters : previous[u] = shows[u]
    BY <1>1 DEF InterfaceInv, UpdatesAreMade
  <2>3. ASSUME pushing, hosted \/ ~ beside, Main \notin lost PROVE shown = Playing
    <3>1. Main = Counts /\ Relayed("playing") = Counts /\ Counts \in Updaters
      BY <2>3, MainCounts DEF Main, InterfaceInv, Counts, Updaters
    <3>2. shown = previous[Counts]
      BY <2>1, <2>3, <3>1 DEF InterfaceInv, PostsAreShown, Said
    <3> QED
      BY <2>2, <2>3, <3>1, <3>2 DEF Playing
  <2>4. guess = NoLevel \/ unsaid \/ guess = level
    BY <2>1 DEF InterfaceInv, LevelsAgree
  <2> QED
    BY <2>2, <2>3, <2>4
<1>2. ASSUME callbacks = <<>>
      PROVE  /\ toldUser["power"] \in {"nothing", power[PowerOf(registered)]}
             /\ toldUser["focus"] \in {"nothing", focus} /\ kept \in {"Unknown", focus}
  <2>1. \A K : NoneIn(callbacks, K)
    BY <1>2, NoneInNothing
  <2>2. kept \in {"Unknown", focus} /\ toldUser["focus"] \in {"nothing", kept} /\ toldUser["focus"] # "Unknown"
    BY <2>1 DEF AwareInv, LastIsTold, Said
  <2>3. CASE heard # Nobody
    <3>1. heard = PowerOf(registered)
      BY <2>3, MainPowerIs
    <3>2. toldUser["power"] \in {"nothing", power[heard]}
      BY <2>1, <2>3 DEF AwareInv, LastIsTold, Said
    <3> QED
      BY <2>2, <3>1, <3>2
  <2>4. CASE heard = Nobody
    <3>1. toldUser["power"] = "nothing"
      BY <2>4, MainPowerIs DEF AwareInv, Listening
    <3> QED
      BY <2>2, <3>1
  <2> QED
    BY <2>3, <2>4
<1> QED
  BY <1>1, <1>2 DEF UserIsTold

(* A step beside the facade is a step of each of its parts, or leaves it      *)
(* alone.                                                                   *)
LEMMA BesideInit == MCInit => InterfaceInit /\ AwareInit
BY DEF MCInit

(* What a step is to the two parts of the interfaces.                       *)
LEMMA BesideStep == [MCNext]_partVars => [InterfaceNext]_interfaceVars /\ [AwareNext]_awareVars
BY DEF MCNext, InFacade, InPlaying, InInterfaces, InAware, partVars

(* For any number of moves, messages and callbacks: when the event loop has   *)
(* nothing left to run, what plays was posted and shown, the user was told   *)
(* the volume that RAOP goes by, and of power and focus what he gets when    *)
(* he asks.                                                                 *)
THEOREM UserIsToldInTheEnd == MCSpec => []UserIsTold
<1>1. MCInit => InterfaceInv /\ AwareInv
  BY BesideInit, InterfaceInvInit, AwareInvInit
<1>2. InterfaceInv /\ AwareInv /\ [MCNext]_partVars => (InterfaceInv /\ AwareInv)'
  BY BesideStep, InterfaceInvStep, AwareInvStep
<1>3. InterfaceInv /\ AwareInv => UserIsTold
  BY ToldFromInv
<1> QED
  BY <1>1, <1>2, <1>3, PTL DEF MCSpec
=============================================================================
