--------------------------- MODULE Streaming_proofs ---------------------------
(***************************************************************************)
(* What a RAOP stream holds and what it has sent: the invariants of          *)
(* RaopStream, for any number of callers, any modulus of the sequence        *)
(* numbers and any size of the backlog below it; and of what a source is     *)
(* read through, AudioInput and AudioFrames, for any size of the buffers;   *)
(* and what a receiver is asked, RaopSession, for any number of streams.    *)
(***************************************************************************)
EXTENDS Streaming, SequenceTheorems, TLAPS

(* The steps after which a packet may be sent with too little padding yet.   *)
Paced == {"endpoint", "metadata", "feedback", "record", "volume", "read"}

Resting == \A c \in Caller : ~ Streaming(c)

(* Who streams has the manager; the backlog is kept only while packets are   *)
(* sent; what is closed by nobody are two sockets.                          *)
Held ==
    /\ OneStream
    /\ \A c \in Caller : Streaming(c) => acquired
    /\ Resting => /\ connection = "none" /\ ~ client /\ ~ taken /\ ~ feedback /\ ~ syncing
                  /\ sockets = {}
    /\ forgotten \subseteq {"control", "audio"}
    /\ backlog # <<>> => \E c \in Caller : pc[c] \in {"read", "sleep"}
    /\ \A c \in Caller : pc[c] \in Paced => padding < Latency

(* The backlog holds the packets sent last.                                 *)
InOrder == \A i \in DOMAIN backlog : backlog[i] = (rtpseq - Len(backlog) + i - 1) % Modulus

(* Without the uniqueness of its entries, which follows from their order.    *)
StreamType ==
    /\ pc \in [Caller -> Label]
    /\ acquired \in BOOLEAN /\ taken \in BOOLEAN
    /\ connection \in {"none", "up", "lost"}
    /\ client \in BOOLEAN /\ playing \in BOOLEAN
    /\ sockets \subseteq Socket /\ forgotten \subseteq Socket
    /\ feedback \in BOOLEAN /\ syncing \in BOOLEAN /\ info \in BOOLEAN
    /\ deferred \in Volume
    /\ left \in Nat \cup {Endless}
    /\ rtpseq \in Seqno
    /\ padding \in 0..Latency
    /\ late \in 0..Compensate
    /\ backlog \in Seq(Seqno) /\ Len(backlog) <= BacklogSize

StreamInv == StreamType /\ Held /\ InOrder

-----------------------------------------------------------------------------
(* Sequence numbers that are one turn away at most.                         *)
LEMMA Turn ==
    ASSUME NEW M \in Nat \ {0}, NEW x \in Int
    PROVE  /\ x % M \in 0..(M - 1)
           /\ 0 <= x /\ x < M => x % M = x
           /\ M <= x /\ x < 2 * M => x % M = x - M
           /\ -M <= x /\ x < 0 => x % M = x + M
OBVIOUS

(* The number after r, and those up to a turn before it.                    *)
LEMMA NextNumber ==
    ASSUME NEW M \in Nat \ {0}, NEW r \in 0..(M - 1), NEW k \in Int, -M <= k, k < 0
    PROVE  /\ (r + 1) % M \in 0..(M - 1)
           /\ (((r + 1) % M) - 1) % M = r
           /\ (((r + 1) % M) + k) % M = (r + k + 1) % M
<1>1. CASE r = M - 1
  <2>1. (r + 1) % M = 0
    BY <1>1
  <2>2. (0 + k) % M = k + M /\ (r + k + 1) % M = k + M /\ (0 - 1) % M = M - 1
    BY <1>1
  <2> QED BY <1>1, <2>1, <2>2
<1>2. CASE r # M - 1
  <2>1. (r + 1) % M = r + 1
    BY <1>2
  <2> QED BY <1>2, <2>1
<1> QED BY <1>1, <1>2

(* Nobody streams at first, and nothing is held.                            *)
LEMMA InitStream == ASSUME StreamInit PROVE StreamInv
<1>1. StreamType
  <2>1. pc \in [Caller -> Label]
    BY DEF StreamInit, Label
  <2>2. 0 \in Seqno /\ 0 \in 0..Latency /\ 0 \in 0..Compensate /\ BacklogSize \in Nat
    BY StreamAssumption DEF Seqno
  <2>3. backlog \in Seq(Seqno) /\ Len(backlog) <= BacklogSize
    BY <2>2 DEF StreamInit
  <2> QED BY <2>1, <2>2, <2>3 DEF StreamInit, StreamType, Volume
<1>2. Held /\ InOrder
  BY DEF StreamInit, Held, InOrder, OneStream, Streaming, Paced
<1> QED BY <1>1, <1>2 DEF StreamInv

(* A step of a stream that goes on, or is to be torn down.                  *)
Goes(c, next) ==
    /\ pc' = [pc EXCEPT ![c] = next]
    /\ acquired' = acquired /\ forgotten' = forgotten
    /\ \/ backlog' = <<>>
       \/ backlog' = backlog /\ (pc[c] \in {"read", "sleep"} => next \in {"read", "sleep"} /\ rtpseq' = rtpseq)
    /\ next \in Paced => padding' < Latency

(* A step that only moves a caller on, with the types kept.                 *)
LEMMA GoesKeeps ==
    ASSUME StreamInv, StreamType', NEW c \in Caller, pc[c] # "idle",
           NEW next \in Label \ {"idle"}, Goes(c, next)
    PROVE  StreamInv'
<1>1. StreamType /\ Held /\ InOrder
  BY DEF StreamInv
<1>2. pc'[c] = next /\ \A d \in Caller \ {c} : pc'[d] = pc[d] /\ pc[d] = "idle"
  BY <1>1 DEF StreamType, Goes, Held, OneStream, Streaming
<1>3. OneStream' /\ (\A d \in Caller : Streaming(d)' => acquired') /\ ~ Resting'
  BY <1>1, <1>2 DEF Goes, Held, OneStream, Streaming, Resting
<1>4. forgotten' \subseteq {"control", "audio"}
  BY <1>1 DEF Goes, Held
<1>5. \A d \in Caller : pc'[d] \in Paced => padding' < Latency
  BY <1>2 DEF Goes, Paced
<1>6. CASE backlog' = <<>>
  <2>1. InOrder'
    BY <1>6 DEF InOrder
  <2> QED BY <1>3, <1>4, <1>5, <1>6, <2>1 DEF StreamInv, Held
<1>7. CASE backlog' = backlog /\ backlog # <<>>
  <2>1. pc[c] \in {"read", "sleep"}
    BY <1>1, <1>2, <1>7 DEF Held
  <2>2. pc'[c] \in {"read", "sleep"} /\ rtpseq' = rtpseq
    BY <2>1, <1>2, <1>7 DEF Goes
  <2>3. InOrder'
    BY <1>1, <1>7, <2>2 DEF InOrder
  <2> QED BY <1>3, <1>4, <1>5, <1>7, <2>2, <2>3 DEF StreamInv, Held
<1> QED BY <1>6, <1>7 DEF Goes

(* The stream is over and everything is given back.                         *)
LEMMA AbandonKeeps ==
    ASSUME StreamInv, NEW c \in Caller, pc[c] \in Opening \cup {"close_source"}, Abandon(c)
    PROVE  StreamInv'
<1>1. StreamType /\ Held /\ InOrder
  BY DEF StreamInv
<1>2. /\ pc' = [pc EXCEPT ![c] = "idle"] /\ taken' = FALSE /\ feedback' = FALSE /\ client' = FALSE
      /\ playing' = FALSE /\ syncing' = FALSE /\ sockets' = {} /\ connection' = "none" /\ acquired' = FALSE
      /\ rtpseq' \in Seqno /\ padding' = 0 /\ deferred' = "unset" /\ left' = 0 /\ late' = 0
      /\ info' = info /\ backlog' = backlog
      /\ forgotten' = forgotten \cup (sockets \ (ClosedByClient \cup {"events"}))
  BY DEF Abandon, ManagerTeardown, GoesTo, ContextReset, ControlClose, Forget
<1>3. pc[c] \notin {"idle", "read", "sleep"}
  BY DEF Opening
<1>4. \A d \in Caller : pc'[d] = "idle"
  BY <1>1, <1>2, <1>3 DEF StreamType, Held, OneStream, Streaming
<1>5. backlog = <<>>
  BY <1>1, <1>3 DEF Held, OneStream, Streaming
<1>6. forgotten' \subseteq {"control", "audio"}
  BY <1>1, <1>2 DEF StreamType, Socket, Held, ClosedByClient
<1>7. StreamType'
  <2>1. pc' \in [Caller -> Label]
    BY <1>1, <1>2 DEF StreamType, Label
  <2>2. 0 \in 0..Latency /\ 0 \in 0..Compensate
    BY StreamAssumption
  <2>3. forgotten' \subseteq Socket
    BY <1>6 DEF Socket
  <2> QED BY <1>1, <1>2, <1>5, <2>1, <2>2, <2>3 DEF StreamType, Volume
<1>8. Held' /\ InOrder'
  BY <1>2, <1>4, <1>5, <1>6 DEF Held, InOrder, OneStream, Streaming, Paced
<1> QED BY <1>7, <1>8 DEF StreamInv

-----------------------------------------------------------------------------
(* stream_file begins.                                                      *)
LEMMA AcquireKeeps == ASSUME StreamInv, NEW c \in Caller, Acquire(c) PROVE StreamInv'
<1>1. StreamType /\ Held /\ InOrder
  BY DEF StreamInv
<1>2. /\ pc' = [pc EXCEPT ![c] = "http_connect"] /\ ~ acquired /\ acquired' = TRUE /\ taken' = TRUE
      /\ UNCHANGED <<connection, client, playing, sockets, forgotten, feedback, syncing, info, deferred,
                     rtpseq, padding, left, late, backlog>>
  BY DEF Acquire, GoesTo, clientVars, contextVars, streamVars
<1>3. \A d \in Caller : pc[d] = "idle" /\ pc'[d] = IF d = c THEN "http_connect" ELSE "idle"
  BY <1>1, <1>2 DEF StreamType, Held, Streaming
<1>4. StreamType'
  <2>1. pc' \in [Caller -> Label]
    BY <1>1, <1>2 DEF StreamType, Label, Opening
  <2> QED BY <1>1, <1>2, <2>1 DEF StreamType
<1>5. Held' /\ InOrder'
  BY <1>1, <1>2, <1>3 DEF Held, InOrder, OneStream, Streaming, Paced, Resting
<1> QED BY <1>4, <1>5 DEF StreamInv

(* The takeover is refused, and the stream manager is released.             *)
LEMMA TakeoverRaisesKeeps == ASSUME StreamInv, NEW c \in Caller, TakeoverRaises(c) PROVE StreamInv'
<1>1. /\ acquired' = TRUE
      /\ UNCHANGED <<pc, taken, connection, client, playing, sockets, forgotten, feedback, syncing, info,
                     deferred, rtpseq, padding, left, late, backlog>>
  BY DEF TakeoverRaises, clientVars, contextVars, streamVars
<1> QED BY <1>1 DEF StreamInv, StreamType, Held, InOrder, OneStream, Streaming, Resting

(* A packet is sent, which makes room for itself in the backlog.            *)
LEMMA Enqueued ==
    ASSUME StreamType, InOrder, Enqueue(rtpseq), rtpseq' = (rtpseq + 1) % Modulus
    PROVE  backlog' \in Seq(Seqno) /\ Len(backlog') <= BacklogSize /\ InOrder'
<1> DEFINE b == IF Len(backlog) = BacklogSize THEN Tail(backlog) ELSE backlog
           n == Len(b)
           y(i) == i - n - 2
<1>1. /\ Modulus \in Nat \ {0} /\ BacklogSize \in 1..(Modulus - 1) /\ rtpseq \in 0..(Modulus - 1)
      /\ backlog \in Seq(Seqno) /\ Len(backlog) <= BacklogSize
      /\ \A i \in 1..Len(backlog) : backlog[i] = (rtpseq - Len(backlog) + i - 1) % Modulus
  BY StreamAssumption DEF StreamType, InOrder, Seqno
<1>2. /\ b \in Seq(Seqno) /\ n \in 0..(BacklogSize - 1)
      /\ \A i \in 1..n : b[i] = (rtpseq + y(i) + 1) % Modulus
  <2>1. CASE Len(backlog) = BacklogSize
    <3>1. backlog # <<>> /\ b = Tail(backlog)
      BY <1>1, <2>1
    <3>2. b \in Seq(Seqno) /\ n = Len(backlog) - 1 /\ \A i \in 1..n : b[i] = backlog[i + 1]
      BY <1>1, <3>1
    <3> HIDE DEF b
    <3>3. \A i \in 1..n : b[i] = (rtpseq - Len(backlog) + (i + 1) - 1) % Modulus
      BY <1>1, <3>2
    <3> QED BY <1>1, <2>1, <3>2, <3>3
  <2>2. CASE Len(backlog) # BacklogSize
    <3>1. b = backlog /\ n = Len(backlog)
      BY <2>2
    <3>2. Len(backlog) \in Nat
      BY <1>1
    <3> HIDE DEF b
    <3>3. n \in 0..(BacklogSize - 1)
      BY <1>1, <2>2, <3>1, <3>2
    <3>4. \A i \in 1..n : rtpseq - Len(backlog) + i - 1 = rtpseq + y(i) + 1
      BY <1>1, <3>1, <3>2
    <3> QED BY <1>1, <3>1, <3>3, <3>4
  <2> QED BY <2>1, <2>2
<1>3. backlog' = Append(b, rtpseq)
  BY DEF Enqueue
<1> HIDE DEF b
<1>4. /\ backlog' \in Seq(Seqno) /\ Len(backlog') = n + 1
      /\ backlog'[n + 1] = rtpseq /\ \A i \in 1..n : backlog'[i] = b[i]
  BY <1>2, <1>3 DEF StreamType
<1> HIDE DEF n
<1>5. \A i \in 1..(n + 1) : y(i) \in Int /\ -Modulus <= y(i) /\ y(i) < 0
  BY <1>1, <1>2
<1>6. ASSUME NEW i \in 1..(n + 1) PROVE backlog'[i] = (rtpseq' + y(i)) % Modulus
  <2> DEFINE k == y(i)
  <2>1. k \in Int /\ -Modulus <= k /\ k < 0
    BY <1>5
  <2>2. i \in 1..n => backlog'[i] = (rtpseq + k + 1) % Modulus
    BY <1>2, <1>4
  <2>3. i = n + 1 => backlog'[i] = rtpseq /\ k = -1
    BY <1>2, <1>4
  <2>4. i \in 1..n \/ i = n + 1
    BY <1>2
  <2> HIDE DEF k
  <2>5. (rtpseq' - 1) % Modulus = rtpseq /\ (rtpseq' + k) % Modulus = (rtpseq + k + 1) % Modulus
    BY <1>1, <2>1, NextNumber
  <2>6. rtpseq' \in Int
    BY <1>1, <2>1, NextNumber
  <2>7. backlog'[i] = (rtpseq' + k) % Modulus
    <3>1. CASE i \in 1..n
      BY <3>1, <2>2, <2>5
    <3>2. CASE i = n + 1
      <4>1. rtpseq' + k = rtpseq' - 1
        BY <3>2, <2>3, <2>6
      <4> QED BY <4>1, <3>2, <2>3, <2>5
    <3> QED BY <3>1, <3>2, <2>4
  <2> QED BY <2>7 DEF k
<1>7. InOrder'
  <2>1. \A i \in 1..(n + 1) : rtpseq' - (n + 1) + i - 1 = rtpseq' + y(i)
    <3>1. rtpseq' \in Int
      BY <1>1, NextNumber
    <3> QED BY <1>2, <3>1
  <2> QED BY <1>2, <1>4, <1>6, <2>1 DEF InOrder
<1> QED BY <1>1, <1>2, <1>4, <1>7

(* A caller reads, sends a packet and keeps it in the backlog.              *)
LEMMA ReadKeeps == ASSUME StreamInv, NEW c \in Caller, Read(c) PROVE StreamInv'
<1>1. StreamType /\ Held /\ InOrder
  BY DEF StreamInv
<1>2. /\ pc[c] = "read" /\ padding' = padding + (IF left = 0 THEN 1 ELSE 0)
      /\ rtpseq' = (rtpseq + 1) % Modulus
      /\ UNCHANGED <<acquired, taken, connection, client, playing, sockets, forgotten, feedback, syncing, info>>
  BY DEF Read, At, managerVars, clientVars
<1>3. padding < Latency
  BY <1>1, <1>2 DEF Held, Paced
<1>4. padding' \in 0..Latency /\ rtpseq' \in Seqno
  BY <1>1, <1>2, <1>3, StreamAssumption, Turn DEF StreamType, Seqno
<1>5. PICK behind \in Behind :
          IF behind > 0 /\ padding' >= Latency
          THEN GoesTo(c, "teardown") /\ backlog' = <<>> /\ Forget
          ELSE /\ GoesTo(c, IF behind = 0 THEN "sleep" ELSE "read")
               /\ late' = behind
               /\ left' = IF left > 0 THEN left - 1 ELSE left
               /\ Enqueue(rtpseq)
               /\ UNCHANGED deferred
  BY DEF Read
<1>6. behind \in 0..Compensate
  BY <1>1, <1>5, StreamAssumption DEF StreamType, Behind
<1>7. CASE behind > 0 /\ padding' >= Latency
  <2>1. pc' = [pc EXCEPT ![c] = "teardown"] /\ backlog' = <<>> /\ deferred' = "unset" /\ left' = 0 /\ late' = 0
    BY <1>5, <1>7 DEF GoesTo, Forget
  <2>2. StreamType'
    <3>1. pc' \in [Caller -> Label]
      BY <1>1, <2>1 DEF StreamType, Label, Closing
    <3>2. 0 \in 0..Compensate /\ <<>> \in Seq(Seqno) /\ Len(<<>>) <= BacklogSize
      BY StreamAssumption
    <3> QED BY <1>1, <1>2, <1>4, <2>1, <3>1, <3>2 DEF StreamType, Volume
  <2>3. Goes(c, "teardown")
    BY <1>2, <2>1 DEF Goes, Paced
  <2> QED BY <1>2, <2>2, <2>3, GoesKeeps DEF Label, Closing
<1>8. CASE ~ (behind > 0 /\ padding' >= Latency)
  <2> DEFINE next == IF behind = 0 THEN "sleep" ELSE "read"
  <2>1. /\ pc' = [pc EXCEPT ![c] = next] /\ late' = behind /\ left' = (IF left > 0 THEN left - 1 ELSE left)
        /\ Enqueue(rtpseq) /\ deferred' = deferred
    BY <1>5, <1>8 DEF GoesTo
  <2>2. backlog' \in Seq(Seqno) /\ Len(backlog') <= BacklogSize /\ InOrder'
    BY <1>1, <1>2, <2>1, Enqueued
  <2>3. next \in {"read", "sleep"} /\ (next = "read" => padding' < Latency)
    BY <1>4, <1>6, <1>8, StreamAssumption
  <2> HIDE DEF next
  <2>4. StreamType'
    <3>1. pc' \in [Caller -> Label]
      BY <1>1, <2>1, <2>3 DEF StreamType, Label, Sending
    <3>2. left' \in Nat \cup {Endless}
      BY <1>1, <2>1 DEF StreamType, Endless
    <3> QED BY <1>1, <1>2, <1>4, <1>6, <2>1, <2>2, <3>1, <3>2 DEF StreamType
  <2>5. pc'[c] = next /\ \A d \in Caller \ {c} : pc'[d] = pc[d] /\ pc[d] = "idle"
    BY <1>1, <1>2, <2>1 DEF StreamType, Held, OneStream, Streaming
  <2>6. Held'
    <3>1. OneStream' /\ (\A d \in Caller : Streaming(d)' => acquired') /\ ~ Resting'
      BY <1>1, <1>2, <2>3, <2>5 DEF Held, OneStream, Streaming, Resting
    <3>2. \A d \in Caller : pc'[d] \in Paced => padding' < Latency
      BY <2>3, <2>5 DEF Paced
    <3> QED BY <1>1, <1>2, <2>3, <2>5, <3>1, <3>2 DEF Held
  <2> QED BY <2>2, <2>4, <2>6 DEF StreamInv
<1> QED BY <1>7, <1>8

-----------------------------------------------------------------------------
(* The "finally" clauses.                                                   *)
LEMMA SendFinallyKeeps ==
    ASSUME StreamInv, NEW c \in Caller, pc[c] # "idle", SendFinally(c) PROVE StreamInv'
<1>1. /\ pc' = [pc EXCEPT ![c] = "teardown"] /\ backlog' = <<>>
      /\ deferred' = "unset" /\ left' = 0 /\ late' = 0
      /\ UNCHANGED <<acquired, taken, connection, client, playing, sockets, forgotten, feedback, syncing, info,
                     rtpseq, padding>>
  BY DEF SendFinally, GoesTo, Forget, managerVars, clientVars, contextVars
<1>2. StreamType'
  <2>1. pc' \in [Caller -> Label]
    BY <1>1 DEF StreamInv, StreamType, Label, Closing
  <2>2. 0 \in 0..Compensate /\ <<>> \in Seq(Seqno) /\ Len(<<>>) <= BacklogSize
    BY StreamAssumption
  <2> QED BY <1>1, <2>1, <2>2 DEF StreamInv, StreamType, Volume
<1>3. Goes(c, "teardown")
  BY <1>1 DEF Goes, Paced
<1> QED BY <1>2, <1>3, GoesKeeps DEF Label, Closing

(* The finally blocks of a stream close what it held, in whatever step it   *)
(* failed.                                                                  *)
LEMMA FinallyKeeps ==
    ASSUME StreamInv, NEW c \in Caller, pc[c] \notin {"idle", "read", "sleep"}, Finally(c),
           backlog' \in {backlog, <<>>},
           sockets' \subseteq sockets, feedback' \in {feedback, FALSE}, syncing' \in {syncing, FALSE},
           info' \in {info, FALSE}
    PROVE  StreamInv'
<1>1. /\ pc' = [pc EXCEPT ![c] = "close_source"] /\ taken' = FALSE
      /\ deferred' = "unset" /\ left' = 0 /\ late' = 0
      /\ UNCHANGED <<acquired, connection, client, playing, forgotten, rtpseq, padding>>
  BY DEF Finally, GoesTo, Forget, contextVars
<1>2. StreamType'
  <2>1. pc' \in [Caller -> Label]
    BY <1>1 DEF StreamInv, StreamType, Label, Closing
  <2>2. 0 \in 0..Compensate /\ <<>> \in Seq(Seqno) /\ Len(<<>>) <= BacklogSize
    BY StreamAssumption
  <2>3. backlog' \in Seq(Seqno) /\ Len(backlog') <= BacklogSize
    BY <2>2 DEF StreamInv, StreamType
  <2>4. feedback' \in BOOLEAN /\ syncing' \in BOOLEAN /\ info' \in BOOLEAN
    BY DEF StreamInv, StreamType
  <2>5. sockets' \subseteq Socket
    BY DEF StreamInv, StreamType
  <2> QED BY <1>1, <2>1, <2>2, <2>3, <2>4, <2>5 DEF StreamInv, StreamType, Volume
<1>3. Goes(c, "close_source")
  BY <1>1 DEF Goes, Paced
<1> QED BY <1>2, <1>3, GoesKeeps DEF Label, Closing

(* send_audio begins with the source.                                       *)
LEMMA BeginSendAudioKeeps ==
    ASSUME StreamInv, NEW c \in Caller, pc[c] \in {"open_source", "set_volume"}, BeginSendAudio(c),
           left' \in Length \cup {Endless} \cup {left}, deferred' \in Volume
    PROVE  StreamInv'
<1>1. /\ pc' = [pc EXCEPT ![c] = "endpoint"] /\ rtpseq' \in Seqno /\ padding' = 0
      /\ UNCHANGED <<acquired, taken, connection, client, playing, sockets, forgotten, feedback, syncing, info,
                     late, backlog>>
  BY DEF BeginSendAudio, GoesTo, ContextReset, managerVars, clientVars
<1>2. StreamType'
  <2>1. pc' \in [Caller -> Label]
    BY <1>1 DEF StreamInv, StreamType, Label, Sending
  <2>2. left' \in Nat \cup {Endless} /\ 0 \in 0..Latency
    BY StreamAssumption DEF StreamInv, StreamType
  <2> QED BY <1>1, <2>1, <2>2 DEF StreamInv, StreamType
<1>3. Goes(c, "endpoint")
  BY <1>1, StreamAssumption DEF Goes
<1> QED BY <1>2, <1>3, GoesKeeps DEF Label, Sending

-----------------------------------------------------------------------------
(* The steps of stream_file.                                                *)
LEMMA OpeningKeeps ==
    ASSUME StreamInv, NEW c \in Caller,
           \/ Connected(c) \/ Bound(c, "control", "timing") \/ Bound(c, "timing", "setup") \/ SetUp(c)
           \/ OpenSource(c) \/ OpenSourceKnownVolume(c) \/ OpenSourceWrongVolume(c)
           \/ OpeningFails(c) \/ SetVolume(c) \/ SetVolumeFails(c)
    PROVE  StreamInv'
<1>0. StreamType
  BY DEF StreamInv
<1>1. CASE Connected(c)
  <2>1. /\ pc[c] = "http_connect" /\ pc' = [pc EXCEPT ![c] = "control"] /\ connection' = "up" /\ client' = TRUE
        /\ UNCHANGED <<acquired, taken, playing, sockets, forgotten, feedback, syncing, info, deferred,
                       rtpseq, padding, left, late, backlog>>
    BY <1>1 DEF Connected, At, GoesTo, clientVars, contextVars, streamVars
  <2>2. StreamType'
    <3>1. pc' \in [Caller -> Label]
      BY <1>0, <2>1 DEF StreamType, Label, Opening
    <3> QED BY <1>0, <2>1, <3>1 DEF StreamType
  <2>3. Goes(c, "control")
    BY <2>1 DEF Goes, Paced
  <2> QED BY <2>1, <2>2, <2>3, GoesKeeps DEF Label, Opening
<1>2. ASSUME NEW socket \in {"control", "timing"}, NEW next \in {"timing", "setup"}, Bound(c, socket, next)
      PROVE  StreamInv'
  <2>1. /\ pc[c] = socket /\ pc' = [pc EXCEPT ![c] = next] /\ sockets' = sockets \cup {socket}
        /\ UNCHANGED <<acquired, taken, connection, client, playing, forgotten, feedback, syncing, info, deferred,
                       rtpseq, padding, left, late, backlog>>
    BY <1>2 DEF Bound, At, GoesTo, managerVars, contextVars, streamVars
  <2>2. StreamType'
    <3>1. pc' \in [Caller -> Label]
      BY <1>0, <2>1 DEF StreamType, Label, Opening
    <3> QED BY <1>0, <2>1, <3>1 DEF StreamType, Socket
  <2>3. Goes(c, next)
    BY <2>1 DEF Goes, Paced
  <2> QED BY <2>1, <2>2, <2>3, GoesKeeps DEF Label, Opening
<1>3. CASE SetUp(c)
  <2>1. /\ pc[c] = "setup" /\ pc' = [pc EXCEPT ![c] = "open_source"] /\ sockets' \subseteq sockets \cup {"events"}
        /\ UNCHANGED <<acquired, taken, connection, client, playing, forgotten, feedback, syncing, info, deferred,
                       rtpseq, padding, left, late, backlog>>
    BY <1>3 DEF SetUp, At, GoesTo, managerVars, contextVars, streamVars
  <2>2. StreamType'
    <3>1. pc' \in [Caller -> Label]
      BY <1>0, <2>1 DEF StreamType, Label, Opening
    <3> QED BY <1>0, <2>1, <3>1 DEF StreamType, Socket
  <2>3. Goes(c, "open_source")
    BY <2>1 DEF Goes, Paced
  <2> QED BY <2>1, <2>2, <2>3, GoesKeeps DEF Label, Opening
<1>4. CASE OpenSource(c)
  <2>1. /\ pc[c] = "open_source" /\ pc' = [pc EXCEPT ![c] = "set_volume"] /\ left' \in Length \cup {Endless}
        /\ UNCHANGED <<acquired, taken, connection, client, playing, sockets, forgotten, feedback, syncing, info,
                       deferred, rtpseq, padding, late, backlog>>
    BY <1>4 DEF OpenSource, At, GoesTo, managerVars, clientVars, contextVars
  <2>2. StreamType'
    <3>1. pc' \in [Caller -> Label]
      BY <1>0, <2>1 DEF StreamType, Label
    <3>2. left' \in Nat \cup {Endless}
      BY <2>1, StreamAssumption
    <3> QED BY <1>0, <2>1, <3>1, <3>2 DEF StreamType
  <2>3. Goes(c, "set_volume")
    BY <2>1 DEF Goes, Paced
  <2> QED BY <2>1, <2>2, <2>3, GoesKeeps DEF Label
<1>5. CASE OpenSourceKnownVolume(c)
  <2>1. /\ pc[c] = "open_source" /\ left' \in Length \cup {Endless} /\ BeginSendAudio(c) /\ deferred' = deferred
    BY <1>5 DEF OpenSourceKnownVolume, At
  <2> QED BY <1>0, <2>1, BeginSendAudioKeeps DEF StreamType
<1>6. CASE OpenSourceWrongVolume(c)
  BY <1>6, FinallyKeeps DEF OpenSourceWrongVolume, At
<1>7. CASE OpeningFails(c)
  BY <1>7, AbandonKeeps DEF OpeningFails
<1>8. CASE SetVolume(c)
  BY <1>0, <1>8, BeginSendAudioKeeps DEF SetVolume, At, StreamType
<1>9. CASE SetVolumeFails(c)
  BY <1>9, BeginSendAudioKeeps DEF SetVolumeFails, At, Volume
<1> QED BY <1>1, <1>2, <1>3, <1>4, <1>5, <1>6, <1>7, <1>8, <1>9

(* The steps before and between the packets.                                *)
LEMMA SendingKeeps ==
    ASSUME StreamInv, NEW c \in Caller,
           \/ Endpoint(c) \/ EndpointFails(c) \/ Metadata(c) \/ Feedback(c)
           \/ Record(c) \/ DeferredVolume(c) \/ Lap(c) \/ ReadClosed(c) \/ SendFails(c)
    PROVE  StreamInv'
<1>0. StreamType /\ \A d \in Caller : pc[d] \in Paced => padding < Latency
  BY DEF StreamInv, Held
<1>1. CASE Endpoint(c)
  <2>1. PICK next \in {"metadata", "feedback"} : pc' = [pc EXCEPT ![c] = next]
    BY <1>1 DEF Endpoint, GoesTo
  <2>2. /\ pc[c] = "endpoint" /\ sockets' = sockets \cup {"audio"} /\ syncing' = TRUE
        /\ UNCHANGED <<acquired, taken, connection, client, playing, forgotten, feedback, info, deferred,
                       rtpseq, padding, left, late, backlog>>
    BY <1>1 DEF Endpoint, At, ControlStart, managerVars, contextVars, streamVars
  <2>3. StreamType'
    <3>1. pc' \in [Caller -> Label]
      BY <1>0, <2>1 DEF StreamType, Label, Sending
    <3> QED BY <1>0, <2>2, <3>1 DEF StreamType, Socket
  <2>4. Goes(c, next)
    BY <1>0, <2>1, <2>2 DEF Goes, Paced
  <2> QED BY <2>2, <2>3, <2>4, GoesKeeps DEF Label, Sending
<1>2. CASE EndpointFails(c)
  <2>1. /\ pc[c] = "endpoint" /\ Finally(c) /\ backlog' = <<>> /\ info' = FALSE
        /\ feedback' = FALSE /\ syncing' = FALSE /\ sockets' \subseteq sockets
    BY <1>2 DEF EndpointFails, At, SendFinallyUnconnected, ClientClose, ProtocolTeardown, ControlClose
  <2> QED BY <2>1, FinallyKeeps
<1>3. CASE Metadata(c)
  <2>1. /\ pc[c] = "metadata" /\ pc' = [pc EXCEPT ![c] = "feedback"]
        /\ UNCHANGED <<acquired, taken, connection, client, playing, sockets, forgotten, feedback, syncing, info,
                       deferred, rtpseq, padding, left, late, backlog>>
    BY <1>3 DEF Metadata, At, GoesTo, managerVars, clientVars, contextVars, streamVars
  <2>2. StreamType'
    <3>1. pc' \in [Caller -> Label]
      BY <1>0, <2>1 DEF StreamType, Label, Sending
    <3> QED BY <1>0, <2>1, <3>1 DEF StreamType
  <2>3. Goes(c, "feedback")
    BY <1>0, <2>1 DEF Goes, Paced
  <2> QED BY <2>1, <2>2, <2>3, GoesKeeps DEF Label, Sending
<1>4. CASE Feedback(c)
  <2>1. /\ pc[c] = "feedback" /\ pc' = [pc EXCEPT ![c] = "record"] /\ feedback' \in BOOLEAN /\ info' = TRUE
        /\ UNCHANGED <<acquired, taken, connection, client, playing, sockets, forgotten, syncing,
                       deferred, rtpseq, padding, left, late, backlog>>
    BY <1>4 DEF Feedback, At, GoesTo, managerVars, contextVars, streamVars
  <2>2. StreamType'
    <3>1. pc' \in [Caller -> Label]
      BY <1>0, <2>1 DEF StreamType, Label, Sending
    <3> QED BY <1>0, <2>1, <3>1 DEF StreamType
  <2>3. Goes(c, "record")
    BY <1>0, <2>1 DEF Goes, Paced
  <2> QED BY <2>1, <2>2, <2>3, GoesKeeps DEF Label, Sending
<1>5. ASSUME pc[c] \in {"record", "volume"}, StreamData(c), deferred' \in Volume PROVE StreamInv'
  <2>1. /\ pc' = [pc EXCEPT ![c] = "read"] /\ playing' = TRUE
        /\ UNCHANGED <<acquired, taken, connection, client, sockets, forgotten, feedback, syncing, info,
                       rtpseq, padding, left, late, backlog>>
    BY <1>5 DEF StreamData, GoesTo, managerVars, contextVars, streamVars
  <2>2. StreamType'
    <3>1. pc' \in [Caller -> Label]
      BY <1>0, <2>1 DEF StreamType, Label, Sending
    <3> QED BY <1>0, <1>5, <2>1, <3>1 DEF StreamType
  <2>3. Goes(c, "read")
    BY <1>0, <1>5, <2>1 DEF Goes, Paced
  <2> QED BY <1>5, <2>2, <2>3, GoesKeeps DEF Label, Sending
<1>6. CASE Record(c)
  <2>1. pc[c] = "record" /\ deferred' = deferred
    BY <1>6 DEF Record, At
  <2>2. CASE StreamData(c)
    BY <1>0, <1>5, <2>1, <2>2 DEF StreamType
  <2>3. CASE ~ StreamData(c)
    <3>1. /\ pc' = [pc EXCEPT ![c] = "volume"]
          /\ UNCHANGED <<acquired, taken, connection, client, playing, sockets, forgotten, feedback, syncing, info,
                         rtpseq, padding, left, late, backlog>>
      BY <1>6, <2>3 DEF Record, GoesTo, managerVars, clientVars, contextVars, streamVars
    <3>2. StreamType'
      <4>1. pc' \in [Caller -> Label]
        BY <1>0, <3>1 DEF StreamType, Label, Sending
      <4> QED BY <1>0, <2>1, <3>1, <4>1 DEF StreamType
    <3>3. Goes(c, "volume")
      BY <1>0, <2>1, <3>1 DEF Goes, Paced
    <3> QED BY <2>1, <3>2, <3>3, GoesKeeps DEF Label, Sending
  <2> QED BY <2>2, <2>3
<1>7. CASE DeferredVolume(c)
  BY <1>5, <1>7 DEF DeferredVolume, At, Volume
<1>8. CASE Lap(c)
  <2>1. pc[c] = "sleep"
    BY <1>8 DEF Lap, At
  <2>2. CASE SendFinally(c)
    BY <2>1, <2>2, SendFinallyKeeps
  <2>3. CASE ~ SendFinally(c)
    <3>1. /\ padding < Latency /\ pc' = [pc EXCEPT ![c] = "read"]
          /\ UNCHANGED <<acquired, taken, connection, client, playing, sockets, forgotten, feedback, syncing, info,
                         deferred, rtpseq, padding, left, late, backlog>>
      BY <1>0, <1>8, <2>3, StreamAssumption DEF Lap, GoesTo, managerVars, clientVars, contextVars, streamVars, StreamType
    <3>2. StreamType'
      <4>1. pc' \in [Caller -> Label]
        BY <1>0, <3>1 DEF StreamType, Label, Sending
      <4> QED BY <1>0, <3>1, <4>1 DEF StreamType
    <3>3. Goes(c, "read")
      BY <3>1 DEF Goes
    <3> QED BY <2>1, <3>2, <3>3, GoesKeeps DEF Label, Sending
  <2> QED BY <2>2, <2>3
<1>9. CASE ReadClosed(c)
  BY <1>9, SendFinallyKeeps DEF ReadClosed, At
<1>10. CASE SendFails(c)
  <2>1. pc[c] # "idle" /\ SendFinally(c)
    BY <1>10 DEF SendFails, Sending
  <2> QED BY <2>1, SendFinallyKeeps
<1> QED BY <1>1, <1>2, <1>3, <1>4, <1>6, <1>7, <1>8, <1>9, <1>10

(* The steps that tear a stream down.                                       *)
LEMMA ClosingKeeps ==
    ASSUME StreamInv, NEW c \in Caller, Teardown(c) \/ TeardownRaises(c) \/ CloseSource(c)
    PROVE  StreamInv'
<1>1. CASE Teardown(c)
  <2>1. /\ pc[c] = "teardown" /\ Finally(c) /\ backlog' = backlog /\ info' = FALSE
        /\ feedback' = FALSE /\ syncing' = FALSE /\ sockets' \subseteq sockets
    BY <1>1 DEF Teardown, At, ClientClose, ProtocolTeardown, ControlClose
  <2> QED BY <2>1, FinallyKeeps
<1>2. CASE TeardownRaises(c)
  <2>1. /\ pc[c] = "teardown" /\ Finally(c)
        /\ UNCHANGED <<sockets, feedback, syncing, info, backlog>>
    BY <1>2 DEF TeardownRaises, At
  <2> QED BY <2>1, FinallyKeeps
<1>3. CASE CloseSource(c)
  BY <1>3, AbandonKeeps DEF CloseSource, At
<1> QED BY <1>1, <1>2, <1>3

(* What happens beside the stream.                                          *)
LEMMA BesideKeeps == ASSUME StreamInv, Stop \/ LoseConnection \/ AudioError PROVE StreamInv'
<1>1. /\ playing' \in BOOLEAN /\ sockets' \subseteq sockets
      /\ connection' \in {"none", "up", "lost"} /\ (connection = "none" => connection' = "none")
      /\ UNCHANGED <<pc, acquired, taken, client, forgotten, feedback, syncing, info, deferred,
                     rtpseq, padding, left, late, backlog>>
  BY DEF StreamInv, StreamType, Stop, LoseConnection, AudioError, managerVars, clientVars, contextVars, streamVars
<1>2. StreamType'
  BY <1>1 DEF StreamInv, StreamType
<1>3. Held' /\ InOrder'
  BY <1>1 DEF StreamInv, Held, InOrder, OneStream, Streaming, Resting
<1> QED BY <1>2, <1>3 DEF StreamInv

(* Every step of a stream keeps the invariant.                              *)
LEMMA StreamNextInv == ASSUME StreamInv, [StreamNext]_streamerVars PROVE StreamInv'
<1>1. ASSUME NEW c \in Caller, Progress(c) PROVE StreamInv'
  BY <1>1, OpeningKeeps, SendingKeeps, ReadKeeps, ClosingKeeps DEF Progress
<1>2. CASE UNCHANGED streamerVars
  <2>1. UNCHANGED <<pc, acquired, taken, connection, client, playing, sockets, forgotten, feedback, syncing, info,
                    deferred, rtpseq, padding, left, late, backlog>>
    BY <1>2 DEF streamerVars, managerVars, clientVars, contextVars, streamVars
  <2> QED BY <2>1 DEF StreamInv, StreamType, Held, InOrder, OneStream, Streaming, Resting
<1> QED BY <1>1, <1>2, AcquireKeeps, TakeoverRaisesKeeps, BesideKeeps DEF StreamNext

(* The other parts of a behaviour leave the stream alone.                   *)
LEMMA StreamInvariant == Spec => []StreamInv
<1>1. Init => StreamInv
  BY InitStream DEF Init
<1>2. StreamInv /\ [Next]_vars => StreamInv'
  <2>1. [Next]_vars => [StreamNext]_streamerVars
    BY DEF Next, vars
  <2> QED BY <2>1, StreamNextInv
<1> QED BY <1>1, <1>2, PTL DEF Spec

-----------------------------------------------------------------------------
(* The packets in the backlog have different numbers, as the FIFO demands:   *)
(* it is shorter than a turn of the numbers.                                *)
LEMMA DifferentNumbers == ASSUME StreamInv PROVE IsInjective(backlog)
<1>1. /\ Modulus \in Nat \ {0} /\ BacklogSize \in 1..(Modulus - 1) /\ rtpseq \in 0..(Modulus - 1)
      /\ backlog \in Seq(Seqno) /\ Len(backlog) <= BacklogSize
      /\ \A i \in DOMAIN backlog : backlog[i] = (rtpseq - Len(backlog) + i - 1) % Modulus
  BY StreamAssumption DEF StreamInv, StreamType, InOrder, Seqno
<1> DEFINE n == Len(backlog)
<1>2. n \in 0..(Modulus - 1) /\ DOMAIN backlog = 1..n
  BY <1>1
<1> HIDE DEF n
<1>3. ASSUME NEW i \in 1..n, NEW j \in 1..n, (rtpseq - n + i - 1) % Modulus = (rtpseq - n + j - 1) % Modulus
      PROVE  i = j
  <2>1. \A k \in 1..n : (rtpseq - n + k - 1) % Modulus =
           IF rtpseq - n + k - 1 < 0 THEN rtpseq - n + k - 1 + Modulus ELSE rtpseq - n + k - 1
    <3> TAKE k \in 1..n
    <3> DEFINE x == rtpseq - n + k - 1
    <3>1. x \in Int /\ -Modulus <= x /\ x < Modulus
      BY <1>1, <1>2
    <3> HIDE DEF x
    <3>2. x % Modulus = IF x < 0 THEN x + Modulus ELSE x
      BY <1>1, <3>1
    <3> QED BY <3>2 DEF x
  <2> DEFINE x == rtpseq - n + i - 1
             y == rtpseq - n + j - 1
  <2>2. x \in Int /\ y \in Int /\ x - y = i - j /\ i - j < Modulus /\ j - i < Modulus /\ i \in Int /\ j \in Int
    BY <1>1, <1>2
  <2>3. (IF x < 0 THEN x + Modulus ELSE x) = (IF y < 0 THEN y + Modulus ELSE y)
    BY <1>3, <2>1
  <2>4. /\ -Modulus <= x /\ x < Modulus /\ -Modulus <= y /\ y < Modulus
    BY <1>1, <1>2
  <2> HIDE DEF x, y
  <2>5. x = y
    BY <1>1, <2>2, <2>3, <2>4
  <2> QED BY <2>2, <2>5
<1>4. \A i, j \in 1..n : backlog[i] = backlog[j] => i = j
  BY <1>1, <1>2, <1>3 DEF n
<1> QED BY <1>2, <1>4 DEF IsInjective

(* The state of a stream has its type.                                      *)
THEOREM StreamTypeCorrect == Spec => []StreamTypeOK
<1>1. StreamInv => StreamTypeOK
  BY DifferentNumbers DEF StreamInv, StreamType, StreamTypeOK
<1> QED BY <1>1, StreamInvariant, PTL

(* However stream_file ends, and whichever step of it raised, the manager   *)
(* is released with nothing left of the stream but the two sockets that     *)
(* nobody closes; and it has one stream at a time.                          *)
THEOREM EverythingIsGivenBack == Spec => []NothingLeft
<1>1. StreamInv => NothingLeft
  <2> SUFFICES ASSUME StreamInv PROVE NothingLeft
    OBVIOUS
  <2>1. Held
    BY DEF StreamInv
  <2>2. Resting => backlog = <<>>
    BY <2>1 DEF Held, Resting, Streaming
  <2> QED BY <2>1, <2>2 DEF Held, NothingLeft, Resting
<1> QED BY <1>1, StreamInvariant, PTL

(* What the receiver asks for again is found in the backlog, and nothing    *)
(* else, as far as the request does not run over the wrap of the numbers;   *)
(* the backlog is the packets sent last, also where they wrap.              *)
THEOREM LostPacketsAreResent == Spec => []LostIsResent
<1>1. StreamInv => LostIsResent
  <2> SUFFICES ASSUME StreamInv PROVE LostIsResent
    OBVIOUS
  <2>1. /\ Modulus \in Nat \ {0} /\ BacklogSize \in 1..(Modulus - 1) /\ backlog \in Seq(Seqno) /\ InOrder
    BY StreamAssumption DEF StreamInv, StreamType
  <2>2. ToSet(backlog) \subseteq 0..(Modulus - 1)
    BY <2>1 DEF ToSet, Seqno
  <2>3. ASSUME NEW first \in 0..(Modulus - 1), NEW i \in 0..(BacklogSize - 1)
        PROVE  /\ first + i \in ToSet(backlog) => (first + i) % Modulus = first + i
               /\ (first + i) % Modulus >= first => (first + i) % Modulus = first + i
    <3> DEFINE x == first + i
    <3>1. x \in Int /\ 0 <= x /\ x < 2 * Modulus /\ x - Modulus < first /\ x \in ToSet(backlog) => x < Modulus
      BY <2>1, <2>2
    <3>2. x \in Int /\ 0 <= x /\ x < 2 * Modulus /\ x - Modulus < first
      BY <2>1
    <3>3. x % Modulus = IF x < Modulus THEN x ELSE x - Modulus
      <4> HIDE DEF x
      <4>1. Modulus \in Nat \ {0}
        BY <2>1
      <4> QED BY <4>1, <3>2
    <3> QED BY <2>1, <3>1, <3>2, <3>3
  <2>4. ASSUME NEW first \in Seqno, NEW count \in 1..BacklogSize
        PROVE  /\ Resent(first, count) \subseteq Asked(first, count)
               /\ \A seqno \in Asked(first, count) \cap ToSet(backlog) :
                     seqno >= first => seqno \in Resent(first, count)
    <3>1. first \in 0..(Modulus - 1) /\ \A i \in 0..(count - 1) : i \in 0..(BacklogSize - 1)
      BY <2>1 DEF Seqno
    <3>2. \A i \in 0..(count - 1) :
             /\ first + i \in ToSet(backlog) => (first + i) % Modulus = first + i
             /\ (first + i) % Modulus >= first => (first + i) % Modulus = first + i
      BY <3>1, <2>3
    <3> QED BY <3>2 DEF Resent, Asked
  <2> QED BY <2>1, <2>4 DEF LostIsResent, InOrder
<1> QED BY <1>1, StreamInvariant, PTL

-----------------------------------------------------------------------------
(* Sequences that are joined and cut.                                       *)
LEMMA Joined ==
    ASSUME NEW S, NEW s \in Seq(S), NEW t \in Seq(S)
    PROVE  /\ s \o t \in Seq(S) /\ Len(s \o t) = Len(s) + Len(t)
           /\ \A i \in 1..(Len(s) + Len(t)) :
                 (s \o t)[i] = IF i <= Len(s) THEN s[i] ELSE t[i - Len(s)]
BY ConcatProperties, Zenon

LEMMA Cut ==
    ASSUME NEW S, NEW s \in Seq(S), NEW m \in 1..(Len(s) + 1), NEW n \in (m - 1)..Len(s)
    PROVE  /\ SubSeq(s, m, n) \in Seq(S) /\ Len(SubSeq(s, m, n)) = n - m + 1
           /\ \A i \in 1..(n - m + 1) : SubSeq(s, m, n)[i] = s[m + i - 1]
BY SubSeqProperties

-----------------------------------------------------------------------------
(* Frames that are buffered.                                                *)

(* What was delivered and what is buffered are the bytes decoded so far.     *)
Contiguous ==
    /\ Len(delivered) + Len(audioBuffer) = decoded
    /\ \A i \in 1..Len(delivered) : delivered[i] = i
    /\ \A i \in 1..Len(audioBuffer) : audioBuffer[i] = Len(delivered) + i

(* The event of a buffer that is to be filled again is not set when it is    *)
(* full, so that the task does not read past it more than once.             *)
Bounded ==
    /\ filler = "reads" =>
        /\ Len(audioBuffer) < AudioBufferSize + CHUNK_SIZE
        /\ refill => Len(audioBuffer) < AudioBufferSize
    /\ filler = "waits" /\ refill => Len(audioBuffer) < AudioBufferSize
    /\ Len(audioBuffer) < AudioBufferSize + 2 * CHUNK_SIZE

(* Who waits is woken by frames or by the end of the source.                *)
Ended ==
    /\ filler = "ended" /\ frames # "closed" => decoded = Total
    /\ frames = "waits" /\ added => audioBuffer # <<>> \/ filler = "ended"
    /\ frames = "over" => filler = "ended" /\ audioBuffer = <<>>

FramesType ==
    /\ decoded \in 0..Total
    /\ audioBuffer \in Seq(Nat) /\ delivered \in Seq(Nat)
    /\ refill \in BOOLEAN /\ added \in BOOLEAN
    /\ filler \in {"reads", "waits", "ended"}
    /\ frames \in {"idle", "waits", "over", "closed"}

FramesInv == FramesType /\ Contiguous /\ Bounded /\ Ended

FramesNumbers ==
    /\ Total \in Nat /\ CHUNK_SIZE \in Nat /\ PacketSize \in Nat /\ AudioBufferSize \in Nat
    /\ CHUNK_SIZE > 0 /\ PacketSize > 0 /\ AudioBufferSize > 0

LEMMA FramesConstants == FramesNumbers
BY FramesAssumption DEF FramesNumbers

LEMMA FillsKeeps ==
    ASSUME FramesInv, Fills
    PROVE  FramesInv'
<1> USE FramesConstants DEF FramesNumbers
<1> DEFINE n == IF decoded + CHUNK_SIZE <= Total THEN CHUNK_SIZE ELSE Total - decoded
           b == Len(audioBuffer)
           d == Len(delivered)
<1>1. /\ decoded \in 0..Total /\ audioBuffer \in Seq(Nat) /\ delivered \in Seq(Nat)
      /\ refill \in BOOLEAN /\ added \in BOOLEAN
      /\ b \in Nat /\ d \in Nat /\ d + b = decoded
  BY DEF FramesInv, FramesType, Contiguous
<1>2. /\ n > 0 /\ decoded' = decoded + n /\ audioBuffer' = audioBuffer \o ChunkRead(n)
      /\ added' = (added \/ Len(audioBuffer') >= PacketSize)
      /\ filler = "reads" /\ UNCHANGED <<frames, delivered>>
  BY DEF Fills
<1>3. n \in Nat /\ n <= CHUNK_SIZE /\ decoded + n <= Total
  BY <1>1
<1> HIDE DEF n
<1>4. /\ ChunkRead(n) \in Seq(Nat) /\ Len(ChunkRead(n)) = n
      /\ \A i \in 1..n : ChunkRead(n)[i] = decoded + i
  BY <1>1, <1>3 DEF ChunkRead
<1>5. /\ audioBuffer' \in Seq(Nat) /\ Len(audioBuffer') = b + n
      /\ \A i \in 1..(b + n) : audioBuffer'[i] = IF i <= b THEN audioBuffer[i] ELSE ChunkRead(n)[i - b]
  <2>1. /\ audioBuffer \o ChunkRead(n) \in Seq(Nat)
        /\ Len(audioBuffer \o ChunkRead(n)) = Len(audioBuffer) + Len(ChunkRead(n))
        /\ \A i \in 1..(Len(audioBuffer) + Len(ChunkRead(n))) :
              (audioBuffer \o ChunkRead(n))[i] =
                 IF i <= Len(audioBuffer) THEN audioBuffer[i] ELSE ChunkRead(n)[i - Len(audioBuffer)]
    BY <1>1, <1>4, Joined
  <2> QED
    BY <1>2, <1>4, <2>1
<1>6. b + n \in Nat /\ b + n >= b /\ b + n > 0
  BY <1>1, <1>2, <1>3
<1>7. Contiguous'
  <2>1. \A i \in 1..b : audioBuffer[i] = d + i
    BY DEF FramesInv, Contiguous
  <2>2. ASSUME NEW i \in 1..(b + n)
        PROVE  audioBuffer'[i] = d + i
    <3>1. CASE i <= b
      <4>1. i \in 1..b
        BY <1>1, <1>6, <3>1
      <4> QED
        BY <1>5, <2>1, <3>1, <4>1
    <3>2. CASE ~ (i <= b)
      <4>0. b \in Nat /\ d \in Nat /\ n \in Nat /\ decoded = d + b /\ i \in 1..(b + n) /\ ~ (i <= b)
        BY <1>1, <1>3, <3>2
      <4>1. i - b \in 1..n /\ decoded + (i - b) = d + i
        <5> HIDE DEF b, d
        <5> QED BY ONLY <4>0
      <4> QED
        BY <1>4, <1>5, <3>2, <4>1
    <3> QED
      BY <3>1, <3>2
  <2>3. d + (b + n) = decoded + n
    BY <1>1, <1>3
  <2> QED
    BY <1>2, <1>5, <2>2, <2>3 DEF FramesInv, Contiguous
<1>8. Bounded'
  <2>1. b < AudioBufferSize + CHUNK_SIZE /\ (refill => b < AudioBufferSize)
    BY <1>2 DEF FramesInv, Bounded
  <2>2. CASE b + n < AudioBufferSize
    <3>1. UNCHANGED <<filler, refill>>
      BY <1>5, <2>2 DEF Fills
    <3> QED
      BY <1>2, <1>5, <1>6, <2>2, <3>1 DEF Bounded
  <2>3. CASE ~ (b + n < AudioBufferSize) /\ refill
    <3>1. refill' = FALSE /\ UNCHANGED filler
      BY <1>5, <2>3 DEF Fills
    <3>2. b + n < AudioBufferSize + CHUNK_SIZE
      BY <1>1, <1>3, <2>1, <2>3
    <3> QED
      BY <1>2, <1>5, <1>6, <3>1, <3>2 DEF Bounded
  <2>4. CASE ~ (b + n < AudioBufferSize) /\ ~ refill
    <3>1. filler' = "waits" /\ UNCHANGED refill
      BY <1>5, <2>4 DEF Fills
    <3>2. b + n < AudioBufferSize + 2 * CHUNK_SIZE
      BY <1>1, <1>3, <2>1
    <3> QED
      BY <1>5, <2>4, <3>1, <3>2 DEF Bounded
  <2> QED
    BY <2>2, <2>3, <2>4
<1>9. filler' \in {"reads", "waits"} /\ refill' \in BOOLEAN /\ added' \in BOOLEAN
  BY <1>1, <1>2 DEF Fills
<1>10. FramesType'
  BY <1>1, <1>2, <1>3, <1>5, <1>9 DEF FramesInv, FramesType
<1>11. Ended'
  <2>1. audioBuffer' # <<>>
    BY <1>5, <1>6
  <2> QED
    BY <1>2, <1>9, <2>1 DEF FramesInv, Ended
<1> QED
  BY <1>7, <1>8, <1>10, <1>11 DEF FramesInv

(* readframes takes what there is of a packet.                              *)
LEMMA ReturnsKeeps ==
    ASSUME FramesInv, Returns(Available), UNCHANGED <<decoded, filler>>, added' \in BOOLEAN,
           audioBuffer = <<>> => filler = "ended", frames # "closed"
    PROVE  FramesInv'
<1> USE FramesConstants DEF FramesNumbers
<1> DEFINE n == Available
           b == Len(audioBuffer)
           d == Len(delivered)
<1>1. /\ decoded \in 0..Total /\ audioBuffer \in Seq(Nat) /\ delivered \in Seq(Nat)
      /\ refill \in BOOLEAN /\ b \in Nat /\ d \in Nat /\ d + b = decoded
      /\ \A i \in 1..d : delivered[i] = i
      /\ \A i \in 1..b : audioBuffer[i] = d + i
  BY DEF FramesInv, FramesType, Contiguous
<1>2. /\ delivered' = delivered \o SubSeq(audioBuffer, 1, n)
      /\ audioBuffer' = SubSeq(audioBuffer, n + 1, b)
      /\ refill' = (refill \/ 2 * Len(audioBuffer') < AudioBufferSize)
      /\ frames' = IF n = 0 THEN "over" ELSE "idle"
  BY DEF Returns, From
<1>3. n \in 0..b /\ (n = 0 => b = 0)
  BY <1>1 DEF Available
<1> HIDE DEF n
<1>4. /\ SubSeq(audioBuffer, 1, n) \in Seq(Nat) /\ Len(SubSeq(audioBuffer, 1, n)) = n
      /\ \A i \in 1..n : SubSeq(audioBuffer, 1, n)[i] = audioBuffer[i]
  BY <1>1, <1>3, SubSeqProperties
<1>5. /\ audioBuffer' \in Seq(Nat) /\ Len(audioBuffer') = b - n
      /\ \A i \in 1..(b - n) : audioBuffer'[i] = audioBuffer[n + i]
  <2>1. /\ n + 1 \in 1..(Len(audioBuffer) + 1) /\ b \in ((n + 1) - 1)..Len(audioBuffer)
        /\ b - (n + 1) + 1 = b - n
    BY <1>1, <1>3
  <2>2. /\ SubSeq(audioBuffer, n + 1, b) \in Seq(Nat)
        /\ Len(SubSeq(audioBuffer, n + 1, b)) = b - (n + 1) + 1
        /\ \A i \in 1..(b - (n + 1) + 1) :
              SubSeq(audioBuffer, n + 1, b)[i] = audioBuffer[(n + 1) + i - 1]
    <3>1. audioBuffer \in Seq(Nat)
      BY <1>1
    <3> HIDE DEF b
    <3> QED
      BY ONLY <2>1, <3>1, Cut
  <2>3. \A i \in 1..(b - n) : (n + 1) + i - 1 = n + i
    BY <1>1, <1>3
  <2> QED
    BY <1>2, <2>1, <2>2, <2>3
<1>6. /\ delivered' \in Seq(Nat) /\ Len(delivered') = d + n
      /\ \A i \in 1..(d + n) : delivered'[i] =
            IF i <= d THEN delivered[i] ELSE SubSeq(audioBuffer, 1, n)[i - d]
  <2> DEFINE t == SubSeq(audioBuffer, 1, n)
  <2>1. /\ delivered \o t \in Seq(Nat)
        /\ Len(delivered \o t) = Len(delivered) + Len(t)
        /\ \A i \in 1..(Len(delivered) + Len(t)) :
              (delivered \o t)[i] = IF i <= Len(delivered) THEN delivered[i] ELSE t[i - Len(delivered)]
    BY <1>1, <1>4, Joined
  <2> QED
    BY <1>2, <1>4, <2>1
<1>7. Contiguous'
  <2>1. ASSUME NEW i \in 1..(d + n)
        PROVE  delivered'[i] = i
    <3>1. CASE i <= d
      <4>1. i \in 1..d
        BY <1>1, <1>3, <3>1
      <4> QED
        BY <1>1, <1>6, <3>1, <4>1
    <3>2. CASE ~ (i <= d)
      <4>1. i - d \in 1..n /\ i - d \in 1..b /\ d + (i - d) = i
        BY <1>1, <1>3, <3>2
      <4> QED
        BY <1>1, <1>4, <1>6, <3>2, <4>1
    <3> QED
      BY <3>1, <3>2
  <2>2. ASSUME NEW i \in 1..(b - n)
        PROVE  audioBuffer'[i] = (d + n) + i
    <3>1. n + i \in 1..b /\ d + (n + i) = (d + n) + i
      BY <1>1, <1>3
    <3> QED
      BY <1>1, <1>5, <3>1
  <2>3. (d + n) + (b - n) = decoded
    <3>1. b \in Nat /\ d \in Nat /\ n \in Nat /\ d + b = decoded
      BY <1>1, <1>3
    <3> HIDE DEF b, d
    <3> QED
      BY ONLY <3>1
  <2> QED
    BY <1>5, <1>6, <2>1, <2>2, <2>3 DEF Contiguous
<1>8. Bounded'
  <2>1. b - n \in Nat /\ b - n <= b
    BY <1>1, <1>3
  <2>2. refill' => refill \/ b - n < AudioBufferSize
    <3> HIDE DEF b
    <3>1. 2 * (b - n) < AudioBufferSize => b - n < AudioBufferSize
      BY <2>1
    <3> QED
      BY <1>2, <1>5, <3>1
  <2> QED
    BY <1>5, <2>1, <2>2 DEF FramesInv, FramesType, Bounded
<1>9. refill' \in BOOLEAN /\ frames' \in {"over", "idle"}
  BY <1>1, <1>2
<1>10. FramesType'
  BY <1>1, <1>5, <1>6, <1>9 DEF FramesInv, FramesType
<1>11. Ended'
  <2>1. CASE frames' = "over"
    <3>1. n = 0 /\ b = 0
      BY <1>2, <1>3, <2>1
    <3>2. audioBuffer = <<>> /\ audioBuffer' = <<>>
      BY <1>1, <1>5, <3>1
    <3> QED
      BY <2>1, <3>2 DEF FramesInv, Ended
  <2>2. CASE frames' = "idle"
    BY <2>2 DEF FramesInv, Ended
  <2> QED
    BY <1>9, <2>1, <2>2
<1> QED
  BY <1>7, <1>8, <1>10, <1>11 DEF FramesInv

LEMMA FramesInvKept ==
    ASSUME FramesInv, [FramesNext]_framesVars
    PROVE  FramesInv'
<1>1. CASE Fills
  BY <1>1, FillsKeeps
<1>2. CASE FillRaises \/ UNCHANGED framesVars
  <2>1. UNCHANGED framesVars
    BY <1>2 DEF FillRaises
  <2>2. FramesType' /\ Contiguous' /\ Bounded' /\ Ended'
    BY <2>1, Zenon DEF framesVars, FramesInv, FramesType, Contiguous, Bounded, Ended
  <2> QED
    BY <2>2 DEF FramesInv
<1>3. CASE FillerGoesOn
  <2>1. FramesType' /\ Contiguous' /\ Ended'
    BY <1>3 DEF FillerGoesOn, FramesInv, FramesType, Contiguous, Ended
  <2>2. Len(audioBuffer) \in Nat /\ Len(audioBuffer) < AudioBufferSize
    BY <1>3 DEF FillerGoesOn, FramesInv, FramesType, Bounded
  <2>3. Bounded'
    BY <1>3, <2>2, FramesConstants DEF FillerGoesOn, Bounded, FramesNumbers
  <2> QED
    BY <2>1, <2>3 DEF FramesInv
<1>4. CASE FillerEnds
  BY <1>4 DEF FillerEnds, FramesInv, FramesType, Contiguous, Bounded, Ended
<1>5. CASE ReadFrames
  <2>1. CASE audioBuffer = <<>> /\ filler # "ended"
    <3>1. Len(audioBuffer) = 0
      BY <2>1
    <3>2. /\ frames' = "waits" /\ refill' = TRUE /\ added' = FALSE
          /\ UNCHANGED <<audioBuffer, delivered, decoded, filler>>
      BY <1>5, <2>1 DEF ReadFrames
    <3> QED
      BY <2>1, <3>1, <3>2, FramesConstants
      DEF FramesInv, FramesType, Contiguous, Bounded, Ended, FramesNumbers
  <2>2. CASE ~ (audioBuffer = <<>> /\ filler # "ended")
    BY <1>5, <2>2, ReturnsKeeps DEF ReadFrames, FramesInv, FramesType
  <2> QED
    BY <2>1, <2>2
<1>6. CASE ReadFramesGoesOn
  BY <1>6, ReturnsKeeps DEF ReadFramesGoesOn, FramesInv, FramesType, Ended
<1>7. CASE CloseFrames
  BY <1>7 DEF CloseFrames, FramesInv, FramesType, Contiguous, Bounded, Ended
<1> QED
  BY <1>1, <1>2, <1>3, <1>4, <1>5, <1>6, <1>7 DEF FramesNext, FramesRun

LEMMA FramesInvInit == FramesInit => FramesInv
<1> SUFFICES ASSUME FramesInit PROVE FramesInv
  OBVIOUS
<1> USE FramesConstants DEF FramesNumbers
<1>1. FramesType /\ Ended
  <2>1. decoded \in 0..Total /\ <<>> \in Seq(Nat)
    BY DEF FramesInit
  <2> QED
    BY <2>1, Zenon DEF FramesInit, FramesType, Ended
<1>2. Len(audioBuffer) = 0 /\ Len(delivered) = 0 /\ decoded = 0 /\ filler = "reads" /\ ~ refill
  BY DEF FramesInit
<1>3. Contiguous
  BY <1>2 DEF Contiguous
<1>4. Bounded
  BY <1>2 DEF Bounded
<1> QED
  BY <1>1, <1>3, <1>4 DEF FramesInv

LEMMA FramesAreWhole ==
    ASSUME FramesInv
    PROVE  WholeSource
<1> DEFINE b == Len(audioBuffer)
           d == Len(delivered)
<1>1. /\ decoded \in 0..Total /\ audioBuffer \in Seq(Nat) /\ delivered \in Seq(Nat)
      /\ b \in Nat /\ d \in Nat /\ d + b = decoded
      /\ \A i \in 1..d : delivered[i] = i
      /\ \A i \in 1..b : audioBuffer[i] = d + i
  BY DEF FramesInv, FramesType, Contiguous
<1> DEFINE s == delivered \o audioBuffer
<1>2. /\ s \in Seq(Nat) /\ Len(s) = d + b
      /\ \A i \in 1..(d + b) : s[i] = IF i <= d THEN delivered[i] ELSE audioBuffer[i - d]
  BY <1>1, ConcatProperties, Zenon
<1> HIDE DEF s
<1>3. ASSUME NEW i \in 1..decoded
      PROVE  s[i] = i
  <2>1. i \in 1..(d + b)
    BY <1>1
  <2>2. CASE i <= d
    <3>1. i \in 1..d
      BY <2>2
    <3> QED
      BY <1>1, <1>2, <2>1, <2>2, <3>1
  <2>3. CASE ~ (i <= d)
    <3>1. i - d \in 1..b /\ d + (i - d) = i
      BY <1>1, <2>3
    <3> QED
      BY <1>1, <1>2, <2>1, <2>3, <3>1
  <2> QED
    BY <2>2, <2>3
<1>4. s = [i \in 1..decoded |-> i]
  <2>1. s \in [1..decoded -> Nat]
    BY <1>1, <1>2, LenProperties
  <2> QED
    BY <1>3, <2>1
<1>5. frames = "over" => d = Total
  BY <1>1, FramesConstants DEF FramesInv, Ended, FramesNumbers
<1>6. b < AudioBufferSize + 2 * CHUNK_SIZE
  BY DEF FramesInv, Bounded
<1> QED
  BY <1>4, <1>5, <1>6 DEF WholeSource, s

-----------------------------------------------------------------------------
(* A source that is read twice.                                             *)

InputType ==
    /\ wrapper \in Wrappers /\ interval \in Nat
    /\ consumed \in 0..Size /\ held \in Seq(Nat)
    /\ position \in Nat /\ expected \in Nat
    /\ hasHeadroom \in BOOLEAN /\ protected \in BOOLEAN /\ inOrder \in BOOLEAN
    /\ phase \in {"metadata", "decode", "closed"}
    /\ download \in {"runs", "stuck", "ended"}

(* The headroom is there until the metadata are, and the buffer never holds  *)
(* more than was taken from the source.                                     *)
HasRoom ==
    /\ Len(held) <= BUFFER_SIZE /\ Len(held) <= consumed
    /\ hasHeadroom => position <= Len(held)
    /\ protected => hasHeadroom
    /\ phase = "metadata" => protected
    /\ wrapper # "icecast" => download = "ended"

Losses ==
    /\ lost \subseteq (BUFFER_SIZE + 1)..Size
    /\ wrapper = "icecast" /\ interval <= BLOCK_SIZE => lost = {}

(* While nothing was refused, the buffer is the source from its first byte,  *)
(* or from the position once the headroom is dropped, to what was taken.    *)
Origin(headroom, pos) == IF headroom THEN 0 ELSE pos

Consecutive ==
    /\ inOrder /\ position = expected - 1
    /\ \A i \in 1..Len(held) : held[i] = Origin(hasHeadroom, position) + i
    /\ download # "stuck" => Origin(hasHeadroom, position) + Len(held) = consumed

Aligned == lost = {} /\ wrapper # "reader" => Consecutive

InputInv == InputType /\ HasRoom /\ Losses /\ Aligned

InputNumbers ==
    /\ Size \in Nat /\ BUFFER_SIZE \in Nat /\ HEADROOM_SIZE \in Nat /\ BLOCK_SIZE \in Nat
    /\ MaxRead \in Nat /\ HEADROOM_SIZE > 0 /\ BLOCK_SIZE > 0 /\ BLOCK_SIZE <= BUFFER_SIZE
    /\ Intervals \subseteq Nat

LEMMA InputConstants == InputNumbers
BY InputAssumption DEF InputNumbers

(* What is read next of the source.                                         *)
LEMMA RestIs ==
    ASSUME NEW k \in Nat, consumed \in 0..Size
    PROVE  /\ Rest(k) \in Seq(Nat) /\ Len(Rest(k)) = Least(k, Size - consumed)
           /\ Len(Rest(k)) \in 0..k /\ consumed + Len(Rest(k)) <= Size
           /\ \A i \in 1..Len(Rest(k)) : Rest(k)[i] = consumed + i
<1> USE InputConstants DEF InputNumbers
<1> DEFINE n == Least(k, Size - consumed)
<1>1. n \in 0..k /\ consumed + n <= Size
  BY DEF Least
<1>2. Least(consumed + k, Size) - (consumed + 1) + 1 = n
  BY DEF Least
<1> HIDE DEF n
<1>3. Rest(k) = [i \in 1..n |-> (consumed + 1) + i - 1]
  BY <1>2 DEF Rest, Bytes
<1>4. \A i \in 1..n : (consumed + 1) + i - 1 = consumed + i /\ consumed + i \in Nat
  BY <1>1
<1>5. Rest(k) \in Seq(Nat) /\ Len(Rest(k)) = n
  BY <1>1, <1>3, <1>4
<1> QED
  BY <1>1, <1>3, <1>4, <1>5 DEF n

(* What is added of it, and what is refused.                                *)
LEMMA AddedIs ==
    ASSUME held \in Seq(Nat), Len(held) <= BUFFER_SIZE, NEW bytes \in Seq(Nat)
    PROVE  /\ Added(bytes) \in Seq(Nat)
           /\ Len(Added(bytes)) <= BUFFER_SIZE
           /\ Len(Added(bytes)) >= Len(held) /\ Len(Added(bytes)) <= Len(held) + Len(bytes)
           /\ \A i \in 1..Len(Added(bytes)) :
                 Added(bytes)[i] = IF i <= Len(held) THEN held[i] ELSE bytes[i - Len(held)]
           /\ \A x \in Refused(bytes) :
                 \E i \in 1..Len(bytes) : x = bytes[i] /\ i > BUFFER_SIZE - Len(held)
           /\ Len(held) + Len(bytes) <= BUFFER_SIZE => Refused(bytes) = {}
           /\ Refused(bytes) = {} => Len(Added(bytes)) = Len(held) + Len(bytes)
<1> USE InputConstants DEF InputNumbers
<1> DEFINE h == Len(held)
           b == Len(bytes)
           n == Least(b, BUFFER_SIZE - h)
           t == SubSeq(bytes, 1, n)
           r == SubSeq(bytes, BUFFER_SIZE - h + 1, b)
<1>0. h \in Nat /\ b \in Nat /\ h <= BUFFER_SIZE
  OBVIOUS
<1>1. h \in Nat /\ b \in Nat /\ n \in 0..b /\ h + n <= BUFFER_SIZE
      /\ (h + b <= BUFFER_SIZE => n = b) /\ (h + b > BUFFER_SIZE => h + n = BUFFER_SIZE)
  <2> HIDE DEF h, b
  <2>1. CASE b < BUFFER_SIZE - h
    BY <1>0, <2>1 DEF Least
  <2>2. CASE ~ (b < BUFFER_SIZE - h)
    BY <1>0, <2>2 DEF Least
  <2> QED
    BY <2>1, <2>2
<1>2. /\ t \in Seq(Nat) /\ Len(t) = n
      /\ \A i \in 1..n : t[i] = bytes[i]
  <2>1. 1 \in 1..(b + 1) /\ n \in (1 - 1)..b /\ n - 1 + 1 = n
    BY <1>1
  <2>2. t \in Seq(Nat) /\ Len(t) = n - 1 + 1 /\ \A i \in 1..(n - 1 + 1) : t[i] = bytes[1 + i - 1]
    BY <2>1, Cut
  <2> QED
    BY <2>1, <2>2
<1>3. Added(bytes) = held \o t
  BY DEF Added
<1> HIDE DEF t, n
<1>4. /\ Added(bytes) \in Seq(Nat) /\ Len(Added(bytes)) = h + n
      /\ \A i \in 1..(h + n) : Added(bytes)[i] = IF i <= h THEN held[i] ELSE t[i - h]
  <2>1. /\ held \o t \in Seq(Nat) /\ Len(held \o t) = Len(held) + Len(t)
        /\ \A i \in 1..(Len(held) + Len(t)) :
              (held \o t)[i] = IF i <= Len(held) THEN held[i] ELSE t[i - Len(held)]
    BY <1>2, Joined
  <2> QED
    BY <1>2, <1>3, <2>1
<1> HIDE DEF h, b
<1>5. \A i \in 1..(h + n) : Added(bytes)[i] = IF i <= h THEN held[i] ELSE bytes[i - h]
  <2> SUFFICES ASSUME NEW i \in 1..(h + n), ~ (i <= h)
               PROVE  t[i - h] = bytes[i - h]
    BY <1>4
  <2>1. i - h \in 1..n
    BY <1>1
  <2> QED
    BY <1>2, <2>1
<1>6. Refused(bytes) = ToSet(r)
  BY DEF Refused, h, b
<1>7. CASE h + b <= BUFFER_SIZE
  <2>1. n = b
    BY <1>1, <1>7
  <2>2. r = <<>>
    <3>1. BUFFER_SIZE - h + 1 > b
      BY <1>1, <1>7
    <3>2. Len(SubSeq(bytes, BUFFER_SIZE - h + 1, b)) = 0
      BY <1>0, <1>1, <3>1
    <3> QED
      BY <1>0, <1>1, <3>1, <3>2
  <2>3. Refused(bytes) = {}
    <3>1. DOMAIN <<>> = {}
      OBVIOUS
    <3> QED
      BY <1>6, <2>2, <3>1 DEF ToSet
  <2> HIDE DEF r
  <2>4. Len(held) + Len(bytes) = h + n /\ h = Len(held) /\ b = Len(bytes)
    BY <2>1 DEF h, b
  <2> QED
    BY <1>1, <1>4, <1>5, <1>7, <2>1, <2>3, <2>4
<1>8. CASE h + b > BUFFER_SIZE
  <2> DEFINE m == BUFFER_SIZE - h + 1
  <2>1. m \in 1..(b + 1) /\ b \in (m - 1)..b /\ b - m + 1 = b - (BUFFER_SIZE - h)
        /\ b - m + 1 \in Nat /\ 1 \in 1..(b - m + 1)
    BY <1>1, <1>8
  <2>2. /\ r \in Seq(Nat) /\ Len(r) = b - m + 1
        /\ \A i \in 1..(b - m + 1) : r[i] = bytes[m + i - 1]
    BY <2>1, Cut DEF b
  <2> HIDE DEF r
  <2>3. DOMAIN r = 1..(b - m + 1)
    BY <2>2
  <2>4. Refused(bytes) # {}
    BY <1>6, <2>1, <2>3 DEF ToSet
  <2>5. ASSUME NEW x \in Refused(bytes)
        PROVE  \E i \in 1..b : x = bytes[i] /\ i > BUFFER_SIZE - h
    <3>1. PICK i \in 1..(b - m + 1) : x = r[i]
      BY <1>6, <2>3 DEF ToSet
    <3>2. m + i - 1 \in 1..b /\ m + i - 1 > BUFFER_SIZE - h
      BY <1>1, <2>1
    <3> QED
      BY <2>2, <3>1, <3>2
  <2> QED
    BY <1>1, <1>4, <1>5, <1>8, <2>4, <2>5 DEF h, b
<1> QED
  BY <1>1, <1>7, <1>8

(* What a read of n bytes returns.                                          *)
LEMMA GotIs ==
    ASSUME NEW bytes \in Seq(Nat), NEW n \in Nat, position \in Nat, hasHeadroom \in BOOLEAN,
           hasHeadroom => position <= Len(bytes)
    PROVE  LET start == Offset(hasHeadroom, position)
           IN  /\ start \in 0..Len(bytes)
               /\ Got(bytes, n) \in Seq(Nat)
               /\ Len(Got(bytes, n)) \in 0..(Len(bytes) - start)
               /\ Len(Got(bytes, n)) <= n
               /\ \A i \in 1..Len(Got(bytes, n)) : Got(bytes, n)[i] = bytes[start + i]
<1> DEFINE start == Offset(hasHeadroom, position)
           b == Len(bytes)
           last == Least(start + n, b)
<1>1. start \in 0..b
  BY DEF Offset
<1> HIDE DEF start
<1>2. start + 1 \in 1..(b + 1) /\ last \in ((start + 1) - 1)..b /\ last - (start + 1) + 1 = last - start
      /\ last - start \in 0..(b - start) /\ last - start <= n
  BY <1>1 DEF Least
<1> HIDE DEF last
<1>3. Got(bytes, n) = SubSeq(bytes, start + 1, last)
  BY DEF Got, start, last
<1>4. /\ SubSeq(bytes, start + 1, last) \in Seq(Nat)
      /\ Len(SubSeq(bytes, start + 1, last)) = last - (start + 1) + 1
      /\ \A i \in 1..(last - (start + 1) + 1) :
            SubSeq(bytes, start + 1, last)[i] = bytes[(start + 1) + i - 1]
  BY <1>2, Cut
<1>5. \A i \in 1..(last - start) : (start + 1) + i - 1 = start + i
  BY <1>1, <1>2
<1> QED
  BY <1>1, <1>2, <1>3, <1>4, <1>5 DEF start

(* Numbers in a row are told by their ends.                                 *)
LEMMA BytesAre ==
    ASSUME NEW s \in Seq(Nat), NEW first \in Nat, \A i \in 1..Len(s) : s[i] = first + i - 1
    PROVE  s = Bytes(first, first + Len(s) - 1)
<1>1. (first + Len(s) - 1) - first + 1 = Len(s)
  OBVIOUS
<1>2. s = [i \in 1..Len(s) |-> s[i]]
  OBVIOUS
<1> QED
  BY <1>1, <1>2 DEF Bytes

(* A read moves the position by what it returns, and what it drops of the   *)
(* buffer with its headroom is what was read.                               *)
LEMMA GetKeeps ==
    ASSUME NEW bytes \in Seq(Nat), NEW n \in Nat, position \in Nat, expected \in Nat,
           hasHeadroom \in BOOLEAN, protected \in BOOLEAN, inOrder \in BOOLEAN,
           hasHeadroom => position <= Len(bytes),
           Get(bytes, n), Gives(Got(bytes, n))
    PROVE  /\ held' \in Seq(Nat) /\ position' \in Nat /\ expected' \in Nat
           /\ hasHeadroom' \in BOOLEAN /\ inOrder' \in BOOLEAN
           /\ Len(held') <= Len(bytes)
           /\ hasHeadroom' => hasHeadroom /\ position' <= Len(held')
           /\ protected /\ hasHeadroom => hasHeadroom'
           /\ (/\ inOrder /\ position = expected - 1
               /\ \A i \in 1..Len(bytes) : bytes[i] = Origin(hasHeadroom, position) + i)
              => /\ inOrder' /\ position' = expected' - 1
                 /\ \A i \in 1..Len(held') : held'[i] = Origin(hasHeadroom', position') + i
                 /\ Origin(hasHeadroom', position') + Len(held') = Origin(hasHeadroom, position) + Len(bytes)
<1> DEFINE got == Got(bytes, n)
           start == Offset(hasHeadroom, position)
           k == Len(got)
           b == Len(bytes)
<1>1. /\ start \in 0..b /\ got \in Seq(Nat) /\ k \in 0..(b - start)
      /\ \A i \in 1..k : got[i] = bytes[start + i]
  BY GotIs
<1>2. start + Origin(hasHeadroom, position) = position
  BY DEF Offset, Origin
<1>3. /\ position' = position + k
      /\ hasHeadroom' = (hasHeadroom /\ (protected \/ position' < HEADROOM_SIZE))
      /\ held' = IF hasHeadroom' THEN bytes ELSE SubSeq(bytes, start + k + 1, b)
      /\ expected' = expected + k
      /\ inOrder' = (inOrder /\ (phase = "decode" => got = Bytes(expected, expected + k - 1)))
  BY DEF Get, Gives, From
<1>4. ~hasHeadroom => start = 0 /\ Origin(hasHeadroom, position) = position
  BY DEF Offset, Origin
<1>5. hasHeadroom => start = position /\ Origin(hasHeadroom, position) = 0
  BY DEF Offset, Origin
<1>6. /\ hasHeadroom' => Origin(hasHeadroom', position') = 0
      /\ ~hasHeadroom' => Origin(hasHeadroom', position') = position'
  BY DEF Origin
<1>s. /\ Origin(hasHeadroom, position) \in Nat /\ b \in Nat /\ k \in Nat
  BY <1>1 DEF Origin
<1> HIDE DEF got, start, k
<1>7. /\ position' \in Nat /\ expected' \in Nat /\ hasHeadroom' \in BOOLEAN /\ inOrder' \in BOOLEAN
  BY <1>1, <1>3
<1> DEFINE d == SubSeq(bytes, start + k + 1, b)
<1>8. /\ d \in Seq(Nat) /\ Len(d) = b - (start + k)
      /\ \A i \in 1..(b - (start + k)) : d[i] = bytes[start + k + i]
  <2>1. start + k + 1 \in 1..(b + 1) /\ b \in ((start + k + 1) - 1)..b
        /\ b - (start + k + 1) + 1 = b - (start + k)
    BY <1>1
  <2>2. /\ d \in Seq(Nat) /\ Len(d) = b - (start + k + 1) + 1
        /\ \A i \in 1..(b - (start + k + 1) + 1) : d[i] = bytes[(start + k + 1) + i - 1]
    BY <2>1, Cut
  <2>3. \A i \in 1..(b - (start + k)) : (start + k + 1) + i - 1 = start + k + i
    BY <1>1
  <2> QED
    BY <2>1, <2>2, <2>3
<1>9. held' = IF hasHeadroom' THEN bytes ELSE d
  BY <1>3
<1> HIDE DEF d
<1>10. held' \in Seq(Nat) /\ Len(held') <= b
  BY <1>1, <1>8, <1>9
<1>11. hasHeadroom' => hasHeadroom /\ position' <= Len(held')
  BY <1>1, <1>3, <1>5, <1>9, <1>s
<1>12. protected /\ hasHeadroom => hasHeadroom'
  BY <1>3
<1>13. ASSUME inOrder, position = expected - 1,
              \A i \in 1..b : bytes[i] = Origin(hasHeadroom, position) + i
       PROVE  /\ inOrder' /\ position' = expected' - 1
              /\ \A i \in 1..Len(held') : held'[i] = Origin(hasHeadroom', position') + i
              /\ Origin(hasHeadroom', position') + Len(held') = Origin(hasHeadroom, position) + b
  <2> DEFINE st == Origin(hasHeadroom, position)
  <2>0. /\ st \in Nat /\ start \in Nat /\ k \in Nat /\ b \in Nat /\ position \in Nat /\ expected \in Nat
        /\ start + st = position /\ position = expected - 1
    BY <1>1, <1>2, <1>13, <1>s
  <2>1. \A i \in 1..k : got[i] = expected + i - 1
    <3> SUFFICES ASSUME NEW i \in 1..k PROVE got[i] = expected + i - 1
      OBVIOUS
    <3>1. start + i \in 1..b
      BY <1>1
    <3>2. bytes[start + i] = st + (start + i)
      BY <1>13, <3>1
    <3> HIDE DEF st
    <3>3. st + (start + i) = expected + i - 1
      BY <2>0
    <3> QED
      BY <1>1, <3>2, <3>3
  <2>2. got = Bytes(expected, expected + k - 1)
    BY <1>1, <2>1, BytesAre DEF k
  <2>3. inOrder' /\ position' = expected' - 1
    <3>1. inOrder'
      BY <1>3, <1>13, <2>2
    <3> QED
      BY <1>3, <2>0, <3>1
  <2>4. CASE hasHeadroom'
    <3>1. held' = bytes /\ hasHeadroom
      BY <1>9, <1>11, <2>4
    <3> QED
      BY <1>5, <1>6, <1>13, <2>3, <2>4, <3>1
  <2>5. CASE ~hasHeadroom'
    <3>1. held' = d /\ Origin(hasHeadroom', position') = position + k
      BY <1>3, <1>6, <1>9, <2>5
    <3>2. \A i \in 1..(b - (start + k)) : d[i] = (position + k) + i
      <4> SUFFICES ASSUME NEW i \in 1..(b - (start + k)) PROVE d[i] = (position + k) + i
        OBVIOUS
      <4>1. start + k + i \in 1..b
        BY <1>1, <1>s
      <4>2. bytes[start + k + i] = st + (start + k + i)
        BY <1>13, <4>1
      <4> HIDE DEF st
      <4>3. i \in Nat
        BY <1>1, <1>s
      <4> HIDE DEF st, b
      <4>4. st + (start + k + i) = (position + k) + i
        BY <2>0, <4>3
      <4> QED
        BY <1>8, <4>2, <4>4
    <3>3. (position + k) + (b - (start + k)) = st + b
      <4> HIDE DEF st, b
      <4> QED
        BY <2>0
    <3> QED
      BY <1>8, <2>3, <3>1, <3>2, <3>3
  <2> QED
    BY <2>4, <2>5
<1> QED
  BY <1>7, <1>10, <1>11, <1>12, <1>13

(* What a buffer that loses nothing has taken continues what it holds, and   *)
(* the bytes that it refuses come behind those it has room for.             *)
LEMMA AddedKeeps ==
    ASSUME InputInv, NEW m \in Nat, lost' = lost \cup Refused(Rest(m))
    PROVE  /\ Rest(m) \in Seq(Nat) /\ consumed + Len(Rest(m)) \in 0..Size /\ Len(Rest(m)) <= m
           /\ Added(Rest(m)) \in Seq(Nat)
           /\ Len(Added(Rest(m))) <= BUFFER_SIZE
           /\ Len(Added(Rest(m))) >= Len(held)
           /\ Len(Added(Rest(m))) <= consumed + Len(Rest(m))
           /\ lost' \subseteq (BUFFER_SIZE + 1)..Size
           /\ Len(held) + Len(Rest(m)) <= BUFFER_SIZE => Refused(Rest(m)) = {}
           /\ lost' = {} /\ wrapper # "reader" /\ download # "stuck"
              => /\ inOrder /\ position = expected - 1
                 /\ \A i \in 1..Len(Added(Rest(m))) :
                       Added(Rest(m))[i] = Origin(hasHeadroom, position) + i
                 /\ Origin(hasHeadroom, position) + Len(Added(Rest(m))) = consumed + Len(Rest(m))
<1> USE InputConstants DEF InputNumbers
<1> DEFINE more == Rest(m)
           all == Added(more)
           st == Origin(hasHeadroom, position)
<1>1. /\ consumed \in 0..Size /\ held \in Seq(Nat) /\ Len(held) <= BUFFER_SIZE
      /\ Len(held) <= consumed /\ lost \subseteq (BUFFER_SIZE + 1)..Size
  BY DEF InputInv, InputType, HasRoom, Losses
<1>2. /\ more \in Seq(Nat) /\ Len(more) \in 0..m /\ consumed + Len(more) <= Size
      /\ \A i \in 1..Len(more) : more[i] = consumed + i
  BY <1>1, RestIs
<1> HIDE DEF more
<1>3. /\ all \in Seq(Nat)
      /\ Len(all) <= BUFFER_SIZE
      /\ Len(all) >= Len(held) /\ Len(all) <= Len(held) + Len(more)
      /\ \A i \in 1..Len(all) : all[i] = IF i <= Len(held) THEN held[i] ELSE more[i - Len(held)]
      /\ \A x \in Refused(more) :
            \E i \in 1..Len(more) : x = more[i] /\ i > BUFFER_SIZE - Len(held)
      /\ Len(held) + Len(more) <= BUFFER_SIZE => Refused(more) = {}
      /\ Refused(more) = {} => Len(all) = Len(held) + Len(more)
  BY <1>1, <1>2, AddedIs
<1> HIDE DEF all
<1>4. Refused(more) \subseteq (BUFFER_SIZE + 1)..Size
  <2> SUFFICES ASSUME NEW x \in Refused(more)
               PROVE  x \in (BUFFER_SIZE + 1)..Size
    OBVIOUS
  <2>1. PICK i \in 1..Len(more) : x = more[i] /\ i > BUFFER_SIZE - Len(held)
    BY <1>3
  <2>2. x = consumed + i
    BY <1>2, <2>1
  <2> QED
    BY <1>1, <1>2, <2>1, <2>2
<1>5. ASSUME lost' = {}, wrapper # "reader", download # "stuck"
      PROVE  /\ inOrder /\ position = expected - 1
             /\ \A i \in 1..Len(all) : all[i] = st + i
             /\ st + Len(all) = consumed + Len(more)
  <2>1. lost = {} /\ Refused(more) = {}
    BY <1>5 DEF more
  <2>2. /\ inOrder /\ position = expected - 1
        /\ \A i \in 1..Len(held) : held[i] = st + i
        /\ st + Len(held) = consumed
    BY <1>5, <2>1 DEF InputInv, Aligned, Consecutive
  <2>3. st \in Nat
    BY DEF Origin, InputInv, InputType
  <2> HIDE DEF st
  <2>4. Len(all) = Len(held) + Len(more)
    BY <1>3, <2>1
  <2>5. \A i \in 1..Len(all) : all[i] = st + i
    <3> SUFFICES ASSUME NEW i \in 1..Len(all) PROVE all[i] = st + i
      OBVIOUS
    <3>1. CASE i <= Len(held)
      BY <1>1, <1>3, <2>2, <3>1
    <3>2. CASE i > Len(held)
      <4>1. i - Len(held) \in 1..Len(more) /\ consumed + (i - Len(held)) = st + i
        <5> DEFINE h == Len(held)
                   b == Len(more)
                   a == Len(all)
        <5>1. h \in Nat /\ b \in Nat /\ i \in 1..a /\ a = h + b /\ i > h /\ st \in Nat
              /\ consumed \in Nat /\ st + h = consumed
          BY <1>1, <1>2, <2>2, <2>3, <2>4, <3>2
        <5> HIDE DEF h, b, a
        <5>2. i - h \in 1..b /\ consumed + (i - h) = st + i
          BY <5>1
        <5> QED
          BY <5>2 DEF h, b
      <4>2. all[i] = more[i - Len(held)]
        BY <1>1, <1>3, <3>2
      <4> QED
        BY <1>2, <4>1, <4>2
    <3> QED
      BY <1>1, <3>1, <3>2
  <2> QED
    BY <1>1, <1>2, <2>2, <2>3, <2>4, <2>5
<1>6. lost' \subseteq (BUFFER_SIZE + 1)..Size
  BY <1>1, <1>4 DEF more
<1>7. consumed + Len(more) \in 0..Size /\ Len(more) <= m /\ Len(all) <= consumed + Len(more)
  <2> DEFINE h == Len(held)
             b == Len(more)
             a == Len(all)
  <2>1. h \in Nat /\ b \in 0..m /\ a \in Nat /\ a <= h + b /\ h <= consumed
        /\ consumed \in Nat /\ consumed + b <= Size
    BY <1>1, <1>2, <1>3
  <2> HIDE DEF h, b, a
  <2>2. consumed + b \in 0..Size /\ b <= m /\ a <= consumed + b
    BY <2>1
  <2> QED
    BY <2>2 DEF h, b, a
<1> QED
  BY <1>2, <1>3, <1>5, <1>6, <1>7 DEF more, all, st

(* A read that takes some of the source, and then returns of the buffer.    *)
LEMMA TakesKeeps ==
    ASSUME InputInv, wrapper # "icecast", NEW m \in Nat, NEW n \in Nat,
           consumed' = consumed + Len(Rest(m)), lost' = lost \cup Refused(Rest(m)),
           Get(Added(Rest(m)), n), Gives(Got(Added(Rest(m)), n)),
           UNCHANGED <<wrapper, interval, protected, phase, download>>
    PROVE  InputInv'
<1> USE InputConstants DEF InputNumbers
<1> DEFINE bytes == Added(Rest(m))
           st == Origin(hasHeadroom, position)
<1>1. /\ Rest(m) \in Seq(Nat) /\ consumed' \in 0..Size
      /\ bytes \in Seq(Nat) /\ Len(bytes) <= BUFFER_SIZE
      /\ Len(bytes) >= Len(held) /\ Len(bytes) <= consumed'
      /\ lost' \subseteq (BUFFER_SIZE + 1)..Size
      /\ lost' = {} /\ wrapper # "reader" /\ download # "stuck"
         => /\ inOrder /\ position = expected - 1
            /\ \A i \in 1..Len(bytes) : bytes[i] = st + i
            /\ st + Len(bytes) = consumed'
  BY AddedKeeps
<1>2. Get(bytes, n) /\ Gives(Got(bytes, n))
  OBVIOUS
<1> HIDE DEF bytes
<1>3. /\ position \in Nat /\ expected \in Nat
      /\ hasHeadroom \in BOOLEAN /\ protected \in BOOLEAN /\ inOrder \in BOOLEAN
      /\ hasHeadroom => position <= Len(bytes)
      /\ download # "stuck"
  BY <1>1 DEF InputInv, InputType, HasRoom
<1>4. /\ held' \in Seq(Nat) /\ position' \in Nat /\ expected' \in Nat
      /\ hasHeadroom' \in BOOLEAN /\ inOrder' \in BOOLEAN
      /\ Len(held') <= Len(bytes)
      /\ hasHeadroom' => hasHeadroom /\ position' <= Len(held')
      /\ protected /\ hasHeadroom => hasHeadroom'
      /\ (/\ inOrder /\ position = expected - 1
          /\ \A i \in 1..Len(bytes) : bytes[i] = Origin(hasHeadroom, position) + i)
         => /\ inOrder' /\ position' = expected' - 1
            /\ \A i \in 1..Len(held') : held'[i] = Origin(hasHeadroom', position') + i
            /\ Origin(hasHeadroom', position') + Len(held') = Origin(hasHeadroom, position) + Len(bytes)
  BY <1>1, <1>2, <1>3, GetKeeps
<1>5. InputType'
  BY <1>1, <1>4 DEF InputInv, InputType
<1>6. HasRoom'
  <2>1. /\ Len(held') <= BUFFER_SIZE /\ Len(held') <= consumed'
        /\ hasHeadroom' => position' <= Len(held')
    BY <1>1, <1>4
  <2>2. (protected => hasHeadroom') /\ HasRoom
    BY <1>4 DEF InputInv, HasRoom
  <2> QED
    BY <2>1, <2>2, Zenon DEF HasRoom
<1>7. Losses'
  BY <1>1 DEF InputInv, Losses
<1>8. Aligned'
  BY <1>1, <1>3, <1>4 DEF Aligned, Consecutive
<1> QED
  BY <1>5, <1>6, <1>7, <1>8 DEF InputInv

(* What can still be read of the buffer, and what it can still take.        *)
LEMMA RoomIs ==
    ASSUME InputInv
    PROVE  Unread \in Nat /\ Unread <= Len(held) /\ Remaining \in Nat
BY InputConstants DEF InputNumbers, InputInv, InputType, HasRoom, Unread, Remaining, Offset

LEMMA ReadIoKeeps ==
    ASSUME InputInv, NEW n \in Nat, ReadIo(n), UNCHANGED <<wrapper, interval, protected, phase, download>>
    PROVE  InputInv'
<1> USE InputConstants DEF InputNumbers
<1> DEFINE m == IF Remaining > 0 /\ n > Unread THEN Least(n, Remaining) ELSE 0
<1>1. m \in Nat
  BY RoomIs DEF Least
<1>2. (IF Remaining > 0 /\ n > Unread THEN Rest(Least(n, Remaining)) ELSE <<>>) = Rest(m)
  <2>1. Rest(0) = <<>>
    <3>1. consumed \in 0..Size
      BY DEF InputInv, InputType
    <3>2. /\ Rest(0) \in Seq(Nat) /\ Len(Rest(0)) \in 0..0
      BY <3>1, RestIs
    <3> QED
      BY <3>2
  <2> QED
    BY <2>1
<1> HIDE DEF m
<1>3. /\ consumed' = consumed + Len(Rest(m)) /\ lost' = lost \cup Refused(Rest(m))
      /\ Get(Added(Rest(m)), n) /\ Gives(Got(Added(Rest(m)), n))
      /\ wrapper # "icecast"
  BY <1>2 DEF ReadIo
<1> QED
  BY <1>1, <1>3, TakesKeeps

LEMMA ReadReaderKeeps ==
    ASSUME InputInv, NEW n \in Nat, ReadReader(n), UNCHANGED <<wrapper, interval, protected, phase, download>>
    PROVE  InputInv'
<1> USE InputConstants DEF InputNumbers
<1>1. PICK m \in (IF consumed = Size THEN {0} ELSE 1..n) :
        IF position > 0 /\ Unread = 0
        THEN LET got == Rest(m) IN consumed' = consumed + Len(got) /\ Gives(got) /\ UNCHANGED <<held, position, hasHeadroom, lost>>
        ELSE LET more == Rest(Least(m, Remaining))
                 all == Added(more)
             IN  /\ consumed' = consumed + Len(more)
                 /\ lost' = lost \cup Refused(more)
                 /\ Get(all, Least(n, Remaining)) /\ Gives(Got(all, Least(n, Remaining)))
  BY DEF ReadReader
<1>2. m \in Nat /\ Least(m, Remaining) \in Nat /\ Least(n, Remaining) \in Nat
  BY RoomIs DEF Least
<1>3. wrapper = "reader"
  BY DEF ReadReader
<1>4. CASE position > 0 /\ Unread = 0
  <2>1. /\ consumed' = consumed + Len(Rest(m)) /\ Gives(Rest(m))
        /\ UNCHANGED <<held, position, hasHeadroom, lost>>
    BY <1>1, <1>4
  <2>2. consumed \in 0..Size
    BY DEF InputInv, InputType
  <2>3. Rest(m) \in Seq(Nat) /\ Len(Rest(m)) \in 0..m /\ consumed + Len(Rest(m)) <= Size
    BY <1>2, <2>2, RestIs
  <2>4. consumed' \in 0..Size /\ consumed' >= consumed /\ expected' \in Nat /\ inOrder' \in BOOLEAN
    BY <2>1, <2>2, <2>3 DEF Gives, InputInv, InputType
  <2> QED
    BY <1>3, <2>1, <2>2, <2>4 DEF InputInv, InputType, HasRoom, Losses, Aligned
<1>5. CASE ~ (position > 0 /\ Unread = 0)
  <2> DEFINE k == Least(m, Remaining)
             j == Least(n, Remaining)
  <2>1. /\ consumed' = consumed + Len(Rest(k)) /\ lost' = lost \cup Refused(Rest(k))
        /\ Get(Added(Rest(k)), j) /\ Gives(Got(Added(Rest(k)), j))
    BY <1>1, <1>5
  <2>2. k \in Nat /\ j \in Nat
    BY <1>2
  <2> HIDE DEF k, j
  <2> QED
    BY <1>3, <2>1, <2>2, TakesKeeps
<1> QED
  BY <1>4, <1>5

LEMMA ReadIcecastKeeps ==
    ASSUME InputInv, NEW n \in Nat, ReadIcecast(n), UNCHANGED <<wrapper, interval, protected, phase, download>>
    PROVE  InputInv'
<1> USE InputConstants DEF InputNumbers
<1>1. /\ held \in Seq(Nat) /\ position \in Nat /\ expected \in Nat
      /\ hasHeadroom \in BOOLEAN /\ protected \in BOOLEAN /\ inOrder \in BOOLEAN
      /\ hasHeadroom => position <= Len(held)
  BY DEF InputInv, InputType, HasRoom
<1>2. Get(held, n) /\ Gives(Got(held, n)) /\ UNCHANGED <<consumed, lost>>
  BY DEF ReadIcecast
<1>3. /\ held' \in Seq(Nat) /\ position' \in Nat /\ expected' \in Nat
      /\ hasHeadroom' \in BOOLEAN /\ inOrder' \in BOOLEAN
      /\ Len(held') <= Len(held)
      /\ hasHeadroom' => hasHeadroom /\ position' <= Len(held')
      /\ protected /\ hasHeadroom => hasHeadroom'
      /\ (/\ inOrder /\ position = expected - 1
          /\ \A i \in 1..Len(held) : held[i] = Origin(hasHeadroom, position) + i)
         => /\ inOrder' /\ position' = expected' - 1
            /\ \A i \in 1..Len(held') : held'[i] = Origin(hasHeadroom', position') + i
            /\ Origin(hasHeadroom', position') + Len(held') = Origin(hasHeadroom, position) + Len(held)
  BY <1>1, <1>2, GetKeeps
<1>4. InputType' /\ HasRoom' /\ Losses'
  BY <1>2, <1>3 DEF InputInv, InputType, HasRoom, Losses
<1>5. Aligned'
  BY <1>2, <1>3 DEF InputInv, Aligned, Consecutive
<1> QED
  BY <1>4, <1>5 DEF InputInv

LEMMA SeekKeeps ==
    ASSUME InputInv, NEW pos \in Nat, Seek(pos)
    PROVE  InputInv'
<1> USE InputConstants DEF InputNumbers
<1>1. /\ hasHeadroom /\ pos < Len(held) /\ position' = pos /\ expected' = pos + 1
      /\ UNCHANGED <<wrapper, interval, consumed, held, hasHeadroom, protected, phase, download, inOrder, lost>>
  BY DEF InputInv, InputType, Seek, CanSeek, Least
<1> QED
  BY <1>1 DEF InputInv, InputType, HasRoom, Losses, Aligned, Consecutive, Origin

LEMMA MetadataDoneKeeps ==
    ASSUME InputInv, MetadataDone
    PROVE  InputInv'
<1> USE InputConstants DEF InputNumbers
<1>1. hasHeadroom /\ position <= Len(held) /\ held \in Seq(Nat) /\ position \in Nat
  BY DEF InputInv, InputType, HasRoom, MetadataDone
<1>2. CanSeek(0) \/ position = 0
  BY <1>1 DEF CanSeek, Least
<1>3. /\ position' = 0 /\ phase' = "decode" /\ protected' = FALSE /\ expected' = 1
      /\ UNCHANGED <<wrapper, interval, consumed, held, hasHeadroom, download, inOrder, lost>>
  BY <1>2 DEF MetadataDone
<1>4. InputType' /\ HasRoom'
  <2>1. InputType /\ HasRoom
    BY DEF InputInv
  <2>2. InputType'
    BY <1>3, <2>1 DEF InputType
  <2> QED
    BY <1>1, <1>3, <2>1, <2>2 DEF HasRoom
<1>5. Losses'
  BY <1>3 DEF InputInv, Losses
<1>6. Aligned'
  <2> SUFFICES ASSUME lost = {}, wrapper # "reader" PROVE Consecutive'
    BY <1>3 DEF Aligned
  <2>1. Consecutive
    BY DEF InputInv, Aligned
  <2> QED
    BY <1>1, <1>3, <2>1 DEF Consecutive, Origin
<1> QED
  BY <1>4, <1>5, <1>6 DEF InputInv

LEMMA DownloadsKeeps ==
    ASSUME InputInv, Downloads
    PROVE  InputInv'
<1> USE InputConstants DEF InputNumbers
<1> DEFINE k == IF interval = 0 THEN BLOCK_SIZE ELSE interval
<1>1. k \in Nat /\ Chunk = Rest(k) /\ consumed \in 0..Size
  BY DEF Chunk, InputInv, InputType
<1>2. /\ wrapper = "icecast" /\ download = "runs"
      /\ Len(held) + BLOCK_SIZE <= BUFFER_SIZE
      /\ interval <= BLOCK_SIZE => k <= BLOCK_SIZE
      /\ UNCHANGED <<wrapper, interval, position, hasHeadroom, protected, phase, expected, inOrder>>
  BY DEF Downloads, Fits, InputInv, HasRoom
<1>3. CASE interval > 0 /\ Len(Chunk) < interval
  <2>1. download' = "stuck" /\ consumed' = consumed + Len(Chunk) /\ UNCHANGED <<held, lost>>
    BY <1>3 DEF Downloads
  <2>2. consumed' \in 0..Size /\ consumed' >= consumed
    <3>1. Rest(k) \in Seq(Nat) /\ Len(Rest(k)) \in 0..k /\ consumed + Len(Rest(k)) <= Size
      BY <1>1, RestIs
    <3>2. consumed' = consumed + Len(Rest(k)) /\ Len(Rest(k)) \in Nat
      BY <1>1, <2>1, <3>1
    <3> HIDE DEF k
    <3> QED
      BY <1>1, <3>1, <3>2
  <2> QED
    BY <1>2, <2>1, <2>2 DEF InputInv, InputType, HasRoom, Losses, Aligned, Consecutive
<1>4. CASE ~ (interval > 0 /\ Len(Chunk) < interval)
  <2>1. /\ consumed' = consumed + Len(Rest(k)) /\ held' = Added(Rest(k))
        /\ lost' = lost \cup Refused(Rest(k)) /\ download' \in {"ended", "runs"}
    BY <1>1, <1>4 DEF Downloads
  <2> HIDE DEF k
  <2>2. /\ Rest(k) \in Seq(Nat) /\ consumed + Len(Rest(k)) \in 0..Size /\ Len(Rest(k)) <= k
        /\ Added(Rest(k)) \in Seq(Nat)
        /\ Len(Added(Rest(k))) <= BUFFER_SIZE
        /\ Len(Added(Rest(k))) >= Len(held)
        /\ Len(Added(Rest(k))) <= consumed + Len(Rest(k))
        /\ lost' \subseteq (BUFFER_SIZE + 1)..Size
        /\ Len(held) + Len(Rest(k)) <= BUFFER_SIZE => Refused(Rest(k)) = {}
        /\ lost' = {} /\ wrapper # "reader" /\ download # "stuck"
           => /\ inOrder /\ position = expected - 1
              /\ \A i \in 1..Len(Added(Rest(k))) :
                    Added(Rest(k))[i] = Origin(hasHeadroom, position) + i
              /\ Origin(hasHeadroom, position) + Len(Added(Rest(k))) = consumed + Len(Rest(k))
    BY <1>1, <2>1, AddedKeeps
  <2>3. InputType'
    BY <1>2, <2>1, <2>2 DEF InputInv, InputType
  <2>4. HasRoom'
    BY <1>2, <2>1, <2>2 DEF InputInv, InputType, HasRoom
  <2>5. interval <= BLOCK_SIZE => Len(held) + Len(Rest(k)) <= BUFFER_SIZE
    BY <1>1, <1>2, <2>2 DEF InputInv, InputType
  <2>6. Losses'
    BY <1>2, <2>1, <2>2, <2>5 DEF InputInv, Losses
  <2>7. Aligned'
    BY <1>2, <2>1, <2>2 DEF Aligned, Consecutive
  <2> QED
    BY <2>3, <2>4, <2>6, <2>7 DEF InputInv
<1> QED
  BY <1>3, <1>4

LEMMA InputInvKept ==
    ASSUME InputInv, InputNext
    PROVE  InputInv'
<1> USE InputConstants DEF InputNumbers
<1>1. ASSUME NEW n \in 1..MaxRead, ReadSource(n)
      PROVE  InputInv'
  <2>1. n \in Nat
    OBVIOUS
  <2>2. /\ ReadIo(n) \/ ReadReader(n) \/ ReadIcecast(n)
        /\ UNCHANGED <<wrapper, interval, protected, phase, download>>
    BY <1>1 DEF ReadSource
  <2> QED
    BY <2>1, <2>2, ReadIoKeeps, ReadReaderKeeps, ReadIcecastKeeps
<1>2. ASSUME NEW pos \in 0..(HEADROOM_SIZE - 1), Seek(pos)
      PROVE  InputInv'
  BY <1>2, SeekKeeps
<1>3. CASE ReadTimesOut
  BY <1>3 DEF ReadTimesOut, InputInv, InputType, HasRoom, Losses, Aligned, Consecutive
<1>4. CASE DownloadFails
  BY <1>4 DEF DownloadFails, InputInv, InputType, HasRoom, Losses, Aligned, Consecutive
<1> QED
  BY <1>1, <1>2, <1>3, <1>4, MetadataDoneKeeps, DownloadsKeeps DEF InputNext

LEMMA InputInvInit ==
    ASSUME InputInit
    PROVE  InputInv
<1> USE InputConstants DEF InputNumbers
<1>1. held = <<>> /\ held \in Seq(Nat) /\ Len(held) = 0
  BY DEF InputInit
<1>2. wrapper \in Wrappers /\ interval \in Nat
  <2>1. wrapper \in Wrappers /\ (interval \in Intervals \/ interval = 0)
    BY Zenon DEF InputInit
  <2>2. Intervals \subseteq Nat
    BY InputConstants DEF InputNumbers
  <2>3. interval \in Nat
    <3>1. 0 \in Nat
      OBVIOUS
    <3> QED
      BY ONLY <2>1, <2>2, <3>1, Zenon
  <2> QED
    BY ONLY <2>1, <2>3
<1>3. InputType
  BY <1>1, <1>2 DEF InputInit, InputType
<1>4. HasRoom /\ Losses
  BY <1>1 DEF InputInit, HasRoom, Losses
<1>5. Aligned
  BY <1>1 DEF InputInit, Aligned, Consecutive, Origin
<1> QED
  BY <1>3, <1>4, <1>5 DEF InputInv

LEMMA InputIsDecoded ==
    ASSUME InputInv
    PROVE  DecodesTheSource
BY DEF InputInv, InputType, Losses, Aligned, Consecutive, DecodesTheSource

-----------------------------------------------------------------------------
(* The requests of a stream.                                                *)

Step == {"info", "auth_setup", "announce", "setup", "setup_stream", "progress", "text", "artwork", "feedback",
         "keep", "record", "flush", "volume", "play", "teardown"}
Request ==
    [by : {"stream", "keeper", "user"}, what : Step, level : Levels \cup {NoVolume}, auth : BOOLEAN,
     session : Nat]
SessionType ==
    /\ password \in {"none", "right", "wrong"}
    /\ receiver \in [demands : BOOLEAN, tells : BOOLEAN, volume : Levels, announced : BOOLEAN,
                     session : Nat, records : BOOLEAN]
    /\ stage \in {"none", "opening", "sending", "closing"} /\ major \in {1, 2}
    /\ todo \in Seq(Step) /\ digest \in BOOLEAN /\ later \in Levels \cup {NoVolume}
    /\ remembered \in Nat /\ current \in Levels \cup {NoVolume} /\ echo \in Seq(Levels)
    /\ keeper \in {"none", "sleeps", "asks"} /\ wire \in Seq(Request)
    /\ uses \in [streams : Nat, volumes : Nat, errors : Nat]

(* The stream has one request on the way, for what it has to ask next; the   *)
(* keep-alive task asks for nothing but feedback and the user sets volumes. *)
Turns ==
    /\ \A i \in DOMAIN wire : wire[i].by = "stream" =>
          /\ \A j \in DOMAIN wire : wire[j].by = "stream" => i = j
          /\ wire[i].auth = digest
          /\ wire[i].session = IF wire[i].what \in Named THEN remembered ELSE 0
          /\ IF todo = <<>> THEN wire[i].what = "volume" ELSE wire[i].what = todo[1]
    /\ \A i \in DOMAIN wire : wire[i].by = "keeper" => wire[i].what = "feedback"
    /\ \A i \in DOMAIN wire : wire[i].by = "user" => wire[i].what = "volume"
    /\ \A i \in DOMAIN wire : wire[i].what = "volume" => wire[i].level \in Levels

(* What is left of a setup: it ends with the same two requests.             *)
Coming(i) ==
    CASE i = Len(todo) -> {IF major = 1 THEN "setup" ELSE "setup_stream"}
      [] i = Len(todo) - 1 -> {IF major = 1 THEN "announce" ELSE "setup"}
      [] OTHER -> {"info", "auth_setup"}

Stages ==
    /\ stage = "none" => wire = <<>> /\ todo = <<>> /\ keeper = "none"
    /\ stage # "none" => uses.streams > 0
    /\ stage = "opening" => \A i \in DOMAIN todo : todo[i] \in Coming(i)
    /\ stage = "sending" => \A i \in DOMAIN todo :
          /\ todo[i] \in {"progress", "text", "artwork", "feedback", "keep", "record", "flush", "volume", "play"}
          /\ todo[i] = "volume" => later # NoVolume
          /\ todo[i] = "flush" => receiver.records \/ \E j \in 1..(i - 1) : todo[j] = "record"
    /\ stage = "closing" => todo = <<"teardown">>

(* A stream that was set up is in the session of the receiver.              *)
IsSetUp == stage \in {"sending", "closing"} \/ (stage = "opening" /\ Len(todo) < major)
IsAnnounced == IsSetUp \/ (stage = "opening" /\ Len(todo) < 2)
Opened ==
    /\ IsSetUp => receiver.session # 0 /\ (major = 1 => remembered = receiver.session)
    /\ major = 1 /\ IsAnnounced /\ password = "none" => receiver.announced
    /\ major = 1 /\ IsAnnounced /\ password = "right" /\ receiver.demands => digest

(* What was dispatched last, and comes back yet, is the volume we go by.     *)
LastVolume == IF echo = <<>> THEN current ELSE echo[Len(echo)]
VolumesAgree ==
    /\ current = NoVolume => echo = <<>>
    /\ stage = "sending" /\ later = NoVolume => LastVolume = receiver.volume

SessionInv == SessionType /\ Turns /\ Stages /\ Opened /\ VolumesAgree

(* The request that the receiver has next.                                  *)
LEMMA OldestIs ==
    ASSUME SessionInv, wire # <<>>
    PROVE  /\ Head(wire) \in Request /\ 1 \in DOMAIN wire /\ Head(wire) = wire[1]
           /\ Tail(wire) \in Seq(Request)
BY DEF SessionInv, SessionType

(* One more request, which is in turn.                                      *)
LEMMA AskedInTurn ==
    ASSUME SessionInv, NEW r \in Request, wire' = Append(wire, r),
           UNCHANGED <<todo, digest, remembered>>,
           r.by = "stream" =>
              /\ \A i \in DOMAIN wire : wire[i].by # "stream"
              /\ r.auth = digest /\ r.session = IF r.what \in Named THEN remembered ELSE 0
              /\ IF todo = <<>> THEN r.what = "volume" ELSE r.what = todo[1],
           r.by = "keeper" => r.what = "feedback",
           r.by = "user" => r.what = "volume",
           r.what = "volume" => r.level \in Levels
    PROVE  Turns' /\ wire' \in Seq(Request) /\ wire' # <<>>
<1>1. wire \in Seq(Request) /\ Turns
  BY DEF SessionInv, SessionType
<1> DEFINE n == Len(wire)
<1>2. /\ wire' \in Seq(Request) /\ Len(wire') = n + 1 /\ n \in Nat
      /\ DOMAIN wire' = 1..(n + 1) /\ DOMAIN wire = 1..n
      /\ \A i \in 1..n : wire'[i] = wire[i]
      /\ wire'[n + 1] = r
  BY <1>1
<1>3. wire' # <<>>
  BY <1>2
<1> HIDE DEF n
<1>4. \A i \in 1..(n + 1) : i \in 1..n \/ i = n + 1
  BY <1>2
<1>5. Turns'
  <2>1. ASSUME NEW i \in DOMAIN wire', wire'[i].by = "stream"
        PROVE  /\ \A j \in DOMAIN wire' : wire'[j].by = "stream" => i = j
               /\ wire'[i].auth = digest
               /\ wire'[i].session = IF wire'[i].what \in Named THEN remembered ELSE 0
               /\ IF todo = <<>> THEN wire'[i].what = "volume" ELSE wire'[i].what = todo[1]
    <3>1. CASE i \in 1..n
      BY <1>1, <1>2, <1>4, <2>1, <3>1 DEF Turns
    <3>2. CASE i = n + 1
      BY <1>1, <1>2, <1>4, <2>1, <3>2 DEF Turns
    <3> QED BY <1>2, <1>4, <3>1, <3>2
  <2>2. ASSUME NEW i \in DOMAIN wire'
        PROVE  /\ wire'[i].by = "keeper" => wire'[i].what = "feedback"
               /\ wire'[i].by = "user" => wire'[i].what = "volume"
               /\ wire'[i].what = "volume" => wire'[i].level \in Levels
    BY <1>1, <1>2, <1>4 DEF Turns
  <2> QED BY <2>1, <2>2 DEF Turns
<1> QED BY <1>2, <1>3, <1>5

(* An answer to the oldest request; one to the stream lets it go on.         *)
LEMMA AnsweredInTurn ==
    ASSUME SessionInv, wire # <<>>, wire' = Tail(wire),
           Head(wire).by = "stream" \/ UNCHANGED <<todo, digest, remembered>>
    PROVE  Turns' /\ wire' \in Seq(Request)
<1>1. wire \in Seq(Request) /\ Turns
  BY DEF SessionInv, SessionType
<1> DEFINE n == Len(wire)
<1>2. /\ wire' \in Seq(Request) /\ Len(wire') = n - 1 /\ n \in Nat \ {0}
      /\ DOMAIN wire' = 1..(n - 1) /\ DOMAIN wire = 1..n
      /\ \A i \in 1..(n - 1) : wire'[i] = wire[i + 1]
      /\ Head(wire) = wire[1]
  BY <1>1
<1> HIDE DEF n
<1>3. \A i \in 1..(n - 1) : i + 1 \in 1..n /\ i + 1 # 1
  BY <1>2
<1>4. \A i, j \in 1..(n - 1) : i + 1 = j + 1 => i = j
  OBVIOUS
<1>5. \A i \in DOMAIN wire' : wire'[i] = wire[i + 1] /\ i + 1 \in DOMAIN wire
  BY <1>2, <1>3
<1>6. ASSUME NEW i \in DOMAIN wire', wire'[i].by = "stream"
      PROVE  /\ \A j \in DOMAIN wire' : wire'[j].by = "stream" => i = j
             /\ UNCHANGED <<todo, digest, remembered>>
  <2>1. wire[i + 1].by = "stream" /\ i + 1 \in DOMAIN wire
    BY <1>5, <1>6
  <2>2. wire[1].by # "stream"
    BY <1>1, <1>2, <1>3, <2>1 DEF Turns
  <2>3. \A j \in DOMAIN wire' : wire'[j].by = "stream" => i + 1 = j + 1
    BY <1>1, <1>5, <2>1 DEF Turns
  <2> QED BY <1>2, <1>4, <2>2, <2>3
<1>7. Turns'
  <2>1. \A i \in DOMAIN wire' : wire'[i].by = "stream" =>
          /\ wire'[i].auth = digest'
          /\ wire'[i].session = IF wire'[i].what \in Named THEN remembered' ELSE 0
          /\ IF todo' = <<>> THEN wire'[i].what = "volume" ELSE wire'[i].what = todo'[1]
    BY <1>1, <1>5, <1>6 DEF Turns
  <2>2. \A i \in DOMAIN wire' :
          /\ wire'[i].by = "keeper" => wire'[i].what = "feedback"
          /\ wire'[i].by = "user" => wire'[i].what = "volume"
          /\ wire'[i].what = "volume" => wire'[i].level \in Levels
    BY <1>1, <1>5 DEF Turns
  <2> QED BY <1>6, <2>1, <2>2 DEF Turns
<1> QED BY <1>2, <1>7

LEMMA RequestIs ==
    ASSUME SessionInv, NEW by \in {"stream", "keeper", "user"}, NEW what \in Step,
           NEW level \in Levels \cup {NoVolume}
    PROVE  /\ Requested(by, what, level) \in Request
           /\ Requested(by, what, level).by = by /\ Requested(by, what, level).what = what
           /\ Requested(by, what, level).level = level /\ Requested(by, what, level).auth = digest
           /\ Requested(by, what, level).session = IF what \in Named THEN remembered ELSE 0
BY DEF SessionInv, SessionType, Request, Requested

(* What an answer does at the receiver.                                     *)
LEMMA AnswerIs ==
    ASSUME SessionInv, NEW by, NEW code \in Codes, ReceiverAnswers(by, code)
    PROVE  /\ wire # <<>> /\ Head(wire).by = by
           /\ uses' \in [streams : Nat, volumes : Nat, errors : Nat] /\ uses'.streams = uses.streams
           /\ code = Judged(Head(wire)) \/ (code = "500" /\ Judged(Head(wire)) = "200")
BY DEF SessionInv, SessionType, ReceiverAnswers, Uses

LEMMA GetsIs ==
    ASSUME SessionInv, NEW by, NEW code \in Codes, Gets(by, code)
    PROVE  /\ wire # <<>> /\ Head(wire).by = by /\ wire' = Tail(wire) /\ ReceiverAnswers(by, code)
           /\ receiver' \in [demands : BOOLEAN, tells : BOOLEAN, volume : Levels, announced : BOOLEAN,
                             session : Nat, records : BOOLEAN]
           /\ receiver'.demands = receiver.demands
           /\ receiver'.announced = (receiver.announced \/ (code = "200" /\ Head(wire).what = "announce"))
           /\ receiver'.session = IF code = "200" /\ Head(wire).what = "setup" THEN uses.streams
                                  ELSE receiver.session
           /\ receiver'.records = (receiver.records \/ (code = "200" /\ Head(wire).what = "record"))
           /\ receiver'.volume = IF code = "200" /\ Head(wire).what = "volume" THEN Head(wire).level
                                 ELSE receiver.volume
<1>1. /\ wire # <<>> /\ Head(wire).by = by /\ wire' = Tail(wire) /\ ReceiverAnswers(by, code)
      /\ receiver' = IF code = "200" THEN Does(Head(wire)) ELSE receiver
  BY DEF Gets, ReceiverAnswers
<1> DEFINE r == Head(wire)
<1>2. /\ receiver \in [demands : BOOLEAN, tells : BOOLEAN, volume : Levels, announced : BOOLEAN,
                       session : Nat, records : BOOLEAN]
      /\ uses.streams \in Nat
      /\ r.what = "volume" => r.level \in Levels
  BY <1>1, OldestIs DEF SessionInv, SessionType, Turns
<1> HIDE DEF r
<1>3. CASE code # "200"
  BY <1>1, <1>2, <1>3
<1>4. CASE code = "200" /\ r.what = "announce"
  BY <1>1, <1>2, <1>4 DEF Does, r
<1>5. CASE code = "200" /\ r.what = "setup"
  BY <1>1, <1>2, <1>5 DEF Does, r
<1>6. CASE code = "200" /\ r.what = "record"
  BY <1>1, <1>2, <1>6 DEF Does, r
<1>7. CASE code = "200" /\ r.what = "volume"
  BY <1>1, <1>2, <1>7 DEF Does, r
<1>8. CASE code = "200" /\ r.what \notin {"announce", "setup", "record", "volume"}
  <2>1. receiver' = receiver
    BY <1>1, <1>8 DEF Does, r
  <2> QED BY <1>1, <1>2, <1>8, <2>1 DEF r
<1> QED BY <1>3, <1>4, <1>5, <1>6, <1>7, <1>8 DEF r

-----------------------------------------------------------------------------
(* Who asks.                                                                *)
LEMMA StreamBeginsKeeps == ASSUME SessionInv, StreamBegins PROVE SessionInv'
<1>1. /\ stage = "none" /\ stage' = "opening" /\ uses' = [uses EXCEPT !.streams = @ + 1]
      /\ major' \in {1, 2} /\ digest' = FALSE /\ later' = NoVolume
      /\ UNCHANGED <<password, receiver, remembered, volumeVars, keeper, wire>>
  BY DEF StreamBegins, Uses
<1>2. PICK airport \in BOOLEAN : todo' = Initialize(airport)
  BY DEF StreamBegins
<1>3. wire = <<>> /\ keeper = "none"
  BY <1>1 DEF SessionInv, Stages
<1>4. /\ todo' \in Seq(Step) /\ Len(todo') > 2
      /\ \A i \in DOMAIN todo' : todo'[i] \in Coming(i)'
  <2> DEFINE a == <<"info">>
             b == IF airport THEN <<"auth_setup">> ELSE <<>>
             c == IF major' = 1 THEN <<"announce", "setup">> ELSE <<"setup", "setup_stream">>
  <2>1. /\ a \in Seq(Step) /\ Len(a) = 1 /\ a[1] = "info"
        /\ b \in Seq(Step) /\ Len(b) \in 0..1 /\ (Len(b) = 1 => b[1] = "auth_setup")
        /\ c \in Seq(Step) /\ Len(c) = 2
        /\ c[1] = (IF major' = 1 THEN "announce" ELSE "setup")
        /\ c[2] = (IF major' = 1 THEN "setup" ELSE "setup_stream")
    <3>1. "info" \in Step /\ "auth_setup" \in Step /\ "announce" \in Step /\ "setup" \in Step /\ "setup_stream" \in Step
      BY DEF Step
    <3>2. a \in Seq(Step) /\ Len(a) = 1 /\ a[1] = "info"
      BY <3>1
    <3>3. b \in Seq(Step) /\ Len(b) \in 0..1 /\ (Len(b) = 1 => b[1] = "auth_setup")
      BY <3>1
    <3>4. CASE major' = 1
      BY <3>1, <3>2, <3>3, <3>4
    <3>5. CASE major' # 1
      BY <3>1, <3>2, <3>3, <3>5
    <3> QED BY <3>4, <3>5
  <2>2. todo' = (a \o b) \o c
    BY <1>2 DEF Initialize
  <2> HIDE DEF a, b, c
  <2>3. /\ a \o b \in Seq(Step) /\ Len(a \o b) = Len(a) + Len(b)
        /\ \A i \in 1..(Len(a) + Len(b)) : (a \o b)[i] = IF i <= Len(a) THEN a[i] ELSE b[i - Len(a)]
    BY <2>1, Joined
  <2> DEFINE d == a \o b
  <2>4. /\ d \in Seq(Step) /\ Len(d) \in 1..2
        /\ \A i \in 1..Len(d) : d[i] \in {"info", "auth_setup"}
    BY <2>1, <2>3
  <2> HIDE DEF d
  <2>5. /\ d \o c \in Seq(Step) /\ Len(d \o c) = Len(d) + Len(c)
        /\ \A i \in 1..(Len(d) + Len(c)) : (d \o c)[i] = IF i <= Len(d) THEN d[i] ELSE c[i - Len(d)]
    BY <2>1, <2>4, Joined
  <2>6. /\ todo' \in Seq(Step) /\ Len(todo') = Len(d) + 2
        /\ \A i \in 1..(Len(d) + 2) : todo'[i] = IF i <= Len(d) THEN d[i] ELSE c[i - Len(d)]
    BY <2>1, <2>2, <2>5 DEF d
  <2>7. ASSUME NEW i \in DOMAIN todo' PROVE todo'[i] \in Coming(i)'
    <3>1. i \in 1..(Len(d) + 2) /\ Len(todo') = Len(d) + 2
      BY <2>6
    <3>2. CASE i <= Len(d)
      <4>1. i # Len(todo') /\ i # Len(todo') - 1 /\ i \in 1..Len(d)
        BY <2>4, <3>1, <3>2
      <4> QED BY <2>4, <2>6, <3>1, <3>2, <4>1 DEF Coming
    <3>3. CASE i = Len(d) + 1
      <4>1. i # Len(todo') /\ i = Len(todo') - 1 /\ i - Len(d) = 1
        BY <2>4, <3>1, <3>3
      <4>2. ~ (i <= Len(d))
        BY <2>4, <3>3
      <4>3. todo'[i] = c[1]
        BY <2>6, <3>1, <4>1, <4>2
      <4> QED BY <2>1, <4>1, <4>3 DEF Coming
    <3>4. CASE i = Len(d) + 2
      <4>1. i = Len(todo') /\ i - Len(d) = 2
        BY <2>4, <3>1, <3>4
      <4>2. i # Len(todo') - 1 /\ ~ (i <= Len(d))
        BY <2>4, <4>1, <3>1, <3>4
      <4> QED BY <2>1, <2>6, <3>1, <4>1, <4>2 DEF Coming
    <3> QED BY <2>4, <3>1, <3>2, <3>3, <3>4
  <2> QED BY <2>4, <2>6, <2>7
<1>5. SessionType'
  <2>1. uses' \in [streams : Nat, volumes : Nat, errors : Nat] /\ later' \in Levels \cup {NoVolume}
    <3>1. uses \in [streams : Nat, volumes : Nat, errors : Nat]
      BY DEF SessionInv, SessionType
    <3> QED BY <1>1, <3>1
  <2> QED BY <1>1, <1>4, <2>1 DEF SessionInv, SessionType, volumeVars
<1>6. Turns'
  BY <1>1, <1>3 DEF Turns
<1>7. Stages'
  BY <1>1, <1>3, <1>4 DEF SessionInv, SessionType, Stages
<1>8. Opened'
  BY <1>1, <1>4 DEF Opened, IsSetUp, IsAnnounced
<1>9. VolumesAgree'
  BY <1>1 DEF SessionInv, VolumesAgree, volumeVars
<1> QED BY <1>5, <1>6, <1>7, <1>8, <1>9 DEF SessionInv

LEMMA AsksKeeps == ASSUME SessionInv, Asks PROVE SessionInv'
<1>1. PICK step \in {"info", "auth_setup", "announce", "feedback", "setup", "record"} \cup InSession :
        Ready(step) /\ wire' = Append(wire, Requested("stream", step, later))
  BY DEF Asks
<1>2. UNCHANGED <<password, receiver, callVars, remembered, volumeVars, keeper, uses>>
  BY DEF Asks
<1>3. step \in Step /\ later \in Levels \cup {NoVolume} /\ todo \in Seq(Step)
  <2>1. step \in Step
    BY DEF InSession, Named, Step
  <2> QED BY <2>1 DEF SessionInv, SessionType
<1>4. todo # <<>> /\ todo[1] = step /\ \A i \in DOMAIN wire : wire[i].by # "stream"
  BY <1>1, <1>3 DEF Ready
<1> DEFINE r == Requested("stream", step, later)
<1>5. /\ r \in Request /\ r.by = "stream" /\ r.what = step /\ r.level = later /\ r.auth = digest
      /\ r.session = IF step \in Named THEN remembered ELSE 0
  BY <1>3, RequestIs
<1>6. stage # "none"
  BY <1>4 DEF SessionInv, Stages
<1>7. step = "volume" => later \in Levels
  <2>1. ASSUME step = "volume" PROVE later # NoVolume
    <3>1. 1 \in DOMAIN todo
      BY <1>3, <1>4
    <3>2. stage # "opening"
      BY <2>1, <1>4, <3>1 DEF SessionInv, Stages, Coming
    <3>3. stage # "closing"
      BY <1>4, <2>1 DEF SessionInv, Stages
    <3>4. stage = "sending"
      BY <1>6, <3>2, <3>3 DEF SessionInv, SessionType
    <3> QED BY <1>4, <2>1, <3>1, <3>4 DEF SessionInv, Stages
  <2> QED BY <1>3, <2>1
<1> HIDE DEF r
<1>8. Turns' /\ wire' \in Seq(Request) /\ wire' # <<>>
  <2>1. wire' = Append(wire, r) /\ UNCHANGED <<todo, digest, remembered>>
    BY <1>1, <1>2 DEF r, callVars
  <2> QED BY <1>4, <1>5, <1>7, <2>1, AskedInTurn
<1>9. SessionType'
  BY <1>2, <1>8 DEF SessionInv, SessionType, callVars, volumeVars
<1>10. Stages' /\ Opened' /\ VolumesAgree'
  BY <1>2, <1>6 DEF SessionInv, Stages, Coming, Opened, IsSetUp, IsAnnounced, VolumesAgree, LastVolume,
                    callVars, volumeVars
<1> QED BY <1>8, <1>9, <1>10 DEF SessionInv

-----------------------------------------------------------------------------
(* What send_audio asks for, one after the other.                           *)
LEMMA Extends ==
    ASSUME NEW s \in Seq(Step), NEW x \in Step
    PROVE  /\ s \o <<x>> \in Seq(Step) /\ Len(s \o <<x>>) = Len(s) + 1
           /\ \A i \in 1..Len(s) : (s \o <<x>>)[i] = s[i]
           /\ (s \o <<x>>)[Len(s) + 1] = x
<1>1. <<x>> \in Seq(Step) /\ Len(<<x>>) = 1 /\ <<x>>[1] = x
  OBVIOUS
<1> DEFINE t == <<x>>
<1> HIDE DEF t
<1>2. t \in Seq(Step) /\ Len(t) = 1 /\ t[1] = x
  BY <1>1 DEF t
<1>3. /\ s \o t \in Seq(Step) /\ Len(s \o t) = Len(s) + Len(t)
      /\ \A i \in 1..(Len(s) + Len(t)) : (s \o t)[i] = IF i <= Len(s) THEN s[i] ELSE t[i - Len(s)]
  BY <1>2, Joined
<1>4. /\ s \o t \in Seq(Step) /\ Len(s \o t) = Len(s) + 1
      /\ \A i \in 1..Len(s) : (s \o t)[i] = s[i]
      /\ (s \o t)[Len(s) + 1] = x
  BY <1>2, <1>3
<1> QED BY <1>4 DEF t

(* A step that may follow or not.                                           *)
LEMMA MayExtend ==
    ASSUME NEW s \in Seq(Step), NEW x \in Step, NEW p, NEW e,
           e = IF p THEN <<x>> ELSE <<>>
    PROVE  /\ s \o e \in Seq(Step) /\ Len(s \o e) >= Len(s) /\ Len(s \o e) <= Len(s) + 1
           /\ \A i \in 1..Len(s) : (s \o e)[i] = s[i]
           /\ Len(s \o e) # Len(s) => p /\ (s \o e)[Len(s) + 1] = x
<1>1. CASE p
  BY <1>1, Extends
<1>2. CASE ~ p
  <2>1. s \o <<>> = s
    OBVIOUS
  <2> QED BY <1>2, <2>1
<1> QED BY <1>1, <1>2

LEMMA SendsIs ==
    ASSUME SessionInv, NEW volume \in Levels \cup {NoVolume}, Sends(volume)
    PROVE  /\ stage' = "sending" /\ later' = volume /\ UNCHANGED <<major, digest>>
           /\ todo' \in Seq(Step)
           /\ \A i \in DOMAIN todo' :
                 /\ todo'[i] \in {"progress", "text", "artwork", "feedback", "keep", "record", "flush", "volume", "play"}
                 /\ todo'[i] = "volume" => later' # NoVolume
                 /\ todo'[i] = "flush" => \E j \in 1..(i - 1) : todo'[j] = "record"
<1>1. stage' = "sending" /\ later' = volume /\ UNCHANGED <<major, digest>>
  BY DEF Sends
<1>2. PICK types \in SUBSET {"progress", "text", "artwork"} : todo' = SendAudio(types)
  BY DEF Sends
<1> DEFINE Meta == {"progress", "text", "artwork"}
           Sent(type) == IF type \in types THEN <<type>> ELSE <<>>
           f == IF major = 1 THEN "feedback" ELSE "keep"
           m == <<f, "record", "flush">>
           v == IF later' > 0 THEN <<"volume">> ELSE <<>>
           s1 == Sent("progress")
           s2 == s1 \o Sent("text")
           s3 == s2 \o Sent("artwork")
           s4 == s3 \o m
           s5 == s4 \o v
<1>3. todo' = s5 \o <<"play">>
  BY <1>2 DEF SendAudio
<1>t. /\ Meta \subseteq Step
      /\ "record" \in Step /\ "flush" \in Step /\ f \in Step /\ "volume" \in Step /\ "play" \in Step
  BY DEF Step
<1>4. s1 \in Seq(Step) /\ \A i \in 1..Len(s1) : s1[i] \in Meta
  <2>1. <<>> \in Seq(Step) /\ Len(<<>>) = 0
    OBVIOUS
  <2>2. <<"progress">> \in Seq(Step) /\ Len(<<"progress">>) = 1 /\ <<"progress">>[1] = "progress"
    BY <1>t
  <2> QED BY <2>1, <2>2
<1> HIDE DEF s1
<1>5. s2 \in Seq(Step) /\ \A i \in 1..Len(s2) : s2[i] \in Meta
  <2> DEFINE e == Sent("text")
             p == "text" \in types
  <2>1. e = IF p THEN <<"text">> ELSE <<>>
    OBVIOUS
  <2> HIDE DEF e, p
  <2>2. /\ s1 \o e \in Seq(Step) /\ Len(s1 \o e) >= Len(s1) /\ Len(s1 \o e) <= Len(s1) + 1
        /\ \A i \in 1..Len(s1) : (s1 \o e)[i] = s1[i]
        /\ Len(s1 \o e) # Len(s1) => p /\ (s1 \o e)[Len(s1) + 1] = "text"
    BY <1>4, <1>t, <2>1, MayExtend
  <2>3. \A i \in 1..Len(s1 \o e) : i \in 1..Len(s1) \/ (i = Len(s1) + 1 /\ Len(s1 \o e) # Len(s1))
    BY <1>4, <2>2
  <2>4. s1 \o e \in Seq(Step) /\ \A i \in 1..Len(s1 \o e) : (s1 \o e)[i] \in Meta
    BY <1>4, <2>2, <2>3
  <2> QED BY <2>4 DEF e
<1> HIDE DEF s2
<1>6. s3 \in Seq(Step) /\ \A i \in 1..Len(s3) : s3[i] \in Meta
  <2> DEFINE e == Sent("artwork")
             p == "artwork" \in types
  <2>1. e = IF p THEN <<"artwork">> ELSE <<>>
    OBVIOUS
  <2> HIDE DEF e, p
  <2>2. /\ s2 \o e \in Seq(Step) /\ Len(s2 \o e) >= Len(s2) /\ Len(s2 \o e) <= Len(s2) + 1
        /\ \A i \in 1..Len(s2) : (s2 \o e)[i] = s2[i]
        /\ Len(s2 \o e) # Len(s2) => p /\ (s2 \o e)[Len(s2) + 1] = "artwork"
    BY <1>5, <1>t, <2>1, MayExtend
  <2>3. \A i \in 1..Len(s2 \o e) : i \in 1..Len(s2) \/ (i = Len(s2) + 1 /\ Len(s2 \o e) # Len(s2))
    BY <1>5, <2>2
  <2>4. s2 \o e \in Seq(Step) /\ \A i \in 1..Len(s2 \o e) : (s2 \o e)[i] \in Meta
    BY <1>5, <2>2, <2>3
  <2> QED BY <2>4 DEF e
<1> HIDE DEF s3
<1> DEFINE n == Len(s3)
<1>7. /\ s4 \in Seq(Step) /\ Len(s4) = n + 3 /\ n \in Nat
      /\ \A i \in 1..(n + 3) : /\ s4[i] \in Meta \cup {f, "record", "flush"}
                               /\ s4[i] = "flush" => i = n + 3
      /\ s4[n + 2] = "record"
  <2>1. m \in Seq(Step) /\ Len(m) = 3 /\ m[1] = f /\ m[2] = "record" /\ m[3] = "flush" /\ f \notin {"flush"}
    <3> HIDE DEF f
    <3>1. m \in Seq(Step) /\ Len(m) = 3 /\ m[1] = f /\ m[2] = "record" /\ m[3] = "flush"
      BY <1>t
    <3> QED BY <3>1 DEF f
  <2> HIDE DEF m
  <2>2. /\ s3 \o m \in Seq(Step) /\ Len(s3 \o m) = Len(s3) + Len(m)
        /\ \A i \in 1..(Len(s3) + Len(m)) : (s3 \o m)[i] = IF i <= Len(s3) THEN s3[i] ELSE m[i - Len(s3)]
    <3>1. s3 \in Seq(Step) /\ m \in Seq(Step)
      BY <1>6, <2>1
    <3> QED BY ONLY <3>1, Joined
  <2>n. n \in Nat
    BY <1>6
  <2>3. /\ s4 \in Seq(Step) /\ Len(s4) = n + 3
        /\ \A i \in 1..(n + 3) : s4[i] = IF i <= n THEN s3[i] ELSE m[i - n]
    BY <2>1, <2>2
  <2> HIDE DEF s4, f
  <2>4. ASSUME NEW i \in 1..(n + 3)
        PROVE  /\ s4[i] \in Meta \cup {f, "record", "flush"}
               /\ s4[i] = "flush" => i = n + 3
    <3>1. CASE i <= n
      <4>1. i \in 1..n
        BY <2>n, <3>1
      <4>2. s4[i] \in Meta
        BY <1>6, <2>3, <3>1, <4>1
      <4>3. \A w \in Meta : w # "flush"
        OBVIOUS
      <4> QED BY <4>2, <4>3
    <3>2. CASE ~ (i <= n)
      <4>1. i - n \in {1, 2, 3} /\ (i - n = 3 => i = n + 3)
        BY <2>n, <3>2
      <4>2. s4[i] = m[i - n]
        BY <2>3, <3>2
      <4>3. \/ i - n = 1 /\ s4[i] = f
            \/ i - n = 2 /\ s4[i] = "record"
            \/ i - n = 3 /\ s4[i] = "flush"
        BY <2>1, <4>1, <4>2
      <4> QED BY <2>1, <4>1, <4>3
    <3> QED BY <3>1, <3>2
  <2>5. s4[n + 2] = "record"
    <3>1. n + 2 \in 1..(n + 3) /\ ~ (n + 2 <= n) /\ (n + 2) - n = 2
      BY <2>n
    <3> QED BY <2>1, <2>3, <3>1
  <2> QED BY <2>n, <2>3, <2>4, <2>5
<1> HIDE DEF s4, n
<1>8. /\ s5 \in Seq(Step) /\ Len(s5) >= n + 3
      /\ \A i \in 1..(n + 3) : s5[i] = s4[i]
      /\ \A i \in 1..Len(s5) : i \in 1..(n + 3) \/ (i = n + 4 /\ s5[i] = "volume" /\ later' > 0)
  <2> DEFINE p == later' > 0
  <2>1. v = IF p THEN <<"volume">> ELSE <<>>
    OBVIOUS
  <2> HIDE DEF v, p
  <2>2. /\ s4 \o v \in Seq(Step) /\ Len(s4 \o v) >= Len(s4) /\ Len(s4 \o v) <= Len(s4) + 1
        /\ \A i \in 1..Len(s4) : (s4 \o v)[i] = s4[i]
        /\ Len(s4 \o v) # Len(s4) => p /\ (s4 \o v)[Len(s4) + 1] = "volume"
    BY <1>7, <1>t, <2>1, MayExtend
  <2>3. /\ s5 \in Seq(Step) /\ Len(s5) >= n + 3 /\ Len(s5) <= n + 4
        /\ \A i \in 1..(n + 3) : s5[i] = s4[i]
        /\ Len(s5) # n + 3 => p /\ s5[n + 4] = "volume"
    BY <1>7, <2>2
  <2>4. \A i \in 1..Len(s5) : i \in 1..(n + 3) \/ (i = n + 4 /\ Len(s5) # n + 3)
    <3> HIDE DEF s5
    <3> QED BY <1>7, <2>3
  <2> QED BY <2>3, <2>4 DEF p
<1> HIDE DEF s5
<1>9. /\ todo' \in Seq(Step) /\ Len(todo') = Len(s5) + 1
      /\ \A i \in 1..Len(s5) : todo'[i] = s5[i]
      /\ todo'[Len(s5) + 1] = "play"
  BY <1>3, <1>8, <1>t, Extends
<1>10. ASSUME NEW i \in DOMAIN todo'
       PROVE  /\ todo'[i] \in {"progress", "text", "artwork", "feedback", "keep", "record", "flush", "volume", "play"}
              /\ todo'[i] = "volume" => later' # NoVolume
              /\ todo'[i] = "flush" => \E j \in 1..(i - 1) : todo'[j] = "record"
  <2>1. i \in 1..(Len(s5) + 1) /\ Len(s5) \in Nat
    BY <1>8, <1>9
  <2>2. CASE i = Len(s5) + 1
    BY <1>9, <2>2
  <2>3. CASE i \in 1..(n + 3) /\ i \in 1..Len(s5)
    <3>1. todo'[i] = s4[i]
      BY <1>8, <1>9, <2>3
    <3>2. todo'[i] \in {"progress", "text", "artwork", "feedback", "keep", "record", "flush"}
      BY <1>7, <2>3, <3>1 DEF f
    <3>3. todo'[i] = "flush" => \E j \in 1..(i - 1) : todo'[j] = "record"
      <4> SUFFICES ASSUME todo'[i] = "flush" PROVE \E j \in 1..(i - 1) : todo'[j] = "record"
        OBVIOUS
      <4>1. i = n + 3
        BY <1>7, <2>3, <3>1
      <4>2. n + 2 \in 1..(i - 1) /\ n + 2 \in 1..(n + 3) /\ n + 2 \in 1..Len(s5)
        BY <1>7, <1>8, <2>1, <4>1
      <4>3. todo'[n + 2] = "record"
        BY <1>7, <1>8, <1>9, <4>2
      <4> QED BY <4>2, <4>3
    <3> QED BY <3>2, <3>3
  <2>4. CASE i = n + 4 /\ i \in 1..Len(s5) /\ s5[i] = "volume" /\ later' > 0
    <3>1. todo'[i] = "volume"
      BY <1>9, <2>4
    <3>2. later' # NoVolume
      BY <2>4 DEF NoVolume
    <3> QED BY <3>1, <3>2
  <2>5. i \in 1..Len(s5) \/ i = Len(s5) + 1
    BY <2>1
  <2> QED BY <1>8, <2>2, <2>3, <2>4, <2>5
<1> QED BY <1>1, <1>9, <1>10

(* The volume that is set or taken before anything is sent.                 *)
LEMMA TakesVolumeKeeps == ASSUME SessionInv, TakesVolume PROVE SessionInv'
<1>1. /\ stage = "opening" /\ todo = <<>> /\ \A i \in DOMAIN wire : wire[i].by # "stream"
      /\ UNCHANGED <<password, receiver, remembered, echo, keeper, uses>>
  BY DEF TakesVolume
<1>2. CASE current = NoVolume /\ receiver.tells
  <2>1. current' = receiver.volume /\ Sends(NoVolume) /\ UNCHANGED wire
    BY <1>2 DEF TakesVolume
  <2>2. /\ stage' = "sending" /\ later' = NoVolume /\ UNCHANGED <<major, digest>>
        /\ todo' \in Seq(Step)
        /\ \A i \in DOMAIN todo' :
              /\ todo'[i] \in {"progress", "text", "artwork", "feedback", "keep", "record", "flush", "volume", "play"}
              /\ todo'[i] = "volume" => later' # NoVolume
              /\ todo'[i] = "flush" => \E j \in 1..(i - 1) : todo'[j] = "record"
    BY <2>1, SendsIs
  <2>3. SessionType'
    BY <1>1, <2>1, <2>2 DEF SessionInv, SessionType
  <2>4. Turns'
    BY <1>1, <2>1 DEF SessionInv, Turns
  <2>5. Stages'
    BY <1>1, <2>2 DEF SessionInv, Stages
  <2>6. Opened'
    <3>1. IsSetUp /\ IsAnnounced
      BY <1>1 DEF IsSetUp, IsAnnounced, SessionInv, SessionType
    <3> QED BY <1>1, <2>2, <3>1 DEF SessionInv, Opened
  <2>7. VolumesAgree'
    <3>1. echo = <<>> /\ receiver.volume # NoVolume
      BY <1>2 DEF SessionInv, VolumesAgree, SessionType, Levels, Loud, NoVolume
    <3> QED BY <1>1, <2>1, <3>1 DEF VolumesAgree, LastVolume
  <2> QED BY <2>3, <2>4, <2>5, <2>6, <2>7 DEF SessionInv
<1>3. CASE ~ (current = NoVolume /\ receiver.tells)
  <2>1. wire' = Append(wire, Requested("stream", "volume", Ours)) /\ UNCHANGED <<current, callVars>>
    BY <1>3 DEF TakesVolume
  <2>2. Ours \in Levels /\ "volume" \in Step
    BY DEF Ours, SessionInv, SessionType, Levels, Loud, Step
  <2> DEFINE r == Requested("stream", "volume", Ours)
  <2>3. /\ r \in Request /\ r.by = "stream" /\ r.what = "volume" /\ r.level = Ours /\ r.auth = digest
        /\ r.session = IF "volume" \in Named THEN remembered ELSE 0
    BY <2>2, RequestIs
  <2>4. wire' = Append(wire, r) /\ UNCHANGED <<todo, digest, remembered>>
    BY <1>1, <2>1 DEF callVars
  <2> HIDE DEF r
  <2>5. Turns' /\ wire' \in Seq(Request) /\ wire' # <<>>
    BY <1>1, <2>2, <2>3, <2>4, AskedInTurn
  <2>6. SessionType'
    BY <1>1, <2>1, <2>5 DEF SessionInv, SessionType, callVars
  <2>7. Stages' /\ Opened' /\ VolumesAgree'
    BY <1>1, <2>1 DEF SessionInv, Stages, Coming, Opened, IsSetUp, IsAnnounced, VolumesAgree, LastVolume, callVars
  <2> QED BY <2>5, <2>6, <2>7 DEF SessionInv
<1> QED BY <1>2, <1>3

(* A volume that is dispatched.                                             *)
LEMMA Dispatches ==
    ASSUME NEW level \in Levels, echo \in Seq(Levels), echo' = Append(echo, level), current' = level
    PROVE  echo' \in Seq(Levels) /\ current' # NoVolume /\ LastVolume' = level
<1>1. /\ echo' \in Seq(Levels) /\ echo' # <<>> /\ echo'[Len(echo')] = level
  OBVIOUS
<1>2. current' # NoVolume
  BY DEF Levels, Loud, NoVolume
<1> QED BY <1>1, <1>2 DEF LastVolume

LEMMA VolumeIsToldKeeps == ASSUME SessionInv, NEW code \in Codes, VolumeIsTold(code) PROVE SessionInv'
<1> DEFINE level == Head(wire).level
<1>1. /\ Gets("stream", code) /\ stage = "opening" /\ Head(wire).what = "volume"
      /\ UNCHANGED <<password, remembered, keeper>>
      /\ IF code = "200" THEN current' = level /\ echo' = Append(echo, level) /\ Sends(NoVolume)
         ELSE Sends(Ours) /\ UNCHANGED volumeVars
  BY DEF VolumeIsTold
<1>2. /\ wire # <<>> /\ Head(wire).by = "stream" /\ wire' = Tail(wire) /\ ReceiverAnswers("stream", code)
      /\ receiver' \in [demands : BOOLEAN, tells : BOOLEAN, volume : Levels, announced : BOOLEAN,
                        session : Nat, records : BOOLEAN]
      /\ receiver'.demands = receiver.demands
      /\ receiver'.announced = (receiver.announced \/ (code = "200" /\ Head(wire).what = "announce"))
      /\ receiver'.session = IF code = "200" /\ Head(wire).what = "setup" THEN uses.streams ELSE receiver.session
      /\ receiver'.records = (receiver.records \/ (code = "200" /\ Head(wire).what = "record"))
      /\ receiver'.volume = IF code = "200" /\ Head(wire).what = "volume" THEN Head(wire).level
                            ELSE receiver.volume
  BY <1>1, GetsIs
<1>3. uses' \in [streams : Nat, volumes : Nat, errors : Nat] /\ uses'.streams = uses.streams
  BY <1>2, AnswerIs
<1>4. /\ Head(wire) = wire[1] /\ 1 \in DOMAIN wire /\ level \in Levels /\ echo \in Seq(Levels)
      /\ Ours \in Levels /\ NoVolume \in Levels \cup {NoVolume}
  BY <1>1, <1>2, OldestIs DEF SessionInv, Turns, SessionType, Ours, Levels, Loud
<1>5. PICK volume \in {NoVolume, Ours} : Sends(volume) /\ (volume = NoVolume => code = "200")
  <2>1. Ours # NoVolume
    BY <1>4 DEF Levels, Loud, NoVolume
  <2> QED BY <1>1, <2>1
<1>6. /\ stage' = "sending" /\ later' = volume /\ UNCHANGED <<major, digest>>
      /\ todo' \in Seq(Step)
      /\ \A i \in DOMAIN todo' :
            /\ todo'[i] \in {"progress", "text", "artwork", "feedback", "keep", "record", "flush", "volume", "play"}
            /\ todo'[i] = "volume" => later' # NoVolume
            /\ todo'[i] = "flush" => \E j \in 1..(i - 1) : todo'[j] = "record"
  BY <1>4, <1>5, SendsIs
<1>7. Turns' /\ wire' \in Seq(Request)
  BY <1>2, AnsweredInTurn
<1>8. todo = <<>>
  <2>1. todo # <<>> => todo[1] = "volume" /\ 1 \in DOMAIN todo
    BY <1>1, <1>2, <1>4 DEF SessionInv, Turns, SessionType
  <2>2. \A i \in DOMAIN todo : todo[i] # "volume"
    BY <1>1 DEF SessionInv, Stages, Coming
  <2> QED BY <2>1, <2>2
<1>9. IF code = "200" THEN echo' \in Seq(Levels) /\ current' # NoVolume /\ LastVolume' = level
      ELSE UNCHANGED volumeVars
  BY <1>1, <1>4, Dispatches
<1>10. SessionType'
  <2>1. current' \in Levels \cup {NoVolume} /\ echo' \in Seq(Levels)
    BY <1>1, <1>4, <1>9 DEF SessionInv, SessionType, volumeVars
  <2> QED BY <1>1, <1>2, <1>3, <1>4, <1>5, <1>6, <1>7, <2>1 DEF SessionInv, SessionType
<1>11. Stages'
  BY <1>1, <1>3, <1>6 DEF SessionInv, Stages
<1>12. Opened'
  <2>1. IsSetUp /\ IsAnnounced
    BY <1>1, <1>8 DEF IsSetUp, IsAnnounced, SessionInv, SessionType
  <2> QED BY <1>1, <1>2, <1>6, <2>1 DEF SessionInv, Opened
<1>13. VolumesAgree'
  BY <1>1, <1>2, <1>5, <1>6, <1>9 DEF SessionInv, VolumesAgree, volumeVars
<1> QED BY <1>7, <1>10, <1>11, <1>12, <1>13 DEF SessionInv

LEMMA ChallengedKeeps == ASSUME SessionInv, Challenged PROVE SessionInv'
<1>1. /\ Gets("stream", "401") /\ digest' = TRUE /\ "401" \in Codes
      /\ UNCHANGED <<password, stage, major, todo, later, remembered, volumeVars, keeper>>
  BY DEF Challenged, Codes
<1>2. /\ wire # <<>> /\ Head(wire).by = "stream" /\ wire' = Tail(wire) /\ ReceiverAnswers("stream", "401")
      /\ receiver' = receiver
  BY <1>1 DEF Gets, ReceiverAnswers
<1>3. uses' \in [streams : Nat, volumes : Nat, errors : Nat] /\ uses'.streams = uses.streams
  BY <1>1, <1>2, AnswerIs
<1>4. Turns' /\ wire' \in Seq(Request)
  BY <1>2, AnsweredInTurn
<1>5. SessionType'
  BY <1>1, <1>2, <1>3, <1>4 DEF SessionInv, SessionType, volumeVars
<1>6. Stages'
  BY <1>1, <1>2, <1>3 DEF SessionInv, Stages, Coming
<1>7. Opened' /\ VolumesAgree'
  BY <1>1, <1>2 DEF SessionInv, Opened, IsSetUp, IsAnnounced, VolumesAgree, LastVolume, volumeVars
<1> QED BY <1>4, <1>5, <1>6, <1>7 DEF SessionInv

(* The stream goes on with what it has to ask next.                         *)
LEMMA NextOpening ==
    ASSUME SessionInv, stage = "opening", todo # <<>>, todo' = Tail(todo), UNCHANGED <<stage, major>>
    PROVE  \A i \in DOMAIN todo' : todo'[i] \in Coming(i)'
<1> DEFINE n == Len(todo)
<1>1. /\ todo \in Seq(Step) /\ major \in {1, 2}
      /\ \A i \in 1..n : todo[i] \in Coming(i)
  BY DEF SessionInv, SessionType, Stages
<1>2. /\ n \in Nat \ {0} /\ Len(todo') = n - 1 /\ DOMAIN todo' = 1..(n - 1)
      /\ \A i \in 1..(n - 1) : todo'[i] = todo[i + 1] /\ i + 1 \in 1..n
  BY <1>1
<1> SUFFICES ASSUME NEW i \in 1..(n - 1) PROVE todo'[i] \in Coming(i)'
  BY <1>2
<1>3. todo'[i] \in Coming(i + 1)
  BY <1>1, <1>2
<1>4. /\ (i + 1 = n) = (i = Len(todo')) /\ (i + 1 = n - 1) = (i = Len(todo') - 1)
  BY <1>2
<1> HIDE DEF n
<1>5. Coming(i + 1) = Coming(i)'
  <2>1. CASE i = Len(todo')
    <3>1. i # Len(todo') - 1 /\ i + 1 # n - 1
      BY <1>2, <2>1
    <3> QED BY <1>4, <2>1, <3>1 DEF Coming, n
  <2>2. CASE i = Len(todo') - 1
    <3>1. i # Len(todo') /\ i + 1 # n
      BY <1>2, <2>2
    <3> QED BY <1>4, <2>2, <3>1 DEF Coming, n
  <2>3. CASE i # Len(todo') /\ i # Len(todo') - 1
    BY <1>4, <2>3 DEF Coming, n
  <2> QED BY <2>1, <2>2, <2>3
<1> QED BY <1>3, <1>5

LEMMA GoesOnKeeps == ASSUME SessionInv, NEW code \in Codes, GoesOn(code) PROVE SessionInv'
<1> DEFINE r == Head(wire)
           n == Len(todo)
<1>1. /\ Gets("stream", code) /\ todo # <<>> /\ todo' = Tail(todo)
      /\ Tolerated(code) /\ r.what # "teardown" /\ remembered' = Session
      /\ current' = IF r.what = "volume" THEN r.level ELSE current
      /\ keeper' = IF r.what = "feedback" /\ code = "200" THEN "sleeps" ELSE keeper
      /\ UNCHANGED <<password, stage, major, digest, later, echo>>
  BY DEF GoesOn
<1>2. /\ wire # <<>> /\ r.by = "stream" /\ wire' = Tail(wire) /\ ReceiverAnswers("stream", code)
      /\ receiver' \in [demands : BOOLEAN, tells : BOOLEAN, volume : Levels, announced : BOOLEAN,
                        session : Nat, records : BOOLEAN]
      /\ receiver'.demands = receiver.demands
      /\ receiver'.announced = (receiver.announced \/ (code = "200" /\ r.what = "announce"))
      /\ receiver'.session = IF code = "200" /\ r.what = "setup" THEN uses.streams ELSE receiver.session
      /\ receiver'.records = (receiver.records \/ (code = "200" /\ r.what = "record"))
      /\ receiver'.volume = IF code = "200" /\ r.what = "volume" THEN r.level ELSE receiver.volume
  BY <1>1, GetsIs
<1>3. /\ uses' \in [streams : Nat, volumes : Nat, errors : Nat] /\ uses'.streams = uses.streams
      /\ code = Judged(r) \/ (code = "500" /\ Judged(r) = "200")
  BY <1>2, AnswerIs
<1>4. /\ r = wire[1] /\ 1 \in DOMAIN wire /\ r.what = todo[1] /\ r.auth = digest
      /\ r.what = "volume" => r.level \in Levels
  BY <1>1, <1>2, OldestIs DEF SessionInv, Turns
<1>5. /\ todo \in Seq(Step) /\ n \in Nat \ {0} /\ todo' \in Seq(Step) /\ Len(todo') = n - 1
      /\ 1 \in DOMAIN todo /\ DOMAIN todo' = 1..(n - 1)
      /\ \A i \in 1..(n - 1) : todo'[i] = todo[i + 1] /\ i + 1 \in DOMAIN todo
  BY <1>1 DEF SessionInv, SessionType
<1>6. stage \in {"opening", "sending"}
  BY <1>1, <1>4 DEF SessionInv, SessionType, Stages
<1>7. Turns' /\ wire' \in Seq(Request)
  BY <1>2, AnsweredInTurn
<1>8. /\ remembered' = IF r.what = "setup" /\ major = 1 THEN receiver'.session ELSE remembered
      /\ \/ code = "200" \/ r.what \in {"info", "feedback"}
         \/ r.what = "announce" /\ ~ digest /\ password # "none" /\ code # "401"
  <2>1. Session = IF r.what = "setup" /\ major = 1 THEN receiver'.session ELSE remembered
    BY DEF Session
  <2>2. \/ code = "200" \/ r.what \in {"info", "feedback"}
        \/ r.what = "announce" /\ ~ digest /\ password # "none" /\ code # "401"
    BY <1>1 DEF First, Tolerated
  <2> QED BY <1>1, <2>1, <2>2
<1>9. r.what = "announce" /\ receiver.demands /\ password = "right" => digest
  <2> SUFFICES ASSUME r.what = "announce", receiver.demands, password = "right", ~ digest PROVE FALSE
    BY DEF SessionInv, SessionType
  <2>1. Judged(r) = "401"
    BY <1>4 DEF Judged
  <2> QED BY <1>3, <1>8, <2>1
<1> HIDE DEF r, n
<1>10. SessionType'
  <2>1. current' \in Levels \cup {NoVolume} /\ keeper' \in {"none", "sleeps", "asks"}
    BY <1>1, <1>4 DEF SessionInv, SessionType
  <2>2. remembered' \in Nat
    BY <1>1, <1>2, <1>8 DEF SessionInv, SessionType
  <2> QED BY <1>1, <1>2, <1>3, <1>5, <1>7, <2>1, <2>2 DEF SessionInv, SessionType
<1>11. CASE stage = "opening"
  <2>1. \A i \in DOMAIN todo' : todo'[i] \in Coming(i)'
    BY <1>1, <1>11, NextOpening
  <2>2. Stages'
    BY <1>1, <1>3, <1>11, <2>1 DEF SessionInv, Stages
  <2>3. r.what \in Coming(1)
    BY <1>4, <1>5, <1>11 DEF SessionInv, Stages
  <2>4. r.what # "volume"
    BY <2>3 DEF Coming
  <2>5. major \in {1, 2} /\ uses.streams > 0 /\ uses.streams \in Nat
    BY <1>11 DEF SessionInv, SessionType, Stages
  <2>6. /\ n = 1 => r.what = IF major = 1 THEN "setup" ELSE "setup_stream"
        /\ n = 2 => r.what = IF major = 1 THEN "announce" ELSE "setup"
    BY <2>3 DEF Coming, n
  <2>7. IsSetUp' => n = major \/ (n = 1 /\ major = 2)
    BY <1>1, <1>5, <1>11, <2>5 DEF IsSetUp
  <2>8. ASSUME IsSetUp' PROVE receiver'.session # 0 /\ (major' = 1 => remembered' = receiver'.session)
    <3>1. CASE n = major
      <4>1. r.what = "setup"
        BY <2>5, <2>6, <3>1
      <4>2. code = "200"
        BY <1>8, <4>1
      <4> QED BY <1>1, <1>2, <1>8, <2>5, <4>1, <4>2
    <3>2. CASE n = 1 /\ major = 2
      <4>1. IsSetUp /\ r.what = "setup_stream"
        BY <1>11, <2>6, <3>2 DEF IsSetUp, n
      <4> QED BY <1>1, <1>2, <3>2, <4>1 DEF SessionInv, Opened
    <3> QED BY <2>7, <2>8, <3>1, <3>2
  <2>9. IsAnnounced' /\ major' = 1 => n \in {1, 2}
    BY <1>1, <1>5, <1>11 DEF IsAnnounced, IsSetUp
  <2>10. ASSUME IsAnnounced', major' = 1
         PROVE  /\ password' = "none" => receiver'.announced
                /\ password' = "right" /\ receiver'.demands => digest'
    <3>1. CASE n = 1
      <4>1. IsAnnounced
        BY <1>11, <3>1 DEF IsAnnounced, n
      <4> QED BY <1>1, <1>2, <2>10, <4>1 DEF SessionInv, Opened
    <3>2. CASE n = 2
      <4>1. r.what = "announce"
        BY <1>1, <2>6, <2>10, <3>2
      <4>2. password = "none" => code = "200"
        BY <1>8, <4>1
      <4> QED BY <1>1, <1>2, <1>9, <4>1, <4>2
    <3> QED BY <2>9, <2>10, <3>1, <3>2
  <2>11. Opened'
    BY <2>8, <2>10 DEF Opened
  <2>12. VolumesAgree'
    BY <1>1, <1>2, <1>11, <2>4 DEF SessionInv, VolumesAgree
  <2> QED BY <1>7, <1>10, <2>2, <2>11, <2>12 DEF SessionInv
<1>12. CASE stage = "sending"
  <2>1. \A i \in DOMAIN todo :
          /\ todo[i] \in {"progress", "text", "artwork", "feedback", "keep", "record", "flush", "volume", "play"}
          /\ todo[i] = "volume" => later # NoVolume
          /\ todo[i] = "flush" => receiver.records \/ \E j \in 1..(i - 1) : todo[j] = "record"
    BY <1>12 DEF SessionInv, Stages
  <2>2. r.what \in {"progress", "text", "artwork", "feedback", "keep", "record", "flush", "volume", "play"}
        /\ (r.what = "volume" => later # NoVolume)
    BY <1>4, <1>5, <2>1
  <2>3. ASSUME NEW i \in 1..(n - 1), todo'[i] = "flush"
        PROVE  receiver'.records \/ \E j \in 1..(i - 1) : todo'[j] = "record"
    <3>1. receiver.records \/ \E j \in 1..((i + 1) - 1) : todo[j] = "record"
      BY <1>5, <2>1, <2>3
    <3>2. CASE receiver.records
      BY <1>2, <3>2
    <3>3. ASSUME NEW j \in 1..((i + 1) - 1), todo[j] = "record"
          PROVE  receiver'.records \/ \E k \in 1..(i - 1) : todo'[k] = "record"
      <4>1. CASE j = 1
        <5>1. r.what = "record"
          BY <1>4, <3>3, <4>1
        <5>2. code = "200"
          BY <1>8, <5>1
        <5> QED BY <1>2, <5>1, <5>2
      <4>2. CASE j # 1
        <5>1. j - 1 \in 1..(i - 1) /\ j - 1 \in 1..(n - 1) /\ (j - 1) + 1 = j
          BY <1>5, <4>2
        <5>2. todo'[j - 1] = "record"
          BY <1>5, <3>3, <5>1
        <5> QED BY <5>1, <5>2
      <4> QED BY <4>1, <4>2
    <3> QED BY <3>1, <3>2, <3>3
  <2>4. Stages'
    <3>1. \A i \in DOMAIN todo' :
            /\ todo'[i] \in {"progress", "text", "artwork", "feedback", "keep", "record", "flush", "volume", "play"}
            /\ todo'[i] = "volume" => later' # NoVolume
            /\ todo'[i] = "flush" => receiver'.records \/ \E j \in 1..(i - 1) : todo'[j] = "record"
      <4> SUFFICES ASSUME NEW i \in 1..(n - 1)
                   PROVE  /\ todo'[i] \in {"progress", "text", "artwork", "feedback", "keep", "record", "flush", "volume", "play"}
                          /\ todo'[i] = "volume" => later' # NoVolume
                          /\ todo'[i] = "flush" => receiver'.records \/ \E j \in 1..(i - 1) : todo'[j] = "record"
        BY <1>5
      <4>1. todo'[i] = todo[i + 1] /\ i + 1 \in DOMAIN todo /\ later' = later
        BY <1>1, <1>5
      <4> QED BY <2>1, <2>3, <4>1
    <3>2. uses'.streams > 0 /\ stage' = "sending"
      BY <1>1, <1>3, <1>12 DEF SessionInv, Stages
    <3> QED BY <3>1, <3>2 DEF Stages
  <2>5. IsSetUp /\ IsAnnounced
    BY <1>12 DEF IsSetUp, IsAnnounced
  <2>6. r.what # "setup"
    BY <2>2
  <2>7. Opened'
    BY <1>1, <1>2, <1>8, <2>5, <2>6 DEF SessionInv, Opened
  <2>8. current' = NoVolume => current = NoVolume
    BY <1>1, <1>4 DEF Levels, Loud, NoVolume
  <2>9. VolumesAgree'
    BY <1>1, <1>2, <1>12, <2>2, <2>8 DEF SessionInv, VolumesAgree, LastVolume
  <2> QED BY <1>7, <1>10, <2>4, <2>7, <2>9 DEF SessionInv
<1> QED BY <1>6, <1>11, <1>12

-----------------------------------------------------------------------------
(* How a stream ends.                                                       *)
LEMMA SessionEndsKeeps ==
    ASSUME SessionInv, SessionEnds, uses' \in [streams : Nat, volumes : Nat, errors : Nat],
           uses'.streams = uses.streams
    PROVE  SessionInv'
<1>1. /\ stage' = "none" /\ todo' = <<>> /\ keeper' = "none" /\ wire' = <<>>
      /\ receiver' = [receiver EXCEPT !.announced = FALSE, !.session = 0, !.records = FALSE]
      /\ UNCHANGED <<password, major, digest, later, remembered, volumeVars>>
  BY DEF SessionEnds
<1>2. receiver' \in [demands : BOOLEAN, tells : BOOLEAN, volume : Levels, announced : BOOLEAN,
                     session : Nat, records : BOOLEAN]
  BY <1>1 DEF SessionInv, SessionType
<1>3. SessionType'
  BY <1>1, <1>2 DEF SessionInv, SessionType, volumeVars
<1>4. Turns' /\ Stages'
  BY <1>1 DEF Turns, Stages
<1>5. Opened' /\ VolumesAgree'
  BY <1>1 DEF SessionInv, Opened, IsSetUp, IsAnnounced, VolumesAgree, volumeVars
<1> QED BY <1>3, <1>4, <1>5 DEF SessionInv

LEMMA OnlySending ==
    ASSUME SessionInv, todo # <<>>, todo[1] \in {"play", "keep"}
    PROVE  stage = "sending"
<1>1. 1 \in DOMAIN todo
  BY DEF SessionInv, SessionType
<1>2. Coming(1) \subseteq {"info", "auth_setup", "announce", "setup", "setup_stream"}
  BY DEF Coming
<1>3. stage # "opening"
  BY <1>1, <1>2 DEF SessionInv, Stages
<1>4. stage # "closing" /\ stage # "none"
  BY DEF SessionInv, Stages
<1> QED BY <1>3, <1>4 DEF SessionInv, SessionType

(* TEARDOWN of a stream that had been set up.                               *)
LEMMA TearsDownIs ==
    ASSUME SessionInv, stage = "sending", TearsDown,
           receiver'.session = receiver.session, receiver'.announced = receiver.announced,
           receiver'.demands = receiver.demands, uses'.streams = uses.streams
    PROVE  /\ stage' \in {"none", "opening", "sending", "closing"} /\ todo' \in Seq(Step)
           /\ Stages' /\ Opened' /\ VolumesAgree'
<1>1. /\ stage' = "closing" /\ todo' = <<"teardown">>
      /\ UNCHANGED <<password, major, digest, later, remembered, volumeVars, keeper>>
  BY DEF TearsDown
<1>2. todo' \in Seq(Step)
  <2>1. "teardown" \in Step
    BY DEF Step
  <2> QED BY <1>1, <2>1
<1>3. Stages'
  BY <1>1 DEF SessionInv, Stages
<1>4. IsSetUp /\ IsAnnounced
  BY DEF IsSetUp, IsAnnounced
<1>5. Opened'
  BY <1>1, <1>4 DEF SessionInv, Opened
<1>6. VolumesAgree'
  BY <1>1 DEF SessionInv, VolumesAgree, volumeVars
<1> QED BY <1>1, <1>2, <1>3, <1>5, <1>6

LEMMA RaisesKeeps ==
    ASSUME SessionInv, NEW code \in Codes, OpeningRaises(code) \/ TornDown(code)
    PROVE  SessionInv'
<1>1. ReceiverAnswers("stream", code) /\ SessionEnds
  BY DEF OpeningRaises, TornDown
<1>2. uses' \in [streams : Nat, volumes : Nat, errors : Nat] /\ uses'.streams = uses.streams
  BY <1>1, AnswerIs
<1> QED BY <1>1, <1>2, SessionEndsKeeps

LEMMA SendingRaisesKeeps ==
    ASSUME SessionInv, NEW code \in Codes, SendingRaises(code)
    PROVE  SessionInv'
<1>1. Gets("stream", code) /\ stage = "sending" /\ ~ Tolerated(code) /\ TearsDown
  BY DEF SendingRaises
<1>2. /\ wire # <<>> /\ Head(wire).by = "stream" /\ wire' = Tail(wire) /\ ReceiverAnswers("stream", code)
      /\ code # "200" /\ receiver' = receiver
  BY <1>1 DEF Gets, ReceiverAnswers, Tolerated
<1>3. uses' \in [streams : Nat, volumes : Nat, errors : Nat] /\ uses'.streams = uses.streams
  BY <1>2, AnswerIs
<1>4. Turns' /\ wire' \in Seq(Request)
  BY <1>2, AnsweredInTurn
<1>5. /\ stage' \in {"none", "opening", "sending", "closing"} /\ todo' \in Seq(Step)
      /\ Stages' /\ Opened' /\ VolumesAgree'
  BY <1>1, <1>2, <1>3, TearsDownIs
<1>6. SessionType'
  BY <1>1, <1>2, <1>3, <1>4, <1>5 DEF SessionInv, SessionType, TearsDown, volumeVars
<1> QED BY <1>4, <1>5, <1>6 DEF SessionInv

LEMMA PlaysToTheEndKeeps == ASSUME SessionInv, PlaysToTheEnd PROVE SessionInv'
<1>1. Ready("play") /\ TearsDown /\ UNCHANGED <<receiver, wire, uses>>
  BY DEF PlaysToTheEnd
<1>2. /\ todo # <<>> /\ todo[1] = "play" /\ 1 \in DOMAIN todo /\ \A i \in DOMAIN wire : wire[i].by # "stream"
  BY <1>1 DEF Ready, SessionInv, SessionType
<1>3. stage = "sending"
  BY <1>2, OnlySending
<1>4. /\ stage' \in {"none", "opening", "sending", "closing"} /\ todo' \in Seq(Step)
      /\ Stages' /\ Opened' /\ VolumesAgree'
  BY <1>1, <1>3, TearsDownIs
<1>5. Turns'
  BY <1>1, <1>2 DEF SessionInv, Turns
<1>6. SessionType'
  BY <1>1, <1>4 DEF SessionInv, SessionType, TearsDown, volumeVars
<1> QED BY <1>4, <1>5, <1>6 DEF SessionInv

LEMMA StartsKeepingKeeps == ASSUME SessionInv, StartsKeeping PROVE SessionInv'
<1>1. /\ Ready("keep") /\ todo' = Tail(todo) /\ keeper' = "sleeps"
      /\ UNCHANGED <<password, receiver, stage, major, digest, later, remembered, volumeVars, wire, uses>>
  BY DEF StartsKeeping
<1> DEFINE n == Len(todo)
<1>2. /\ todo # <<>> /\ todo[1] = "keep" /\ 1 \in DOMAIN todo /\ \A i \in DOMAIN wire : wire[i].by # "stream"
      /\ n \in Nat \ {0} /\ todo' \in Seq(Step) /\ DOMAIN todo' = 1..(n - 1) /\ DOMAIN todo = 1..n
      /\ \A i \in 1..(n - 1) : todo'[i] = todo[i + 1] /\ i + 1 \in DOMAIN todo
  BY <1>1 DEF Ready, SessionInv, SessionType
<1>3. stage = "sending"
  BY <1>2, OnlySending
<1>4. \A i \in DOMAIN todo :
        /\ todo[i] \in {"progress", "text", "artwork", "feedback", "keep", "record", "flush", "volume", "play"}
        /\ todo[i] = "volume" => later # NoVolume
        /\ todo[i] = "flush" => receiver.records \/ \E j \in 1..(i - 1) : todo[j] = "record"
  BY <1>3 DEF SessionInv, Stages
<1> HIDE DEF n
<1>5. ASSUME NEW i \in 1..(n - 1), todo'[i] = "flush", ~ receiver.records
      PROVE  \E j \in 1..(i - 1) : todo'[j] = "record"
  <2>1. PICK j \in 1..((i + 1) - 1) : todo[j] = "record"
    BY <1>2, <1>4, <1>5
  <2>2. j # 1
    BY <1>2, <2>1
  <2>3. j - 1 \in 1..(i - 1) /\ j - 1 \in 1..(n - 1) /\ (j - 1) + 1 = j
    BY <1>2, <2>1, <2>2
  <2>4. todo'[j - 1] = "record"
    BY <1>2, <2>1, <2>3
  <2> QED BY <2>3, <2>4
<1>6. Stages'
  <2>1. \A i \in DOMAIN todo' :
          /\ todo'[i] \in {"progress", "text", "artwork", "feedback", "keep", "record", "flush", "volume", "play"}
          /\ todo'[i] = "volume" => later' # NoVolume
          /\ todo'[i] = "flush" => receiver'.records \/ \E j \in 1..(i - 1) : todo'[j] = "record"
    <3> SUFFICES ASSUME NEW i \in 1..(n - 1)
                 PROVE  /\ todo'[i] \in {"progress", "text", "artwork", "feedback", "keep", "record", "flush", "volume", "play"}
                        /\ todo'[i] = "volume" => later' # NoVolume
                        /\ todo'[i] = "flush" => receiver'.records \/ \E j \in 1..(i - 1) : todo'[j] = "record"
      BY <1>2
    <3>1. todo'[i] = todo[i + 1] /\ i + 1 \in DOMAIN todo /\ later' = later /\ receiver' = receiver
      BY <1>1, <1>2
    <3> QED BY <1>4, <1>5, <3>1
  <2> QED BY <1>1, <1>3, <2>1 DEF SessionInv, Stages
<1>7. Turns'
  BY <1>1, <1>2 DEF SessionInv, Turns
<1>8. SessionType'
  BY <1>1, <1>2 DEF SessionInv, SessionType, volumeVars
<1>9. Opened' /\ VolumesAgree'
  BY <1>1, <1>3 DEF SessionInv, Opened, IsSetUp, IsAnnounced, VolumesAgree, LastVolume, volumeVars
<1> QED BY <1>6, <1>7, <1>8, <1>9 DEF SessionInv

-----------------------------------------------------------------------------
(* The keep-alive task and the user.                                        *)
LEMMA KeeperAsksKeeps == ASSUME SessionInv, KeeperAsks PROVE SessionInv'
<1> DEFINE r == Requested("keeper", "feedback", NoVolume)
<1>1. /\ keeper = "sleeps" /\ keeper' = "asks" /\ wire' = Append(wire, r)
      /\ UNCHANGED <<password, receiver, callVars, remembered, volumeVars, uses>>
  BY DEF KeeperAsks
<1>2. "feedback" \in Step /\ NoVolume \in Levels \cup {NoVolume}
  BY DEF Step
<1>3. r \in Request /\ r.by = "keeper" /\ r.what = "feedback"
  BY <1>2, RequestIs
<1> HIDE DEF r
<1>4. UNCHANGED <<todo, digest, remembered>>
  BY <1>1 DEF callVars
<1>5. Turns' /\ wire' \in Seq(Request) /\ wire' # <<>>
  BY <1>1, <1>3, <1>4, AskedInTurn
<1>6. stage # "none"
  BY <1>1 DEF SessionInv, Stages
<1>7. SessionType'
  BY <1>1, <1>5 DEF SessionInv, SessionType, callVars, volumeVars
<1>8. Stages' /\ Opened' /\ VolumesAgree'
  BY <1>1, <1>6 DEF SessionInv, Stages, Coming, Opened, IsSetUp, IsAnnounced, VolumesAgree, LastVolume, callVars, volumeVars
<1> QED BY <1>5, <1>7, <1>8 DEF SessionInv

LEMMA KeeperGetsKeeps == ASSUME SessionInv, NEW code \in Codes, KeeperGets(code) PROVE SessionInv'
<1>1. /\ Gets("keeper", code) /\ keeper' \in {"none", "sleeps"}
      /\ UNCHANGED <<password, callVars, remembered, volumeVars>>
  BY DEF KeeperGets
<1>2. /\ wire # <<>> /\ Head(wire).by = "keeper" /\ wire' = Tail(wire) /\ ReceiverAnswers("keeper", code)
      /\ receiver' = IF code = "200" THEN Does(Head(wire)) ELSE receiver
  BY <1>1 DEF Gets, ReceiverAnswers
<1>3. Head(wire).what = "feedback"
  BY <1>2, OldestIs DEF SessionInv, Turns
<1>4. receiver' = receiver
  BY <1>2, <1>3 DEF Does
<1>5. uses' \in [streams : Nat, volumes : Nat, errors : Nat] /\ uses'.streams = uses.streams
  BY <1>2, AnswerIs
<1>6. Turns' /\ wire' \in Seq(Request)
  BY <1>1, <1>2, AnsweredInTurn DEF callVars
<1>7. stage # "none"
  BY <1>2 DEF SessionInv, Stages
<1>8. SessionType'
  BY <1>1, <1>4, <1>5, <1>6 DEF SessionInv, SessionType, callVars, volumeVars
<1>9. Stages' /\ Opened' /\ VolumesAgree'
  BY <1>1, <1>4, <1>5, <1>7 DEF SessionInv, Stages, Coming, Opened, IsSetUp, IsAnnounced, VolumesAgree, LastVolume, callVars, volumeVars
<1> QED BY <1>6, <1>8, <1>9 DEF SessionInv

LEMMA UserSetsVolumeKeeps == ASSUME SessionInv, UserSetsVolume PROVE SessionInv'
<1>1. /\ uses' = [uses EXCEPT !.volumes = @ + 1]
      /\ UNCHANGED <<password, receiver, callVars, remembered, keeper>>
  BY DEF UserSetsVolume, Uses
<1>2. PICK level \in Levels :
        IF stage = "none"
        THEN current' = level /\ echo' = Append(echo, level) /\ UNCHANGED wire
        ELSE wire' = Append(wire, Requested("user", "volume", level)) /\ UNCHANGED volumeVars
  BY DEF UserSetsVolume
<1>3. uses' \in [streams : Nat, volumes : Nat, errors : Nat] /\ uses'.streams = uses.streams
  BY <1>1 DEF SessionInv, SessionType
<1>4. CASE stage = "none"
  <2>1. current' = level /\ echo' = Append(echo, level) /\ UNCHANGED wire /\ echo \in Seq(Levels)
    BY <1>2, <1>4 DEF SessionInv, SessionType
  <2>2. echo' \in Seq(Levels) /\ current' # NoVolume
    BY <2>1, Dispatches
  <2>3. SessionType'
    BY <1>1, <1>3, <2>1, <2>2 DEF SessionInv, SessionType, callVars
  <2>4. Turns' /\ Stages'
    BY <1>1, <1>3, <1>4, <2>1 DEF SessionInv, Turns, Stages, callVars
  <2>5. Opened' /\ VolumesAgree'
    BY <1>1, <1>4, <2>2 DEF SessionInv, Opened, IsSetUp, IsAnnounced, VolumesAgree, callVars
  <2> QED BY <2>3, <2>4, <2>5 DEF SessionInv
<1>5. CASE stage # "none"
  <2> DEFINE r == Requested("user", "volume", level)
  <2>1. wire' = Append(wire, r) /\ UNCHANGED volumeVars /\ UNCHANGED <<todo, digest, remembered>>
    BY <1>1, <1>2, <1>5 DEF callVars
  <2>2. "volume" \in Step /\ level \in Levels \cup {NoVolume}
    BY DEF Step
  <2>3. r \in Request /\ r.by = "user" /\ r.what = "volume" /\ r.level = level
    BY <2>2, RequestIs
  <2> HIDE DEF r
  <2>4. Turns' /\ wire' \in Seq(Request) /\ wire' # <<>>
    BY <2>1, <2>3, AskedInTurn
  <2>5. SessionType'
    BY <1>1, <1>3, <2>1, <2>4 DEF SessionInv, SessionType, callVars, volumeVars
  <2>6. Stages' /\ Opened' /\ VolumesAgree'
    BY <1>1, <1>3, <1>5, <2>1 DEF SessionInv, Stages, Coming, Opened, IsSetUp, IsAnnounced, VolumesAgree, LastVolume, callVars, volumeVars
  <2> QED BY <2>4, <2>5, <2>6 DEF SessionInv
<1> QED BY <1>4, <1>5

LEMMA UserGetsKeeps == ASSUME SessionInv, NEW code \in Codes, UserGets(code) PROVE SessionInv'
<1> DEFINE r == Head(wire)
<1>1. /\ Gets("user", code) /\ UNCHANGED <<password, callVars, remembered, keeper>>
      /\ IF code = "200" THEN current' = r.level /\ echo' = Append(echo, r.level) ELSE UNCHANGED volumeVars
  BY DEF UserGets
<1>2. /\ wire # <<>> /\ r.by = "user" /\ wire' = Tail(wire) /\ ReceiverAnswers("user", code)
      /\ receiver' \in [demands : BOOLEAN, tells : BOOLEAN, volume : Levels, announced : BOOLEAN,
                        session : Nat, records : BOOLEAN]
      /\ receiver'.demands = receiver.demands
      /\ receiver'.announced = (receiver.announced \/ (code = "200" /\ r.what = "announce"))
      /\ receiver'.session = IF code = "200" /\ r.what = "setup" THEN uses.streams ELSE receiver.session
      /\ receiver'.records = (receiver.records \/ (code = "200" /\ r.what = "record"))
      /\ receiver'.volume = IF code = "200" /\ r.what = "volume" THEN r.level ELSE receiver.volume
  BY <1>1, GetsIs
<1>3. r.what = "volume" /\ r.level \in Levels /\ echo \in Seq(Levels)
  BY <1>2, OldestIs DEF SessionInv, SessionType, Turns
<1>4. uses' \in [streams : Nat, volumes : Nat, errors : Nat] /\ uses'.streams = uses.streams
  BY <1>2, AnswerIs
<1>5. Turns' /\ wire' \in Seq(Request)
  BY <1>1, <1>2, AnsweredInTurn DEF callVars
<1>6. stage # "none"
  BY <1>2 DEF SessionInv, Stages
<1> HIDE DEF r
<1>7. IF code = "200" THEN echo' \in Seq(Levels) /\ current' # NoVolume /\ current' \in Levels /\ LastVolume' = r.level
      ELSE UNCHANGED volumeVars
  BY <1>1, <1>3, Dispatches
<1>8. SessionType'
  BY <1>1, <1>2, <1>4, <1>5, <1>7 DEF SessionInv, SessionType, callVars, volumeVars
<1>9. Stages'
  BY <1>1, <1>2, <1>3, <1>4, <1>6 DEF SessionInv, Stages, Coming, callVars
<1>10. Opened'
  BY <1>1, <1>2, <1>3 DEF SessionInv, Opened, IsSetUp, IsAnnounced, callVars
<1>11. VolumesAgree'
  <2>1. CASE code = "200"
    BY <1>2, <1>3, <1>7, <2>1 DEF VolumesAgree
  <2>2. CASE code # "200"
    BY <1>1, <1>2, <1>7, <2>2 DEF SessionInv, VolumesAgree, LastVolume, volumeVars, callVars
  <2> QED BY <2>1, <2>2
<1> QED BY <1>5, <1>8, <1>9, <1>10, <1>11 DEF SessionInv

LEMMA VolumeComesBackKeeps == ASSUME SessionInv, VolumeComesBack PROVE SessionInv'
<1>1. /\ echo # <<>> /\ echo' = Tail(echo) /\ current' = Head(echo)
      /\ UNCHANGED <<password, receiver, callVars, remembered, keeper, wire, uses>>
  BY DEF VolumeComesBack
<1>2. echo \in Seq(Levels)
  BY DEF SessionInv, SessionType
<1>3. current' \in Levels /\ echo' \in Seq(Levels) /\ LastVolume' = LastVolume
  <2>1. current' \in Levels /\ echo' \in Seq(Levels)
    BY <1>1, <1>2
  <2>2. CASE Len(echo) = 1
    <3>1. echo' = <<>> /\ current' = echo[Len(echo)]
      BY <1>1, <1>2, <2>2
    <3> QED BY <1>1, <2>1, <3>1 DEF LastVolume
  <2>3. CASE Len(echo) # 1
    <3>1. echo' # <<>> /\ echo'[Len(echo')] = echo[Len(echo)]
      <4>1. Len(echo) \in Nat /\ Len(echo) > 1
        <5>1. Len(echo) \in Nat /\ Len(echo) # 0
          BY <1>1, <1>2, EmptySeq
        <5> DEFINE l == Len(echo)
        <5>2. l \in Nat /\ l # 0 /\ l # 1
          BY <2>3, <5>1
        <5> HIDE DEF l
        <5>3. l > 1
          BY ONLY <5>2
        <5> QED BY <5>1, <5>3 DEF l
      <4>2. /\ Len(echo') = Len(echo) - 1
            /\ \A i \in 1..(Len(echo) - 1) : echo'[i] = echo[i + 1]
        BY <1>1, <1>2
      <4>3. Len(echo) - 1 \in 1..(Len(echo) - 1) /\ (Len(echo) - 1) + 1 = Len(echo)
        BY <4>1
      <4>4. echo' # <<>>
        BY <4>1, <4>2
      <4> QED BY <4>2, <4>3, <4>4
    <3> QED BY <1>1, <2>1, <3>1 DEF LastVolume
  <2> QED BY <2>2, <2>3
<1>4. current' # NoVolume
  BY <1>3 DEF Levels, Loud, NoVolume
<1>5. SessionType'
  BY <1>1, <1>3 DEF SessionInv, SessionType, callVars
<1>6. Turns' /\ Stages' /\ Opened'
  BY <1>1 DEF SessionInv, Turns, Stages, Coming, Opened, IsSetUp, IsAnnounced, callVars
<1>7. VolumesAgree'
  BY <1>1, <1>3, <1>4 DEF SessionInv, VolumesAgree, callVars
<1> QED BY <1>5, <1>6, <1>7 DEF SessionInv

-----------------------------------------------------------------------------
LEMMA SessionInvInit == ASSUME SessionInit PROVE SessionInv
<1>1. receiver \in [demands : BOOLEAN, tells : BOOLEAN, volume : Levels, announced : BOOLEAN,
                    session : Nat, records : BOOLEAN]
  <2>1. {FALSE} \subseteq BOOLEAN /\ {0} \subseteq Nat
    OBVIOUS
  <2>2. receiver \in [demands : BOOLEAN, tells : BOOLEAN, volume : Levels, announced : {FALSE}, session : {0},
                      records : {FALSE}]
    BY DEF SessionInit
  <2> QED BY <2>1, <2>2, Zenon
<1>2. SessionType
  <2>1. todo \in Seq(Step) /\ echo \in Seq(Levels) /\ wire \in Seq(Request)
    BY DEF SessionInit
  <2>2. uses \in [streams : Nat, volumes : Nat, errors : Nat]
    BY DEF SessionInit
  <2> QED BY <1>1, <2>1, <2>2 DEF SessionInit, SessionType
<1>3. Turns /\ Stages /\ Opened /\ VolumesAgree
  BY DEF SessionInit, Turns, Stages, Opened, IsSetUp, IsAnnounced, VolumesAgree
<1> QED BY <1>2, <1>3 DEF SessionInv

LEMMA SessionInvKept == ASSUME SessionInv, SessionNext PROVE SessionInv'
<1>1. ASSUME NEW code \in Codes,
             \/ VolumeIsTold(code) \/ GoesOn(code) \/ OpeningRaises(code) \/ SendingRaises(code)
             \/ TornDown(code) \/ KeeperGets(code) \/ UserGets(code)
      PROVE  SessionInv'
  BY <1>1, VolumeIsToldKeeps, GoesOnKeeps, RaisesKeeps, SendingRaisesKeeps, KeeperGetsKeeps, UserGetsKeeps
<1> QED BY <1>1, StreamBeginsKeeps, AsksKeeps, TakesVolumeKeeps, ChallengedKeeps, StartsKeepingKeeps,
           PlaysToTheEndKeeps, KeeperAsksKeeps, UserSetsVolumeKeeps, VolumeComesBackKeeps DEF SessionNext

(* What the stream asks for next it asks in time.                           *)
LEMMA AskedInTime ==
    ASSUME SessionInv, wire # <<>>, Head(wire).by = "stream"
    PROVE  \/ Judged(Head(wire)) = "200"
           \/ Judged(Head(wire)) = "401" /\ (First \/ password # "right" \/ major = 2)
           \/ Head(wire).what = "setup" /\ password # "none" /\ ~ receiver.announced
<1> DEFINE r == Head(wire)
           n == Len(todo)
<1>1. /\ r \in Request /\ r.auth = digest
      /\ r.session = IF r.what \in Named THEN remembered ELSE 0
      /\ IF todo = <<>> THEN r.what = "volume" ELSE r.what = todo[1]
  BY OldestIs DEF SessionInv, Turns
<1>2. /\ todo \in Seq(Step) /\ stage \in {"opening", "sending", "closing"} /\ major \in {1, 2}
      /\ receiver.session \in Nat /\ receiver.demands \in BOOLEAN /\ digest \in BOOLEAN
      /\ password \in {"none", "right", "wrong"}
  BY DEF SessionInv, SessionType, Stages
<1>3. /\ n \in Nat /\ (todo # <<>> => n > 0 /\ 1 \in DOMAIN todo)
  BY <1>2
<1>4. CASE stage = "opening"
  <2>1. todo # <<>> => r.what \in Coming(1)
    BY <1>1, <1>3, <1>4 DEF SessionInv, Stages
  <2> HIDE DEF r
  <2>2. /\ n = 0 => r.what = "volume"
        /\ n = 1 => r.what = IF major = 1 THEN "setup" ELSE "setup_stream"
        /\ n = 2 => r.what = IF major = 1 THEN "announce" ELSE "setup"
        /\ n > 2 => r.what \in {"info", "auth_setup"}
    <3>1. n = 0 <=> todo = <<>>
      BY <1>2
    <3>0. n \in Nat
      BY <1>3
    <3>2. n = 1 => 1 # n - 1
      BY ONLY <3>0
    <3>3. n = 2 => 1 # n /\ 1 = n - 1
      BY ONLY <3>0
    <3>4. n > 2 => 1 # n /\ 1 # n - 1
      <4> HIDE DEF n
      <4> QED BY ONLY <3>0
    <3>5. n = 0 => r.what = "volume"
      BY <1>1, <3>1 DEF r
    <3>6. n # 0 => r.what \in Coming(1)
      BY <2>1, <3>1
    <3>7. n = 1 => r.what = IF major = 1 THEN "setup" ELSE "setup_stream"
      BY <3>2, <3>6 DEF Coming
    <3>8. n = 2 => r.what = IF major = 1 THEN "announce" ELSE "setup"
      BY <3>3, <3>6 DEF Coming
    <3>9. n > 2 => r.what \in {"info", "auth_setup"}
      BY <3>4, <3>6 DEF Coming
    <3> QED BY <3>5, <3>7, <3>8, <3>9
  <2>3. n < major => receiver.session # 0
    BY <1>4 DEF SessionInv, Opened, IsSetUp
  <2>4. n < 2 /\ major = 1 =>
          /\ password = "none" => receiver.announced
          /\ password = "right" /\ receiver.demands => digest
    BY <1>4 DEF SessionInv, Opened, IsAnnounced
  <2> HIDE DEF n
  <2>5. \/ r.what = "volume" /\ receiver.session # 0 /\ (major = 1 /\ password = "right" /\ receiver.demands => digest)
        \/ r.what = "setup" /\ major = 1 /\ (password = "none" => receiver.announced)
           /\ (password = "right" /\ receiver.demands => digest)
        \/ r.what = "setup_stream" /\ major = 2 /\ receiver.session # 0
        \/ r.what = "announce" /\ major = 1
        \/ r.what = "setup" /\ major = 2
        \/ r.what \in {"info", "auth_setup"}
    BY <1>2, <1>3, <2>2, <2>3, <2>4
  <2> QED BY <1>1, <1>2, <2>5 DEF Judged, TooEarly, InSession, Named, First, r
<1>5. CASE stage \in {"sending", "closing"}
  <2>1. /\ receiver.session # 0 /\ (major = 1 => remembered = receiver.session)
        /\ (major = 1 /\ password = "right" /\ receiver.demands => digest)
    BY <1>5 DEF SessionInv, Opened, IsSetUp, IsAnnounced
  <2>2. \/ todo = <<>> /\ r.what = "volume"
        \/ stage = "closing" /\ r.what = "teardown"
        \/ stage = "sending" /\ r.what \in {"progress", "text", "artwork", "feedback", "keep", "record", "flush", "volume", "play"}
           /\ (r.what = "flush" => receiver.records)
    <3>1. CASE todo = <<>>
      BY <1>1, <3>1
    <3>2. CASE todo # <<>> /\ stage = "closing"
      BY <1>1, <3>2 DEF SessionInv, Stages
    <3>3. CASE todo # <<>> /\ stage = "sending"
      <4>1. /\ todo[1] \in {"progress", "text", "artwork", "feedback", "keep", "record", "flush", "volume", "play"}
            /\ todo[1] = "flush" => receiver.records \/ \E j \in 1..(1 - 1) : todo[j] = "record"
        BY <1>3, <3>3 DEF SessionInv, Stages
      <4>2. 1..(1 - 1) = {}
        OBVIOUS
      <4> QED BY <1>1, <3>3, <4>1, <4>2
    <3> QED BY <1>5, <3>1, <3>2, <3>3
  <2> HIDE DEF r
  <2> QED BY <1>1, <1>2, <2>1, <2>2 DEF Judged, TooEarly, InSession, Named, First, r
<1> QED BY <1>2, <1>4, <1>5

LEMMA SessionIsHeld == ASSUME SessionInv PROVE SessionIsKept
<1>1. ASSUME Ready("play"), echo = <<>>, later = NoVolume PROVE current = receiver.volume
  <2>1. todo # <<>> /\ todo[1] = "play" /\ 1 \in DOMAIN todo
    BY <1>1 DEF Ready, SessionInv, SessionType
  <2>2. stage = "sending"
    BY <2>1, OnlySending
  <2> QED BY <1>1, <2>2 DEF SessionInv, VolumesAgree, LastVolume
<1> QED BY <1>1, AskedInTime DEF SessionIsKept
-----------------------------------------------------------------------------

(* The parts that read ahead: one of the two moves, the other stands still.  *)
SourceInv == InputInv /\ FramesInv

LEMMA SourceInvariant == Spec => []SourceInv
<1>1. Init => SourceInv
  BY InputInvInit, FramesInvInit DEF Init, SourceInv
<1>2. SourceInv /\ [Next]_vars => SourceInv'
  <2> SUFFICES ASSUME SourceInv, [Next]_vars PROVE SourceInv'
    OBVIOUS
  <2>1. ASSUME UNCHANGED inputVars PROVE InputInv'
    BY <2>1 DEF SourceInv, inputVars, InputInv, InputType, HasRoom, Losses, Aligned, Consecutive
  <2>2. ASSUME UNCHANGED framesVars PROVE FramesInv'
    BY <2>2 DEF SourceInv, framesVars, FramesInv, FramesType, Contiguous, Bounded, Ended
  <2>3. InputNext \/ UNCHANGED inputVars
    BY DEF Next, vars
  <2>4. FramesNext \/ UNCHANGED framesVars
    BY DEF Next, vars
  <2> QED BY <2>1, <2>2, <2>3, <2>4, InputInvKept, FramesInvKept DEF SourceInv
<1> QED BY <1>1, <1>2, PTL DEF Spec

(* A source that is read for its metadata and then again to be decoded, and  *)
(* whose frames are buffered while others are sent, is sent as it is: from   *)
(* its first byte, with nothing missing, doubled or out of order, for any    *)
(* sizes of the buffers and of the reads.                                   *)
THEOREM SourceStaysWhole == Spec => []SourceIsWhole
<1>1. SourceInv => SourceIsWhole
  BY InputIsDecoded, FramesAreWhole DEF SourceInv, SourceIsWhole
<1> QED BY <1>1, SourceInvariant, PTL

(* The session moves alone, and stands still beside the other parts.        *)
LEMMA SessionInvariant == Spec => []SessionInv
<1>1. Init => SessionInv
  BY SessionInvInit DEF Init
<1>2. SessionInv /\ [Next]_vars => SessionInv'
  <2> SUFFICES ASSUME SessionInv, [Next]_vars PROVE SessionInv'
    OBVIOUS
  <2>1. ASSUME UNCHANGED sessionVars PROVE SessionInv'
    BY <2>1 DEF sessionVars, callVars, volumeVars, SessionInv, SessionType, Turns, Stages, Coming, Opened,
                IsSetUp, IsAnnounced, VolumesAgree, LastVolume
  <2>2. SessionNext \/ UNCHANGED sessionVars
    BY DEF Next, vars
  <2> QED BY <2>1, <2>2, SessionInvKept
<1> QED BY <1>1, <1>2, PTL DEF Spec

(* Whatever the user and the keep-alive task put in between, and whatever a  *)
(* receiver refuses: the stream asks in time, in its own session and with   *)
(* the digest, and the volume we go by is the one that the receiver has.    *)
THEOREM SessionStaysOurs == Spec => []SessionIsKept
<1>1. SessionInv => SessionIsKept
  BY SessionIsHeld
<1> QED BY <1>1, SessionInvariant, PTL
=============================================================================
