----------------------------- MODULE RaopSession -----------------------------
(***************************************************************************)
(* The requests of a RAOP stream, as the receiver gets them: what            *)
(* RtspSession (support/rtsp.py) sends for StreamClient (protocols/raop/     *)
(* stream_client.py), AirPlayV1 and AirPlayV2, which share one connection    *)
(* with the keep-alive task and with a user who sets the volume.  Answers    *)
(* come in the order of the requests.                                       *)
(*                                                                         *)
(* RaopStream has what a stream holds, and that anything it awaits may fail  *)
(* at any time; RtspSession and HttpConnection have answers that are lost.   *)
(* Here the receiver refuses what it is asked too early, of another session, *)
(* or without the digest of the password.  Streams follow each other, and    *)
(* the context outlives them.                                               *)
(***************************************************************************)
EXTENDS Integers, Sequences

CONSTANTS
    MaxStreams,   \* streams, one after the other
    MaxVolumes,   \* calls of set_volume by the user
    MaxErrors     \* requests that the receiver could answer and does not

ASSUME SessionAssumption == {MaxStreams, MaxVolumes, MaxErrors} \subseteq Nat

NoVolume == -1
Loud == 1             \* INITIAL_VOLUME
Levels == {0, Loud}

VARIABLES
    password,   \* of the configuration: "none", "right" or "wrong"
    receiver,   \* what it demands and tells; its volume; and, of the connection, what it got
    stage,      \* of stream_file: "none", "opening", "sending" or "closing"
    major,      \* the version of the protocol
    todo,       \* what the stream still has to ask for, one after the other
    digest,     \* digest_info of the session is there
    later,      \* volume that is set once streaming has started, or NoVolume
    remembered, \* rtsp_session of the context
    current,    \* volume of the context
    echo,       \* volumes that were dispatched, and come back to RaopAudio
    keeper,     \* the keep-alive task: "none", "sleeps" or "asks"
    wire,       \* requests that are not answered, oldest first
    uses        \* streams, volumes and errors so far

callVars == <<stage, major, todo, digest, later>>
volumeVars == <<current, echo>>
sessionVars == <<password, receiver, callVars, remembered, volumeVars, keeper, wire, uses>>

Uses(what, most) == uses[what] < most /\ uses' = [uses EXCEPT ![what] = @ + 1]

(* A request; only some name the session.                                   *)
Named == {"text", "artwork", "flush", "teardown"}
Requested(by, what, level) ==
    [by |-> by, what |-> what, level |-> level, auth |-> digest,
     session |-> IF what \in Named THEN remembered ELSE 0]
Ready(step) == todo # <<>> /\ Head(todo) = step /\ \A i \in DOMAIN wire : wire[i].by # "stream"

-----------------------------------------------------------------------------
(* The receiver.                                                            *)
InSession == {"setup_stream", "progress", "volume", "record"} \cup Named
TooEarly(r) ==
    \/ major = 1 /\ r.what = "setup" /\ ~ receiver.announced
    \/ r.what \in InSession /\ receiver.session = 0
    \/ r.what = "flush" /\ ~ receiver.records
Judged(r) ==
    IF receiver.demands /\ r.what \notin {"info", "auth_setup"} /\ (~ r.auth \/ password # "right") THEN "401"
    ELSE IF TooEarly(r) THEN "455"
    ELSE IF major = 1 /\ r.what \in Named /\ r.session # receiver.session THEN "454" ELSE "200"

Does(r) ==
    CASE r.what = "announce" -> [receiver EXCEPT !.announced = TRUE]
      [] r.what = "setup" -> [receiver EXCEPT !.session = uses.streams]
      [] r.what = "record" -> [receiver EXCEPT !.records = TRUE]
      [] r.what = "volume" -> [receiver EXCEPT !.volume = r.level]
      [] OTHER -> receiver

(* It answers the oldest request, or fails to do what it is asked.           *)
ReceiverAnswers(by, code) ==
    /\ wire # <<>> /\ Head(wire).by = by
    /\ \/ code = Judged(Head(wire)) /\ UNCHANGED uses
       \/ code = "500" /\ Judged(Head(wire)) = "200" /\ Uses("errors", MaxErrors)
Gets(by, code) ==
    /\ ReceiverAnswers(by, code) /\ wire' = Tail(wire)
    /\ receiver' = IF code = "200" THEN Does(Head(wire)) ELSE receiver

Codes == {"200", "401", "454", "455", "500"}

-----------------------------------------------------------------------------
(* stream_file: a client with a new session.  initialize asks for /info, an  *)
(* AirPort wants auth-setup, and the protocol is set up.                     *)
Initialize(airport) ==
    <<"info">> \o (IF airport THEN <<"auth_setup">> ELSE <<>>)
        \o (IF major' = 1 THEN <<"announce", "setup">> ELSE <<"setup", "setup_stream">>)
StreamBegins ==
    /\ stage = "none" /\ stage' = "opening" /\ Uses("streams", MaxStreams)
    /\ major' \in {1, 2} /\ \E airport \in BOOLEAN : todo' = Initialize(airport)
    /\ digest' = FALSE /\ later' = NoVolume
    /\ UNCHANGED <<password, receiver, remembered, volumeVars, keeper, wire>>

Asks ==
    /\ \E step \in {"info", "auth_setup", "announce", "feedback", "setup", "record"} \cup InSession :
        /\ Ready(step)
        /\ wire' = Append(wire, Requested("stream", step, later))
    /\ UNCHANGED <<password, receiver, callVars, remembered, volumeVars, keeper, uses>>

(* send_audio, with the metadata that the receiver supports.                *)
SendAudio(types) ==
    LET Sent(type) == IF type \in types THEN <<type>> ELSE <<>>
    IN  Sent("progress") \o Sent("text") \o Sent("artwork")
        \o <<IF major = 1 THEN "feedback" ELSE "keep", "record", "flush">>
        \o (IF later' > 0 THEN <<"volume">> ELSE <<>>) \o <<"play">>
Sends(volume) ==
    /\ stage' = "sending" /\ later' = volume /\ UNCHANGED <<major, digest>>
    /\ \E types \in SUBSET {"progress", "text", "artwork"} : todo' = SendAudio(types)

(* The volume is what the receiver told, if the user has set none; or the    *)
(* receiver is told, and when that fails it is told later.                  *)
Ours == IF current = NoVolume THEN Loud ELSE current
TakesVolume ==
    /\ stage = "opening" /\ todo = <<>> /\ \A i \in DOMAIN wire : wire[i].by # "stream"
    /\ IF current = NoVolume /\ receiver.tells
       THEN current' = receiver.volume /\ Sends(NoVolume) /\ UNCHANGED wire
       ELSE wire' = Append(wire, Requested("stream", "volume", Ours)) /\ UNCHANGED <<current, callVars>>
    /\ UNCHANGED <<password, receiver, remembered, echo, keeper, uses>>
VolumeIsTold(code) ==
    /\ Gets("stream", code) /\ stage = "opening" /\ Head(wire).what = "volume"
    /\ IF code = "200"
       THEN current' = Head(wire).level /\ echo' = Append(echo, Head(wire).level) /\ Sends(NoVolume)
       ELSE Sends(Ours) /\ UNCHANGED volumeVars
    /\ UNCHANGED <<password, remembered, keeper>>

(* An answer to any other request.  What is tolerated need not succeed: with *)
(* a password only 401 counts for the first ANNOUNCE, which is then sent     *)
(* once more with the digest.                                               *)
First == Head(wire).what = "announce" /\ ~ digest /\ password # "none"
Tolerated(code) == code = "200" \/ Head(wire).what \in {"info", "feedback"} \/ (First /\ code # "401")
Challenged ==
    /\ Gets("stream", "401") /\ First /\ digest' = TRUE
    /\ UNCHANGED <<password, stage, major, todo, later, remembered, volumeVars, keeper>>

(* Mutant: the session that SETUP returned is not kept.                     *)
NoSession == remembered
Session == IF Head(wire).what = "setup" /\ major = 1 THEN receiver'.session ELSE remembered
GoesOn(code) ==
    /\ Gets("stream", code) /\ todo # <<>> /\ todo' = Tail(todo)
    /\ Tolerated(code) /\ Head(wire).what # "teardown"
    /\ remembered' = Session
    /\ current' = IF Head(wire).what = "volume" THEN Head(wire).level ELSE current
    /\ keeper' = IF Head(wire).what = "feedback" /\ code = "200" THEN "sleeps" ELSE keeper
    /\ UNCHANGED <<password, stage, major, digest, later, echo>>

(* The "finally" clauses: TEARDOWN, once there is a socket for the audio; and *)
(* the connection is closed, so that nobody gets an answer any more.        *)
TearsDown ==
    /\ stage' = "closing" /\ todo' = <<"teardown">>
    /\ UNCHANGED <<password, major, digest, later, remembered, volumeVars, keeper>>
SessionEnds ==
    /\ stage' = "none" /\ todo' = <<>> /\ keeper' = "none" /\ wire' = <<>>
    /\ receiver' = [receiver EXCEPT !.announced = FALSE, !.session = 0, !.records = FALSE]
    /\ UNCHANGED <<password, major, digest, later, remembered, volumeVars>>
OpeningRaises(code) ==
    /\ ReceiverAnswers("stream", code) /\ stage = "opening" /\ Head(wire).what # "volume"
    /\ ~ Tolerated(code) /\ ~ First
    /\ SessionEnds
SendingRaises(code) ==
    /\ Gets("stream", code) /\ stage = "sending" /\ ~ Tolerated(code)
    /\ TearsDown
TornDown(code) == ReceiverAnswers("stream", code) /\ stage = "closing" /\ SessionEnds

(* start_feedback of AirPlay 2; and the source is at its end, or stop().     *)
StartsKeeping ==
    /\ Ready("keep") /\ todo' = Tail(todo) /\ keeper' = "sleeps"
    /\ UNCHANGED <<password, receiver, stage, major, digest, later, remembered, volumeVars, wire, uses>>
PlaysToTheEnd == Ready("play") /\ TearsDown /\ UNCHANGED <<receiver, wire, uses>>

-----------------------------------------------------------------------------
(* The keep-alive task.  That of AirPlay 1 takes only ProtocolError.         *)
KeeperAsks ==
    /\ keeper = "sleeps" /\ keeper' = "asks"
    /\ wire' = Append(wire, Requested("keeper", "feedback", NoVolume))
    /\ UNCHANGED <<password, receiver, callVars, remembered, volumeVars, uses>>
KeeperGets(code) ==
    /\ Gets("keeper", code)
    /\ keeper' = IF major = 1 /\ code = "401" THEN "none" ELSE "sleeps"
    /\ UNCHANGED <<password, callVars, remembered, volumeVars>>

(* RaopAudio.set_volume, and the echo of what it dispatches.                *)
UserSetsVolume ==
    /\ Uses("volumes", MaxVolumes)
    /\ \E level \in Levels :
        IF stage = "none"
        THEN current' = level /\ echo' = Append(echo, level) /\ UNCHANGED wire
        ELSE wire' = Append(wire, Requested("user", "volume", level)) /\ UNCHANGED volumeVars
    /\ UNCHANGED <<password, receiver, callVars, remembered, keeper>>
UserGets(code) ==
    /\ Gets("user", code)
    /\ IF code = "200" THEN current' = Head(wire).level /\ echo' = Append(echo, current')
       ELSE UNCHANGED volumeVars
    /\ UNCHANGED <<password, callVars, remembered, keeper>>
VolumeComesBack ==
    /\ echo # <<>> /\ echo' = Tail(echo) /\ current' = Head(echo)
    /\ UNCHANGED <<password, receiver, callVars, remembered, keeper, wire, uses>>

SessionInit ==
    /\ password \in {"none", "right", "wrong"}
    /\ receiver \in [demands : BOOLEAN, tells : BOOLEAN, volume : Levels, announced : {FALSE}, session : {0}, records : {FALSE}]
    /\ stage = "none" /\ major = 1 /\ todo = <<>> /\ digest = FALSE /\ later = NoVolume
    /\ remembered = 0 /\ current = NoVolume /\ echo = <<>> /\ keeper = "none" /\ wire = <<>>
    /\ uses = [streams |-> 0, volumes |-> 0, errors |-> 0]

SessionNext ==
    \/ StreamBegins \/ Asks \/ TakesVolume \/ Challenged \/ StartsKeeping \/ PlaysToTheEnd
    \/ KeeperAsks \/ UserSetsVolume \/ VolumeComesBack
    \/ \E code \in Codes :
        \/ VolumeIsTold(code) \/ GoesOn(code) \/ OpeningRaises(code) \/ SendingRaises(code)
        \/ TornDown(code) \/ KeeperGets(code) \/ UserGets(code)

-----------------------------------------------------------------------------
(* What the stream asks for it asks in time, of its own session and with the *)
(* digest, whatever the user and the keep-alive task put in between: it is   *)
(* refused only when the password is missing or wrong (AirPlay 2 has none),  *)
(* or when an ANNOUNCE failed in silence.  And when nobody waits for an       *)
(* answer, the volume we go by is the one that the receiver has, in whatever *)
(* order it was set, found and told, unless it had to be set later.         *)
SessionIsKept ==
    /\ wire # <<>> /\ Head(wire).by = "stream" =>
        \/ Judged(Head(wire)) = "200"
        \/ Judged(Head(wire)) = "401" /\ (First \/ password # "right" \/ major = 2)
        \/ Head(wire).what = "setup" /\ password # "none" /\ ~ receiver.announced
    /\ Ready("play") /\ echo = <<>> /\ later = NoVolume
       /\ (\A i \in DOMAIN wire : wire[i].what # "volume") => current = receiver.volume
=============================================================================
