------------------------------ MODULE Streaming ------------------------------
(***************************************************************************)
(* Five parts that do not share state, checked side by side: a stream of    *)
(* RAOP, the requests of one, how its source is read twice, how its frames   *)
(* are buffered, and the push updates of DMAP.  A behaviour is one of them. *)
(***************************************************************************)
EXTENDS RaopStream, RaopSession, AudioInput, AudioFrames, DmapPush

VARIABLE part

vars == <<part, streamerVars, sessionVars, inputVars, framesVars, pushVars>>

Init ==
    /\ part \in {"stream", "session", "input", "frames", "push"}
    /\ StreamInit /\ SessionInit /\ InputInit /\ FramesInit /\ PushInit
    /\ part # "input" => wrapper = "io"
    /\ part # "session" =>
          password = "none" /\ receiver.demands = FALSE /\ receiver.tells = FALSE /\ receiver.volume = 0

Next ==
    /\ UNCHANGED part
    /\ \/ part = "stream" /\ StreamNext /\ UNCHANGED <<sessionVars, inputVars, framesVars, pushVars>>
       \/ part = "session" /\ SessionNext /\ UNCHANGED <<streamerVars, inputVars, framesVars, pushVars>>
       \/ part = "input" /\ InputNext /\ UNCHANGED <<streamerVars, sessionVars, framesVars, pushVars>>
       \/ part = "frames" /\ FramesNext /\ UNCHANGED <<streamerVars, sessionVars, inputVars, pushVars>>
       \/ part = "push" /\ PushNext /\ UNCHANGED <<streamerVars, sessionVars, inputVars, framesVars>>

Spec == Init /\ [][Next]_vars

(* Everything that stream_file awaits ends: a request times out, a lap      *)
(* sleeps for the time of its packets, a source returns frames or raises.   *)
(* The executor that reads chunks comes back, and the event loop runs what   *)
(* is ready or waits for an event that is set.  A device answers a request   *)
(* that it has something to say to.  Not every answer is an error: one that *)
(* asks again and again is answered some day.  Nothing makes a device       *)
(* change or a user call.                                                   *)
FairSpec ==
    /\ Spec
    /\ \A c \in Caller : WF_streamerVars(part = "stream" /\ Progress(c))
    /\ WF_framesVars(part = "frames" /\ FramesRun)
    /\ \A p \in Poller :
        /\ WF_pushVars(part = "push" /\ Task(p))
        /\ SF_pushVars(part = "push" /\ Receives(p))
        /\ SF_pushVars(part = "push" /\ Answers(p))

(* Nobody who streams, and nobody who waits for frames, waits for ever.     *)
EverythingEnds == StreamEnds /\ FramesCome

(* What is sent is the source, read again after its metadata and buffered on *)
(* the way: nothing is missing, doubled or out of order.                    *)
SourceIsWhole == DecodesTheSource /\ WholeSource
=============================================================================
