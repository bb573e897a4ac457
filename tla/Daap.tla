--------------------------------- MODULE Daap ---------------------------------
(***************************************************************************)
(* Requests to a DMAP device.  DaapRequester (protocols/dmap/daap.py) logs   *)
(* in before the first one, and again when one is refused, which it then    *)
(* repeats once; what the user calls (protocols/dmap/__init__.py) are        *)
(* programs of requests.  Calls overlap and share the session identifier     *)
(* and the cache of artwork.  The device handles a request some time after   *)
(* it was sent, and its answer is received some time later.                 *)
(*                                                                         *)
(* Below it, DmapPairingHandler (protocols/dmap/pairing.py), which waits for *)
(* the device to log in here.                                               *)
(***************************************************************************)
EXTENDS Integers, Sequences, FiniteSets

CONSTANTS
    DaapTask,     \* coroutines of the user
    MaxRequests,  \* bound on the programs that are called
    MaxSessions,  \* bound on the logins that the device grants
    MaxExpiries,  \* bound on how often it forgets its sessions
    MaxRefusals,  \* bound on what it refuses for other reasons
    Artwork,      \* what may play
    CacheLimit,   \* artwork that is kept
    Moves,        \* touches of a swipe (7 in the code)
    Address       \* addresses to be announced at when pairing

ASSUME DaapAssumption ==
    /\ {MaxRequests, MaxSessions, MaxExpiries, MaxRefusals, CacheLimit, Moves} \subseteq Nat
    /\ Moves > 0

NoSession == 0
Session == 1..MaxSessions

VARIABLES
    (* DaapRequester and what uses it *)
    sessionId,  \* _session_id
    call,       \* what each coroutine does
    requests,   \* programs called so far
    cache,      \* artwork_cache: identifiers with their images, the latest last
    valid,      \* the device: its sessions,
    issued,     \* how many it had,
    expiries,   \* how often it forgot them,
    refusals,   \* and what it refused for other reasons
    (* DmapPairingHandler *)
    begun,      \* begin(): "no", "starts" the server, "announces" or is "over"
    server,     \* the web server is up
    zeroconf,   \* the Zeroconf instance is not closed
    announced,  \* addresses that were published
    pinCode,    \* whether _pin_code is set
    hasPaired,  \* _has_paired
    closing,    \* close(): "no", "cleans" up the server or is "over"
    saved       \* the credentials were written to the service and the settings

sessionVars == <<valid, issued, expiries, refusals>>
daapVars == <<sessionId, call, requests, cache, sessionVars>>
pairingVars == <<begun, server, zeroconf, announced, pinCode, hasPaired, closing, saved>>

(* A call: the requests left of its program, what it awaits, whether its     *)
(* request and its login will be repeated, the session that its request      *)
(* carries, is granted, and the one it logged in for itself, what the device *)
(* answered, the identifier to store artwork under, the touches that         *)
(* arrived, and, when it was denied, whether the device is to blame.        *)
Fresh == [todo |-> <<>>, awaits |-> "nothing", retry |-> FALSE, again |-> FALSE, carries |-> NoSession,
          granted |-> NoSession, own |-> NoSession, status |-> "none", id |-> {}, touched |-> <<>>,
          denied |-> FALSE, blamed |-> FALSE]

DaapInit ==
    /\ sessionId = NoSession /\ valid = {} /\ issued = 0 /\ expiries = 0 /\ refusals = 0
    /\ call = [c \in DaapTask |-> Fresh] /\ requests = 0
    /\ cache = <<>>

(* -------------------------------- programs ------------------------------- *)
Request(does) == [does |-> does, n |-> 0]
Move(n) == [does |-> "touch", n |-> n]
Hello == <<Request("login"), Request("playstatus")>>
Command == <<Request("command")>>                            \* ctrl_int_cmd and the like
Swipe == [n \in 1..Moves |-> Move(n)]                        \* up, down, left, right
Skip == <<Request("playstatus"), Request("position")>>       \* skip_forward and skip_backward
GetArtwork == <<Request("identify"), Request("artwork")>>    \* DmapMetadata.artwork
Programs == {Hello, Command, Swipe, Skip, GetArtwork}

(* -------------------------- sending a request ----------------------------- *)
Now(c, record) == call' = [call EXCEPT ![c] = record]

Logs(r, again) == [r EXCEPT !.awaits = "login", !.again = again, !.status = "none", !.granted = NoSession]

(* The URL is made when the request is sent, also when it is repeated.      *)
CarriesFirst(session) == IF session > 1 THEN 1 ELSE session    \* mutant
Carries(session) == session

Sends(r, session) == [r EXCEPT !.awaits = "request", !.carries = Carries(session), !.status = "none", !.granted = NoSession]

(* get and post: _assure_logged_in, then the request at the head.            *)
Asks(r, session) ==
    IF Head(r.todo).does = "login" \/ session = NoSession
    THEN [Logs(r, TRUE) EXCEPT !.retry = TRUE]
    ELSE [Sends(r, session) EXCEPT !.retry = TRUE]

Denied(r) == [Fresh EXCEPT !.denied = TRUE, !.blamed = r.blamed]

CallsDaap(c, program) ==
    /\ call[c].todo = <<>> /\ requests < MaxRequests
    /\ requests' = requests + 1
    /\ Now(c, Asks([Fresh EXCEPT !.todo = program], sessionId))
    /\ UNCHANGED <<sessionId, cache, sessionVars>>

(* ------------------------------- the device ------------------------------- *)
Unanswered(c) == call[c].awaits # "nothing" /\ call[c].status = "none"

Grants(c) ==
    /\ Unanswered(c) /\ call[c].awaits = "login" /\ issued < MaxSessions
    /\ issued' = issued + 1 /\ valid' = valid \cup {issued'}
    /\ Now(c, [call[c] EXCEPT !.status = "ok", !.granted = issued'])
    /\ UNCHANGED <<sessionId, requests, cache, expiries, refusals>>

(* A login or a request may be refused for reasons of the device; that is   *)
(* also to blame when it forgot a session since this call logged in.        *)
Refuses(c) ==
    /\ Unanswered(c)
    /\ LET r == call[c]
           expired == r.awaits = "request" /\ r.carries \notin valid
       IN  /\ expired \/ refusals < MaxRefusals
           /\ refusals' = IF expired THEN refusals ELSE refusals + 1
           /\ Now(c, [r EXCEPT !.status = "bad", !.blamed = @ \/ ~ expired \/ r.carries = r.own])
    /\ UNCHANGED <<sessionId, requests, cache, valid, issued, expiries>>

Serves(c) ==
    /\ Unanswered(c) /\ call[c].awaits = "request" /\ call[c].carries \in valid
    /\ LET request == Head(call[c].todo)
       IN  Now(c, [call[c] EXCEPT !.status = "ok",
                     !.touched = IF request.does = "touch" THEN Append(@, request.n) ELSE @])
    /\ UNCHANGED <<sessionId, requests, cache, sessionVars>>

Expires ==
    /\ expiries < MaxExpiries /\ valid # {}
    /\ expiries' = expiries + 1 /\ valid' = {}
    /\ UNCHANGED <<sessionId, call, requests, cache, issued, refusals>>

(* --------------------------------- answers -------------------------------- *)
Answered(c, awaits, status) == call[c].awaits = awaits /\ call[c].status = status

(* Cache.get and Cache.put: an identifier that is used becomes the latest.  *)
Others(id) == SelectSeq(cache, LAMBDA e : e # id)
Cached(id) == \E i \in DOMAIN cache : cache[i] = id
Put(id) == IF ~ Cached(id) /\ Len(cache) >= CacheLimit THEN Append(Tail(cache), id) ELSE Append(Others(id), id)
Get(id) == Append(Others(id), id)

(* The rest of the program, once its first request was answered.            *)
GoesOnWith(r, session) ==
    IF Len(r.todo) = 1 THEN Fresh ELSE Asks([r EXCEPT !.todo = Tail(@)], session)

Succeeds(c) ==
    /\ Answered(c, "request", "ok")
    /\ LET r == call[c]
           does == Head(r.todo).does
       IN  \/ /\ does = "identify"
              /\ \E id \in Artwork :
                  IF Cached(id) THEN cache' = Get(id) /\ Now(c, Fresh)
                  ELSE UNCHANGED cache /\ Now(c, GoesOnWith([r EXCEPT !.id = id], sessionId))
           \/ does = "artwork" /\ cache' = Put(r.id) /\ Now(c, GoesOnWith(r, sessionId))
           \/ does \notin {"identify", "artwork"} /\ UNCHANGED cache /\ Now(c, GoesOnWith(r, sessionId))
    /\ UNCHANGED <<sessionId, requests, sessionVars>>

(* Nothing to seek in, or no artwork.                                       *)
HasNothing(c) ==
    /\ Answered(c, "request", "ok") /\ Head(call[c].todo).does \in {"playstatus", "artwork"}
    /\ Now(c, Fresh)
    /\ UNCHANGED <<sessionId, requests, cache, sessionVars>>

(* Refused: a login comes first, also when the request is not repeated.     *)
LogsInAgain(c) ==
    /\ Answered(c, "request", "bad")
    /\ Now(c, Logs([call[c] EXCEPT !.carries = IF call[c].retry THEN NoSession ELSE @, !.retry = FALSE], TRUE))
    /\ UNCHANGED <<sessionId, requests, cache, sessionVars>>

(* `carries' tells a login after the last attempt, which raises whatever    *)
(* comes of it.                                                            *)
LoggedIn(c) ==
    /\ Answered(c, "login", "ok")
    /\ LET r == [call[c] EXCEPT !.own = call[c].granted]
       IN  /\ sessionId' = r.own
           /\ Now(c, IF Head(r.todo).does = "login" THEN GoesOnWith(r, r.own)
                     ELSE IF r.carries # NoSession /\ ~ r.retry THEN Denied(r)
                     ELSE Sends(r, r.own))
    /\ UNCHANGED <<requests, cache, sessionVars>>

LoginRefused(c) ==
    /\ Answered(c, "login", "bad")
    /\ Now(c, IF call[c].again THEN Logs(call[c], FALSE) ELSE Denied(call[c]))
    /\ UNCHANGED <<sessionId, requests, cache, sessionVars>>

(* A timeout, an error of the connection or status 500: nothing is repeated. *)
RequestFails(c) ==
    /\ call[c].awaits # "nothing" /\ Now(c, Fresh)
    /\ UNCHANGED <<sessionId, requests, cache, sessionVars>>

DaapNext ==
    \/ \E c \in DaapTask :
        \/ \E program \in Programs : CallsDaap(c, program)
        \/ Grants(c) \/ Refuses(c) \/ Serves(c)
        \/ Succeeds(c) \/ HasNothing(c) \/ LogsInAgain(c)
        \/ LoggedIn(c) \/ LoginRefused(c) \/ RequestFails(c)
    \/ Expires

DaapSpec == DaapInit /\ [][DaapNext]_daapVars

(* --------------------------------- pairing -------------------------------- *)
PairingInit ==
    /\ begun = "no" /\ server = FALSE /\ zeroconf = TRUE /\ announced = {}
    /\ pinCode = FALSE /\ hasPaired = FALSE /\ closing = "no" /\ saved = FALSE

Begin ==
    /\ begun = "no" /\ closing = "no" /\ begun' = "starts"
    /\ UNCHANGED <<server, zeroconf, announced, pinCode, hasPaired, closing, saved>>

(* The server is up before anything is announced.  A runner that was         *)
(* cleaned up meanwhile may start it all the same.                          *)
Starts ==
    /\ begun = "starts"
    /\ \/ begun' = "announces" /\ server' = TRUE
       \/ begun' = "over" /\ closing # "no" /\ UNCHANGED server
    /\ UNCHANGED <<zeroconf, announced, pinCode, hasPaired, closing, saved>>

(* _publish_service, in the executor; a closed Zeroconf raises.             *)
Publish ==
    /\ begun = "announces"
    /\ IF zeroconf
       THEN \E a \in Address \ announced :
              /\ announced' = announced \cup {a}
              /\ begun' = IF announced' = Address THEN "over" ELSE begun
       ELSE begun' = "over" /\ UNCHANGED announced
    /\ UNCHANGED <<server, zeroconf, pinCode, hasPaired, closing, saved>>

(* close(): what was announced is withdrawn, then the server is taken down. *)
CloseHandler ==
    /\ closing = "no" /\ closing' = "cleans"
    /\ zeroconf' = FALSE /\ announced' = {}
    /\ UNCHANGED <<begun, server, pinCode, hasPaired, saved>>

Cleanup ==
    /\ closing = "cleans" /\ closing' = "over"
    /\ server' = FALSE
    /\ UNCHANGED <<begun, zeroconf, announced, pinCode, hasPaired, saved>>

Pin ==
    /\ ~ pinCode /\ pinCode' = TRUE
    /\ UNCHANGED <<begun, server, zeroconf, announced, hasPaired, closing, saved>>

(* handle_request with _verify_pin: without a pin any code is right.        *)
HandleRequest(matches) ==
    /\ server
    /\ hasPaired' = (hasPaired \/ ~ pinCode \/ matches)
    /\ UNCHANGED <<begun, server, zeroconf, announced, pinCode, closing, saved>>

Finish ==
    /\ saved' = (saved \/ hasPaired)
    /\ UNCHANGED <<begun, server, zeroconf, announced, pinCode, hasPaired, closing>>

PairingNext ==
    \/ Begin \/ Starts \/ Publish \/ CloseHandler \/ Cleanup \/ Pin \/ Finish
    \/ \E matches \in BOOLEAN : HandleRequest(matches)

(* ------------------------------- properties ------------------------------- *)
(* A call is only denied when the device refused a login or forgot the       *)
(* session that this very call had logged in for: a stale identifier that    *)
(* another call left behind, or several calls that are logged out at once,   *)
(* do not use up its one repetition.  However often its requests are         *)
(* repeated, the touches of a swipe arrive in order and once each.  And a    *)
(* device that finds the remote announced for pairing finds its server,      *)
(* wherever close() overtakes begin().                                      *)
ServedAsAsked ==
    /\ announced # {} => server
    /\ \A c \in DaapTask :
        /\ call[c].denied => call[c].blamed
        /\ \A i \in DOMAIN call[c].touched : call[c].touched[i] = i
        /\ Answered(c, "request", "ok") /\ Head(call[c].todo).does = "touch" =>
               Len(call[c].touched) = Head(call[c].todo).n
=============================================================================
