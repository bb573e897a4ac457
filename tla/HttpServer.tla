----------------------------- MODULE HttpServer -----------------------------
(***************************************************************************)
(* BasicHttpServer with HttpSimpleRouter and the parser of messages          *)
(* (support/http.py): one connection on which a client sends requests        *)
(* without waiting for the answers, in pieces that end anywhere.             *)
(*                                                                         *)
(* A message is a cell for the text before the empty line, one for that line *)
(* and one for each unit of its body.                                       *)
(***************************************************************************)
EXTENDS Integers, Sequences, FiniteSets, SequencesExt

CONSTANT MaxSent    \* requests on the connection

ASSUME HttpServerAssumption == MaxSent \in Nat

VARIABLES
    sent,       \* the requests of the client
    onWire,     \* cells under way
    received,   \* self._request_buffer
    handling,   \* requests whose handler is a task that runs
    silent,     \* requests whose task gave nothing, or raised
    responses   \* <<request, code>>, in the order they are written

httpServerVars == <<sent, onWire, received, handling, silent, responses>>

(* HttpSimpleRouter: of the routes of the method, the first whose path the   *)
(* path of the request begins with.                                         *)
Routes ==
    << [method |-> "GET", path |-> <<"info">>, handler |-> "response"],
       [method |-> "GET", path |-> <<"info", "more">>, handler |-> "raises"],
       [method |-> "POST", path |-> <<"pair">>, handler |-> "task"],
       [method |-> "POST", path |-> <<"stop">>, handler |-> "raises"] >>
RouteOf(r) ==
    LET fits == {i \in DOMAIN Routes : Routes[i].method = r.method /\ IsPrefix(Routes[i].path, r.path)}
    IN  IF fits = {} THEN "none" ELSE Routes[CHOOSE i \in fits : \A j \in fits : i <= j].handler

Request(method, path, wellFormed) == [method |-> method, path |-> path, wellFormed |-> wellFormed]
Asked ==
    {Request("GET", <<"info", "more">>, TRUE), Request("POST", <<"info">>, TRUE), Request("POST", <<"pair">>, TRUE),
     Request("POST", <<"stop">>, TRUE), Request("GET", <<"info">>, FALSE)}

HttpCell(i, is, n) == [i |-> i, is |-> is, n |-> n]
(* _format_message: a length is given if there is a body.                   *)
MessageCells(i, body) ==
    <<HttpCell(i, "head", body), HttpCell(i, "end", 0)>> \o [k \in 1..body |-> HttpCell(i, "body", k)]

-----------------------------------------------------------------------------
(* _parse_http_message, from a position of the buffer on.                   *)
EndAt(cells, p) == {q \in p..Len(cells) : cells[q].is = "end" /\ \A k \in p..q - 1 : cells[k].is # "end"}
HeadsIn(cells, p, q) == {k \in p..q - 1 : cells[k].is = "head"}
ContentLength(cells, p, q) == IF HeadsIn(cells, p, q) = {} THEN 0 ELSE cells[CHOOSE k \in HeadsIn(cells, p, q) : TRUE].n

(* parse_request: incomplete, also if the first line is empty; else where    *)
(* the message ends and whether it can be read.                             *)
Parsed(cells, p) ==
    IF EndAt(cells, p) = {} THEN [got |-> "nothing"]
    ELSE LET q == CHOOSE x \in EndAt(cells, p) : TRUE
             last == q + ContentLength(cells, p, q)
         IN  IF last > Len(cells) \/ p = q THEN [got |-> "nothing"]
             ELSE IF q = p + 1 /\ cells[p].is = "head" /\ sent[cells[p].i].wellFormed
             THEN [got |-> "request", i |-> cells[p].i, next |-> last + 1]
             ELSE [got |-> "error", i |-> cells[q].i]

(* The response of the handler, or one in its place.                        *)
CodeFor(i) ==
    CASE RouteOf(sent[i]) = "none" -> 404
      [] RouteOf(sent[i]) = "raises" -> 500
      [] RouteOf(sent[i]) = "response" -> 200

(* _parse_and_send_next: what can be read is taken from the buffer, and its  *)
(* response sent unless the handler is a task; an exception of the parser    *)
(* takes all that is there.                                                 *)
Turn(cells, at) ==
    LET m == Parsed(cells, at.p)
    IN  CASE m.got = "nothing" -> at
          [] m.got = "error" -> [at EXCEPT !.p = Len(cells) + 1, !.answers = Append(@, <<m.i, 500>>)]
          [] m.got = "request" ->
               IF RouteOf(sent[m.i]) = "task" THEN [at EXCEPT !.p = m.next, !.tasks = @ \cup {m.i}]
               ELSE [at EXCEPT !.p = m.next, !.answers = Append(@, <<m.i, CodeFor(m.i)>>)]
AtStart == [p |-> 1, tasks |-> {}, answers |-> <<>>]

ParsedOne(cells) == Turn(cells, AtStart)    \* mutant: looks for one request in each packet

(* The loop of data_received: a turn that changes nothing is its last, and    *)
(* any other takes a cell at least.                                         *)
ParsedAll(cells) ==
    LET after[n \in 0..Len(cells)] == IF n = 0 THEN AtStart ELSE Turn(cells, after[n - 1])
    IN  after[Len(cells)]

-----------------------------------------------------------------------------
HttpServerInit ==
    /\ sent = <<>> /\ onWire = <<>> /\ received = <<>>
    /\ handling = {} /\ silent = {} /\ responses = <<>>

ClientRequests ==
    /\ Len(sent) < MaxSent
    /\ \E r \in Asked, body \in 0..1 :
          /\ sent' = Append(sent, r)
          /\ onWire' = onWire \o MessageCells(Len(sent'), body)
    /\ UNCHANGED <<received, handling, silent, responses>>

ServerReceives ==
    /\ \E k \in 1..Len(onWire) :
          LET cells == received \o SubSeq(onWire, 1, k)
              done == ParsedAll(cells)
          IN  /\ onWire' = SubSeq(onWire, k + 1, Len(onWire))
              /\ received' = SubSeq(cells, done.p, Len(cells))
              /\ handling' = handling \cup done.tasks
              /\ responses' = responses \o done.answers
    /\ UNCHANGED <<sent, silent>>

(* _send_task_response: nothing is sent if the task gave None, or raised.    *)
HandlerEnds ==
    /\ \E i \in handling :
          /\ handling' = handling \ {i}
          /\ \/ responses' = Append(responses, <<i, 200>>) /\ UNCHANGED silent
             \/ silent' = silent \cup {i} /\ UNCHANGED responses
    /\ UNCHANGED <<sent, onWire, received>>

HttpServerNext == ClientRequests \/ ServerReceives \/ HandlerEnds

-----------------------------------------------------------------------------
(* However the requests are cut, each that came whole is handled once and    *)
(* answered as its route says, unless it is behind one that could not be     *)
(* read; those that are answered at once are so in the order they came.      *)
EachIsAnswered ==
    LET whole == {i \in DOMAIN sent : \A c \in Range(onWire) : c.i # i}
        answered == {a[1] : a \in Range(responses)}
        atOnce(a) == RouteOf(sent[responses[a][1]]) # "task"
        spoiled(i) == \E j \in 1..i - 1 : sent[j].wellFormed = FALSE
    IN  /\ \A i \in whole : i \in answered \cup handling \cup silent \/ spoiled(i)
        /\ \A a, b \in DOMAIN responses : a # b => responses[a][1] # responses[b][1]
        /\ answered \cap (handling \cup silent) = {}
        /\ \A a, b \in DOMAIN responses : a < b /\ atOnce(a) /\ atOnce(b) => responses[a][1] < responses[b][1]
        /\ \A a \in Range(responses) : spoiled(a[1]) \/
              a[2] = IF ~ sent[a[1]].wellFormed THEN 500
                     ELSE CASE RouteOf(sent[a[1]]) = "none" -> 404
                            [] RouteOf(sent[a[1]]) = "raises" -> 500
                            [] OTHER -> 200
=============================================================================
