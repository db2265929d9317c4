------------------------------ MODULE HttpClient ------------------------------
(***************************************************************************)
(* libs/http.lua: request and getresponse in turn, over one connection     *)
(* that is kept until something fails.  The server's answer is a stream of *)
(* lines and pieces of a body; readline gives a line, a part of it when    *)
(* the time is over, or nothing.  Each part carries the request it answers *)
(* as a history, which the client does not see.  Assumed: SIGPIPE is       *)
(* ignored, and a program reads one response for each request.             *)
(***************************************************************************)
EXTENDS Naturals, Sequences

CONSTANTS
  Length,      \* the length of a body, in pieces
  MaxRequests  \* bound: requests of a run

HttpAssumption == {Length, MaxRequests} \subseteq Nat \ {0}

VARIABLES
  pc,       \* idle, lines or body: where getresponse is; a request is one step
  closed,   \* the client's flag
  request,  \* the number of the latest request
  response, \* what getresponse returns: the request it answers (0: no status),
            \* the length that was announced, the body, and whether it has a reason
  wire,     \* what has arrived and the client has not read
  script,   \* what the server is going to send
  gone,     \* the server has closed the connection
  spoiled   \* history of the connection: a line was cut, or a body came without a length

server == <<wire, script, gone>>
vars == <<pc, closed, request, response, server, spoiled>>

Parts == {"status", "length", "header", "end", "body", "rest"}
Pieces == (1..request) \X Parts
Response == [status : 0..request, length : {0, Length}, body : Seq(Pieces), failed : BOOLEAN]
NoResponse == [status |-> 0, length |-> 0, body |-> <<>>, failed |-> FALSE]

TypeOK ==
  /\ pc \in {"idle", "lines", "body"} /\ closed \in BOOLEAN /\ gone \in BOOLEAN /\ spoiled \in BOOLEAN
  /\ request \in 0..MaxRequests
  /\ response \in Response /\ Len(response.body) <= response.length
  /\ wire \in Seq(Pieces) /\ script \in Seq(Pieces)
  /\ (closed => pc = "idle" /\ wire = <<>> /\ script = <<>>)

NoServer == wire = <<>> /\ script = <<>> /\ gone = FALSE

Init == pc = "idle" /\ closed = TRUE /\ request = 0 /\ response = NoResponse /\ NoServer /\ spoiled = FALSE

-----------------------------------------------------------------------------
(* The server. *)

Lines(k, parts) == [i \in 1..Len(parts) |-> <<k, parts[i]>>]
Body(k) == [i \in 1..Length |-> <<k, "body">>]

(* With a length and a body; a length and no body, as for HEAD; neither; or  *)
(* a body without a length, as a chunked one.                              *)
Answers(k) ==
  { Lines(k, <<"status", "length", "end">>) \o Body(k),
    Lines(k, <<"status", "length", "end">>),
    Lines(k, <<"status", "header", "end">>),
    Lines(k, <<"status", "header", "end">>) \o Body(k) }

Arrives ==
  /\ script # <<>>
  /\ wire' = Append(wire, Head(script)) /\ script' = Tail(script)
  /\ UNCHANGED <<pc, closed, request, response, gone, spoiled>>

ServerCloses ==
  /\ ~closed /\ ~gone
  /\ gone' = TRUE /\ script' = <<>>
  /\ UNCHANGED <<pc, closed, request, response, wire, spoiled>>

-----------------------------------------------------------------------------
(* request. *)

(* close(); a connection opened later starts with nothing in flight. *)
Close == closed' = TRUE /\ wire' = <<>> /\ script' = <<>> /\ gone' = FALSE /\ spoiled' = FALSE

(* The request is sent, over a new connection if there is none.  What is    *)
(* sent to a server that has gone may be lost without an error.            *)
Request ==
  /\ pc = "idle" /\ request < MaxRequests
  /\ pc' = "lines" /\ closed' = FALSE /\ request' = request + 1 /\ response' = NoResponse
  /\ IF gone THEN UNCHANGED <<script, spoiled>>
     ELSE \E answer \in Answers(request') :
            /\ script' = script \o answer
            /\ spoiled' = (spoiled \/ answer = Lines(request', <<"status", "header", "end">>) \o Body(request'))
  /\ UNCHANGED <<wire, gone>>

(* connect, one of the sends or the making of a header fails. *)
RequestFails ==
  /\ pc = "idle" /\ request < MaxRequests
  /\ request' = request + 1 /\ response' = NoResponse /\ Close
  /\ UNCHANGED pc

-----------------------------------------------------------------------------
(* getresponse. *)

(* What a line does to the response.  A cut line and its rest are headers   *)
(* that are not recognised, but the rest of a status line, or a line of a   *)
(* body, may look like a status line of its own.                           *)
StatusOf(piece) ==
  IF response.status # 0 THEN {response.status}
  ELSE IF piece[2] = "status" THEN {piece[1]}
  ELSE IF piece[2] \in {"rest", "body"} THEN {0, piece[1]}
  ELSE {0}

LengthOf(piece) == IF piece[2] = "length" /\ response.status # 0 THEN Length ELSE response.length

AfterHeaders(n) == IF n > 0 THEN "body" ELSE "idle"

ReadsLine ==
  LET piece == Head(wire) IN
  /\ pc = "lines" /\ wire # <<>>
  /\ wire' = Tail(wire)
  /\ \E status \in StatusOf(piece) :
       response' = [response EXCEPT !.status = status, !.length = LengthOf(piece)]
  /\ \/ piece[2] \in {"end", "body"} /\ pc' = AfterHeaders(response'.length)
     \/ piece[2] # "end" /\ UNCHANGED pc
  /\ UNCHANGED <<closed, request, script, gone, spoiled>>

(* The time is over in the middle of a line. *)
ReadsCutLine ==
  /\ pc = "lines" /\ wire # <<>> /\ Head(wire)[2] # "rest"
  /\ wire' = <<<<Head(wire)[1], "rest">>>> \o Tail(wire)
  /\ spoiled' = TRUE
  /\ UNCHANGED <<pc, closed, request, response, script, gone>>

(* A mutant of OnNothing: the connection is kept.                           *)
OnNothingKept == UNCHANGED <<closed, server, spoiled>>

OnNothing == Close

MayWait == TRUE

(* Nothing comes before the time is over, or the server has gone. *)
ReadsNothing ==
  /\ pc = "lines" /\ wire = <<>> /\ MayWait
  /\ pc' = "idle" /\ response' = [NoResponse EXCEPT !.failed = TRUE]
  /\ OnNothing
  /\ UNCHANGED request

Whole(body) == Len(body) = response.length

ReadsBody ==
  LET body == Append(response.body, Head(wire)) IN
  /\ pc = "body" /\ wire # <<>>
  /\ wire' = Tail(wire) /\ response' = [response EXCEPT !.body = body]
  /\ pc' = (IF Whole(body) THEN "idle" ELSE "body")
  /\ UNCHANGED <<closed, request, script, gone, spoiled>>

(* The response is returned with what there is of the body, and a reason. *)
BodyFails ==
  /\ pc = "body" /\ wire = <<>> /\ MayWait
  /\ pc' = "idle" /\ response' = [response EXCEPT !.failed = TRUE]
  /\ OnNothing
  /\ UNCHANGED request

GetResponse == ReadsLine \/ ReadsCutLine \/ ReadsNothing \/ ReadsBody \/ BodyFails

Next == Request \/ RequestFails \/ GetResponse \/ Arrives \/ ServerCloses

Spec == Init /\ [][Next]_vars

(* The client goes on, and its timeouts pass; the server owes nothing. *)
FairSpec == Spec /\ WF_vars(GetResponse)

-----------------------------------------------------------------------------
(* Properties. *)

(* A response that comes without a reason answers the latest request, and   *)
(* so does all of its body, whatever failed before; only a line cut by the  *)
(* timeout and a body that came without a length, on this connection, can   *)
(* put another's in its place.                                             *)
OwnResponse ==
  pc = "idle" /\ response.status # 0 /\ ~response.failed /\ ~spoiled =>
    /\ response.status = request
    /\ response.body = (IF response.length = 0 THEN <<>> ELSE Body(request))

(* Between two calls a connection that is kept has nothing of an answer on  *)
(* its way, so that the next answer begins with its status line; a call     *)
(* that failed has closed it.                                              *)
NothingLeftOver ==
  pc = "idle" /\ ~closed /\ ~spoiled => wire = <<>> /\ script = <<>>

(* getresponse returns, whatever the server does: each wait has a timeout.  *)
Returns == pc # "idle" ~> pc = "idle"

(* What every state of the component keeps. *)
Safety == TypeOK /\ OwnResponse /\ NothingLeftOver

-----------------------------------------------------------------------------
(* The inductive invariant behind the safety properties. *)

(* A body has room while it is read, and none has begun before. *)
Room ==
  /\ pc = "lines" => response.body = <<>> /\ ~response.failed
  /\ pc = "body" => Len(response.body) < response.length

(* The i-th piece of an answer to request k, with or without a length. *)
PieceAt(k, i, withLength) ==
  <<k, CASE i = 1 -> "status"
         [] i = 2 -> IF withLength THEN "length" ELSE "header"
         [] i = 3 -> "end"
         [] OTHER -> "body">>

(* On its way is the answer to the latest request from behind its n-th      *)
(* piece; if the server has gone, perhaps not all of it.                    *)
OnItsWay(n, withLength, withBody) ==
  LET size == 3 + (IF withBody THEN Length ELSE 0) IN
  /\ withBody => withLength
  /\ n + Len(wire) + Len(script) <= size
  /\ ~gone => n + Len(wire) + Len(script) = size
  /\ \A i \in 1..Len(wire) : wire[i] = PieceAt(request, n + i, withLength)
  /\ \A i \in 1..Len(script) : script[i] = PieceAt(request, n + Len(wire) + i, withLength)

(* After n lines the response has what they said. *)
AfterLines(n, withLength) ==
  /\ response.status = (IF n = 0 THEN 0 ELSE request)
  /\ response.length = (IF n > 1 /\ withLength THEN Length ELSE 0)

ReadingLines ==
  pc = "lines" /\ ~spoiled =>
    \E n \in 0..2, withLength, withBody \in BOOLEAN :
      OnItsWay(n, withLength, withBody) /\ AfterLines(n, withLength)

OwnBody == \A i \in 1..Len(response.body) : response.body[i] = <<request, "body">>

ReadingBody ==
  pc = "body" /\ ~spoiled =>
    /\ \E withBody \in BOOLEAN : OnItsWay(3 + Len(response.body), TRUE, withBody)
    /\ AfterLines(3, TRUE) /\ ~response.failed /\ OwnBody

IInv == TypeOK /\ OwnResponse /\ NothingLeftOver /\ Room /\ ReadingLines /\ ReadingBody

=============================================================================
