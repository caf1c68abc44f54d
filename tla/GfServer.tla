------------------------------- MODULE GfServer -------------------------------
(***************************************************************************)
(* gfserver of pr1: the set-up of the socket, the loop that collects a     *)
(* request, and what is answered to it.  The handler is external.          *)
(*                                                                         *)
(* A request is a sequence of the parts that matter: the words GETFILE and *)
(* GET, Slash, the blanks Space and Crlf, and the characters of a path.    *)
(* Requests are shorter than MAX_REQUEST_LEN: behind that the arrays of    *)
(* the function end.                                                       *)
(***************************************************************************)
EXTENDS Integers, Sequences

CONSTANTS
    Requests,
    AddressLists,   \* what getaddrinfo may give: sequences of outcomes
    MaxClients      \* bound of the model: requests

VARIABLES
    addresses,      \* not tried yet
    socket,         \* serverSocket
    pc,
    request,        \* of this client, and what of it the server has not received
    rest,
    header,
    answer,         \* to this client
    clients         \* so far

vars == <<addresses, socket, pc, request, rest, header, answer, clients>>

GetFile  == "GETFILE"
Get      == "GET"
Slash    == "/"
Space    == " "
Crlf     == "\r\n"

NoAnswer     == [to |-> "nobody", path |-> << >>]
Invalid      == [to |-> "client", path |-> << >>]
Call(path)   == [to |-> "handler", path |-> path]

Init ==
    /\ addresses \in AddressLists
    /\ socket = "unset"
    /\ pc = "socket"
    /\ request = << >>
    /\ rest = << >>
    /\ header = << >>
    /\ answer = NoAnswer
    /\ clients = 0

\* One round of the loop over the addresses.  A socket that cannot be bound stays
\* open, and is the one to listen on when it is the last.
TryAddress ==
    /\ pc = "socket"
    /\ \/ /\ addresses = << >>
          /\ pc' = "accept"
          /\ UNCHANGED <<addresses, socket>>
       \/ /\ addresses # << >>
          /\ addresses' = Tail(addresses)
          /\ socket' = CASE Head(addresses) = "no socket" -> "failed"
                         [] Head(addresses) = "in use" -> "unbound"
                         [] Head(addresses) = "free" -> "bound"
          /\ pc' = IF socket' = "bound" THEN "accept" ELSE "socket"
    /\ UNCHANGED <<request, rest, header, answer, clients>>

\* Variant for mutation: the header is not cleared for the next client.
AcceptUncleared ==
    /\ pc = "accept" /\ socket = "bound"
    /\ clients < MaxClients
    /\ clients' = clients + 1
    /\ request' \in Requests
    /\ rest' = request'
    /\ answer' = NoAnswer
    /\ pc' = "receive"
    /\ UNCHANGED <<addresses, socket, header>>

\* Nobody reaches a socket that is not bound to the port.
Accept ==
    /\ pc = "accept" /\ socket = "bound"
    /\ clients < MaxClients
    /\ clients' = clients + 1
    /\ request' \in Requests
    /\ rest' = request'
    /\ header' = << >>
    /\ answer' = NoAnswer
    /\ pc' = "receive"
    /\ UNCHANGED <<addresses, socket>>

\* When accept fails the function goes on with -1 for a socket, of which it
\* receives nothing, again and again.
AcceptFails ==
    /\ pc = "accept"
    /\ socket # "unbound"
    /\ pc' = "stuck"
    /\ request' = << >> /\ rest' = << >> /\ header' = << >> /\ answer' = NoAnswer
    /\ UNCHANGED <<addresses, socket, clients>>

Complete(h) == \E i \in 1 .. Len(h) - 1 : h[i] = Crlf /\ h[i + 1] = Crlf

\* recv returns any part of what has come in.
Receive ==
    /\ pc = "receive"
    /\ \E n \in 1 .. Len(rest) :
          /\ header' = header \o SubSeq(rest, 1, n)
          /\ rest' = SubSeq(rest, n + 1, Len(rest))
    /\ pc' = IF Complete(header') THEN "parse" ELSE "receive"
    /\ UNCHANGED <<addresses, socket, request, answer, clients>>

\* The connection ends before the request does: recv returns 0 or -1 from now on,
\* and the loop does not end.
ReceiveNothing ==
    /\ pc = "receive"
    /\ pc' = "stuck"
    /\ UNCHANGED <<addresses, socket, request, rest, header, answer, clients>>

IsSpace(x) == x \in {Space, Crlf}

\* sscanf(header, "GETFILE GET /%s \r\n\r\n") reads a word, from a to b.  A blank of
\* the format stands for any number of blanks, none too; %s skips blanks.
Scans(h, get, slash, a, b) ==
    /\ get < slash /\ slash < a /\ a <= b
    /\ h[1] = GetFile /\ h[get] = Get /\ h[slash] = Slash
    /\ \A i \in 2 .. a - 1 : i \in {get, slash} \/ IsSpace(h[i])
    /\ \A i \in a .. b : ~IsSpace(h[i])
    /\ b < Len(h) => IsSpace(h[b + 1])

Found(h, a, b) == \E get, slash \in 2 .. Len(h) : Scans(h, get, slash, a, b)

Scanned(h) ==
    LET at == 2 .. Len(h)
    IN {SubSeq(h, w[1], w[2]) : w \in {w \in at \X at : Found(h, w[1], w[2])}}

\* The handler gets the path without its slash.  The connection of a client that is
\* told INVALID stays open.
Parse ==
    /\ pc = "parse"
    /\ \/ \E word \in Scanned(header) : answer' = Call(word)
       \/ Scanned(header) = {} /\ answer' = Invalid
    /\ pc' = "accept"
    /\ UNCHANGED <<addresses, socket, request, rest, header, clients>>

Next == TryAddress \/ Accept \/ AcceptFails \/ Receive \/ ReceiveNothing \/ Parse

Spec == Init /\ [][Next]_vars
-----------------------------------------------------------------------------
(* Properties.                                                              *)

Parts == UNION {{r[i] : i \in DOMAIN r} : r \in Requests}

Outcomes == {"no socket", "in use", "free"}

TypeOK ==
    /\ addresses \in Seq(Outcomes)
    /\ socket \in {"unset", "failed", "unbound", "bound"}
    /\ pc \in {"socket", "accept", "receive", "parse", "stuck"}
    /\ request \in Requests \cup {<< >>}
    /\ rest \in Seq(Parts) /\ header \in Seq(Parts) /\ answer.path \in Seq(Parts)
    /\ clients \in 0 .. MaxClients

\* A request as the protocol has it, "GETFILE GET /<path>": one blank and one, and
\* none behind the path.
Wellformed(r, path) ==
    /\ path # << >> /\ \A i \in 1 .. Len(path) : ~IsSpace(path[i])
    /\ r = <<GetFile, Space, Get, Space, Slash>> \o path \o <<Crlf, Crlf>>

\* r asks for path, and blanks have been put in or left out.
Asks(r, path) ==
    /\ path # << >> /\ \A i \in 1 .. Len(path) : ~IsSpace(path[i])
    /\ \E get, slash, a \in 2 .. Len(r) :
          /\ get < slash /\ slash < a
          /\ r[1] = GetFile /\ r[get] = Get /\ r[slash] = Slash
          /\ \A i \in 2 .. a - 1 : i \in {get, slash} \/ IsSpace(r[i])
          /\ \A i \in 1 .. Len(path) : a + i - 1 <= Len(r) /\ path[i] = r[a + i - 1]

\* For a request as the protocol has it the handler is called with its path less
\* the slash, the whole of it and nothing else, in however many pieces the request
\* comes and whoever was served before.  It is also called for some that are
\* malformed, but only where GETFILE begins the request, GET and a slash follow
\* with nothing but blanks between them, and the path is what comes next.
PathWhole ==
    /\ \A n \in 6 .. Len(request) :
          answer # NoAnswer /\ Wellformed(request, SubSeq(request, 6, n)) =>
              answer = Call(SubSeq(request, 6, n))
    /\ answer.to = "handler" => Asks(request, answer.path)

\* Why it holds: header and rest are the request's parts in their order, and the
\* header is parsed when it has two line ends behind each other.
Received ==
    /\ header \in Seq(Parts) /\ rest \in Seq(Parts)
    /\ Len(header) + Len(rest) = Len(request)
    /\ \A i \in 1 .. Len(header) : header[i] = request[i]
    /\ \A i \in 1 .. Len(rest) : rest[i] = request[Len(header) + i]

RequestInv ==
    /\ PathWhole
    /\ pc \in {"receive", "parse"} => request \in Requests /\ Received /\ answer = NoAnswer
    /\ pc = "parse" => Complete(header)
=============================================================================
