------------------------ MODULE HttpStreamRouteObject ------------------------
(***************************************************************************)
(* One connection from the data that arrives to the bytes the client gets: *)
(* Http/HttpStreamRouteObject.cs with the stream it collects the request   *)
(* in (HttpRequestStream.tla, which it extends), the response streams it   *)
(* reads (Http/HttpResponseStream.cs), and, as far as the bytes go,        *)
(* SendData and Disconnect of the connection and the system's send queue.  *)
(*                                                                         *)
(* A byte of a response is <<part, i>>: the i-th of the head or the body   *)
(* of the website's response, or of the head of the error page.  The pools *)
(* are those of SocketConnection.tla; here SendData may find them empty.   *)
(***************************************************************************)
EXTENDS HttpRequestStream, SequencesExt

CONSTANTS Responses,    \* what a website answers: lengths of head and body
          ErrorHead,    \* the length of the head of the error page
          BufferSize    \* 4096 in SendResponse

ASSUME ResponseAssumption ==
  /\ Responses # {}
  /\ \A r \in Responses : r \in [head : Nat \ {0}, body : Nat]
  /\ ErrorHead \in Nat \ {0} /\ BufferSize \in Nat \ {0}

VARIABLES
  pc,            \* what the callback of the connection does next
  connected,     \* _socket is there and connected
  response,      \* the lengths of the response being read
  page,          \* "site" or "error": whose response that is
  firstRead,     \* HttpResponseStream._firstRead
  position,      \* position in its _bodyStream
  buffer,        \* buffer[page]: the array SendResponse allocated for it
  pending,       \* sends under way, in order: the buffer and the count
  overlapped,    \* history: an array was written to while a send used it
  wire           \* the bytes that have left for the client

readVars == <<response, page, firstRead, position, buffer>>
vars == <<streamVars, pc, connected, readVars, pending, overlapped, wire>>

Pages == {"site", "error"}
NoResponse == [head |-> 0, body |-> 0]
Zeros == [i \in 1..BufferSize |-> <<"none", 0>>]

Init ==
  /\ StreamInit
  /\ pc = "receiving"
  /\ connected = TRUE
  /\ response = NoResponse /\ page = "site"
  /\ firstRead = TRUE /\ position = 0
  /\ buffer = [p \in Pages |-> Zeros]
  /\ pending = <<>>
  /\ overlapped = FALSE
  /\ wire = <<>>

Goto(from, to) == pc = from /\ pc' = to
-----------------------------------------------------------------------------
(* SocketConnectionOnDataReceived and FindWebsiteAndSendRequestToEndpoint    *)

\* An exception of Write leaves the callback, which ends the process.
DataReceived(count) ==
  /\ Write(count)
  /\ Goto("receiving", IF failed' THEN "crashed"
                       ELSE IF headersRead' THEN "finding" ELSE "receiving")
  /\ UNCHANGED <<connected, readVars, pending, overlapped, wire>>

\* Headers is null when the request line is all there was: the look-up of the
\* Host header throws, outside of the try block.
HeadersNull ==
  /\ headers = "null"
  /\ Goto("finding", "crashed")
  /\ UNCHANGED <<streamVars, connected, readVars, pending, overlapped, wire>>

\* SendResponse: a new array, and Position = 0, which makes Read start again.
SendResponse(p, r, arrays) ==
  /\ page' = p /\ response' = r
  /\ firstRead' = TRUE /\ position' = 0
  /\ buffer' = [arrays EXCEPT ![p] = Zeros]

\* ParseRequest returns a response.
Respond ==
  /\ headers # "null"
  /\ Goto("finding", "sending")
  /\ \E r \in Responses : SendResponse("site", r, buffer)
  /\ UNCHANGED <<streamVars, connected, pending, overlapped, wire>>

ErrorPage == [head |-> ErrorHead, body |-> 0]

\* No such website, or its channel throws: either catch block.
RespondError ==
  /\ headers # "null"
  /\ Goto("finding", "sending")
  /\ SendResponse("error", ErrorPage, buffer)
  /\ UNCHANGED <<streamVars, connected, pending, overlapped, wire>>
-----------------------------------------------------------------------------
(* HttpResponseStream.Read and SocketConnection.SendData                     *)

\* Mutant: the first read goes on with the body although the head was longer.
Chunk_Merged ==
  IF firstRead
  THEN [i \in 1..Min({BufferSize, response.head + response.body}) |->
          IF i <= response.head THEN <<page, i>> ELSE <<"body", i - response.head>>]
  ELSE [i \in 1..Min({BufferSize, response.body - position}) |->
          <<"body", position + i>>]

\* What Read returns: first the head, as much of it as fits the array (the
\* rest is dropped), then the body from its position on.
Chunk ==
  IF firstRead
  THEN [i \in 1..Min({BufferSize, response.head}) |-> <<page, i>>]
  ELSE [i \in 1..Min({BufferSize, response.body - position}) |->
          <<"body", position + i>>]

\* Read puts the chunk at the start of the array.
Filled == [buffer EXCEPT ![page] =
             [i \in 1..BufferSize |-> IF i <= Len(Chunk) THEN Chunk[i] ELSE @[i]]]

\* Mutant: a short read moves the position by the size of the array.
Read_Strides ==
  /\ buffer' = Filled
  /\ firstRead' = FALSE
  /\ position' = IF firstRead THEN 0 ELSE position + BufferSize
  /\ UNCHANGED <<response, page>>

Read ==
  /\ buffer' = Filled
  /\ firstRead' = FALSE
  /\ position' = IF firstRead THEN 0 ELSE position + Len(Chunk)
  /\ UNCHANGED <<response, page>>

Overlaps == \E k \in DOMAIN pending : pending[k].page = page

\* Mutant: the send is given the array, not the count.
SendChunk_Whole ==
  /\ Goto("sending", "sending")
  /\ Chunk # <<>> /\ Read
  /\ overlapped' = (overlapped \/ Overlaps)
  /\ pending' = IF connected
                THEN Append(pending, [page |-> page, count |-> BufferSize])
                ELSE pending
  /\ UNCHANGED <<streamVars, connected, wire>>

\* One turn of the loop.  SendData skips a socket that is not connected.
SendChunk ==
  /\ Goto("sending", "sending")
  /\ Chunk # <<>> /\ Read
  /\ overlapped' = (overlapped \/ Overlaps)
  /\ pending' = IF connected
                THEN Append(pending, [page |-> page, count |-> Len(Chunk)])
                ELSE pending
  /\ UNCHANGED <<streamVars, connected, wire>>

\* SendData finds no args object and throws, after Read: out of the try block to the error
\* page, out of the catch block to the end of the process.
SendThrows ==
  /\ connected /\ Chunk # <<>>
  /\ \/ /\ page = "site"
        /\ Goto("sending", "sending")
        /\ SendResponse("error", ErrorPage, Filled)
     \/ /\ page = "error"
        /\ Goto("sending", "crashed")
        /\ Read
  /\ overlapped' = (overlapped \/ Overlaps)
  /\ UNCHANGED <<streamVars, connected, pending, wire>>

\* Read returns 0.
EndResponse ==
  /\ Chunk = <<>>
  /\ Goto("sending", "disconnecting")
  /\ UNCHANGED <<streamVars, connected, readVars, pending, overlapped, wire>>

\* The channel of the website fails to close: the error page follows the response.
CloseThrows ==
  /\ page = "site" /\ Chunk = <<>>
  /\ Goto("sending", "sending")
  /\ SendResponse("error", ErrorPage, buffer)
  /\ UNCHANGED <<streamVars, connected, pending, overlapped, wire>>

\* Mutant: the connection is kept open for the next request.
Disconnect_Keeps ==
  /\ Goto("disconnecting", "receiving")
  /\ UNCHANGED <<streamVars, connected, readVars, pending, overlapped, wire>>

\* The callback ends with a closed socket: it listens for no more data.
Disconnect ==
  /\ Goto("disconnecting", "closed")
  /\ connected' = FALSE
  /\ UNCHANGED <<streamVars, readVars, pending, overlapped, wire>>

\* A handler of Disconnected throws, when the socket is closed and the try block is
\* left behind: Remove of the router does, at an index others have made stale.
DisconnectThrows ==
  /\ connected
  /\ Goto("disconnecting", "crashed")
  /\ connected' = FALSE
  /\ UNCHANGED <<streamVars, readVars, pending, overlapped, wire>>
-----------------------------------------------------------------------------
(* The client and the system                                                 *)

\* The oldest send takes its bytes from its array, as it is now.
Transmit ==
  /\ pending # <<>> /\ pc # "crashed"
  /\ wire' = wire \o SubSeq(buffer[Head(pending).page], 1, Head(pending).count)
  /\ pending' = Tail(pending)
  /\ UNCHANGED <<streamVars, pc, connected, readVars, overlapped>>

\* A reset by the client, or the close of the socket, cancels what is under way.
Cancel ==
  /\ pending # <<>> /\ pc # "crashed"
  /\ pending' = <<>>
  /\ connected' = FALSE
  /\ UNCHANGED <<streamVars, pc, readVars, overlapped, wire>>

\* The client closes its side.
ClientCloses ==
  /\ Goto("receiving", "disconnecting")
  /\ UNCHANGED <<streamVars, connected, readVars, pending, overlapped, wire>>

Done == pc \in {"closed", "crashed"} /\ UNCHANGED vars

Next ==
  \/ \E count \in 1..Size : DataReceived(count)
  \/ HeadersNull \/ Respond \/ RespondError
  \/ SendChunk \/ SendThrows \/ EndResponse \/ CloseThrows
  \/ Disconnect \/ DisconnectThrows
  \/ Transmit \/ Cancel \/ ClientCloses \/ Done

Spec == Init /\ [][Next]_vars
-----------------------------------------------------------------------------
Bytes == {"site", "error", "body", "none"} \X Nat

TypeOK ==
  /\ StreamTypeOK
  /\ pc \in {"receiving", "finding", "sending", "disconnecting", "closed", "crashed"}
  /\ connected \in BOOLEAN /\ firstRead \in BOOLEAN /\ overlapped \in BOOLEAN
  /\ response \in Responses \cup {ErrorPage, NoResponse} /\ page \in Pages
  /\ position \in 0..response.body
  /\ buffer \in [Pages -> [1..BufferSize -> Bytes]]
  /\ pending \in Seq([page : Pages, count : 1..BufferSize])
  /\ wire \in Seq(Bytes)

Part(p, n) == [i \in 1..n |-> <<p, i>>]
\* What the two streams hold, as much of the head as fits the array.
Site(r) == Part("site", Min({BufferSize, r.head})) \o Part("body", r.body)
Error == Part("error", Min({BufferSize, ErrorHead}))

\* As long as no array is written to while a send still uses it, the client
\* gets a beginning of the website's response, the error page, or the error
\* page after the chunks that were sent before the pool was empty.
IntactUnlessOverlapped ==
  ~overlapped =>
    \E r \in Responses, n \in 0..Len(wire) :
      /\ IsPrefix(SubSeq(wire, 1, n), Site(r))
      /\ IsPrefix(SubSeq(wire, n + 1, Len(wire)), Error)

\* Inductive strengthening of it: n bytes of the response of r and m of the error
\* page have been given to SendData.  Those that are pending are the last ones,
\* and at the start of their arrays.
Sent(r, n, m) ==
  /\ Len(wire) <= n + m
  /\ \A k \in 1..Len(wire) : wire[k] = IF k <= n THEN Site(r)[k] ELSE Error[k - n]
  /\ \A k \in DOMAIN pending :
       LET s == pending[k] IN
       \/ /\ s.page = "site" /\ k = 1 /\ s.count <= n
          /\ \A i \in 1..s.count : buffer["site"][i] = Site(r)[n - s.count + i]
          /\ Len(wire) = n - s.count
          /\ m # 0 => Len(pending) = 2
       \/ /\ s.page = "error" /\ k = Len(pending) /\ s.count = m
          /\ \A i \in 1..m : buffer["error"][i] = Error[i]
          /\ k = 1 => Len(wire) = n

\* As long as more can be sent, n and m are what has been read.
UpToDate(r, n, m) ==
  connected /\ pc \in {"receiving", "finding", "sending"} =>
    /\ pending = <<>> => Len(wire) = n + m
    /\ page = "site" => /\ m = 0
                        /\ firstRead => n = 0
                        /\ ~firstRead => /\ r = response
                                         /\ n = Min({BufferSize, r.head}) + position
    /\ page = "error" => m = IF firstRead THEN 0 ELSE Len(Error)

OutputInv ==
  ~overlapped =>
    \E r \in Responses : \E n \in 0..Len(Site(r)), m \in 0..Len(Error) :
      Sent(r, n, m) /\ UpToDate(r, n, m)

\* What the callback reads, and that nothing is sent before it does.
ReadInv ==
  /\ pc \in {"receiving", "finding"} =>
       page = "site" /\ firstRead /\ pending = <<>> /\ wire = <<>>
  /\ pc = "sending" => \/ page = "error"
                       \/ page = "site" /\ response \in Responses
  /\ page = "error" => response = ErrorPage
  /\ page = "site" => \A k \in DOMAIN pending : pending[k].page = "site"
  /\ pc = "receiving" => ~headersRead

\* The bytes of the pending sends that take theirs from the array of p.
Count(s, p) == IF s.page = p THEN s.count ELSE 0
Counted(p) == SumFunction([k \in DOMAIN pending |-> Count(pending[k], p)])

\* What has left and what is on its way are what has been read, overlaps or not;
\* and the callback goes on to Disconnect only when it has read everything.
LengthInv ==
  /\ connected /\ page = "site" /\ pc \notin {"closed", "crashed"} =>
       Len(wire) + Counted("site") =
         IF firstRead THEN 0 ELSE Min({BufferSize, response.head}) + position
  /\ pc = "disconnecting" /\ page = "site" /\ headersRead =>
       ~firstRead /\ response \in Responses /\ position = response.body

\* A request with proper header lines ends the process at two places only: where the
\* error page, after an exception, is itself not sent; and behind the close of the
\* socket, in a handler of Disconnected, when all of the response has been read.
CrashInv ==
  /\ pc = "crashed" /\ request.fields = "named" =>
       \/ connected /\ page = "error"
       \/ ~connected /\ (page = "site" /\ headersRead =>
                           ~firstRead /\ position = response.body)
  /\ pc = "finding" => headersRead
  /\ headersRead /\ request.fields = "named" => headers = "filled"

IndInv ==
  TypeOK /\ StreamIndInv /\ ReadInv /\ OutputInv /\ LengthInv /\ CrashInv

\* The body is as long as its Content-Length says, whatever the arrays hold by
\* the time they are sent: a response whose end was reached on a connected
\* socket has left, or is on its way, in full.
LengthsHonest ==
  pc = "disconnecting" /\ connected /\ page = "site" /\ headersRead =>
    Len(wire) + Counted("site") = Len(Site(response))

\* What is stored of the body of a plain request is the end of what has arrived of
\* it, and all of that if one chunk held the headers.  It takes that the request goes
\* to a website when its headers are there and the stream is left alone then.
StoredBodyIsEnd ==
  headersRead /\ Plain /\ ~failed =>
    \E n \in 0..Len(WholeBody) :
      /\ bodyStream = SubSeq(WholeBody, n + 1, Len(WholeBody))
      /\ writes = 1 => n = 0

\* Of each connection one request goes to a website: the stream is not written
\* to once its headers are read, so what its later writes lose is never lost.
NoWriteAfterHeaders == [][headersRead => received' = received]_vars
=============================================================================
