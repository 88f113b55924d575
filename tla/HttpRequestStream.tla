-------------------------- MODULE HttpRequestStream --------------------------
(***************************************************************************)
(* Http/HttpRequestStream.cs: a request is written into the stream in the  *)
(* chunks the socket delivers it in; Write looks for the blank line that   *)
(* ends the headers, parses them, and keeps what follows as the body.      *)
(*                                                                         *)
(* A request is known by its lengths: head bytes, the four bytes of the    *)
(* blank line, body bytes.  A stored byte is its place in the request, and *)
(* _headerData is its number of characters.  Characters are not bytes: two *)
(* bytes of a wide character decode to one, if one chunk holds them both,  *)
(* and to two replacement characters otherwise.                            *)
(***************************************************************************)
EXTENDS Integers, Sequences, FiniteSets

CONSTANT Requests   \* the requests clients send

\* wide: the places in the head where a two-byte character starts.
\* fields: what follows the request line.
IsRequest(r) ==
  /\ r \in [head : Nat, wide : SUBSET Nat, body : Nat,
            fields : {"none", "named", "colonless"}]
  /\ \A w \in r.wide : w > 0 /\ w < r.head /\ w + 1 \notin r.wide
  /\ r.fields # "none" => r.head >= 3    \* a line break and a name

ASSUME RequestAssumption == \A r \in Requests : IsRequest(r)

VARIABLES
  request,      \* what the client sends
  received,     \* how many of its bytes have been written to the stream
  writes,       \* history: the number of calls of Write
  headersRead,  \* _headersRead
  headerData,   \* _headerData: the number of its characters
  parsed,       \* Method, Uri and HttpVersion are set
  headers,      \* Headers: "null" or "filled"
  bodyStream,   \* _bodyStream: the places of its bytes in the request
  failed        \* Write has thrown

streamVars == <<request, received, writes, headersRead, headerData, parsed,
                headers, bodyStream, failed>>

BlankLine == 4
HeadEnd == request.head + BlankLine
Size == HeadEnd + request.body

StreamInit ==
  /\ request \in Requests
  /\ received = 0 /\ writes = 0
  /\ headersRead = FALSE
  /\ headerData = 0
  /\ parsed = FALSE
  /\ headers = "null"
  /\ bodyStream = <<>>
  /\ failed = FALSE

\* The characters that bytes from+1..to of the request decode to in one chunk.
\* (Bytes already counted, to < from, are plain ones and count negatively.)
Chars(from, to) ==
  to - from - Cardinality({w \in request.wide : from < w /\ w < to})

\* IndexOf over everything received so far.
FindsBlankLine(count) == received + count >= HeadEnd

\* Mutant: a chunk without the blank line is taken for a body.
BodyStart_Unguarded(count) ==
  IF headersRead \/ ~FindsBlankLine(count) THEN 0
  ELSE headerData + Chars(received, request.head)

\* Mutant: the place of the blank line in the chunk, off by one.
BodyStart_OffByOne(count) ==
  IF headersRead THEN 0
  ELSE IF FindsBlankLine(count) THEN request.head - received - 1 ELSE -1

\* The index of the blank line in _headerData; -1 if there is none, and 0 in
\* every Write after the one that found it.
BodyStart(count) ==
  IF headersRead THEN 0
  ELSE IF FindsBlankLine(count) THEN headerData + Chars(received, request.head)
  ELSE -1

\* The bytes of the chunk from bodyStart + 4 on: an index into _headerData is
\* used as an index into the chunk.
BodyBytes(count) ==
  LET skip == BodyStart(count) + BlankLine
  IN  IF BodyStart(count) >= 0
      THEN [i \in 1..(count - skip) |-> received + skip + i]
      ELSE <<>>

\* A header line without a colon makes Write throw before the body is stored.
Write(count) ==
  /\ ~failed
  /\ received + count <= Size
  /\ received' = received + count
  /\ writes' = writes + 1
  /\ headersRead' = (headersRead \/ FindsBlankLine(count))
  /\ headerData' = CASE headersRead -> headerData
                     [] headersRead' /\ ~headersRead -> BodyStart(count)
                     [] OTHER -> headerData + Chars(received, received + count)
  /\ parsed' = headersRead'
  /\ headers' = IF headersRead' /\ request.fields # "none"
                THEN "filled" ELSE "null"
  /\ failed' = (headersRead' /\ request.fields = "colonless")
  /\ bodyStream' = bodyStream \o IF failed' THEN <<>> ELSE BodyBytes(count)
  /\ UNCHANGED request

\* The client has sent all of it.
AllWritten == (received = Size \/ failed) /\ UNCHANGED streamVars

StreamNext == (\E count \in 1..Size : Write(count)) \/ AllWritten

StreamSpec == StreamInit /\ [][StreamNext]_streamVars
-----------------------------------------------------------------------------
StreamTypeOK ==
  /\ request \in Requests
  /\ received \in 0..Size /\ writes \in 0..received
  /\ headersRead \in BOOLEAN /\ parsed \in BOOLEAN /\ failed \in BOOLEAN
  /\ headerData \in 0..HeadEnd
  /\ headers \in {"null", "filled"}
  /\ bodyStream \in Seq(1..Size)

Plain == request.wide = {}

\* However the request is cut into chunks, the body of a plain one takes only
\* bytes that belong to the body, each once and in their order.
BodyIsSubsequence ==
  Plain => /\ \A i \in DOMAIN bodyStream :
                bodyStream[i] > HeadEnd /\ bodyStream[i] <= received
           /\ \A i, j \in DOMAIN bodyStream : i < j => bodyStream[i] < bodyStream[j]

\* Everything after the headers, in order.
WholeBody == [i \in 1..(received - HeadEnd) |-> HeadEnd + i]

\* If the first Write holds all the headers of a plain request, it stores all
\* it holds of the body (HttpRequestStream_Streams_Body_On_Read).
FirstWriteExact ==
  Plain /\ writes = 1 /\ headersRead /\ ~failed => bodyStream = WholeBody

\* Inductive strengthening: while the headers are collected there is no body, and
\* _headerData has a character for each byte of what was received, fewer where
\* characters are wide, but none fewer for the bytes after the head.
Collecting ==
  ~headersRead => /\ received < HeadEnd
                  /\ received - request.head <= headerData
                  /\ headerData <= received
                  /\ Plain => headerData = received
                  /\ bodyStream = <<>>

StreamIndInv ==
  /\ StreamTypeOK /\ Collecting /\ BodyIsSubsequence /\ FirstWriteExact
  /\ headersRead => received >= HeadEnd
  /\ writes = 0 => received = 0 /\ ~headersRead

\* HttpRequestStream_Streams_Body_On_MultipleWrite: a body that comes in
\* several writes is read back whole.
BodyOnMultipleWrite ==
  Plain /\ headersRead /\ ~failed => bodyStream = WholeBody
=============================================================================
