---------------------- MODULE HttpStreamRouteObject_proofs ----------------------
(***************************************************************************)
(* Proofs about HttpRequestStream.tla and about HttpStreamRouteObject.tla, *)
(* which extends it: for any requests cut in any way, and for any          *)
(* responses and size of the array.                                        *)
(***************************************************************************)
EXTENDS HttpStreamRouteObject, SequenceTheorems, FiniteSetTheorems,
        WellFoundedInduction, TLAPS

USE DEF BlankLine

\* A function on 1..n is a sequence, the empty one for n below zero.
LEMMA TupleProperties ==
  ASSUME NEW S, NEW n \in Int, NEW f \in [1 .. n -> S]
  PROVE  /\ f \in Seq(S)
         /\ Len(f) = IF n >= 0 THEN n ELSE 0
  <1>1. CASE n >= 0
    <2>1. f \in Seq(S)
      BY <1>1, SeqDef
    <2> QED
      BY <1>1, <2>1, LenProperties
  <1>2. CASE n < 0
    <2>1. 1 .. n = 1 .. 0 /\ 0 \in Nat
      BY <1>2
    <2>2. f \in [1 .. 0 -> S]
      BY <2>1
    <2>3. f \in Seq(S)
      BY <2>1, <2>2, SeqDef
    <2>4. Len(f) = 0
      BY <2>1, <2>2, <2>3, LenProperties
    <2> QED
      BY <1>2, <2>3, <2>4
  <1> QED
    BY <1>1, <1>2

\* Decoding makes a character of each byte or fewer, fewer only in the head.
LEMMA CharsBounds ==
  ASSUME request \in Requests, NEW from \in Nat, NEW to \in Nat
  PROVE  /\ Chars(from, to) \in Int
         /\ Chars(from, to) <= to - from
         /\ from <= to => Chars(from, to) >= 0
         /\ from >= request.head \/ to <= from => Chars(from, to) = to - from
         /\ to >= request.head => Chars(from, to) >= to - request.head \/ from >= request.head
         /\ Plain => Chars(from, to) = to - from
  <1> DEFINE W == {w \in request.wide : from < w /\ w < to}
  <1>1. /\ request.head \in Nat
        /\ \A w \in request.wide : w \in Nat /\ w < request.head
    BY RequestAssumption DEF IsRequest
  <1>2. W \subseteq from + 1 .. to - 1 /\ W \subseteq from + 1 .. request.head - 1
    BY <1>1
  <1>3. /\ IsFiniteSet(from + 1 .. to - 1)
        /\ Cardinality(from + 1 .. to - 1) = IF from + 1 > to - 1 THEN 0 ELSE to - 1 - (from + 1) + 1
    BY FS_Interval
  <1>4. /\ IsFiniteSet(from + 1 .. request.head - 1)
        /\ Cardinality(from + 1 .. request.head - 1) =
             IF from + 1 > request.head - 1 THEN 0 ELSE request.head - 1 - (from + 1) + 1
    <2>1. from + 1 \in Int /\ request.head - 1 \in Int
      BY <1>1
    <2> QED
      BY <2>1, FS_Interval
  <1> DEFINE c == Cardinality(W)
  <1>5. c \in Nat
    BY <1>2, <1>3, FS_Subset, FS_CardinalityType
  <1>6. c <= Cardinality(from + 1 .. to - 1) /\ c <= Cardinality(from + 1 .. request.head - 1)
    BY <1>2, <1>3, <1>4, FS_Subset
  <1>7. Plain => c = 0
    <2>1. Plain => W = {}
      BY DEF Plain
    <2> QED
      BY <2>1, FS_EmptySet
  <1>8. Chars(from, to) = to - from - c
    BY DEF Chars, Cardinality
  <1> HIDE DEF c
  <1> QED
    BY <1>1, <1>3, <1>4, <1>5, <1>6, <1>7, <1>8

\* What a Write keeps of its chunk: places in the request, in order, of bytes it
\* has just received; of a plain request only from behind the headers.
LEMMA BodyBytesProperties ==
  ASSUME StreamIndInv, NEW count \in 1 .. Size, received + count <= Size,
         headersRead \/ FindsBlankLine(count)
  PROVE  /\ BodyStart(count) \in 0 .. request.head
         /\ BodyBytes(count) \in Seq(1 .. Size)
         /\ \A i \in 1 .. Len(BodyBytes(count)) :
              /\ BodyBytes(count)[i] > received
              /\ BodyBytes(count)[i] <= received + count
              /\ Plain => BodyBytes(count)[i] > HeadEnd
         /\ \A i, j \in 1 .. Len(BodyBytes(count)) :
              i < j => BodyBytes(count)[i] < BodyBytes(count)[j]
         /\ Plain /\ received = 0 /\ ~headersRead =>
              BodyBytes(count) = [i \in 1 .. count - HeadEnd |-> HeadEnd + i]
         /\ Plain /\ ~headersRead =>
              BodyBytes(count) = [i \in 1 .. count - HeadEnd |-> received + HeadEnd + i]
  <1> DEFINE start == BodyStart(count)
             n == count - (start + 4)
             bytes == BodyBytes(count)
  <1>1. /\ request \in Requests /\ request.head \in Nat /\ request.body \in Nat
        /\ received \in Nat /\ headerData \in Nat
        /\ HeadEnd = request.head + 4
        /\ Size = request.head + 4 + request.body
    BY RequestAssumption
       DEF StreamIndInv, StreamTypeOK, IsRequest, Size, HeadEnd
  <1>2. /\ start \in 0 .. request.head
        /\ Plain => start + 4 + received >= HeadEnd
        /\ Plain /\ ~headersRead => start = request.head
    <2>1. CASE headersRead
      BY <1>1, <2>1 DEF BodyStart, StreamIndInv
    <2>2. CASE ~headersRead
      <3>1. start = headerData + Chars(received, request.head)
        BY <2>2 DEF BodyStart
      <3>2. /\ received - request.head <= headerData
            /\ headerData <= received
            /\ Plain => headerData = received
        BY <2>2 DEF StreamIndInv, Collecting
      <3>3. /\ Chars(received, request.head) \in Int
            /\ Chars(received, request.head) <= request.head - received
            /\ received <= request.head => Chars(received, request.head) >= 0
            /\ request.head <= received =>
                 Chars(received, request.head) = request.head - received
            /\ Plain => Chars(received, request.head) = request.head - received
        BY <1>1, CharsBounds
      <3> HIDE DEF start
      <3> QED
        BY <1>1, <3>1, <3>2, <3>3
    <2> QED
      BY <2>1, <2>2
  <1>3. bytes = [i \in 1 .. n |-> received + (start + 4) + i]
    BY <1>1, <1>2 DEF BodyBytes
  <1> HIDE DEF start, bytes
  <1>4. count \in Nat /\ n \in Int
    BY <1>1, <1>2
  <1>5. \A i \in 1 .. n : received + (start + 4) + i \in 1 .. Size
    BY <1>1, <1>2, <1>4
  <1>6. bytes \in [1 .. n -> 1 .. Size]
    BY <1>3, <1>5
  <1>7. bytes \in Seq(1 .. Size) /\ Len(bytes) = IF n >= 0 THEN n ELSE 0
    BY <1>4, <1>6, TupleProperties
  <1>8. \A i \in 1 .. Len(bytes) : i \in 1 .. n /\ bytes[i] = received + (start + 4) + i
    <2>1. \A i \in 1 .. Len(bytes) : i \in 1 .. n
      BY <1>4, <1>7
    <2>2. \A i \in 1 .. n : bytes[i] = received + (start + 4) + i
      BY <1>3
    <2> QED
      BY <2>1, <2>2
  <1>9. \A i \in 1 .. Len(bytes) : /\ bytes[i] > received
                                   /\ bytes[i] <= received + count
                                   /\ Plain => bytes[i] > HeadEnd
    BY <1>1, <1>2, <1>4, <1>8
  <1>10. \A i, j \in 1 .. Len(bytes) : i < j => bytes[i] < bytes[j]
    BY <1>1, <1>2, <1>4, <1>8
  <1>11. Plain /\ received = 0 /\ ~headersRead =>
           bytes = [i \in 1 .. count - HeadEnd |-> HeadEnd + i]
    <2> SUFFICES ASSUME Plain, received = 0, ~headersRead
                 PROVE  bytes = [i \in 1 .. count - HeadEnd |-> HeadEnd + i]
      OBVIOUS
    <2>1. n = count - HeadEnd /\ received + (start + 4) = HeadEnd
      BY <1>1, <1>2
    <2> QED
      BY <1>3, <2>1
  <1>12. Plain /\ ~headersRead =>
           bytes = [i \in 1 .. count - HeadEnd |-> received + HeadEnd + i]
    <2> SUFFICES ASSUME Plain, ~headersRead
                 PROVE  bytes = [i \in 1 .. count - HeadEnd |-> received + HeadEnd + i]
      OBVIOUS
    <2>1. n = count - HeadEnd /\ start + 4 = HeadEnd
      BY <1>1, <1>2
    <2> QED
      BY <1>3, <2>1
  <1> QED
    BY <1>2, <1>7, <1>9, <1>10, <1>11, <1>12 DEF start, bytes

LEMMA StreamInitInv == StreamInit => StreamIndInv
  <1> SUFFICES ASSUME StreamInit PROVE StreamIndInv
    OBVIOUS
  <1>1. /\ request \in Requests /\ request.head \in Nat /\ request.body \in Nat
        /\ received = 0 /\ writes = 0 /\ headerData = 0 /\ bodyStream = <<>>
        /\ headersRead = FALSE /\ parsed = FALSE /\ failed = FALSE /\ headers = "null"
    BY RequestAssumption DEF StreamInit, IsRequest
  <1>2. HeadEnd \in Nat /\ HeadEnd > 0 /\ Size \in Nat
    BY <1>1 DEF HeadEnd, Size
  <1>3. bodyStream \in Seq(1 .. Size) /\ Len(bodyStream) = 0
    BY <1>1, EmptySeq
  <1>4. StreamTypeOK
    <2>1. received \in 0 .. Size /\ writes \in 0 .. received
      BY <1>1, <1>2
    <2>2. headerData \in 0 .. HeadEnd
      BY <1>1, <1>2
    <2> QED
      BY <1>1, <1>3, <2>1, <2>2 DEF StreamTypeOK
  <1>5. DOMAIN bodyStream = {}
    BY <1>3, LenProperties
  <1>6. BodyIsSubsequence
    BY <1>5 DEF BodyIsSubsequence
  <1>7. Collecting /\ FirstWriteExact
    BY <1>1, <1>2 DEF Collecting, FirstWriteExact
  <1> QED
    BY <1>1, <1>4, <1>6, <1>7 DEF StreamIndInv

\* One chunk, whatever it holds.
LEMMA StreamWrite ==
  ASSUME StreamIndInv, NEW count \in 1 .. Size, Write(count)
  PROVE  StreamIndInv'
  <1>1. /\ request \in Requests /\ request' = request
        /\ request.head \in Nat /\ request.body \in Nat
        /\ received \in Nat /\ headerData \in Nat /\ count \in Nat \ {0}
        /\ received <= Size
        /\ HeadEnd = request.head + 4
        /\ Size = request.head + 4 + request.body
    BY RequestAssumption
       DEF StreamIndInv, StreamTypeOK, IsRequest, Size, HeadEnd,
           Write
  <1>2. /\ HeadEnd' = HeadEnd /\ Size' = Size
        /\ Plain' = Plain
    BY <1>1 DEF HeadEnd, Size, Plain
  <1>3. /\ ~failed /\ received + count <= Size
        /\ received' = received + count /\ writes' = writes + 1
        /\ headersRead' = (headersRead \/ FindsBlankLine(count))
    BY DEF Write
  <1>4. /\ headersRead \in BOOLEAN /\ parsed' = headersRead'
        /\ headers' \in {"null", "filled"} /\ failed' \in BOOLEAN
    BY DEF Write, StreamIndInv, StreamTypeOK
  <1>5. bodyStream \in Seq(1 .. Size)
    BY DEF StreamIndInv, StreamTypeOK
  <1>6. CASE ~headersRead'
    <2>1. ~headersRead /\ received + count < HeadEnd
      <3>1. ~headersRead /\ ~FindsBlankLine(count)
        BY <1>3, <1>6, Zenon
      <3> QED
        BY <1>1, <3>1 DEF FindsBlankLine
    <2>2. /\ headerData' = headerData + Chars(received, received + count)
          /\ failed' = FALSE
      BY <1>6, <2>1 DEF Write
    <2>3. /\ received < HeadEnd /\ received - request.head <= headerData
          /\ headerData <= received
          /\ Plain => headerData = received
          /\ bodyStream = <<>>
      BY <2>1 DEF StreamIndInv, Collecting
    <2>4. BodyStart(count) = -1
      BY <1>1, <2>1 DEF BodyStart, FindsBlankLine
    <2>5. bodyStream' = <<>>
      <3>1. bodyStream' = bodyStream \o <<>>
        BY <2>2, <2>4 DEF Write, BodyBytes
      <3> QED
        BY <2>3, <3>1, <1>5, ConcatEmptySeq
    <2>6. /\ Chars(received, received + count) \in Nat
          /\ Chars(received, received + count) <= count
          /\ received >= request.head => Chars(received, received + count) = count
          /\ received < request.head =>
               Chars(received, received + count) >= received + count - request.head
          /\ Plain => Chars(received, received + count) = count
      <3>1. received + count \in Nat /\ (received + count) - received = count
        BY <1>1
      <3> DEFINE to == received + count
                 chars == Chars(received, to)
      <3> HIDE DEF to
      <3>2. /\ chars \in Int
            /\ chars <= to - received
            /\ received <= to => chars >= 0
            /\ received >= request.head \/ to <= received => chars = to - received
            /\ to >= request.head => chars >= to - request.head \/ received >= request.head
            /\ Plain => chars = to - received
        BY <1>1, <3>1, CharsBounds DEF to
      <3> HIDE DEF chars
      <3>3. /\ chars \in Nat /\ chars <= count
            /\ received >= request.head => chars = count
            /\ received < request.head => chars >= received + count - request.head
            /\ Plain => chars = count
        BY <1>1, <3>1, <3>2 DEF to
      <3> QED
        BY <3>3 DEF to, chars
    <2>7. /\ headerData' \in Nat
          /\ received' - request.head <= headerData'
          /\ headerData' <= received'
          /\ Plain => headerData' = received'
      <3> DEFINE chars == Chars(received, received + count)
      <3>1. /\ chars \in Nat /\ chars <= count
            /\ received >= request.head => chars = count
            /\ received < request.head => chars >= received + count - request.head
            /\ Plain => chars = count
            /\ headerData' = headerData + chars
        BY <2>2, <2>6
      <3> HIDE DEF chars
      <3> QED
        BY <1>1, <1>3, <2>3, <3>1
    <2>8. writes' \in 0 .. received'
      BY <1>1, <1>3 DEF StreamIndInv, StreamTypeOK
    <2>9. StreamTypeOK'
      BY <1>1, <1>2, <1>3, <1>4, <1>6, <2>1, <2>5, <2>7, <2>8, EmptySeq DEF StreamTypeOK
    <2>10. DOMAIN bodyStream' = {}
      BY <2>5, EmptySeq, LenProperties
    <2>11. BodyIsSubsequence'
      BY <2>10 DEF BodyIsSubsequence
    <2>12. Collecting' /\ FirstWriteExact'
      BY <1>1, <1>2, <1>3, <1>6, <2>1, <2>5, <2>7
         DEF Collecting, FirstWriteExact
    <2>13. writes' # 0
      BY <1>1, <1>3 DEF StreamIndInv, StreamTypeOK
    <2> QED
      BY <1>6, <2>9, <2>11, <2>12, <2>13 DEF StreamIndInv
  <1>7. CASE headersRead'
    <2> DEFINE bytes == BodyBytes(count)
    <2>1. /\ BodyStart(count) \in 0 .. request.head
          /\ bytes \in Seq(1 .. Size)
          /\ \A i \in 1 .. Len(bytes) :
               /\ bytes[i] > received /\ bytes[i] <= received + count
               /\ Plain => bytes[i] > HeadEnd
          /\ \A i, j \in 1 .. Len(bytes) : i < j => bytes[i] < bytes[j]
          /\ Plain /\ received = 0 /\ ~headersRead =>
               bytes = [i \in 1 .. count - HeadEnd |-> HeadEnd + i]
      BY <1>3, <1>7, BodyBytesProperties
    <2> HIDE DEF bytes
    <2>2. bodyStream' = bodyStream \/ bodyStream' = bodyStream \o bytes
      <3>1. bodyStream' = bodyStream \o IF failed' THEN <<>> ELSE bytes
        BY DEF Write, bytes
      <3> QED
        BY <1>5, <3>1, ConcatEmptySeq
    <2>3. /\ Len(bodyStream) \in Nat /\ Len(bytes) \in Nat
          /\ DOMAIN bodyStream = 1 .. Len(bodyStream)
          /\ bodyStream \o bytes \in Seq(1 .. Size)
          /\ Len(bodyStream \o bytes) = Len(bodyStream) + Len(bytes)
          /\ \A i \in 1 .. Len(bodyStream) + Len(bytes) :
               (bodyStream \o bytes)[i] = IF i <= Len(bodyStream) THEN bodyStream[i]
                                          ELSE bytes[i - Len(bodyStream)]
      BY <1>5, <2>1, LenProperties, ConcatProperties
    <2>4. DOMAIN (bodyStream \o bytes) = 1 .. Len(bodyStream) + Len(bytes)
      BY <2>3, LenProperties
    <2>5. headerData' \in 0 .. HeadEnd
      BY <1>1, <1>7, <2>1 DEF Write, StreamIndInv, StreamTypeOK
    <2>6. writes' \in 0 .. received' /\ writes' # 0
      BY <1>1, <1>3 DEF StreamIndInv, StreamTypeOK
    <2>7. StreamTypeOK'
      <3>1. bodyStream' \in Seq(1 .. Size')
        BY <1>2, <1>5, <2>2, <2>3
      <3>2. received' \in 0 .. Size'
        BY <1>1, <1>2, <1>3
      <3> QED
        BY <1>1, <1>2, <1>4, <1>7, <2>5, <2>6, <3>1, <3>2 DEF StreamTypeOK
    <2>8. BodyIsSubsequence'
      <3> SUFFICES ASSUME Plain
                   PROVE  /\ \A i \in DOMAIN bodyStream' :
                               bodyStream'[i] > HeadEnd /\ bodyStream'[i] <= received'
                          /\ \A i, j \in DOMAIN bodyStream' :
                               i < j => bodyStream'[i] < bodyStream'[j]
        BY <1>2 DEF BodyIsSubsequence
      <3>1. /\ \A i \in DOMAIN bodyStream :
                 bodyStream[i] > HeadEnd /\ bodyStream[i] <= received
            /\ \A i, j \in DOMAIN bodyStream : i < j => bodyStream[i] < bodyStream[j]
        BY DEF StreamIndInv, BodyIsSubsequence
      <3>2. \A i \in DOMAIN bodyStream : bodyStream[i] \in Nat
        BY <1>1, <1>5, <2>3, ElementOfSeq
      <3>3. \A i \in 1 .. Len(bytes) : bytes[i] \in Nat
        <4>1. \A i \in 1 .. Len(bytes) : bytes[i] \in 1 .. Size
          BY <2>1, ElementOfSeq
        <4> QED
          BY <1>1, <4>1
      <3>4. CASE bodyStream' = bodyStream
        BY <1>1, <1>3, <3>1, <3>2, <3>4
      <3>5. CASE bodyStream' = bodyStream \o bytes
        <4>1. ASSUME NEW i \in 1 .. Len(bodyStream) + Len(bytes)
              PROVE  \/ i \in DOMAIN bodyStream /\ bodyStream'[i] = bodyStream[i]
                     \/ /\ i > Len(bodyStream) /\ i - Len(bodyStream) \in 1 .. Len(bytes)
                        /\ bodyStream'[i] = bytes[i - Len(bodyStream)]
          BY <2>3, <3>5
        <4>2. ASSUME NEW i \in 1 .. Len(bodyStream) + Len(bytes)
              PROVE  bodyStream'[i] > HeadEnd /\ bodyStream'[i] <= received'
          <5>1. CASE i \in DOMAIN bodyStream /\ bodyStream'[i] = bodyStream[i]
            BY <1>1, <1>3, <3>1, <3>2, <5>1
          <5>2. CASE /\ i - Len(bodyStream) \in 1 .. Len(bytes)
                     /\ bodyStream'[i] = bytes[i - Len(bodyStream)]
            <6>1. /\ bytes[i - Len(bodyStream)] > HeadEnd
                  /\ bytes[i - Len(bodyStream)] <= received + count
              BY <2>1, <5>2
            <6> QED
              BY <1>3, <5>2, <6>1
          <5> QED
            BY <4>1, <5>1, <5>2
        <4>3. ASSUME NEW i \in 1 .. Len(bodyStream) + Len(bytes),
                     NEW j \in 1 .. Len(bodyStream) + Len(bytes), i < j
              PROVE  bodyStream'[i] < bodyStream'[j]
          <5>1. CASE j \in DOMAIN bodyStream
            <6>1. i \in DOMAIN bodyStream
              BY <2>3, <4>3, <5>1
            <6> QED
              BY <2>3, <3>1, <3>5, <4>3, <5>1, <6>1
          <5>2. CASE j \notin DOMAIN bodyStream /\ i \in DOMAIN bodyStream
            <6>1. bodyStream'[i] = bodyStream[i] /\ bodyStream[i] <= received
              BY <2>3, <3>1, <3>5, <5>2
            <6>2. /\ j - Len(bodyStream) \in 1 .. Len(bytes)
                  /\ bodyStream'[j] = bytes[j - Len(bodyStream)]
              BY <4>1, <5>2
            <6>3. /\ bytes[j - Len(bodyStream)] > received
                  /\ bytes[j - Len(bodyStream)] \in Nat
              BY <2>1, <3>3, <6>2
            <6>4. bodyStream[i] \in Nat
              BY <3>2, <5>2
            <6> QED
              BY <1>1, <6>1, <6>2, <6>3, <6>4
          <5>3. CASE j \notin DOMAIN bodyStream /\ i \notin DOMAIN bodyStream
            <6>1. /\ j - Len(bodyStream) \in 1 .. Len(bytes)
                  /\ bodyStream'[j] = bytes[j - Len(bodyStream)]
                  /\ i - Len(bodyStream) \in 1 .. Len(bytes)
                  /\ bodyStream'[i] = bytes[i - Len(bodyStream)]
              BY <4>1, <5>3
            <6>2. i - Len(bodyStream) < j - Len(bodyStream)
              BY <2>3, <4>3
            <6> QED
              BY <2>1, <6>1, <6>2
          <5> QED
            BY <5>1, <5>2, <5>3
        <4> QED
          BY <2>4, <3>5, <4>2, <4>3
      <3> QED
        BY <2>2, <3>4, <3>5
    <2>9. FirstWriteExact'
      <3> SUFFICES ASSUME Plain, writes' = 1, ~failed'
                   PROVE  bodyStream' = WholeBody'
        BY <1>2 DEF FirstWriteExact
      <3>1. writes = 0
        BY <1>3 DEF StreamIndInv, StreamTypeOK
      <3>2. received = 0 /\ ~headersRead /\ bodyStream = <<>>
        BY <3>1 DEF StreamIndInv, Collecting
      <3>3. bodyStream' = bytes
        <4>1. bodyStream' = <<>> \o bytes
          BY <3>2 DEF Write, bytes
        <4> QED
          BY <2>1, <4>1, ConcatEmptySeq
      <3>4. received' = count
        BY <1>1, <1>3, <3>2
      <3> QED
        BY <1>2, <2>1, <3>2, <3>3, <3>4 DEF WholeBody
    <2>10. received' >= HeadEnd'
      <3>1. headersRead \/ FindsBlankLine(count)
        BY <1>3, <1>7, Zenon
      <3>2. headersRead => received >= HeadEnd
        BY DEF StreamIndInv
      <3> QED
        BY <1>1, <1>2, <1>3, <3>1, <3>2 DEF FindsBlankLine
    <2>11. Collecting'
      BY <1>7 DEF Collecting
    <2> QED
      BY <2>6, <2>7, <2>8, <2>9, <2>10, <2>11 DEF StreamIndInv
  <1> QED
    BY <1>6, <1>7

LEMMA StreamUnchanged ==
  ASSUME StreamIndInv, UNCHANGED streamVars
  PROVE  StreamIndInv'
  <1>1. /\ request' = request /\ received' = received /\ writes' = writes
        /\ headersRead' = headersRead /\ headerData' = headerData /\ parsed' = parsed
        /\ headers' = headers /\ bodyStream' = bodyStream /\ failed' = failed
    BY DEF streamVars
  <1>2. /\ HeadEnd' = HeadEnd /\ Size' = Size
        /\ Plain' = Plain
    BY <1>1 DEF HeadEnd, Size, Plain
  <1>3. /\ StreamTypeOK' /\ Collecting'
        /\ BodyIsSubsequence' /\ FirstWriteExact'
    <2>1. StreamTypeOK'
      BY <1>1, <1>2 DEF StreamIndInv, StreamTypeOK
    <2>2. Collecting'
      BY <1>1, <1>2 DEF StreamIndInv, Collecting
    <2>3. BodyIsSubsequence'
      BY <1>1, <1>2 DEF StreamIndInv, BodyIsSubsequence
    <2>4. WholeBody' = WholeBody
      BY <1>1, <1>2 DEF WholeBody
    <2>5. FirstWriteExact'
      BY <1>1, <1>2, <2>4 DEF StreamIndInv, FirstWriteExact
    <2> QED
      BY <2>1, <2>2, <2>3, <2>5
  <1> QED
    BY <1>1, <1>2, <1>3 DEF StreamIndInv

\* The stream alone, written to in any chunks (HttpRequestStream.Write): what it
\* holds at any time agrees with how much it has been given, its body included.
THEOREM StreamInvariant == StreamSpec => []StreamIndInv
  <1>1. StreamIndInv /\ [StreamNext]_streamVars => StreamIndInv'
    <2> SUFFICES ASSUME StreamIndInv, [StreamNext]_streamVars PROVE StreamIndInv'
      OBVIOUS
    <2>1. ASSUME NEW count \in 1 .. Size, Write(count) PROVE StreamIndInv'
      BY <2>1, StreamWrite
    <2>2. CASE UNCHANGED streamVars
      <3>1. UNCHANGED streamVars
        BY <2>2 DEF streamVars
      <3> QED
        BY <3>1, StreamUnchanged
    <2> QED
      BY <2>1, <2>2 DEF StreamNext, AllWritten
  <1> QED
    BY <1>1, StreamInitInv, PTL DEF StreamSpec

\* HttpRequestStream.Write: the body of a plain request only ever takes bytes
\* from behind the headers, each once and in their order, however it is cut.
THEOREM StreamBodyIsSubsequence == StreamSpec => []BodyIsSubsequence
  <1>1. StreamIndInv => BodyIsSubsequence
    BY DEF StreamIndInv
  <1> QED
    BY <1>1, StreamInvariant, PTL

\* HttpRequestStream.Write: a first chunk with all the headers of a plain request
\* leaves nothing of its body out.
THEOREM StreamFirstWriteExact == StreamSpec => []FirstWriteExact
  <1>1. StreamIndInv => FirstWriteExact
    BY DEF StreamIndInv
  <1> QED
    BY <1>1, StreamInvariant, PTL
-----------------------------------------------------------------------------
\* The response streams.
LEMMA MinOfTwo ==
  ASSUME NEW a \in Int, NEW b \in Int
  PROVE  Min({a, b}) = IF a <= b THEN a ELSE b
  <1> DEFINE m == IF a <= b THEN a ELSE b
  <1>1. m \in {a, b} /\ \A y \in {a, b} : m <= y
    OBVIOUS
  <1>2. \A x \in {a, b} : (\A y \in {a, b} : x <= y) => x = m
    OBVIOUS
  <1> HIDE DEF m
  <1>3. Min({a, b}) \in {a, b} /\ \A y \in {a, b} : Min({a, b}) <= y
    BY <1>1 DEF Min
  <1> QED
    BY <1>2, <1>3 DEF m

\* As much of n bytes as fits the array.
Fits(n) == IF BufferSize <= n THEN BufferSize ELSE n

LEMMA SiteProperties ==
  ASSUME NEW r \in Responses
  PROVE  /\ r.head \in Nat \ {0} /\ r.body \in Nat /\ Fits(r.head) \in 1 .. BufferSize
         /\ Site(r) \in Seq(Bytes)
         /\ Len(Site(r)) = Fits(r.head) + r.body
         /\ \A k \in 1 .. Fits(r.head) : Site(r)[k] = <<"site", k>>
         /\ \A k \in 1 .. r.body : Site(r)[Fits(r.head) + k] = <<"body", k>>
  <1>1. /\ r.head \in Nat \ {0} /\ r.body \in Nat
        /\ BufferSize \in Nat \ {0} /\ Fits(r.head) \in 1 .. BufferSize
    BY ResponseAssumption DEF Fits
  <1>2. Min({BufferSize, r.head}) = Fits(r.head)
    BY <1>1, MinOfTwo DEF Fits
  <1> DEFINE h == Fits(r.head)
             a == [i \in 1 .. h |-> <<"site", i>>]
             b == [i \in 1 .. r.body |-> <<"body", i>>]
  <1>3. Site(r) = a \o b
    BY <1>2 DEF Site, Part
  <1> HIDE DEF h
  <1>4. a \in [1 .. h -> Bytes] /\ b \in [1 .. r.body -> Bytes]
    BY <1>1 DEF Bytes
  <1>5. h \in 1 .. BufferSize
    BY <1>1 DEF h
  <1>6. /\ a \in Seq(Bytes) /\ Len(a) = h
        /\ b \in Seq(Bytes) /\ Len(b) = r.body
    BY <1>1, <1>4, <1>5, TupleProperties
  <1>7. /\ \A k \in 1 .. h : a[k] = <<"site", k>>
        /\ \A k \in 1 .. r.body : b[k] = <<"body", k>>
    OBVIOUS
  <1> HIDE DEF a, b
  <1>8. /\ a \o b \in Seq(Bytes) /\ Len(a \o b) = h + r.body
        /\ \A k \in 1 .. h + r.body : (a \o b)[k] = IF k <= h THEN a[k] ELSE b[k - h]
    <2>1. /\ a \o b \in Seq(Bytes) /\ Len(a \o b) = Len(a) + Len(b)
          /\ \A k \in 1 .. Len(a) + Len(b) :
               (a \o b)[k] = IF k <= Len(a) THEN a[k] ELSE b[k - Len(a)]
      BY <1>6, ConcatProperties
    <2> QED
      BY <1>6, <2>1
  <1>9. ASSUME NEW k \in 1 .. h PROVE (a \o b)[k] = <<"site", k>>
    <2>1. k \in 1 .. h + r.body /\ k <= h
      BY <1>1, <1>5
    <2>2. (a \o b)[k] = a[k]
      BY <1>8, <2>1
    <2> QED
      BY <1>7, <2>2
  <1>10. ASSUME NEW k \in 1 .. r.body PROVE (a \o b)[h + k] = <<"body", k>>
    <2>1. h + k \in 1 .. h + r.body /\ ~(h + k <= h) /\ (h + k) - h = k
      BY <1>1, <1>5
    <2> QED
      BY <1>7, <1>8, <2>1
  <1> QED
    BY <1>1, <1>3, <1>8, <1>9, <1>10 DEF h

LEMMA ErrorProperties ==
  /\ Fits(ErrorHead) \in 1 .. BufferSize
  /\ Error \in Seq(Bytes)
  /\ Len(Error) = Fits(ErrorHead)
  /\ \A k \in 1 .. Fits(ErrorHead) : Error[k] = <<"error", k>>
  <1>1. ErrorHead \in Nat \ {0} /\ BufferSize \in Nat \ {0} /\ Fits(ErrorHead) \in 1 .. BufferSize
    BY ResponseAssumption DEF Fits
  <1>2. Min({BufferSize, ErrorHead}) = Fits(ErrorHead)
    BY <1>1, MinOfTwo DEF Fits
  <1> DEFINE h == Fits(ErrorHead)
             a == [i \in 1 .. h |-> <<"error", i>>]
  <1>3. Error = a
    BY <1>2 DEF Error, Part
  <1> HIDE DEF h
  <1>4. h \in 1 .. BufferSize /\ a \in [1 .. h -> Bytes]
    BY <1>1 DEF Bytes, h
  <1>5. a \in Seq(Bytes) /\ Len(a) = h
    BY <1>1, <1>4, TupleProperties
  <1> QED
    BY <1>1, <1>3, <1>5 DEF h

\* Read: the head first, then the body from the position on.
LEMMA ChunkProperties ==
  ASSUME TypeOK
  PROVE  /\ Chunk \in Seq(Bytes)
         /\ Len(Chunk) = IF firstRead THEN Fits(response.head)
                         ELSE Fits(response.body - position)
         /\ Len(Chunk) \in 0 .. BufferSize
         /\ ~firstRead => position + Len(Chunk) <= response.body
         /\ \A i \in 1 .. Len(Chunk) :
              Chunk[i] = IF firstRead THEN <<page, i>> ELSE <<"body", position + i>>
  <1>1. /\ response.head \in Nat /\ response.body \in Nat
        /\ position \in 0 .. response.body /\ BufferSize \in Nat \ {0}
        /\ page \in Pages /\ firstRead \in BOOLEAN
    <2>1. response \in Responses \cup {ErrorPage, NoResponse}
      BY DEF TypeOK
    <2>2. response.head \in Nat /\ response.body \in Nat
      BY <2>1, ResponseAssumption DEF ErrorPage, NoResponse
    <2> QED
      BY <2>2, ResponseAssumption DEF TypeOK
  <1>2. CASE firstRead
    <2> DEFINE h == Fits(response.head)
    <2>1. Min({BufferSize, response.head}) = h /\ h \in 0 .. BufferSize
      BY <1>1, MinOfTwo DEF Fits
    <2>2. Chunk = [i \in 1 .. h |-> <<page, i>>]
      BY <1>2, <2>1 DEF Chunk
    <2> HIDE DEF h
    <2>3. Chunk \in [1 .. h -> Bytes]
      BY <1>1, <2>1, <2>2 DEF Bytes, Pages
    <2>4. Chunk \in Seq(Bytes) /\ Len(Chunk) = h
      BY <1>1, <2>1, <2>3, TupleProperties
    <2> QED
      BY <1>2, <2>1, <2>2, <2>4 DEF h
  <1>3. CASE ~firstRead
    <2> DEFINE h == Fits(response.body - position)
    <2>1. /\ Min({BufferSize, response.body - position}) = h /\ h \in 0 .. BufferSize
          /\ position + h <= response.body
      BY <1>1, MinOfTwo DEF Fits
    <2>2. Chunk = [i \in 1 .. h |-> <<"body", position + i>>]
      BY <1>3, <2>1 DEF Chunk
    <2> HIDE DEF h
    <2>3. Chunk \in [1 .. h -> Bytes]
      BY <1>1, <2>1, <2>2 DEF Bytes
    <2>4. Chunk \in Seq(Bytes) /\ Len(Chunk) = h
      BY <1>1, <2>1, <2>3, TupleProperties
    <2> QED
      BY <1>3, <2>1, <2>2, <2>4 DEF h
  <1> QED
    BY <1>2, <1>3

\* The array that is read into.
LEMMA FilledProperties ==
  ASSUME TypeOK
  PROVE  /\ Filled \in [Pages -> [1 .. BufferSize -> Bytes]]
         /\ \A p \in Pages : p # page => Filled[p] = buffer[p]
         /\ \A i \in 1 .. Len(Chunk) : Filled[page][i] = Chunk[i]
  <1>1. /\ page \in Pages /\ buffer \in [Pages -> [1 .. BufferSize -> Bytes]]
        /\ BufferSize \in Nat \ {0}
    BY ResponseAssumption DEF TypeOK
  <1>2. /\ Chunk \in Seq(Bytes) /\ Len(Chunk) \in 0 .. BufferSize
    BY ChunkProperties
  <1>3. \A i \in 1 .. Len(Chunk) : Chunk[i] \in Bytes
    BY <1>2, ElementOfSeq
  <1> DEFINE f == [i \in 1 .. BufferSize |-> IF i <= Len(Chunk) THEN Chunk[i] ELSE buffer[page][i]]
  <1>4. Filled = [buffer EXCEPT ![page] = f]
    BY DEF Filled
  <1>5. f \in [1 .. BufferSize -> Bytes]
    BY <1>1, <1>2, <1>3
  <1>6. \A i \in 1 .. Len(Chunk) : f[i] = Chunk[i]
    BY <1>1, <1>2
  <1> HIDE DEF f
  <1> QED
    BY <1>1, <1>4, <1>5, <1>6
-----------------------------------------------------------------------------
\* Sums of sequences of numbers, for the bytes that are on their way.

\* Induction, over a set of naturals: the least number outside of it would come
\* after one that is in it.
LEMMA NatSetInduction ==
  ASSUME NEW S, 0 \in S, \A n \in Nat : n \in S => n + 1 \in S
  PROVE  Nat \subseteq S
  <1> DEFINE T == Nat \ S
             Less == {ss \in Nat \X Nat : ss[1] < ss[2]}
  <1>1. IsWellFoundedOn(Less, Nat)
    BY NatLessThanWellFounded DEF OpToRel
  <1>2. SUFFICES ASSUME T # {} PROVE FALSE
    OBVIOUS
  <1>3. PICK x \in T : \A y \in T : ~(<<y, x>> \in Less)
    <2> HIDE DEF Less
    <2> QED
      BY <1>1, <1>2, WFMin
  <1>4. x # 0 /\ x - 1 \in Nat
    BY <1>3
  <1>5. x - 1 \in S
    <2>1. <<x - 1, x>> \in Less
      BY <1>4
    <2> QED
      BY <1>3, <1>4, <2>1
  <1>6. (x - 1) + 1 \in S
    BY <1>4, <1>5
  <1> QED
    BY <1>3, <1>6

\* G[s] is the sum of f over s, whatever member is counted first.
IsSum(G, f, S) ==
  /\ G \in [SUBSET S -> Int]
  /\ G[{}] = 0
  /\ \A s \in SUBSET S : \A x \in s : G[s] = f[x] + G[s \ {x}]

\* One more number to sum over.
LEMMA SumExtends ==
  ASSUME NEW n \in Nat, NEW f, \A i \in 1 .. n + 1 : f[i] \in Int,
         NEW G, IsSum(G, f, 1 .. n)
  PROVE  \E H : IsSum(H, f, 1 .. n + 1)
  <1> DEFINE H == [s \in SUBSET (1 .. n + 1) |->
                     IF n + 1 \in s THEN f[n + 1] + G[s \ {n + 1}] ELSE G[s]]
  <1>1. \A s \in SUBSET (1 .. n + 1) :
          /\ n + 1 \in s => s \ {n + 1} \in SUBSET (1 .. n)
          /\ n + 1 \notin s => s \in SUBSET (1 .. n)
    OBVIOUS
  <1>2. H \in [SUBSET (1 .. n + 1) -> Int]
    BY <1>1 DEF IsSum
  <1>3. H[{}] = 0
    BY DEF IsSum
  <1>4. ASSUME NEW s \in SUBSET (1 .. n + 1), NEW x \in s
        PROVE  H[s] = f[x] + H[s \ {x}]
    <2>1. s \ {x} \in SUBSET (1 .. n + 1)
      OBVIOUS
    <2>2. CASE n + 1 \notin s
      <3>1. s \in SUBSET (1 .. n) /\ H[s] = G[s] /\ H[s \ {x}] = G[s \ {x}]
        BY <1>1, <2>1, <2>2
      <3> QED
        BY <3>1 DEF IsSum
    <2>3. CASE x = n + 1
      <3>1. H[s] = f[n + 1] + G[s \ {n + 1}] /\ H[s \ {x}] = G[s \ {n + 1}]
        BY <2>1, <2>3
      <3> QED
        BY <2>3, <3>1
    <2>4. CASE n + 1 \in s /\ x # n + 1
      <3> DEFINE rest == s \ {n + 1}
      <3>1. /\ rest \in SUBSET (1 .. n) /\ x \in rest
            /\ (s \ {x}) \ {n + 1} = rest \ {x}
            /\ rest \ {x} \in SUBSET (1 .. n)
        BY <1>1, <2>4
      <3>2. H[s] = f[n + 1] + G[rest] /\ H[s \ {x}] = f[n + 1] + G[rest \ {x}]
        BY <2>1, <2>4, <3>1
      <3>3. G[rest] = f[x] + G[rest \ {x}] /\ G[rest \ {x}] \in Int
        BY <3>1 DEF IsSum
      <3>4. f[x] \in Int /\ f[n + 1] \in Int
        OBVIOUS
      <3> HIDE DEF H, rest
      <3> QED
        BY <3>2, <3>3, <3>4
    <2> QED
      BY <2>2, <2>3, <2>4
  <1> HIDE DEF H
  <1> QED
    BY <1>2, <1>3, <1>4 DEF IsSum

\* There is a sum of any n numbers.
LEMMA SumExists ==
  ASSUME NEW n \in Nat, NEW f \in [1 .. n -> Int]
  PROVE  \E G : IsSum(G, f, 1 .. n)
  <1> DEFINE P(k) == k <= n => \E G : IsSum(G, f, 1 .. k)
             S == {k \in Nat : P(k)}
  <1>1. P(0)
    <2> DEFINE G == [s \in SUBSET {} |-> 0]
    <2>1. IsSum(G, f, {})
      BY DEF IsSum
    <2>2. 1 .. 0 = {}
      OBVIOUS
    <2> QED
      BY <2>1, <2>2
  <1>2. ASSUME NEW k \in Nat, P(k) PROVE P(k + 1)
    <2> SUFFICES ASSUME k + 1 <= n PROVE \E G : IsSum(G, f, 1 .. k + 1)
      OBVIOUS
    <2>1. PICK G : IsSum(G, f, 1 .. k)
      BY <1>2
    <2>2. \A i \in 1 .. k + 1 : f[i] \in Int
      OBVIOUS
    <2> QED
      BY <2>1, <2>2, SumExtends
  <1> HIDE DEF P
  <1>3. Nat \subseteq S
    <2>1. 0 \in S /\ \A k \in Nat : k \in S => k + 1 \in S
      BY <1>1, <1>2
    <2> HIDE DEF S
    <2> QED
      BY <2>1, NatSetInduction
  <1>4. P(n)
    BY <1>3
  <1> QED
    BY <1>4 DEF P

\* SumFunction takes the members in an order of its own.
LEMMA SumFunctionIsSum ==
  ASSUME NEW n \in Nat, NEW f, DOMAIN f = 1 .. n, NEW G, IsSum(G, f, 1 .. n)
  PROVE  SumFunction(f) = G[1 .. n]
  <1> DEFINE S == 1 .. n
             pick(s) == CHOOSE x \in s : TRUE
             Step(h) == [s \in SUBSET S |->
                           IF s = {} THEN 0 ELSE f[pick(s)] + h[s \ {pick(s)}]]
             iter == CHOOSE h : h = Step(h)
  <1>1. SumFunction(f) = iter[S]
    BY DEF SumFunction, SumFunctionOnSet, FoldFunctionOnSet, MapThenFoldSet
  <1>2. \A s \in SUBSET S : s # {} => pick(s) \in s
    OBVIOUS
  <1>3. G = Step(G)
    <2>1. \A s \in SUBSET S : G[s] = IF s = {} THEN 0 ELSE f[pick(s)] + G[s \ {pick(s)}]
      BY <1>2 DEF IsSum
    <2> QED
      BY <2>1 DEF IsSum
  <1>4. iter = Step(iter)
    BY <1>3
  <1>5. \A s \in SUBSET S : s # {} => iter[s] = f[pick(s)] + iter[s \ {pick(s)}]
    BY <1>4
  <1>6. iter[{}] = 0
    BY <1>4
  <1> HIDE DEF iter
  <1> DEFINE P(k) == \A s \in SUBSET S : Cardinality(s) = k => iter[s] = G[s]
             Ks == {k \in Nat : P(k)}
  <1>7. \A s \in SUBSET S : IsFiniteSet(s) /\ Cardinality(s) \in Nat
    <2>1. IsFiniteSet(S)
      BY FS_Interval
    <2> QED
      BY <2>1, FS_Subset, FS_CardinalityType
  <1>8. P(0)
    <2>1. \A s \in SUBSET S : Cardinality(s) = 0 => s = {}
      BY <1>7, FS_EmptySet
    <2>2. iter[{}] = G[{}]
      BY <1>6 DEF IsSum
    <2> QED
      BY <2>1, <2>2
  <1>9. ASSUME NEW k \in Nat, P(k) PROVE P(k + 1)
    <2> SUFFICES ASSUME NEW s \in SUBSET S, Cardinality(s) = k + 1
                 PROVE  iter[s] = G[s]
      OBVIOUS
    <2>1. s # {}
      BY FS_EmptySet
    <2>2. pick(s) \in s
      BY <2>1, <1>2
    <2> DEFINE y == pick(s)
    <2> HIDE DEF y
    <2>3. s \ {y} \in SUBSET S /\ Cardinality(s \ {y}) = k
      <3>1. y \in s /\ IsFiniteSet(s)
        BY <1>7, <2>2 DEF y
      <3>2. Cardinality(s \ {y}) = Cardinality(s) - 1
        BY <3>1, FS_RemoveElement
      <3>3. (k + 1) - 1 = k
        OBVIOUS
      <3>4. s \ {y} \in SUBSET S
        OBVIOUS
      <3> QED
        BY <3>2, <3>3, <3>4
    <2>4. iter[s \ {y}] = G[s \ {y}]
      BY <1>9, <2>3
    <2>5. iter[s] = f[y] + iter[s \ {y}] /\ G[s] = f[y] + G[s \ {y}]
      BY <1>5, <2>1, <2>2 DEF y, IsSum
    <2> QED
      BY <2>4, <2>5
  <1> HIDE DEF P
  <1>10. Nat \subseteq Ks
    <2>1. 0 \in Ks /\ \A k \in Nat : k \in Ks => k + 1 \in Ks
      BY <1>8, <1>9
    <2> HIDE DEF Ks
    <2> QED
      BY <2>1, NatSetInduction
  <1>11. P(Cardinality(S))
    BY <1>7, <1>10
  <1> QED
    BY <1>1, <1>11 DEF P

\* A sum adds up intervals from the left.
LEMMA SumOfInterval ==
  ASSUME NEW n \in Nat, NEW f, NEW G, IsSum(G, f, 1 .. n)
  PROVE  \A k \in 1 .. n : G[1 .. k] = f[k] + G[1 .. k - 1]
  <1> SUFFICES ASSUME NEW k \in 1 .. n
               PROVE  G[1 .. k] = f[k] + G[1 .. k - 1]
    OBVIOUS
  <1> DEFINE s == 1 .. k
  <1>1. s \in SUBSET (1 .. n) /\ k \in s
    OBVIOUS
  <1>2. s \ {k} = 1 .. k - 1
    OBVIOUS
  <1> HIDE DEF s
  <1>3. G[s] = f[k] + G[s \ {k}]
    BY <1>1 DEF IsSum
  <1> QED
    BY <1>2, <1>3 DEF s

\* There is a sum, and it adds up intervals from the left.
LEMMA SumOfIntervals ==
  ASSUME NEW n \in Nat, NEW f \in [1 .. n -> Int]
  PROVE  \E G : /\ IsSum(G, f, 1 .. n)
                /\ \A k \in 1 .. n : G[1 .. k] = f[k] + G[1 .. k - 1]
  <1>1. PICK G : IsSum(G, f, 1 .. n)
    BY SumExists
  <1>2. \A k \in 1 .. n : G[1 .. k] = f[k] + G[1 .. k - 1]
    BY <1>1, SumOfInterval
  <1> QED
    BY <1>1, <1>2

\* SumFunction is where a running total of f arrives, less where it started.
LEMMA SumOfSteps ==
  ASSUME NEW n \in Nat, NEW f \in [1 .. n -> Int], NEW e \in [0 .. n -> Int],
         \A k \in 1 .. n : e[k] = e[k - 1] + f[k]
  PROVE  SumFunction(f) = e[n] - e[0]
  <1>1. PICK G : /\ IsSum(G, f, 1 .. n)
                 /\ \A k \in 1 .. n : G[1 .. k] = f[k] + G[1 .. k - 1]
    BY SumOfIntervals
  <1>2. SumFunction(f) = G[1 .. n]
    BY <1>1, SumFunctionIsSum
  <1> DEFINE P(k) == k <= n => G[1 .. k] = e[k] - e[0]
             S == {k \in Nat : P(k)}
  <1>3. P(0)
    <2>1. 1 .. 0 = {} /\ 0 \in 0 .. n
      OBVIOUS
    <2>2. G[{}] = 0 /\ e[0] \in Int
      BY <1>1, <2>1 DEF IsSum
    <2> QED
      BY <2>1, <2>2
  <1>4. ASSUME NEW k \in Nat, P(k) PROVE P(k + 1)
    <2> SUFFICES ASSUME k + 1 <= n PROVE G[1 .. k + 1] = e[k + 1] - e[0]
      OBVIOUS
    <2>1. k + 1 \in 1 .. n /\ k \in 0 .. n /\ 0 \in 0 .. n /\ (k + 1) - 1 = k
      OBVIOUS
    <2>2. G[1 .. k + 1] = f[k + 1] + G[1 .. k]
      <3>1. G[1 .. k + 1] = f[k + 1] + G[1 .. (k + 1) - 1]
        BY <1>1, <2>1
      <3> QED
        BY <2>1, <3>1
    <2>3. G[1 .. k] = e[k] - e[0]
      BY <1>4, <2>1
    <2>4. e[k + 1] = e[k] + f[k + 1]
      BY <2>1
    <2>5. e[k] \in Int /\ e[0] \in Int /\ f[k + 1] \in Int
      BY <2>1
    <2> QED
      BY <2>1, <2>2, <2>3, <2>4, <2>5
  <1>5. Nat \subseteq S
    <2>1. 0 \in S /\ \A k \in Nat : k \in S => k + 1 \in S
      BY <1>3, <1>4
    <2> HIDE DEF S
    <2> QED
      BY <2>1, NatSetInduction
  <1> HIDE DEF P
  <1>6. P(n)
    BY <1>5
  <1> QED
    BY <1>2, <1>6 DEF P

\* Every f has a running total.
LEMMA StepsExist ==
  ASSUME NEW n \in Nat, NEW f \in [1 .. n -> Int]
  PROVE  \E e \in [0 .. n -> Int] :
           e[0] = 0 /\ \A k \in 1 .. n : e[k] = e[k - 1] + f[k]
  <1>1. PICK G : /\ IsSum(G, f, 1 .. n)
                 /\ \A k \in 1 .. n : G[1 .. k] = f[k] + G[1 .. k - 1]
    BY SumOfIntervals
  <1> DEFINE e == [k \in 0 .. n |-> G[1 .. k]]
  <1>2. \A k \in 0 .. n : 1 .. k \in SUBSET (1 .. n)
    OBVIOUS
  <1>3. e \in [0 .. n -> Int]
    BY <1>1, <1>2 DEF IsSum
  <1>4. e[0] = 0
    <2>1. 1 .. 0 = {} /\ 0 \in 0 .. n
      OBVIOUS
    <2> QED
      BY <1>1, <2>1 DEF IsSum
  <1>5. ASSUME NEW k \in 1 .. n PROVE e[k] = e[k - 1] + f[k]
    <2>1. k \in 0 .. n /\ k - 1 \in 0 .. n
      OBVIOUS
    <2>2. G[1 .. k] = f[k] + G[1 .. k - 1]
      BY <1>1
    <2>3. e[k - 1] \in Int /\ f[k] \in Int
      BY <1>3, <2>1
    <2> QED
      BY <2>1, <2>2, <2>3
  <1> HIDE DEF e
  <1> QED
    BY <1>3, <1>4, <1>5

LEMMA SumType ==
  ASSUME NEW n \in Nat, NEW f \in [1 .. n -> Int]
  PROVE  SumFunction(f) \in Int
  <1>1. PICK e \in [0 .. n -> Int] : e[0] = 0 /\ \A k \in 1 .. n : e[k] = e[k - 1] + f[k]
    BY StepsExist
  <1>2. SumFunction(f) = e[n] - e[0]
    BY <1>1, SumOfSteps
  <1>3. e[n] \in Int /\ e[0] \in Int
    BY <1>1
  <1> QED
    BY <1>2, <1>3

\* The sum with a number added behind.
LEMMA SumAppended ==
  ASSUME NEW n \in Nat, NEW f \in [1 .. n -> Int], NEW g \in [1 .. n + 1 -> Int],
         \A k \in 1 .. n : g[k] = f[k]
  PROVE  SumFunction(g) = SumFunction(f) + g[n + 1]
  <1>1. PICK e \in [0 .. n + 1 -> Int] :
          e[0] = 0 /\ \A k \in 1 .. n + 1 : e[k] = e[k - 1] + g[k]
    <2>1. n + 1 \in Nat
      OBVIOUS
    <2> QED
      BY <2>1, StepsExist
  <1>2. SumFunction(g) = e[n + 1] - e[0]
    <2>1. n + 1 \in Nat
      OBVIOUS
    <2> QED
      BY <1>1, <2>1, SumOfSteps
  <1> DEFINE d == [k \in 0 .. n |-> e[k]]
  <1>3. d \in [0 .. n -> Int] /\ \A k \in 1 .. n : d[k] = d[k - 1] + f[k]
    BY <1>1
  <1>4. SumFunction(f) = d[n] - d[0]
    <2> HIDE DEF d
    <2> QED
      BY <1>3, SumOfSteps
  <1>5. e[n + 1] = e[n] + g[n + 1] /\ e[n] \in Int /\ g[n + 1] \in Int
    BY <1>1
  <1> QED
    BY <1>1, <1>2, <1>4, <1>5

\* The sum without the number in front.
LEMMA SumBehind ==
  ASSUME NEW n \in Nat, NEW f \in [1 .. n -> Int], NEW g \in [1 .. n + 1 -> Int],
         \A k \in 1 .. n : f[k] = g[k + 1]
  PROVE  SumFunction(g) = g[1] + SumFunction(f)
  <1>1. PICK e \in [0 .. n + 1 -> Int] :
          e[0] = 0 /\ \A k \in 1 .. n + 1 : e[k] = e[k - 1] + g[k]
    <2>1. n + 1 \in Nat
      OBVIOUS
    <2> QED
      BY <2>1, StepsExist
  <1>2. SumFunction(g) = e[n + 1] - e[0]
    <2>1. n + 1 \in Nat
      OBVIOUS
    <2> QED
      BY <1>1, <2>1, SumOfSteps
  <1> DEFINE d == [k \in 0 .. n |-> e[k + 1]]
  <1>3. d \in [0 .. n -> Int]
    BY <1>1
  <1>4. ASSUME NEW k \in 1 .. n PROVE d[k] = d[k - 1] + f[k]
    <2>1. k \in 0 .. n /\ k - 1 \in 0 .. n /\ k + 1 \in 1 .. n + 1 /\ (k + 1) - 1 = (k - 1) + 1
      OBVIOUS
    <2> QED
      BY <1>1, <2>1
  <1>5. SumFunction(f) = d[n] - d[0]
    <2> HIDE DEF d
    <2> QED
      BY <1>3, <1>4, SumOfSteps
  <1>6. d[n] = e[n + 1] /\ d[0] = e[1] /\ e[1] = e[0] + g[1] /\ e[n + 1] \in Int /\ g[1] \in Int
    BY <1>1
  <1> QED
    BY <1>1, <1>2, <1>5, <1>6
-----------------------------------------------------------------------------
\* The connection: types, and what the callback reads.
Sends == [page : Pages, count : 1 .. BufferSize]

LEMMA Facts ==
  ASSUME TypeOK
  PROVE  /\ BufferSize \in Nat \ {0}
         /\ response.head \in Nat /\ response.body \in Nat /\ position \in Nat
         /\ page \in Pages /\ firstRead \in BOOLEAN /\ connected \in BOOLEAN
         /\ overlapped \in BOOLEAN
         /\ buffer \in [Pages -> [1 .. BufferSize -> Bytes]]
         /\ pending \in Seq(Sends) /\ Len(pending) \in Nat
         /\ DOMAIN pending = 1 .. Len(pending)
         /\ \A k \in DOMAIN pending : pending[k] \in Sends
         /\ wire \in Seq(Bytes) /\ Len(wire) \in Nat /\ DOMAIN wire = 1 .. Len(wire)
         /\ \A k \in DOMAIN wire : wire[k] \in Bytes
  <1>1. response \in Responses \cup {ErrorPage, NoResponse}
    BY DEF TypeOK
  <1>2. response.head \in Nat /\ response.body \in Nat
    BY <1>1, ResponseAssumption DEF ErrorPage, NoResponse
  <1>3. /\ pending \in Seq(Sends) /\ Len(pending) \in Nat
        /\ DOMAIN pending = 1 .. Len(pending)
        /\ wire \in Seq(Bytes) /\ Len(wire) \in Nat /\ DOMAIN wire = 1 .. Len(wire)
    BY LenProperties DEF TypeOK, Sends
  <1> QED
    BY <1>2, <1>3, ElementOfSeq, ResponseAssumption DEF TypeOK

LEMMA ZerosType == Zeros \in [1 .. BufferSize -> Bytes]
  BY DEF Zeros, Bytes

LEMMA SendTransmits ==
  ASSUME TypeOK, Transmit
  PROVE  /\ Head(pending) = pending[1] /\ pending[1] \in Sends
         /\ Tail(pending) \in Seq(Sends) /\ Len(Tail(pending)) = Len(pending) - 1
         /\ \A k \in 1 .. Len(pending) - 1 : Tail(pending)[k] = pending[k + 1]
         /\ wire' \in Seq(Bytes) /\ Len(wire') = Len(wire) + pending[1].count
         /\ \A k \in 1 .. Len(wire) : wire'[k] = wire[k]
         /\ \A k \in 1 .. pending[1].count :
              wire'[Len(wire) + k] = buffer[pending[1].page][k]
  <1>1. pending # <<>> /\ Len(pending) \in Nat \ {0}
    BY Facts, EmptySeq DEF Transmit
  <1>2. Head(pending) = pending[1] /\ pending[1] \in Sends
    BY <1>1, Facts
  <1>3. /\ Tail(pending) \in Seq(Sends) /\ Len(Tail(pending)) = Len(pending) - 1
        /\ \A k \in 1 .. Len(pending) - 1 : Tail(pending)[k] = pending[k + 1]
    BY <1>1, Facts, HeadTailProperties
  <1> DEFINE c == pending[1].count
             array == buffer[pending[1].page]
             sent == SubSeq(array, 1, c)
  <1>4. c \in 1 .. BufferSize /\ pending[1].page \in Pages
    BY <1>2 DEF Sends
  <1>5. \A i \in 1 .. c : array[i] \in Bytes
    <2>1. array \in [1 .. BufferSize -> Bytes]
      BY <1>4, Facts
    <2> HIDE DEF array, c
    <2>2. \A i \in 1 .. c : i \in 1 .. BufferSize
      BY <1>4, Facts
    <2> QED
      BY <2>1, <2>2
  <1>6. wire' = wire \o sent
    BY <1>2 DEF Transmit
  <1> HIDE DEF c, array
  <1>7. 1 \in Int /\ c \in Int /\ c >= 1
    BY <1>4, Facts
  <1>8. /\ sent \in Seq(Bytes) /\ Len(sent) = IF 1 <= c THEN c - 1 + 1 ELSE 0
        /\ \A i \in 1 .. c - 1 + 1 : sent[i] = array[1 + i - 1]
    BY <1>5, <1>7, SubSeqProperties
  <1>9. Len(sent) = c /\ \A i \in 1 .. c : sent[i] = array[i]
    BY <1>7, <1>8
  <1> HIDE DEF sent
  <1>10. /\ wire \o sent \in Seq(Bytes) /\ Len(wire \o sent) = Len(wire) + Len(sent)
         /\ \A i \in 1 .. Len(wire) + Len(sent) :
              (wire \o sent)[i] = IF i <= Len(wire) THEN wire[i] ELSE sent[i - Len(wire)]
    BY <1>8, Facts, ConcatProperties
  <1>11. ASSUME NEW k \in 1 .. c PROVE wire'[Len(wire) + k] = array[k]
    <2>1. /\ Len(wire) + k \in 1 .. Len(wire) + Len(sent) /\ ~(Len(wire) + k <= Len(wire))
          /\ (Len(wire) + k) - Len(wire) = k
      BY <1>7, <1>9, Facts
    <2> QED
      BY <1>6, <1>9, <1>10, <2>1
  <1>12. \A k \in 1 .. Len(wire) : wire'[k] = wire[k]
    BY <1>6, <1>7, <1>9, <1>10, Facts
  <1> QED
    BY <1>2, <1>3, <1>6, <1>9, <1>10, <1>11, <1>12 DEF c, array

LEMMA RouteInit == Init => TypeOK /\ StreamIndInv /\ ReadInv /\ OutputInv
  <1> SUFFICES ASSUME Init PROVE TypeOK /\ StreamIndInv /\ ReadInv /\ OutputInv
    OBVIOUS
  <1>1. StreamIndInv
    BY StreamInitInv DEF Init
  <1>2. pending = <<>> /\ wire = <<>> /\ pending \in Seq(Sends) /\ wire \in Seq(Bytes)
        /\ Len(wire) = 0 /\ Len(pending) = 0 /\ DOMAIN pending = {}
    BY EmptySeq, LenProperties DEF Init
  <1>3. buffer \in [Pages -> [1 .. BufferSize -> Bytes]]
    BY ZerosType DEF Init
  <1>4. TypeOK
    <2>1. /\ pc = "receiving" /\ connected = TRUE /\ response = NoResponse /\ page = "site"
          /\ firstRead = TRUE /\ position = 0 /\ overlapped = FALSE
      BY DEF Init
    <2>2. position \in 0 .. response.body
      BY <2>1 DEF NoResponse
    <2> QED
      BY <1>1, <1>2, <1>3, <2>1, <2>2 DEF TypeOK, StreamIndInv, Pages, Sends
  <1>5. ReadInv
    BY <1>2 DEF Init, ReadInv, StreamInit
  <1>6. PICK r \in Responses : TRUE
    BY ResponseAssumption
  <1>7. Sent(r, 0, 0)
    BY <1>2 DEF Sent
  <1>8. UpToDate(r, 0, 0)
    BY <1>2 DEF UpToDate, Init
  <1>9. Len(Site(r)) \in Nat /\ Len(Error) \in Nat
    BY SiteProperties, ErrorProperties, LenProperties
  <1>10. OutputInv
    BY <1>7, <1>8, <1>9 DEF OutputInv
  <1> QED
    BY <1>1, <1>4, <1>5, <1>10

\* What is read of the response, and into which array.
LEMMA ReadType ==
  ASSUME TypeOK, Read
  PROVE  /\ buffer' \in [Pages -> [1 .. BufferSize -> Bytes]]
         /\ firstRead' = FALSE /\ page' = page /\ response' = response
         /\ position' = IF firstRead THEN 0 ELSE position + Len(Chunk)
         /\ position' \in 0 .. response.body
  <1>1. position' \in 0 .. response.body
    BY Facts, ChunkProperties DEF Read
  <1> QED
    BY <1>1, FilledProperties DEF Read

LEMMA SendResponseType ==
  ASSUME NEW p \in Pages, NEW r \in Responses \cup {ErrorPage},
         NEW arrays \in [Pages -> [1 .. BufferSize -> Bytes]], SendResponse(p, r, arrays)
  PROVE  /\ page' = p /\ response' = r /\ firstRead' = TRUE /\ position' = 0
         /\ position' \in 0 .. response'.body
         /\ buffer' \in [Pages -> [1 .. BufferSize -> Bytes]]
         /\ \A q \in Pages : q # p => buffer'[q] = arrays[q]
  <1>1. r.body \in Nat
    BY ResponseAssumption DEF ErrorPage
  <1>2. Zeros \in [1 .. BufferSize -> Bytes]
    BY ZerosType
  <1> HIDE DEF Zeros
  <1> QED
    BY <1>1, <1>2 DEF SendResponse

LEMMA SendAppends ==
  ASSUME TypeOK, SendChunk, connected
  PROVE  /\ Len(Chunk) \in 1 .. BufferSize
         /\ pending' \in Seq(Sends) /\ Len(pending') = Len(pending) + 1
         /\ \A k \in 1 .. Len(pending) : pending'[k] = pending[k]
         /\ pending'[Len(pending) + 1] = [page |-> page, count |-> Len(Chunk)]
  <1>1. Len(Chunk) \in 1 .. BufferSize
    <2>1. Chunk \in Seq(Bytes) /\ Chunk # <<>> /\ Len(Chunk) \in 0 .. BufferSize
      BY ChunkProperties DEF SendChunk
    <2> QED
      BY <2>1, EmptySeq, Facts
  <1> DEFINE s == [page |-> page, count |-> Len(Chunk)]
  <1>2. s \in Sends
    BY <1>1, Facts DEF Sends
  <1>3. pending' = Append(pending, s)
    BY DEF SendChunk
  <1> HIDE DEF s
  <1>4. /\ Append(pending, s) \in Seq(Sends)
        /\ Len(Append(pending, s)) = Len(pending) + 1
        /\ \A k \in 1 .. Len(pending) : Append(pending, s)[k] = pending[k]
        /\ Append(pending, s)[Len(pending) + 1] = s
    BY <1>2, Facts, AppendProperties
  <1> QED
    BY <1>1, <1>3, <1>4 DEF s

LEMMA RouteStream ==
  ASSUME IndInv, [Next]_vars
  PROVE  StreamIndInv'
  <1>1. StreamIndInv
    BY DEF IndInv
  <1>2. ASSUME NEW count \in 1 .. Size, Write(count) PROVE StreamIndInv'
    BY <1>1, <1>2, StreamWrite
  <1>3. UNCHANGED streamVars => StreamIndInv'
    BY <1>1, StreamUnchanged
  <1>4. (\E count \in 1 .. Size : Write(count)) \/ UNCHANGED streamVars
    BY DEF Next, vars, DataReceived, HeadersNull, Respond, RespondError, SendChunk, SendThrows,
           EndResponse, CloseThrows, Disconnect, DisconnectThrows,
           Transmit, Cancel, ClientCloses, Done
  <1> QED
    BY <1>2, <1>3, <1>4

LEMMA RouteTypeOK ==
  ASSUME IndInv, [Next]_vars
  PROVE  TypeOK'
  <1>0. TypeOK /\ StreamTypeOK'
    BY RouteStream DEF IndInv, StreamIndInv
  <1>1. ASSUME UNCHANGED <<readVars, pending, overlapped, wire>>, connected' \in BOOLEAN,
               pc' \in {"receiving", "finding", "sending", "disconnecting", "closed", "crashed"}
        PROVE  TypeOK'
    BY <1>0, <1>1 DEF TypeOK, readVars
  <1>2. ASSUME NEW count \in 1 .. Size, DataReceived(count) PROVE TypeOK'
    <2>1. /\ UNCHANGED <<readVars, pending, overlapped, wire>> /\ connected' = connected
          /\ pc' \in {"receiving", "finding", "crashed"}
      BY <1>2 DEF DataReceived, Goto
    <2> QED
      BY <1>0, <1>1, <2>1 DEF TypeOK
  <1>3. CASE \/ HeadersNull \/ EndResponse \/ Disconnect \/ DisconnectThrows
             \/ ClientCloses \/ Done \/ UNCHANGED vars
    <2>1. /\ UNCHANGED <<readVars, pending, overlapped, wire>> /\ connected' \in BOOLEAN
          /\ pc' \in {pc, "crashed", "disconnecting", "closed"}
      BY <1>0, <1>3
         DEF HeadersNull, EndResponse, Disconnect, DisconnectThrows, ClientCloses, Done,
             vars, Goto, TypeOK
    <2> QED
      BY <1>0, <1>1, <2>1 DEF TypeOK
  <1>4. CASE Respond
    <2>1. PICK r \in Responses : SendResponse("site", r, buffer)
      BY <1>4 DEF Respond
    <2>2. /\ page' = "site" /\ response' = r /\ firstRead' = TRUE
          /\ position' \in 0 .. response'.body
          /\ buffer' \in [Pages -> [1 .. BufferSize -> Bytes]]
      BY <1>0, <2>1, Facts, SendResponseType DEF Pages
    <2>3. /\ pc' = "sending" /\ connected' = connected /\ pending' = pending
          /\ overlapped' = overlapped /\ wire' = wire
      BY <1>4 DEF Respond, Goto
    <2> QED
      BY <1>0, <2>2, <2>3 DEF TypeOK, Pages
  <1>5. CASE RespondError \/ CloseThrows
    <2>1. SendResponse("error", ErrorPage, buffer)
      BY <1>5 DEF RespondError, CloseThrows
    <2>2. /\ page' = "error" /\ response' = ErrorPage /\ firstRead' = TRUE
          /\ position' \in 0 .. response'.body
          /\ buffer' \in [Pages -> [1 .. BufferSize -> Bytes]]
      BY <1>0, <2>1, Facts, SendResponseType DEF Pages
    <2>3. /\ pc' = "sending" /\ connected' = connected /\ pending' = pending
          /\ overlapped' = overlapped /\ wire' = wire
      BY <1>5 DEF RespondError, CloseThrows, Goto
    <2> QED
      BY <1>0, <2>2, <2>3 DEF TypeOK, Pages
  <1>6. CASE SendChunk
    <2>1. /\ buffer' \in [Pages -> [1 .. BufferSize -> Bytes]]
          /\ firstRead' = FALSE /\ page' = page /\ response' = response
          /\ position' \in 0 .. response.body
      BY <1>0, <1>6, ReadType DEF SendChunk
    <2>2. connected => pending' \in Seq(Sends)
      BY <1>0, <1>6, SendAppends
    <2>3. pending' \in Seq(Sends)
      BY <1>0, <1>6, <2>2, Facts DEF SendChunk
    <2>4. /\ pc' = "sending" /\ connected' = connected /\ wire' = wire
          /\ overlapped' \in BOOLEAN
      BY <1>0, <1>6 DEF SendChunk, Goto, Overlaps, TypeOK
    <2> QED
      BY <1>0, <2>1, <2>3, <2>4 DEF TypeOK, Sends
  <1>7. CASE SendThrows
    <2>1. /\ buffer' \in [Pages -> [1 .. BufferSize -> Bytes]]
          /\ firstRead' \in BOOLEAN /\ page' \in Pages /\ response' \in Responses \cup {ErrorPage, NoResponse}
          /\ position' \in 0 .. response'.body
          /\ pc' \in {"sending", "crashed"}
      <3>1. CASE page = "site"
        <4>1. SendResponse("error", ErrorPage, Filled) /\ pc' = "sending"
          BY <1>7, <3>1 DEF SendThrows, Goto
        <4>2. /\ page' = "error" /\ response' = ErrorPage /\ firstRead' = TRUE
              /\ position' \in 0 .. response'.body
              /\ buffer' \in [Pages -> [1 .. BufferSize -> Bytes]]
          BY <1>0, <4>1, FilledProperties, SendResponseType DEF Pages
        <4> QED
          BY <4>1, <4>2 DEF Pages
      <3>2. CASE page # "site"
        <4>1. Read /\ pc' = "crashed"
          BY <1>7, <3>2 DEF SendThrows, Goto
        <4> QED
          BY <1>0, <4>1, ReadType DEF TypeOK
      <3> QED
        BY <3>1, <3>2
    <2>2. /\ connected' = connected /\ wire' = wire /\ pending' = pending
          /\ overlapped' \in BOOLEAN
      BY <1>0, <1>7 DEF SendThrows, Overlaps, TypeOK
    <2> QED
      BY <1>0, <2>1, <2>2 DEF TypeOK
  <1>8. CASE Transmit
    <2>1. wire' \in Seq(Bytes) /\ pending' \in Seq(Sends)
      BY <1>0, <1>8, SendTransmits DEF Transmit
    <2> QED
      BY <1>0, <1>8, <2>1 DEF Transmit, TypeOK, readVars, Sends
  <1>9. CASE Cancel
    BY <1>0, <1>9, EmptySeq DEF Cancel, TypeOK, readVars
  <1> QED
    BY <1>2, <1>3, <1>4, <1>5, <1>6, <1>7, <1>8, <1>9 DEF Next

LEMMA RouteReadInv ==
  ASSUME TypeOK, ReadInv, [Next]_vars
  PROVE  ReadInv'
  <1>1. ASSUME NEW count \in 1 .. Size, DataReceived(count) PROVE ReadInv'
    <2>1. pc = "receiving" /\ ~headersRead
          /\ page = "site" /\ firstRead /\ pending = <<>> /\ wire = <<>>
      BY <1>1 DEF DataReceived, Goto, ReadInv
    <2>2. /\ page' = page /\ firstRead' = firstRead /\ pending' = pending /\ wire' = wire
          /\ response' = response
          /\ pc' \in {"receiving", "finding", "crashed"}
          /\ pc' = "receiving" => ~headersRead'
      BY <1>1 DEF DataReceived, Goto, readVars
    <2> QED
      BY <2>1, <2>2, EmptySeq DEF ReadInv
  <1>2. CASE HeadersNull \/ EndResponse \/ Disconnect \/ DisconnectThrows \/ ClientCloses
    <2>1. /\ UNCHANGED <<readVars, pending, wire>>
          /\ pc' \in {"crashed", "disconnecting", "closed"}
      BY <1>2 DEF HeadersNull, EndResponse, Disconnect, DisconnectThrows, ClientCloses, Goto
    <2> QED
      BY <2>1 DEF ReadInv, readVars
  <1>3. CASE Done \/ UNCHANGED vars
    <2>1. UNCHANGED vars
      BY <1>3 DEF Done
    <2> QED
      BY <2>1 DEF ReadInv, vars, readVars, streamVars
  <1>4. CASE Respond
    <2>1. PICK r \in Responses : SendResponse("site", r, buffer)
      BY <1>4 DEF Respond
    <2>2. page' = "site" /\ response' = r
      BY <2>1 DEF SendResponse
    <2>3. pc = "finding" /\ pc' = "sending" /\ pending' = pending
      BY <1>4 DEF Respond, Goto
    <2>4. DOMAIN pending = {}
      BY <2>3, EmptySeq, LenProperties DEF ReadInv
    <2> QED
      BY <2>2, <2>3, <2>4 DEF ReadInv
  <1>5. CASE RespondError \/ CloseThrows
    <2>1. page' = "error" /\ response' = ErrorPage /\ pc' = "sending"
      BY <1>5 DEF RespondError, CloseThrows, SendResponse, Goto
    <2> QED
      BY <2>1 DEF ReadInv
  <1>6. CASE SendChunk
    <2>1. /\ page' = page /\ response' = response /\ pc = "sending" /\ pc' = "sending"
      BY <1>6 DEF SendChunk, Read, Goto
    <2>2. ASSUME page = "site", NEW k \in DOMAIN pending' PROVE pending'[k].page = "site"
      <3>1. CASE connected
        <4>1. /\ pending' \in Seq(Sends) /\ Len(pending') = Len(pending) + 1
              /\ \A i \in 1 .. Len(pending) : pending'[i] = pending[i]
              /\ pending'[Len(pending) + 1] = [page |-> page, count |-> Len(Chunk)]
          BY <1>6, <3>1, SendAppends
        <4>2. k \in 1 .. Len(pending) + 1
          BY <2>2, <4>1, LenProperties
        <4>3. CASE k \in 1 .. Len(pending)
          BY <2>2, <4>1, <4>3, Facts DEF ReadInv
        <4>4. CASE k = Len(pending) + 1
          BY <2>2, <4>1, <4>4
        <4> QED
          BY <4>2, <4>3, <4>4, Facts
      <3>2. CASE ~connected
        BY <1>6, <2>2, <3>2 DEF SendChunk, ReadInv
      <3> QED
        BY <3>1, <3>2
    <2>3. page' = "site" => response' \in Responses
      BY <2>1 DEF ReadInv
    <2> QED
      BY <2>1, <2>2, <2>3, Facts DEF ReadInv, Pages
  <1>7. CASE SendThrows
    <2>1. CASE page = "site"
      BY <1>7, <2>1 DEF SendThrows, Goto, SendResponse, ReadInv
    <2>2. CASE page # "site"
      BY <1>7, <2>2 DEF SendThrows, Goto, Read, ReadInv
    <2> QED
      BY <2>1, <2>2
  <1>8. CASE Transmit
    <2>1. /\ pc' = pc /\ page' = page /\ response' = response /\ firstRead' = firstRead
          /\ headersRead' = headersRead /\ pending # <<>>
      BY <1>8 DEF Transmit, readVars, streamVars
    <2>2. ASSUME page = "site", NEW k \in DOMAIN pending' PROVE pending'[k].page = "site"
      <3>1. /\ pending' \in Seq(Sends) /\ Len(pending') = Len(pending) - 1
            /\ \A i \in 1 .. Len(pending) - 1 : pending'[i] = pending[i + 1]
        BY <1>8, SendTransmits DEF Transmit
      <3>2. k \in 1 .. Len(pending) - 1
        BY <2>2, <3>1, LenProperties
      <3>3. k + 1 \in DOMAIN pending
        BY <3>2, Facts
      <3> QED
        BY <2>2, <3>1, <3>2, <3>3 DEF ReadInv
    <2> QED
      BY <2>1, <2>2 DEF ReadInv
  <1>9. CASE Cancel
    <2>1. /\ pc' = pc /\ page' = page /\ response' = response /\ firstRead' = firstRead
          /\ headersRead' = headersRead /\ pending # <<>> /\ pending' = <<>>
      BY <1>9 DEF Cancel, readVars, streamVars
    <2>2. DOMAIN pending' = {}
      BY <2>1, EmptySeq, LenProperties
    <2> QED
      BY <2>1, <2>2 DEF ReadInv
  <1> QED
    BY <1>1, <1>2, <1>3, <1>4, <1>5, <1>6, <1>7, <1>8, <1>9 DEF Next

LEMMA RouteWritesOnlyWhileReceiving ==
  ASSUME ReadInv, [Next]_vars, headersRead
  PROVE  received' = received
  <1>1. pc # "receiving"
    BY DEF ReadInv
  <1>2. UNCHANGED streamVars
    BY <1>1
       DEF Next, vars, DataReceived, HeadersNull, Respond, RespondError, SendChunk, SendThrows,
           EndResponse, CloseThrows, Disconnect, DisconnectThrows,
           Transmit, Cancel, ClientCloses, Done, Goto
  <1> QED
    BY <1>2 DEF streamVars
-----------------------------------------------------------------------------
\* The connection: what leaves for the client.

LEMMA OutputUnchanged ==
  ASSUME OutputInv, UNCHANGED <<pending, wire, overlapped, readVars>>,
         connected' /\ pc' \in {"receiving", "finding", "sending"} =>
           connected /\ pc \in {"receiving", "finding", "sending"}
  PROVE  OutputInv'
  <1>1. /\ pending' = pending /\ wire' = wire /\ overlapped' = overlapped
        /\ response' = response /\ page' = page /\ firstRead' = firstRead
        /\ position' = position /\ buffer' = buffer
    BY DEF readVars
  <1>2. ASSUME NEW r, NEW n, NEW m, Sent(r, n, m) PROVE Sent(r, n, m)'
    BY <1>1, <1>2 DEF Sent
  <1>3. ASSUME NEW r, NEW n, NEW m, UpToDate(r, n, m) PROVE UpToDate(r, n, m)'
    BY <1>1, <1>3 DEF UpToDate
  <1> QED
    BY <1>1, <1>2, <1>3 DEF OutputInv

\* An array that no send uses may be written to.
LEMMA SentUnchanged ==
  ASSUME TypeOK, NEW r \in Responses, NEW n \in Nat, NEW m \in Nat, Sent(r, n, m),
         pending' = pending, wire' = wire,
         \A k \in DOMAIN pending : buffer'[pending[k].page] = buffer[pending[k].page]
  PROVE  Sent(r, n, m)'
  <1>1. /\ Len(wire') <= n + m
        /\ \A k \in 1 .. Len(wire') : wire'[k] = IF k <= n THEN Site(r)[k] ELSE Error[k - n]
    BY DEF Sent
  <1>2. ASSUME NEW k \in DOMAIN pending
        PROVE  LET s == pending'[k] IN
               \/ /\ s.page = "site" /\ k = 1 /\ s.count <= n
                  /\ \A i \in 1 .. s.count : buffer'["site"][i] = Site(r)[n - s.count + i]
                  /\ Len(wire') = n - s.count
                  /\ m # 0 => Len(pending') = 2
               \/ /\ s.page = "error" /\ k = Len(pending') /\ s.count = m
                  /\ \A i \in 1 .. m : buffer'["error"][i] = Error[i]
                  /\ k = 1 => Len(wire') = n
    <2>1. CASE pending[k].page = "site"
      BY <1>2, <2>1 DEF Sent
    <2>2. CASE pending[k].page # "site"
      BY <1>2, <2>2 DEF Sent
    <2> QED
      BY <2>1, <2>2
  <1> QED
    BY <1>1, <1>2 DEF Sent

\* While a website's response is read and no array is overwritten, the last
\* chunk has left before the next is read.
LEMMA SiteNothingPending ==
  ASSUME TypeOK, ReadInv, page = "site", ~Overlaps
  PROVE  pending = <<>> /\ DOMAIN pending = {}
  <1>1. \A k \in DOMAIN pending : FALSE
    BY DEF ReadInv, Overlaps
  <1>2. pending \in Seq(Sends) /\ Len(pending) \in Nat /\ DOMAIN pending = 1 .. Len(pending)
    BY Facts
  <1>3. Len(pending) = 0
    <2>1. 1 \notin 1 .. Len(pending)
      BY <1>1, <1>2
    <2> QED
      BY <1>2, <2>1
  <1> QED
    BY <1>1, <1>2, <1>3, EmptySeq

\* One more send has left.
LEMMA TransmitSent ==
  ASSUME TypeOK, Transmit, NEW r \in Responses, NEW n \in 0 .. Len(Site(r)), NEW m \in Nat,
         Sent(r, n, m)
  PROVE  /\ Sent(r, n, m)'
         /\ pending' = <<>> => Len(wire') = n + m
  <1> DEFINE c == pending[1].count
  <1>1. /\ pending[1] \in Sends /\ c \in 1 .. BufferSize /\ c \in Nat \ {0}
        /\ pending' \in Seq(Sends) /\ Len(pending') = Len(pending) - 1
        /\ DOMAIN pending' = 1 .. Len(pending) - 1
        /\ \A k \in 1 .. Len(pending) - 1 : pending'[k] = pending[k + 1]
        /\ Len(wire') = Len(wire) + c
        /\ \A k \in 1 .. Len(wire) : wire'[k] = wire[k]
        /\ \A k \in 1 .. c : wire'[Len(wire) + k] = buffer[pending[1].page][k]
        /\ buffer' = buffer
    <2>1. pending' = Tail(pending) /\ buffer' = buffer
      BY DEF Transmit, readVars
    <2>2. /\ pending[1] \in Sends
          /\ pending' \in Seq(Sends) /\ Len(pending') = Len(pending) - 1
          /\ \A k \in 1 .. Len(pending) - 1 : pending'[k] = pending[k + 1]
          /\ Len(wire') = Len(wire) + c
          /\ \A k \in 1 .. Len(wire) : wire'[k] = wire[k]
          /\ \A k \in 1 .. c : wire'[Len(wire) + k] = buffer[pending[1].page][k]
      BY <2>1, SendTransmits
    <2>3. c \in 1 .. BufferSize /\ c \in Nat \ {0}
      BY <2>2, Facts DEF Sends
    <2>4. DOMAIN pending' = 1 .. Len(pending) - 1
      BY <2>2, LenProperties
    <2> QED
      BY <2>1, <2>2, <2>3, <2>4
  <1>2. /\ Len(wire) \in Nat /\ Len(pending) \in Nat \ {0} /\ 1 \in DOMAIN pending
        /\ DOMAIN pending = 1 .. Len(pending) /\ n \in Nat
    <2>1. Len(pending) # 0
      BY Facts, EmptySeq DEF Transmit
    <2>2. n \in Nat
      BY SiteProperties, LenProperties
    <2> QED
      BY <2>1, <2>2, Facts
  <1>3. /\ Len(wire) <= n + m
        /\ \A k \in 1 .. Len(wire) : wire[k] = IF k <= n THEN Site(r)[k] ELSE Error[k - n]
    BY DEF Sent
  <1>4. ASSUME NEW k \in 1 .. Len(wire) + c, k > Len(wire)
        PROVE  /\ k - Len(wire) \in 1 .. c
               /\ wire'[k] = buffer[pending[1].page][k - Len(wire)]
    <2>1. k - Len(wire) \in 1 .. c /\ Len(wire) + (k - Len(wire)) = k
      BY <1>1, <1>2, <1>4
    <2> QED
      BY <1>1, <2>1
  <1>5. CASE pending[1].page = "site"
    <2>1. /\ c <= n /\ Len(wire) = n - c
          /\ \A i \in 1 .. c : buffer["site"][i] = Site(r)[n - c + i]
          /\ m # 0 => Len(pending) = 2
      BY <1>2, <1>5 DEF Sent
    <2> HIDE DEF c
    <2>2. Len(wire') = n
      BY <1>1, <1>2, <2>1
    <2>3. \A k \in 1 .. n : wire'[k] = Site(r)[k]
      <3> SUFFICES ASSUME NEW k \in 1 .. n PROVE wire'[k] = Site(r)[k]
        OBVIOUS
      <3>1. CASE k <= Len(wire)
        <4>1. k \in 1 .. Len(wire) /\ k <= n
          BY <1>2, <3>1
        <4> QED
          BY <1>1, <1>3, <4>1
      <3>2. CASE k > Len(wire)
        <4>1. k \in 1 .. Len(wire) + c
          BY <1>1, <1>2, <2>1
        <4>2. /\ k - Len(wire) \in 1 .. c
              /\ wire'[k] = buffer["site"][k - Len(wire)]
          BY <1>4, <1>5, <3>2, <4>1
        <4>3. n - c + (k - Len(wire)) = k
          BY <1>1, <1>2, <2>1
        <4> QED
          BY <2>1, <4>2, <4>3
      <3> QED
        BY <1>2, <3>1, <3>2
    <2>4. ASSUME NEW k \in DOMAIN pending'
          PROVE  /\ pending'[k].page = "error" /\ k = Len(pending') /\ pending'[k].count = m
                 /\ \A i \in 1 .. m : buffer'["error"][i] = Error[i]
      <3>1. k \in 1 .. Len(pending) - 1
        BY <1>1
      <3>2. k + 1 \in DOMAIN pending /\ k + 1 # 1 /\ pending'[k] = pending[k + 1]
        BY <1>1, <1>2, <3>1
      <3>3. /\ pending[k + 1].page = "error" /\ k + 1 = Len(pending) /\ pending[k + 1].count = m
            /\ \A i \in 1 .. m : buffer["error"][i] = Error[i]
        BY <3>2 DEF Sent
      <3> QED
        BY <1>1, <1>2, <3>1, <3>2, <3>3
    <2>5. Sent(r, n, m)'
      <3>1. Len(wire') <= n + m
        BY <1>2, <2>2
      <3>2. \A k \in 1 .. Len(wire') :
              wire'[k] = IF k <= n THEN Site(r)[k] ELSE Error[k - n]
        BY <1>2, <2>2, <2>3
      <3> QED
        BY <2>2, <2>4, <3>1, <3>2 DEF Sent
    <2>6. pending' = <<>> => Len(wire') = n + m
      <3> SUFFICES ASSUME pending' = <<>> PROVE Len(wire') = n + m
        OBVIOUS
      <3>1. Len(pending') = 0
        BY EmptySeq
      <3>2. Len(pending) # 2
        <4>1. Len(pending') = Len(pending) - 1
          BY <1>1
        <4> QED
          BY <3>1, <4>1
      <3>3. m = 0
        BY <2>1, <3>2
      <3> QED
        BY <1>2, <2>2, <3>3
    <2> QED
      BY <2>5, <2>6
  <1>6. CASE pending[1].page = "error"
    <2>1. /\ 1 = Len(pending) /\ c = m /\ Len(wire) = n
          /\ \A i \in 1 .. m : buffer["error"][i] = Error[i]
      BY <1>2, <1>6 DEF Sent
    <2> HIDE DEF c
    <2>2. Len(wire') = n + m /\ DOMAIN pending' = {}
      <3>1. Len(pending) - 1 = 0
        <4>1. Len(pending) = 1
          BY <2>1
        <4> QED
          BY <4>1
      <3>2. DOMAIN pending' = {}
        <4>1. DOMAIN pending' = 1 .. 0
          BY <1>1, <3>1, Zenon
        <4> QED
          BY <4>1
      <3> QED
        BY <1>1, <2>1, <3>2
    <2>3. ASSUME NEW k \in 1 .. Len(wire')
          PROVE  wire'[k] = IF k <= n THEN Site(r)[k] ELSE Error[k - n]
      <3>1. CASE k <= Len(wire)
        <4>1. k \in 1 .. Len(wire)
          BY <1>2, <3>1
        <4> QED
          BY <1>1, <1>3, <4>1
      <3>2. CASE k > Len(wire)
        <4>1. k \in 1 .. Len(wire) + c
          BY <2>1, <2>2
        <4>2. /\ k - Len(wire) \in 1 .. c
              /\ wire'[k] = buffer["error"][k - Len(wire)]
          BY <1>4, <1>6, <3>2, <4>1
        <4> QED
          BY <1>2, <2>1, <3>2, <4>2
      <3> QED
        BY <1>2, <2>2, <3>1, <3>2
    <2>4. Sent(r, n, m)'
      BY <1>2, <2>2, <2>3 DEF Sent
    <2> QED
      BY <2>2, <2>4
  <1> QED
    BY <1>1, <1>5, <1>6 DEF Sends, Pages

\* A chunk of the website's response is given to SendData.
LEMMA SiteChunkSent ==
  ASSUME TypeOK, ReadInv, SendChunk, connected, page = "site", ~Overlaps,
         NEW r \in Responses, NEW n \in 0 .. Len(Site(r)), NEW m \in Nat,
         Sent(r, n, m), UpToDate(r, n, m)
  PROVE  \E k \in 0 .. Len(Site(response)) : Sent(response, k, 0)' /\ UpToDate(response, k, 0)'
  <1> DEFINE c == Len(Chunk)
             h == Fits(response.head)
  <1>1. /\ pc = "sending" /\ pc' = "sending" /\ Read /\ wire' = wire /\ connected' = connected
    BY DEF SendChunk, Goto
  <1>2. /\ response \in Responses
        /\ h \in Nat \ {0} /\ response.body \in Nat
        /\ Min({BufferSize, response.head}) = h
        /\ Len(Site(response)) = h + response.body
        /\ \A i \in 1 .. h : Site(response)[i] = <<"site", i>>
        /\ \A i \in 1 .. response.body : Site(response)[h + i] = <<"body", i>>
    <2>1. response \in Responses
      BY <1>1 DEF ReadInv
    <2>2. Fits(response.head) \in Nat \ {0}
      BY <2>1, SiteProperties, Facts
    <2>3. BufferSize \in Int /\ response.head \in Int
      BY Facts
    <2>4. Min({BufferSize, response.head}) = h
      BY <2>3, MinOfTwo DEF Fits
    <2> QED
      BY <2>1, <2>2, <2>4, SiteProperties
  <1>3. /\ c \in Nat \ {0}
        /\ c = IF firstRead THEN h ELSE Fits(response.body - position)
        /\ ~firstRead => position + c <= response.body
        /\ \A i \in 1 .. c : Chunk[i] = IF firstRead THEN <<"site", i>> ELSE <<"body", position + i>>
    <2>1. c \in Nat \ {0}
      BY SendAppends, Facts
    <2> QED
      BY <2>1, ChunkProperties
  <1>4. pending = <<>> /\ Len(pending) = 0
    BY SiteNothingPending, EmptySeq
  <1>5. /\ m = 0 /\ Len(wire) = n + m
        /\ firstRead => n = 0
        /\ ~firstRead => r = response /\ n = h + position
    <2>1. /\ m = 0 /\ Len(wire) = n + m
          /\ firstRead => n = 0
          /\ ~firstRead => r = response /\ n = Min({BufferSize, r.head}) + position
      BY <1>1, <1>4 DEF UpToDate
    <2> QED
      BY <1>2, <2>1
  <1>6. /\ Len(pending') = 1 /\ DOMAIN pending' = 1 .. 1
        /\ pending'[1] = [page |-> "site", count |-> c]
    <2>1. /\ pending' \in Seq(Sends) /\ Len(pending') = Len(pending) + 1
          /\ pending'[Len(pending) + 1] = [page |-> "site", count |-> c]
      BY SendAppends
    <2>2. Len(pending) + 1 = 1
      BY <1>4
    <2> QED
      BY <2>1, <2>2, LenProperties
  <1>7. \A i \in 1 .. c : buffer'["site"][i] = Chunk[i]
    BY FilledProperties, <1>1 DEF Read
  <1>8. /\ firstRead' = FALSE /\ page' = page /\ response' = response
        /\ position' = IF firstRead THEN 0 ELSE position + c
    BY <1>1, ReadType
  <1>9. position \in Nat /\ firstRead \in BOOLEAN /\ n \in Nat /\ Len(wire) \in Nat
    BY Facts, SiteProperties
  <1> HIDE DEF c, h
  <1> PICK t \in Int : t = n + c
    <2>1. c \in Nat /\ n \in Nat
      BY <1>3, <1>9
    <2>2. n + c \in Int
      BY <2>1
    <2> QED
      BY <2>2
  <1>10. t \in 0 .. Len(Site(response)) /\ t = h + position'
    <2>1. CASE firstRead
      BY <1>2, <1>3, <1>5, <1>8, <1>9, <2>1
    <2>2. CASE ~firstRead
      BY <1>2, <1>3, <1>5, <1>8, <1>9, <2>2
    <2> QED
      BY <2>1, <2>2
  <1>11. ASSUME NEW i \in 1 .. c PROVE buffer'["site"][i] = Site(response)[t - c + i]
    <2>1. t - c + i = n + i
      BY <1>3, <1>9
    <2>2. CASE firstRead
      <3>1. n + i = i /\ i \in 1 .. h
        BY <1>3, <1>5, <1>9, <2>2
      <3> QED
        BY <1>2, <1>3, <1>7, <2>1, <2>2, <3>1
    <2>3. CASE ~firstRead
      <3>1. n + i = h + (position + i) /\ position + i \in 1 .. response.body
        BY <1>2, <1>3, <1>5, <1>9, <2>3
      <3> QED
        BY <1>2, <1>3, <1>7, <2>1, <2>3, <3>1
    <2> QED
      BY <2>2, <2>3
  <1>12. ASSUME NEW k \in 1 .. Len(wire)
         PROVE  wire[k] = Site(response)[k] /\ k <= t
    <2>1. k <= n /\ k <= t
      BY <1>3, <1>5, <1>9
    <2>2. wire[k] = Site(r)[k]
      BY <2>1 DEF Sent
    <2>3. ~firstRead
      BY <1>5, <1>9, <2>1
    <2> QED
      BY <1>5, <2>1, <2>2, <2>3
  <1>13. /\ Len(wire) <= t + 0 /\ c <= t /\ Len(wire) = t - c
    BY <1>3, <1>5, <1>9
  <1>14. Sent(response, t, 0)'
    <2>1. Len(wire') <= t + 0
      BY <1>1, <1>13
    <2>2. \A k \in 1 .. Len(wire') :
            wire'[k] = IF k <= t THEN Site(response')[k] ELSE Error[k - t]
      BY <1>1, <1>8, <1>12
    <2>3. \A k \in DOMAIN pending' :
            /\ pending'[k].page = "site" /\ k = 1 /\ pending'[k].count = c
      BY <1>6
    <2>4. \A i \in 1 .. c : buffer'["site"][i] = Site(response')[t - c + i]
      BY <1>8, <1>11
    <2>5. c <= t /\ Len(wire') = t - c
      BY <1>1, <1>13
    <2>6. ASSUME NEW k \in DOMAIN pending'
          PROVE  /\ pending'[k].page = "site" /\ k = 1 /\ pending'[k].count <= t
                 /\ \A i \in 1 .. pending'[k].count :
                      buffer'["site"][i] = Site(response')[t - pending'[k].count + i]
                 /\ Len(wire') = t - pending'[k].count
      BY <1>8, <2>3, <2>4, <2>5
    <2> QED
      BY <2>1, <2>2, <2>6 DEF Sent
  <1>15. UpToDate(response, t, 0)'
    <2>1. pending' # <<>>
      <3>1. Len(<<>>) = 0
        BY EmptySeq
      <3> QED
        BY <1>6, <3>1
    <2>2. t = Min({BufferSize, response'.head}) + position'
      BY <1>2, <1>8, <1>10
    <2> QED
      BY <1>8, <2>1, <2>2 DEF UpToDate
  <1> QED
    BY <1>10, <1>14, <1>15

\* The head of the error page is given to SendData.
LEMMA ErrorChunkSent ==
  ASSUME TypeOK, ReadInv, SendChunk, connected, page = "error", ~Overlaps,
         NEW r \in Responses, NEW n \in 0 .. Len(Site(r)), NEW m \in Nat,
         Sent(r, n, m), UpToDate(r, n, m)
  PROVE  Sent(r, n, Len(Error))' /\ UpToDate(r, n, Len(Error))'
  <1> DEFINE e == Len(Error)
  <1>1. /\ pc = "sending" /\ pc' = "sending" /\ Read /\ wire' = wire
        /\ Chunk # <<>> /\ Chunk \in Seq(Bytes)
    BY ChunkProperties DEF SendChunk, Goto
  <1>2. response = ErrorPage /\ response.head = ErrorHead /\ response.body = 0
    BY DEF ReadInv, ErrorPage
  <1>3. firstRead
    <2>1. Len(Chunk) \in 1 .. BufferSize
      BY SendAppends
    <2>2. ~firstRead => position + Len(Chunk) <= response.body
      BY ChunkProperties
    <2> QED
      BY <1>2, <2>1, <2>2, Facts
  <1>4. /\ Len(Chunk) = e /\ e \in Nat \ {0}
        /\ \A i \in 1 .. e : Chunk[i] = Error[i]
    <2>1. Len(Chunk) = Fits(ErrorHead) /\ \A i \in 1 .. Len(Chunk) : Chunk[i] = <<"error", i>>
      BY <1>2, <1>3, ChunkProperties
    <2>2. Fits(ErrorHead) \in Nat \ {0}
      BY ErrorProperties, ResponseAssumption
    <2> QED
      BY <2>1, <2>2, ErrorProperties
  <1>5. m = 0 /\ (pending = <<>> => Len(wire) = n + m)
    BY <1>1, <1>3 DEF UpToDate
  <1>6. /\ n \in Nat /\ Len(wire) \in Nat /\ Len(pending) \in Nat
        /\ DOMAIN pending = 1 .. Len(pending)
    BY Facts, SiteProperties
  <1>7. ASSUME NEW k \in DOMAIN pending
        PROVE  /\ pending[k].page = "site" /\ k = 1 /\ pending[k].count <= n
               /\ \A i \in 1 .. pending[k].count :
                    buffer["site"][i] = Site(r)[n - pending[k].count + i]
               /\ Len(wire) = n - pending[k].count
    BY DEF Overlaps, Sent
  <1>8. Len(pending) \in {0, 1}
    <2>1. ~(Len(pending) >= 2)
      <3> SUFFICES ASSUME Len(pending) >= 2 PROVE FALSE
        OBVIOUS
      <3>1. 2 \in DOMAIN pending
        BY <1>6
      <3> QED
        BY <1>7, <3>1
    <2> QED
      BY <1>6, <2>1
  <1>9. /\ pending' \in Seq(Sends) /\ Len(pending') = Len(pending) + 1
        /\ DOMAIN pending' = 1 .. Len(pending) + 1
        /\ \A k \in 1 .. Len(pending) : pending'[k] = pending[k]
        /\ pending'[Len(pending) + 1] = [page |-> "error", count |-> e]
    <2>1. /\ pending' \in Seq(Sends) /\ Len(pending') = Len(pending) + 1
          /\ \A k \in 1 .. Len(pending) : pending'[k] = pending[k]
          /\ pending'[Len(pending) + 1] = [page |-> "error", count |-> e]
      BY <1>4, SendAppends
    <2> QED
      BY <2>1, LenProperties
  <1>10. /\ \A i \in 1 .. e : buffer'["error"][i] = Error[i]
         /\ buffer'["site"] = buffer["site"]
    BY <1>1, <1>4, FilledProperties DEF Read, Pages
  <1> HIDE DEF e
  <1>11. Len(wire) <= n
    BY <1>5 DEF Sent
  <1>12. Sent(r, n, Len(Error))'
    <2>1. Len(wire') <= n + e
      BY <1>1, <1>4, <1>6, <1>11
    <2>2. ASSUME NEW k \in 1 .. Len(wire')
          PROVE  wire'[k] = IF k <= n THEN Site(r)[k] ELSE Error[k - n]
      <3>1. k \in 1 .. Len(wire) /\ k <= n
        BY <1>1, <1>6, <1>11
      <3> QED
        BY <1>1, <3>1 DEF Sent
    <2>3. ASSUME NEW k \in DOMAIN pending', k # Len(pending) + 1
          PROVE  /\ pending'[k].page = "site" /\ k = 1 /\ pending'[k].count <= n
                 /\ \A i \in 1 .. pending'[k].count :
                      buffer'["site"][i] = Site(r)[n - pending'[k].count + i]
                 /\ Len(wire') = n - pending'[k].count
                 /\ Len(pending') = 2
      <3>1. k \in 1 .. Len(pending)
        BY <1>6, <1>9, <2>3
      <3>2. Len(pending) = 1
        BY <1>8, <3>1
      <3>3. pending'[k] = pending[k] /\ k \in DOMAIN pending
        BY <1>6, <1>9, <3>1
      <3>4. Len(pending') = 2
        BY <1>9, <3>2
      <3> QED
        BY <1>1, <1>7, <1>10, <3>3, <3>4
    <2>4. ASSUME NEW k \in DOMAIN pending', k = Len(pending) + 1
          PROVE  /\ pending'[k].page = "error" /\ k = Len(pending') /\ pending'[k].count = e
                 /\ \A i \in 1 .. e : buffer'["error"][i] = Error[i]
                 /\ k = 1 => Len(wire') = n
      <3>1. k = 1 => pending = <<>>
        <4> SUFFICES ASSUME k = 1 PROVE pending = <<>>
          OBVIOUS
        <4>1. Len(pending) = 0
          BY <1>6, <2>4
        <4> QED
          BY <4>1, Facts, EmptySeq
      <3>2. k = 1 => Len(wire') = n
        BY <1>1, <1>5, <1>6, <3>1
      <3> QED
        BY <1>9, <1>10, <2>4, <3>2
    <2> QED
      BY <2>1, <2>2, <2>3, <2>4 DEF Sent, e
  <1>13. UpToDate(r, n, Len(Error))'
    <2>1. page' = page /\ firstRead' = FALSE
      BY <1>1, ReadType
    <2>2. pending' # <<>>
      <3>1. Len(<<>>) = 0
        BY EmptySeq
      <3>2. Len(pending') # 0
        BY <1>6, <1>9
      <3> QED
        BY <3>1, <3>2
    <2> QED
      BY <2>1, <2>2 DEF UpToDate
  <1> QED
    BY <1>12, <1>13

LEMMA RouteOutputInv ==
  ASSUME TypeOK, ReadInv, OutputInv, [Next]_vars
  PROVE  OutputInv'
  <1>0. Len(Error) \in Nat /\ \A r \in Responses : Len(Site(r)) \in Nat
    BY SiteProperties, ErrorProperties, LenProperties
  <1>1. ASSUME NEW count \in 1 .. Size, DataReceived(count) PROVE OutputInv'
    <2>1. /\ UNCHANGED <<pending, wire, overlapped, readVars>>
          /\ connected' = connected /\ pc = "receiving"
      BY <1>1 DEF DataReceived, Goto
    <2> QED
      BY <2>1, OutputUnchanged
  <1>2. CASE \/ HeadersNull \/ EndResponse \/ Disconnect \/ DisconnectThrows
             \/ ClientCloses \/ Done \/ UNCHANGED vars
    <2>1. /\ UNCHANGED <<pending, wire, overlapped, readVars>>
          /\ \/ pc' \in {"crashed", "disconnecting", "closed"}
             \/ connected' = connected /\ pc' = pc
      BY <1>2 DEF HeadersNull, EndResponse, Disconnect, DisconnectThrows, ClientCloses, Done,
                 vars, Goto
    <2> QED
      BY <2>1, OutputUnchanged
  <1>3. CASE Respond \/ RespondError
    <2>1. /\ pending = <<>> /\ wire = <<>> /\ pending' = pending /\ wire' = wire
          /\ pc' = "sending" /\ firstRead' = TRUE /\ page' \in Pages
      BY <1>3 DEF Respond, RespondError, Goto, ReadInv, SendResponse, Pages
    <2>2. Len(wire') = 0 /\ DOMAIN pending' = {} /\ DOMAIN wire' = {}
      BY <2>1, EmptySeq, LenProperties
    <2>3. PICK r \in Responses : TRUE
      BY ResponseAssumption
    <2>4. Sent(r, 0, 0)'
      BY <2>2 DEF Sent
    <2>5. UpToDate(r, 0, 0)'
      BY <2>1, <2>2 DEF UpToDate
    <2>6. 0 \in 0 .. Len(Site(r)) /\ 0 \in 0 .. Len(Error)
      BY <1>0
    <2> QED
      BY <2>4, <2>5, <2>6 DEF OutputInv
  <1>4. ASSUME ~overlapped
        PROVE  \E r \in Responses : \E n \in 0 .. Len(Site(r)), m \in 0 .. Len(Error) :
                 n \in Nat /\ m \in Nat /\ Sent(r, n, m) /\ UpToDate(r, n, m)
    BY <1>0, <1>4 DEF OutputInv
  <1>5. CASE SendChunk
    <2> SUFFICES ASSUME ~overlapped'
                 PROVE  \E r \in Responses : \E n \in 0 .. Len(Site(r)), m \in 0 .. Len(Error) :
                          Sent(r, n, m)' /\ UpToDate(r, n, m)'
      BY DEF OutputInv
    <2>1. ~overlapped /\ ~Overlaps
      BY <1>5 DEF SendChunk
    <2>2. PICK r \in Responses : \E n \in 0 .. Len(Site(r)), m \in 0 .. Len(Error) :
                                   n \in Nat /\ m \in Nat /\ Sent(r, n, m) /\ UpToDate(r, n, m)
      BY <1>4, <2>1
    <2>3. PICK n \in 0 .. Len(Site(r)), m \in 0 .. Len(Error) :
                                   n \in Nat /\ m \in Nat /\ Sent(r, n, m) /\ UpToDate(r, n, m)
      BY <2>2
    <2>4. CASE connected /\ page = "site"
      <3>1. response \in Responses
        BY <1>5, <2>4 DEF ReadInv, SendChunk, Goto
      <3>2. PICK k \in 0 .. Len(Site(response)) :
                Sent(response, k, 0)' /\ UpToDate(response, k, 0)'
        BY <1>5, <2>1, <2>3, <2>4, SiteChunkSent
      <3>3. response' = response
        BY <1>5 DEF SendChunk, Read
      <3>4. PICK q \in Responses : q = response
        BY <3>1
      <3>5. k \in 0 .. Len(Site(q)) /\ Sent(q, k, 0)' /\ UpToDate(q, k, 0)'
        BY <3>2, <3>3, <3>4
      <3> QED
        BY <1>0, <3>5
    <2>5. CASE connected /\ page = "error"
      <3>1. Sent(r, n, Len(Error))' /\ UpToDate(r, n, Len(Error))'
        BY <1>5, <2>1, <2>3, <2>5, ErrorChunkSent
      <3>2. Len(Error) \in 0 .. Len(Error)
        BY <1>0
      <3> QED
        BY <3>1, <3>2
    <2>6. CASE ~connected
      <3>1. pending' = pending /\ wire' = wire /\ connected' = connected /\ buffer' = Filled
        BY <1>5, <2>6 DEF SendChunk, Read
      <3>2. \A k \in DOMAIN pending : buffer'[pending[k].page] = buffer[pending[k].page]
        BY <2>1, <3>1, Facts, FilledProperties DEF Overlaps, Sends
      <3>3. Sent(r, n, m)'
        BY <2>3, <3>1, <3>2, SentUnchanged
      <3>4. UpToDate(r, n, m)'
        BY <2>6, <3>1 DEF UpToDate
      <3> QED
        BY <3>3, <3>4
    <2> QED
      BY <2>4, <2>5, <2>6, Facts DEF Pages
  <1>6. CASE SendThrows \/ CloseThrows
    <2> SUFFICES ASSUME ~overlapped'
                 PROVE  \E r \in Responses : \E n \in 0 .. Len(Site(r)), m \in 0 .. Len(Error) :
                          Sent(r, n, m)' /\ UpToDate(r, n, m)'
      BY DEF OutputInv
    <2>1. /\ ~overlapped /\ pc = "sending"
          /\ pending' = pending /\ wire' = wire /\ connected' = connected
      <3>1. CASE SendThrows
        BY <3>1 DEF SendThrows, Goto
      <3>2. CASE CloseThrows
        BY <3>2 DEF CloseThrows, Goto
      <3> QED
        BY <1>6, <3>1, <3>2
    <2>2. PICK r \in Responses : \E n \in 0 .. Len(Site(r)), m \in 0 .. Len(Error) :
                                   n \in Nat /\ m \in Nat /\ Sent(r, n, m) /\ UpToDate(r, n, m)
      BY <1>4, <2>1
    <2>3. PICK n \in 0 .. Len(Site(r)), m \in 0 .. Len(Error) :
                                   n \in Nat /\ m \in Nat /\ Sent(r, n, m) /\ UpToDate(r, n, m)
      BY <2>2
    <2>4. \A k \in DOMAIN pending : buffer'[pending[k].page] = buffer[pending[k].page]
      <3>1. CASE page = "site" /\ SendThrows
        <4>1. DOMAIN pending = {}
          BY <1>6, <2>1, <3>1, SiteNothingPending DEF SendThrows
        <4> QED
          BY <4>1
      <3>2. CASE page = "site" /\ CloseThrows
        <4>1. \A k \in DOMAIN pending : pending[k].page = "site"
          BY <3>2 DEF ReadInv
        <4>2. buffer'["site"] = buffer["site"]
          BY <3>2, Facts DEF CloseThrows, SendResponse, Pages
        <4> QED
          BY <4>1, <4>2
      <3>3. CASE page = "error"
        <4>1. buffer' = Filled /\ ~Overlaps
          BY <1>6, <3>3 DEF SendThrows, CloseThrows, Read
        <4> QED
          BY <4>1, Facts, FilledProperties DEF Overlaps, Sends
      <3> QED
        BY <1>6, <3>1, <3>2, <3>3, Facts DEF Pages
    <2>5. Sent(r, n, m)'
      BY <2>1, <2>3, <2>4, SentUnchanged
    <2>6. UpToDate(r, n, m)'
      <3>1. CASE page = "site"
        <4>1. page' = "error" /\ firstRead' = TRUE
          BY <1>6, <3>1 DEF SendThrows, CloseThrows, SendResponse
        <4>2. connected => m = 0 /\ (pending = <<>> => Len(wire) = n + m)
          BY <2>1, <2>3, <3>1 DEF UpToDate
        <4> QED
          BY <2>1, <4>1, <4>2 DEF UpToDate
      <3>2. CASE page # "site"
        <4>1. pc' = "crashed"
          BY <1>6, <3>2 DEF SendThrows, CloseThrows, Goto
        <4> QED
          BY <4>1 DEF UpToDate
      <3> QED
        BY <3>1, <3>2
    <2> QED
      BY <2>5, <2>6
  <1>7. CASE Transmit
    <2> SUFFICES ASSUME ~overlapped'
                 PROVE  \E r \in Responses : \E n \in 0 .. Len(Site(r)), m \in 0 .. Len(Error) :
                          Sent(r, n, m)' /\ UpToDate(r, n, m)'
      BY DEF OutputInv
    <2>1. /\ ~overlapped /\ pc' = pc /\ connected' = connected
          /\ page' = page /\ firstRead' = firstRead /\ position' = position
          /\ response' = response
      BY <1>7 DEF Transmit, readVars
    <2>2. PICK r \in Responses : \E n \in 0 .. Len(Site(r)), m \in 0 .. Len(Error) :
                                   n \in Nat /\ m \in Nat /\ Sent(r, n, m) /\ UpToDate(r, n, m)
      BY <1>4, <2>1
    <2>3. PICK n \in 0 .. Len(Site(r)), m \in 0 .. Len(Error) :
                                   n \in Nat /\ m \in Nat /\ Sent(r, n, m) /\ UpToDate(r, n, m)
      BY <2>2
    <2>4. Sent(r, n, m)' /\ (pending' = <<>> => Len(wire') = n + m)
      BY <1>7, <2>3, TransmitSent
    <2>5. UpToDate(r, n, m)'
      BY <2>1, <2>3, <2>4 DEF UpToDate
    <2> QED
      BY <2>4, <2>5
  <1>8. CASE Cancel
    <2> SUFFICES ASSUME ~overlapped'
                 PROVE  \E r \in Responses : \E n \in 0 .. Len(Site(r)), m \in 0 .. Len(Error) :
                          Sent(r, n, m)' /\ UpToDate(r, n, m)'
      BY DEF OutputInv
    <2>1. ~overlapped /\ pending' = <<>> /\ connected' = FALSE /\ wire' = wire
      BY <1>8 DEF Cancel
    <2>2. PICK r \in Responses : \E n \in 0 .. Len(Site(r)), m \in 0 .. Len(Error) :
                                   n \in Nat /\ m \in Nat /\ Sent(r, n, m) /\ UpToDate(r, n, m)
      BY <1>4, <2>1
    <2>3. PICK n \in 0 .. Len(Site(r)), m \in 0 .. Len(Error) :
                                   n \in Nat /\ m \in Nat /\ Sent(r, n, m) /\ UpToDate(r, n, m)
      BY <2>2
    <2>4. DOMAIN pending' = {}
      BY <2>1, EmptySeq, LenProperties
    <2>5. Sent(r, n, m)' /\ UpToDate(r, n, m)'
      BY <2>1, <2>3, <2>4 DEF Sent, UpToDate
    <2> QED
      BY <2>5
  <1> QED
    BY <1>1, <1>2, <1>3, <1>5, <1>6, <1>7, <1>8 DEF Next

\* What has left is made of at most two pieces: IntactUnlessOverlapped.
LEMMA PrefixByElements ==
  ASSUME NEW s \in Seq(Bytes), NEW t \in Seq(Bytes), Len(s) <= Len(t),
         \A k \in 1 .. Len(s) : s[k] = t[k]
  PROVE  IsPrefix(s, t)
  <1>1. Len(s) \in Nat /\ Len(t) \in Nat
    BY LenProperties
  <1>2. /\ \A i \in 1 .. Len(s) : s[i] \in Bytes
        /\ \A i \in 1 .. Len(s) : t[i] \in Bytes
    BY ElementOfSeq
  <1>3. 1 \in Int /\ Len(s) \in Int
    BY <1>1
  <1>4. /\ SubSeq(s, 1, Len(s)) \in Seq(Bytes)
        /\ Len(SubSeq(s, 1, Len(s))) = IF 1 <= Len(s) THEN Len(s) - 1 + 1 ELSE 0
        /\ \A i \in 1 .. Len(s) - 1 + 1 : SubSeq(s, 1, Len(s))[i] = s[1 + i - 1]
    BY <1>2, <1>3, SubSeqProperties
  <1>5. /\ SubSeq(t, 1, Len(s)) \in Seq(Bytes)
        /\ Len(SubSeq(t, 1, Len(s))) = IF 1 <= Len(s) THEN Len(s) - 1 + 1 ELSE 0
        /\ \A i \in 1 .. Len(s) - 1 + 1 : SubSeq(t, 1, Len(s))[i] = t[1 + i - 1]
    BY <1>2, <1>3, SubSeqProperties
  <1>6. \A i \in 1 .. Len(s) - 1 + 1 : 1 + i - 1 = i /\ i \in 1 .. Len(s)
    BY <1>1
  <1>7. /\ Len(SubSeq(s, 1, Len(s))) = Len(SubSeq(t, 1, Len(s)))
        /\ Len(SubSeq(s, 1, Len(s))) = Len(s)
    BY <1>1, <1>4, <1>5
  <1>8. \A i \in 1 .. Len(SubSeq(s, 1, Len(s))) :
          SubSeq(s, 1, Len(s))[i] = SubSeq(t, 1, Len(s))[i]
    <2>1. \A i \in 1 .. Len(s) : i \in 1 .. Len(s) - 1 + 1
      BY <1>1
    <2> QED
      BY <1>4, <1>5, <1>6, <1>7, <2>1
  <1>9. SubSeq(s, 1, Len(s)) = SubSeq(t, 1, Len(s))
    BY <1>4, <1>5, <1>7, <1>8, SeqEqual
  <1> QED
    BY <1>9 DEF IsPrefix

LEMMA OutputIntact == TypeOK /\ OutputInv => IntactUnlessOverlapped
  <1> SUFFICES ASSUME TypeOK, OutputInv, ~overlapped
               PROVE  \E r \in Responses, n \in 0 .. Len(wire) :
                        /\ IsPrefix(SubSeq(wire, 1, n), Site(r))
                        /\ IsPrefix(SubSeq(wire, n + 1, Len(wire)), Error)
    BY DEF IntactUnlessOverlapped
  <1>1. PICK r \in Responses : \E n \in 0 .. Len(Site(r)), m \in 0 .. Len(Error) : Sent(r, n, m)
    BY DEF OutputInv
  <1>2. PICK n \in 0 .. Len(Site(r)), m \in 0 .. Len(Error) : Sent(r, n, m)
    BY <1>1
  <1>3. /\ wire \in Seq(Bytes) /\ Len(wire) \in Nat /\ \A i \in 1 .. Len(wire) : wire[i] \in Bytes
        /\ Site(r) \in Seq(Bytes) /\ Len(Site(r)) \in Nat
        /\ Error \in Seq(Bytes) /\ Len(Error) \in Nat
        /\ n \in Nat /\ n <= Len(Site(r)) /\ m \in Nat /\ m <= Len(Error)
    BY Facts, SiteProperties, ErrorProperties, LenProperties
  <1>4. /\ Len(wire) <= n + m
        /\ \A k \in 1 .. Len(wire) : wire[k] = IF k <= n THEN Site(r)[k] ELSE Error[k - n]
    BY <1>2 DEF Sent
  <1>5. PICK q \in 0 .. Len(wire) : q = IF n <= Len(wire) THEN n ELSE Len(wire)
    BY <1>3
  <1> DEFINE a == SubSeq(wire, 1, q)
             b == SubSeq(wire, q + 1, Len(wire))
  <1>6. q \in Nat /\ q <= n /\ q <= Len(wire) /\ (q # n => q = Len(wire))
    BY <1>3, <1>5
  <1>7. /\ a \in Seq(Bytes) /\ Len(a) = q
        /\ \A i \in 1 .. q : a[i] = wire[i]
    <2>1. 1 \in Int /\ q \in Int /\ \A i \in 1 .. q : wire[i] \in Bytes
      BY <1>3, <1>6
    <2>2. /\ a \in Seq(Bytes) /\ Len(a) = IF 1 <= q THEN q - 1 + 1 ELSE 0
          /\ \A i \in 1 .. q - 1 + 1 : a[i] = wire[1 + i - 1]
      BY <2>1, SubSeqProperties
    <2> HIDE DEF a
    <2>3. \A i \in 1 .. q : i \in 1 .. q - 1 + 1 /\ 1 + i - 1 = i
      BY <1>6
    <2>4. Len(a) = q
      BY <1>6, <2>2
    <2> QED
      BY <2>2, <2>3, <2>4
  <1>8. /\ b \in Seq(Bytes) /\ Len(b) = Len(wire) - q
        /\ \A i \in 1 .. Len(wire) - q : b[i] = wire[q + i]
    <2>1. q + 1 \in Int /\ Len(wire) \in Int /\ \A i \in q + 1 .. Len(wire) : wire[i] \in Bytes
      BY <1>3, <1>6
    <2>2. /\ b \in Seq(Bytes)
          /\ Len(b) = IF q + 1 <= Len(wire) THEN Len(wire) - (q + 1) + 1 ELSE 0
          /\ \A i \in 1 .. Len(wire) - (q + 1) + 1 : b[i] = wire[q + 1 + i - 1]
      BY <2>1, SubSeqProperties
    <2> HIDE DEF b
    <2>3. \A i \in 1 .. Len(wire) - q :
            i \in 1 .. Len(wire) - (q + 1) + 1 /\ q + 1 + i - 1 = q + i
      BY <1>3, <1>6
    <2>4. Len(b) = Len(wire) - q
      BY <1>3, <1>6, <2>2
    <2> QED
      BY <2>2, <2>3, <2>4
  <1> HIDE DEF a, b
  <1>9. IsPrefix(a, Site(r))
    <2>1. \A k \in 1 .. q : k \in 1 .. Len(wire) /\ k <= n
      BY <1>3, <1>6
    <2>2. \A k \in 1 .. Len(a) : a[k] = Site(r)[k]
      BY <1>4, <1>7, <2>1
    <2>3. Len(a) <= Len(Site(r))
      BY <1>3, <1>6, <1>7
    <2> QED
      BY <1>3, <1>7, <2>2, <2>3, PrefixByElements
  <1>10. IsPrefix(b, Error)
    <2>1. ASSUME NEW k \in 1 .. Len(b)
          PROVE  /\ k \in 1 .. Len(wire) - q /\ q + k \in 1 .. Len(wire) /\ ~(q + k <= n)
                 /\ (q + k) - n = k
      BY <1>3, <1>6, <1>8
    <2>2. \A k \in 1 .. Len(b) : b[k] = Error[k]
      BY <1>4, <1>8, <2>1
    <2>3. Len(b) <= Len(Error)
      BY <1>3, <1>4, <1>6, <1>8
    <2> QED
      BY <1>3, <1>8, <2>2, <2>3, PrefixByElements
  <1> QED
    BY <1>9, <1>10 DEF a, b

-----------------------------------------------------------------------------
\* The connection: how much has been sent, and what ends the process.

\* The numbers that Counted adds up.
Counts(p) == [k \in DOMAIN pending |-> Count(pending[k], p)]

LEMMA CountsType ==
  ASSUME TypeOK, NEW p
  PROVE  Counts(p) \in [1 .. Len(pending) -> Int] /\ Counted(p) = SumFunction(Counts(p))
  <1>1. DOMAIN pending = 1 .. Len(pending) /\ BufferSize \in Nat
        /\ \A k \in DOMAIN pending : pending[k] \in Sends
    BY Facts
  <1>2. \A k \in DOMAIN pending : pending[k].count \in Int
    BY <1>1 DEF Sends
  <1> QED
    BY <1>1, <1>2 DEF Counts, Count, Counted

LEMMA CountedNone ==
  ASSUME TypeOK, NEW p, pending = <<>>
  PROVE  Counted(p) = 0
  <1>1. Len(pending) = 0
    BY EmptySeq
  <1> DEFINE f == Counts(p)
             e == [k \in 0 .. 0 |-> 0]
  <1>2. f \in [1 .. 0 -> Int] /\ Counted(p) = SumFunction(f)
    BY <1>1, CountsType
  <1>3. 0 \in Nat /\ e \in [0 .. 0 -> Int] /\ e[0] = 0 /\ \A k \in 1 .. 0 : e[k] = e[k - 1] + f[k]
    OBVIOUS
  <1> HIDE DEF f, e
  <1>4. SumFunction(f) = e[0] - e[0]
    BY <1>2, <1>3, SumOfSteps
  <1> QED
    BY <1>2, <1>3, <1>4

\* A chunk that is sent counts for its page.
LEMMA CountedSent ==
  ASSUME TypeOK, TypeOK', SendChunk, connected, NEW p, p = page
  PROVE  Counted(p)' = Counted(p) + Len(Chunk)
  <1> DEFINE n == Len(pending)
             f == Counts(p)
             g == Counts(p)'
             s == [page |-> page, count |-> Len(Chunk)]
  <1>1. /\ Len(pending') = n + 1 /\ \A k \in 1 .. n : pending'[k] = pending[k]
        /\ pending'[n + 1] = s
    BY SendAppends
  <1>2. n \in Nat /\ DOMAIN pending = 1 .. n
    BY Facts
  <1>3. pending' \in Seq(Sends) /\ DOMAIN pending' = 1 .. n + 1
    <2>1. pending' \in Seq(Sends)
      BY SendAppends
    <2> QED
      BY <1>1, <2>1, LenProperties
  <1>4. f \in [1 .. n -> Int] /\ Counted(p) = SumFunction(f)
    BY CountsType
  <1>6. g = [k \in 1 .. n + 1 |-> Count(pending'[k], p)]
    BY <1>3 DEF Counts
  <1>7. \A k \in 1 .. n : k \in 1 .. n + 1 /\ f[k] = Count(pending[k], p)
    BY <1>2 DEF Counts
  <1>8. g[n + 1] = Len(Chunk)
    <2>1. Count(s, p) = Len(Chunk)
      BY DEF Count
    <2>2. n + 1 \in 1 .. n + 1
      BY <1>2
    <2> QED
      BY <1>1, <1>6, <2>1, <2>2
  <1>9. \A k \in 1 .. n : g[k] = f[k]
    BY <1>1, <1>6, <1>7
  <1>10. Counted(p)' = SumFunction(g)
    BY DEF Counted, Counts
  <1>11. g \in [1 .. n + 1 -> Int]
    <2>1. \A k \in 1 .. n + 1 : k \in 1 .. n \/ k = n + 1
      BY <1>2
    <2>2. Len(Chunk) \in Int
      BY ChunkProperties, LenProperties
    <2>3. \A k \in 1 .. n + 1 : g[k] \in Int
      BY <1>4, <1>8, <1>9, <2>1, <2>2
    <2> QED
      BY <1>6, <2>3
  <1> HIDE DEF n, f, g
  <1>12. SumFunction(g) = SumFunction(f) + g[n + 1]
    BY <1>2, <1>4, <1>9, <1>11, SumAppended
  <1> QED
    BY <1>4, <1>8, <1>10, <1>12

\* A send that is transmitted counts no more.
LEMMA CountedTransmitted ==
  ASSUME TypeOK, TypeOK', Transmit, NEW p
  PROVE  Counted(p) = Count(pending[1], p) + Counted(p)' /\ Counted(p)' \in Int
  <1> DEFINE n == Len(pending) - 1
             f == Counts(p)'
             g == Counts(p)
  <1>1. /\ Len(pending') = n /\ \A k \in 1 .. n : pending'[k] = pending[k + 1]
        /\ pending' \in Seq(Sends)
    BY SendTransmits DEF Transmit
  <1>2. n \in Nat /\ DOMAIN pending = 1 .. n + 1 /\ DOMAIN pending' = 1 .. n
    <2>1. Len(pending) # 0
      BY Facts, EmptySeq DEF Transmit
    <2>2. Len(pending) \in Nat /\ DOMAIN pending = 1 .. Len(pending)
      BY Facts
    <2> QED
      BY <1>1, <2>1, <2>2, LenProperties
  <1>3. g \in [1 .. n + 1 -> Int] /\ Counted(p) = SumFunction(g)
    <2>1. n + 1 = Len(pending)
      BY Facts
    <2> QED
      BY <2>1, CountsType
  <1>4. f = [k \in 1 .. n |-> Count(pending'[k], p)]
    BY <1>2 DEF Counts
  <1>5. g[1] = Count(pending[1], p) /\ \A k \in 1 .. n : g[k + 1] = Count(pending[k + 1], p)
    <2>1. 1 \in 1 .. n + 1 /\ \A k \in 1 .. n : k + 1 \in 1 .. n + 1
      BY <1>2
    <2>2. \A k \in 1 .. n + 1 : g[k] = Count(pending[k], p)
      BY <1>2 DEF Counts
    <2> QED
      BY <2>1, <2>2
  <1>6. \A k \in 1 .. n : f[k] = g[k + 1]
    BY <1>1, <1>4, <1>5
  <1>7. f \in [1 .. n -> Int]
    <2>1. \A k \in 1 .. n : k + 1 \in 1 .. n + 1
      BY <1>2
    <2> QED
      BY <1>3, <1>4, <1>6, <2>1
  <1>8. Counted(p)' = SumFunction(f)
    BY DEF Counted, Counts
  <1> HIDE DEF n, f, g
  <1>9. SumFunction(g) = g[1] + SumFunction(f)
    BY <1>2, <1>3, <1>6, <1>7, SumBehind
  <1>10. SumFunction(f) \in Int
    BY <1>2, <1>7, SumType
  <1> QED
    BY <1>3, <1>5, <1>8, <1>9, <1>10

LEMMA CountedUnchanged ==
  ASSUME NEW p, pending' = pending
  PROVE  Counted(p)' = Counted(p)
  BY DEF Counted

LEMMA CountedType == ASSUME TypeOK, NEW p PROVE Counted(p) \in Int
  <1> DEFINE n == Len(pending)
             f == Counts(p)
  <1>1. n \in Nat /\ f \in [1 .. n -> Int] /\ Counted(p) = SumFunction(f)
    BY Facts, CountsType
  <1> HIDE DEF n, f
  <1> QED
    BY <1>1, SumType

LEMMA RouteLengthInv ==
  ASSUME TypeOK, TypeOK', ReadInv, LengthInv, [Next]_vars
  PROVE  LengthInv'
  <1>0. /\ Counted("site") \in Int /\ Len(wire) \in Nat
        /\ response.head \in Nat /\ response.body \in Nat /\ position \in Nat
        /\ BufferSize \in Nat \ {0} /\ page \in Pages /\ firstRead \in BOOLEAN
    BY Facts, CountedType
  <1>1. Min({BufferSize, response.head}) = Fits(response.head)
    BY <1>0, MinOfTwo DEF Fits
  <1>2. ASSUME UNCHANGED <<wire, pending, readVars>>,
               connected' => connected,
               pc' \notin {"closed", "crashed"} => pc \notin {"closed", "crashed"},
               pc' = "disconnecting" /\ page = "site" /\ headersRead' =>
                 ~firstRead /\ response \in Responses /\ position = response.body
        PROVE  LengthInv'
    <2>1. /\ wire' = wire /\ page' = page /\ firstRead' = firstRead
          /\ response' = response /\ position' = position
          /\ Counted("site")' = Counted("site")
      BY <1>2, CountedUnchanged DEF readVars
    <2> QED
      BY <1>2, <2>1 DEF LengthInv
  <1>3. ASSUME NEW count \in 1 .. Size, DataReceived(count) PROVE LengthInv'
    <2>1. /\ UNCHANGED <<wire, pending, readVars>> /\ connected' = connected
          /\ pc = "receiving" /\ pc' # "disconnecting"
      BY <1>3 DEF DataReceived, Goto
    <2> QED
      BY <1>2, <2>1
  <1>4. CASE HeadersNull \/ Disconnect \/ DisconnectThrows \/ Done \/ UNCHANGED vars
    <2>1. /\ UNCHANGED <<wire, pending, readVars>> /\ (connected' => connected)
          /\ \/ pc' \in {"crashed", "closed"}
             \/ pc' = pc /\ headersRead' = headersRead
      BY <1>4 DEF HeadersNull, Disconnect, DisconnectThrows, Done, vars, streamVars, Goto
    <2>2. pc' = "disconnecting" /\ page = "site" /\ headersRead' =>
            ~firstRead /\ response \in Responses /\ position = response.body
      BY <2>1 DEF LengthInv
    <2> QED
      BY <1>2, <2>1, <2>2
  <1>5. CASE ClientCloses
    <2>1. /\ UNCHANGED <<wire, pending, readVars>> /\ connected' = connected
          /\ pc = "receiving" /\ headersRead' = headersRead /\ ~headersRead
      BY <1>5 DEF ClientCloses, Goto, streamVars, ReadInv
    <2> QED
      BY <1>2, <2>1
  <1>6. CASE EndResponse
    <2>1. /\ UNCHANGED <<wire, pending, readVars>> /\ connected' = connected
          /\ pc = "sending" /\ Chunk = <<>>
      BY <1>6 DEF EndResponse, Goto
    <2>2. Len(Chunk) = 0
      BY <2>1, EmptySeq
    <2>3. page = "site" => response \in Responses /\ response.head # 0
      BY <2>1, ResponseAssumption DEF ReadInv
    <2>4. page = "site" => ~firstRead
      BY <1>0, <2>2, <2>3, ChunkProperties DEF Fits
    <2>5. ~firstRead => position = response.body
      <3>1. ~firstRead => Fits(response.body - position) = 0 /\ position <= response.body
        BY <2>2, ChunkProperties DEF TypeOK
      <3> QED
        BY <1>0, <3>1 DEF Fits
    <2> QED
      BY <1>2, <2>1, <2>3, <2>4, <2>5
  <1>7. CASE Respond \/ RespondError
    <2>1. /\ pending = <<>> /\ wire = <<>> /\ pending' = pending /\ wire' = wire
          /\ pc' = "sending" /\ firstRead' = TRUE
      BY <1>7 DEF Respond, RespondError, Goto, ReadInv, SendResponse
    <2>2. Len(wire') = 0 /\ Counted("site")' = 0
      BY <2>1, CountedNone, CountedUnchanged, EmptySeq
    <2> QED
      BY <2>1, <2>2 DEF LengthInv
  <1>8. CASE SendChunk
    <2> SUFFICES ASSUME connected, page = "site"
                 PROVE  Len(wire') + Counted("site")' =
                          Min({BufferSize, response.head}) + position'
      <3>1. /\ page' = page /\ connected' = connected /\ firstRead' = FALSE
            /\ response' = response /\ pc' = "sending"
        BY <1>8 DEF SendChunk, Read, Goto
      <3> QED
        BY <3>1 DEF LengthInv
    <2>1. Counted("site")' = Counted("site") + Len(Chunk)
      BY <1>8, CountedSent
    <2>2. /\ wire' = wire /\ pc = "sending"
          /\ position' = IF firstRead THEN 0 ELSE position + Len(Chunk)
      BY <1>8 DEF SendChunk, Read, Goto
    <2>3. /\ Len(Chunk) \in Nat
          /\ firstRead => Len(Chunk) = Fits(response.head)
      BY <1>0, ChunkProperties
    <2>4. Len(wire) + Counted("site") = IF firstRead THEN 0 ELSE Fits(response.head) + position
      BY <1>1, <2>2 DEF LengthInv
    <2>5. Fits(response.head) \in Nat
      BY <1>0 DEF Fits
    <2> HIDE DEF Chunk
    <2> QED
      BY <1>0, <1>1, <2>1, <2>2, <2>3, <2>4, <2>5
  <1>9. CASE SendThrows \/ CloseThrows
    <2>1. page' = "error" /\ pc' \in {"sending", "crashed"}
      BY <1>9 DEF SendThrows, CloseThrows, SendResponse, Read, Goto
    <2> QED
      BY <2>1 DEF LengthInv
  <1>10. CASE Transmit
    <2>1. /\ pc' = pc /\ connected' = connected /\ page' = page /\ firstRead' = firstRead
          /\ response' = response /\ position' = position /\ headersRead' = headersRead
      BY <1>10 DEF Transmit, readVars, streamVars
    <2>2. Counted("site") = Count(pending[1], "site") + Counted("site")'
      BY <1>10, CountedTransmitted
    <2>3. Len(wire') = Len(wire) + pending[1].count /\ pending[1].count \in Nat
      BY <1>0, <1>10, SendTransmits DEF Sends
    <2>4. page = "site" => Count(pending[1], "site") = pending[1].count
      <3>1. 1 \in DOMAIN pending
        BY <1>10, Facts, EmptySeq DEF Transmit
      <3> QED
        BY <3>1 DEF ReadInv, Count
    <2>5. Counted("site")' \in Int
      BY <1>10, CountedTransmitted
    <2>6. page = "site" => Len(wire') + Counted("site")' = Len(wire) + Counted("site")
      BY <1>0, <2>2, <2>3, <2>4, <2>5
    <2> QED
      BY <2>1, <2>6 DEF LengthInv
  <1>11. CASE Cancel
    <2>1. /\ connected' = FALSE /\ pc' = pc /\ page' = page /\ firstRead' = firstRead
          /\ response' = response /\ position' = position /\ headersRead' = headersRead
      BY <1>11 DEF Cancel, readVars, streamVars
    <2> QED
      BY <2>1 DEF LengthInv
  <1> QED
    BY <1>3, <1>4, <1>5, <1>6, <1>7, <1>8, <1>9, <1>10, <1>11 DEF Next

LEMMA RouteCrashInv ==
  ASSUME ReadInv, LengthInv, CrashInv, [Next]_vars
  PROVE  CrashInv'
  <1>1. ASSUME NEW count \in 1 .. Size, DataReceived(count) PROVE CrashInv'
    <2>1. /\ request' = request
          /\ failed' => request.fields = "colonless"
          /\ headersRead' /\ request.fields # "none" => headers' = "filled"
      BY <1>1 DEF DataReceived, Write
    <2>2. pc' = "crashed" => failed'
      BY <1>1 DEF DataReceived, Goto
    <2>3. pc' = "finding" => headersRead'
      BY <1>1 DEF DataReceived, Goto
    <2> QED
      BY <2>1, <2>2, <2>3 DEF CrashInv
  <1>2. CASE \/ HeadersNull \/ Respond \/ RespondError \/ SendChunk \/ SendThrows
             \/ EndResponse \/ CloseThrows \/ Disconnect \/ DisconnectThrows
             \/ Transmit \/ Cancel \/ ClientCloses \/ Done \/ UNCHANGED vars
    <2>1. UNCHANGED streamVars
      BY <1>2 DEF vars, HeadersNull, Respond, RespondError, SendChunk, SendThrows,
             EndResponse, CloseThrows, Disconnect, DisconnectThrows,
             Transmit, Cancel, ClientCloses, Done
    <2>2. pc' = "finding" => pc = "finding"
      BY <1>2
         DEF vars, HeadersNull, Respond, RespondError, SendChunk, SendThrows,
             EndResponse, CloseThrows, Disconnect, DisconnectThrows,
             Transmit, Cancel, ClientCloses, Done, Goto
    <2>3. request' = request /\ headersRead' = headersRead /\ headers' = headers
      BY <2>1 DEF streamVars
    <2>4. pc' = "crashed" =>
            \/ /\ pc = "crashed" /\ connected' = connected /\ page' = page
               /\ firstRead' = firstRead /\ position' = position /\ response' = response
            \/ connected' /\ page' = "error"
            \/ pc = "finding" /\ headers = "null"
            \/ /\ ~connected'
               /\ page' = "site" /\ headersRead' => ~firstRead' /\ position' = response'.body
      <3>1. CASE SendThrows
        BY <3>1 DEF SendThrows, SendResponse, Read, Goto
      <3>2. CASE HeadersNull
        BY <3>2 DEF HeadersNull, Goto
      <3>3. CASE Respond \/ RespondError \/ SendChunk \/ EndResponse \/ CloseThrows
                 \/ Disconnect \/ ClientCloses
        BY <3>3 DEF Respond, RespondError, SendChunk, EndResponse, CloseThrows, Disconnect,
                    ClientCloses, Goto
      <3>4. CASE Transmit \/ Cancel
        BY <3>4 DEF Transmit, Cancel
      <3>5. CASE Done \/ UNCHANGED vars
        BY <3>5 DEF Done, vars, readVars
      <3>6. CASE DisconnectThrows
        <4>1. pc = "disconnecting" /\ connected' = FALSE /\ UNCHANGED readVars
          BY <3>6 DEF DisconnectThrows, Goto
        <4>2. page = "site" /\ headersRead => ~firstRead /\ position = response.body
          BY <4>1 DEF LengthInv
        <4> QED
          BY <2>3, <4>1, <4>2 DEF readVars
      <3> QED
        BY <1>2, <3>1, <3>2, <3>3, <3>4, <3>5, <3>6
    <2> QED
      BY <2>2, <2>3, <2>4 DEF CrashInv
  <1> QED
    BY <1>1, <1>2 DEF Next

LEMMA RouteInitInv == Init => IndInv
  <1> SUFFICES ASSUME Init PROVE IndInv
    OBVIOUS
  <1>1. TypeOK /\ StreamIndInv /\ ReadInv /\ OutputInv
    BY RouteInit
  <1>2. Counted("site") = 0 /\ Len(wire) = 0
    BY <1>1, CountedNone, EmptySeq DEF Init
  <1>3. LengthInv /\ CrashInv
    BY <1>2 DEF Init, StreamInit, LengthInv, CrashInv
  <1> QED
    BY <1>1, <1>3 DEF IndInv

\* One connection: what the callback reads, what its sends still hold and what has
\* left agree with each other, whatever is sent, answered or cancelled.
THEOREM RouteIndInv == Spec => []IndInv
  <1>1. IndInv /\ [Next]_vars => IndInv'
    BY RouteStream, RouteTypeOK, RouteReadInv, RouteOutputInv, RouteLengthInv, RouteCrashInv
       DEF IndInv
  <1> QED
    BY <1>1, RouteInitInv, PTL DEF Spec

\* SendResponse and SendData: the client gets a beginning of what the website
\* answered, then of the error page, unless an array was reused during a send.
THEOREM RouteIntactUnlessOverlapped == Spec => []IntactUnlessOverlapped
  <1>1. IndInv => IntactUnlessOverlapped
    BY OutputIntact DEF IndInv
  <1> QED
    BY <1>1, RouteIndInv, PTL

\* SendResponse: when its loop has come to the end of a response on a connected
\* socket, as many bytes as were announced have left or are on their way.
THEOREM RouteLengthsHonest == Spec => []LengthsHonest
  <1>1. IndInv => LengthsHonest
    <2> SUFFICES ASSUME IndInv, pc = "disconnecting", connected, page = "site", headersRead
                 PROVE  Len(wire) + Counted("site") = Len(Site(response))
      BY DEF LengthsHonest
    <2>1. /\ ~firstRead /\ response \in Responses /\ position = response.body
          /\ Len(wire) + Counted("site") = Min({BufferSize, response.head}) + position
      BY DEF IndInv, LengthInv
    <2>2. BufferSize \in Int /\ response.head \in Int
      BY Facts DEF IndInv
    <2>3. Min({BufferSize, response.head}) = Fits(response.head)
      BY <2>2, MinOfTwo DEF Fits
    <2> QED
      BY <2>1, <2>3, SiteProperties
  <1> QED
    BY <1>1, RouteIndInv, PTL

\* SocketConnectionOnDataReceived: a request with proper header lines ends the process
\* only out of a catch block, where the error page itself cannot be sent, or from behind
\* the close of its socket, in a handler of Disconnected, when the website's response has
\* been read to its end.
THEOREM RouteCrashExplained ==
  Spec => [](pc = "crashed" /\ request.fields = "named" =>
               \/ connected /\ page = "error"
               \/ ~connected /\ (page = "site" /\ headersRead =>
                                   ~firstRead /\ position = response.body))
  <1>1. IndInv => (pc = "crashed" /\ request.fields = "named" =>
                     \/ connected /\ page = "error"
                     \/ ~connected /\ (page = "site" /\ headersRead =>
                                         ~firstRead /\ position = response.body))
    BY DEF IndInv, CrashInv
  <1> QED
    BY <1>1, RouteIndInv, PTL

\* SocketConnectionOnDataReceived: the stream is not written to once its headers
\* are read.
THEOREM RouteNoWriteAfterHeaders == Spec => NoWriteAfterHeaders
  <1>1. IndInv /\ [Next]_vars => [headersRead => received' = received]_vars
    BY RouteWritesOnlyWhileReceiving DEF IndInv
  <1> QED
    BY <1>1, RouteIndInv, PTL DEF Spec, NoWriteAfterHeaders

\* SocketConnectionOnDataReceived writes to the stream and nothing else does: a connection,
\* whatever it sends, uses its stream as HttpRequestStream allows.
THEOREM RouteImplementsStream == Spec => StreamSpec
  <1>1. Init => StreamInit
    BY DEF Init
  <1>2. [Next]_vars => [StreamNext]_streamVars
    <2>1. CASE \E count \in 1 .. Size : DataReceived(count)
      BY <2>1 DEF DataReceived, StreamNext
    <2>2. CASE \/ HeadersNull \/ Respond \/ RespondError \/ SendChunk \/ SendThrows
               \/ EndResponse \/ CloseThrows \/ Disconnect \/ DisconnectThrows
               \/ Transmit \/ Cancel \/ ClientCloses \/ Done \/ UNCHANGED vars
      BY <2>2 DEF vars, HeadersNull, Respond, RespondError, SendChunk, SendThrows,
                  EndResponse, CloseThrows, Disconnect, DisconnectThrows,
                  Transmit, Cancel, ClientCloses, Done
    <2> QED
      BY <2>1, <2>2 DEF Next
  <1> QED
    BY <1>1, <1>2, PTL DEF Spec, StreamSpec

\* The chunk that holds the end of the headers: of a plain request it keeps what
\* is left of it when as many bytes are skipped as the headers are long.
LEMMA StoredByWrite ==
  ASSUME StreamIndInv, NEW count \in 1 .. Size, Write(count),
         ~headersRead, headersRead', Plain, ~failed'
  PROVE  StoredBodyIsEnd'
  <1>1. /\ request' = request /\ received' = received + count /\ writes' = writes + 1
        /\ received + count <= Size /\ bodyStream' = bodyStream \o BodyBytes(count)
        /\ headersRead \/ FindsBlankLine(count)
    BY DEF Write
  <1>2. /\ received \in Nat /\ count \in Nat \ {0} /\ HeadEnd \in Nat /\ writes \in Nat
        /\ received < HeadEnd /\ HeadEnd <= received + count
        /\ bodyStream = <<>>
    BY <1>1, RequestAssumption
       DEF StreamIndInv, StreamTypeOK, Collecting, IsRequest, HeadEnd, Size, FindsBlankLine
  <1>3. WholeBody' = [i \in 1 .. received + count - HeadEnd |-> HeadEnd + i]
    <2>1. HeadEnd' = HeadEnd
      BY <1>1 DEF HeadEnd
    <2>2. WholeBody' = [i \in 1 .. received' - HeadEnd' |-> HeadEnd' + i]
      BY DEF WholeBody
    <2>3. received' - HeadEnd' = received + count - HeadEnd
      BY <1>1, <1>2, <2>1
    <2> QED
      BY <2>1, <2>2, <2>3, Zenon
  <1> DEFINE L == received + count - HeadEnd
             K == count - HeadEnd
             whole == [i \in 1 .. L |-> HeadEnd + i]
             bytes == [i \in 1 .. K |-> received + HeadEnd + i]
             n == IF K >= 0 THEN received ELSE L
             end == SubSeq(whole, n + 1, L)
  <1>4. BodyBytes(count) = bytes /\ BodyBytes(count) \in Seq(1 .. Size)
    BY <1>1, BodyBytesProperties
  <1>5. bodyStream' = bytes
    BY <1>1, <1>2, <1>4, ConcatEmptySeq
  <1>6. L \in Nat /\ K \in Int /\ n \in 0 .. L
    BY <1>2
  <1>7. bytes \in Seq(Int) /\ Len(bytes) = IF K >= 0 THEN K ELSE 0
    <2>1. bytes \in [1 .. K -> Int]
      BY <1>2
    <2> QED
      BY <1>6, <2>1, TupleProperties
  <1>8. whole \in Seq(Int) /\ Len(whole) = L
    <2>1. whole \in [1 .. L -> Int]
      BY <1>2
    <2> QED
      BY <1>6, <2>1, TupleProperties
  <1>9. /\ end \in Seq(Int) /\ Len(end) = IF n + 1 <= L THEN L - (n + 1) + 1 ELSE 0
        /\ \A i \in 1 .. L - (n + 1) + 1 : end[i] = whole[n + 1 + i - 1]
    <2>1. \A i \in n + 1 .. L : whole[i] \in Int
      BY <1>2, <1>6
    <2>2. n + 1 \in Int /\ L \in Int
      BY <1>6
    <2> HIDE DEF whole, n, L
    <2> QED
      BY <2>1, <2>2, SubSeqProperties
  <1>10. bytes = end
    <2>1. \/ K >= 0 /\ n = received /\ L - (n + 1) + 1 = K
          \/ K < 0 /\ n = L
      BY <1>2
    <2>2. Len(bytes) = Len(end)
      <3>1. Len(end) = IF n + 1 <= L THEN L - (n + 1) + 1 ELSE 0
        BY <1>9
      <3>2. Len(bytes) = IF K >= 0 THEN K ELSE 0
        BY <1>7
      <3> HIDE DEF bytes, end, K, L, n
      <3> QED
        BY <1>6, <2>1, <3>1, <3>2
    <2>3. ASSUME NEW i \in 1 .. Len(bytes) PROVE bytes[i] = end[i]
      <3>1. K >= 0 /\ i \in 1 .. K /\ n = received
        <4>1. Len(bytes) = IF K >= 0 THEN K ELSE 0
          BY <1>7
        <4> HIDE DEF bytes, K, n, L
        <4>2. K >= 0 /\ i \in 1 .. K
          BY <1>6, <2>3, <4>1
        <4> QED
          BY <1>6, <2>1, <4>2
      <3>2. i \in 1 .. L - (n + 1) + 1 /\ n + 1 + i - 1 = received + i /\ received + i \in 1 .. L
        BY <1>2, <3>1
      <3>3. end[i] = whole[received + i]
        BY <1>9, <3>2
      <3>4. whole[received + i] = HeadEnd + (received + i)
        BY <3>2
      <3>5. bytes[i] = received + HeadEnd + i
        BY <3>1
      <3> QED
        BY <1>2, <3>1, <3>3, <3>4, <3>5
    <2> HIDE DEF bytes, end
    <2> QED
      BY <1>7, <1>9, <2>2, <2>3, SeqEqual
  <1>11. writes' = 1 => n = 0
    <2>1. writes' = 1 => received = 0
      BY <1>1, <1>2 DEF StreamIndInv
    <2> QED
      BY <1>2, <2>1
  <1> HIDE DEF n, bytes, whole
  <1>12. WholeBody' = whole /\ Len(whole) = L
    BY <1>3, <1>8 DEF whole
  <1>13. /\ n \in 0 .. Len(WholeBody') /\ (writes' = 1 => n = 0)
         /\ bodyStream' = SubSeq(WholeBody', n + 1, Len(WholeBody'))
    BY <1>5, <1>6, <1>10, <1>11, <1>12
  <1> QED
    BY <1>13 DEF StoredBodyIsEnd

LEMMA RouteStoredBodyStep ==
  ASSUME IndInv, StoredBodyIsEnd, [Next]_vars
  PROVE  StoredBodyIsEnd'
  <1>1. StreamIndInv /\ ReadInv
    BY DEF IndInv
  <1>2. ASSUME NEW count \in 1 .. Size, DataReceived(count) PROVE StoredBodyIsEnd'
    <2>1. Write(count) /\ ~headersRead /\ request' = request
      BY <1>1, <1>2 DEF DataReceived, Write, Goto, ReadInv
    <2>2. CASE headersRead' /\ Plain /\ ~failed'
      BY <1>1, <2>1, <2>2, StoredByWrite
    <2>3. CASE ~(headersRead' /\ Plain' /\ ~failed')
      BY <2>3 DEF StoredBodyIsEnd
    <2> QED
      BY <2>1, <2>2, <2>3 DEF Plain
  <1>3. CASE \/ HeadersNull \/ Respond \/ RespondError \/ SendChunk \/ SendThrows
             \/ EndResponse \/ CloseThrows \/ Disconnect \/ DisconnectThrows
             \/ Transmit \/ Cancel \/ ClientCloses \/ Done \/ UNCHANGED vars
    <2>1. UNCHANGED streamVars
      BY <1>3 DEF vars, HeadersNull, Respond, RespondError, SendChunk, SendThrows,
                  EndResponse, CloseThrows, Disconnect, DisconnectThrows,
                  Transmit, Cancel, ClientCloses, Done
    <2>2. /\ request' = request /\ received' = received /\ writes' = writes
          /\ headersRead' = headersRead /\ bodyStream' = bodyStream /\ failed' = failed
      BY <2>1 DEF streamVars
    <2>3. WholeBody' = WholeBody /\ Plain' = Plain
      BY <2>2 DEF WholeBody, HeadEnd, Plain
    <2> QED
      BY <2>2, <2>3 DEF StoredBodyIsEnd
  <1> QED
    BY <1>2, <1>3 DEF Next

\* HttpRequestStream.Write, as SocketConnectionOnDataReceived calls it: what is stored of
\* the body of a plain request, when it goes to a website, is the end of what has arrived
\* of it, and all of it if one chunk held the headers; whatever follows is never stored.
THEOREM RouteStoredBody == Spec => []StoredBodyIsEnd
  <1>1. Init => StoredBodyIsEnd
    BY DEF Init, StreamInit, StoredBodyIsEnd
  <1>2. IndInv /\ StoredBodyIsEnd /\ [Next]_vars => StoredBodyIsEnd'
    BY RouteStoredBodyStep
  <1> QED
    BY <1>1, <1>2, RouteIndInv, PTL DEF Spec
=============================================================================
