----------------------- MODULE SocketConnection_proofs -----------------------
(***************************************************************************)
(* Proofs about SocketConnection.tla, for any finite sets of connections   *)
(* and args objects.  IndInv is inductive; the invariants TLC checks       *)
(* follow from it.                                                         *)
(***************************************************************************)
EXTENDS SocketConnection, SequenceTheorems, FiniteSetTheorems, TLAPS

PoolProofs == INSTANCE BufferPool_proofs WITH NumberOfBuffers <- MaxCapacity

\* Push: the new top, and the elements below it.
LEMMA PushProperties ==
  ASSUME NEW s \in Seq(Nat), NEW e \in Nat
  PROVE  /\ Len(s) \in Nat
         /\ Append(s, e) \in Seq(Nat)
         /\ Len(Append(s, e)) = Len(s) + 1
         /\ DOMAIN Append(s, e) = DOMAIN s \cup {Len(s) + 1}
         /\ \A i \in DOMAIN s : Append(s, e)[i] = s[i]
         /\ Append(s, e)[Len(s) + 1] = e
  <1>1. /\ Append(s, e) \in Seq(Nat)
        /\ Len(Append(s, e)) = Len(s) + 1
        /\ \A i \in 1 .. Len(s) : Append(s, e)[i] = s[i]
        /\ Append(s, e)[Len(s) + 1] = e
    BY AppendProperties
  <1>2. Len(s) \in Nat /\ DOMAIN s = 1 .. Len(s)
    BY LenProperties
  <1>3. DOMAIN Append(s, e) = 1 .. Len(s) + 1
    BY <1>1, LenProperties
  <1>4. 1 .. Len(s) + 1 = 1 .. Len(s) \cup {Len(s) + 1}
    BY <1>2
  <1> QED
    BY <1>1, <1>2, <1>3, <1>4

\* The two pools have a capacity.
LEMMA CapacityType == MaxCapacity \in Nat
  BY FiniteAssumption, FS_CardinalityType DEF MaxCapacity

\* The connections that owe the pool a buffer can be counted.
LEMMA InDebtFinite == IsFiniteSet(InDebt) /\ Cardinality(InDebt) \in Nat
  <1>1. InDebt \in SUBSET Connections
    BY DEF InDebt, WithBuffer, WithArgs
  <1> QED
    BY <1>1, FiniteAssumption, FS_Subset, FS_CardinalityType

\* At the start the pools are full and no connection holds anything.
LEMMA InitIndInv == Init => IndInv
  <1> SUFFICES ASSUME Init PROVE IndInv
    OBVIOUS
  <1>1. WithArgs = {} /\ WithBuffer = {} /\ InDebt = {}
    BY DEF Init, WithArgs, WithBuffer, InDebt
  <1>2. TypeOK
    BY DEF Init, TypeOK, Steps, Pool!Init
  <1>3. ArgsOwned
    BY <1>1, NullAssumption DEF Init, ArgsOwned
  <1>4. ArgsConserved
    BY <1>1, NullAssumption DEF Init, ArgsConserved
  <1>5. BuffersAccounted
    <2>1. Cardinality(InDebt) = 0
      BY <1>1, FS_EmptySet
    <2> QED
      BY <2>1, CapacityType
      DEF Init, Pool!Init, BuffersAccounted, Pool!Available
  <1> QED
    BY <1>1, <1>2, <1>3, <1>4, <1>5
    DEF Init, Pool!Init, IndInv, BuffersHeld, IdleArgsHoldNoBuffer,
        OnlyFirstReturned, HeldBelowIndex, OnlyFirstBufferShared
-----------------------------------------------------------------------------
(* Steps that leave the pools and their users alone                          *)

\* What such a step does to who holds what.
SameHolders ==
  WithArgs' = WithArgs /\ WithBuffer' = WithBuffer /\ InDebt' = InDebt

\* A step that moves neither buffers nor their holders.
LEMMA SameBuffersStep ==
  ASSUME IndInv, SameHolders, UNCHANGED <<eventReceiveArgs, poolVars>>
  PROVE  /\ BuffersHeld' /\ IdleArgsHoldNoBuffer' /\ BuffersAccounted'
         /\ OnlyFirstReturned' /\ HeldBelowIndex' /\ OnlyFirstBufferShared'
  <1>1. /\ eventReceiveArgs' = eventReceiveArgs
        /\ freeIndexPool' = freeIndexPool
        /\ currentIndex' = currentIndex
        /\ buffer' = buffer
    BY DEF poolVars
  <1>2. BuffersHeld' /\ IdleArgsHoldNoBuffer' /\ OnlyFirstBufferShared'
    BY <1>1
    DEF IndInv, SameHolders, BuffersHeld, IdleArgsHoldNoBuffer,
        OnlyFirstBufferShared
  <1>3. BuffersAccounted'
    BY <1>1 DEF IndInv, SameHolders, BuffersAccounted, Pool!Available
  <1>4. OnlyFirstReturned' /\ HeldBelowIndex'
    BY <1>1 DEF IndInv, OnlyFirstReturned, HeldBelowIndex
  <1> QED
    BY <1>2, <1>3, <1>4

\* A step that leaves args objects and buffers where they are.
LEMMA QuietStep ==
  ASSUME IndInv, TypeOK', SameHolders,
         UNCHANGED <<argsPool, eventReceiveArgs, sending, poolVars>>
  PROVE  IndInv'
  <1>1. ArgsOwned' /\ ArgsConserved'
    BY DEF IndInv, SameHolders, ArgsOwned, ArgsConserved
  <1> QED
    BY <1>1, SameBuffersStep DEF IndInv

\* A step of pc from one of two places with the same holdings to the other.
LEMMA GotoSameHolders ==
  ASSUME TypeOK, NEW c \in Connections, NEW from, NEW to, Goto(c, from, to),
         \/ from = "closed" /\ to = "accepted"
         \/ /\ from \in {"listening", "receiving", "handling", "responding",
                         "errorResponding", "disconnecting", "renewing"}
            /\ to \in {"listening", "receiving", "handling", "responding",
                       "errorResponding", "disconnecting", "renewing"}
  PROVE  SameHolders /\ pc' \in [Connections -> Steps] /\ up' \in BOOLEAN
  <1>1. /\ pc[c] = from /\ pc' = [pc EXCEPT ![c] = to]
        /\ pc' \in [Connections -> Steps]
        /\ up' \in BOOLEAN
    BY DEF TypeOK, Goto, Steps
  <1>2. pc'[c] = to /\ \A d \in Connections : d # c => pc'[d] = pc[d]
    BY <1>1 DEF TypeOK
  <1>3. WithArgs' = WithArgs
    BY <1>1, <1>2 DEF WithArgs
  <1>4. WithBuffer' = WithBuffer
    BY <1>1, <1>2, <1>3 DEF WithBuffer
  <1>5. InDebt' = InDebt
    BY <1>1, <1>2, <1>4 DEF InDebt
  <1> QED
    BY <1>1, <1>3, <1>4, <1>5 DEF SameHolders

\* Who holds what is read off pc alone.
LEMMA SamePCSameHolders ==
  ASSUME pc' = pc
  PROVE  SameHolders
  BY DEF SameHolders, WithArgs, WithBuffer, InDebt

\* The end of the process changes nothing else.
LEMMA CrashStep ==
  ASSUME IndInv, NEW c \in Connections, NEW at, Crash(c, at)
  PROVE  IndInv'
  <1>1. TypeOK'
    BY DEF IndInv, TypeOK, Crash, poolVars
  <1>2. SameHolders
    BY SamePCSameHolders DEF Crash
  <1> QED
    BY <1>1, <1>2, QuietStep DEF Crash

\* The actions that move neither args objects nor buffers.
LEMMA QuietActions ==
  ASSUME IndInv, NEW c \in Connections,
         \/ Accept(c) \/ ListenForData(c) \/ ReceiveData(c) \/ ReceiveEnd(c)
         \/ ReceiveReset(c) \/ HeadersIncomplete(c) \/ BeginResponse(c)
         \/ EndResponse(c) \/ CloseThrows(c) \/ SendChunkThrows(c)
         \/ SkipErrorPage(c) \/ SendFails(c) \/ ReleaseSocket(c)
  PROVE  IndInv'
  <1> USE DEF IndInv
  <1>1. UNCHANGED <<argsPool, eventReceiveArgs, sending, poolVars>>
    BY DEF Accept, ListenForData, ReceiveData, ReceiveEnd, ReceiveReset,
           HeadersIncomplete, BeginResponse, EndResponse, CloseThrows,
           SendChunkThrows, SkipErrorPage, SendFails, ReleaseSocket
  <1>2. socket' \in [Connections -> {"connected", "reset", "null"}]
    BY DEF Accept, ListenForData, ReceiveData, ReceiveEnd, ReceiveReset,
           HeadersIncomplete, BeginResponse, EndResponse, CloseThrows,
           SendChunkThrows, SkipErrorPage, SendFails, ReleaseSocket, TypeOK
  <1>3. SameHolders /\ pc' \in [Connections -> Steps] /\ up' \in BOOLEAN
    <2>1. CASE Accept(c)
      BY <2>1, GotoSameHolders DEF Accept
    <2>2. CASE ListenForData(c)
      BY <2>2, GotoSameHolders DEF ListenForData
    <2>3. CASE ReceiveData(c)
      BY <2>3, GotoSameHolders DEF ReceiveData
    <2>4. CASE ReceiveEnd(c)
      BY <2>4, GotoSameHolders DEF ReceiveEnd
    <2>5. CASE ReceiveReset(c)
      BY <2>5, GotoSameHolders DEF ReceiveReset
    <2>6. CASE HeadersIncomplete(c)
      BY <2>6, GotoSameHolders DEF HeadersIncomplete
    <2>7. CASE BeginResponse(c)
      BY <2>7, GotoSameHolders DEF BeginResponse
    <2>8. CASE EndResponse(c)
      BY <2>8, GotoSameHolders DEF EndResponse
    <2>9. CASE SendChunkThrows(c)
      BY <2>9, GotoSameHolders DEF SendChunkThrows
    <2>10. CASE SkipErrorPage(c)
      BY <2>10, GotoSameHolders DEF SkipErrorPage
    <2>11. CASE SendFails(c)
      BY <2>11, SamePCSameHolders DEF SendFails, TypeOK
    <2>12. CASE ReleaseSocket(c)
      BY <2>12, GotoSameHolders DEF ReleaseSocket
    <2>13. CASE CloseThrows(c)
      BY <2>13, GotoSameHolders DEF CloseThrows
    <2> QED
      BY <2>1, <2>2, <2>3, <2>4, <2>5, <2>6, <2>7, <2>8, <2>9, <2>10,
         <2>11, <2>12, <2>13
  <1>4. TypeOK'
    BY <1>1, <1>2, <1>3 DEF TypeOK, poolVars
  <1> QED
    BY <1>1, <1>3, <1>4, QuietStep
-----------------------------------------------------------------------------
(* Steps that move args objects                                              *)

\* SendData moves an args object from the pool to a send.
LEMMA StartSendStep ==
  ASSUME IndInv, NEW c \in Connections, SameHolders, StartSend(c),
         pc' \in [Connections -> Steps], up' \in BOOLEAN
  PROVE  IndInv'
  <1> USE DEF IndInv
  <1>1. PICK a \in argsPool :
          /\ argsPool' = argsPool \ {a}
          /\ sending' = [sending EXCEPT ![c] = @ \cup {a}]
    BY DEF StartSend
  <1>2. UNCHANGED <<socket, eventReceiveArgs, poolVars>> /\ a \in Args
    BY DEF StartSend, TypeOK
  <1>3. TypeOK'
    BY <1>1, <1>2 DEF TypeOK, poolVars
  <1>4. /\ sending'[c] = sending[c] \cup {a}
        /\ \A d \in Connections : d # c => sending'[d] = sending[d]
    BY <1>1 DEF TypeOK
  <1>5. ArgsOwned'
    BY <1>2 DEF SameHolders, ArgsOwned
  <1>6. ArgsConserved'
    BY <1>1, <1>2, <1>4 DEF SameHolders, ArgsConserved
  <1> QED
    BY <1>2, <1>3, <1>5, <1>6, SameBuffersStep

\* SendCompleted moves it back.
LEMMA SendCompletedStep ==
  ASSUME IndInv, NEW c \in Connections, NEW a \in Args, SendCompleted(c, a)
  PROVE  IndInv'
  <1> USE DEF IndInv
  <1>1. /\ a \in sending[c]
        /\ argsPool' = argsPool \cup {a}
        /\ sending' = [sending EXCEPT ![c] = @ \ {a}]
        /\ UNCHANGED <<up, pc, socket, eventReceiveArgs, poolVars>>
    BY DEF SendCompleted
  <1>2. TypeOK'
    BY <1>1 DEF TypeOK, poolVars
  <1>3. SameHolders
    BY <1>1, SamePCSameHolders
  <1>4. /\ sending'[c] = sending[c] \ {a}
        /\ \A d \in Connections : d # c => sending'[d] = sending[d]
    BY <1>1 DEF TypeOK
  <1>5. ArgsOwned'
    BY <1>1, <1>3 DEF SameHolders, ArgsOwned
  <1>6. ArgsConserved'
    BY <1>1, <1>3, <1>4 DEF SameHolders, ArgsConserved
  <1> QED
    BY <1>1, <1>2, <1>3, <1>5, <1>6, SameBuffersStep

\* The constructor moves an args object from the pool to the connection.
LEMMA TakeArgsStep ==
  ASSUME IndInv, NEW c \in Connections, TakeArgs(c)
  PROVE  IndInv'
  <1> USE DEF IndInv
  <1>1. PICK a \in argsPool :
          /\ argsPool' = argsPool \ {a}
          /\ eventReceiveArgs' = [eventReceiveArgs EXCEPT ![c] = a]
    BY DEF TakeArgs
  <1>2. /\ UNCHANGED <<up, socket, sending, poolVars>> /\ a \in Args
        /\ pc[c] = "accepted" /\ pc' = [pc EXCEPT ![c] = "argsTaken"]
    BY DEF TakeArgs, Goto, TypeOK
  <1>3. TypeOK'
    BY <1>1, <1>2 DEF TypeOK, poolVars, Steps
  <1>4. /\ pc'[c] = "argsTaken"
        /\ eventReceiveArgs'[c] = a
        /\ \A d \in Connections : d # c => /\ pc'[d] = pc[d]
                                           /\ eventReceiveArgs'[d] = eventReceiveArgs[d]
    BY <1>1, <1>2 DEF TypeOK
  <1>5. /\ c \notin WithArgs
        /\ WithArgs' = WithArgs \cup {c}
        /\ WithBuffer' = WithBuffer
        /\ InDebt' = InDebt
    <2>1. c \notin WithArgs /\ WithArgs' = WithArgs \cup {c}
      BY <1>2, <1>4 DEF WithArgs
    <2>2. WithBuffer' = WithBuffer
      BY <1>2, <1>4, <2>1 DEF WithBuffer
    <2> QED
      BY <1>2, <1>4, <2>1, <2>2 DEF InDebt
  <1>6. ArgsOwned'
    BY <1>2, <1>4, <1>5 DEF ArgsOwned
  <1>7. eventReceiveArgs[c] = Null
    BY <1>5 DEF ArgsOwned, TypeOK
  <1>8. ArgsConserved'
    <2>1. \A b \in Args :
            \/ b \in argsPool'
            \/ \E d \in Connections : b = eventReceiveArgs'[d] \/ b \in sending'[d]
      BY <1>1, <1>2, <1>4, <1>7, NullAssumption DEF ArgsConserved
    <2>2. \A d, e \in Connections :
            /\ sending'[d] \cap argsPool' = {}
            /\ eventReceiveArgs'[d] \notin argsPool' \cup sending'[e]
            /\ d # e => sending'[d] \cap sending'[e] = {}
      BY <1>1, <1>2, <1>4 DEF ArgsConserved
    <2>3. \A d, e \in Connections :
            d # e /\ d \in WithArgs' => eventReceiveArgs'[d] # eventReceiveArgs'[e]
      BY <1>1, <1>4, <1>5 DEF ArgsConserved
    <2> QED
      BY <2>1, <2>2, <2>3 DEF ArgsConserved
  <1>9. c \notin WithBuffer
    BY <1>5 DEF WithBuffer
  <1>10. /\ freeIndexPool' = freeIndexPool
         /\ currentIndex' = currentIndex
         /\ buffer' = buffer
    BY <1>2 DEF poolVars
  <1>11. \A d \in WithBuffer : eventReceiveArgs'[d] = eventReceiveArgs[d]
    BY <1>4, <1>9 DEF WithBuffer, WithArgs
  <1>12. BuffersHeld' /\ IdleArgsHoldNoBuffer' /\ OnlyFirstBufferShared'
    BY <1>5, <1>10, <1>11
    DEF BuffersHeld, IdleArgsHoldNoBuffer, OnlyFirstBufferShared
  <1>13. BuffersAccounted'
    BY <1>5, <1>10 DEF BuffersAccounted, Pool!Available
  <1>14. OnlyFirstReturned' /\ HeldBelowIndex'
    BY <1>10 DEF OnlyFirstReturned, HeldBelowIndex
  <1> QED
    BY <1>3, <1>6, <1>8, <1>12, <1>13, <1>14

\* Disconnect moves it back; the connection then holds nothing.
LEMMA ReturnArgsStep ==
  ASSUME IndInv, NEW c \in Connections, ReturnArgs(c)
  PROVE  IndInv'
  <1> USE DEF IndInv
  <1> DEFINE a == eventReceiveArgs[c]
  <1>1. /\ argsPool' = argsPool \cup {a}
        /\ eventReceiveArgs' = [eventReceiveArgs EXCEPT ![c] = Null]
        /\ UNCHANGED <<up, socket, sending, poolVars>>
        /\ pc[c] = "returningArgs" /\ pc' = [pc EXCEPT ![c] = "closed"]
    BY DEF ReturnArgs, Goto
  <1>2. /\ pc'[c] = "closed"
        /\ eventReceiveArgs'[c] = Null
        /\ \A d \in Connections : d # c => /\ pc'[d] = pc[d]
                                           /\ eventReceiveArgs'[d] = eventReceiveArgs[d]
    BY <1>1 DEF TypeOK
  <1>3. /\ c \in WithArgs
        /\ WithArgs' = WithArgs \ {c}
        /\ c \notin WithBuffer
        /\ WithBuffer' = WithBuffer
        /\ InDebt' = InDebt
    <2>1. c \in WithArgs /\ WithArgs' = WithArgs \ {c} /\ c \notin WithBuffer
      BY <1>1, <1>2 DEF WithArgs, WithBuffer
    <2>2. WithBuffer' = WithBuffer
      BY <1>1, <1>2, <2>1 DEF WithBuffer
    <2> QED
      BY <1>1, <1>2, <2>1, <2>2 DEF InDebt
  <1>4. a \in Args
    BY <1>3 DEF ArgsOwned
  <1>5. TypeOK'
    BY <1>1, <1>4 DEF TypeOK, poolVars, Steps
  <1>6. ArgsOwned'
    BY <1>2, <1>3, NullAssumption DEF ArgsOwned
  <1>7. ArgsConserved'
    <2>1. \A b \in Args :
            \/ b \in argsPool'
            \/ \E d \in Connections : b = eventReceiveArgs'[d] \/ b \in sending'[d]
      BY <1>1, <1>2 DEF ArgsConserved
    <2>2. \A d \in Connections : a \notin sending[d]
      BY DEF ArgsConserved
    <2>3. \A d, e \in Connections :
            /\ sending'[d] \cap argsPool' = {}
            /\ d # e => sending'[d] \cap sending'[e] = {}
      BY <1>1, <2>2 DEF ArgsConserved
    <2>4. \A d, e \in Connections :
            eventReceiveArgs'[d] \notin argsPool' \cup sending'[e]
      <3> SUFFICES ASSUME NEW d \in Connections, NEW e \in Connections
                   PROVE  eventReceiveArgs'[d] \notin argsPool' \cup sending'[e]
        OBVIOUS
      <3>1. CASE d = c
        BY <1>1, <1>2, <1>4, <3>1, NullAssumption DEF TypeOK
      <3>2. CASE d # c
        BY <1>1, <1>2, <1>3, <3>2 DEF ArgsConserved
      <3> QED
        BY <3>1, <3>2
    <2>5. \A d, e \in Connections :
            d # e /\ d \in WithArgs' => eventReceiveArgs'[d] # eventReceiveArgs'[e]
      BY <1>2, <1>3, NullAssumption DEF ArgsConserved, ArgsOwned
    <2> QED
      BY <2>1, <2>3, <2>4, <2>5 DEF ArgsConserved
  <1>8. /\ freeIndexPool' = freeIndexPool
        /\ currentIndex' = currentIndex
        /\ buffer' = buffer
    BY <1>1 DEF poolVars
  <1>9. \A d \in WithBuffer : eventReceiveArgs'[d] = eventReceiveArgs[d]
    BY <1>2, <1>3 DEF WithBuffer, WithArgs
  <1>10. BuffersHeld' /\ IdleArgsHoldNoBuffer' /\ OnlyFirstBufferShared'
    BY <1>3, <1>8, <1>9
    DEF BuffersHeld, IdleArgsHoldNoBuffer, OnlyFirstBufferShared
  <1>11. BuffersAccounted'
    BY <1>3, <1>8 DEF BuffersAccounted, Pool!Available
  <1>12. OnlyFirstReturned' /\ HeldBelowIndex'
    BY <1>8 DEF OnlyFirstReturned, HeldBelowIndex
  <1> QED
    BY <1>5, <1>6, <1>7, <1>10, <1>11, <1>12
-----------------------------------------------------------------------------
(* Steps that move buffers                                                   *)

\* Args objects of different connections differ.
LEMMA DifferentArgs ==
  ASSUME IndInv, NEW c \in WithArgs, NEW d \in WithArgs, c # d
  PROVE  eventReceiveArgs[c] # eventReceiveArgs[d]
  BY DEF IndInv, ArgsConserved, WithArgs

\* A step that moves neither args objects nor their owners.
LEMMA SameArgsStep ==
  ASSUME IndInv, WithArgs' = WithArgs,
         UNCHANGED <<argsPool, eventReceiveArgs, sending>>
  PROVE  ArgsOwned' /\ ArgsConserved'
  BY DEF IndInv, ArgsOwned, ArgsConserved

\* The constructor gets a returned offset, which is 0, or one above all others.
LEMMA TakeBufferStep ==
  ASSUME IndInv, NEW c \in Connections, TakeBuffer(c)
  PROVE  IndInv'
  <1> USE DEF IndInv
  <1> DEFINE a == eventReceiveArgs[c]
             top == Len(freeIndexPool)
             i == IF freeIndexPool # <<>> THEN freeIndexPool[top] ELSE currentIndex
  <1>1. /\ UNCHANGED <<up, socket, argsPool, eventReceiveArgs, sending>>
        /\ pc[c] = "argsTaken" /\ pc' = [pc EXCEPT ![c] = "listening"]
    BY DEF TakeBuffer, Goto
  <1>2. /\ pc'[c] = "listening"
        /\ \A d \in Connections : d # c => pc'[d] = pc[d]
    BY <1>1 DEF TypeOK
  <1>3. /\ c \in WithArgs /\ WithArgs' = WithArgs
        /\ c \notin WithBuffer /\ WithBuffer' = WithBuffer \cup {c}
        /\ c \notin InDebt /\ InDebt' = InDebt \cup {c}
    <2>1. c \in WithArgs /\ WithArgs' = WithArgs
      BY <1>1, <1>2 DEF WithArgs
    <2>2. c \notin WithBuffer /\ WithBuffer' = WithBuffer \cup {c}
      BY <1>1, <1>2, <2>1 DEF WithBuffer
    <2> QED
      BY <1>1, <1>2, <2>1, <2>2 DEF InDebt
  <1>4. a \in Args /\ a \notin argsPool
    BY <1>3 DEF ArgsOwned, ArgsConserved
  <1>5. buffer[a] = NoBuffer
    <2>1. \A d \in WithBuffer : eventReceiveArgs[d] # a
      BY <1>3, DifferentArgs DEF WithBuffer
    <2> QED
      BY <1>4, <2>1 DEF IdleArgsHoldNoBuffer
  <1>6. Cardinality(InDebt') = Cardinality(InDebt) + 1
    BY <1>3, InDebtFinite, FS_AddElement
  <1>7. buffer' = [buffer EXCEPT ![a] = i]
    BY DEF TakeBuffer, Pool!CheckOut, Pool!CheckOutReturned, Pool!CheckOutFresh
  <1>8. /\ freeIndexPool' \in Seq(Nat) /\ currentIndex' \in Nat
        /\ i \in Nat
        /\ i = 0 \/ (i = currentIndex /\ currentIndex' = currentIndex + 1)
        /\ i < currentIndex' \/ i = 0
        /\ currentIndex' >= currentIndex
        /\ (MaxCapacity - currentIndex') + Len(freeIndexPool') =
              (MaxCapacity - currentIndex) + Len(freeIndexPool) - 1
        /\ OnlyFirstReturned'
    <2>1. CASE Pool!CheckOutReturned(a)
      <3>1. /\ freeIndexPool # <<>>
            /\ freeIndexPool' = SubSeq(freeIndexPool, 1, top - 1)
            /\ currentIndex' = currentIndex
        BY <2>1 DEF Pool!CheckOutReturned
      <3>2. /\ top \in Nat \ {0}
            /\ freeIndexPool' \in Seq(Nat)
            /\ Len(freeIndexPool') = top - 1
            /\ DOMAIN freeIndexPool' = 1 .. top - 1
            /\ DOMAIN freeIndexPool = 1 .. top
            /\ \A k \in 1 .. top - 1 : freeIndexPool'[k] = freeIndexPool[k]
        BY <3>1, PoolProofs!PopProperties, CapacityType, BufferAssumption, LenProperties
           DEF TypeOK
      <3>3. i = 0
        BY <3>1, <3>2 DEF OnlyFirstReturned
      <3>4. OnlyFirstReturned'
        BY <3>2 DEF OnlyFirstReturned
      <3> QED
        BY <3>1, <3>2, <3>3, <3>4, CapacityType DEF TypeOK
    <2>2. CASE Pool!CheckOutFresh(a)
      BY <2>2, CapacityType, LenProperties
      DEF Pool!CheckOutFresh, TypeOK, OnlyFirstReturned
    <2> QED
      BY <2>1, <2>2 DEF TakeBuffer, Pool!CheckOut
  <1>9. i # NoBuffer
    BY <1>8, BufferAssumption
  <1>10. /\ buffer'[a] = i
         /\ \A b \in Args : b # a => buffer'[b] = buffer[b]
    BY <1>4, <1>7 DEF TypeOK
  <1>11. TypeOK'
    BY <1>1, <1>7, <1>8 DEF TypeOK, Steps
  <1>12. ArgsOwned' /\ ArgsConserved'
    BY <1>1, <1>3, SameArgsStep
  <1>13. BuffersHeld'
    BY <1>1, <1>3, <1>9, <1>10 DEF BuffersHeld, WithBuffer, WithArgs, ArgsOwned
  <1>14. IdleArgsHoldNoBuffer'
    BY <1>1, <1>3, <1>10 DEF IdleArgsHoldNoBuffer
  <1>15. BuffersAccounted'
    BY <1>6, <1>8, InDebtFinite, CapacityType, LenProperties
    DEF BuffersAccounted, Pool!Available, TypeOK
  <1>16. HeldBelowIndex'
    <2>1. currentIndex' > 0
      <3>1. CASE i = currentIndex /\ currentIndex' = currentIndex + 1
        BY <1>8, <3>1 DEF TypeOK
      <3>2. CASE currentIndex' = currentIndex /\ freeIndexPool # <<>>
        <4>1. top \in Nat \ {0}
          BY <3>2, EmptySeq, LenProperties DEF TypeOK
        <4>2. MaxCapacity - currentIndex + top + Cardinality(InDebt) = MaxCapacity
          BY DEF BuffersAccounted, Pool!Available
        <4> QED
          BY <3>2, <4>1, <4>2, CapacityType, InDebtFinite DEF TypeOK
      <3> QED
        BY <3>1, <3>2
        DEF TakeBuffer, Pool!CheckOut, Pool!CheckOutReturned, Pool!CheckOutFresh
    <2>2. \A b \in Args : buffer'[b] # NoBuffer => buffer'[b] < currentIndex'
      <3> SUFFICES ASSUME NEW b \in Args, buffer'[b] # NoBuffer
                   PROVE  buffer'[b] < currentIndex'
        OBVIOUS
      <3>1. CASE b = a
        BY <1>8, <1>10, <2>1, <3>1
      <3>2. CASE b # a
        <4>1. buffer[b] \in Nat /\ buffer[b] < currentIndex /\ currentIndex \in Nat
          BY <1>10, <3>2 DEF HeldBelowIndex, TypeOK
        <4> QED
          BY <1>8, <1>10, <3>2, <4>1
      <3> QED
        BY <3>1, <3>2
    <2> QED
      BY <2>2 DEF HeldBelowIndex
  <1>17. OnlyFirstBufferShared'
    <2> SUFFICES ASSUME NEW d \in WithBuffer', NEW e \in WithBuffer', d # e,
                        buffer'[eventReceiveArgs'[d]] = buffer'[eventReceiveArgs'[e]]
                 PROVE  buffer'[eventReceiveArgs'[d]] = 0
      BY DEF OnlyFirstBufferShared
    <2>1. \A f \in WithBuffer :
            /\ eventReceiveArgs[f] # a
            /\ eventReceiveArgs[f] \in Args
            /\ buffer'[eventReceiveArgs[f]] = buffer[eventReceiveArgs[f]]
            /\ buffer[eventReceiveArgs[f]] \in Nat
            /\ buffer[eventReceiveArgs[f]] < currentIndex
      BY <1>3, <1>10, DifferentArgs
      DEF WithBuffer, WithArgs, ArgsOwned, BuffersHeld, HeldBelowIndex, TypeOK
    <2>2. CASE d # c /\ e # c
      BY <1>1, <1>3, <2>1, <2>2 DEF OnlyFirstBufferShared
    <2>3. CASE d = c
      <3>1. e \in WithBuffer /\ buffer'[eventReceiveArgs'[d]] = i
        BY <1>1, <1>3, <1>10, <2>3
      <3>2. i < currentIndex
        BY <1>1, <2>1, <3>1
      <3> QED
        BY <1>8, <3>1, <3>2 DEF TypeOK
    <2>4. CASE e = c
      <3>1. d \in WithBuffer /\ buffer'[eventReceiveArgs'[e]] = i
        BY <1>1, <1>3, <1>10, <2>4
      <3>2. i < currentIndex
        BY <1>1, <2>1, <3>1
      <3> QED
        BY <1>8, <3>1, <3>2 DEF TypeOK
    <2> QED
      BY <2>2, <2>3, <2>4
  <1> QED
    BY <1>8, <1>11, <1>12, <1>13, <1>14, <1>15, <1>16, <1>17

\* The new args object of Disconnect holds no buffer, the debt stays.
LEMMA RenewReceiveArgsStep ==
  ASSUME IndInv, NEW c \in Connections, RenewReceiveArgs(c)
  PROVE  IndInv'
  <1> USE DEF IndInv
  <1> DEFINE a == eventReceiveArgs[c]
  <1>1. /\ UNCHANGED <<up, socket, argsPool, eventReceiveArgs, sending,
                       freeIndexPool, currentIndex>>
        /\ pc[c] = "renewing" /\ pc' = [pc EXCEPT ![c] = "returningBuffer"]
        /\ buffer' = [buffer EXCEPT ![a] = NoBuffer]
    BY DEF RenewReceiveArgs, Goto
  <1>2. /\ pc'[c] = "returningBuffer"
        /\ \A d \in Connections : d # c => pc'[d] = pc[d]
    BY <1>1 DEF TypeOK
  <1>3. /\ c \in WithArgs /\ WithArgs' = WithArgs
        /\ c \in WithBuffer /\ WithBuffer' = WithBuffer \ {c}
        /\ InDebt' = InDebt
    <2>1. c \in WithArgs /\ WithArgs' = WithArgs
      BY <1>1, <1>2 DEF WithArgs
    <2>2. c \in WithBuffer /\ WithBuffer' = WithBuffer \ {c}
      BY <1>1, <1>2, <2>1 DEF WithBuffer
    <2> QED
      BY <1>1, <1>2, <2>1, <2>2 DEF InDebt
  <1>4. a \in Args
    BY <1>3 DEF ArgsOwned
  <1>5. /\ buffer'[a] = NoBuffer
        /\ \A b \in Args : b # a => buffer'[b] = buffer[b]
    BY <1>1, <1>4 DEF TypeOK
  <1>6. \A d \in WithBuffer' : eventReceiveArgs[d] # a /\ eventReceiveArgs[d] \in Args
    BY <1>3, DifferentArgs DEF WithBuffer, WithArgs, ArgsOwned
  <1>7. TypeOK'
    BY <1>1 DEF TypeOK, Steps
  <1>8. ArgsOwned' /\ ArgsConserved'
    BY <1>1, <1>3, SameArgsStep
  <1>9. BuffersHeld' /\ OnlyFirstBufferShared'
    BY <1>1, <1>3, <1>5, <1>6 DEF BuffersHeld, OnlyFirstBufferShared
  <1>10. IdleArgsHoldNoBuffer'
    BY <1>1, <1>3, <1>5 DEF IdleArgsHoldNoBuffer
  <1>11. BuffersAccounted' /\ OnlyFirstReturned'
    BY <1>1, <1>3 DEF BuffersAccounted, Pool!Available, OnlyFirstReturned
  <1>12. HeldBelowIndex'
    BY <1>1, <1>5 DEF HeldBelowIndex
  <1> QED
    BY <1>7, <1>8, <1>9, <1>10, <1>11, <1>12

\* CheckIn of an object without a buffer pushes offset 0 and pays the debt.
LEMMA ReturnBufferStep ==
  ASSUME IndInv, NEW c \in Connections, ReturnBuffer(c)
  PROVE  IndInv'
  <1> USE DEF IndInv
  <1> DEFINE a == eventReceiveArgs[c]
  <1>1. /\ UNCHANGED <<up, socket, argsPool, eventReceiveArgs, sending,
                       currentIndex>>
        /\ pc[c] = "returningBuffer" /\ pc' = [pc EXCEPT ![c] = "returningArgs"]
        /\ freeIndexPool' = Append(freeIndexPool, Pool!Offset(a))
        /\ buffer' = [buffer EXCEPT ![a] = NoBuffer]
    BY DEF ReturnBuffer, Goto, Pool!CheckIn
  <1>2. /\ pc'[c] = "returningArgs"
        /\ \A d \in Connections : d # c => pc'[d] = pc[d]
    BY <1>1 DEF TypeOK
  <1>3. /\ c \in WithArgs /\ WithArgs' = WithArgs
        /\ c \notin WithBuffer /\ WithBuffer' = WithBuffer
        /\ c \in InDebt /\ InDebt' = InDebt \ {c}
    <2>1. c \in WithArgs /\ WithArgs' = WithArgs
      BY <1>1, <1>2 DEF WithArgs
    <2>2. c \notin WithBuffer /\ WithBuffer' = WithBuffer
      BY <1>1, <1>2, <2>1 DEF WithBuffer
    <2> QED
      BY <1>1, <1>2, <2>1, <2>2 DEF InDebt
  <1>4. a \in Args
    BY <1>3 DEF ArgsOwned
  <1>5. buffer[a] = NoBuffer
    <2>1. \A d \in WithBuffer : eventReceiveArgs[d] # a
      BY <1>3, DifferentArgs DEF WithBuffer
    <2> QED
      BY <1>4, <2>1 DEF IdleArgsHoldNoBuffer
  <1>6. buffer' = buffer
    BY <1>1, <1>4, <1>5 DEF TypeOK
  <1>7. freeIndexPool' = Append(freeIndexPool, 0)
    BY <1>1, <1>5 DEF Pool!Offset
  <1>8. /\ Len(freeIndexPool) \in Nat
        /\ freeIndexPool' \in Seq(Nat)
        /\ Len(freeIndexPool') = Len(freeIndexPool) + 1
        /\ DOMAIN freeIndexPool' = DOMAIN freeIndexPool \cup {Len(freeIndexPool) + 1}
        /\ \A k \in DOMAIN freeIndexPool : freeIndexPool'[k] = freeIndexPool[k]
        /\ freeIndexPool'[Len(freeIndexPool) + 1] = 0
    BY <1>7, PushProperties DEF TypeOK
  <1>9. Cardinality(InDebt') = Cardinality(InDebt) - 1
    BY <1>3, InDebtFinite, FS_RemoveElement
  <1>10. TypeOK'
    BY <1>1, <1>6, <1>8 DEF TypeOK, Steps
  <1>11. ArgsOwned' /\ ArgsConserved'
    BY <1>1, <1>3, SameArgsStep
  <1>12. BuffersHeld' /\ OnlyFirstBufferShared' /\ IdleArgsHoldNoBuffer'
    BY <1>1, <1>3, <1>6
    DEF BuffersHeld, OnlyFirstBufferShared, IdleArgsHoldNoBuffer
  <1>13. BuffersAccounted'
    BY <1>1, <1>8, <1>9, CapacityType, InDebtFinite
    DEF BuffersAccounted, Pool!Available, TypeOK
  <1>14. OnlyFirstReturned'
    BY <1>8 DEF OnlyFirstReturned
  <1>15. HeldBelowIndex'
    BY <1>1, <1>6 DEF HeldBelowIndex
  <1> QED
    BY <1>10, <1>11, <1>12, <1>13, <1>14, <1>15
-----------------------------------------------------------------------------
\* Every step of the server preserves the invariant.
LEMMA NextIndInv == IndInv /\ [Next]_vars => IndInv'
  <1> SUFFICES ASSUME IndInv, [Next]_vars PROVE IndInv'
    OBVIOUS
  <1>1. ASSUME NEW c \in Connections, Construct(c) PROVE IndInv'
    BY <1>1, QuietActions, TakeArgsStep, CrashStep, TakeBufferStep
    DEF Construct, AcceptThrows, TakeArgsFails
  <1>2. ASSUME NEW c \in Connections, Receive(c) PROVE IndInv'
    BY <1>2, QuietActions, CrashStep DEF Receive, HandlerFaults
  <1>3. ASSUME NEW c \in Connections, Respond(c) PROVE IndInv'
    <2>1. ASSUME SendChunk(c) PROVE IndInv'
      BY <2>1, GotoSameHolders, StartSendStep DEF SendChunk, IndInv
    <2>2. ASSUME SendErrorPage(c) PROVE IndInv'
      BY <2>2, GotoSameHolders, StartSendStep DEF SendErrorPage, IndInv
    <2>3. ASSUME SendErrorPageThrows(c) PROVE IndInv'
      BY <2>3, CrashStep DEF SendErrorPageThrows
    <2> QED
      BY <1>3, <2>1, <2>2, <2>3, QuietActions DEF Respond
  <1>4. ASSUME NEW c \in Connections, Complete(c) PROVE IndInv'
    BY <1>4, QuietActions, SendCompletedStep DEF Complete
  <1>5. ASSUME NEW c \in Connections, Disconnect(c) PROVE IndInv'
    BY <1>5, QuietActions, CrashStep, RenewReceiveArgsStep, ReturnBufferStep,
       ReturnArgsStep
    DEF Disconnect, DisconnectedThrows
  <1>6. CASE UNCHANGED vars
    <2>1. SameHolders
      BY <1>6, SamePCSameHolders DEF vars
    <2>2. TypeOK'
      BY <1>6 DEF IndInv, TypeOK, vars, poolVars
    <2> QED
      BY <1>6, <2>1, <2>2, QuietStep DEF vars
  <1> QED
    BY <1>1, <1>2, <1>3, <1>4, <1>5, <1>6 DEF Next, Down

\* Who holds which args object and buffer, whatever the numbers of both.
THEOREM ConnectionIndInv == Spec => []IndInv
  <1> QED
    BY InitIndInv, NextIndInv, PTL DEF Spec

\* The variables of connections and pools keep their types (SocketConnection.cs).
THEOREM ConnectionTypeOK == Spec => []TypeOK
  <1>1. IndInv => TypeOK
    BY DEF IndInv
  <1> QED
    BY <1>1, ConnectionIndInv, PTL

\* No args object is ever lost or used for two things at once.
THEOREM ConnectionArgsConserved == Spec => []ArgsConserved
  <1>1. IndInv => ArgsConserved
    BY DEF IndInv
  <1> QED
    BY <1>1, ConnectionIndInv, PTL

\* An args object on the stack of the pool, or lent to a send, holds no buffer.
THEOREM ConnectionIdleArgs == Spec => []IdleArgsHoldNoBuffer
  <1>1. IndInv => IdleArgsHoldNoBuffer
    BY DEF IndInv
  <1> QED
    BY <1>1, ConnectionIndInv, PTL

\* Available counts exactly, even though the wrong buffers are returned.
THEOREM ConnectionBuffersAccounted == Spec => []BuffersAccounted
  <1>1. IndInv => BuffersAccounted
    BY DEF IndInv
  <1> QED
    BY <1>1, ConnectionIndInv, PTL

\* How far the sharing of buffers goes: to the first of them, no further.
THEOREM ConnectionOnlyFirstShared == Spec => []OnlyFirstBufferShared
  <1>1. IndInv => OnlyFirstBufferShared
    BY DEF IndInv
  <1> QED
    BY <1>1, ConnectionIndInv, PTL

\* A connection that waits for a buffer leaves one for itself: the others owe
\* at most as many buffers as there are other args objects.
LEMMA SpareArgs ==
  ASSUME IndInv, NEW c \in Connections, pc[c] = "argsTaken"
  PROVE  Cardinality(InDebt) < MaxCapacity
  <1> DEFINE T == InDebt \cup {c}
             f == [d \in T |-> eventReceiveArgs[d]]
  <1>1. c \notin InDebt
    BY DEF InDebt, WithBuffer
  <1>2. T \subseteq WithArgs
    BY DEF InDebt, WithBuffer, WithArgs
  <1>3. f \in Injection(T, Args)
    <2>1. f \in [T -> Args]
      BY <1>2 DEF IndInv, ArgsOwned, WithArgs
    <2>2. \A d, e \in T : d # e => f[d] # f[e]
      BY <1>2, DifferentArgs
    <2> QED
      BY <2>1, <2>2 DEF Injection, IsInjective
  <1>4. Cardinality(T) <= MaxCapacity
    BY <1>3, FiniteAssumption, FS_Injection DEF MaxCapacity
  <1>5. Cardinality(T) = Cardinality(InDebt) + 1
    BY <1>1, InDebtFinite, FS_AddElement
  <1> QED
    BY <1>4, <1>5, InDebtFinite, CapacityType

\* The buffer pool never throws on a connection that has its args object.
THEOREM ConnectionBufferNeverExhausted == Spec => []BufferNeverExhausted
  <1>1. IndInv => BufferNeverExhausted
    <2> SUFFICES ASSUME IndInv, NEW c \in Connections, pc[c] = "argsTaken",
                        Pool!Exhausted
                 PROVE  FALSE
      BY DEF BufferNeverExhausted
    <2>1. Len(freeIndexPool) = 0 /\ currentIndex >= MaxCapacity
      BY EmptySeq DEF Pool!Exhausted
    <2>2. (MaxCapacity - currentIndex) + 0 + Cardinality(InDebt) = MaxCapacity
      BY <2>1 DEF IndInv, BuffersAccounted, Pool!Available
    <2> QED
      BY <2>1, <2>2, SpareArgs, InDebtFinite, CapacityType DEF IndInv, TypeOK
  <1> QED
    BY <1>1, ConnectionIndInv, PTL
-----------------------------------------------------------------------------
\* The refinement of ArgsAllocator.

\* Who is among the users of an args object.
LEMMA UsersProperties ==
  ASSUME NEW a, NEW c \in Connections
  PROVE  /\ <<c, "receive">> \in Users(a) <=> eventReceiveArgs[c] = a
         /\ <<c, "send">> \in Users(a) <=> a \in sending[c]
         /\ Users(a) \subseteq Connections \X {"receive", "send"}
  BY DEF Users

\* An object on the stack of the pool has no user, and none has two.
LEMMA UsersConserved ==
  ASSUME IndInv, NEW a \in Args
  PROVE  /\ a \in argsPool => Users(a) = {}
         /\ \A u, v \in Users(a) : u = v
  <1>1. ArgsConserved /\ ArgsOwned
    BY DEF IndInv
  <1>2. a \in argsPool => Users(a) = {}
    BY <1>1 DEF ArgsConserved, Users
  <1>3. ASSUME NEW c \in Connections, NEW d \in Connections,
               eventReceiveArgs[c] = a, eventReceiveArgs[d] = a
        PROVE  c = d
    BY <1>1, <1>3, DifferentArgs DEF ArgsConserved, ArgsOwned
  <1>4. ASSUME NEW c \in Connections, NEW d \in Connections,
               a \in sending[c], a \in sending[d]
        PROVE  c = d
    BY <1>1, <1>4 DEF ArgsConserved
  <1>5. ASSUME NEW c \in Connections, NEW d \in Connections,
               eventReceiveArgs[c] = a, a \in sending[d]
        PROVE  FALSE
    BY <1>1, <1>5 DEF ArgsConserved
  <1> QED
    BY <1>2, <1>3, <1>4, <1>5 DEF Users

\* The only user of an object is the one there is.
LEMMA OnlyUser ==
  ASSUME IndInv, NEW a \in Args, NEW u \in Users(a)
  PROVE  Users(a) = {u}
  BY UsersConserved

\* A step that changes the users of one object is a step of the allocator's function.
LEMMA UsersStep ==
  ASSUME NEW a \in Args, NEW now, Users(a)' = now,
         \A b \in Args \ {a} : Users(b)' = Users(b)
  PROVE  users' = [users EXCEPT ![a] = now]
  BY DEF users

\* SocketArgsPool.CheckOut by the constructor.
LEMMA TakeArgsRefines ==
  ASSUME IndInv, NEW c \in Connections, TakeArgs(c)
  PROVE  Allocator!Next
  <1>1. PICK a \in argsPool :
          eventReceiveArgs' = [eventReceiveArgs EXCEPT ![c] = a]
    BY DEF TakeArgs
  <1>2. a \in Args /\ eventReceiveArgs \in [Connections -> Args \cup {Null}]
    BY DEF IndInv, TypeOK
  <1>3. eventReceiveArgs[c] \notin Args
    BY DEF TakeArgs, Goto, IndInv, ArgsOwned, WithArgs
  <1>4. sending' = sending
    BY DEF TakeArgs
  <1>5. Users(a) = {}
    BY <1>2, UsersConserved
  <1>6. Users(a)' = {<<c, "receive">>}
    BY <1>1, <1>2, <1>4, <1>5 DEF Users
  <1>7. ASSUME NEW b \in Args \ {a} PROVE Users(b)' = Users(b)
    BY <1>1, <1>2, <1>3, <1>4 DEF Users
  <1>8. \A b \in Args : <<c, "receive">> \notin Users(b)
    BY <1>3, UsersProperties
  <1>9. Allocator!CheckOut(a, c, "receive")
    BY <1>2, <1>5, <1>6, <1>7, <1>8, UsersStep DEF Allocator!CheckOut, users
  <1> QED
    BY <1>2, <1>9 DEF Allocator!Next, Allocator!Roles

\* SocketArgsPool.CheckOut by SendData.
LEMMA StartSendRefines ==
  ASSUME IndInv, NEW c \in Connections, StartSend(c)
  PROVE  Allocator!Next
  <1>1. PICK a \in argsPool : sending' = [sending EXCEPT ![c] = @ \cup {a}]
    BY DEF StartSend
  <1>2. a \in Args /\ sending \in [Connections -> SUBSET Args]
    BY DEF IndInv, TypeOK
  <1>3. eventReceiveArgs' = eventReceiveArgs
    BY DEF StartSend
  <1>4. Users(a) = {}
    BY <1>2, UsersConserved
  <1>5. Users(a)' = {<<c, "send">>}
    BY <1>1, <1>2, <1>3, <1>4 DEF Users
  <1>6. ASSUME NEW b \in Args \ {a} PROVE Users(b)' = Users(b)
    BY <1>1, <1>2, <1>3 DEF Users
  <1>7. Allocator!CheckOut(a, c, "send")
    BY <1>2, <1>4, <1>5, <1>6, UsersStep DEF Allocator!CheckOut, users
  <1> QED
    BY <1>2, <1>7 DEF Allocator!Next, Allocator!Roles

\* SocketArgsPool.CheckIn by a send's completion, whatever became of its connection.
LEMMA SendCompletedRefines ==
  ASSUME IndInv, NEW c \in Connections, NEW a \in Args, SendCompleted(c, a)
  PROVE  Allocator!Next
  <1>1. /\ a \in sending[c]
        /\ sending' = [sending EXCEPT ![c] = @ \ {a}]
        /\ eventReceiveArgs' = eventReceiveArgs
    BY DEF SendCompleted
  <1>2. sending \in [Connections -> SUBSET Args]
    BY DEF IndInv, TypeOK
  <1>3. Users(a) = {<<c, "send">>}
    BY <1>1, UsersProperties, OnlyUser
  <1>4. Users(a)' = {}
    BY <1>1, <1>2, <1>3 DEF Users
  <1>5. ASSUME NEW b \in Args \ {a} PROVE Users(b)' = Users(b)
    BY <1>1, <1>2 DEF Users
  <1>6. Allocator!CheckIn(a)
    BY <1>3, <1>4, <1>5, UsersStep DEF Allocator!CheckIn, users
  <1> QED
    BY <1>6 DEF Allocator!Next

\* SocketArgsPool.CheckIn, the last call of Disconnect.
LEMMA ReturnArgsRefines ==
  ASSUME IndInv, NEW c \in Connections, ReturnArgs(c)
  PROVE  Allocator!Next
  <1>1. /\ eventReceiveArgs' = [eventReceiveArgs EXCEPT ![c] = Null]
        /\ sending' = sending
    BY DEF ReturnArgs
  <1>2. PICK a \in Args : a = eventReceiveArgs[c]
    BY DEF ReturnArgs, Goto, IndInv, ArgsOwned, WithArgs
  <1>3. eventReceiveArgs \in [Connections -> Args \cup {Null}] /\ Null \notin Args
    BY NullAssumption DEF IndInv, TypeOK
  <1>4. Users(a) = {<<c, "receive">>}
    BY <1>2, UsersProperties, OnlyUser
  <1>5. \A b \in Args : Users(b)' = IF b = a THEN {} ELSE Users(b)
    <2>1. \A b \in Args, d \in Connections :
            eventReceiveArgs'[d] = b <=> d # c /\ eventReceiveArgs[d] = b
      BY <1>1, <1>3
    <2>2. Users(a)' = {}
      <3>1. \A d \in Connections : eventReceiveArgs'[d] # a
        BY <1>4, <2>1, UsersProperties
      <3>2. \A d \in Connections : a \notin sending'[d]
        BY <1>1, <1>4, UsersProperties
      <3> QED
        BY <3>1, <3>2 DEF Users
    <2>3. ASSUME NEW b \in Args, b # a PROVE Users(b)' = Users(b)
      BY <1>1, <1>2, <2>1, <2>3 DEF Users
    <2> QED
      BY <2>2, <2>3
  <1>6. Users(a)' = {}
    BY <1>2, <1>5
  <1>7. Allocator!CheckIn(a)
    <2>1. Users(a) # {}
      BY <1>4
    <2> QED
      BY <1>2, <1>5, <1>6, <2>1, UsersStep DEF Allocator!CheckIn, users
  <1> QED
    BY <1>2, <1>7 DEF Allocator!Next

\* SocketArgsPool: every step of the server, exceptions and resets included, checks an
\* object out that nobody uses, checks one in that somebody used, or leaves them alone.
THEOREM ConnectionImplementsArgsAllocator == Spec => ImplementsArgsAllocator
  <1>1. Init => Allocator!Init
    BY NullAssumption DEF Init, Allocator!Init, Users, users
  <1>2. ASSUME IndInv, [Next]_vars
        PROVE  Allocator!Next \/ UNCHANGED users
    <2>1. ASSUME UNCHANGED <<eventReceiveArgs, sending>>
          PROVE  UNCHANGED users
      BY <2>1 DEF Users, users
    <2>2. ASSUME NEW c \in Connections,
                 \/ Construct(c) \/ Receive(c) \/ Respond(c) \/ Complete(c) \/ Disconnect(c)
          PROVE  Allocator!Next \/ UNCHANGED <<eventReceiveArgs, sending>>
      <3>1. CASE \/ TakeArgs(c) \/ SendChunk(c) \/ SendErrorPage(c)
                 \/ (\E a \in Args : SendCompleted(c, a)) \/ ReturnArgs(c)
        BY <1>2, <3>1, TakeArgsRefines, StartSendRefines, SendCompletedRefines,
           ReturnArgsRefines DEF SendChunk, SendErrorPage
      <3>2. CASE \/ Accept(c) \/ AcceptThrows(c) \/ TakeArgsFails(c)
                 \/ TakeBuffer(c) \/ Receive(c) \/ BeginResponse(c)
                 \/ EndResponse(c) \/ CloseThrows(c) \/ SendChunkThrows(c)
                 \/ SkipErrorPage(c) \/ SendErrorPageThrows(c) \/ SendFails(c)
                 \/ ReleaseSocket(c) \/ DisconnectedThrows(c) \/ RenewReceiveArgs(c)
                 \/ ReturnBuffer(c)
        BY <3>2 DEF Accept, AcceptThrows, TakeArgsFails, Crash, TakeBuffer, Receive,
             ListenForData, ReceiveData, ReceiveEnd, ReceiveReset, HeadersIncomplete,
             HandlerFaults, BeginResponse, EndResponse, CloseThrows, SendChunkThrows,
             SkipErrorPage, SendErrorPageThrows, SendFails, ReleaseSocket,
             DisconnectedThrows, RenewReceiveArgs, ReturnBuffer
      <3> QED
        BY <2>2, <3>1, <3>2 DEF Construct, Respond, Complete, Disconnect
    <2>3. CASE UNCHANGED vars
      BY <2>1, <2>3 DEF vars
    <2> QED
      BY <1>2, <2>1, <2>2, <2>3 DEF Next, Down
  <1>3. IndInv /\ [Next]_vars => [Allocator!Next]_users
    BY <1>2
  <1> QED
    BY <1>1, <1>3, ConnectionIndInv, PTL
    DEF Spec, ImplementsArgsAllocator, Allocator!Spec
=============================================================================
