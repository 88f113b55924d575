--------------------------- MODULE SocketConnection ---------------------------
(***************************************************************************)
(* The connections of one running server and the two pools they share:     *)
(* Tcp/SocketConnection.cs with Tcp/SocketArgsPool.cs, Tcp/BufferPool.cs   *)
(* (instance Pool of BufferPool.tla) and the callers that drive it:        *)
(* PortListener.SocketListenerSocketConnected, which constructs a          *)
(* connection and starts it listening, and HttpStreamRouteObject, which    *)
(* answers the request from inside the receive callback.                   *)
(*                                                                         *)
(* A connection is served by one callback at a time, so its own steps are  *)
(* sequential (pc); the completions of its sends arrive from the I/O       *)
(* threads at any moment, and all connections interleave at the locks of   *)
(* the pools.  Each call that takes a pool's lock is an action.  An async  *)
(* call that completes at once runs its callback inline (ExtensionMethods  *)
(* .InvokeAsyncMethod): the same steps, one of the orders modelled here.   *)
(*                                                                         *)
(* Connections are slots: a closed slot is reused for a later client.      *)
(* Data, hosts and websites are left out: a request is answered, answered  *)
(* by the error page, still incomplete, or makes the handler throw.        *)
(***************************************************************************)
EXTENDS Integers, Sequences, FiniteSets

CONSTANTS Connections,      \* slots for SocketConnection objects
          Args,             \* the SocketAsyncEventArgs objects of the pool
          NoBuffer,         \* an args object without a receive buffer
          Null

ASSUME FiniteAssumption == IsFiniteSet(Args) /\ IsFiniteSet(Connections)
ASSUME NullAssumption == Null \notin Args
ASSUME BufferAssumption == NoBuffer \notin Nat

\* One buffer for each args object (SocketArgsPool.MaxCapacity of both).
MaxCapacity == Cardinality(Args)

VARIABLES
  up,               \* the process runs: no callback has let an exception out
  pc,               \* pc[c]: what the callback serving c does next
  socket,           \* socket[c]: _socket, "connected", "reset" or "null"
  argsPool,         \* SocketArgsPool._argsPool: the objects on the stack
  eventReceiveArgs, \* eventReceiveArgs[c]: _eventReceiveArgs
  sending,          \* sending[c]: the args of the sends of c under way
  freeIndexPool, currentIndex, buffer    \* BufferPool

poolVars == <<freeIndexPool, currentIndex, buffer>>
vars == <<up, pc, socket, argsPool, eventReceiveArgs, sending, poolVars>>

Pool == INSTANCE BufferPool WITH NumberOfBuffers <- MaxCapacity

Init ==
  /\ up = TRUE
  /\ pc = [c \in Connections |-> "closed"]
  /\ socket = [c \in Connections |-> "null"]
  /\ argsPool = Args
  /\ eventReceiveArgs = [c \in Connections |-> Null]
  /\ sending = [c \in Connections |-> {}]
  /\ Pool!Init

\* The callback serving c moves from one step to the next.
Goto(c, from, to) ==
  /\ up
  /\ pc[c] = from
  /\ pc' = [pc EXCEPT ![c] = to]
  /\ UNCHANGED up

\* An exception leaves a callback on an I/O thread: the process ends.
Crash(c, at) ==
  /\ up
  /\ pc[c] = at
  /\ up' = FALSE
  /\ UNCHANGED <<pc, socket, argsPool, eventReceiveArgs, sending, poolVars>>
-----------------------------------------------------------------------------
(* new SocketConnection(socket), then ListenForData                          *)

\* The listener hands over a client's socket.
Accept(c) ==
  /\ Goto(c, "closed", "accepted")
  /\ sending[c] = {}
  /\ socket' = [socket EXCEPT ![c] = "connected"]
  /\ UNCHANGED <<argsPool, eventReceiveArgs, sending, poolVars>>

\* The client has reset the connection: the read of RemoteEndPoint, before the
\* constructor, throws out of the callback of the accept.
AcceptThrows(c) == sending[c] = {} /\ Crash(c, "closed")

\* SocketArgsPool.CheckOut by the constructor.
TakeArgs(c) ==
  /\ Goto(c, "accepted", "argsTaken")
  /\ \E a \in argsPool :
       /\ argsPool' = argsPool \ {a}
       /\ eventReceiveArgs' = [eventReceiveArgs EXCEPT ![c] = a]
  /\ UNCHANGED <<socket, sending, poolVars>>

\* Stack.Pop on the empty stack throws InvalidOperationException.
TakeArgsFails(c) == argsPool = {} /\ Crash(c, "accepted")

\* BufferPool.CheckOut by the constructor.  That it cannot throw here is
\* the invariant BufferNeverExhausted.
TakeBuffer(c) ==
  /\ Goto(c, "argsTaken", "listening")
  /\ Pool!CheckOut(eventReceiveArgs[c])
  /\ UNCHANGED <<socket, argsPool, eventReceiveArgs, sending>>

ListenForData(c) ==
  /\ Goto(c, "listening", "receiving")
  /\ socket[c] = "connected"
  /\ UNCHANGED <<socket, argsPool, eventReceiveArgs, sending, poolVars>>
-----------------------------------------------------------------------------
(* ReceivedCompleted, and the route object it calls through DataReceived     *)

ReceiveData(c) ==
  /\ Goto(c, "receiving", "handling")
  /\ UNCHANGED <<socket, argsPool, eventReceiveArgs, sending, poolVars>>

\* Zero bytes: the client has closed its side.
ReceiveEnd(c) ==
  /\ Goto(c, "receiving", "disconnecting")
  /\ UNCHANGED <<socket, argsPool, eventReceiveArgs, sending, poolVars>>

\* An error, such as a reset: Connected is false by the time of the callback.
ReceiveReset(c) ==
  /\ Goto(c, "receiving", "disconnecting")
  /\ socket' = [socket EXCEPT ![c] = "reset"]
  /\ UNCHANGED <<argsPool, eventReceiveArgs, sending, poolVars>>

\* The end of the headers has not arrived: wait for more data.
HeadersIncomplete(c) ==
  /\ Goto(c, "handling", "listening")
  /\ UNCHANGED <<socket, argsPool, eventReceiveArgs, sending, poolVars>>

\* HttpRequestStream.Write throws on a malformed header, or Headers is null.
HandlerFaults(c) == Crash(c, "handling")

\* ParseRequest returned a response, or threw: the page with status 500.
BeginResponse(c) ==
  /\ \/ Goto(c, "handling", "responding")
     \/ Goto(c, "handling", "errorResponding")
  /\ UNCHANGED <<socket, argsPool, eventReceiveArgs, sending, poolVars>>
-----------------------------------------------------------------------------
(* SendData and SendCompleted                                                *)

\* SendData takes an args object from the pool and starts the send.
StartSend(c) ==
  /\ socket[c] = "connected"
  /\ \E a \in argsPool :
       /\ argsPool' = argsPool \ {a}
       /\ sending' = [sending EXCEPT ![c] = @ \cup {a}]
  /\ UNCHANGED <<socket, eventReceiveArgs, poolVars>>

\* One turn of the loop of SendResponse.
SendChunk(c) == Goto(c, "responding", "responding") /\ StartSend(c)

\* The response stream is read to its end.  A chunk for a socket that is no
\* longer connected is skipped by SendData, which changes nothing.
EndResponse(c) ==
  /\ Goto(c, "responding", "disconnecting")
  /\ UNCHANGED <<socket, argsPool, eventReceiveArgs, sending, poolVars>>

\* The channel of the website fails to close, when the response has been sent.
CloseThrows(c) ==
  /\ Goto(c, "responding", "errorResponding")
  /\ UNCHANGED <<socket, argsPool, eventReceiveArgs, sending, poolVars>>

\* The pool is empty: SendData throws, the handler turns to the error page.
SendChunkThrows(c) ==
  /\ Goto(c, "responding", "errorResponding")
  /\ socket[c] = "connected" /\ argsPool = {}
  /\ UNCHANGED <<socket, argsPool, eventReceiveArgs, sending, poolVars>>

\* The error page is one chunk: a head and no body.
SendErrorPage(c) == Goto(c, "errorResponding", "disconnecting") /\ StartSend(c)

SkipErrorPage(c) ==
  /\ Goto(c, "errorResponding", "disconnecting")
  /\ socket[c] # "connected"
  /\ UNCHANGED <<socket, argsPool, eventReceiveArgs, sending, poolVars>>

\* Nothing catches what the catch block's own SendData throws.
SendErrorPageThrows(c) ==
  /\ socket[c] = "connected" /\ argsPool = {}
  /\ Crash(c, "errorResponding")

\* A send under way fails: the socket turns to not connected, then the
\* completion arrives like any other.
SendFails(c) ==
  /\ up
  /\ sending[c] # {} /\ socket[c] = "connected"
  /\ socket' = [socket EXCEPT ![c] = "reset"]
  /\ UNCHANGED <<up, pc, argsPool, eventReceiveArgs, sending, poolVars>>

\* Mutant: the args of a failed send are not given back.
SendCompleted_OnSuccess(c, a) ==
  /\ up
  /\ a \in sending[c]
  /\ sending' = [sending EXCEPT ![c] = @ \ {a}]
  /\ argsPool' = IF socket[c] = "reset" THEN argsPool ELSE argsPool \cup {a}
  /\ UNCHANGED <<up, pc, socket, eventReceiveArgs, poolVars>>

\* SendCompleted does not look at the outcome: the args go back to the pool.
SendCompleted(c, a) ==
  /\ up
  /\ a \in sending[c]
  /\ sending' = [sending EXCEPT ![c] = @ \ {a}]
  /\ argsPool' = argsPool \cup {a}
  /\ UNCHANGED <<up, pc, socket, eventReceiveArgs, poolVars>>
-----------------------------------------------------------------------------
(* Disconnect: the calls it makes, in its order                              *)

\* Mutant: Disconnect tries again until it finds the socket connected.
ReleaseSocket_Retries(c) ==
  /\ Goto(c, "disconnecting",
           IF socket[c] = "connected" THEN "renewing" ELSE "disconnecting")
  /\ socket' = [socket EXCEPT ![c] = IF @ = "connected" THEN "null" ELSE @]
  /\ UNCHANGED <<argsPool, eventReceiveArgs, sending, poolVars>>

\* Shutdown, Close, and the Disconnected event, if the socket is connected.
ReleaseSocket(c) ==
  /\ Goto(c, "disconnecting", "renewing")
  /\ socket' = [socket EXCEPT ![c] = IF @ = "connected" THEN "null" ELSE @]
  /\ UNCHANGED <<argsPool, eventReceiveArgs, sending, poolVars>>

\* A handler of Disconnected throws: the args and the buffer are not returned, and
\* nothing catches it.
DisconnectedThrows(c) == socket[c] = "connected" /\ Crash(c, "disconnecting")

\* Mutant: the used args object goes back to the pool as it is.
RenewReceiveArgs_Skips(c) ==
  /\ Goto(c, "renewing", "returningArgs")
  /\ UNCHANGED <<socket, argsPool, eventReceiveArgs, sending, poolVars>>

\* The used args object is disposed of and a new one takes its place.  The
\* model gives the new object the name of the old, whose life has ended; the
\* new one has no buffer.
RenewReceiveArgs(c) ==
  /\ Goto(c, "renewing", "returningBuffer")
  /\ buffer' = [buffer EXCEPT ![eventReceiveArgs[c]] = NoBuffer]
  /\ UNCHANGED <<socket, argsPool, eventReceiveArgs, sending,
                 freeIndexPool, currentIndex>>

\* Mutant: the buffer is never checked in.
ReturnBuffer_Skips(c) ==
  /\ Goto(c, "returningBuffer", "returningArgs")
  /\ UNCHANGED <<socket, argsPool, eventReceiveArgs, sending, poolVars>>

\* BufferPool.CheckIn of the new object.
ReturnBuffer(c) ==
  /\ Goto(c, "returningBuffer", "returningArgs")
  /\ Pool!CheckIn(eventReceiveArgs[c])
  /\ UNCHANGED <<socket, argsPool, eventReceiveArgs, sending>>

\* SocketArgsPool.CheckIn of the new object.
ReturnArgs(c) ==
  /\ Goto(c, "returningArgs", "closed")
  /\ argsPool' = argsPool \cup {eventReceiveArgs[c]}
  /\ eventReceiveArgs' = [eventReceiveArgs EXCEPT ![c] = Null]
  /\ UNCHANGED <<socket, sending, poolVars>>

\* Nothing runs in a process that has ended.
Down == ~up /\ UNCHANGED vars
-----------------------------------------------------------------------------
Construct(c) == \/ Accept(c) \/ AcceptThrows(c)
                \/ TakeArgs(c) \/ TakeArgsFails(c) \/ TakeBuffer(c)
Receive(c) == \/ ListenForData(c) \/ ReceiveData(c) \/ ReceiveEnd(c)
              \/ ReceiveReset(c) \/ HeadersIncomplete(c) \/ HandlerFaults(c)
Respond(c) == \/ BeginResponse(c) \/ SendChunk(c) \/ EndResponse(c)
              \/ CloseThrows(c) \/ SendChunkThrows(c) \/ SendErrorPage(c)
              \/ SkipErrorPage(c) \/ SendErrorPageThrows(c)
Complete(c) == SendFails(c) \/ \E a \in Args : SendCompleted(c, a)
Disconnect(c) == \/ ReleaseSocket(c) \/ DisconnectedThrows(c)
                 \/ RenewReceiveArgs(c) \/ ReturnBuffer(c) \/ ReturnArgs(c)

Next == \/ \E c \in Connections : \/ Construct(c) \/ Receive(c) \/ Respond(c)
                                  \/ Complete(c) \/ Disconnect(c)
        \/ Down

Spec == Init /\ [][Next]_vars

(***************************************************************************)
(* Fairness.  The server's own code keeps running: the constructor, the    *)
(* handler (the call to the website has a time limit), the loop over a     *)
(* finite response and Disconnect all go on to their ends, and the system  *)
(* completes every send.  Clients owe nothing: no receive need ever end.   *)
(***************************************************************************)
Fairness ==
  \A c \in Connections :
    /\ WF_vars(TakeArgs(c) \/ TakeArgsFails(c))
    /\ WF_vars(TakeBuffer(c))
    /\ WF_vars(ListenForData(c))
    /\ WF_vars(HeadersIncomplete(c) \/ HandlerFaults(c) \/ BeginResponse(c))
    /\ WF_vars(EndResponse(c))
    /\ WF_vars(SendErrorPage(c) \/ SkipErrorPage(c) \/ SendErrorPageThrows(c))
    /\ WF_vars(Disconnect(c))
    /\ \A a \in Args : WF_vars(SendCompleted(c, a))

FairSpec == Spec /\ Fairness
-----------------------------------------------------------------------------
\* Who uses an args object: the connection that receives with it, or the one
\* whose send it carries.
Users(a) == {c \in Connections : eventReceiveArgs[c] = a} \X {"receive"}
              \cup {c \in Connections : a \in sending[c]} \X {"send"}

users == [a \in Args |-> Users(a)]

Allocator == INSTANCE ArgsAllocator
\* Sends that outlive Disconnect, resets and exceptions included, connections use
\* the objects of the pool as ArgsAllocator says.
ImplementsArgsAllocator == Allocator!Spec
-----------------------------------------------------------------------------
Steps == {"closed", "accepted", "argsTaken", "listening", "receiving",
          "handling", "responding", "errorResponding", "disconnecting",
          "renewing", "returningBuffer", "returningArgs"}

TypeOK ==
  /\ up \in BOOLEAN
  /\ pc \in [Connections -> Steps]
  /\ socket \in [Connections -> {"connected", "reset", "null"}]
  /\ argsPool \in SUBSET Args
  /\ eventReceiveArgs \in [Connections -> Args \cup {Null}]
  /\ sending \in [Connections -> SUBSET Args]
  /\ freeIndexPool \in Seq(Nat)
  /\ currentIndex \in Nat
  /\ buffer \in [Args -> Nat \cup {NoBuffer}]

\* The connections that own a receive args object,
WithArgs == {c \in Connections : pc[c] \notin {"closed", "accepted"}}
\* that have a buffer in use,
WithBuffer == {c \in WithArgs :
                 pc[c] \notin {"argsTaken", "returningBuffer", "returningArgs"}}
\* and that have taken a buffer from the pool and not yet returned one.
InDebt == WithBuffer \cup {c \in Connections : pc[c] = "returningBuffer"}

\* No args object is lost or used twice: each is in the pool, or receives for
\* one connection, or carries one send (SocketArgsPool, SendData, Disconnect).
ArgsConserved ==
  /\ \A a \in Args :
       \/ a \in argsPool
       \/ \E c \in Connections : a = eventReceiveArgs[c] \/ a \in sending[c]
  /\ \A c, d \in Connections :
       /\ sending[c] \cap argsPool = {}
       /\ eventReceiveArgs[c] \notin argsPool \cup sending[d]
       /\ c # d => sending[c] \cap sending[d] = {}
       /\ c # d /\ c \in WithArgs => eventReceiveArgs[c] # eventReceiveArgs[d]

\* An args object in the pool, or in use for a send, holds none of the receive
\* buffers: what the pool of args lends out can always be given a buffer.
IdleArgsHoldNoBuffer ==
  \A a \in Args : buffer[a] # NoBuffer =>
                   \E c \in WithBuffer : eventReceiveArgs[c] = a

\* The pool's own count is exact: although Disconnect returns the wrong
\* buffer, Available never tells (BufferPool.Available).
BuffersAccounted ==
  Pool!Available + Cardinality(InDebt) = MaxCapacity

\* A constructor that has its args object finds a buffer: the pools are taken
\* from in one order and returned to in the other, and have one capacity.
BufferNeverExhausted ==
  \A c \in Connections : pc[c] = "argsTaken" => ~Pool!Exhausted

\* Two receives are never given the same piece of memory, but for the first.
OnlyFirstBufferShared ==
  \A c, d \in WithBuffer :
    c # d /\ buffer[eventReceiveArgs[c]] = buffer[eventReceiveArgs[d]]
      => buffer[eventReceiveArgs[c]] = 0

\* A callback that has taken data off a connection comes to an end: the
\* connection waits for its client or has closed, unless the process ended.
RequestsEnd ==
  \A c \in Connections :
    pc[c] = "handling" ~> pc[c] \in {"receiving", "closed"} \/ ~up

\* When clients fall silent, all args but those of open receives come back.
Silent == \A c \in Connections : pc[c] \in {"receiving", "closed"}
PoolRefills ==
  <>[](up /\ Silent) => <>[](Args \ argsPool = {eventReceiveArgs[c] : c \in WithArgs})

(***************************************************************************)
(* Inductive strengthening: who holds args and buffers, and that only the  *)
(* first offset is ever returned to the stack.                             *)
(***************************************************************************)
ArgsOwned ==
  \A c \in Connections : c \in WithArgs <=> eventReceiveArgs[c] \in Args
BuffersHeld ==
  \A c \in WithBuffer : buffer[eventReceiveArgs[c]] # NoBuffer
OnlyFirstReturned ==
  \A k \in DOMAIN freeIndexPool : freeIndexPool[k] = 0
HeldBelowIndex ==
  \A a \in Args : buffer[a] # NoBuffer => buffer[a] < currentIndex

IndInv ==
  /\ TypeOK /\ ArgsOwned /\ ArgsConserved
  /\ BuffersHeld /\ IdleArgsHoldNoBuffer /\ BuffersAccounted
  /\ OnlyFirstReturned /\ HeldBelowIndex /\ OnlyFirstBufferShared

\* What BufferPool.cs says of CheckIn ("The SocketAsyncEventArgs which has
\* finished with it buffer") and CheckOut: a buffer has one user at a time.
ReceiveBuffersExclusive ==
  \A c, d \in WithBuffer :
    c # d => buffer[eventReceiveArgs[c]] # buffer[eventReceiveArgs[d]]
=============================================================================
