--------------------------- MODULE SocketListener ---------------------------
(***************************************************************************)
(* Tcp/SocketListener.cs: objects that accept clients on the server's port *)
(* with asynchronous accepts.  Start, Stop and the re-arming of an accept  *)
(* run under the object's lock and are one action each; the callback       *)
(* SocketAccepted comes from an I/O thread, takes the lock in its middle,  *)
(* and raises the event SocketConnected after it has let the lock go, in   *)
(* three steps: it looks whether there is a handler, loads the handler,    *)
(* and calls it.  The handler is the owner's, and may throw.               *)
(*                                                                         *)
(* Every listener binds to the one port, and a bind fails when another     *)
(* holds it, or for reasons outside the program.  Closing a socket aborts  *)
(* the accepts pending on it, so an accept is always pending on the        *)
(* current socket of its listener.  An accept that completes within the    *)
(* call is one whose callback comes at once.                               *)
(***************************************************************************)
EXTENDS Naturals, FiniteSets

CONSTANTS Listeners,  \* SocketListener objects
          Ops,        \* the SocketAsyncEventArgs each may have in use for accepts
          Clients     \* the clients that may connect

OpStates == {"free", "pending", "failed", "aborted"}
ASSUME ClientsAssumption == Clients \cap OpStates = {}

VARIABLES
  fault,          \* where the exception came from that ended the process, see Faults
  listenerSocket, \* listenerSocket[l]: _listenerSocket, see SocketStates
  op,             \* op[l][o]: an accept, a client once it has accepted one
  subscribed,     \* subscribed[l]: the event SocketConnected has a handler
  handing,        \* handing[l]: clients of callbacks that are past the lock
  raising,        \* raising[l]: of callbacks that have seen a handler
  calling,        \* calling[l]: of callbacks that have loaded the handler they call
  served,         \* clients given to the handler
  dropped,        \* clients accepted when there was no handler
  life            \* life[l]: what l's owner has called so far (history)

callerVars == <<subscribed, life>>
eventVars == <<raising, calling, served, dropped>>
vars == <<fault, listenerSocket, op, handing, eventVars, callerVars>>

\* "unbound": Bind or Listen failed.  "closed": making a new one failed.
SocketStates == {"null", "unbound", "listening", "closed"}

\* "accept": at the next accept.  "event": a call of null.  "handler": its own.
Faults == {"none", "accept", "event", "handler"}
up == fault = "none"

\* The clients of l's callbacks that are past the lock.
InCallback(l) == handing[l] \cup raising[l] \cup calling[l]

Accepted == served \cup dropped \cup (UNION {InCallback(l) : l \in Listeners})
              \cup {k \in Clients : \E l \in Listeners, o \in Ops : op[l][o] = k}

IsRunning(l) == listenerSocket[l] # "null"

\* Closing the current socket completes its pending accepts as aborted; the
\* accept whose callback makes the call is not used again.
Closed(l, done) ==
  [o \in Ops |-> IF o \in done THEN "free"
                 ELSE IF op[l][o] = "pending" THEN "aborted" ELSE op[l][o]]

PortTaken(l) == \E m \in Listeners \ {l} : listenerSocket[m] = "listening"

\* The outcomes of CreateListener: no exception leaves it.  (An accept that
\* fails inside it calls it again, with one of the same outcomes.)
CreateListener(l, done) ==
  LET accepts == Closed(l, done) IN
  \/ /\ ~PortTaken(l)
     /\ listenerSocket' = [listenerSocket EXCEPT ![l] = "listening"]
     /\ \E n \in Ops : /\ accepts[n] = "free"
                       /\ op' = [op EXCEPT ![l] = [accepts EXCEPT ![n] = "pending"]]
  \/ /\ listenerSocket' = [listenerSocket EXCEPT ![l] = "unbound"]
     /\ op' = [op EXCEPT ![l] = accepts]
  \/ /\ listenerSocket' =
          [listenerSocket EXCEPT ![l] = IF @ = "null" THEN "null" ELSE "closed"]
     /\ op' = [op EXCEPT ![l] = accepts]

Init ==
  /\ fault = "none"
  /\ listenerSocket = [l \in Listeners |-> "null"]
  /\ op = [l \in Listeners |-> [o \in Ops |-> "free"]]
  /\ subscribed = [l \in Listeners |-> FALSE]
  /\ handing = [l \in Listeners |-> {}]
  /\ raising = [l \in Listeners |-> {}]
  /\ calling = [l \in Listeners |-> {}]
  /\ served = {}
  /\ dropped = {}
  /\ life = [l \in Listeners |-> "new"]
-----------------------------------------------------------------------------
(* The owner's calls                                                         *)

Start(l) ==
  /\ up
  /\ ~IsRunning(l)
  /\ CreateListener(l, {})
  /\ life' = [life EXCEPT ![l] = IF @ \in {"new", "started"} THEN "started"
                                                             ELSE "restarted"]
  /\ UNCHANGED <<fault, subscribed, handing, eventVars>>

Stop(l) ==
  /\ up
  /\ IsRunning(l)
  /\ op' = [op EXCEPT ![l] = Closed(l, {})]
  /\ listenerSocket' = [listenerSocket EXCEPT ![l] = "null"]
  /\ life' = [life EXCEPT ![l] = "stopped"]
  /\ UNCHANGED <<fault, subscribed, handing, eventVars>>

\* A handler is attached to the event, or detached from it.
Handler(l, attached) ==
  /\ up
  /\ subscribed' = [subscribed EXCEPT ![l] = attached]
  /\ UNCHANGED <<fault, listenerSocket, op, handing, eventVars, life>>
-----------------------------------------------------------------------------
(* Completions of accepts, from outside                                      *)

Connect(l, o, k) ==
  /\ up
  /\ op[l][o] = "pending"
  /\ k \notin Accepted
  /\ op' = [op EXCEPT ![l][o] = k]
  /\ UNCHANGED <<fault, listenerSocket, handing, eventVars, callerVars>>

\* An accept fails on its own, such as for a client that is gone again.
AcceptFails(l, o) ==
  /\ up
  /\ op[l][o] = "pending"
  /\ op' = [op EXCEPT ![l][o] = "failed"]
  /\ UNCHANGED <<fault, listenerSocket, handing, eventVars, callerVars>>

\* A client whose connection is over may connect again.
Leave(k) ==
  /\ up
  /\ k \in served \cup dropped
  /\ served' = served \ {k}
  /\ dropped' = dropped \ {k}
  /\ UNCHANGED <<fault, listenerSocket, op, handing, raising, calling, callerVars>>
-----------------------------------------------------------------------------
(* SocketAccepted                                                            *)

\* Mutant: the callback does not return after it has made the listener.
SocketAborted_Repeats(l, o) ==
  /\ up
  /\ op[l][o] = "aborted"
  /\ CreateListener(l, {})
  /\ UNCHANGED <<fault, handing, eventVars, callerVars>>

\* OperationAborted: make a new listener and return.
SocketAborted(l, o) ==
  /\ up
  /\ op[l][o] = "aborted"
  /\ CreateListener(l, {o})
  /\ UNCHANGED <<fault, handing, eventVars, callerVars>>

\* Mutant: AcceptSocket is read after it has been cleared.
Taken_Late(l, o) == UNCHANGED handing

\* Mutant: AcceptSocket is read whatever SocketError says.
Taken_Always(l, o) == handing' = [handing EXCEPT ![l] = @ \cup {op[l][o]}]

\* The callback takes e.AcceptSocket, if there is one, ...
Taken(l, o) == handing' = [handing EXCEPT ![l] = @ \cup ({op[l][o]} \cap Clients)]

\* Mutant: after the listener was made again the same accept is tried again.
SocketAccepted_KeepsAccept(l, o) ==
  /\ up
  /\ op[l][o] \in Clients \cup {"failed"}
  /\ \/ /\ listenerSocket[l] = "listening"
        /\ op' = [op EXCEPT ![l][o] = "pending"]
        /\ Taken(l, o)
        /\ UNCHANGED listenerSocket
     \/ /\ listenerSocket[l] \in {"listening", "closed"}
        /\ CreateListener(l, {})
        /\ UNCHANGED handing
  /\ UNCHANGED <<fault, eventVars, callerVars>>

\* Mutant: an accept that failed is not made again.
SocketAccepted_OnlySuccess(l, o) ==
  /\ up
  /\ op[l][o] \in Clients \cup {"failed"}
  /\ Taken(l, o)
  /\ \/ /\ listenerSocket[l] = "listening"
        /\ op' = [op EXCEPT ![l][o] = IF @ = "failed" THEN "free" ELSE "pending"]
        /\ UNCHANGED listenerSocket
     \/ /\ listenerSocket[l] \in {"listening", "closed"}
        /\ CreateListener(l, {o})
  /\ UNCHANGED <<fault, eventVars, callerVars>>

\* ... and uses the accept again, on whatever is the socket by then.
SocketAccepted(l, o) ==
  /\ up
  /\ op[l][o] \in Clients \cup {"failed"}
  /\ Taken(l, o)
  /\ \/ /\ listenerSocket[l] = "listening"
        /\ op' = [op EXCEPT ![l][o] = "pending"]
        /\ UNCHANGED listenerSocket
     \/ \* SocketException, or ObjectDisposedException of a closed socket
        /\ listenerSocket[l] \in {"listening", "closed"}
        /\ CreateListener(l, {o})
  /\ UNCHANGED <<fault, eventVars, callerVars>>

\* No socket, or one that is not bound: an exception nothing catches.
SocketAcceptedThrows(l, o) ==
  /\ up
  /\ op[l][o] \in Clients \cup {"failed"}
  /\ listenerSocket[l] \in {"null", "unbound"}
  /\ fault' = "accept"
  /\ UNCHANGED <<listenerSocket, op, handing, eventVars, callerVars>>

\* OnSocketConnected looks whether there is a handler, ...
OnSocketConnected(l, k) ==
  /\ up
  /\ k \in handing[l]
  /\ handing' = [handing EXCEPT ![l] = @ \ {k}]
  /\ IF subscribed[l]
     THEN raising' = [raising EXCEPT ![l] = @ \cup {k}] /\ UNCHANGED dropped
     ELSE dropped' = dropped \cup {k} /\ UNCHANGED raising
  /\ UNCHANGED <<fault, listenerSocket, op, calling, served, callerVars>>

\* ... loads it, ...
LoadHandler(l, k) ==
  /\ up
  /\ k \in raising[l] /\ subscribed[l]
  /\ raising' = [raising EXCEPT ![l] = @ \ {k}]
  /\ calling' = [calling EXCEPT ![l] = @ \cup {k}]
  /\ UNCHANGED <<fault, listenerSocket, op, handing, served, dropped, callerVars>>

\* (it was detached in between: a call of null, which nothing catches)
RaiseThrows(l, k) ==
  /\ up
  /\ k \in raising[l] /\ ~subscribed[l]
  /\ fault' = "event"
  /\ UNCHANGED <<listenerSocket, op, handing, eventVars, callerVars>>

\* ... and calls it, attached still or not.
Raise(l, k) ==
  /\ up
  /\ k \in calling[l]
  /\ calling' = [calling EXCEPT ![l] = @ \ {k}]
  /\ served' = served \cup {k}
  /\ UNCHANGED <<fault, listenerSocket, op, handing, raising, dropped, callerVars>>

\* The handler throws, and nothing between it and the I/O thread catches it.
\* The server's handler does, for a client that is gone (RemoteEndPoint) and
\* when the pool has no args left (the constructor of SocketConnection).
HandlerThrows(l, k) ==
  /\ up
  /\ k \in calling[l]
  /\ fault' = "handler"
  /\ UNCHANGED <<listenerSocket, op, handing, eventVars, callerVars>>

\* Nothing runs in a process that has ended.
Down == ~up /\ UNCHANGED vars
-----------------------------------------------------------------------------
Callback(l) ==
  \/ \E o \in Ops : SocketAborted(l, o) \/ SocketAccepted(l, o)
                    \/ SocketAcceptedThrows(l, o)
  \/ \E k \in Clients : \/ OnSocketConnected(l, k)
                        \/ LoadHandler(l, k) \/ RaiseThrows(l, k)
                        \/ Raise(l, k) \/ HandlerThrows(l, k)

Completion(l) ==
  \E o \in Ops : AcceptFails(l, o) \/ \E k \in Clients : Connect(l, o, k)

Owner(l) == Start(l) \/ Stop(l) \/ \E attached \in BOOLEAN : Handler(l, attached)

Next == \/ \E l \in Listeners : Owner(l) \/ Callback(l) \/ Completion(l)
        \/ \E k \in Clients : Leave(k)
        \/ Down

Spec == Init /\ [][Next]_vars

\* Callbacks that are due are run; clients and owners owe nothing.
CallbackFairness ==
  \A l \in Listeners :
    /\ \A o \in Ops : WF_vars(SocketAborted(l, o) \/ SocketAccepted(l, o)
                              \/ SocketAcceptedThrows(l, o))
    /\ \A k \in Clients : /\ WF_vars(OnSocketConnected(l, k))
                          /\ WF_vars(LoadHandler(l, k) \/ RaiseThrows(l, k))
                          /\ WF_vars(Raise(l, k) \/ HandlerThrows(l, k))

FairSpec == Spec /\ CallbackFairness
-----------------------------------------------------------------------------
TypeOK ==
  /\ fault \in Faults
  /\ listenerSocket \in [Listeners -> SocketStates]
  /\ op \in [Listeners -> [Ops -> OpStates \cup Clients]]
  /\ subscribed \in [Listeners -> BOOLEAN]
  /\ handing \in [Listeners -> SUBSET Clients]
  /\ raising \in [Listeners -> SUBSET Clients]
  /\ calling \in [Listeners -> SUBSET Clients]
  /\ served \in SUBSET Clients
  /\ dropped \in SUBSET Clients
  /\ life \in [Listeners -> {"new", "started", "stopped", "restarted"}]

InUse(l) == {o \in Ops : op[l][o] # "free"}

\* A socket that listens has an accept under way or about to be made again by
\* a callback: the server is never deaf on an open port (ListenForConnection).
NeverDeaf ==
  \A l \in Listeners : listenerSocket[l] = "listening" => InUse(l) # {}

\* An accept is pending only on a socket that listens: closing one, by Stop or
\* CreateListener, leaves no accept behind on it.
PendingOnListening ==
  \A l \in Listeners, o \in Ops :
    op[l][o] = "pending" => listenerSocket[l] = "listening"

\* Until it is stopped a listener has one accept: one replaces the other.
OneAccept ==
  \A l \in Listeners : life[l] \in {"new", "started"} =>
    \A o, q \in InUse(l) : o = q

\* The exceptions of the listener itself, the handler's aside, need a Stop or a
\* detach: then a completed accept can find its listener without a socket, or a
\* client on its way to the handler can find none.
ThrowsOnlyAfterStop ==
  /\ fault = "accept" => \E l \in Listeners : life[l] \in {"stopped", "restarted"}
  /\ fault = "event" => \E l \in Listeners : raising[l] # {} /\ ~subscribed[l]

\* A client is taken by one callback and handed over once (SocketAccepted).
AcceptedOnce ==
  \A k \in Clients :
    /\ \A l, m \in Listeners, o, q \in Ops :
         op[l][o] = k /\ op[m][q] = k => l = m /\ o = q
    /\ \A l, m \in Listeners : k \in InCallback(l) \cap InCallback(m) => l = m
    /\ \A l \in Listeners : k \notin (handing[l] \cap raising[l])
                                  \cup (handing[l] \cap calling[l])
                                  \cup (raising[l] \cap calling[l])
    /\ \A l, m \in Listeners, o \in Ops :
         op[l][o] = k => k \notin InCallback(m) \cup served \cup dropped
    /\ \A l \in Listeners : k \in InCallback(l) => k \notin served \cup dropped

\* Inductive strengthening: a listener that was never stopped has its accept
\* only on a socket that listens.
ListeningWhileInUse ==
  \A l \in Listeners :
    life[l] \in {"new", "started"} /\ InUse(l) # {}
      => listenerSocket[l] = "listening"

IndInv ==
  /\ TypeOK /\ NeverDeaf /\ PendingOnListening /\ OneAccept
  /\ ListeningWhileInUse /\ ThrowsOnlyAfterStop /\ AcceptedOnce

\* A client whose connection was accepted reaches the event, or nothing does.
AcceptedIsHandedOver ==
  \A k \in Clients, l \in Listeners :
    (\E o \in Ops : op[l][o] = k) ~> (k \in served \cup dropped \/ ~up)

\* SocketListener.Stop, "Stop listening for socket connections": between Stop
\* and the next Start there is no listening socket.
StopStops ==
  \A l \in Listeners : life[l] = "stopped" => listenerSocket[l] # "listening"
=============================================================================
