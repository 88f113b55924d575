-------------------------- MODULE PortListener_proofs --------------------------
(***************************************************************************)
(* Proofs about PortListener.tla, for any number of restarts, accepts and  *)
(* clients.  Every step of the host and the network is a step of           *)
(* SocketListener.tla or one of the handler alone, so the invariant proved *)
(* there holds here; what it says of a listener that is never stopped is   *)
(* extended to those that were, since none is started twice.               *)
(***************************************************************************)
EXTENDS PortListener, TLAPS

LP == INSTANCE SocketListener_proofs

\* L, the instance of the specification, and LP, the one of its proofs, define
\* the same.
LEMMA SameIndInv == (L!IndInv <=> LP!IndInv) /\ (L!IndInv' <=> LP!IndInv')
  BY DEF L!IndInv, L!TypeOK, L!NeverDeaf, L!PendingOnListening, L!OneAccept,
         L!ListeningWhileInUse, L!ThrowsOnlyAfterStop, L!AcceptedOnce, L!InUse,
         L!InCallback, L!Faults, L!up, L!OpStates, L!SocketStates,
         LP!IndInv, LP!TypeOK, LP!NeverDeaf, LP!PendingOnListening, LP!OneAccept,
         LP!ListeningWhileInUse, LP!ThrowsOnlyAfterStop, LP!AcceptedOnce, LP!InUse,
         LP!InCallback, LP!Faults, LP!up, LP!OpStates, LP!SocketStates

LEMMA SameInit == L!Init <=> LP!Init
  BY DEF L!Init, LP!Init

LEMMA SameNext == L!Next <=> LP!Next
  BY DEF L!Next, L!vars, L!callerVars, L!eventVars, L!Owner, L!Handler, L!Start, L!Stop, L!CreateListener, L!Closed,
         L!PortTaken, L!IsRunning, L!Connect, L!Accepted, L!AcceptFails, L!Leave,
         L!SocketAborted, L!SocketAccepted, L!Taken, L!SocketAcceptedThrows,
         L!OnSocketConnected, L!LoadHandler, L!Raise, L!RaiseThrows,
         L!HandlerThrows, L!up, L!InCallback, L!Down, L!Callback, L!Completion,
         LP!Next, LP!vars, LP!callerVars, LP!eventVars, LP!Owner, LP!Handler, LP!Start, LP!Stop, LP!CreateListener,
         LP!Closed, LP!PortTaken, LP!IsRunning, LP!Connect, LP!Accepted,
         LP!AcceptFails, LP!Leave, LP!SocketAborted, LP!SocketAccepted, LP!Taken,
         LP!SocketAcceptedThrows, LP!OnSocketConnected, LP!LoadHandler, LP!Raise, LP!RaiseThrows,
         LP!HandlerThrows, LP!up, LP!InCallback, LP!Down, LP!Callback,
         LP!Completion

LEMMA ListenersInit == L!Init => L!IndInv
  BY SameIndInv, SameInit, LP!InitIndInv, ClientsAssumption DEF LP!OpStates

LEMMA ListenersKept ==
  ASSUME L!IndInv, L!Next
  PROVE  L!IndInv'
  <1>1. LP!IndInv /\ [LP!Next]_LP!vars => LP!IndInv'
    BY LP!NextIndInv, ClientsAssumption DEF LP!OpStates
  <1> QED
    BY <1>1, SameIndInv, SameNext

\* The host's other steps.
LEMMA ListenersUntouched ==
  ASSUME L!IndInv, UNCHANGED listenerVars, UNCHANGED subscribed
  PROVE  L!IndInv'
  BY DEF listenerVars, L!IndInv, L!TypeOK, L!NeverDeaf, L!PendingOnListening,
         L!OneAccept, L!ListeningWhileInUse, L!ThrowsOnlyAfterStop, L!AcceptedOnce,
         L!InUse, L!InCallback, L!Faults, L!OpStates, L!SocketStates
-----------------------------------------------------------------------------
\* One listener in the wake of a step: it has one accept at most, does not lose
\* its socket, and does not wake up when it is silent.
Orderly(l) ==
  /\ \A o, q \in L!InUse(l)' : o = q
  /\ listenerSocket'[l] = "null" => listenerSocket[l] = "null"
  /\ Silent(l) => Silent(l)'

\* A listener whose one accept is done makes itself again.
LEMMA CreateListenerEffect ==
  ASSUME L!TypeOK, NEW l \in Listeners, NEW done \in SUBSET Ops,
         L!InUse(l) \subseteq done, L!CreateListener(l, done)
  PROVE  /\ \A o, q \in L!InUse(l)' : o = q
         /\ listenerSocket'[l] = "null" => listenerSocket[l] = "null" /\ L!InUse(l)' = {}
         /\ \A m \in Listeners : m # l => /\ op'[m] = op[m]
                                          /\ listenerSocket'[m] = listenerSocket[m]
  <1> DEFINE accepts == L!Closed(l, done)
  <1>1. accepts = [o \in Ops |-> "free"]
    BY DEF L!Closed, L!InUse
  <1>2. \/ /\ listenerSocket' = [listenerSocket EXCEPT ![l] = "listening"]
           /\ \E n \in Ops : op' = [op EXCEPT ![l] = [accepts EXCEPT ![n] = "pending"]]
        \/ /\ listenerSocket' = [listenerSocket EXCEPT ![l] = "unbound"]
           /\ op' = [op EXCEPT ![l] = accepts]
        \/ /\ listenerSocket' =
                [listenerSocket EXCEPT ![l] = IF @ = "null" THEN "null" ELSE "closed"]
           /\ op' = [op EXCEPT ![l] = accepts]
    BY DEF L!CreateListener
  <1> HIDE DEF accepts
  <1>3. \A m \in Listeners : m # l => /\ op'[m] = op[m]
                                      /\ listenerSocket'[m] = listenerSocket[m]
    BY <1>2 DEF L!TypeOK
  <1>4. CASE /\ listenerSocket' = [listenerSocket EXCEPT ![l] = "listening"]
             /\ \E n \in Ops : op' = [op EXCEPT ![l] = [accepts EXCEPT ![n] = "pending"]]
    <2>1. PICK n \in Ops : op' = [op EXCEPT ![l] = [accepts EXCEPT ![n] = "pending"]]
      BY <1>4
    <2>2. listenerSocket'[l] = "listening"
      BY <1>4 DEF L!TypeOK
    <2>3. \A o \in Ops : op'[l][o] = IF o = n THEN "pending" ELSE "free"
      BY <1>1, <2>1 DEF L!TypeOK
    <2> QED
      BY <1>3, <2>2, <2>3 DEF L!InUse
  <1>5. CASE /\ \/ listenerSocket' = [listenerSocket EXCEPT ![l] = "unbound"]
                \/ listenerSocket' =
                     [listenerSocket EXCEPT ![l] = IF @ = "null" THEN "null" ELSE "closed"]
             /\ op' = [op EXCEPT ![l] = accepts]
    <2>1. listenerSocket'[l] = "null" => listenerSocket[l] = "null"
      BY <1>5 DEF L!TypeOK
    <2>2. \A o \in Ops : op'[l][o] = "free"
      BY <1>1, <1>5 DEF L!TypeOK
    <2> QED
      BY <1>3, <2>1, <2>2 DEF L!InUse
  <1> QED
    BY <1>2, <1>4, <1>5

\* A callback whose accept is used again, or a completion.
LEMMA AcceptReplaced ==
  ASSUME L!TypeOK, OneAcceptEach, NEW l \in Listeners, NEW o \in Ops,
         op[l][o] # "free", NEW r, op' = [op EXCEPT ![l][o] = r],
         UNCHANGED listenerSocket,
         \A m \in Listeners : m # l => L!InCallback(m)' = L!InCallback(m)
  PROVE  \A m \in Listeners : Orderly(m)
  <1>1. \A q \in Ops : q # o => op'[l][q] = op[l][q]
    BY DEF L!TypeOK
  <1>2. \A m \in Listeners : m # l => op'[m] = op[m]
    BY DEF L!TypeOK
  <1>3. o \in L!InUse(l) /\ L!InUse(l)' \subseteq L!InUse(l)
    BY <1>1 DEF L!InUse
  <1>4. ~Silent(l)
    BY <1>3 DEF Silent
  <1>5. \A m \in Listeners : m # l => L!InUse(m)' = L!InUse(m)
    BY <1>2 DEF L!InUse
  <1>6. Orderly(l)
    BY <1>3, <1>4 DEF Orderly, OneAcceptEach
  <1>7. ASSUME NEW m \in Listeners, m # l PROVE Orderly(m)
    BY <1>5, <1>7 DEF Orderly, OneAcceptEach, Silent
  <1> QED
    BY <1>6, <1>7

\* A callback that makes its listener again.
LEMMA AcceptOver ==
  ASSUME L!TypeOK, OneAcceptEach, NEW l \in Listeners, NEW o \in Ops,
         op[l][o] # "free", L!CreateListener(l, {o}),
         \A m \in Listeners : m # l => L!InCallback(m)' = L!InCallback(m)
  PROVE  \A m \in Listeners : Orderly(m)
  <1>1. o \in L!InUse(l) /\ L!InUse(l) \subseteq {o}
    BY DEF L!InUse, OneAcceptEach
  <1>2. /\ \A p, q \in L!InUse(l)' : p = q
        /\ listenerSocket'[l] = "null" => listenerSocket[l] = "null" /\ L!InUse(l)' = {}
        /\ \A m \in Listeners : m # l => /\ op'[m] = op[m]
                                         /\ listenerSocket'[m] = listenerSocket[m]
    BY <1>1, CreateListenerEffect
  <1>3. Orderly(l)
    BY <1>1, <1>2 DEF Orderly, Silent
  <1>4. \A m \in Listeners : m # l => L!InUse(m)' = L!InUse(m)
    BY <1>2 DEF L!InUse
  <1>5. ASSUME NEW m \in Listeners, m # l PROVE Orderly(m)
    BY <1>2, <1>4, <1>5 DEF Orderly, OneAcceptEach, Silent
  <1> QED
    BY <1>3, <1>5
-----------------------------------------------------------------------------
\* Callbacks and completions leave every listener in order.
LEMMA NetworkEffect ==
  ASSUME L!TypeOK, OneAcceptEach, Network
  PROVE  /\ UNCHANGED <<subscribed, life>>
         /\ \A m \in Listeners : Orderly(m)
  <1>1. ASSUME NEW l \in Listeners, NEW o \in Ops, L!SocketAborted(l, o)
        PROVE  UNCHANGED <<subscribed, life>> /\ \A m \in Listeners : Orderly(m)
    <2>1. /\ op[l][o] # "free" /\ L!CreateListener(l, {o})
          /\ \A m \in Listeners : L!InCallback(m)' = L!InCallback(m)
      BY <1>1 DEF L!SocketAborted, L!eventVars, L!InCallback
    <2> QED
      BY <1>1, <2>1, AcceptOver DEF L!SocketAborted, L!callerVars
  <1>2. ASSUME NEW l \in Listeners, NEW o \in Ops, L!SocketAccepted(l, o)
        PROVE  UNCHANGED <<subscribed, life>> /\ \A m \in Listeners : Orderly(m)
    <2>1. op[l][o] # "free"
      BY <1>2, ClientsAssumption DEF L!SocketAccepted
    <2>2. \A m \in Listeners : m # l => L!InCallback(m)' = L!InCallback(m)
      BY <1>2 DEF L!SocketAccepted, L!Taken, L!TypeOK, L!eventVars, L!InCallback
    <2>3. \/ op' = [op EXCEPT ![l][o] = "pending"] /\ UNCHANGED listenerSocket
          \/ L!CreateListener(l, {o})
      BY <1>2 DEF L!SocketAccepted
    <2>4. \A m \in Listeners : Orderly(m)
      BY <2>1, <2>2, <2>3, AcceptReplaced, AcceptOver
    <2> QED
      BY <1>2, <2>4 DEF L!SocketAccepted, L!callerVars
  <1>3. ASSUME NEW l \in Listeners, NEW o \in Ops, L!SocketAcceptedThrows(l, o)
        PROVE  UNCHANGED <<subscribed, life>> /\ \A m \in Listeners : Orderly(m)
    BY <1>3 DEF L!SocketAcceptedThrows, L!callerVars, L!eventVars, Orderly, Silent, L!InUse,
                L!InCallback, OneAcceptEach
  <1>4. ASSUME NEW l \in Listeners, NEW k \in Clients,
               \/ L!OnSocketConnected(l, k) \/ L!LoadHandler(l, k) \/ L!RaiseThrows(l, k)
               \/ L!Raise(l, k) \/ L!HandlerThrows(l, k)
        PROVE  UNCHANGED <<subscribed, life>> /\ \A m \in Listeners : Orderly(m)
    <2> USE DEF L!OnSocketConnected, L!LoadHandler, L!RaiseThrows, L!Raise, L!HandlerThrows
    <2>1. UNCHANGED <<op, listenerSocket, subscribed, life>>
      BY <1>4 DEF L!callerVars
    <2>2. \A m \in Listeners : m # l => L!InCallback(m)' = L!InCallback(m)
      BY <1>4 DEF L!eventVars, L!TypeOK, L!InCallback
    <2>3. ~Silent(l)
      BY <1>4 DEF Silent, L!InCallback
    <2>4. \A m \in Listeners : L!InUse(m)' = L!InUse(m)
      BY <2>1 DEF L!InUse
    <2>5. Orderly(l)
      BY <2>1, <2>3, <2>4 DEF Orderly, OneAcceptEach
    <2>6. ASSUME NEW m \in Listeners, m # l PROVE Orderly(m)
      BY <2>1, <2>2, <2>4, <2>6 DEF Orderly, Silent, OneAcceptEach
    <2> QED
      BY <2>1, <2>5, <2>6
  <1>5. ASSUME NEW l \in Listeners, NEW o \in Ops,
               L!AcceptFails(l, o) \/ \E k \in Clients : L!Connect(l, o, k)
        PROVE  UNCHANGED <<subscribed, life>> /\ \A m \in Listeners : Orderly(m)
    <2>1. /\ op[l][o] # "free" /\ \E r : op' = [op EXCEPT ![l][o] = r]
          /\ UNCHANGED <<listenerSocket, subscribed, life>>
          /\ \A m \in Listeners : L!InCallback(m)' = L!InCallback(m)
      BY <1>5 DEF L!AcceptFails, L!Connect, L!callerVars, L!eventVars, L!InCallback
    <2>2. PICK r : op' = [op EXCEPT ![l][o] = r]
      BY <2>1
    <2> QED
      BY <2>1, <2>2, AcceptReplaced
  <1>6. ASSUME NEW k \in Clients, L!Leave(k)
        PROVE  UNCHANGED <<subscribed, life>> /\ \A m \in Listeners : Orderly(m)
    BY <1>6 DEF L!Leave, L!callerVars, Orderly, Silent, L!InUse, L!InCallback, OneAcceptEach
  <1> QED
    BY <1>1, <1>2, <1>3, <1>4, <1>5, <1>6 DEF Network, L!Callback, L!Completion
-----------------------------------------------------------------------------
LEMMA InitIndInv == Init => IndInv
  <1> SUFFICES ASSUME Init PROVE IndInv
    OBVIOUS
  <1>1. L!IndInv /\ L!TypeOK
    BY ListenersInit DEF Init, L!IndInv
  <1>2. \A l \in Listeners : /\ Silent(l) /\ life[l] = "new" /\ ~subscribed[l]
                             /\ L!InUse(l) = {}
    BY DEF Init, L!Init, Silent, L!InUse, L!InCallback
  <1> QED
    BY <1>1, <1>2 DEF Init, IndInv, TypeOK, OneAcceptEach

LEMMA NetworkIndInv ==
  ASSUME IndInv, Network, UNCHANGED hostVars
  PROVE  IndInv'
  <1>1. L!IndInv'
    BY ListenersKept DEF IndInv, Network, L!Next
  <1>2. /\ UNCHANGED <<subscribed, life, socketListener, step>>
        /\ \A m \in Listeners : Orderly(m)
    BY NetworkEffect DEF IndInv, TypeOK, hostVars
  <1>3. TypeOK' /\ OneAcceptEach'
    BY <1>1, <1>2 DEF IndInv, TypeOK, L!IndInv, OneAcceptEach, Orderly
  <1> QED
    BY <1>1, <1>2, <1>3 DEF IndInv, Orderly

LEMMA HostIndInv ==
  ASSUME IndInv, Host
  PROVE  IndInv'
  <1>1. CASE StartSubscribes
    <2>1. PICK l \in Listeners :
            /\ life[l] = "new" /\ socketListener' = l
            /\ subscribed' = [subscribed EXCEPT ![l] = TRUE]
            /\ L!Handler(l, TRUE) /\ UNCHANGED listenerVars
      BY <1>1 DEF StartSubscribes, L!Handler, L!eventVars, listenerVars
    <2>2. step = "stopped" /\ step' = "starting" /\ UNCHANGED listenerVars
      BY <1>1, <2>1 DEF StartSubscribes
    <2>3. L!IndInv' /\ L!TypeOK'
      BY <2>1, ListenersKept DEF IndInv, L!IndInv, L!Next, L!Owner
    <2>4. \A m \in Listeners : /\ (Silent(m)' <=> Silent(m)) /\ L!InUse(m)' = L!InUse(m)
                               /\ life'[m] = life[m]
                               /\ m # l => subscribed'[m] = subscribed[m]
      <3>1. \A m \in Listeners : m # l => subscribed'[m] = subscribed[m]
        BY <2>1 DEF IndInv, TypeOK, L!TypeOK
      <3>2. \A m \in Listeners : /\ (Silent(m)' <=> Silent(m)) /\ L!InUse(m)' = L!InUse(m)
                                 /\ life'[m] = life[m]
        BY <2>2 DEF listenerVars, Silent, L!InUse, L!InCallback
      <3> QED
        BY <3>1, <3>2
    <2>5. TypeOK' /\ OneAcceptEach'
      <3>1. TypeOK'
        BY <2>1, <2>2, <2>3 DEF TypeOK
      <3>2. OneAcceptEach
        BY DEF IndInv
      <3> QED
        BY <2>4, <3>1, <3>2 DEF OneAcceptEach
    <2>6. listenerSocket' = listenerSocket
      BY <2>2 DEF listenerVars
    <2>7. life'[l] = "new" /\ \A m \in Listeners : life[m] = "started" => Silent(m)
      BY <2>1, <2>2, <2>4 DEF IndInv
    <2>8. \A m \in Listeners : subscribed[m] => Silent(m) /\ life[m] # "new"
      BY <2>2 DEF IndInv
    <2>9. ASSUME NEW m \in Listeners
          PROVE  subscribed'[m] => \/ m = socketListener' /\ step' \in {"starting", "started"}
                                   \/ Silent(m)' /\ life'[m] # "new"
      BY <2>1, <2>2, <2>4, <2>8
    <2>10. subscribed'[l]
      BY <2>1 DEF IndInv, TypeOK, L!TypeOK
    <2>11. \A m \in Listeners :
             /\ life'[m] # "restarted"
             /\ life'[m] = "new" => Silent(m)'
             /\ life'[m] = "started" => Silent(m)'
      BY <2>4, <2>7 DEF IndInv
    <2> QED
      BY <2>1, <2>2, <2>3, <2>5, <2>7, <2>9, <2>10, <2>11 DEF IndInv
  <1>2. CASE StartListens
    <2>0. PICK l \in Listeners : l = socketListener
      BY <1>2 DEF StartListens, IndInv
    <2>1. /\ step = "starting" /\ step' = "started" /\ socketListener' = socketListener
          /\ L!Start(l) /\ life[l] = "new"
      BY <1>2, <2>0 DEF StartListens, IndInv
    <2>2. L!IndInv' /\ L!TypeOK'
      BY <2>1, ListenersKept DEF IndInv, L!Next, L!Owner, L!IndInv
    <2>3. /\ L!CreateListener(l, {}) /\ L!InUse(l) \subseteq {}
          /\ L!InCallback(l) = {}
          /\ subscribed' = subscribed
          /\ \A m \in Listeners : L!InCallback(m)' = L!InCallback(m)
          /\ life' = [life EXCEPT ![l] = "started"]
      BY <2>1 DEF L!Start, L!eventVars, IndInv, Silent, L!InCallback
    <2>4. /\ \A o, q \in L!InUse(l)' : o = q
          /\ listenerSocket'[l] = "null" => listenerSocket[l] = "null" /\ L!InUse(l)' = {}
          /\ \A m \in Listeners : m # l => /\ op'[m] = op[m]
                                           /\ listenerSocket'[m] = listenerSocket[m]
      BY <2>1, <2>3, CreateListenerEffect DEF IndInv, TypeOK
    <2>5. \A m \in Listeners : m # l => /\ (Silent(m)' <=> Silent(m))
                                        /\ L!InUse(m)' = L!InUse(m)
                                        /\ life'[m] = life[m]
      BY <2>3, <2>4 DEF Silent, L!InUse, IndInv, TypeOK, L!TypeOK
    <2>6. life'[l] = "started"
      BY <2>1, <2>3 DEF IndInv, TypeOK, L!TypeOK
    <2>7. /\ listenerSocket'[l] = "null" => Silent(l)'
          /\ subscribed'[l]
      <3>1. subscribed[l]
        BY <2>0, <2>1 DEF IndInv
      <3> QED
        BY <2>3, <2>4, <3>1 DEF Silent
    <2>8. OneAcceptEach'
      BY <2>4, <2>5 DEF OneAcceptEach, IndInv
    <2>9. TypeOK'
      BY <2>1, <2>2 DEF TypeOK, IndInv
    <2>10. ASSUME NEW m \in Listeners
           PROVE  /\ life'[m] # "restarted"
                  /\ life'[m] = "new" => Silent(m)'
                  /\ life'[m] = "started" /\ listenerSocket'[m] = "null" => Silent(m)'
                  /\ life'[m] = "started" =>
                       \/ Silent(m)'
                       \/ m = socketListener' /\ step' \in {"started", "stopping"}
                  /\ subscribed'[m] => \/ m = socketListener' /\ step' \in {"starting", "started"}
                                       \/ Silent(m)' /\ life'[m] # "new"
      <3>1. CASE m = l
        BY <2>0, <2>1, <2>6, <2>7, <3>1
      <3>2. CASE m # l
        BY <2>0, <2>1, <2>3, <2>4, <2>5, <3>2 DEF IndInv
      <3> QED
        BY <3>1, <3>2
    <2> QED
      BY <2>0, <2>1, <2>2, <2>6, <2>7, <2>8, <2>9, <2>10 DEF IndInv
  <1>3. CASE StopUnsubscribes
    <2>0. PICK l \in Listeners : l = socketListener
      BY <1>3 DEF StopUnsubscribes, IndInv
    <2>1. /\ step = "started" /\ step' = "stopping" /\ socketListener' = socketListener
          /\ subscribed' = [subscribed EXCEPT ![l] = FALSE]
          /\ L!Handler(l, FALSE) /\ UNCHANGED listenerVars
      BY <1>3, <2>0 DEF StopUnsubscribes, L!Handler, L!eventVars, listenerVars, IndInv
    <2>2. L!IndInv' /\ L!TypeOK'
      BY <2>1, ListenersKept DEF IndInv, L!IndInv, L!Next, L!Owner
    <2>3. \A m \in Listeners : /\ (Silent(m)' <=> Silent(m)) /\ L!InUse(m)' = L!InUse(m)
      BY <2>1 DEF listenerVars, Silent, L!InUse, L!InCallback
    <2>4. /\ \A m \in Listeners : m # l => subscribed'[m] = subscribed[m]
          /\ subscribed'[l] = FALSE
      BY <2>1 DEF IndInv, TypeOK, L!TypeOK
    <2> QED
      BY <2>0, <2>1, <2>2, <2>3, <2>4 DEF IndInv, TypeOK, OneAcceptEach, listenerVars
  <1>4. CASE StopCloses
    <2>0. PICK l \in Listeners : l = socketListener
      BY <1>4 DEF StopCloses, IndInv
    <2>1. /\ step = "stopping" /\ step' = "stopped" /\ socketListener' = socketListener
          /\ L!Stop(l) /\ life[l] = "started"
      BY <1>4, <2>0 DEF StopCloses, IndInv
    <2>2. L!IndInv' /\ L!TypeOK'
      BY <2>1, ListenersKept DEF IndInv, L!Next, L!Owner, L!IndInv
    <2>3. /\ op' = [op EXCEPT ![l] = L!Closed(l, {})]
          /\ listenerSocket' = [listenerSocket EXCEPT ![l] = "null"]
          /\ life' = [life EXCEPT ![l] = "stopped"]
          /\ subscribed' = subscribed
          /\ \A m \in Listeners : L!InCallback(m)' = L!InCallback(m)
          /\ listenerSocket[l] # "null"
      BY <2>1 DEF L!Stop, L!eventVars, L!IsRunning, L!InCallback
    <2>4. L!InUse(l)' \subseteq L!InUse(l)
      BY <2>1, <2>3 DEF L!InUse, L!Closed, IndInv, TypeOK, L!TypeOK
    <2>5. \A m \in Listeners : m # l => /\ (Silent(m)' <=> Silent(m))
                                        /\ L!InUse(m)' = L!InUse(m)
                                        /\ life'[m] = life[m]
                                        /\ listenerSocket'[m] = listenerSocket[m]
      BY <2>3 DEF Silent, L!InUse, IndInv, TypeOK, L!TypeOK
    <2>6. life'[l] = "stopped"
      BY <2>1, <2>3 DEF IndInv, TypeOK, L!TypeOK
    <2>7. ~subscribed[l]
      BY <2>0, <2>1, <2>3 DEF IndInv, Silent
    <2>8. OneAcceptEach'
      BY <2>4, <2>5 DEF OneAcceptEach, IndInv
    <2>9. TypeOK'
      BY <2>1, <2>2 DEF TypeOK, IndInv
    <2>10. ASSUME NEW m \in Listeners
           PROVE  /\ life'[m] # "restarted"
                  /\ life'[m] = "new" => Silent(m)'
                  /\ life'[m] = "started" /\ listenerSocket'[m] = "null" => Silent(m)'
                  /\ life'[m] = "started" =>
                       \/ Silent(m)'
                       \/ m = socketListener' /\ step' \in {"started", "stopping"}
                  /\ subscribed'[m] => \/ m = socketListener' /\ step' \in {"starting", "started"}
                                       \/ Silent(m)' /\ life'[m] # "new"
      <3>1. CASE m = l
        BY <2>3, <2>6, <2>7, <3>1
      <3>2. CASE m # l
        <4>1. /\ life[m] # "restarted"
              /\ life[m] \in {"new", "started"} => Silent(m)
              /\ subscribed[m] => Silent(m) /\ life[m] # "new"
          BY <2>0, <2>1, <3>2 DEF IndInv
        <4>2. /\ Silent(m)' <=> Silent(m)
              /\ life'[m] = life[m] /\ listenerSocket'[m] = listenerSocket[m]
              /\ subscribed'[m] = subscribed[m]
          BY <2>3, <2>5, <3>2
        <4> QED
          BY <4>1, <4>2
      <3> QED
        BY <3>1, <3>2
    <2> QED
      BY <2>1, <2>2, <2>8, <2>9, <2>10 DEF IndInv
  <1>5. CASE StopSkips
    <2>1. /\ step = "started" /\ step' = "stopped"
          /\ listenerSocket[socketListener] = "null"
          /\ UNCHANGED <<listenerVars, subscribed, socketListener>>
      BY <1>5 DEF StopSkips, L!IsRunning
    <2>2. L!IndInv' /\ L!TypeOK'
      BY <2>1, ListenersUntouched DEF IndInv, TypeOK, L!TypeOK, L!IndInv
    <2>3. \A m \in Listeners : (Silent(m)' <=> Silent(m)) /\ L!InUse(m)' = L!InUse(m)
      BY <2>1 DEF listenerVars, Silent, L!InUse, L!InCallback
    <2> QED
      BY <2>1, <2>2, <2>3 DEF IndInv, TypeOK, OneAcceptEach, listenerVars
  <1> QED
    BY <1>1, <1>2, <1>3, <1>4, <1>5 DEF Host
-----------------------------------------------------------------------------
\* The inductive invariant holds; with it all that SocketListener.tla promises of
\* its listeners holds of those the port listener makes.
THEOREM PortIndInv == Spec => []IndInv
  <1>1. IndInv /\ [Next]_vars => IndInv'
    <2> SUFFICES ASSUME IndInv, [Next]_vars PROVE IndInv'
      OBVIOUS
    <2>1. CASE UNCHANGED vars
      <3>1. UNCHANGED <<listenerVars, subscribed, socketListener, step>>
        BY <2>1 DEF vars, hostVars
      <3>2. L!IndInv' /\ L!TypeOK'
        BY <3>1, ListenersUntouched DEF IndInv, TypeOK, L!TypeOK, L!IndInv
      <3>3. \A m \in Listeners : (Silent(m)' <=> Silent(m)) /\ L!InUse(m)' = L!InUse(m)
        BY <3>1 DEF listenerVars, Silent, L!InUse, L!InCallback
      <3> QED
        BY <3>1, <3>2, <3>3 DEF IndInv, TypeOK, OneAcceptEach, listenerVars
    <2> QED
      BY <2>1, HostIndInv, NetworkIndInv DEF Next
  <1> QED
    BY InitIndInv, <1>1, PTL DEF Spec

\* PortListener.Start never starts a listener twice, so each listener has one
\* accept, also those that come back to life after Stop.
THEOREM PortOneAcceptEach == Spec => []OneAcceptEach
  <1>1. IndInv => OneAcceptEach
    BY DEF IndInv
  <1> QED
    BY <1>1, PortIndInv, PTL

\* However often the port listener is restarted, its handler is found only by the
\* listener of the last Start and not once Stop has detached it, and clients are
\* dropped only by listeners whose Stop has begun.
THEOREM PortHandlerOfCurrent == Spec => HandlerOfCurrent
  <1> DEFINE Found(l, k) ==
        k \in calling'[l] \ calling[l] => l = socketListener /\ step = "started"
  <1> DEFINE Dropped(l, k) ==
        k \in handing[l] \cap dropped' =>
          \/ life[l] = "stopped"
          \/ l = socketListener /\ step = "stopping"
  <1>1. ASSUME IndInv, Next, NEW l \in Listeners, NEW k \in Clients
        PROVE  Found(l, k) /\ Dropped(l, k)
    <2>1. k \in handing[l] => k \notin dropped
      BY <1>1 DEF IndInv, L!IndInv, L!AcceptedOnce, L!InCallback
    <2>2. ASSUME UNCHANGED <<calling, dropped>> PROVE Found(l, k) /\ Dropped(l, k)
      BY <2>1, <2>2
    <2>3. CASE Host
      BY <2>2, <2>3 DEF Host, StartSubscribes, StartListens, StopUnsubscribes, StopCloses,
         StopSkips, L!Start, L!Stop, L!Handler, L!eventVars, listenerVars
    <2>4. ASSUME NEW m \in Listeners, NEW j \in Clients, L!OnSocketConnected(m, j)
          PROVE  Found(l, k) /\ Dropped(l, k)
      <3>1. CASE subscribed[m]
        BY <2>2, <2>4, <3>1 DEF L!OnSocketConnected
      <3>2. CASE ~subscribed[m]
        <4>1. /\ j \in handing[m] /\ calling' = calling /\ dropped' = dropped \cup {j}
          BY <2>4, <3>2 DEF L!OnSocketConnected
        <4>2. k \in handing[l] \cap dropped' => l = m
          BY <1>1, <2>1, <4>1 DEF IndInv, L!IndInv, L!AcceptedOnce, L!InCallback
        <4>3. ~Silent(m)
          BY <4>1 DEF Silent, L!InCallback
        <4>4. life[m] \in {"started", "stopped"}
          BY <1>1, <4>3 DEF IndInv, TypeOK, L!TypeOK
        <4>5. life[m] = "started" =>
                m = socketListener /\ step \in {"started", "stopping"}
          BY <1>1, <4>3 DEF IndInv
        <4>6. m = socketListener => step # "started"
          BY <1>1, <3>2 DEF IndInv
        <4> QED
          BY <2>1, <4>1, <4>2, <4>4, <4>5, <4>6
      <3> QED
        BY <3>1, <3>2
    <2>5. ASSUME NEW m \in Listeners, NEW j \in Clients, L!LoadHandler(m, j)
          PROVE  Found(l, k) /\ Dropped(l, k)
      <3>1. /\ j \in raising[m] /\ subscribed[m] /\ dropped' = dropped
            /\ k \in calling'[l] \ calling[l] => l = m
        BY <1>1, <2>5 DEF L!LoadHandler, IndInv, TypeOK, L!TypeOK
      <3>2. ~Silent(m)
        BY <3>1 DEF Silent, L!InCallback
      <3>3. m = socketListener /\ step = "started"
        BY <1>1, <3>1, <3>2 DEF IndInv
      <3> QED
        BY <2>1, <3>1, <3>3
    <2>6. ASSUME NEW m \in Listeners, NEW j \in Clients, L!Raise(m, j)
          PROVE  Found(l, k) /\ Dropped(l, k)
      <3>1. dropped' = dropped /\ calling'[l] \subseteq calling[l]
        BY <1>1, <2>6 DEF L!Raise, IndInv, TypeOK, L!TypeOK
      <3> QED
        BY <2>1, <3>1
    <2>7. ASSUME NEW j \in Clients, L!Leave(j)
          PROVE  Found(l, k) /\ Dropped(l, k)
      BY <2>1, <2>7 DEF L!Leave
    <2>8. CASE UNCHANGED vars
      BY <2>2, <2>8 DEF vars, listenerVars
    <2>9. CASE Network
      <3> SUFFICES ASSUME NEW m \in Listeners,
                          \/ \E o \in Ops : \/ L!SocketAborted(m, o) \/ L!SocketAccepted(m, o)
                                            \/ L!SocketAcceptedThrows(m, o)
                                            \/ L!AcceptFails(m, o)
                                            \/ \E j \in Clients : L!Connect(m, o, j)
                          \/ \E j \in Clients : L!RaiseThrows(m, j) \/ L!HandlerThrows(m, j)
                   PROVE  Found(l, k) /\ Dropped(l, k)
        BY <2>4, <2>5, <2>6, <2>7, <2>9 DEF Network, L!Callback, L!Completion
      <3>1. UNCHANGED <<calling, dropped>>
        BY DEF L!SocketAborted, L!SocketAccepted, L!SocketAcceptedThrows, L!AcceptFails,
               L!Connect, L!RaiseThrows, L!HandlerThrows, L!eventVars
      <3> QED
        BY <2>2, <3>1
    <2> QED
      BY <1>1, <2>3, <2>8, <2>9 DEF Next
  <1>2. ASSUME IndInv, [Next]_vars
        PROVE  [\A l \in Listeners, k \in Clients : Found(l, k) /\ Dropped(l, k)]_vars
    BY <1>1, <1>2
  <1>3. Spec => [][\A l \in Listeners, k \in Clients : Found(l, k) /\ Dropped(l, k)]_vars
    BY <1>2, PortIndInv, PTL DEF Spec
  <1>4. (\A l \in Listeners, k \in Clients : Found(l, k) /\ Dropped(l, k))
          <=> \A l \in Listeners, k \in Clients :
                /\ k \in calling'[l] \ calling[l] => l = socketListener /\ step = "started"
                /\ k \in handing[l] \cap dropped' =>
                     \/ life[l] = "stopped"
                     \/ l = socketListener /\ step = "stopping"
    OBVIOUS
  <1> QED
    BY <1>3, <1>4, PTL DEF HandlerOfCurrent

\* PortListener.Start and Stop use the listeners they make as SocketListener allows: every
\* step, of the host or of the network, is a step of SocketListener or none.
THEOREM PortImplementsListener == Spec => ImplementsListener
  <1>1. Init => L!Init
    BY DEF Init
  <1>2. ASSUME IndInv, [Next]_vars PROVE [L!Next]_L!vars
    <2>1. CASE Host
      <3>1. CASE StartSubscribes
        BY <3>1 DEF StartSubscribes, L!Next, L!Owner
      <3>2. CASE StartListens
        <4>1. socketListener \in Listeners /\ L!Start(socketListener)
          BY <1>2, <3>2 DEF StartListens, IndInv
        <4> QED
          BY <4>1 DEF L!Next, L!Owner
      <3>3. CASE StopUnsubscribes
        <4>1. socketListener \in Listeners /\ L!Handler(socketListener, FALSE)
          BY <1>2, <3>3 DEF StopUnsubscribes, IndInv
        <4> QED
          BY <4>1 DEF L!Next, L!Owner
      <3>4. CASE StopCloses
        <4>1. socketListener \in Listeners /\ L!Stop(socketListener)
          BY <1>2, <3>4 DEF StopCloses, IndInv
        <4> QED
          BY <4>1 DEF L!Next, L!Owner
      <3>5. CASE StopSkips
        BY <3>5 DEF StopSkips, listenerVars, L!vars, L!eventVars, L!callerVars
      <3> QED
        BY <2>1, <3>1, <3>2, <3>3, <3>4, <3>5 DEF Host
    <2>2. CASE Network
      BY <2>2 DEF Network, L!Next
    <2>3. CASE UNCHANGED vars
      BY <2>3 DEF vars, listenerVars, L!vars, L!eventVars, L!callerVars
    <2> QED
      BY <1>2, <2>1, <2>2, <2>3 DEF Next
  <1> QED
    BY <1>1, <1>2, PortIndInv, PTL DEF Spec, ImplementsListener, L!Spec

\* Until the host begins its first Stop, the handler's own exceptions apart,
\* nothing that the server's listeners throw ends it.
THEOREM PortFaultsOnlyAfterStop == Spec => []FaultsOnlyAfterStop
  <1>1. ASSUME IndInv PROVE FaultsOnlyAfterStop
    <2>1. CASE fault = "accept"
      BY <1>1, <2>1 DEF IndInv, L!IndInv, L!ThrowsOnlyAfterStop, FaultsOnlyAfterStop
    <2>2. CASE fault = "event"
      <3>1. PICK l \in Listeners : raising[l] # {} /\ ~subscribed[l]
        BY <1>1, <2>2 DEF IndInv, L!IndInv, L!ThrowsOnlyAfterStop
      <3>2. ~Silent(l)
        BY <3>1 DEF Silent, L!InCallback
      <3>3. life[l] = "stopped" \/ step = "stopping"
        BY <1>1, <3>1, <3>2 DEF IndInv, TypeOK, L!TypeOK
      <3> QED
        BY <3>3 DEF FaultsOnlyAfterStop
    <2> QED
      BY <2>1, <2>2 DEF FaultsOnlyAfterStop
  <1> QED
    BY <1>1, PortIndInv, PTL

\* Of the listeners of a server, too: an open port has an accept, and no client is
\* handed over twice.
THEOREM PortListenersSafe == Spec => [](L!NeverDeaf /\ L!AcceptedOnce)
  <1>1. IndInv => L!NeverDeaf /\ L!AcceptedOnce
    BY DEF IndInv, L!IndInv
  <1> QED
    BY <1>1, PortIndInv, PTL
=============================================================================
