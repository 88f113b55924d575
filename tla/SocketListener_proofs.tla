------------------------ MODULE SocketListener_proofs ------------------------
(***************************************************************************)
(* Proofs about SocketListener.tla, for any sets of listeners, accepts and *)
(* clients: IndInv is inductive, and the invariants TLC checks follow.     *)
(***************************************************************************)
EXTENDS SocketListener, TLAPS

\* At the start no accept is in use.
LEMMA InitIndInv == Init => IndInv
  <1> SUFFICES ASSUME Init PROVE IndInv
    OBVIOUS
  <1>1. TypeOK
    BY DEF Init, TypeOK, SocketStates, OpStates, Faults
  <1>2. \A l \in Listeners, o \in Ops : op[l][o] = "free" /\ op[l][o] \notin Clients
    BY ClientsAssumption DEF Init, OpStates
  <1> QED
    BY <1>1, <1>2
    DEF Init, IndInv, NeverDeaf, PendingOnListening, OneAccept, InUse, InCallback,
        ListeningWhileInUse, ThrowsOnlyAfterStop, AcceptedOnce

\* Closing the socket of l leaves the clients accepted, and nothing pending.
LEMMA ClosedEffect ==
  ASSUME TypeOK, NEW l \in Listeners, NEW done \in SUBSET Ops
  PROVE  /\ Closed(l, done) \in [Ops -> OpStates \cup Clients]
         /\ \A o \in Ops :
              /\ o \in done => Closed(l, done)[o] = "free"
              /\ o \notin done /\ op[l][o] = "pending" => Closed(l, done)[o] = "aborted"
              /\ o \notin done /\ op[l][o] # "pending" => Closed(l, done)[o] = op[l][o]
              /\ Closed(l, done)[o] # "pending"
  BY DEF TypeOK, Closed, OpStates

\* Every outcome of CreateListener: other listeners stay as they are; on l,
\* clients accepted stay so, and only a socket that listens has an accept
\* pending, exactly one.
LEMMA CreateListenerEffect ==
  ASSUME TypeOK, NEW l \in Listeners, NEW done \in SUBSET Ops,
         CreateListener(l, done)
  PROVE  /\ listenerSocket' \in [Listeners -> SocketStates]
         /\ op' \in [Listeners -> [Ops -> OpStates \cup Clients]]
         /\ \A m \in Listeners : m # l => /\ listenerSocket'[m] = listenerSocket[m]
                                          /\ op'[m] = op[m]
         /\ \A o \in Ops : op'[l][o] \in Clients => o \notin done /\ op'[l][o] = op[l][o]
         /\ \A o \in Ops : op'[l][o] # "free" /\ op'[l][o] # "pending"
                             => o \notin done /\ op[l][o] # "free"
         /\ \A o \in Ops : op'[l][o] = "pending" => listenerSocket'[l] = "listening"
         /\ \A o, q \in Ops : op'[l][o] = "pending" /\ op'[l][q] = "pending" => o = q
         /\ listenerSocket'[l] = "listening" => \E o \in Ops : op'[l][o] = "pending"
  <1> DEFINE accepts == Closed(l, done)
  <1>1. /\ accepts \in [Ops -> OpStates \cup Clients]
        /\ \A o \in Ops :
             /\ accepts[o] # "pending"
             /\ accepts[o] \in Clients => o \notin done /\ accepts[o] = op[l][o]
             /\ accepts[o] # "free" => o \notin done /\ op[l][o] # "free"
    BY ClosedEffect, ClientsAssumption DEF OpStates
  <1> HIDE DEF accepts
  <1>2. CASE /\ listenerSocket' = [listenerSocket EXCEPT ![l] = "listening"]
             /\ \E n \in Ops : /\ accepts[n] = "free"
                               /\ op' = [op EXCEPT ![l] = [accepts EXCEPT ![n] = "pending"]]
    <2>1. PICK n \in Ops :
            op' = [op EXCEPT ![l] = [accepts EXCEPT ![n] = "pending"]]
      BY <1>2
    <2>2. /\ op'[l] = [accepts EXCEPT ![n] = "pending"]
          /\ \A m \in Listeners : m # l => op'[m] = op[m]
      BY <2>1 DEF TypeOK
    <2>3. op'[l][n] = "pending" /\ \A o \in Ops : o # n => op'[l][o] = accepts[o]
      BY <1>1, <2>2
    <2>4. /\ listenerSocket' \in [Listeners -> SocketStates]
          /\ listenerSocket'[l] = "listening"
          /\ \A m \in Listeners : m # l => listenerSocket'[m] = listenerSocket[m]
      BY <1>2 DEF TypeOK, SocketStates
    <2>5. op' \in [Listeners -> [Ops -> OpStates \cup Clients]]
      BY <1>1, <2>1 DEF TypeOK, OpStates
    <2> QED
      BY <1>1, <2>2, <2>3, <2>4, <2>5, ClientsAssumption DEF OpStates
  <1>3. CASE /\ \/ listenerSocket' = [listenerSocket EXCEPT ![l] = "unbound"]
                \/ listenerSocket' = [listenerSocket EXCEPT ![l] =
                                        IF @ = "null" THEN "null" ELSE "closed"]
             /\ op' = [op EXCEPT ![l] = accepts]
    <2>1. op'[l] = accepts /\ \A m \in Listeners : m # l => op'[m] = op[m]
      BY <1>3 DEF TypeOK
    <2>2. /\ listenerSocket' \in [Listeners -> SocketStates]
          /\ listenerSocket'[l] # "listening"
          /\ \A m \in Listeners : m # l => listenerSocket'[m] = listenerSocket[m]
      BY <1>3 DEF TypeOK, SocketStates
    <2>3. op' \in [Listeners -> [Ops -> OpStates \cup Clients]]
      BY <1>1, <1>3 DEF TypeOK
    <2> QED
      BY <1>1, <2>1, <2>2, <2>3
  <1> QED
    BY <1>2, <1>3 DEF CreateListener, accepts
-----------------------------------------------------------------------------
(* Clients: AcceptedOnce, which needs only the places clients are in         *)

\* Accepts may lose clients, but not gain or move them.
LEMMA FewerAccepts ==
  ASSUME AcceptedOnce, UNCHANGED <<handing, raising, calling, served, dropped>>,
         \A l \in Listeners, o \in Ops : op'[l][o] \in Clients => op'[l][o] = op[l][o]
  PROVE  AcceptedOnce'
  <1>1. \A l \in Listeners : InCallback(l)' = InCallback(l)
    BY DEF InCallback
  <1> QED
    BY <1>1 DEF AcceptedOnce

\* The clients in the hands of callbacks and in the handler's may move on.
LEMMA TakenAccepts ==
  ASSUME TypeOK, AcceptedOnce, NEW l \in Listeners, NEW o \in Ops,
         Taken(l, o), UNCHANGED <<raising, calling, served, dropped>>,
         op'[l][o] \notin Clients,
         \A m \in Listeners, q \in Ops : op'[m][q] \in Clients => op'[m][q] = op[m][q]
  PROVE  AcceptedOnce'
  <1>1. /\ handing'[l] = handing[l] \cup ({op[l][o]} \cap Clients)
        /\ \A m \in Listeners : m # l => handing'[m] = handing[m]
    BY DEF Taken, TypeOK
  <1>2. \A m, n \in Listeners, p, q \in Ops, k \in Clients :
          op'[m][p] = k /\ op'[n][q] = k => m = n /\ p = q
    BY DEF AcceptedOnce
  <1>3. /\ InCallback(l)' = InCallback(l) \cup ({op[l][o]} \cap Clients)
        /\ \A m \in Listeners : m # l => InCallback(m)' = InCallback(m)
    BY <1>1 DEF InCallback
  <1>4. \A k \in Clients :
          k = op[l][o] => /\ k \notin served \cup dropped
                          /\ \A m \in Listeners : k \notin InCallback(m)
    BY DEF AcceptedOnce
  <1>5. \A k \in Clients, m, n \in Listeners :
          k \in InCallback(m)' \cap InCallback(n)' => m = n
    BY <1>3, <1>4 DEF AcceptedOnce
  <1>6. \A k \in Clients, m \in Listeners :
          k \notin (handing'[m] \cap raising'[m]) \cup (handing'[m] \cap calling'[m])
                   \cup (raising'[m] \cap calling'[m])
    <2>1. \A k \in Clients : k = op[l][o] => k \notin raising[l] \cup calling[l]
      BY <1>4 DEF InCallback
    <2> QED
      BY <1>1, <2>1 DEF AcceptedOnce
  <1>7. \A k \in Clients, m, n \in Listeners, q \in Ops :
          op'[m][q] = k => k \notin InCallback(n)' \cup served' \cup dropped'
    <2> SUFFICES ASSUME NEW k \in Clients, NEW m \in Listeners, NEW n \in Listeners,
                        NEW q \in Ops, op'[m][q] = k
                 PROVE  k \notin InCallback(n)' \cup served' \cup dropped'
      OBVIOUS
    <2>1. op[m][q] = k
      OBVIOUS
    <2>2. op[l][o] # k
      BY <2>1 DEF AcceptedOnce
    <2> QED
      BY <1>3, <2>1, <2>2 DEF AcceptedOnce
  <1>8. \A k \in Clients, m \in Listeners :
          k \in InCallback(m)' => k \notin served' \cup dropped'
    BY <1>3, <1>4 DEF AcceptedOnce
  <1> QED
    BY <1>2, <1>5, <1>6, <1>7, <1>8 DEF AcceptedOnce
-----------------------------------------------------------------------------
(* What a listener's accepts may look like                                   *)

\* The parts of IndInv that speak of one listener.
ListenerInv(l) ==
  /\ listenerSocket[l] = "listening" => InUse(l) # {}
  /\ \A o \in Ops : op[l][o] = "pending" => listenerSocket[l] = "listening"
  /\ life[l] \in {"new", "started"} => \A o, q \in InUse(l) : o = q
  /\ life[l] \in {"new", "started"} /\ InUse(l) # {}
       => listenerSocket[l] = "listening"

\* The invariant of one listener, for all of them, is the named parts.
LEMMA ListenerInvForAll ==
  (\A l \in Listeners : ListenerInv(l))
    <=> NeverDeaf /\ PendingOnListening /\ OneAccept /\ ListeningWhileInUse
  BY DEF ListenerInv, NeverDeaf, PendingOnListening, OneAccept,
         ListeningWhileInUse

\* A listener whose socket, accepts and owner's calls stay as they are.
LEMMA SameListener ==
  ASSUME NEW l \in Listeners, ListenerInv(l),
         listenerSocket'[l] = listenerSocket[l], op'[l] = op[l], life'[l] = life[l]
  PROVE  ListenerInv(l)'
  <1>1. InUse(l)' = InUse(l)
    BY DEF InUse
  <1> QED
    BY <1>1 DEF ListenerInv

\* CreateListener re-establishes them, if no accept but the caller's was in
\* use on a listener that was not stopped.
LEMMA CreateListenerInv ==
  ASSUME TypeOK, NEW l \in Listeners, NEW done \in SUBSET Ops,
         CreateListener(l, done), life' = [life EXCEPT ![l] = life'[l]],
         life'[l] \in {"new", "started"} => InUse(l) \subseteq done
  PROVE  ListenerInv(l)'
  <1>1. /\ \A o \in Ops : op'[l][o] = "pending" => listenerSocket'[l] = "listening"
        /\ \A o, q \in Ops : op'[l][o] = "pending" /\ op'[l][q] = "pending" => o = q
        /\ listenerSocket'[l] = "listening" => \E o \in Ops : op'[l][o] = "pending"
        /\ \A o \in Ops : op'[l][o] # "free" /\ op'[l][o] # "pending"
                            => o \notin done /\ op[l][o] # "free"
    BY CreateListenerEffect
  <1>2. life'[l] \in {"new", "started"} =>
          \A o \in Ops : op'[l][o] # "free" => op'[l][o] = "pending"
    BY <1>1 DEF InUse
  <1> QED
    BY <1>1, <1>2 DEF ListenerInv, InUse
-----------------------------------------------------------------------------
(* One step per action                                                       *)

\* Start makes a listening socket with its accept, or none.
LEMMA StartStep ==
  ASSUME IndInv, NEW l \in Listeners, Start(l)
  PROVE  IndInv'
  <1> USE DEF IndInv
  <1>1. /\ listenerSocket[l] = "null" /\ CreateListener(l, {})
        /\ up /\ fault' = fault
        /\ life' = [life EXCEPT ![l] = IF @ \in {"new", "started"} THEN "started"
                                                                  ELSE "restarted"]
        /\ UNCHANGED <<subscribed, handing, raising, calling, served, dropped>>
    BY DEF Start, IsRunning, eventVars
  <1>2. TypeOK'
    BY <1>1, CreateListenerEffect DEF TypeOK
  <1>3. life'[l] \in {"new", "started"} => InUse(l) = {}
    <2>1. life'[l] \in {"new", "started"} => life[l] \in {"new", "started"}
      BY <1>1 DEF TypeOK
    <2> QED
      BY <1>1, <2>1 DEF ListeningWhileInUse
  <1>4. /\ life' = [life EXCEPT ![l] = life'[l]]
        /\ \A m \in Listeners : m # l => life'[m] = life[m]
    BY <1>1 DEF TypeOK
  <1>5. \A m \in Listeners : ListenerInv(m)'
    <2>1. ListenerInv(l)'
      BY <1>1, <1>3, <1>4, CreateListenerInv
    <2>2. \A m \in Listeners : m # l => ListenerInv(m)'
      <3>1. \A m \in Listeners : m # l => /\ listenerSocket'[m] = listenerSocket[m]
                                         /\ op'[m] = op[m]
        BY <1>1, CreateListenerEffect
      <3>2. \A m \in Listeners : ListenerInv(m)
        BY ListenerInvForAll
      <3> QED
        BY <1>4, <3>1, <3>2, SameListener
    <2> QED
      BY <2>1, <2>2
  <1>6. AcceptedOnce'
    <2>1. \A m \in Listeners, o \in Ops : op'[m][o] \in Clients => op'[m][o] = op[m][o]
      BY <1>1, CreateListenerEffect
    <2> QED
      BY <1>1, <2>1, FewerAccepts
  <1>7. ThrowsOnlyAfterStop'
    BY <1>1 DEF ThrowsOnlyAfterStop, up
  <1> QED
    BY <1>2, <1>5, <1>6, <1>7, ListenerInvForAll DEF ListenerInv, NeverDeaf,
       PendingOnListening, OneAccept, ListeningWhileInUse

\* Stop closes the socket and aborts what is pending on it.
LEMMA StopStep ==
  ASSUME IndInv, NEW l \in Listeners, Stop(l)
  PROVE  IndInv'
  <1> USE DEF IndInv
  <1>1. /\ up /\ fault' = fault
        /\ op' = [op EXCEPT ![l] = Closed(l, {})]
        /\ listenerSocket' = [listenerSocket EXCEPT ![l] = "null"]
        /\ life' = [life EXCEPT ![l] = "stopped"]
        /\ UNCHANGED <<subscribed, handing, raising, calling, served, dropped>>
    BY DEF Stop, eventVars
  <1>2. /\ Closed(l, {}) \in [Ops -> OpStates \cup Clients]
        /\ \A o \in Ops :
             /\ Closed(l, {})[o] # "pending"
             /\ Closed(l, {})[o] \in Clients => Closed(l, {})[o] = op[l][o]
    BY ClosedEffect, ClientsAssumption DEF OpStates
  <1>3. TypeOK'
    BY <1>1, <1>2 DEF TypeOK, SocketStates
  <1>4. /\ op'[l] = Closed(l, {}) /\ listenerSocket'[l] = "null"
        /\ life'[l] = "stopped"
        /\ \A m \in Listeners : m # l => /\ op'[m] = op[m] /\ life'[m] = life[m]
                                         /\ listenerSocket'[m] = listenerSocket[m]
    BY <1>1 DEF TypeOK
  <1>5. \A m \in Listeners : ListenerInv(m)'
    <2>1. ListenerInv(l)'
      BY <1>2, <1>4 DEF ListenerInv
    <2>2. \A m \in Listeners : m # l => ListenerInv(m)'
      BY <1>4, ListenerInvForAll, SameListener
    <2> QED
      BY <2>1, <2>2
  <1>6. AcceptedOnce'
    <2>1. \A m \in Listeners, o \in Ops : op'[m][o] \in Clients => op'[m][o] = op[m][o]
      BY <1>2, <1>4
    <2> QED
      BY <1>1, <2>1, FewerAccepts
  <1>7. ThrowsOnlyAfterStop'
    BY <1>1 DEF ThrowsOnlyAfterStop, up
  <1> QED
    BY <1>3, <1>5, <1>6, <1>7, ListenerInvForAll DEF ListenerInv, NeverDeaf,
       PendingOnListening, OneAccept, ListeningWhileInUse

\* An accept of l completes, with a client or without.
LEMMA CompletionInv ==
  ASSUME IndInv, NEW l \in Listeners, NEW o \in Ops, op[l][o] = "pending",
         NEW r, r # "free", r # "pending", op' = [op EXCEPT ![l][o] = r],
         UNCHANGED <<listenerSocket, life>>
  PROVE  \A m \in Listeners : ListenerInv(m)'
  <1> USE DEF IndInv
  <1>1. /\ op'[l][o] = r
        /\ \A q \in Ops : q # o => op'[l][q] = op[l][q]
        /\ \A m \in Listeners : m # l => op'[m] = op[m]
    BY DEF TypeOK
  <1>2. InUse(l)' = InUse(l)
    BY <1>1 DEF InUse
  <1>3. ListenerInv(l)'
    BY <1>1, <1>2, ListenerInvForAll DEF ListenerInv
  <1>4. \A m \in Listeners : m # l => ListenerInv(m)'
    BY <1>1, ListenerInvForAll, SameListener
  <1> QED
    BY <1>3, <1>4

\* A client that connects completes a pending accept.
LEMMA ConnectStep ==
  ASSUME IndInv, NEW l \in Listeners, NEW o \in Ops, NEW k \in Clients,
         Connect(l, o, k)
  PROVE  IndInv'
  <1> USE DEF IndInv
  <1>1. /\ up /\ op[l][o] = "pending" /\ k \notin Accepted
        /\ op' = [op EXCEPT ![l][o] = k]
        /\ UNCHANGED <<fault, listenerSocket, handing, raising, calling, served, dropped, subscribed, life>>
    BY DEF Connect, callerVars, eventVars
  <1>2. TypeOK'
    BY <1>1 DEF TypeOK
  <1>3. \A m \in Listeners : ListenerInv(m)'
    <2>1. k # "free" /\ k # "pending"
      BY ClientsAssumption DEF OpStates
    <2> QED
      BY <1>1, <2>1, CompletionInv
  <1>4. /\ op'[l][o] = k
        /\ \A m \in Listeners, q \in Ops : ~(m = l /\ q = o) => op'[m][q] = op[m][q]
    BY <1>1 DEF TypeOK
  <1>5. /\ k \notin served \cup dropped
        /\ \A m \in Listeners : k \notin InCallback(m)
        /\ \A m \in Listeners, q \in Ops : op[m][q] # k
    BY <1>1 DEF Accepted
  <1>6. AcceptedOnce'
    <2>1. \A j \in Clients, m, n \in Listeners, p, q \in Ops :
            op'[m][p] = j /\ op'[n][q] = j => m = n /\ p = q
      <3> SUFFICES ASSUME NEW j \in Clients, NEW m \in Listeners, NEW n \in Listeners,
                          NEW p \in Ops, NEW q \in Ops,
                          op'[m][p] = j, op'[n][q] = j
                   PROVE  m = n /\ p = q
        OBVIOUS
      <3>1. CASE j = k
        BY <1>4, <1>5, <3>1
      <3>2. CASE j # k
        BY <1>4, <3>2 DEF AcceptedOnce
      <3> QED
        BY <3>1, <3>2
    <2>2. \A m \in Listeners : InCallback(m)' = InCallback(m)
      BY <1>1 DEF InCallback
    <2>3. \A j \in Clients, m, n \in Listeners, q \in Ops :
            op'[m][q] = j => j \notin InCallback(n)' \cup served' \cup dropped'
      BY <1>1, <1>4, <1>5, <2>2 DEF AcceptedOnce
    <2>4. \A j \in Clients, m, n \in Listeners :
            /\ j \in InCallback(m)' \cap InCallback(n)' => m = n
            /\ j \notin (handing'[m] \cap raising'[m]) \cup (handing'[m] \cap calling'[m])
                        \cup (raising'[m] \cap calling'[m])
            /\ j \in InCallback(m)' => j \notin served' \cup dropped'
      BY <1>1, <2>2 DEF AcceptedOnce
    <2> QED
      BY <2>1, <2>3, <2>4 DEF AcceptedOnce
  <1>7. ThrowsOnlyAfterStop'
    BY <1>1 DEF ThrowsOnlyAfterStop, up
  <1> QED
    BY <1>2, <1>3, <1>6, <1>7 DEF ListenerInv, NeverDeaf,
       PendingOnListening, OneAccept, ListeningWhileInUse

\* A pending accept may complete without a client.
LEMMA AcceptFailsStep ==
  ASSUME IndInv, NEW l \in Listeners, NEW o \in Ops, AcceptFails(l, o)
  PROVE  IndInv'
  <1> USE DEF IndInv
  <1>1. /\ up /\ op[l][o] = "pending"
        /\ op' = [op EXCEPT ![l][o] = "failed"]
        /\ UNCHANGED <<fault, listenerSocket, handing, raising, calling, served, dropped, subscribed, life>>
    BY DEF AcceptFails, callerVars, eventVars
  <1>2. TypeOK'
    BY <1>1 DEF TypeOK, OpStates
  <1>3. \A m \in Listeners : ListenerInv(m)'
    BY <1>1, CompletionInv
  <1>4. AcceptedOnce'
    <2>1. \A m \in Listeners, q \in Ops : op'[m][q] \in Clients => op'[m][q] = op[m][q]
      BY <1>1, ClientsAssumption DEF TypeOK, OpStates
    <2> QED
      BY <1>1, <2>1, FewerAccepts
  <1>5. ThrowsOnlyAfterStop'
    BY <1>1 DEF ThrowsOnlyAfterStop, up
  <1> QED
    BY <1>2, <1>3, <1>4, <1>5 DEF ListenerInv, NeverDeaf,
       PendingOnListening, OneAccept, ListeningWhileInUse

\* Steps that leave listeners and accepts alone.
LEMMA SameListeners ==
  ASSUME IndInv, UNCHANGED <<listenerSocket, op, life>>, TypeOK', AcceptedOnce',
         ThrowsOnlyAfterStop'
  PROVE  IndInv'
  <1> USE DEF IndInv
  <1>1. \A m \in Listeners : InUse(m)' = InUse(m)
    BY DEF InUse
  <1>2. NeverDeaf' /\ PendingOnListening' /\ OneAccept' /\ ListeningWhileInUse'
    BY <1>1 DEF NeverDeaf, PendingOnListening, OneAccept, ListeningWhileInUse
  <1> QED
    BY <1>2

\* A client that leaves was in nobody's hands.
LEMMA LeaveStep ==
  ASSUME IndInv, NEW k \in Clients, Leave(k)
  PROVE  IndInv'
  <1>1. TypeOK' /\ AcceptedOnce' /\ ThrowsOnlyAfterStop'
    BY DEF Leave, IndInv, TypeOK, AcceptedOnce, ThrowsOnlyAfterStop, callerVars, InCallback, up
  <1> QED
    BY <1>1, SameListeners DEF Leave, callerVars

\* Handlers come and go without listeners and clients.
LEMMA HandlerStep ==
  ASSUME IndInv, NEW l \in Listeners, NEW attached \in BOOLEAN, Handler(l, attached)
  PROVE  IndInv'
  <1>1. TypeOK' /\ AcceptedOnce' /\ ThrowsOnlyAfterStop'
    BY DEF Handler, eventVars, IndInv, TypeOK, AcceptedOnce, ThrowsOnlyAfterStop,
           InCallback, up
  <1> QED
    BY <1>1, SameListeners DEF Handler

\* One client's way through a callback: it moves from stage to stage, or out of it.
LEMMA ClientMoves ==
  ASSUME IndInv, NEW l \in Listeners, NEW k \in InCallback(l), TypeOK',
         UNCHANGED op,
         \A m \in Listeners : m # l => InCallback(m)' = InCallback(m),
         InCallback(l)' \subseteq InCallback(l),
         \A m \in Listeners, j \in Clients : m # l \/ j # k =>
           /\ j \in handing'[m] <=> j \in handing[m]
           /\ j \in raising'[m] <=> j \in raising[m]
           /\ j \in calling'[m] <=> j \in calling[m],
         \A j \in Clients : j # k => (j \in served' \cup dropped' <=> j \in served \cup dropped),
         k \notin (handing'[l] \cap raising'[l]) \cup (handing'[l] \cap calling'[l])
                  \cup (raising'[l] \cap calling'[l]),
         k \in InCallback(l)' => k \notin served' \cup dropped'
  PROVE  AcceptedOnce'
  <1> USE DEF IndInv
  <1>1. /\ \A m \in Listeners, q \in Ops : op[m][q] # k
        /\ \A m \in Listeners : m # l => k \notin InCallback(m)
    BY DEF AcceptedOnce, TypeOK, InCallback
  <1>2. \A m \in Listeners : InCallback(m)' \subseteq InCallback(m)
    OBVIOUS
  <1>3. ASSUME NEW j \in Clients
        PROVE  /\ \A m, n \in Listeners : j \in InCallback(m)' \cap InCallback(n)' => m = n
               /\ \A m \in Listeners :
                    j \notin (handing'[m] \cap raising'[m]) \cup (handing'[m] \cap calling'[m])
                            \cup (raising'[m] \cap calling'[m])
               /\ \A m \in Listeners : j \in InCallback(m)' => j \notin served' \cup dropped'
               /\ \A m, n \in Listeners, q \in Ops :
                    op'[m][q] = j => j \notin InCallback(n)' \cup served' \cup dropped'
    <2>1. \A m, n \in Listeners : j \in InCallback(m)' \cap InCallback(n)' => m = n
      BY <1>2 DEF AcceptedOnce
    <2>2. \A m \in Listeners :
            j \notin (handing'[m] \cap raising'[m]) \cup (handing'[m] \cap calling'[m])
                    \cup (raising'[m] \cap calling'[m])
      BY DEF AcceptedOnce
    <2>3. \A m \in Listeners : j \in InCallback(m)' => j \notin served' \cup dropped'
      BY <1>1, <1>2 DEF AcceptedOnce
    <2>4. \A m, n \in Listeners, q \in Ops :
            op'[m][q] = j => j \notin InCallback(n)' \cup served' \cup dropped'
      BY <1>1, <1>2 DEF AcceptedOnce
    <2> QED
      BY <2>1, <2>2, <2>3, <2>4
  <1> QED
    BY <1>3 DEF AcceptedOnce

\* A callback past the lock goes on to the handler it sees, or drops its client.
LEMMA OnSocketConnectedStep ==
  ASSUME IndInv, NEW l \in Listeners, NEW k \in Clients, OnSocketConnected(l, k)
  PROVE  IndInv'
  <1> USE DEF IndInv
  <1>1. /\ up /\ k \in handing[l]
        /\ handing' = [handing EXCEPT ![l] = @ \ {k}]
        /\ UNCHANGED <<fault, listenerSocket, op, subscribed, life, calling, served>>
        /\ \/ raising' = [raising EXCEPT ![l] = @ \cup {k}] /\ dropped' = dropped
           \/ dropped' = dropped \cup {k} /\ raising' = raising
    BY DEF OnSocketConnected, callerVars
  <1>2. TypeOK'
    BY <1>1 DEF TypeOK
  <1>3. /\ handing'[l] = handing[l] \ {k}
        /\ \A m \in Listeners : m # l => handing'[m] = handing[m] /\ raising'[m] = raising[m]
        /\ \/ raising'[l] = raising[l] \cup {k} /\ dropped' = dropped
           \/ raising'[l] = raising[l] /\ dropped' = dropped \cup {k}
    BY <1>1 DEF TypeOK
  <1>4. k \notin raising[l] \cup calling[l] \cup served \cup dropped
    BY <1>1 DEF AcceptedOnce, InCallback
  <1>5. /\ k \in InCallback(l)
        /\ \A m \in Listeners : m # l => InCallback(m)' = InCallback(m)
        /\ InCallback(l)' \subseteq InCallback(l)
        /\ k \in InCallback(l)' => k \notin served' \cup dropped'
    BY <1>1, <1>3, <1>4 DEF InCallback
  <1>6. AcceptedOnce'
    BY <1>1, <1>2, <1>3, <1>4, <1>5, ClientMoves
  <1>7. ThrowsOnlyAfterStop'
    BY <1>1 DEF ThrowsOnlyAfterStop, up
  <1> QED
    BY <1>1, <1>2, <1>6, <1>7, SameListeners

\* The callback goes on with the handler it has loaded.
LEMMA LoadHandlerStep ==
  ASSUME IndInv, NEW l \in Listeners, NEW k \in Clients, LoadHandler(l, k)
  PROVE  IndInv'
  <1> USE DEF IndInv
  <1>1. /\ up /\ k \in raising[l]
        /\ raising' = [raising EXCEPT ![l] = @ \ {k}]
        /\ calling' = [calling EXCEPT ![l] = @ \cup {k}]
        /\ UNCHANGED <<fault, listenerSocket, op, subscribed, life, handing, served, dropped>>
    BY DEF LoadHandler, callerVars
  <1>2. TypeOK'
    BY <1>1 DEF TypeOK
  <1>3. /\ raising'[l] = raising[l] \ {k} /\ calling'[l] = calling[l] \cup {k}
        /\ \A m \in Listeners : m # l => raising'[m] = raising[m] /\ calling'[m] = calling[m]
    BY <1>1 DEF TypeOK
  <1>4. k \notin handing[l] \cup calling[l] \cup served \cup dropped
    BY <1>1 DEF AcceptedOnce, InCallback
  <1>5. /\ k \in InCallback(l)
        /\ \A m \in Listeners : m # l => InCallback(m)' = InCallback(m)
        /\ InCallback(l)' \subseteq InCallback(l)
        /\ k \in InCallback(l)' => k \notin served' \cup dropped'
    BY <1>1, <1>3, <1>4 DEF InCallback
  <1>6. AcceptedOnce'
    BY <1>1, <1>2, <1>3, <1>4, <1>5, ClientMoves
  <1>7. ThrowsOnlyAfterStop'
    BY <1>1 DEF ThrowsOnlyAfterStop, up
  <1> QED
    BY <1>1, <1>2, <1>6, <1>7, SameListeners

\* The handler that was loaded is called.
LEMMA RaiseStep ==
  ASSUME IndInv, NEW l \in Listeners, NEW k \in Clients, Raise(l, k)
  PROVE  IndInv'
  <1> USE DEF IndInv
  <1>1. /\ up /\ k \in calling[l]
        /\ calling' = [calling EXCEPT ![l] = @ \ {k}] /\ served' = served \cup {k}
        /\ UNCHANGED <<fault, listenerSocket, op, subscribed, life, handing, raising, dropped>>
    BY DEF Raise, callerVars
  <1>2. TypeOK'
    BY <1>1 DEF TypeOK
  <1>3. /\ calling'[l] = calling[l] \ {k}
        /\ \A m \in Listeners : m # l => calling'[m] = calling[m]
    BY <1>1 DEF TypeOK
  <1>4. k \notin handing[l] \cup raising[l] \cup served \cup dropped
    BY <1>1 DEF AcceptedOnce, InCallback
  <1>5. /\ k \in InCallback(l)
        /\ \A m \in Listeners : m # l => InCallback(m)' = InCallback(m)
        /\ InCallback(l)' \subseteq InCallback(l)
        /\ k \notin InCallback(l)'
    BY <1>1, <1>3, <1>4 DEF InCallback
  <1>6. AcceptedOnce'
    BY <1>1, <1>2, <1>3, <1>4, <1>5, ClientMoves
  <1>7. ThrowsOnlyAfterStop'
    BY <1>1 DEF ThrowsOnlyAfterStop, up
  <1> QED
    BY <1>1, <1>2, <1>6, <1>7, SameListeners

\* There is none any more: the state shows who was to be called.  Or it throws.
LEMMA EventThrowsStep ==
  ASSUME IndInv, NEW l \in Listeners, NEW k \in Clients,
         RaiseThrows(l, k) \/ HandlerThrows(l, k)
  PROVE  IndInv'
  <1>1. /\ UNCHANGED <<listenerSocket, op, handing, raising, calling, served, dropped,
                       subscribed, life>>
        /\ \/ fault' = "event" /\ k \in raising[l] /\ ~subscribed[l]
           \/ fault' = "handler"
    BY DEF RaiseThrows, HandlerThrows, callerVars, eventVars
  <1>2. TypeOK'
    BY <1>1 DEF IndInv, TypeOK, Faults
  <1>3. AcceptedOnce'
    BY <1>1 DEF IndInv, AcceptedOnce, InCallback
  <1>4. ThrowsOnlyAfterStop'
    BY <1>1 DEF ThrowsOnlyAfterStop
  <1> QED
    BY <1>1, <1>2, <1>3, <1>4, SameListeners

\* The callback of an aborted accept makes the listener again.
LEMMA SocketAbortedStep ==
  ASSUME IndInv, NEW l \in Listeners, NEW o \in Ops, SocketAborted(l, o)
  PROVE  IndInv'
  <1> USE DEF IndInv
  <1>1. /\ up /\ op[l][o] = "aborted" /\ CreateListener(l, {o})
        /\ UNCHANGED <<fault, subscribed, life, handing, raising, calling, served, dropped>>
    BY DEF SocketAborted, callerVars, eventVars
  <1>2. TypeOK'
    BY <1>1, CreateListenerEffect DEF TypeOK
  <1>3. life'[l] \in {"new", "started"} => InUse(l) \subseteq {o}
    BY <1>1 DEF OneAccept, InUse
  <1>4. \A m \in Listeners : ListenerInv(m)'
    <2>1. ListenerInv(l)'
      BY <1>1, <1>3, CreateListenerInv DEF TypeOK
    <2>2. \A m \in Listeners : m # l => ListenerInv(m)'
      <3>1. \A m \in Listeners : m # l => /\ listenerSocket'[m] = listenerSocket[m]
                                         /\ op'[m] = op[m]
        BY <1>1, CreateListenerEffect
      <3>2. \A m \in Listeners : ListenerInv(m)
        BY ListenerInvForAll
      <3> QED
        BY <1>1, <3>1, <3>2, SameListener
    <2> QED
      BY <2>1, <2>2
  <1>5. AcceptedOnce'
    <2>1. \A m \in Listeners, q \in Ops : op'[m][q] \in Clients => op'[m][q] = op[m][q]
      BY <1>1, CreateListenerEffect
    <2> QED
      BY <1>1, <2>1, FewerAccepts
  <1>6. ThrowsOnlyAfterStop'
    BY <1>1 DEF ThrowsOnlyAfterStop, up
  <1> QED
    BY <1>2, <1>4, <1>5, <1>6 DEF ListenerInv, NeverDeaf,
       PendingOnListening, OneAccept, ListeningWhileInUse

\* The callback of an accept makes the next accept on the same args object.
LEMMA SocketAcceptedStep ==
  ASSUME IndInv, NEW l \in Listeners, NEW o \in Ops, SocketAccepted(l, o)
  PROVE  IndInv'
  <1> USE DEF IndInv
  <1>1. /\ up /\ op[l][o] \in Clients \cup {"failed"}
        /\ Taken(l, o)
        /\ UNCHANGED <<fault, subscribed, life, raising, calling, served, dropped>>
    BY DEF SocketAccepted, callerVars, eventVars
  <1>2. handing' \in [Listeners -> SUBSET Clients]
    BY <1>1 DEF Taken, TypeOK
  <1>3. op[l][o] # "free" /\ op[l][o] # "pending"
    BY <1>1, ClientsAssumption DEF OpStates
  <1>4. CASE /\ listenerSocket[l] = "listening"
             /\ op' = [op EXCEPT ![l][o] = "pending"]
             /\ UNCHANGED listenerSocket
    <2>1. /\ op'[l][o] = "pending"
          /\ \A q \in Ops : q # o => op'[l][q] = op[l][q]
          /\ \A m \in Listeners : m # l => op'[m] = op[m]
      BY <1>4 DEF TypeOK
    <2>2. TypeOK'
      BY <1>1, <1>2, <1>4 DEF TypeOK, OpStates
    <2>3. InUse(l)' = InUse(l)
      BY <1>3, <2>1 DEF InUse
    <2>4. ListenerInv(l)'
      BY <1>1, <1>4, <2>1, <2>3, ListenerInvForAll DEF ListenerInv
    <2>5. \A m \in Listeners : m # l => ListenerInv(m)'
      BY <1>1, <1>4, <2>1, ListenerInvForAll, SameListener
    <2>6. AcceptedOnce'
      <3>1. op'[l][o] \notin Clients
        BY <2>1, ClientsAssumption DEF OpStates
      <3>2. \A m \in Listeners, q \in Ops : op'[m][q] \in Clients => op'[m][q] = op[m][q]
        BY <2>1, <3>1
      <3> QED
        BY <1>1, <3>1, <3>2, TakenAccepts
    <2>7. ThrowsOnlyAfterStop'
      BY <1>1 DEF ThrowsOnlyAfterStop, up
    <2> QED
      BY <2>2, <2>4, <2>5, <2>6, <2>7 DEF ListenerInv, NeverDeaf,
         PendingOnListening, OneAccept, ListeningWhileInUse
  <1>5. CASE CreateListener(l, {o})
    <2>1. TypeOK'
      BY <1>1, <1>2, <1>5, CreateListenerEffect DEF TypeOK
    <2>2. life'[l] \in {"new", "started"} => InUse(l) \subseteq {o}
      BY <1>1, <1>3 DEF OneAccept, InUse
    <2>3. ListenerInv(l)'
      BY <1>1, <1>5, <2>2, CreateListenerInv DEF TypeOK
    <2>4. \A m \in Listeners : m # l => ListenerInv(m)'
      <3>1. \A m \in Listeners : m # l => /\ listenerSocket'[m] = listenerSocket[m]
                                         /\ op'[m] = op[m]
        BY <1>1, <1>5, CreateListenerEffect
      <3>2. \A m \in Listeners : ListenerInv(m)
        BY ListenerInvForAll
      <3> QED
        BY <1>1, <3>1, <3>2, SameListener
    <2>5. AcceptedOnce'
      <3>1. op'[l][o] \notin Clients
        BY <1>5, CreateListenerEffect
      <3>2. \A m \in Listeners, q \in Ops : op'[m][q] \in Clients => op'[m][q] = op[m][q]
        BY <1>5, CreateListenerEffect
      <3> QED
        BY <1>1, <3>1, <3>2, TakenAccepts
    <2>6. ThrowsOnlyAfterStop'
      BY <1>1 DEF ThrowsOnlyAfterStop, up
    <2> QED
      BY <2>1, <2>3, <2>4, <2>5, <2>6 DEF ListenerInv, NeverDeaf,
         PendingOnListening, OneAccept, ListeningWhileInUse
  <1> QED
    BY <1>4, <1>5 DEF SocketAccepted

\* The exception: only on a listener that was stopped.
LEMMA SocketAcceptedThrowsStep ==
  ASSUME IndInv, NEW l \in Listeners, NEW o \in Ops, SocketAcceptedThrows(l, o)
  PROVE  IndInv'
  <1> USE DEF IndInv
  <1>1. /\ op[l][o] \in Clients \cup {"failed"}
        /\ listenerSocket[l] \in {"null", "unbound"}
        /\ fault' = "accept"
        /\ UNCHANGED <<listenerSocket, op, handing, raising, calling, served, dropped, subscribed, life>>
    BY DEF SocketAcceptedThrows, callerVars, eventVars
  <1>2. o \in InUse(l)
    BY <1>1, ClientsAssumption DEF InUse, OpStates
  <1>3. life[l] \in {"stopped", "restarted"}
    BY <1>1, <1>2 DEF ListeningWhileInUse, TypeOK
  <1>4. TypeOK'
    BY <1>1 DEF TypeOK, Faults
  <1>5. AcceptedOnce'
    BY <1>1 DEF AcceptedOnce, InCallback
  <1>6. \A m \in Listeners : ListenerInv(m)'
    BY <1>1, ListenerInvForAll, SameListener
  <1>7. ThrowsOnlyAfterStop'
    BY <1>1, <1>3 DEF ThrowsOnlyAfterStop
  <1> QED
    BY <1>4, <1>5, <1>6, <1>7 DEF ListenerInv, NeverDeaf,
       PendingOnListening, OneAccept, ListeningWhileInUse
-----------------------------------------------------------------------------
\* Every step of the listeners preserves the invariant.
LEMMA NextIndInv == IndInv /\ [Next]_vars => IndInv'
  <1> SUFFICES ASSUME IndInv, [Next]_vars PROVE IndInv'
    OBVIOUS
  <1>1. ASSUME NEW l \in Listeners, Owner(l) PROVE IndInv'
    BY <1>1, StartStep, StopStep, HandlerStep DEF Owner
  <1>2. ASSUME NEW l \in Listeners, Callback(l) PROVE IndInv'
    BY <1>2, SocketAbortedStep, SocketAcceptedStep, SocketAcceptedThrowsStep,
       OnSocketConnectedStep, LoadHandlerStep, RaiseStep, EventThrowsStep DEF Callback
  <1>3. ASSUME NEW l \in Listeners, Completion(l) PROVE IndInv'
    BY <1>3, AcceptFailsStep, ConnectStep DEF Completion
  <1>4. ASSUME NEW k \in Clients, Leave(k) PROVE IndInv'
    BY <1>4, LeaveStep
  <1>5. CASE UNCHANGED vars
    <2>1. TypeOK' /\ AcceptedOnce' /\ ThrowsOnlyAfterStop'
      BY <1>5 DEF vars, callerVars, eventVars, IndInv, TypeOK, AcceptedOnce,
         ThrowsOnlyAfterStop, InCallback
    <2> QED
      BY <1>5, <2>1, SameListeners DEF vars, callerVars
  <1> QED
    BY <1>1, <1>2, <1>3, <1>4, <1>5 DEF Next, Down

\* The strengthened invariant holds of every behaviour of the listeners.
THEOREM ListenerIndInv == Spec => []IndInv
  <1> QED
    BY InitIndInv, NextIndInv, PTL DEF Spec

\* The variables keep their types.
THEOREM ListenerTypeOK == Spec => []TypeOK
  <1>1. IndInv => TypeOK
    BY DEF IndInv
  <1> QED
    BY <1>1, ListenerIndInv, PTL

\* A listening socket always has an accept in use.
THEOREM ListenerNeverDeaf == Spec => []NeverDeaf
  <1>1. IndInv => NeverDeaf
    BY DEF IndInv
  <1> QED
    BY <1>1, ListenerIndInv, PTL

\* Until it is stopped, a listener has a single accept.
THEOREM ListenerOneAccept == Spec => []OneAccept
  <1>1. IndInv => OneAccept
    BY DEF IndInv
  <1> QED
    BY <1>1, ListenerIndInv, PTL

\* Of a server that is never stopped only the handler's own exceptions are an end.
THEOREM ListenerThrowsOnlyAfterStop == Spec => []ThrowsOnlyAfterStop
  <1>1. IndInv => ThrowsOnlyAfterStop
    BY DEF IndInv
  <1> QED
    BY <1>1, ListenerIndInv, PTL

\* No client is taken by two callbacks, or handed over twice.
THEOREM ListenerAcceptedOnce == Spec => []AcceptedOnce
  <1>1. IndInv => AcceptedOnce
    BY DEF IndInv
  <1> QED
    BY <1>1, ListenerIndInv, PTL
=============================================================================
