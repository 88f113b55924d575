---------------------------- MODULE PortListener ----------------------------
(***************************************************************************)
(* PortListener.cs over SocketListener.tla: the object the host starts and *)
(* stops.  Every Start makes a new SocketListener, so a listener that was  *)
(* stopped lives on beside its successor for as long as it has callbacks.  *)
(* The host is one thread and calls Start and Stop in turn; Start and Stop *)
(* are two steps each, between which callbacks run.                        *)
(***************************************************************************)
EXTENDS Naturals, FiniteSets

CONSTANTS Listeners, Ops, Clients, Null

ASSUME NullAssumption == Null \notin Listeners
ASSUME ClientsAssumption ==
  Clients \cap {"free", "pending", "failed", "aborted"} = {}

VARIABLES
  fault, listenerSocket, op, subscribed, handing, raising, calling, served, dropped,
  life,
  socketListener, \* _socketListener
  step            \* where the host is: "stopped", "starting", "started", "stopping"

listenerVars ==
  <<fault, listenerSocket, op, handing, raising, calling, served, dropped, life>>
hostVars == <<socketListener, step>>
vars == <<listenerVars, subscribed, hostVars>>

L == INSTANCE SocketListener

up == L!up

Init ==
  /\ L!Init
  /\ socketListener = Null
  /\ step = "stopped"

\* Start: a new listener with the handler attached, ...
StartSubscribes ==
  /\ step = "stopped"
  /\ \E l \in Listeners : /\ life[l] = "new"
                          /\ socketListener' = l
                          /\ L!Handler(l, TRUE)
  /\ step' = "starting"

\* ... which is then started.
StartListens ==
  /\ step = "starting"
  /\ L!Start(socketListener)
  /\ step' = "started"
  /\ UNCHANGED socketListener

\* Mutant: the handler stays attached to a listener that is stopped.
StopUnsubscribes_Forgets ==
  /\ up /\ step = "started"
  /\ L!IsRunning(socketListener)
  /\ step' = "stopping"
  /\ UNCHANGED <<listenerVars, subscribed, socketListener>>

\* Stop of a running listener: the handler is detached, ...
StopUnsubscribes ==
  /\ step = "started"
  /\ L!IsRunning(socketListener)
  /\ L!Handler(socketListener, FALSE)
  /\ step' = "stopping"
  /\ UNCHANGED socketListener

\* ... and the listener is stopped.
StopCloses ==
  /\ step = "stopping"
  /\ L!Stop(socketListener)
  /\ step' = "stopped"
  /\ UNCHANGED socketListener

\* Stop of a listener that has no socket does nothing.
StopSkips ==
  /\ up /\ step = "started"
  /\ ~L!IsRunning(socketListener)
  /\ step' = "stopped"
  /\ UNCHANGED <<listenerVars, subscribed, socketListener>>

Host == \/ StartSubscribes \/ StartListens
        \/ StopUnsubscribes \/ StopCloses \/ StopSkips

Network == \/ \E l \in Listeners : L!Callback(l) \/ L!Completion(l)
           \/ \E k \in Clients : L!Leave(k)

Next == \/ Host
        \/ Network /\ UNCHANGED hostVars
        \/ ~up /\ UNCHANGED vars

Spec == Init /\ [][Next]_vars
FairSpec == Spec /\ L!CallbackFairness

\* What each of its listeners is: the host's calls, too, are calls SocketListener allows.
ImplementsListener == L!Spec
-----------------------------------------------------------------------------
TypeOK ==
  /\ L!TypeOK
  /\ socketListener \in Listeners \cup {Null}
  /\ step \in {"stopped", "starting", "started", "stopping"}

\* Because no listener is started twice, each has one accept at any time, also
\* the ones that come back to life after they were stopped.
OneAcceptEach ==
  \A l \in Listeners : \A o, q \in L!InUse(l) : o = q

\* A listener that no callback can have to do with.
Silent(l) ==
  listenerSocket[l] = "null" /\ L!InUse(l) = {} /\ L!InCallback(l) = {}

\* Inductive strengthening: the listener of the last Start is where the host's
\* steps say and has its handler; one that was started and is not stopped is that
\* listener, or never got a socket; and the handler of a Start that failed may stay
\* attached, to a listener that is silent.
IndInv ==
  /\ TypeOK /\ L!IndInv /\ OneAcceptEach
  /\ step # "stopped" => socketListener \in Listeners
  /\ step = "starting" => life[socketListener] = "new"
  /\ step \in {"started", "stopping"} => life[socketListener] = "started"
  /\ step \in {"starting", "started"} => subscribed[socketListener]
  /\ \A l \in Listeners :
       /\ life[l] # "restarted"
       /\ life[l] = "new" => Silent(l)
       /\ life[l] = "started" /\ listenerSocket[l] = "null" => Silent(l)
       /\ life[l] = "started" => \/ Silent(l)
                                 \/ l = socketListener /\ step \in {"started", "stopping"}
       /\ subscribed[l] => \/ l = socketListener /\ step \in {"starting", "started"}
                           \/ Silent(l) /\ life[l] # "new"

\* Only the listener of the last Start finds the server's handler, and only until
\* its Stop detaches it; and a client is dropped only by a listener whose Stop has
\* begun.  (A handler that was found is called, also after the Stop.)
HandlerOfCurrent ==
  [][\A l \in Listeners, k \in Clients :
       /\ k \in calling'[l] \ calling[l] => l = socketListener /\ step = "started"
       /\ k \in handing[l] \cap dropped' =>
            \/ life[l] = "stopped"
            \/ l = socketListener /\ step = "stopping"]_vars

\* Until the host first stops it, only an exception of its own handler ends the
\* server: what the listeners themselves throw needs a Stop that has begun.
FaultsOnlyAfterStop ==
  fault \in {"accept", "event"} =>
    step = "stopping" \/ \E l \in Listeners : life[l] = "stopped"

\* The host's calls are few, and so are the listeners made in their wake: the
\* callbacks of aborted accepts do not go on aborting each other for ever.
RestartsSettle ==
  <>[](up => \A l \in Listeners, o \in Ops : op[l][o] # "aborted")
=============================================================================
