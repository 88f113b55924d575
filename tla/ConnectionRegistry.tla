-------------------------- MODULE ConnectionRegistry --------------------------
(***************************************************************************)
(* What the server keeps about all its connections, and no lock guards:    *)
(* the list of route objects (HttpStreamRouter.objects) and the number of  *)
(* connections (ConnectionMonitor in Tcp/SocketConnection.cs).             *)
(*                                                                         *)
(* The handler of an accepted socket (PortListener.cs) adds to both, and   *)
(* the handlers of Disconnected take from both, the list first: they were  *)
(* attached in that order.  Accepts and disconnects run on any number of   *)
(* I/O threads; each connection does its own steps in order.               *)
(*                                                                         *)
(* ++ and -- read, then write.  List.Add reads the size, then stores the   *)
(* element and the size; List.Remove looks for the index, then removes at  *)
(* that index, which throws when the list has become too short.            *)
(***************************************************************************)
EXTENDS Integers, Sequences, FiniteSets, SequencesExt

CONSTANTS Connections, Null

ASSUME RegistryAssumption == IsFiniteSet(Connections) /\ Null \notin Connections

VARIABLES
  pc,          \* pc[c]: the step connection c is at
  objects,     \* the list: the route object of c is c, an unset element Null
  numberOfConnections,
  local,       \* local[c]: what c has read, an index or a number
  thrown,      \* an exception has left a callback: the process has ended
  listRaced,   \* two operations on the list have overlapped (history)
  countRaced   \* two on the counter have (history)

vars == <<pc, objects, numberOfConnections, local, thrown, listRaced, countRaced>>

Init ==
  /\ pc = [c \in Connections |-> "new"]
  /\ objects = <<>>
  /\ numberOfConnections = 0
  /\ local = [c \in Connections |-> 0]
  /\ thrown = FALSE
  /\ listRaced = FALSE
  /\ countRaced = FALSE

InList == {c \in Connections : pc[c] \in {"adding", "removing"}}
InCounter == {c \in Connections : pc[c] \in {"incrementing", "decrementing"}}

\* The thread of c reads v for the operation it begins, or ends it.
Step(c, from, to) ==
  /\ ~thrown
  /\ pc[c] = from
  /\ pc' = [pc EXCEPT ![c] = to]

ReadList(c, v) ==
  /\ local' = [local EXCEPT ![c] = v]
  /\ listRaced' = (listRaced \/ InList # {})
  /\ UNCHANGED <<objects, numberOfConnections, thrown, countRaced>>

ReadCounter(c) ==
  /\ local' = [local EXCEPT ![c] = numberOfConnections]
  /\ countRaced' = (countRaced \/ InCounter # {})
  /\ UNCHANGED <<objects, numberOfConnections, thrown, listRaced>>

WriteList(s) ==
  /\ objects' = s
  /\ UNCHANGED <<numberOfConnections, local, thrown, listRaced, countRaced>>

WriteCounter(n) ==
  /\ numberOfConnections' = n
  /\ UNCHANGED <<objects, local, thrown, listRaced, countRaced>>
-----------------------------------------------------------------------------
\* objects.Add in Route: the element goes to the index that was read; one
\* that another thread stored there is lost.
Stored(c) ==
  [k \in 1 .. local[c] + 1 |->
     IF k = local[c] + 1 THEN c ELSE IF k <= Len(objects) THEN objects[k] ELSE Null]

RouteReads(c) == Step(c, "new", "adding") /\ ReadList(c, Len(objects))
RouteAdds(c) == Step(c, "adding", "routed") /\ WriteList(Stored(c))

\* IncrementNumberOfConnections; then the second handler is attached.
IncrementReads(c) == Step(c, "routed", "incrementing") /\ ReadCounter(c)
IncrementWrites(c) ==
  Step(c, "incrementing", "open") /\ WriteCounter(local[c] + 1)

\* A reset connection is never closed and fires nothing (SocketConnection.tla).
Reset(c) ==
  /\ Step(c, "open", "reset")
  /\ UNCHANGED <<objects, numberOfConnections, local, thrown, listRaced, countRaced>>

\* The places of c in the list.
Indices(c) == {k \in 1 .. Len(objects) : objects[k] = c}

\* Mutant: the index is counted from one and used as if from zero.
RemoveFinds_OffByOne(c) ==
  /\ Step(c, "open", "removing")
  /\ \E k \in Indices(c) : ReadList(c, k + 1)

\* Disconnected: objects.Remove takes the first of them, ...
RemoveFinds(c) ==
  /\ Step(c, "open", "removing")
  /\ \E k \in Indices(c) :
       /\ \A j \in Indices(c) : k <= j
       /\ ReadList(c, k)

\* (the list has lost the element: Remove does nothing)
RemoveFindsNothing(c) ==
  /\ Step(c, "open", "removed")
  /\ Indices(c) = {}
  /\ ReadList(c, 0)

\* Mutant: the last element goes, whichever was found.
RemoveRemoves_Last(c) ==
  /\ Step(c, "removing", "removed")
  /\ local[c] <= Len(objects)
  /\ WriteList(Front(objects))

RemoveRemoves(c) ==
  /\ Step(c, "removing", "removed")
  /\ local[c] <= Len(objects)
  /\ WriteList(RemoveAt(objects, local[c]))

RemoveThrows(c) ==
  /\ Step(c, "removing", "removed")
  /\ local[c] > Len(objects)
  /\ thrown' = TRUE
  /\ UNCHANGED <<objects, numberOfConnections, local, listRaced, countRaced>>

\* Mutant: the handler of the counter is attached twice.
DecrementWrites_Twice(c) ==
  Step(c, "decrementing", "closed") /\ WriteCounter(local[c] - 2)

\* ... then DecrementNumberOfConnections.
DecrementReads(c) == Step(c, "removed", "decrementing") /\ ReadCounter(c)
DecrementWrites(c) ==
  Step(c, "decrementing", "closed") /\ WriteCounter(local[c] - 1)
-----------------------------------------------------------------------------
Accepted(c) ==
  RouteReads(c) \/ RouteAdds(c) \/ IncrementReads(c) \/ IncrementWrites(c)

Disconnected(c) ==
  \/ RemoveFinds(c) \/ RemoveFindsNothing(c) \/ RemoveRemoves(c) \/ RemoveThrows(c)
  \/ DecrementReads(c) \/ DecrementWrites(c)

Next == \E c \in Connections : Accepted(c) \/ Disconnected(c) \/ Reset(c)

Spec == Init /\ [][Next]_vars
-----------------------------------------------------------------------------
(* Properties                                                                *)

\* The connections whose element is stored, and whose increment is written.
Listed == {c \in Connections : pc[c] \notin {"new", "adding", "removed", "decrementing", "closed"}}
Counted == {c \in Connections : pc[c] \in {"open", "reset", "removing", "removed", "decrementing"}}

TypeOK ==
  /\ pc \in [Connections -> {"new", "adding", "routed", "incrementing", "open",
       "reset", "removing", "removed", "decrementing", "closed"}]
  /\ objects \in Seq(Connections \cup {Null})
  /\ numberOfConnections \in Int
  /\ local \in [Connections -> Int]
  /\ \A c \in Connections : /\ pc[c] = "adding" => local[c] \in Nat
                            /\ pc[c] = "removing" => local[c] \in Nat \ {0}
  /\ thrown \in BOOLEAN /\ listRaced \in BOOLEAN /\ countRaced \in BOOLEAN

\* As long as no two operations on the list have overlapped, it holds each
\* connection that is open or was reset, once, and no other; the one in the
\* middle of an operation has an index that is still right.
ListExact ==
  ~listRaced =>
    /\ \A c, d \in InList : c = d
    /\ \A k \in 1 .. Len(objects) : objects[k] \in Listed
    /\ \A c \in Listed : \E k \in 1 .. Len(objects) : objects[k] = c
    /\ \A j, k \in 1 .. Len(objects) : objects[j] = objects[k] => j = k
    /\ \A c \in Connections :
         /\ pc[c] = "adding" => local[c] = Len(objects)
         /\ pc[c] = "removing" =>
              local[c] \in 1 .. Len(objects) /\ objects[local[c]] = c

\* As long as no two operations on the counter have overlapped, it is the
\* number of connections that are open, reset (these for ever) or about to be
\* taken off it, the one in the middle of an operation included or not.
CountExact ==
  ~countRaced =>
    /\ \A c, d \in InCounter : c = d
    /\ \A c \in InCounter : local[c] = numberOfConnections
    /\ numberOfConnections = Cardinality(Counted)

IndInv == TypeOK /\ ListExact /\ CountExact

\* Disconnect finds its route object, and Remove does not throw out of it (which
\* would end the process), unless operations on the list have overlapped.
ListFailsOnlyWhenRaced ==
  [][\A c \in Connections :
       RemoveThrows(c) \/ RemoveFindsNothing(c) => listRaced]_vars
=============================================================================
