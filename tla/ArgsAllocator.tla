---------------------------- MODULE ArgsAllocator ----------------------------
(***************************************************************************)
(* What the pool of SocketAsyncEventArgs promises the connections that     *)
(* share it (src/src/Oswos.Server/Tcp/SocketArgsPool.cs): an object is     *)
(* checked out for one receive or one send of one connection, and for      *)
(* nothing else until it has been checked in again.  SocketConnection.tla  *)
(* models how the connections keep to it.                                  *)
(***************************************************************************)
CONSTANTS Args,         \* the SocketAsyncEventArgs objects
          Connections   \* who uses them

Roles == {"receive", "send"}

VARIABLE users          \* users[a]: who uses a, and for what

Init == users = [a \in Args |-> {}]

\* A connection has one object it receives with, and any number for its sends.
CheckOut(a, c, role) ==
  /\ users[a] = {}
  /\ role = "receive" => \A b \in Args : <<c, role>> \notin users[b]
  /\ users' = [users EXCEPT ![a] = {<<c, role>>}]

CheckIn(a) ==
  /\ users[a] # {}
  /\ users' = [users EXCEPT ![a] = {}]

Next == \E a \in Args :
          CheckIn(a) \/ \E c \in Connections, role \in Roles : CheckOut(a, c, role)

Spec == Init /\ [][Next]_users
=============================================================================
