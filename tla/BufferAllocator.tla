-------------------------- MODULE BufferAllocator --------------------------
(***************************************************************************)
(* What a pool of receive buffers promises its users, whatever its data    *)
(* structure: a SocketAsyncEventArgs that asks for a buffer is given one   *)
(* that no other args object holds, and keeps it until it gives it back.   *)
(* The promise is the one src/src/Oswos.Server/Tcp/BufferPool.cs makes in  *)
(* its comments; BufferPool.tla models how the class keeps it.             *)
(***************************************************************************)
EXTENDS Naturals

CONSTANTS Args,             \* the SocketAsyncEventArgs objects
          NumberOfBuffers,  \* how many buffers the pool was created with
          NoBuffer          \* what an args object without a buffer holds

VARIABLE buffer             \* the buffer each args object holds

Buffers == 0 .. NumberOfBuffers - 1

Init == buffer = [a \in Args |-> NoBuffer]

Acquire(a) ==
  /\ buffer[a] = NoBuffer
  /\ \E i \in Buffers : /\ \A b \in Args : buffer[b] # i
                        /\ buffer' = [buffer EXCEPT ![a] = i]

Release(a) ==
  /\ buffer[a] # NoBuffer
  /\ buffer' = [buffer EXCEPT ![a] = NoBuffer]

Next == \E a \in Args : Acquire(a) \/ Release(a)

Spec == Init /\ [][Next]_buffer
=============================================================================
