----------------------------- MODULE BufferPool -----------------------------
(***************************************************************************)
(* src/src/Oswos.Server/Tcp/BufferPool.cs: one large byte array cut into   *)
(* equal receive buffers.  CheckOut and CheckIn hold the pool's lock from  *)
(* their first to their last line, so each is one action.                  *)
(*                                                                         *)
(* Offsets are counted in buffers: the byte offset i * _bufferSize is i.   *)
(* NoBuffer stands for an args object whose buffer is not a piece of the   *)
(* pool's array (never set, set to null, or set to the bytes of a send).   *)
(***************************************************************************)
EXTENDS Integers, Sequences, FiniteSets

CONSTANTS Args,             \* the SocketAsyncEventArgs objects
          NumberOfBuffers,  \* the constructor's numberOfBuffers
          NoBuffer

ASSUME NumberOfBuffersAssumption == NumberOfBuffers \in Nat
ASSUME NoBufferAssumption == NoBuffer \notin Nat

VARIABLES freeIndexPool,    \* _freeIndexPool: the stack of returned offsets
          currentIndex,     \* _currentIndex: the first offset never handed out
          buffer            \* the buffer set on each args object

vars == <<freeIndexPool, currentIndex, buffer>>

Init ==
  /\ freeIndexPool = <<>>
  /\ currentIndex = 0
  /\ buffer = [a \in Args |-> NoBuffer]

\* args.Offset: 0 unless SetBuffer gave the object a piece of the array.
Offset(a) == IF buffer[a] = NoBuffer THEN 0 ELSE buffer[a]

\* The number of available objects in the pool.
Available == (NumberOfBuffers - currentIndex) + Len(freeIndexPool)

\* SetBuffer throws, before _currentIndex moves: nothing is left to hand out.
Exhausted == freeIndexPool = <<>> /\ currentIndex >= NumberOfBuffers

\* Mutant: the offset is read off the stack and left on it.
CheckOutReturned_Peeks(a) ==
  /\ freeIndexPool # <<>>
  /\ buffer' = [buffer EXCEPT ![a] = freeIndexPool[Len(freeIndexPool)]]
  /\ UNCHANGED <<freeIndexPool, currentIndex>>

CheckOutReturned(a) ==
  LET top == Len(freeIndexPool) IN
  /\ freeIndexPool # <<>>
  /\ buffer' = [buffer EXCEPT ![a] = freeIndexPool[top]]
  /\ freeIndexPool' = SubSeq(freeIndexPool, 1, top - 1)
  /\ UNCHANGED currentIndex

CheckOutFresh(a) ==
  /\ freeIndexPool = <<>>
  /\ currentIndex < NumberOfBuffers
  /\ buffer' = [buffer EXCEPT ![a] = currentIndex]
  /\ currentIndex' = currentIndex + 1
  /\ UNCHANGED freeIndexPool

CheckOut(a) == CheckOutReturned(a) \/ CheckOutFresh(a)

\* Mutant: the end of the buffer is returned for its start.
CheckIn_End(a) ==
  /\ freeIndexPool' = Append(freeIndexPool, Offset(a) + 1)
  /\ buffer' = [buffer EXCEPT ![a] = NoBuffer]
  /\ UNCHANGED currentIndex

CheckIn(a) ==
  /\ freeIndexPool' = Append(freeIndexPool, Offset(a))
  /\ buffer' = [buffer EXCEPT ![a] = NoBuffer]
  /\ UNCHANGED currentIndex

(***************************************************************************)
(* The pool under the discipline its comments ask of its users: a buffer   *)
(* is checked out for an args object "which needs a buffer", and checked   *)
(* in with the object "which has finished with it".  SocketConnection.tla  *)
(* composes the pool with the user the program really has.                 *)
(***************************************************************************)
Next == \E a \in Args : \/ buffer[a] = NoBuffer /\ CheckOut(a)
                        \/ buffer[a] # NoBuffer /\ CheckIn(a)

Spec == Init /\ [][Next]_vars
-----------------------------------------------------------------------------
Holders == {a \in Args : buffer[a] # NoBuffer}
HeldIndices == {buffer[a] : a \in Holders}
FreeIndices == {freeIndexPool[k] : k \in DOMAIN freeIndexPool}

TypeOK ==
  /\ freeIndexPool \in Seq(Nat)
  /\ currentIndex \in 0 .. NumberOfBuffers
  /\ buffer \in [Args -> Nat \cup {NoBuffer}]

\* Two args objects never share a buffer: what arrives for one connection is
\* not written over what has arrived for another (BufferPool.CheckOut).
Exclusive ==
  \A a, b \in Holders : a # b => buffer[a] # buffer[b]

(***************************************************************************)
(* Inductive strengthening of Exclusive: every offset below currentIndex   *)
(* is held by one args object or lies once on the stack.                   *)
(***************************************************************************)
Distinct ==
  \A j, k \in DOMAIN freeIndexPool :
    j # k => freeIndexPool[j] # freeIndexPool[k]
Disjoint == FreeIndices \cap HeldIndices = {}
Covered == FreeIndices \cup HeldIndices = 0 .. currentIndex - 1

IndInv == TypeOK /\ Exclusive /\ Distinct /\ Disjoint /\ Covered

Allocator == INSTANCE BufferAllocator
\* The class implements the allocator its comments describe.
ImplementsAllocator == Allocator!Spec
=============================================================================
