-------------------------- MODULE BufferPool_proofs --------------------------
(***************************************************************************)
(* Proofs about BufferPool.tla, for any set of args objects and any number *)
(* of buffers: the pool never hands one buffer to two args objects, and it *)
(* implements BufferAllocator.tla.                                         *)
(***************************************************************************)
EXTENDS BufferPool, SequenceTheorems, TLAPS

\* Pop of a Stack<int>, a sequence with its top at the end: the stack without its
\* top, and where its elements were.
LEMMA PopProperties ==
  ASSUME NEW s \in Seq(Nat), s # <<>>
  PROVE  /\ Len(s) \in Nat \ {0}
         /\ SubSeq(s, 1, Len(s) - 1) \in Seq(Nat)
         /\ Len(SubSeq(s, 1, Len(s) - 1)) = Len(s) - 1
         /\ DOMAIN SubSeq(s, 1, Len(s) - 1) = 1 .. Len(s) - 1
         /\ \A i \in 1 .. Len(s) - 1 : SubSeq(s, 1, Len(s) - 1)[i] = s[i]
  <1>1. Len(s) \in Nat \ {0}
    BY EmptySeq, LenProperties
  <1>2. \A i \in 1 .. Len(s) - 1 : s[i] \in Nat
    BY <1>1, LenProperties, ElementOfSeq
  <1> DEFINE n == Len(s) - 1
  <1>3. n \in Nat /\ 1 \in Int
    BY <1>1
  <1> HIDE DEF n
  <1>4. /\ SubSeq(s, 1, n) \in Seq(Nat)
        /\ Len(SubSeq(s, 1, n)) = IF 1 <= n THEN n - 1 + 1 ELSE 0
        /\ \A i \in 1 .. n - 1 + 1 : SubSeq(s, 1, n)[i] = s[1 + i - 1]
    BY <1>2, <1>3, SubSeqProperties DEF n
  <1>5. /\ Len(SubSeq(s, 1, n)) = n
        /\ \A i \in 1 .. n : SubSeq(s, 1, n)[i] = s[i]
    BY <1>3, <1>4
  <1> QED
    BY <1>1, <1>4, <1>5, LenProperties DEF n

\* A new pool has no buffer out and none returned.
LEMMA InitIndInv == Init => IndInv
  <1> SUFFICES ASSUME Init PROVE IndInv
    OBVIOUS
  <1>1. TypeOK
    BY NumberOfBuffersAssumption DEF Init, TypeOK
  <1>2. Holders = {}
    BY DEF Init, Holders
  <1>3. HeldIndices = {} /\ FreeIndices = {}
    BY <1>2 DEF Init, HeldIndices, FreeIndices
  <1> QED
    BY <1>1, <1>2, <1>3
    DEF Init, IndInv, Exclusive, Distinct, Disjoint, Covered

\* A step of one args object, in terms of who holds what.
LEMMA HoldersAfter ==
  ASSUME TypeOK, NEW a \in Args, NEW i, buffer' = [buffer EXCEPT ![a] = i]
  PROVE  /\ i # NoBuffer => Holders' = Holders \cup {a}
         /\ i = NoBuffer => Holders' = Holders \ {a}
         /\ buffer'[a] = i
         /\ \A b \in Args : b # a => buffer'[b] = buffer[b]
  BY DEF TypeOK, Holders

\* CheckOut from the stack of returned offsets: the popped one has no holder.
LEMMA CheckOutReturnedStep ==
  ASSUME IndInv, NEW a \in Args, buffer[a] = NoBuffer, CheckOutReturned(a)
  PROVE  IndInv'
  <1> DEFINE top == Len(freeIndexPool)
             i == freeIndexPool[top]
  <1>1. /\ freeIndexPool # <<>>
        /\ freeIndexPool' = SubSeq(freeIndexPool, 1, top - 1)
        /\ buffer' = [buffer EXCEPT ![a] = i]
        /\ currentIndex' = currentIndex
    BY DEF CheckOutReturned
  <1>2. freeIndexPool \in Seq(Nat)
    BY DEF IndInv, TypeOK
  <1>3. /\ top \in Nat \ {0}
        /\ freeIndexPool' \in Seq(Nat)
        /\ DOMAIN freeIndexPool' = 1 .. top - 1
        /\ DOMAIN freeIndexPool = 1 .. top
        /\ \A k \in 1 .. top - 1 : freeIndexPool'[k] = freeIndexPool[k]
    BY <1>1, <1>2, PopProperties, LenProperties
  <1>4. i \in Nat /\ i # NoBuffer
    BY <1>2, <1>3, ElementOfSeq, NoBufferAssumption
  <1>5. /\ Holders' = Holders \cup {a}
        /\ buffer'[a] = i
        /\ \A b \in Args : b # a => buffer'[b] = buffer[b]
    BY <1>1, <1>4, HoldersAfter DEF IndInv
  <1>6. a \notin Holders
    BY DEF Holders
  <1>7. HeldIndices' = HeldIndices \cup {i}
    BY <1>5, <1>6 DEF HeldIndices, Holders
  <1>8. FreeIndices' = FreeIndices \ {i} /\ i \in FreeIndices
    <2>1. \A k \in 1 .. top - 1 : freeIndexPool[k] # i
      BY <1>3 DEF IndInv, Distinct
    <2> QED
      BY <1>3, <2>1 DEF FreeIndices
  <1>9. TypeOK'
    BY <1>1, <1>3, <1>4 DEF IndInv, TypeOK
  <1>10. Exclusive'
    <2>1. i \notin HeldIndices
      BY <1>8 DEF IndInv, Disjoint
    <2> QED
      BY <1>5, <1>6, <2>1 DEF IndInv, Exclusive, HeldIndices, Holders
  <1>11. Distinct'
    BY <1>3 DEF IndInv, Distinct
  <1>12. Disjoint'
    BY <1>7, <1>8 DEF IndInv, Disjoint
  <1>13. Covered'
    BY <1>1, <1>7, <1>8 DEF IndInv, Covered
  <1> QED
    BY <1>9, <1>10, <1>11, <1>12, <1>13 DEF IndInv

\* CheckOut of the next offset: it is above all that are held or returned.
LEMMA CheckOutFreshStep ==
  ASSUME IndInv, NEW a \in Args, buffer[a] = NoBuffer, CheckOutFresh(a)
  PROVE  IndInv'
  <1>1. /\ freeIndexPool' = freeIndexPool
        /\ buffer' = [buffer EXCEPT ![a] = currentIndex]
        /\ currentIndex' = currentIndex + 1
        /\ currentIndex < NumberOfBuffers
    BY DEF CheckOutFresh
  <1>2. currentIndex \in Nat /\ currentIndex # NoBuffer
    BY NoBufferAssumption, NumberOfBuffersAssumption DEF IndInv, TypeOK
  <1>3. /\ Holders' = Holders \cup {a}
        /\ buffer'[a] = currentIndex
        /\ \A b \in Args : b # a => buffer'[b] = buffer[b]
    BY <1>1, <1>2, HoldersAfter DEF IndInv
  <1>4. a \notin Holders
    BY DEF Holders
  <1>5. HeldIndices' = HeldIndices \cup {currentIndex}
    BY <1>3, <1>4 DEF HeldIndices, Holders
  <1>6. FreeIndices' = FreeIndices
    BY <1>1 DEF FreeIndices
  <1>7. currentIndex \notin HeldIndices /\ currentIndex \notin FreeIndices
    BY <1>2 DEF IndInv, Covered
  <1>8. TypeOK'
    BY <1>1, <1>2, NumberOfBuffersAssumption DEF IndInv, TypeOK
  <1>9. Exclusive'
    BY <1>3, <1>4, <1>7 DEF IndInv, Exclusive, HeldIndices, Holders
  <1>10. Distinct'
    BY <1>1 DEF IndInv, Distinct
  <1>11. Disjoint'
    BY <1>5, <1>6, <1>7 DEF IndInv, Disjoint
  <1>12. Covered'
    <2>1. 0 .. currentIndex = 0 .. currentIndex - 1 \cup {currentIndex}
      BY <1>2
    <2> QED
      BY <1>1, <1>2, <1>5, <1>6, <2>1 DEF IndInv, Covered
  <1> QED
    BY <1>8, <1>9, <1>10, <1>11, <1>12 DEF IndInv

\* CheckIn: the buffer moves from its holder to the stack.
LEMMA CheckInStep ==
  ASSUME IndInv, NEW a \in Args, buffer[a] # NoBuffer, CheckIn(a)
  PROVE  IndInv'
  <1> DEFINE i == buffer[a]
             n == Len(freeIndexPool)
  <1>1. /\ freeIndexPool' = Append(freeIndexPool, i)
        /\ buffer' = [buffer EXCEPT ![a] = NoBuffer]
        /\ currentIndex' = currentIndex
    BY DEF CheckIn, Offset
  <1>2. freeIndexPool \in Seq(Nat) /\ i \in Nat
    BY DEF IndInv, TypeOK
  <1>3. /\ n \in Nat
        /\ freeIndexPool' \in Seq(Nat)
        /\ DOMAIN freeIndexPool' = 1 .. n + 1
        /\ DOMAIN freeIndexPool = 1 .. n
        /\ \A k \in 1 .. n : freeIndexPool'[k] = freeIndexPool[k]
        /\ freeIndexPool'[n + 1] = i
    BY <1>1, <1>2, AppendProperties, LenProperties
  <1>4. /\ Holders' = Holders \ {a}
        /\ \A b \in Args : b # a => buffer'[b] = buffer[b]
    BY <1>1, HoldersAfter DEF IndInv
  <1>5. a \in Holders
    BY DEF Holders
  <1>6. HeldIndices' = HeldIndices \ {i} /\ i \in HeldIndices
    BY <1>4, <1>5 DEF IndInv, Exclusive, HeldIndices, Holders
  <1>7. FreeIndices' = FreeIndices \cup {i}
    <2>1. DOMAIN freeIndexPool' = DOMAIN freeIndexPool \cup {n + 1}
      BY <1>3
    <2> QED
      BY <1>3, <2>1 DEF FreeIndices
  <1>8. i \notin FreeIndices
    BY <1>6 DEF IndInv, Disjoint
  <1>9. TypeOK'
    BY <1>1, <1>3 DEF IndInv, TypeOK
  <1>10. Exclusive'
    BY <1>4 DEF IndInv, Exclusive, Holders
  <1>11. Distinct'
    BY <1>3, <1>8 DEF IndInv, Distinct, FreeIndices
  <1>12. Disjoint'
    BY <1>6, <1>7 DEF IndInv, Disjoint
  <1>13. Covered'
    BY <1>1, <1>6, <1>7 DEF IndInv, Covered
  <1> QED
    BY <1>9, <1>10, <1>11, <1>12, <1>13 DEF IndInv

\* Every call of the pool preserves the invariant.
LEMMA NextIndInv == IndInv /\ [Next]_vars => IndInv'
  <1> SUFFICES ASSUME IndInv, [Next]_vars PROVE IndInv'
    OBVIOUS
  <1>1. ASSUME NEW a \in Args, buffer[a] = NoBuffer, CheckOut(a) PROVE IndInv'
    BY <1>1, CheckOutReturnedStep, CheckOutFreshStep DEF CheckOut
  <1>2. ASSUME NEW a \in Args, buffer[a] # NoBuffer, CheckIn(a) PROVE IndInv'
    BY <1>2, CheckInStep
  <1>3. CASE UNCHANGED vars
    <2>1. /\ freeIndexPool' = freeIndexPool
          /\ currentIndex' = currentIndex
          /\ buffer' = buffer
      BY <1>3 DEF vars
    <2>2. Holders' = Holders /\ FreeIndices' = FreeIndices
      BY <2>1 DEF Holders, FreeIndices
    <2>3. HeldIndices' = HeldIndices
      BY <2>1, <2>2 DEF HeldIndices
    <2> QED
      BY <2>1, <2>2, <2>3
      DEF IndInv, TypeOK, Exclusive, Distinct, Disjoint, Covered
  <1> QED
    BY <1>1, <1>2, <1>3 DEF Next

\* Every offset below the high-water mark is held once or free once, always.
THEOREM PoolIndInv == Spec => []IndInv
  <1> QED
    BY InitIndInv, NextIndInv, PTL DEF Spec

\* No two args objects ever hold the same piece of the receive memory.
THEOREM PoolExclusive == Spec => []Exclusive
  <1>1. IndInv => Exclusive
    BY DEF IndInv
  <1> QED
    BY <1>1, PoolIndInv, PTL

\* The stack and the high-water mark implement the abstract allocator.
THEOREM PoolImplementsAllocator == Spec => ImplementsAllocator
  <1>1. Init => Allocator!Init
    BY DEF Init, Allocator!Init
  <1>2. IndInv /\ [Next]_vars => [Allocator!Next]_buffer
    <2> SUFFICES ASSUME IndInv, [Next]_vars PROVE [Allocator!Next]_buffer
      OBVIOUS
    <2>1. ASSUME NEW a \in Args, buffer[a] = NoBuffer, CheckOut(a)
          PROVE  Allocator!Acquire(a)
      <3>1. CASE CheckOutReturned(a)
        <4> DEFINE top == Len(freeIndexPool)
                   i == freeIndexPool[top]
        <4>1. freeIndexPool # <<>> /\ buffer' = [buffer EXCEPT ![a] = i]
          BY <3>1 DEF CheckOutReturned
        <4>2. top \in DOMAIN freeIndexPool
          BY <4>1, PopProperties, LenProperties DEF IndInv, TypeOK
        <4>3. i \in FreeIndices
          BY <4>2 DEF FreeIndices
        <4>4. i \in 0 .. NumberOfBuffers - 1 /\ i # NoBuffer
          BY <4>3, NumberOfBuffersAssumption, NoBufferAssumption
          DEF IndInv, Covered, TypeOK
        <4>5. \A b \in Args : buffer[b] # i
          BY <4>3, <4>4 DEF IndInv, Disjoint, HeldIndices, Holders
        <4> QED
          BY <2>1, <4>1, <4>4, <4>5 DEF Allocator!Acquire, Allocator!Buffers
      <3>2. CASE CheckOutFresh(a)
        <4>1. /\ currentIndex < NumberOfBuffers
              /\ buffer' = [buffer EXCEPT ![a] = currentIndex]
          BY <3>2 DEF CheckOutFresh
        <4>2. currentIndex \in 0 .. NumberOfBuffers - 1 /\ currentIndex # NoBuffer
          BY <4>1, NumberOfBuffersAssumption, NoBufferAssumption
          DEF IndInv, TypeOK
        <4>3. \A b \in Args : buffer[b] # currentIndex
          BY <4>2 DEF IndInv, Covered, HeldIndices, Holders
        <4> QED
          BY <2>1, <4>1, <4>2, <4>3 DEF Allocator!Acquire, Allocator!Buffers
      <3> QED
        BY <2>1, <3>1, <3>2 DEF CheckOut
    <2>2. ASSUME NEW a \in Args, buffer[a] # NoBuffer, CheckIn(a)
          PROVE  Allocator!Release(a)
      BY <2>2 DEF CheckIn, Allocator!Release
    <2>3. CASE UNCHANGED vars
      BY <2>3 DEF vars
    <2> QED
      BY <2>1, <2>2, <2>3 DEF Next, Allocator!Next
  <1> QED
    BY <1>1, <1>2, PoolIndInv, PTL DEF Spec, ImplementsAllocator, Allocator!Spec
=============================================================================
