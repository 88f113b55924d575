----------------------- MODULE ConnectionRegistry_proofs -----------------------
(***************************************************************************)
(* Proofs about ConnectionRegistry.tla for any number of connections: the  *)
(* list and the counter are exact for as long as no operations overlap,    *)
(* and only then can Disconnect go wrong over them.                        *)
(***************************************************************************)
EXTENDS ConnectionRegistry, SequenceTheorems, FiniteSetTheorems, TLAPS

Element == Connections \cup {Null}

LEMMA CountedFinite ==
  /\ IsFiniteSet(Counted) /\ Cardinality(Counted) \in Nat
  <1>1. Counted \subseteq Connections
    BY DEF Counted
  <1> QED
    BY <1>1, RegistryAssumption, FS_Subset, FS_CardinalityType

\* List.Remove: what is left, and where it was.
LEMMA RemoveAtProperties ==
  ASSUME NEW s \in Seq(Element), NEW i \in 1 .. Len(s)
  PROVE  /\ RemoveAt(s, i) \in Seq(Element)
         /\ Len(RemoveAt(s, i)) = Len(s) - 1
         /\ \A k \in 1 .. Len(s) - 1 :
              RemoveAt(s, i)[k] = IF k < i THEN s[k] ELSE s[k + 1]
  <1>1. Len(s) \in Nat /\ \A k \in 1 .. Len(s) : s[k] \in Element
    BY LenProperties, ElementOfSeq
  <1> DEFINE a == SubSeq(s, 1, i - 1)
             b == SubSeq(s, i + 1, Len(s))
  <1>2. /\ a \in Seq(Element) /\ Len(a) = i - 1
        /\ \A k \in 1 .. i - 1 : a[k] = s[k]
    <2>1. \A k \in 1 .. i - 1 : s[k] \in Element
      BY <1>1
    <2>2. /\ a \in Seq(Element) /\ Len(a) = IF 1 <= i - 1 THEN i - 1 - 1 + 1 ELSE 0
          /\ \A k \in 1 .. i - 1 - 1 + 1 : a[k] = s[1 + k - 1]
      BY <1>1, <2>1, SubSeqProperties
    <2> QED
      BY <1>1, <2>2
  <1>3. /\ b \in Seq(Element) /\ Len(b) = Len(s) - i
        /\ \A k \in 1 .. Len(s) - i : b[k] = s[i + k]
    <2>1. \A k \in i + 1 .. Len(s) : s[k] \in Element
      BY <1>1
    <2>2. /\ b \in Seq(Element) /\ Len(b) = IF i + 1 <= Len(s) THEN Len(s) - (i + 1) + 1 ELSE 0
          /\ \A k \in 1 .. Len(s) - (i + 1) + 1 : b[k] = s[i + 1 + k - 1]
      BY <1>1, <2>1, SubSeqProperties
    <2> QED
      BY <1>1, <2>2
  <1>4. RemoveAt(s, i) = a \o b
    BY DEF RemoveAt
  <1> HIDE DEF a, b
  <1>5. /\ a \o b \in Seq(Element) /\ Len(a \o b) = Len(s) - 1
        /\ \A k \in 1 .. Len(s) - 1 : (a \o b)[k] = IF k <= i - 1 THEN a[k] ELSE b[k - (i - 1)]
    <2>1. /\ a \o b \in Seq(Element) /\ Len(a \o b) = Len(a) + Len(b)
          /\ \A k \in 1 .. Len(a) + Len(b) :
               (a \o b)[k] = IF k <= Len(a) THEN a[k] ELSE b[k - Len(a)]
      BY <1>2, <1>3, ConcatProperties
    <2>2. Len(a) + Len(b) = Len(s) - 1
      BY <1>1, <1>2, <1>3
    <2> QED
      BY <1>2, <2>1, <2>2
  <1>6. ASSUME NEW k \in 1 .. Len(s) - 1
        PROVE  (a \o b)[k] = IF k < i THEN s[k] ELSE s[k + 1]
    <2>1. CASE k < i
      BY <1>1, <1>2, <1>5, <2>1
    <2>2. CASE ~(k < i)
      <3>1. k - (i - 1) \in 1 .. Len(s) - i /\ i + (k - (i - 1)) = k + 1
        BY <1>1, <2>2
      <3>2. (a \o b)[k] = b[k - (i - 1)]
        BY <1>1, <1>5, <2>2
      <3>3. b[k - (i - 1)] = s[i + (k - (i - 1))]
        BY <1>3, <3>1, Zenon
      <3> QED
        BY <2>2, <3>1, <3>2, <3>3, Zenon
    <2> QED
      BY <2>1, <2>2, Zenon
  <1> QED
    BY <1>4, <1>5, <1>6

\* List.Add: a list of one element more, or of fewer when it has grown meanwhile.
LEMMA StoredProperties ==
  ASSUME TypeOK, NEW c \in Connections, local[c] \in Nat
  PROVE  /\ Stored(c) \in Seq(Element)
         /\ Len(Stored(c)) = local[c] + 1
         /\ \A k \in 1 .. local[c] + 1 :
              Stored(c)[k] = IF k = local[c] + 1 THEN c
                             ELSE IF k <= Len(objects) THEN objects[k] ELSE Null
  <1>1. local[c] + 1 \in Nat /\ objects \in Seq(Element)
    BY DEF TypeOK, Element
  <1>2. \A k \in 1 .. local[c] + 1 :
          (IF k = local[c] + 1 THEN c ELSE IF k <= Len(objects) THEN objects[k] ELSE Null)
            \in Element
    BY <1>1, LenProperties, ElementOfSeq DEF Element
  <1>3. Stored(c) \in [1 .. local[c] + 1 -> Element]
    BY <1>2 DEF Stored
  <1>4. Stored(c) \in Seq(Element)
    BY <1>1, <1>3, SeqDef
  <1>5. Len(Stored(c)) = local[c] + 1
    BY <1>1, <1>3, <1>4, LenProperties
  <1>6. \A k \in 1 .. local[c] + 1 :
          Stored(c)[k] = IF k = local[c] + 1 THEN c
                         ELSE IF k <= Len(objects) THEN objects[k] ELSE Null
    BY DEF Stored
  <1> QED
    BY <1>4, <1>5, <1>6, Zenon
-----------------------------------------------------------------------------
LEMMA InitIndInv == Init => IndInv
  <1> SUFFICES ASSUME Init PROVE IndInv
    OBVIOUS
  <1>1. TypeOK
    <2>1. objects \in Seq(Connections \cup {Null})
      BY EmptySeq DEF Init
    <2>2. /\ local \in [Connections -> Int]
          /\ \A c \in Connections : pc[c] \notin {"adding", "removing"}
      BY DEF Init
    <2>3. /\ pc \in [Connections -> {"new", "adding", "routed", "incrementing", "open",
               "reset", "removing", "removed", "decrementing", "closed"}]
          /\ numberOfConnections \in Int
      BY DEF Init
    <2>4. thrown \in BOOLEAN /\ listRaced \in BOOLEAN /\ countRaced \in BOOLEAN
      BY DEF Init
    <2> QED
      BY <2>1, <2>2, <2>3, <2>4 DEF TypeOK
  <1>2. ListExact
    BY DEF Init, ListExact, InList, Listed
  <1>3. CountExact
    <2>1. Counted = {} /\ InCounter = {}
      BY DEF Init, Counted, InCounter
    <2> QED
      BY <2>1, FS_EmptySet DEF Init, CountExact
  <1> QED
    BY <1>1, <1>2, <1>3 DEF IndInv

\* Steps that have nothing to do with the list, or the counter, leave it exact.
LEMMA ListKept ==
  ASSUME TypeOK, ListExact, NEW c \in Connections, NEW p,
         pc' = [pc EXCEPT ![c] = p], UNCHANGED <<objects, listRaced>>,
         pc[c] \notin {"adding", "removing"}, p \notin {"adding", "removing"},
         c \in Listed <=> p \notin {"new", "adding", "removed", "decrementing", "closed"},
         \A d \in Connections : d # c => local'[d] = local[d]
  PROVE  ListExact'
  <1>1. \A d \in Connections : pc'[d] = IF d = c THEN p ELSE pc[d]
    BY DEF TypeOK
  <1>2. Listed' = Listed /\ InList' = InList /\ c \notin InList
    BY <1>1 DEF Listed, InList
  <1>3. \A d \in Connections : pc'[d] \in {"adding", "removing"} =>
          pc'[d] = pc[d] /\ local'[d] = local[d]
    BY <1>1
  <1> QED
    BY <1>2, <1>3 DEF ListExact

LEMMA CountKept ==
  ASSUME TypeOK, CountExact, NEW c \in Connections, NEW p,
         pc' = [pc EXCEPT ![c] = p], UNCHANGED <<numberOfConnections, countRaced>>,
         pc[c] \notin {"incrementing", "decrementing"},
         p \notin {"incrementing", "decrementing"},
         c \in Counted <=> p \in {"open", "reset", "removing", "removed", "decrementing"},
         \A d \in Connections : d # c => local'[d] = local[d]
  PROVE  CountExact'
  <1>1. \A d \in Connections : pc'[d] = IF d = c THEN p ELSE pc[d]
    BY DEF TypeOK
  <1>2. Counted' = Counted /\ InCounter' = InCounter /\ c \notin InCounter
    BY <1>1 DEF Counted, InCounter
  <1>3. \A d \in InCounter : local'[d] = local[d]
    BY <1>2 DEF InCounter
  <1> QED
    BY <1>2, <1>3 DEF CountExact

\* Reading the counter is the begin of an operation on it, and no other is open.
LEMMA CountReads ==
  ASSUME TypeOK, CountExact, NEW c \in Connections,
         NEW p \in {"incrementing", "decrementing"},
         pc' = [pc EXCEPT ![c] = p], ReadCounter(c),
         c \in Counted <=> p = "decrementing"
  PROVE  CountExact'
  <1> SUFFICES ASSUME ~countRaced' PROVE CountExact'
    BY DEF CountExact
  <1>1. ~countRaced /\ InCounter = {} /\ numberOfConnections' = numberOfConnections
    BY DEF ReadCounter
  <1>2. \A d \in Connections : pc'[d] = IF d = c THEN p ELSE pc[d]
    BY DEF TypeOK
  <1>3. Counted' = Counted /\ InCounter' = {c}
    BY <1>1, <1>2 DEF Counted, InCounter
  <1>4. local'[c] = numberOfConnections
    BY DEF ReadCounter, TypeOK
  <1> QED
    BY <1>1, <1>3, <1>4 DEF CountExact

\* Writing it is the end: the one operation that was open is over.
LEMMA CountWrites ==
  ASSUME TypeOK, CountExact, NEW c \in Connections,
         NEW p, p \notin {"incrementing", "decrementing"}, UNCHANGED <<local, countRaced>>,
         pc' = [pc EXCEPT ![c] = p],
         \/ /\ pc[c] = "incrementing" /\ p = "open"
            /\ numberOfConnections' = local[c] + 1
         \/ /\ pc[c] = "decrementing" /\ p = "closed"
            /\ numberOfConnections' = local[c] - 1
  PROVE  CountExact'
  <1> SUFFICES ASSUME ~countRaced' PROVE CountExact'
    BY DEF CountExact
  <1>1. c \in InCounter
    BY DEF InCounter
  <1>2. /\ local[c] = Cardinality(Counted)
        /\ \A d \in InCounter : d = c
    BY <1>1 DEF CountExact
  <1>3. \A d \in Connections : pc'[d] = IF d = c THEN p ELSE pc[d]
    BY DEF TypeOK
  <1>4. InCounter' = {}
    BY <1>2, <1>3 DEF InCounter
  <1>5. CASE pc[c] = "incrementing" /\ p = "open"
    <2>1. c \notin Counted /\ Counted' = Counted \cup {c}
      BY <1>3, <1>5 DEF Counted
    <2>2. Cardinality(Counted') = Cardinality(Counted) + 1
      BY <2>1, CountedFinite, FS_AddElement
    <2> QED
      BY <1>2, <1>4, <1>5, <2>2 DEF CountExact
  <1>6. CASE pc[c] = "decrementing" /\ p = "closed"
    <2>1. c \in Counted /\ Counted' = Counted \ {c}
      BY <1>3, <1>6 DEF Counted
    <2>2. Cardinality(Counted') = Cardinality(Counted) - 1
      BY <2>1, CountedFinite, FS_RemoveElement
    <2> QED
      BY <1>2, <1>4, <1>6, <2>2 DEF CountExact
  <1> QED
    BY <1>5, <1>6
-----------------------------------------------------------------------------
\* The steps that work on the list.
LEMMA RouteReadsExact ==
  ASSUME TypeOK, ListExact, NEW c \in Connections, RouteReads(c)
  PROVE  ListExact'
  <1> SUFFICES ASSUME ~listRaced' PROVE ListExact'
    BY DEF ListExact
  <1>1. ~listRaced /\ InList = {} /\ objects' = objects
    BY DEF RouteReads, ReadList
  <1>2. \A d \in Connections : pc'[d] = IF d = c THEN "adding" ELSE pc[d]
    BY DEF RouteReads, Step, TypeOK
  <1>3. Listed' = Listed /\ InList' = {c}
    BY <1>1, <1>2 DEF RouteReads, Step, Listed, InList
  <1>4. /\ local'[c] = Len(objects)
        /\ \A d \in Connections : pc'[d] \in {"adding", "removing"} => d = c
    BY <1>3 DEF RouteReads, ReadList, TypeOK, InList
  <1> QED
    BY <1>1, <1>2, <1>3, <1>4 DEF ListExact

LEMMA RouteAddsExact ==
  ASSUME TypeOK, ListExact, NEW c \in Connections, RouteAdds(c)
  PROVE  ListExact'
  <1> SUFFICES ASSUME ~listRaced' PROVE ListExact'
    BY DEF ListExact
  <1>1. /\ ~listRaced /\ pc[c] = "adding" /\ c \in InList
        /\ objects' = Stored(c) /\ local' = local
    BY DEF RouteAdds, Step, WriteList, InList
  <1>2. local[c] = Len(objects) /\ Len(objects) \in Nat
    BY <1>1, LenProperties DEF ListExact, TypeOK
  <1>3. /\ Len(objects') = Len(objects) + 1
        /\ objects'[Len(objects) + 1] = c
        /\ \A k \in 1 .. Len(objects) : objects'[k] = objects[k]
    <2>1. /\ Len(Stored(c)) = local[c] + 1
          /\ \A k \in 1 .. local[c] + 1 :
               Stored(c)[k] = IF k = local[c] + 1 THEN c
                              ELSE IF k <= Len(objects) THEN objects[k] ELSE Null
      BY <1>2, StoredProperties
    <2> QED
      BY <1>1, <1>2, <2>1
  <1>4. \A d \in Connections : pc'[d] = IF d = c THEN "routed" ELSE pc[d]
    BY DEF RouteAdds, Step, TypeOK
  <1>5. c \notin Listed /\ Listed' = Listed \cup {c}
    BY <1>1, <1>4 DEF Listed
  <1>6. \A d \in Connections : pc'[d] \notin {"adding", "removing"}
    BY <1>1, <1>4 DEF ListExact, InList
  <1>7. \A d \in InList' : FALSE
    BY <1>6 DEF InList
  <1>8. \A k \in 1 .. Len(objects) : objects[k] \in Listed
    BY <1>1 DEF ListExact
  <1>9. \A k \in 1 .. Len(objects') : objects'[k] \in Listed'
    BY <1>2, <1>3, <1>5, <1>8
  <1>10. \A d \in Listed' : \E k \in 1 .. Len(objects') : objects'[k] = d
    <2> SUFFICES ASSUME NEW d \in Listed'
                 PROVE  \E k \in 1 .. Len(objects') : objects'[k] = d
      OBVIOUS
    <2>1. CASE d = c
      BY <1>2, <1>3, <2>1
    <2>2. CASE d # c
      <3>1. PICK k \in 1 .. Len(objects) : objects[k] = d
        BY <1>1, <1>5, <2>2 DEF ListExact
      <3> QED
        BY <1>2, <1>3, <3>1
    <2> QED
      BY <2>1, <2>2
  <1>11. \A j, k \in 1 .. Len(objects') : objects'[j] = objects'[k] => j = k
    <2>1. \A j, k \in 1 .. Len(objects) : objects[j] = objects[k] => j = k
      BY <1>1 DEF ListExact
    <2>2. \A k \in 1 .. Len(objects) : objects[k] # c
      BY <1>5, <1>8
    <2> QED
      BY <1>2, <1>3, <2>1, <2>2
  <1> QED
    BY <1>6, <1>7, <1>9, <1>10, <1>11 DEF ListExact

LEMMA RemoveFindsExact ==
  ASSUME TypeOK, ListExact, NEW c \in Connections, RemoveFinds(c)
  PROVE  ListExact'
  <1> SUFFICES ASSUME ~listRaced' PROVE ListExact'
    BY DEF ListExact
  <1>1. PICK i \in Indices(c) : ReadList(c, i)
    BY DEF RemoveFinds
  <1>2. ~listRaced /\ InList = {} /\ objects' = objects /\ local'[c] = i
    BY <1>1 DEF ReadList, TypeOK
  <1>3. \A d \in Connections : pc'[d] = IF d = c THEN "removing" ELSE pc[d]
    BY DEF RemoveFinds, Step, TypeOK
  <1>4. Listed' = Listed /\ InList' = {c}
    BY <1>2, <1>3 DEF RemoveFinds, Step, Listed, InList
  <1>5. \A d \in Connections : pc'[d] \in {"adding", "removing"} => d = c
    BY <1>4 DEF InList
  <1>6. i \in 1 .. Len(objects) /\ objects[i] = c
    BY DEF Indices
  <1> QED
    BY <1>2, <1>3, <1>4, <1>5, <1>6 DEF ListExact

\* What was found in an exact list can be removed.
LEMMA RemovesWhatItFound ==
  ASSUME TypeOK, ListExact, ~listRaced, NEW c \in Connections
  PROVE  /\ pc[c] = "removing" =>
              local[c] \in 1 .. Len(objects) /\ objects[local[c]] = c
         /\ pc[c] = "open" => Indices(c) # {}
  <1>1. pc[c] = "open" => c \in Listed
    BY DEF Listed
  <1> QED
    BY <1>1 DEF ListExact, Indices

LEMMA RemoveRemovesExact ==
  ASSUME TypeOK, ListExact, NEW c \in Connections, RemoveRemoves(c)
  PROVE  ListExact'
  <1> SUFFICES ASSUME ~listRaced' PROVE ListExact'
    BY DEF ListExact
  <1> DEFINE i == local[c]
             n == Len(objects)
  <1>1. /\ ~listRaced /\ pc[c] = "removing" /\ c \in InList
        /\ objects' = RemoveAt(objects, i) /\ local' = local
    BY DEF RemoveRemoves, Step, WriteList, InList
  <1>2. i \in 1 .. n /\ objects[i] = c /\ n \in Nat
    BY <1>1, RemovesWhatItFound, LenProperties DEF TypeOK
  <1>3. /\ Len(objects') = n - 1
        /\ \A k \in 1 .. n - 1 : objects'[k] = IF k < i THEN objects[k] ELSE objects[k + 1]
    <2>1. objects \in Seq(Element)
      BY DEF TypeOK, Element
    <2> QED
      BY <1>1, <1>2, <2>1, RemoveAtProperties
  <1>4. \A d \in Connections : pc'[d] = IF d = c THEN "removed" ELSE pc[d]
    BY DEF RemoveRemoves, Step, TypeOK
  <1>5. Listed' = Listed \ {c}
    BY <1>1, <1>4 DEF Listed
  <1>6. \A d \in Connections : pc'[d] \notin {"adding", "removing"}
    BY <1>1, <1>4 DEF ListExact, InList
  <1>7. \A d \in InList' : FALSE
    BY <1>6 DEF InList
  <1>8. /\ \A k \in 1 .. n : objects[k] \in Listed
        /\ \A d \in Listed : \E k \in 1 .. n : objects[k] = d
        /\ \A j, k \in 1 .. n : objects[j] = objects[k] => j = k
    BY <1>1 DEF ListExact
  <1> HIDE DEF i, n
  <1>9. \A k \in 1 .. n - 1 : objects'[k] \in Listed'
    <2> SUFFICES ASSUME NEW k \in 1 .. n - 1 PROVE objects'[k] \in Listed'
      OBVIOUS
    <2> DEFINE m == IF k < i THEN k ELSE k + 1
    <2>1. m \in 1 .. n /\ m # i
      BY <1>2
    <2>2. objects'[k] = objects[m]
      BY <1>3
    <2> HIDE DEF m
    <2>3. objects[m] \in Listed /\ objects[m] # c
      BY <1>2, <1>8, <2>1
    <2> QED
      BY <1>5, <2>2, <2>3
  <1>10. \A d \in Listed' : \E k \in 1 .. n - 1 : objects'[k] = d
    <2> SUFFICES ASSUME NEW d \in Listed' PROVE \E k \in 1 .. n - 1 : objects'[k] = d
      OBVIOUS
    <2>1. d \in Listed /\ d # c
      BY <1>5
    <2>2. PICK m \in 1 .. n : objects[m] = d
      BY <1>8, <2>1
    <2>3. CASE m < i
      <3>1. m \in 1 .. n - 1 /\ objects'[m] = d
        BY <1>2, <1>3, <2>2, <2>3
      <3> QED
        BY <3>1
    <2>4. CASE m > i
      <3>1. m - 1 \in 1 .. n - 1 /\ ~(m - 1 < i) /\ (m - 1) + 1 = m
        BY <1>2, <2>4
      <3>2. objects'[m - 1] = d
        BY <1>3, <2>2, <3>1
      <3> QED
        BY <3>1, <3>2
    <2>5. m # i
      BY <1>2, <2>1, <2>2
    <2> QED
      BY <1>2, <2>3, <2>4, <2>5
  <1>11. ASSUME NEW j \in 1 .. n - 1, NEW k \in 1 .. n - 1, objects'[j] = objects'[k]
         PROVE  j = k
    <2> DEFINE mj == IF j < i THEN j ELSE j + 1
               mk == IF k < i THEN k ELSE k + 1
    <2>1. mj \in 1 .. n /\ mk \in 1 .. n /\ (mj = mk => j = k)
      BY <1>2
    <2>2. objects'[j] = objects[mj] /\ objects'[k] = objects[mk]
      BY <1>3
    <2> HIDE DEF mj, mk
    <2> QED
      BY <1>8, <1>11, <2>1, <2>2
  <1> QED
    BY <1>3, <1>6, <1>7, <1>9, <1>10, <1>11 DEF ListExact
-----------------------------------------------------------------------------
LEMMA NextTypeOK == TypeOK /\ [Next]_vars => TypeOK'
  <1> SUFFICES ASSUME TypeOK, [Next]_vars PROVE TypeOK'
    OBVIOUS
  <1> USE DEF Step, ReadList, ReadCounter, WriteList, WriteCounter
  <1>1. ASSUME NEW c \in Connections, Accepted(c) PROVE TypeOK'
    <2>1. Len(objects) \in Nat
      BY LenProperties DEF TypeOK
    <2>2. CASE RouteReads(c)
      BY <2>1, <2>2 DEF RouteReads, TypeOK
    <2>3. CASE RouteAdds(c)
      <3>1. local[c] \in Nat
        BY <2>3 DEF RouteAdds, TypeOK
      <3>2. Stored(c) \in Seq(Connections \cup {Null})
        BY <3>1, StoredProperties DEF Element
      <3> QED
        BY <2>3, <3>2 DEF RouteAdds, TypeOK
    <2>4. CASE IncrementReads(c)
      BY <2>4 DEF IncrementReads, TypeOK
    <2>5. CASE IncrementWrites(c)
      BY <2>5 DEF IncrementWrites, TypeOK
    <2> QED
      BY <1>1, <2>2, <2>3, <2>4, <2>5 DEF Accepted
  <1>2. ASSUME NEW c \in Connections, Disconnected(c) PROVE TypeOK'
    <2>1. CASE RemoveFinds(c)
      <3>1. PICK i \in Indices(c) : ReadList(c, i)
        BY <2>1 DEF RemoveFinds
      <3>2. i \in Nat \ {0}
        BY LenProperties DEF Indices, TypeOK
      <3> QED
        BY <2>1, <3>1, <3>2 DEF RemoveFinds, TypeOK
    <2>2. CASE RemoveFindsNothing(c)
      BY <2>2 DEF RemoveFindsNothing, TypeOK
    <2>3. CASE RemoveRemoves(c)
      <3>1. local[c] \in 1 .. Len(objects)
        BY <2>3, LenProperties DEF RemoveRemoves, TypeOK
      <3>2. RemoveAt(objects, local[c]) \in Seq(Connections \cup {Null})
        BY <3>1, RemoveAtProperties DEF TypeOK, Element
      <3> QED
        BY <2>3, <3>2 DEF RemoveRemoves, TypeOK
    <2>4. CASE RemoveThrows(c)
      BY <2>4 DEF RemoveThrows, TypeOK
    <2>5. CASE DecrementReads(c)
      BY <2>5 DEF DecrementReads, TypeOK
    <2>6. CASE DecrementWrites(c)
      BY <2>6 DEF DecrementWrites, TypeOK
    <2> QED
      BY <1>2, <2>1, <2>2, <2>3, <2>4, <2>5, <2>6 DEF Disconnected
  <1>3. ASSUME NEW c \in Connections, Reset(c) PROVE TypeOK'
    BY <1>3 DEF Reset, TypeOK
  <1>4. CASE UNCHANGED vars
    BY <1>4 DEF vars, TypeOK
  <1> QED
    BY <1>1, <1>2, <1>3, <1>4 DEF Next

LEMMA NextListExact ==
  ASSUME TypeOK, ListExact, [Next]_vars
  PROVE  ListExact'
  <1>1. ASSUME NEW c \in Connections, Accepted(c) PROVE ListExact'
    <2>1. CASE IncrementReads(c)
      BY <2>1, ListKept
         DEF IncrementReads, Step, ReadCounter, TypeOK, Listed
    <2>2. CASE IncrementWrites(c)
      BY <2>2, ListKept
         DEF IncrementWrites, Step, WriteCounter, Listed
    <2> QED
      BY <1>1, <2>1, <2>2, RouteReadsExact, RouteAddsExact DEF Accepted
  <1>2. ASSUME NEW c \in Connections, Disconnected(c) PROVE ListExact'
    <2>1. CASE RemoveFindsNothing(c)
      <3>1. listRaced
        BY <2>1, RemovesWhatItFound DEF RemoveFindsNothing, Step
      <3> QED
        BY <2>1, <3>1 DEF RemoveFindsNothing, ReadList, ListExact
    <2>2. CASE RemoveThrows(c)
      <3>1. listRaced
        BY <2>2, RemovesWhatItFound, LenProperties DEF RemoveThrows, Step, TypeOK
      <3> QED
        BY <2>2, <3>1 DEF RemoveThrows, ListExact
    <2>3. CASE DecrementReads(c)
      BY <2>3, ListKept
         DEF DecrementReads, Step, ReadCounter, TypeOK, Listed
    <2>4. CASE DecrementWrites(c)
      BY <2>4, ListKept
         DEF DecrementWrites, Step, WriteCounter, Listed
    <2> QED
      BY <1>2, <2>1, <2>2, <2>3, <2>4, RemoveFindsExact, RemoveRemovesExact
         DEF Disconnected
  <1>3. ASSUME NEW c \in Connections, Reset(c) PROVE ListExact'
    BY <1>3, ListKept DEF Reset, Step, Listed
  <1>4. CASE UNCHANGED vars
    BY <1>4 DEF vars, ListExact, InList, Listed
  <1> QED
    BY <1>1, <1>2, <1>3, <1>4 DEF Next

LEMMA NextCountExact ==
  ASSUME TypeOK, CountExact, [Next]_vars
  PROVE  CountExact'
  <1>1. ASSUME NEW c \in Connections, Accepted(c) PROVE CountExact'
    <2>1. CASE RouteReads(c)
      BY <2>1, CountKept DEF RouteReads, Step, ReadList, TypeOK, Counted
    <2>2. CASE RouteAdds(c)
      BY <2>2, CountKept DEF RouteAdds, Step, WriteList, Counted
    <2>3. CASE IncrementReads(c)
      BY <2>3, CountReads DEF IncrementReads, Step, Counted
    <2>4. CASE IncrementWrites(c)
      BY <2>4, CountWrites DEF IncrementWrites, Step, WriteCounter
    <2> QED
      BY <1>1, <2>1, <2>2, <2>3, <2>4 DEF Accepted
  <1>2. ASSUME NEW c \in Connections, Disconnected(c) PROVE CountExact'
    <2>1. CASE RemoveFinds(c)
      BY <2>1, CountKept DEF RemoveFinds, Step, ReadList, TypeOK, Counted
    <2>2. CASE RemoveFindsNothing(c)
      BY <2>2, CountKept DEF RemoveFindsNothing, Step, ReadList, TypeOK, Counted
    <2>3. CASE RemoveRemoves(c)
      BY <2>3, CountKept DEF RemoveRemoves, Step, WriteList, Counted
    <2>4. CASE RemoveThrows(c)
      BY <2>4, CountKept DEF RemoveThrows, Step, Counted
    <2>5. CASE DecrementReads(c)
      BY <2>5, CountReads DEF DecrementReads, Step, Counted
    <2>6. CASE DecrementWrites(c)
      BY <2>6, CountWrites DEF DecrementWrites, Step, WriteCounter
    <2> QED
      BY <1>2, <2>1, <2>2, <2>3, <2>4, <2>5, <2>6 DEF Disconnected
  <1>3. ASSUME NEW c \in Connections, Reset(c) PROVE CountExact'
    BY <1>3, CountKept DEF Reset, Step, Counted
  <1>4. CASE UNCHANGED vars
    BY <1>4 DEF vars, CountExact, InCounter, Counted
  <1> QED
    BY <1>1, <1>2, <1>3, <1>4 DEF Next
-----------------------------------------------------------------------------
\* The invariant holds: list and counter are exact until operations overlap.
THEOREM RegistryIndInv == Spec => []IndInv
  <1>1. IndInv /\ [Next]_vars => IndInv'
    BY NextTypeOK, NextListExact, NextCountExact DEF IndInv
  <1> QED
    BY InitIndInv, <1>1, PTL DEF Spec

\* The list of route objects (HttpStreamRouter.cs) holds every connection that is
\* open or was reset once and no other, until two operations on it overlap.
THEOREM RegistryListExact == Spec => []ListExact
  BY RegistryIndInv, PTL DEF IndInv

\* The connection counter (SocketConnection.cs) is right until two updates overlap.
THEOREM RegistryCountExact == Spec => []CountExact
  BY RegistryIndInv, PTL DEF IndInv

\* Disconnect does not fail over the list (RemoveThrows would end the process)
\* unless two operations on it have overlapped.
THEOREM RegistryListFailsOnlyWhenRaced == Spec => ListFailsOnlyWhenRaced
  <1>1. ASSUME IndInv, [Next]_vars
        PROVE  [\A c \in Connections :
                  RemoveThrows(c) \/ RemoveFindsNothing(c) => listRaced]_vars
    <2> SUFFICES ASSUME NEW c \in Connections, RemoveThrows(c) \/ RemoveFindsNothing(c),
                        ~listRaced
                 PROVE  FALSE
      OBVIOUS
    <2>1. TypeOK /\ ListExact
      BY <1>1 DEF IndInv
    <2>2. Len(objects) \in Nat
      BY <2>1, LenProperties DEF TypeOK
    <2> QED
      BY <2>1, <2>2, RemovesWhatItFound DEF RemoveThrows, RemoveFindsNothing, Step
  <1> QED
    BY RegistryIndInv, <1>1, PTL DEF Spec, ListFailsOnlyWhenRaced
=============================================================================
