------------------------- MODULE WebsiteRouting_proofs -------------------------
(***************************************************************************)
(* Proofs about WebsiteRouting.tla for any websites, names and requests:   *)
(* the inductive invariant, the action properties that the run             *)
(* website_routing checks, and the refinement of HostRouting.tla.          *)
(***************************************************************************)
EXTENDS WebsiteRouting, FiniteSetTheorems, TLAPS

\* What an Update leaves of a row is a row.
LEMMA RowUpdate ==
  ASSUME NEW r \in Rows, NEW n \in Names
  PROVE  [r EXCEPT !.host = n] \in Rows
  BY DEF Rows

\* The endpoint of a row of the table is a site.
LEMMA BootSiteIsSite ==
  ASSUME TypeOK, NEW i \in BootTable
  PROVE  /\ bootRows[i] \in Rows /\ bootRows[i].host \in Names
         /\ BootSite(i) \in Sites /\ BootSite(i) # Null
  BY NullAssumption DEF TypeOK, BootTable, BootSite, Sites, Rows

LEMMA UsersFinite ==
  ASSUME NEW n
  PROVE  /\ IsFiniteSet(Users(n)) /\ Cardinality(Users(n)) \in Nat
         /\ IsFiniteSet(Users(n)') /\ Cardinality(Users(n)') \in Nat
  <1>1. Users(n) \subseteq Connections /\ Users(n)' \subseteq Connections
    BY DEF Users
  <1> QED
    BY <1>1, FiniteAssumption, FS_Subset, FS_CardinalityType

\* Before anything has happened the invariant holds.
LEMMA InitIndInv == Init => IndInv
  <1> SUFFICES ASSUME Init PROVE IndInv
    OBVIOUS
  <1>1. \A n : Users(n) = {}
    BY DEF Init, AllIdle, Users
  <1>2. TypeOK
    BY DEF Init, TypeOK, AllIdle, Nothing, NoEndpoints, NoSessions
  <1>3. ModeInv /\ EndpointsInv /\ RequestInv
    BY NullAssumption DEF Init, ModeInv, EndpointsInv, RequestInv, AllIdle, Nothing, NoEndpoints,
       Busy, BootTable
  <1>4. SessionInv
    BY <1>1, FS_EmptySet DEF Init, SessionInv, NoSessions
  <1> QED
    BY <1>2, <1>3, <1>4 DEF IndInv
-----------------------------------------------------------------------------
(* Steps that leave the requests alone                                       *)

\* A step that changes neither requests nor sessions keeps the accounts.
LEMMA SessionsKept ==
  ASSUME SessionInv, UNCHANGED <<pc, foundHost, sessions, leaked>>
  PROVE  SessionInv'
  BY DEF SessionInv, Users

\* The table is read by a start and by look-ups: a change breaks nothing that
\* has been made of it.
LEMMA TableStepInv ==
  ASSUME IndInv, NEW i \in Ids, TableStep(i)
  PROVE  IndInv'
  <1> USE DEF IndInv
  <1>1. /\ mode = "serving"
        /\ rows' \in [Ids -> Rows \cup {Null}]
        /\ UNCHANGED <<processVars, requestVars, sessionVars>>
    <2>1. CASE \E r \in Rows : AddOrUpdate(i, r)
      <3>1. PICK r \in Rows : AddOrUpdate(i, r)
        BY <2>1
      <3>2. r.host \in Names
        BY DEF Rows
      <3>3. CASE Add(i, r)
        BY <3>1, <3>3 DEF AddOrUpdate, Add, TypeOK
      <3>4. CASE Update(i, r)
        <4>1. rows[i] \in Rows
          BY <3>4 DEF Update, TypeOK
        <4>2. [rows[i] EXCEPT !.host = r.host] \in Rows
          BY <4>1, <3>2, RowUpdate
        <4>3. rows' = [rows EXCEPT ![i] = [rows[i] EXCEPT !.host = r.host]]
          BY <3>4 DEF Update, TypeOK
        <4> QED
          BY <3>1, <4>2, <4>3 DEF AddOrUpdate, TypeOK
      <3> QED
        BY <3>1, <3>3, <3>4 DEF AddOrUpdate
    <2>2. CASE Remove(i)
      BY <2>2 DEF Remove, TypeOK
    <2> QED
      BY <2>1, <2>2 DEF TableStep
  <1>2. TypeOK'
    BY <1>1 DEF TypeOK, processVars, requestVars, sessionVars
  <1>3. ModeInv' /\ EndpointsInv' /\ RequestInv'
    BY <1>1 DEF ModeInv, EndpointsInv, RequestInv, processVars, requestVars, Busy,
       BootTable, BootSite
  <1>4. SessionInv'
    BY <1>1, SessionsKept DEF requestVars, sessionVars
  <1> QED
    BY <1>2, <1>3, <1>4

\* The end of a process leaves nothing but the table.
LEMMA EndInv ==
  ASSUME IndInv, End
  PROVE  IndInv'
  <1>1. \A n : Users(n)' = {}
    BY DEF End, AllIdle, Users
  <1>2. TypeOK'
    BY DEF IndInv, End, TypeOK, AllIdle, Nothing, NoEndpoints, NoSessions
  <1>3. ModeInv' /\ EndpointsInv' /\ RequestInv'
    BY NullAssumption DEF End, ModeInv, EndpointsInv, RequestInv, AllIdle, Nothing, NoEndpoints,
       Busy, BootTable
  <1>4. SessionInv'
    BY <1>1, FS_EmptySet DEF End, SessionInv, NoSessions
  <1> QED
    BY <1>2, <1>3, <1>4 DEF IndInv

\* Starting up: while it lasts the table is the one the process started with.
LEMMA ProcessStepInv ==
  ASSUME IndInv, ProcessStep
  PROVE  IndInv'
  <1> USE DEF IndInv
  <1>1. CASE Main
    <2>1. TypeOK' /\ ModeInv' /\ EndpointsInv' /\ RequestInv'
      BY <1>1, NullAssumption DEF Main, TypeOK, ModeInv, EndpointsInv, RequestInv, requestVars, sessionVars, Busy,
         BootTable, BootSite, NoEndpoints
    <2> QED
      BY <1>1, <2>1, SessionsKept DEF Main, requestVars, sessionVars
  <1>2. ASSUME NEW i \in Ids, StartWebsiteEndpoint(i)
        PROVE  IndInv'
    <2>1. i \in BootTable /\ bootRows = rows
      BY <1>2 DEF StartWebsiteEndpoint, ModeInv, Table, BootTable
    <2>2. /\ rows[i].host \in Names
          /\ endpoints' = [endpoints EXCEPT ![rows[i].host] = BootSite(i)]
          /\ BootSite(i) \in Sites
      BY <1>2, <2>1, BootSiteIsSite DEF StartWebsiteEndpoint, BootSite
    <2>3. TypeOK'
      BY <1>2, <2>2 DEF StartWebsiteEndpoint, TypeOK, requestVars, sessionVars
    <2>4. ModeInv' /\ RequestInv'
      BY <1>2 DEF StartWebsiteEndpoint, ModeInv, RequestInv, requestVars, Busy
    <2>5. UNCHANGED bootRows /\ mode' = "starting" /\ bootRows[i].path \notin Malformed
      BY <1>2, <2>1 DEF StartWebsiteEndpoint
    <2>6. ASSUME NEW n \in Names, endpoints'[n] # Null
          PROVE  \E j \in BootTable : /\ bootRows[j].host = n
                                      /\ bootRows[j].path \notin Malformed
                                      /\ endpoints'[n] = BootSite(j)
      <3>1. CASE n = rows[i].host
        BY <2>1, <2>2, <2>5, <3>1 DEF TypeOK
      <3>2. CASE n # rows[i].host
        BY <2>2, <2>6, <3>2 DEF EndpointsInv, TypeOK
      <3> QED
        BY <3>1, <3>2
    <2>7. EndpointsInv'
      BY <2>5, <2>6 DEF EndpointsInv, BootTable, BootSite
    <2> QED
      BY <1>2, <2>3, <2>4, <2>7, SessionsKept DEF StartWebsiteEndpoint, requestVars, sessionVars
  <1>3. ASSUME NEW i \in Ids, StartWebsiteEndpointThrows(i)
        PROVE  IndInv'
    BY <1>3, EndInv DEF StartWebsiteEndpointThrows
  <1>4. CASE HttpStreamRouter
    <2>1. bootRows = rows /\ Table = BootTable
      BY <1>4 DEF HttpStreamRouter, ModeInv, Table, BootTable
    <2>2. TypeOK'
      BY <1>4, <2>1, BootSiteIsSite DEF HttpStreamRouter, TypeOK, requestVars, sessionVars
    <2>3. ModeInv' /\ RequestInv'
      BY <1>4 DEF HttpStreamRouter, ModeInv, RequestInv, requestVars, Busy
    <2>4. ASSUME NEW i \in BootTable
          PROVE  endpoints[bootRows[i].host] = BootSite(i)
      <3>1. PICK n \in Names : endpoints[n] # Null /\ endpoints[n].id = i
        BY <1>4, <2>1, <2>4 DEF HttpStreamRouter, Started
      <3>2. PICK j \in BootTable : bootRows[j].host = n /\ endpoints[n] = BootSite(j)
        BY <3>1 DEF EndpointsInv
      <3>3. j = i
        BY <3>1, <3>2 DEF BootSite
      <3> QED
        BY <3>2, <3>3
    <2>5. EndpointsInv'
      BY <1>4, <2>1, <2>4 DEF HttpStreamRouter, EndpointsInv, BootTable, BootSite
    <2> QED
      BY <1>4, <2>2, <2>3, <2>5, SessionsKept DEF HttpStreamRouter, requestVars, sessionVars
  <1>5. CASE Exit
    BY <1>5, EndInv DEF Exit
  <1> QED
    BY <1>1, <1>2, <1>3, <1>4, <1>5 DEF ProcessStep
-----------------------------------------------------------------------------
(* Steps of requests                                                         *)

\* What a step of c writes is of the right kind and is what the place it goes
\* to needs; the other requests, the process and the table stay.
LEMMA RequestMoves ==
  ASSUME IndInv, NEW c \in Connections, mode = "serving",
         UNCHANGED <<rows, processVars>>,
         NEW p \in {"idle", "finding", "calling", "called", "delivering", "failed"},
         NEW h \in Hosts \cup {Null}, NEW i \in Ids \cup {Null},
         NEW n \in Names \cup {Null}, NEW s \in Sites \cup {Null, Error},
         pc' = [pc EXCEPT ![c] = p],
         host' = [host EXCEPT ![c] = h],
         foundId' = [foundId EXCEPT ![c] = i],
         foundHost' = [foundHost EXCEPT ![c] = n],
         answer' = [answer EXCEPT ![c] = s],
         sessions' \in [Names -> Nat], leaked' \in BOOLEAN,
         p = "idle" <=> h = Null,
         p \in {"idle", "finding", "calling", "called"} => s = Null,
         p \in {"calling", "called", "delivering"} =>
           i \in Ids /\ n \in Contains[h] \cap factoryCache,
         p = "delivering" => s = endpoints[n],
         p = "failed" => s = Error
  PROVE  TypeOK' /\ ModeInv' /\ EndpointsInv' /\ RequestInv'
  <1>1. TypeOK'
    BY DEF IndInv, TypeOK, processVars
  <1>2. ModeInv' /\ EndpointsInv'
    BY DEF IndInv, ModeInv, EndpointsInv, processVars, BootTable, BootSite
  <1>3. ASSUME NEW d \in Connections, d # c
        PROVE  /\ pc'[d] = pc[d] /\ host'[d] = host[d] /\ foundId'[d] = foundId[d]
               /\ foundHost'[d] = foundHost[d] /\ answer'[d] = answer[d]
    BY <1>3 DEF IndInv, TypeOK
  <1>4. /\ pc'[c] = p /\ host'[c] = h /\ foundId'[c] = i
        /\ foundHost'[c] = n /\ answer'[c] = s
    BY DEF IndInv, TypeOK
  <1>5. UNCHANGED <<factoryCache, endpoints>>
    BY DEF processVars
  <1>6. RequestInv'
    BY <1>3, <1>4, <1>5 DEF IndInv, RequestInv
  <1> QED
    BY <1>1, <1>2, <1>6

\* Opening a channel makes the request a user of its endpoint, and no other's.
LEMMA UsersJoin ==
  ASSUME TypeOK, NEW c \in Connections, pc[c] = "calling",
         pc' = [pc EXCEPT ![c] = "called"], UNCHANGED foundHost, NEW n
  PROVE  /\ c \notin Users(n)
         /\ Users(n)' = IF foundHost[c] = n THEN Users(n) \cup {c} ELSE Users(n)
  BY DEF TypeOK, Users

\* A request that goes elsewhere is a user no more.
LEMMA UsersLeave ==
  ASSUME TypeOK, NEW c \in Connections, NEW p, p \notin {"called", "delivering"},
         NEW m, pc' = [pc EXCEPT ![c] = p],
         foundHost' = [foundHost EXCEPT ![c] = m], NEW n
  PROVE  Users(n)' = Users(n) \ {c}
  BY DEF TypeOK, Users

\* Giving a session back, or not, with the request that used it.
LEMMA SessionsLeave ==
  ASSUME IndInv, NEW c \in Connections, pc[c] \in {"called", "delivering"},
         foundHost[c] \in Names,
         \A n : Users(n)' = Users(n) \ {c},
         \/ /\ sessions' = [sessions EXCEPT ![foundHost[c]] = @ - 1]
            /\ UNCHANGED leaked
         \/ UNCHANGED sessions /\ leaked' = TRUE
  PROVE  SessionInv' /\ sessions' \in [Names -> Nat] /\ leaked' \in BOOLEAN
  <1> USE DEF IndInv
  <1>1. ASSUME NEW n \in Names
        PROVE  /\ Cardinality(Users(n)') =
                    IF foundHost[c] = n THEN Cardinality(Users(n)) - 1
                                        ELSE Cardinality(Users(n))
               /\ Cardinality(Users(n)) \in Nat /\ Cardinality(Users(n)') \in Nat
    <2>1. c \in Users(n) <=> foundHost[c] = n
      BY DEF Users
    <2> QED
      BY <2>1, UsersFinite, FS_RemoveElement
  <1>2. sessions \in [Names -> Nat] /\ leaked \in BOOLEAN
    BY DEF TypeOK
  <1>3. \A n \in Names : /\ Cardinality(Users(n)) <= sessions[n]
                         /\ ~leaked => sessions[n] = Cardinality(Users(n))
    BY DEF SessionInv
  <1>4. CASE sessions' = [sessions EXCEPT ![foundHost[c]] = @ - 1] /\ UNCHANGED leaked
    <2>1. ASSUME NEW n \in Names
          PROVE  sessions'[n] = IF foundHost[c] = n THEN sessions[n] - 1 ELSE sessions[n]
      BY <1>2, <1>4
    <2>2. ASSUME NEW n \in Names
          PROVE  /\ sessions'[n] \in Nat /\ Cardinality(Users(n)') <= sessions'[n]
                 /\ ~leaked' => sessions'[n] = Cardinality(Users(n)')
      <3>1. sessions[n] \in Nat
        BY <1>2
      <3> QED
        BY <1>1, <1>3, <1>4, <2>1, <3>1
    <2>3. sessions' \in [Names -> Nat]
      BY <1>2, <1>4, <2>2
    <2> QED
      BY <1>2, <1>4, <2>2, <2>3 DEF SessionInv
  <1>5. CASE UNCHANGED sessions /\ leaked' = TRUE
    <2>1. ASSUME NEW n \in Names
          PROVE  Cardinality(Users(n)') <= sessions'[n]
      <3>1. sessions[n] \in Nat
        BY <1>2
      <3> QED
        BY <1>1, <1>3, <1>5, <3>1
    <2> QED
      BY <1>2, <1>5, <2>1 DEF SessionInv
  <1> QED
    BY <1>4, <1>5

\* A request that was no user and becomes none leaves the sessions as they are.
LEMMA SessionsStay ==
  ASSUME IndInv, NEW c \in Connections, pc[c] \notin {"called", "delivering"},
         \A n : Users(n)' = Users(n) \ {c}, UNCHANGED sessionVars
  PROVE  SessionInv'
  <1>1. \A n : Users(n)' = Users(n)
    BY DEF Users
  <1> QED
    BY <1>1 DEF IndInv, SessionInv, sessionVars

\* Whatever fails, the request goes to the error page, with nothing in hand.
LEMMA CatchExceptionInv ==
  ASSUME IndInv, NEW c \in Connections, NEW step \in {"finding", "calling", "called", "delivering"},
         CatchException(c, step),
         sessions' \in [Names -> Nat], leaked' \in BOOLEAN
  PROVE  /\ TypeOK' /\ ModeInv' /\ EndpointsInv' /\ RequestInv'
         /\ \A n : Users(n)' = Users(n) \ {c}
  <1>1. host[c] \in Hosts /\ host' = [host EXCEPT ![c] = host[c]]
    BY NullAssumption DEF IndInv, TypeOK, RequestInv, CatchException, Goto
  <1>2. TypeOK' /\ ModeInv' /\ EndpointsInv' /\ RequestInv'
    <2>1. host[c] # Null
      BY <1>1, NullAssumption
    <2> QED
      BY <1>1, <2>1, RequestMoves DEF CatchException, Goto
  <1>3. \A n : Users(n)' = Users(n) \ {c}
    BY UsersLeave DEF CatchException, Goto, IndInv
  <1> QED
    BY <1>2, <1>3

\* Disconnect: nothing is left of the request.
LEMMA FinishInv ==
  ASSUME IndInv, NEW c \in Connections, NEW step \in {"delivering", "failed"},
         Finish(c, step), sessions' \in [Names -> Nat]
  PROVE  /\ TypeOK' /\ ModeInv' /\ EndpointsInv' /\ RequestInv'
         /\ \A n : Users(n)' = Users(n) \ {c}
  <1>1. leaked' \in BOOLEAN
    BY DEF Finish, IndInv, TypeOK
  <1>2. TypeOK' /\ ModeInv' /\ EndpointsInv' /\ RequestInv'
    BY <1>1, RequestMoves DEF Finish, Goto
  <1>3. \A n : Users(n)' = Users(n) \ {c}
    BY UsersLeave DEF Finish, Goto, IndInv
  <1> QED
    BY <1>2, <1>3

\* The steps of a request, one by one.
LEMMA RequestStepInv ==
  ASSUME IndInv, NEW c \in Connections, RequestStep(c)
  PROVE  IndInv'
  <1> USE DEF IndInv
  <1>0. /\ sessions \in [Names -> Nat] /\ leaked \in BOOLEAN
        /\ pc[c] # "idle" => host[c] \in Hosts /\ host[c] # Null
        /\ host \in [Connections -> Hosts \cup {Null}]
        /\ foundId \in [Connections -> Ids \cup {Null}]
        /\ foundHost \in [Connections -> Names \cup {Null}]
        /\ answer \in [Connections -> Sites \cup {Null, Error}]
    BY DEF TypeOK, RequestInv
  <1>1. ASSUME NEW i \in Ids, CreateWebsiteEndpoint(c, i)
        PROVE  IndInv'
    <2>1. /\ rows[i].host \in Contains[host[c]] /\ rows[i].host \in factoryCache
          /\ host[c] \in Hosts /\ host[c] # Null /\ answer[c] = Null
      BY <1>0, <1>1 DEF CreateWebsiteEndpoint, GetByHost, Goto, RequestInv
    <2>2. rows[i].host \in Names
      BY <2>1 DEF TypeOK
    <2>3. host' = [host EXCEPT ![c] = host[c]] /\ answer' = [answer EXCEPT ![c] = Null]
      BY <1>0, <1>1, <2>1 DEF CreateWebsiteEndpoint
    <2>4. TypeOK' /\ ModeInv' /\ EndpointsInv' /\ RequestInv'
      <3>1. /\ mode = "serving" /\ UNCHANGED <<rows, processVars>>
            /\ pc' = [pc EXCEPT ![c] = "calling"]
            /\ foundId' = [foundId EXCEPT ![c] = i]
            /\ foundHost' = [foundHost EXCEPT ![c] = rows[i].host]
            /\ sessions' \in [Names -> Nat] /\ leaked' \in BOOLEAN
        BY <1>0, <1>1 DEF CreateWebsiteEndpoint, Goto, sessionVars
      <3>2. /\ host[c] \in Hosts \cup {Null} /\ i \in Ids \cup {Null}
            /\ rows[i].host \in Names \cup {Null} /\ Null \in Sites \cup {Null, Error}
            /\ rows[i].host \in Contains[host[c]] \cap factoryCache
        BY <2>1, <2>2
      <3> HIDE DEF IndInv
      <3> QED
        BY <2>1, <2>3, <3>1, <3>2, RequestMoves
    <2>5. \A n : Users(n)' = Users(n) \ {c}
      BY <1>1, UsersLeave DEF CreateWebsiteEndpoint, Goto
    <2> QED
      BY <1>1, <2>4, <2>5, SessionsStay DEF CreateWebsiteEndpoint, Goto
  <1>2. ASSUME NEW i \in Ids, FactoryNotFound(c, i)
        PROVE  IndInv'
    BY <1>0, <1>2, CatchExceptionInv, SessionsStay DEF FactoryNotFound, CatchException, Goto,
       sessionVars
  <1>3. CASE WebsiteNotFound(c)
    BY <1>0, <1>3, CatchExceptionInv, SessionsStay DEF WebsiteNotFound, CatchException, Goto,
       sessionVars
  <1>4. CASE OpenChannel(c)
    <2>1. foundHost[c] \in Names /\ foundId[c] \in Ids /\ host[c] \in Hosts
          /\ foundHost[c] \in Contains[host[c]] \cap factoryCache /\ answer[c] = Null
      BY <1>0, <1>4, ContainsAssumption DEF OpenChannel, Goto, RequestInv, TypeOK
    <2>2. sessions' \in [Names -> Nat] /\ leaked' \in BOOLEAN
      BY <1>0, <1>4, <2>1 DEF OpenChannel
    <2>3. /\ host' = [host EXCEPT ![c] = host[c]] /\ answer' = [answer EXCEPT ![c] = Null]
          /\ foundId' = [foundId EXCEPT ![c] = foundId[c]]
          /\ foundHost' = [foundHost EXCEPT ![c] = foundHost[c]]
      BY <1>0, <1>4, <2>1 DEF OpenChannel
    <2>4. TypeOK' /\ ModeInv' /\ EndpointsInv' /\ RequestInv'
      <3>1. /\ mode = "serving" /\ UNCHANGED <<rows, processVars>>
            /\ pc' = [pc EXCEPT ![c] = "called"]
        BY <1>4 DEF OpenChannel, Goto
      <3>2. /\ host[c] \in Hosts \cup {Null} /\ foundId[c] \in Ids \cup {Null}
            /\ foundHost[c] \in Names \cup {Null} /\ Null \in Sites \cup {Null, Error}
            /\ host[c] # Null
        BY <2>1, NullAssumption
      <3> HIDE DEF IndInv
      <3> QED
        BY <2>1, <2>2, <2>3, <3>1, <3>2, RequestMoves
    <2>5. ASSUME NEW n \in Names
          PROVE  /\ Cardinality(Users(n)') <= sessions'[n]
                 /\ ~leaked' => sessions'[n] = Cardinality(Users(n)')
      <3>1. /\ c \notin Users(n)
            /\ Users(n)' = IF foundHost[c] = n THEN Users(n) \cup {c} ELSE Users(n)
        BY <1>4, UsersJoin DEF OpenChannel, Goto
      <3>2. Cardinality(Users(n)') = IF foundHost[c] = n THEN Cardinality(Users(n)) + 1
                                                        ELSE Cardinality(Users(n))
        BY <3>1, UsersFinite, FS_AddElement
      <3>3. sessions'[n] = IF foundHost[c] = n THEN sessions[n] + 1 ELSE sessions[n]
        BY <1>0, <1>4, <2>1 DEF OpenChannel
      <3>4. /\ Cardinality(Users(n)) \in Nat /\ sessions[n] \in Nat
            /\ Cardinality(Users(n)) <= sessions[n]
            /\ ~leaked => sessions[n] = Cardinality(Users(n))
        BY <1>0, UsersFinite DEF SessionInv
      <3>5. leaked' = leaked
        BY <1>4 DEF OpenChannel
      <3> QED
        BY <3>2, <3>3, <3>4, <3>5
    <2> QED
      BY <2>4, <2>5 DEF SessionInv
  <1>5. CASE OpenChannelTimesOut(c)
    BY <1>0, <1>5, CatchExceptionInv, SessionsStay
       DEF OpenChannelTimesOut, CatchException, Goto, sessionVars
  <1>6. CASE ParseRequestReturns(c)
    <2>1. foundHost[c] \in Names /\ foundId[c] \in Ids /\ host[c] \in Hosts
          /\ foundHost[c] \in Contains[host[c]] \cap factoryCache
      BY <1>0, <1>6, ContainsAssumption DEF ParseRequestReturns, Goto, RequestInv, TypeOK
    <2>2. /\ host' = [host EXCEPT ![c] = host[c]]
          /\ foundId' = [foundId EXCEPT ![c] = foundId[c]]
          /\ foundHost' = [foundHost EXCEPT ![c] = foundHost[c]]
          /\ endpoints[foundHost[c]] \in Sites \cup {Null, Error} /\ host[c] # Null
      BY <1>0, <1>6, <2>1, NullAssumption DEF ParseRequestReturns, TypeOK
    <2>3. TypeOK' /\ ModeInv' /\ EndpointsInv' /\ RequestInv'
      <3>1. /\ mode = "serving" /\ UNCHANGED <<rows, processVars>>
            /\ pc' = [pc EXCEPT ![c] = "delivering"]
            /\ answer' = [answer EXCEPT ![c] = endpoints[foundHost[c]]]
            /\ sessions' \in [Names -> Nat] /\ leaked' \in BOOLEAN
        BY <1>0, <1>6 DEF ParseRequestReturns, Goto, sessionVars
      <3>2. /\ host[c] \in Hosts \cup {Null} /\ foundId[c] \in Ids \cup {Null}
            /\ foundHost[c] \in Names \cup {Null}
        BY <2>1
      <3> HIDE DEF IndInv
      <3> QED
        BY <2>1, <2>2, <3>1, <3>2, RequestMoves
    <2>4. \A n : Users(n)' = Users(n)
      BY <1>6 DEF ParseRequestReturns, Goto, Users, TypeOK
    <2> QED
      BY <1>6, <2>3, <2>4 DEF ParseRequestReturns, SessionInv, sessionVars
  <1>7. CASE ParseRequestThrows(c)
    <2>1. /\ pc[c] = "called" /\ foundHost[c] \in Names
          /\ \A n : Users(n)' = Users(n) \ {c}
      BY <1>7, ContainsAssumption, UsersLeave
         DEF ParseRequestThrows, CatchException, Goto, RequestInv, TypeOK
    <2>2. SessionInv' /\ sessions' \in [Names -> Nat] /\ leaked' \in BOOLEAN
      BY <1>7, <2>1, SessionsLeave DEF ParseRequestThrows
    <2> QED
      BY <1>7, <2>2, CatchExceptionInv DEF ParseRequestThrows
  <1>8. CASE SendResponse(c)
    <2>1. /\ pc[c] = "delivering" /\ foundHost[c] \in Names
          /\ \A n : Users(n)' = Users(n) \ {c}
      BY <1>8, ContainsAssumption, UsersLeave
         DEF SendResponse, Finish, Goto, RequestInv, TypeOK
    <2>2. SessionInv' /\ sessions' \in [Names -> Nat]
      BY <1>8, <2>1, SessionsLeave DEF SendResponse, Finish
    <2> QED
      BY <1>8, <2>2, FinishInv DEF SendResponse
  <1>9. CASE SendResponseThrows(c)
    <2>1. /\ pc[c] = "delivering" /\ foundHost[c] \in Names
          /\ \A n : Users(n)' = Users(n) \ {c}
      BY <1>9, ContainsAssumption, UsersLeave
         DEF SendResponseThrows, CatchException, Goto, RequestInv, TypeOK
    <2>2. SessionInv' /\ sessions' \in [Names -> Nat] /\ leaked' \in BOOLEAN
      BY <1>9, <2>1, SessionsLeave DEF SendResponseThrows
    <2> QED
      BY <1>9, <2>2, CatchExceptionInv DEF SendResponseThrows
  <1>10. CASE SendErrorPage(c)
    BY <1>0, <1>10, FinishInv, SessionsStay DEF SendErrorPage, Finish, Goto, sessionVars
  <1> QED
    BY <1>1, <1>2, <1>3, <1>4, <1>5, <1>6, <1>7, <1>8, <1>9, <1>10 DEF RequestStep

\* A new request.
LEMMA RequestArrivesInv ==
  ASSUME IndInv, NEW c \in Connections, NEW h \in Hosts, Request(c, h)
  PROVE  IndInv'
  <1>1. /\ foundId \in [Connections -> Ids \cup {Null}]
        /\ foundHost \in [Connections -> Names \cup {Null}]
        /\ answer \in [Connections -> Sites \cup {Null, Error}]
        /\ pc[c] = "idle" /\ answer[c] = Null
        /\ h # Null
    BY NullAssumption DEF IndInv, TypeOK, RequestInv, Request, Goto
  <1>2. /\ mode = "serving" /\ UNCHANGED <<rows, processVars, sessionVars>>
        /\ pc' = [pc EXCEPT ![c] = "finding"]
        /\ host' = [host EXCEPT ![c] = h]
        /\ foundId' = [foundId EXCEPT ![c] = foundId[c]]
        /\ foundHost' = [foundHost EXCEPT ![c] = foundHost[c]]
        /\ answer' = [answer EXCEPT ![c] = Null]
    BY <1>1 DEF Request, Goto
  <1>3. sessions' \in [Names -> Nat] /\ leaked' \in BOOLEAN
    BY <1>2 DEF IndInv, TypeOK, sessionVars
  <1>4. TypeOK' /\ ModeInv' /\ EndpointsInv' /\ RequestInv'
    <2>1. foundId[c] \in Ids \cup {Null} /\ foundHost[c] \in Names \cup {Null}
      BY <1>1
    <2> QED
      BY <1>1, <1>2, <1>3, <2>1, RequestMoves
  <1>5. \A n : Users(n)' = Users(n) \ {c}
    BY <1>2, UsersLeave DEF IndInv
  <1> QED
    BY <1>1, <1>2, <1>4, <1>5, SessionsStay DEF IndInv

\* An endpoint closes sessions that no request uses.
LEMMA SessionIdlesInv ==
  ASSUME IndInv, NEW n \in Names, SessionIdles(n)
  PROVE  IndInv'
  <1>1. \A m : Users(m)' = Users(m)
    BY DEF SessionIdles, requestVars, Users
  <1>2. /\ sessions \in [Names -> Nat] /\ Cardinality(Users(n)) \in Nat
        /\ sessions[n] > Cardinality(Users(n)) /\ UNCHANGED leaked
        /\ sessions' = [sessions EXCEPT ![n] = sessions[n] - 1]
    BY UsersFinite DEF IndInv, TypeOK, SessionIdles, Idle
  <1>3. sessions' \in [Names -> Nat]
    BY <1>2
  <1>4. TypeOK'
    BY <1>3 DEF IndInv, TypeOK, SessionIdles, processVars, requestVars
  <1>5. ModeInv' /\ EndpointsInv' /\ RequestInv'
    BY DEF IndInv, ModeInv, EndpointsInv, RequestInv, SessionIdles, processVars, requestVars,
       Busy, BootTable, BootSite
  <1>6. leaked
    BY <1>2 DEF IndInv, SessionInv
  <1>7. ASSUME NEW m \in Names
        PROVE  Cardinality(Users(m)') <= sessions'[m]
    <2>1. Cardinality(Users(m)) \in Nat /\ Cardinality(Users(m)) <= sessions[m]
      BY UsersFinite DEF IndInv, SessionInv
    <2> QED
      BY <1>1, <1>2, <2>1
  <1> QED
    BY <1>2, <1>4, <1>5, <1>6, <1>7 DEF IndInv, SessionInv

LEMMA NextIndInv == IndInv /\ [Next]_vars => IndInv'
  <1> SUFFICES ASSUME IndInv, [Next]_vars PROVE IndInv'
    OBVIOUS
  <1>1. CASE UNCHANGED vars
    <2>1. TypeOK' /\ ModeInv' /\ EndpointsInv' /\ RequestInv'
      BY <1>1 DEF vars, IndInv, TypeOK, ModeInv, EndpointsInv, RequestInv, processVars,
         requestVars, sessionVars, Busy, BootTable, BootSite
    <2> QED
      BY <1>1, <2>1, SessionsKept DEF vars, IndInv, requestVars, sessionVars
  <1> QED
    BY <1>1, ProcessStepInv, TableStepInv, RequestStepInv, RequestArrivesInv, SessionIdlesInv
       DEF Next

\* The invariant of a process and its table (all of WebsiteRouting.tla).
THEOREM RoutingIndInv == Spec => []IndInv
  BY InitIndInv, NextIndInv, PTL DEF Spec
-----------------------------------------------------------------------------
\* A row that kept its name is served by the site that was started for it
\* (HttpStreamRouter.CreateWebsiteEndpoint).
THEOREM RoutingOwnSite == Spec => OwnSiteUnlessRenamed
  <1>1. ASSUME IndInv, NEW c \in Connections, NEW i \in BootTable,
               CreateWebsiteEndpoint(c, i), rows[i].host = bootRows[i].host
        PROVE  endpoints[foundHost'[c]] = BootSite(i)
    <2>1. mode = "serving" /\ foundHost'[c] = bootRows[i].host
      BY <1>1 DEF CreateWebsiteEndpoint, Goto, IndInv, TypeOK
    <2> QED
      BY <1>1, <2>1 DEF IndInv, EndpointsInv
  <1>2. IndInv => [\A c \in Connections, i \in BootTable :
                     CreateWebsiteEndpoint(c, i) /\ rows[i].host = bootRows[i].host
                       => endpoints[foundHost'[c]] = BootSite(i)]_vars
    BY <1>1
  <1> QED
    BY <1>2, RoutingIndInv, PTL DEF OwnSiteUnlessRenamed

\* The cache refuses only rows that were added or renamed since the start.
THEOREM RoutingRefusedOnlyIfNewer == Spec => RefusedOnlyIfNewer
  <1>1. ASSUME IndInv, NEW c \in Connections, NEW i \in Ids, FactoryNotFound(c, i)
        PROVE  i \notin BootTable \/ bootRows[i].host # rows[i].host
    BY <1>1 DEF FactoryNotFound, CatchException, Goto, IndInv, EndpointsInv
  <1>2. IndInv => [\A c \in Connections, i \in Ids : FactoryNotFound(c, i) =>
                     i \notin BootTable \/ bootRows[i].host # rows[i].host]_vars
    BY <1>1
  <1> QED
    BY <1>2, RoutingIndInv, PTL DEF RefusedOnlyIfNewer

\* A process serves exactly the tables with distinct names and usable paths
\* (WebsiteEndpointServer.Start).
THEOREM RoutingServesIffValid == Spec => ServesIffValid
  <1>1. ASSUME IndInv, Next, mode = "starting", mode' = "serving"
        PROVE  ValidBoot
    <2>1. HttpStreamRouter
      BY <1>1 DEF Next, ProcessStep, Main, StartWebsiteEndpoint, StartWebsiteEndpointThrows, Exit,
         End, TableStep, AddOrUpdate, Remove, SessionIdles, Request, RequestStep,
         CreateWebsiteEndpoint, WebsiteNotFound, FactoryNotFound, OpenChannel,
         OpenChannelTimesOut, ParseRequestReturns, ParseRequestThrows, SendResponse,
         SendResponseThrows, SendErrorPage, CatchException, Finish, Goto
    <2>2. ASSUME NEW i \in BootTable
          PROVE  /\ endpoints[bootRows[i].host] = BootSite(i)
                 /\ bootRows[i].path \notin Malformed
      <3>1. PICK n \in Names : endpoints[n] # Null /\ endpoints[n].id = i
        BY <1>1, <2>1, <2>2 DEF HttpStreamRouter, Started, Table, BootTable, IndInv, ModeInv
      <3>2. PICK j \in BootTable : /\ bootRows[j].host = n
                                   /\ bootRows[j].path \notin Malformed
                                   /\ endpoints[n] = BootSite(j)
        BY <1>1, <3>1 DEF IndInv, EndpointsInv
      <3>3. j = i
        BY <3>1, <3>2 DEF BootSite
      <3> QED
        BY <3>2, <3>3
    <2>3. ASSUME NEW i \in BootTable, NEW j \in BootTable, bootRows[i].host = bootRows[j].host
          PROVE  i = j
      <3>1. BootSite(i) = BootSite(j)
        BY <2>2, <2>3
      <3> QED
        BY <3>1 DEF BootSite
    <2> QED
      BY <2>2, <2>3 DEF ValidBoot
  <1>2. ASSUME IndInv, Next, mode = "starting", mode' = "down"
        PROVE  ~ValidBoot
    <2>1. PICK i \in Ids : StartWebsiteEndpointThrows(i)
      BY <1>2 DEF Next, ProcessStep, Main, StartWebsiteEndpoint, HttpStreamRouter, Exit,
         End, TableStep, AddOrUpdate, Remove, SessionIdles, Request, RequestStep,
         CreateWebsiteEndpoint, WebsiteNotFound, FactoryNotFound, OpenChannel,
         OpenChannelTimesOut, ParseRequestReturns, ParseRequestThrows, SendResponse,
         SendResponseThrows, SendErrorPage, CatchException, Finish, Goto
    <2>2. i \in BootTable /\ rows = bootRows /\ i \notin Started
      BY <1>2, <2>1 DEF StartWebsiteEndpointThrows, Table, BootTable, IndInv, ModeInv
    <2>3. CASE rows[i].path \in Malformed
      BY <2>2, <2>3 DEF ValidBoot
    <2>4. CASE endpoints[rows[i].host] # Null
      <3>1. bootRows[i].host \in Names
        BY <1>2, <2>2, BootSiteIsSite DEF IndInv
      <3>2. PICK j \in BootTable : /\ bootRows[j].host = bootRows[i].host
                                   /\ endpoints[bootRows[i].host] = BootSite(j)
        BY <1>2, <2>2, <2>4, <3>1 DEF IndInv, EndpointsInv
      <3>3. j \in Started /\ j \in Ids
        BY <2>2, <2>4, <3>1, <3>2 DEF Started, BootSite, BootTable
      <3> QED
        BY <2>2, <3>2, <3>3 DEF ValidBoot
    <2> QED
      BY <2>1, <2>3, <2>4 DEF StartWebsiteEndpointThrows
  <1>3. IndInv /\ [Next]_vars =>
          [mode = "starting" => /\ mode' = "serving" => ValidBoot
                                /\ mode' = "down" => ~ValidBoot]_vars
    BY <1>1, <1>2
  <1> QED
    BY <1>3, RoutingIndInv, PTL DEF ServesIffValid, Spec

\* ParseRequest finds no session only when as many requests as there are sessions are
\* being answered there, unless a delivery has failed, whatever the numbers of requests
\* and sessions.
THEOREM RoutingRefusedOnlyAfterLeaks == Spec => RefusedOnlyAfterLeaks
  <1>1. ASSUME IndInv, NEW c \in Connections, OpenChannelTimesOut(c), ~leaked
        PROVE  Cardinality(Users(foundHost[c])) = MaxSessions
    <2>1. foundHost[c] \in Names /\ sessions[foundHost[c]] = MaxSessions
      BY <1>1, ContainsAssumption
         DEF OpenChannelTimesOut, CatchException, Goto, IndInv, TypeOK, RequestInv
    <2> QED
      BY <1>1, <2>1 DEF IndInv, SessionInv
  <1>2. IndInv => [\A c \in Connections :
                     OpenChannelTimesOut(c) =>
                       leaked \/ Cardinality(Users(foundHost[c])) = MaxSessions]_vars
    BY <1>1
  <1> QED
    BY <1>2, RoutingIndInv, PTL DEF RefusedOnlyAfterLeaks
-----------------------------------------------------------------------------
(* The refinement of HostRouting.tla                                         *)

\* What the map of states makes of a state.
LEMMA MappedRequest ==
  ASSUME IndInv, NEW c \in Connections
  PROVE  /\ pc[c] = "idle" <=> host[c] = Null
         /\ pc[c] \in {"finding", "calling", "called"} => answer[c] = Null
         /\ pc[c] \in {"delivering", "failed"} => answer[c] # Null
  <1>1. ASSUME pc[c] = "delivering"
        PROVE  answer[c] # Null
    <2>1. foundHost[c] \in factoryCache /\ mode = "serving"
      BY <1>1 DEF IndInv, RequestInv, ModeInv, Busy, TypeOK
    <2>2. PICK i \in BootTable : foundHost[c] = bootRows[i].host
      BY <2>1 DEF IndInv, EndpointsInv
    <2> QED
      BY <1>1, <2>1, <2>2, BootSiteIsSite DEF IndInv, EndpointsInv, RequestInv
  <1> QED
    BY <1>1, NullAssumption DEF IndInv, RequestInv, TypeOK

\* What HostRouting sees as the sites, primed or not, is what this process serves.
LEMMA ProcessStepRefines ==
  ASSUME IndInv, ProcessStep
  PROVE  [Routing!Next]_(Routing!vars)
  <1>1. CASE Exit
    BY <1>1 DEF Exit, End, Routing!Next, Routing!Exit, Routing!NoSites, Routing!Nothing,
       NoEndpoints, Nothing
  <1>2. CASE HttpStreamRouter
    <2>1. host = Nothing /\ mode = "starting" /\ mode' = "serving"
          /\ endpoints \in [Names -> Sites \cup {Null}]
      BY <1>2 DEF HttpStreamRouter, IndInv, TypeOK, ModeInv, RequestInv, Busy, Nothing
    <2> QED
      BY <1>2, <2>1 DEF HttpStreamRouter, requestVars, Routing!Next, Routing!Start, Routing!NoSites,
         Routing!Nothing, NoEndpoints, Nothing
  <1>3. CASE Main \/ \E i \in Ids : StartWebsiteEndpoint(i) \/ StartWebsiteEndpointThrows(i)
    <2>1. /\ mode # "serving" /\ mode' # "serving"
          /\ \/ UNCHANGED <<host, answer>>
             \/ host' = Nothing /\ answer' = Nothing
      BY <1>3 DEF Main, StartWebsiteEndpoint, StartWebsiteEndpointThrows, End, requestVars
    <2>2. host = Nothing /\ answer = Nothing
      BY <2>1 DEF IndInv, TypeOK, ModeInv, RequestInv, Busy, Nothing
    <2> QED
      BY <2>1, <2>2 DEF Routing!vars
  <1> QED
    BY <1>1, <1>2, <1>3 DEF ProcessStep

\* The steps of a request that a client cannot see are stutters; the others are
\* an answer, a failure or the end of the request.
LEMMA RequestStepRefines ==
  ASSUME IndInv, NEW c \in Connections, RequestStep(c)
  PROVE  [Routing!Next]_(Routing!vars)
  <1>1. CASE \/ \E i \in Ids : CreateWebsiteEndpoint(c, i)
             \/ OpenChannel(c)
    <2>1. UNCHANGED <<processVars, host, answer>>
      BY <1>1 DEF CreateWebsiteEndpoint, OpenChannel
    <2> QED
      BY <2>1 DEF Routing!vars, processVars
  <1>2. ASSUME NEW step \in {"finding", "calling", "called", "delivering"},
               CatchException(c, step)
        PROVE  Routing!Fail(c)
    <2>1. host[c] # Null
      BY <1>2, MappedRequest DEF CatchException, Goto
    <2> QED
      BY <1>2, <2>1 DEF CatchException, Routing!Fail, processVars
  <1>3. CASE ParseRequestReturns(c)
    <2>1. /\ mode = "serving" /\ host[c] # Null /\ answer[c] = Null
          /\ foundHost[c] \in Contains[host[c]] /\ foundHost[c] \in factoryCache
      BY <1>3, MappedRequest DEF ParseRequestReturns, Goto, IndInv, RequestInv
    <2>2. endpoints[foundHost[c]] # Null
      <3>1. PICK i \in BootTable : foundHost[c] = bootRows[i].host
        BY <2>1 DEF IndInv, EndpointsInv
      <3> QED
        BY <2>1, <3>1, BootSiteIsSite DEF IndInv, EndpointsInv
    <2>3. Routing!Answer(c)
      BY <1>3, <2>1, <2>2 DEF ParseRequestReturns, Routing!Answer, processVars
    <2> QED
      BY <2>3 DEF Routing!Next
  <1>4. ASSUME NEW step \in {"delivering", "failed"}, Finish(c, step)
        PROVE  Routing!Leave(c)
    <2>1. answer[c] # Null
      BY <1>4, MappedRequest DEF Finish, Goto
    <2> QED
      BY <1>4, <2>1 DEF Finish, Routing!Leave, processVars
  <1> QED
    BY <1>1, <1>2, <1>3, <1>4
       DEF RequestStep, FactoryNotFound, WebsiteNotFound, OpenChannelTimesOut, ParseRequestThrows,
           SendResponse, SendResponseThrows, SendErrorPage, Routing!Next

\* Hosts are answered as HostRouting promises, for any names, rows and requests
\* (FindWebsiteAndSendRequestToEndpoint over the endpoints of this process).
THEOREM RoutingImplementsHostRouting == Spec => ImplementsHostRouting
  <1>1. Init => Routing!Init
    BY DEF Init, Routing!Init, Routing!NoSites, Routing!Nothing, NoEndpoints, Nothing
  <1>2. IndInv /\ [Next]_vars => [Routing!Next]_(Routing!vars)
    <2> SUFFICES ASSUME IndInv, [Next]_vars PROVE [Routing!Next]_(Routing!vars)
      OBVIOUS
    <2>1. ASSUME NEW c \in Connections, NEW h \in Hosts, Request(c, h)
          PROVE  Routing!Ask(c, h)
      <3>1. host[c] = Null
        BY <2>1, MappedRequest DEF Request, Goto
      <3> QED
        BY <2>1, <3>1 DEF Request, Routing!Ask, processVars
    <2>2. CASE \/ \E i \in Ids : TableStep(i)
               \/ \E n \in Names : SessionIdles(n)
               \/ UNCHANGED vars
      <3>1. UNCHANGED <<processVars, host, answer>>
        BY <2>2 DEF TableStep, AddOrUpdate, Remove, SessionIdles, requestVars, vars
      <3> QED
        BY <3>1 DEF Routing!vars, processVars
    <2> QED
      BY <2>1, <2>2, ProcessStepRefines, RequestStepRefines DEF Next, Routing!Next
  <1> QED
    BY <1>1, <1>2, RoutingIndInv, PTL DEF Spec, ImplementsHostRouting, Routing!Spec

\* What HostRouting promises, of HostRouting itself.
LEMMA PromiseInvStep ==
  Routing!PromiseInv /\ [Routing!Next]_(Routing!vars) => Routing!PromiseInv'
  <1> SUFFICES ASSUME Routing!PromiseInv, [Routing!Next]_(Routing!vars)
               PROVE  Routing!PromiseInv'
    OBVIOUS
  <1> USE DEF Routing!PromiseInv, Routing!TypeOK, Routing!AnsweredByNamed,
              Routing!AnsweredOnlyIfAsked
  <1>1. CASE Routing!Start
    <2>1. \A c \in Connections : answer[c] = Null /\ answer' = answer
      BY <1>1 DEF Routing!Start, Routing!Nothing
    <2> QED
      BY <1>1, <2>1 DEF Routing!Start
  <1>2. CASE Routing!Exit
    BY <1>2 DEF Routing!Exit, Routing!NoSites, Routing!Nothing
  <1>3. ASSUME NEW c \in Connections, NEW h \in Hosts, Routing!Ask(c, h)
        PROVE  Routing!PromiseInv'
    BY <1>3 DEF Routing!Ask
  <1>4. ASSUME NEW c \in Connections, Routing!Answer(c) PROVE Routing!PromiseInv'
    <2> DEFINE S == IF mode = "serving" THEN endpoints ELSE NoEndpoints
    <2>1. host[c] \in Hosts /\ UNCHANGED <<S, host>>
      BY <1>4 DEF Routing!Answer
    <2>2. PICK n \in Contains[host[c]] :
            S[n] # Null /\ answer' = [answer EXCEPT ![c] = S[n]]
      BY <1>4 DEF Routing!Answer
    <2>3. n \in Names
      BY <2>1, <2>2, ContainsAssumption
    <2>4. S \in [Names -> Sites \cup {Null}]
      OBVIOUS
    <2> HIDE DEF S
    <2>5. S[n] \in Sites
      BY <2>2, <2>3, <2>4
    <2>6. /\ answer'[c] = S[n]
          /\ \A d \in Connections \ {c} : answer'[d] = answer[d]
      BY <2>2
    <2>7. Routing!TypeOK'
      BY <2>1, <2>2, <2>4, <2>5 DEF S
    <2>8. Routing!AnsweredByNamed'
      BY <2>1, <2>2, <2>6 DEF S
    <2>9. Routing!AnsweredOnlyIfAsked'
      BY <1>4, <2>1, <2>6 DEF Routing!Answer
    <2> QED
      BY <2>7, <2>8, <2>9
  <1>5. ASSUME NEW c \in Connections, Routing!Fail(c) PROVE Routing!PromiseInv'
    BY <1>5 DEF Routing!Fail
  <1>6. ASSUME NEW c \in Connections, Routing!Leave(c) PROVE Routing!PromiseInv'
    BY <1>6 DEF Routing!Leave
  <1>7. CASE UNCHANGED Routing!vars
    BY <1>7 DEF Routing!vars
  <1> QED
    BY <1>1, <1>2, <1>3, <1>4, <1>5, <1>6, <1>7 DEF Routing!Next

\* HttpStreamRouter.CreateWebsiteEndpoint, over all restarts and whatever is written to
\* the table: the response a client gets comes from a site that was started, by this
\* process, under a name that occurs in the Host header of the request.
THEOREM RoutingAnsweredByNamed == Spec => []Routing!AnsweredByNamed
  <1>1. Routing!Init => Routing!PromiseInv
    BY DEF Routing!Init, Routing!NoSites, Routing!Nothing, Routing!PromiseInv,
           Routing!TypeOK, Routing!AnsweredByNamed, Routing!AnsweredOnlyIfAsked
  <1>2. Routing!PromiseInv => Routing!AnsweredByNamed
    BY DEF Routing!PromiseInv
  <1> QED
    BY <1>1, <1>2, PromiseInvStep, RoutingImplementsHostRouting, PTL
    DEF ImplementsHostRouting, Routing!Spec
=============================================================================
