---------------------------- MODULE WebsiteRouting ----------------------------
(***************************************************************************)
(* From the table of websites to the site that answers a request: the      *)
(* repository (Oswos.Repository/WebsiteRepository.cs) and the form of the  *)
(* settings site that writes it, the endpoints a process starts            *)
(* (WebsiteEndpoint/*.cs), the router's cache of channel factories         *)
(* (Http/HttpStreamRouter.cs), and the look-up, call and delivery of each  *)
(* request (Http/HttpStreamRouteObject.cs).                                *)
(*                                                                         *)
(* Endpoints and cache are made when the process starts (Main of           *)
(* Oswos.Console/Program.cs); the table is read again for every request    *)
(* and written at any time.  The process may end and be started again; the *)
(* table stays.                                                            *)
(*                                                                         *)
(* Host headers and names are abstracted to which names a header contains. *)
(* A website is its host name and its path; its display name is left out.  *)
(* Connections are slots; one request each (SocketConnection.tla).         *)
(***************************************************************************)
EXTENDS Naturals, FiniteSets

CONSTANTS
  Connections,
  Ids,          \* of rows of the table
  Names,        \* host names of websites
  Hosts,        \* Host headers of requests; an absent one counts as empty
  Contains,     \* Contains[h]: the names that occur in header h
  Paths,
  Malformed,    \* paths that no application domain can be made for
  MaxSessions,  \* the sessions an endpoint accepts at a time (WCF)
  Null, Error

ASSUME ContainsAssumption == Contains \in [Hosts -> SUBSET Names]
ASSUME LimitAssumption == MaxSessions \in Nat \ {0}
ASSUME FiniteAssumption == IsFiniteSet(Connections)

Rows == [host : Names, path : Paths]
Sites == [id : Ids, path : Paths]     \* what an endpoint serves
ASSUME NullAssumption ==
  /\ Null \notin Rows \cup Sites \cup Ids \cup Names \cup Hosts
  /\ Error \notin Sites \cup {Null}

VARIABLES
  mode,         \* the process: "down", "starting" or "serving"
  rows,         \* rows[i]: the table, Null where there is no row
  bootRows,     \* the table as it was when the process started (history)
  endpoints,    \* endpoints[n]: what is served at net.pipe://localhost/n
  factoryCache, \* the keys of HttpStreamRouter.FactoryCache
  pc,           \* pc[c]: where the request of c is
  host,         \* host[c]: its Host header
  foundId, foundHost, \* the row GetByHost returned for it
  answer,       \* answer[c]: whose response c gets: a site, Error or Null
  sessions,     \* sessions[n]: the sessions open at an endpoint
  leaked        \* a response could not be delivered (history)

processVars == <<mode, bootRows, endpoints, factoryCache>>
requestVars == <<pc, host, foundId, foundHost, answer>>
sessionVars == <<sessions, leaked>>
vars == <<rows, processVars, requestVars, sessionVars>>

Table == {i \in Ids : rows[i] # Null}
Nothing == [c \in Connections |-> Null]
NoEndpoints == [n \in Names |-> Null]

AllIdle == [c \in Connections |-> "idle"]
NoSessions == [n \in Names |-> 0]

Init ==
  /\ mode = "down"
  /\ rows \in [Ids -> Rows \cup {Null}]
  /\ bootRows = [i \in Ids |-> Null]
  /\ endpoints = NoEndpoints
  /\ factoryCache = {}
  /\ pc = AllIdle
  /\ host = Nothing /\ foundId = Nothing /\ foundHost = Nothing
  /\ answer = Nothing
  /\ sessions = NoSessions
  /\ leaked = FALSE
-----------------------------------------------------------------------------
(* The repository                                                            *)

Add(i, r) ==
  /\ rows[i] = Null
  /\ rows' = [rows EXCEPT ![i] = r]

\* The row keeps its path: the code assigns the new path to itself.
Update(i, r) ==
  /\ rows[i] # Null
  /\ rows' = [rows EXCEPT ![i].host = r.host]

\* The form of the settings site, which this process serves.  (An Id that is
\* not in the table makes Single throw, and nothing is saved.)
AddOrUpdate(i, r) ==
  /\ mode = "serving"
  /\ Add(i, r) \/ Update(i, r)
  /\ UNCHANGED <<processVars, requestVars, sessionVars>>

\* No page calls Remove; any code of this process that holds a repository may.
Remove(i) ==
  /\ mode = "serving"
  /\ rows[i] # Null
  /\ rows' = [rows EXCEPT ![i] = Null]
  /\ UNCHANGED <<processVars, requestVars, sessionVars>>
-----------------------------------------------------------------------------
(* Main: the endpoints of all rows, then the router, then the port           *)

Main ==
  /\ mode = "down"
  /\ mode' = "starting"
  /\ bootRows' = rows
  /\ UNCHANGED <<rows, endpoints, factoryCache, requestVars, sessionVars>>

Started == {i \in Ids : \E n \in Names : endpoints[n] # Null /\ endpoints[n].id = i}

\* An application domain for the row and a service host at its name.
StartWebsiteEndpoint(i) ==
  /\ mode = "starting"
  /\ i \in Table \ Started
  /\ rows[i].path \notin Malformed
  /\ endpoints[rows[i].host] = Null
  /\ endpoints' = [endpoints EXCEPT ![rows[i].host] =
                     [id |-> i, path |-> rows[i].path]]
  /\ UNCHANGED <<rows, mode, bootRows, factoryCache, requestVars, sessionVars>>

\* The process ends, and with it its domains, router and connections.
End ==
  /\ mode' = "down"
  /\ bootRows' = [i \in Ids |-> Null]
  /\ endpoints' = NoEndpoints
  /\ factoryCache' = {}
  /\ pc' = AllIdle
  /\ host' = Nothing /\ foundId' = Nothing /\ foundHost' = Nothing
  /\ answer' = Nothing
  /\ sessions' = NoSessions
  /\ leaked' = FALSE
  /\ UNCHANGED rows

\* The path makes Path.Combine throw, or the address is in use: nothing
\* catches it, and Main ends.
StartWebsiteEndpointThrows(i) ==
  /\ mode = "starting"
  /\ i \in Table \ Started
  /\ \/ rows[i].path \in Malformed
     \/ endpoints[rows[i].host] # Null
  /\ End

\* Mutant: the factory of the last row is not made.
HttpStreamRouter_OffByOne ==
  /\ mode = "starting"
  /\ Table \subseteq Started
  /\ \E last \in Ids : factoryCache' = {rows[i].host : i \in Table \ {last}}
  /\ mode' = "serving"
  /\ UNCHANGED <<rows, bootRows, endpoints, requestVars, sessionVars>>

\* Mutant: Main makes the router and opens the port before the endpoints.
HttpStreamRouter_TooEarly ==
  /\ mode = "starting"
  /\ factoryCache' = {rows[i].host : i \in Table}
  /\ mode' = "serving"
  /\ UNCHANGED <<rows, bootRows, endpoints, requestVars, sessionVars>>

\* new HttpStreamRouter(repository): a factory for each name in the table.
\* Then the port is opened.
HttpStreamRouter ==
  /\ mode = "starting"
  /\ Table \subseteq Started
  /\ factoryCache' = {rows[i].host : i \in Table}
  /\ mode' = "serving"
  /\ UNCHANGED <<rows, bootRows, endpoints, requestVars, sessionVars>>

\* The window is closed, or an exception leaves a callback.
Exit == mode = "serving" /\ End
-----------------------------------------------------------------------------
(* FindWebsiteAndSendRequestToEndpoint                                       *)

Goto(c, from, to) ==
  /\ mode = "serving"
  /\ pc[c] = from
  /\ pc' = [pc EXCEPT ![c] = to]

\* The headers of a request are there.
Request(c, h) ==
  /\ Goto(c, "idle", "finding")
  /\ host' = [host EXCEPT ![c] = h]
  /\ UNCHANGED <<rows, processVars, foundId, foundHost, answer, sessionVars>>

\* GetByHost takes a row whose name occurs in the header; the query has no
\* order.
GetByHost(c, i) == i \in Table /\ rows[i].host \in Contains[host[c]]

\* Mutant: the header itself is looked up, by any name it contains.
CreateWebsiteEndpoint_AnyName(c, i) ==
  /\ Goto(c, "finding", "calling")
  /\ GetByHost(c, i)
  /\ foundId' = [foundId EXCEPT ![c] = i]
  /\ \E n \in factoryCache : foundHost' = [foundHost EXCEPT ![c] = n]
  /\ UNCHANGED <<rows, processVars, host, answer, sessionVars>>

\* The name of the row is a key of the cache.
CreateWebsiteEndpoint(c, i) ==
  /\ Goto(c, "finding", "calling")
  /\ GetByHost(c, i)
  /\ rows[i].host \in factoryCache
  /\ foundId' = [foundId EXCEPT ![c] = i]
  /\ foundHost' = [foundHost EXCEPT ![c] = rows[i].host]
  /\ UNCHANGED <<rows, processVars, host, answer, sessionVars>>

\* Whatever fails, the catch blocks send the error page.
CatchException(c, step) ==
  /\ Goto(c, step, "failed")
  /\ answer' = [answer EXCEPT ![c] = Error]
  /\ foundId' = [foundId EXCEPT ![c] = Null]
  /\ foundHost' = [foundHost EXCEPT ![c] = Null]
  /\ UNCHANGED <<rows, processVars, host>>

\* WebsiteNotFoundException.
WebsiteNotFound(c) ==
  /\ CatchException(c, "finding")
  /\ \A i \in Ids : ~GetByHost(c, i)
  /\ UNCHANGED sessionVars

\* KeyNotFoundException: the name of the row is newer than the cache.
FactoryNotFound(c, i) ==
  /\ CatchException(c, "finding")
  /\ GetByHost(c, i)
  /\ rows[i].host \notin factoryCache
  /\ UNCHANGED sessionVars

\* ParseRequest opens the channel, a session at the endpoint, ...
OpenChannel(c) ==
  /\ Goto(c, "calling", "called")
  /\ sessions[foundHost[c]] < MaxSessions
  /\ sessions' = [sessions EXCEPT ![foundHost[c]] = @ + 1]
  /\ UNCHANGED <<rows, processVars, host, foundId, foundHost, answer, leaked>>

\* Mutant: the call waits for a session as long as it takes.
OpenChannelTimesOut_Never(c) == FALSE

\* ... which takes too long when the endpoint has no session to give.
OpenChannelTimesOut(c) ==
  /\ CatchException(c, "calling")
  /\ sessions[foundHost[c]] = MaxSessions
  /\ UNCHANGED sessionVars

ParseRequestReturns(c) ==
  /\ Goto(c, "called", "delivering")
  /\ answer' = [answer EXCEPT ![c] = endpoints[foundHost[c]]]
  /\ UNCHANGED <<rows, processVars, host, foundId, foundHost, sessionVars>>

\* An exception in the service breaks the session.
ParseRequestThrows(c) ==
  /\ CatchException(c, "called")
  /\ sessions' = [sessions EXCEPT ![foundHost[c]] = @ - 1]
  /\ UNCHANGED leaked

\* The end of the handler: Disconnect, and nothing is left of the request.
Finish(c, step) ==
  /\ Goto(c, step, "idle")
  /\ host' = [host EXCEPT ![c] = Null]
  /\ foundId' = [foundId EXCEPT ![c] = Null]
  /\ foundHost' = [foundHost EXCEPT ![c] = Null]
  /\ answer' = [answer EXCEPT ![c] = Null]
  /\ UNCHANGED <<rows, processVars, leaked>>

\* Mutant: the channel of a response that was sent stays open.
SendResponse_KeepsChannel(c) == Finish(c, "delivering") /\ UNCHANGED sessions

\* The response is sent and the channel closed.
SendResponse(c) ==
  /\ Finish(c, "delivering")
  /\ sessions' = [sessions EXCEPT ![foundHost[c]] = @ - 1]

\* SendData throws, or Close: the channel is not closed.
SendResponseThrows(c) ==
  /\ CatchException(c, "delivering")
  /\ leaked' = TRUE
  /\ UNCHANGED sessions

SendErrorPage(c) == Finish(c, "failed") /\ UNCHANGED sessions

\* The requests that hold a session of endpoint n.
Users(n) ==
  {c \in Connections : pc[c] \in {"called", "delivering"} /\ foundHost[c] = n}

\* The endpoint closes a session that is not used for a while.
Idle(n) == sessions[n] > Cardinality(Users(n))

SessionIdles(n) ==
  /\ mode = "serving"
  /\ Idle(n)
  /\ sessions' = [sessions EXCEPT ![n] = @ - 1]
  /\ UNCHANGED <<rows, processVars, requestVars, leaked>>
-----------------------------------------------------------------------------
RequestStep(c) ==
  \/ \E i \in Ids : CreateWebsiteEndpoint(c, i) \/ FactoryNotFound(c, i)
  \/ WebsiteNotFound(c)
  \/ OpenChannel(c) \/ OpenChannelTimesOut(c)
  \/ ParseRequestReturns(c) \/ ParseRequestThrows(c)
  \/ SendResponse(c) \/ SendResponseThrows(c)
  \/ SendErrorPage(c)

TableStep(i) ==
  \/ \E r \in Rows : AddOrUpdate(i, r)
  \/ Remove(i)

ProcessStep ==
  \/ Main \/ HttpStreamRouter \/ Exit
  \/ \E i \in Ids : StartWebsiteEndpoint(i) \/ StartWebsiteEndpointThrows(i)

Next ==
  \/ ProcessStep
  \/ \E i \in Ids : TableStep(i)
  \/ \E c \in Connections : RequestStep(c) \/ \E h \in Hosts : Request(c, h)
  \/ \E n \in Names : SessionIdles(n)

Spec == Init /\ [][Next]_vars

\* The calls of a request are made one after the other by the thread that
\* received it, and each returns: opening a channel and calling an endpoint
\* have time limits (one minute each, the binding's), and so has the call of
\* the website behind it (OwinWebsiteAdapter.tla).  Nothing makes clients ask,
\* anyone write the table, a session be idle, or a process start or end.
Fairness == \A c \in Connections : WF_vars(RequestStep(c))
FairSpec == Spec /\ Fairness
-----------------------------------------------------------------------------
(* Invariants                                                                *)

Busy == {c \in Connections : pc[c] # "idle"}

\* The endpoint of a row as it was when the process started.
BootSite(i) == [id |-> i, path |-> bootRows[i].path]
BootTable == {i \in Ids : bootRows[i] # Null}

TypeOK ==
  /\ mode \in {"down", "starting", "serving"}
  /\ rows \in [Ids -> Rows \cup {Null}]
  /\ bootRows \in [Ids -> Rows \cup {Null}]
  /\ endpoints \in [Names -> Sites \cup {Null}]
  /\ factoryCache \in SUBSET Names
  /\ pc \in [Connections -> {"idle", "finding", "calling", "called",
                             "delivering", "failed"}]
  /\ host \in [Connections -> Hosts \cup {Null}]
  /\ foundId \in [Connections -> Ids \cup {Null}]
  /\ foundHost \in [Connections -> Names \cup {Null}]
  /\ answer \in [Connections -> Sites \cup {Null, Error}]
  /\ sessions \in [Names -> Nat]
  /\ leaked \in BOOLEAN

\* Only a process that serves has requests, and the table waits for a start.
ModeInv ==
  /\ mode # "serving" => Busy = {} /\ factoryCache = {}
  /\ mode = "down" => endpoints = NoEndpoints
  /\ mode = "starting" => bootRows = rows

\* Each endpoint is the one of a row the process started with, and once it
\* serves, each of these rows has its endpoint and its factory.
EndpointsInv ==
  /\ \A n \in Names : endpoints[n] # Null =>
       \E i \in BootTable : /\ bootRows[i].host = n
                            /\ bootRows[i].path \notin Malformed
                            /\ endpoints[n] = BootSite(i)
  /\ mode = "serving" =>
       /\ \A i \in BootTable : endpoints[bootRows[i].host] = BootSite(i)
       /\ factoryCache = {bootRows[i].host : i \in BootTable}

\* A request has what the step it is at needs.
RequestInv ==
  \A c \in Connections :
    /\ pc[c] = "idle" => host[c] = Null
    /\ pc[c] # "idle" => host[c] # Null
    /\ pc[c] \in {"idle", "finding", "calling", "called"} => answer[c] = Null
    /\ pc[c] \in {"calling", "called", "delivering"} =>
         /\ foundId[c] \in Ids
         /\ foundHost[c] \in Contains[host[c]] \cap factoryCache
    /\ pc[c] = "delivering" => answer[c] = endpoints[foundHost[c]]
    /\ pc[c] = "failed" => answer[c] = Error

\* A session is open for each request that uses it; the others are what failed
\* deliveries have left.
SessionInv ==
  \A n \in Names : /\ Cardinality(Users(n)) <= sessions[n]
                   /\ ~leaked => sessions[n] = Cardinality(Users(n))

\* The inductive invariant: types, and the relations between the parts.
IndInv == TypeOK /\ ModeInv /\ EndpointsInv /\ RequestInv /\ SessionInv

\* A row that still has the name it had when the process started is served by
\* the site started for it: what other rows were added, removed or renamed
\* meanwhile never puts another site behind its name.  (Two rows that swap
\* their names are served by each other's sites until the next start.)
OwnSiteUnlessRenamed ==
  [][\A c \in Connections, i \in BootTable :
       CreateWebsiteEndpoint(c, i) /\ rows[i].host = bootRows[i].host
         => endpoints[foundHost'[c]] = BootSite(i)]_vars

\* A row that is in the table under the name it had at the start is never
\* refused by the cache of factories, whatever was done to the table since.
RefusedOnlyIfNewer ==
  [][\A c \in Connections, i \in Ids : FactoryNotFound(c, i) =>
       i \notin BootTable \/ bootRows[i].host # rows[i].host]_vars

\* The process serves exactly when each row has a name of its own and a path
\* that a domain can be made for.  The form that writes the table checks
\* neither, so a post accepted now can be what ends the next start.
ValidBoot ==
  /\ \A i \in BootTable : bootRows[i].path \notin Malformed
  /\ \A i, j \in BootTable : bootRows[i].host = bootRows[j].host => i = j

ServesIffValid ==
  [][mode = "starting" =>
       /\ mode' = "serving" => ValidBoot
       /\ mode' = "down" => ~ValidBoot]_vars

\* Without a response that could not be delivered, a request is kept out of an endpoint
\* only while as many others as it has sessions are being answered by it: each of them
\* gives its session back.  A failed delivery keeps one (no Close on that path).
RefusedOnlyAfterLeaks ==
  [][\A c \in Connections :
       OpenChannelTimesOut(c) =>
         leaked \/ Cardinality(Users(foundHost[c])) = MaxSessions]_vars

\* The server answers for a host with a site that was started under a name in
\* the header, or with an error, whatever happens to the table meanwhile.
Routing == INSTANCE HostRouting WITH
  started <- IF mode = "serving" THEN endpoints ELSE NoEndpoints,
  asked <- host
ImplementsHostRouting == Routing!Spec

\* Every request that is looked up comes to its disconnect: with a response,
\* with an error page, or with the end of the process.
RequestAnswered == \A c \in Connections : pc[c] = "finding" ~> pc[c] = "idle"
=============================================================================
