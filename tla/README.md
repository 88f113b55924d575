# The oswos server in TLA+

A specification of oswos, a small web server that hosts several OWIN sites on
one machine (`src/readme.md`): TLA+ modules translated from the C# source, the
configurations TLC checks them under, and proofs checked by TLAPS. Paths below
are relative to `src/src/Oswos.Server/` unless they start with `src/`.

## 1. The system

A client connects to the port. `SocketListener` accepts it and raises an event;
`PortListener` has the factory make a `SocketConnection`, which takes a
`SocketAsyncEventArgs` and a receive buffer from two pools, and a route object
that listens to it. Each chunk received is written to a request stream; when the
headers are complete the route object finds the website by the `Host` header,
sends the request over a named pipe to the application domain of that site,
where `OwinWebsiteAdapter` runs the site's task, and sends the response that
comes back in chunks, asynchronously. Then it disconnects. There is no
keep-alive and no time-out on a receive.

Everything after `Main` runs in callbacks on I/O threads. An exception that
leaves a callback ends the process.

### Inventory

| Part | Source | State | Operations | Interacts with | Hard behaviour | What makes it correct |
|---|---|---|---|---|---|---|
| Buffer pool | `Tcp/BufferPool.cs` | array, stack of returned offsets, high-water mark | CheckOut, CheckIn, Available | called by connections | exhaustion; offsets returned twice | a buffer has one user; the count is exact |
| Args pool | `Tcp/SocketArgsPool.cs` | stack of args objects | CheckOut, CheckIn | connections, send completions | empty stack throws, in three different places | no object lost or used twice |
| Connection | `Tcp/SocketConnection.cs` | socket, receive args | constructor, ListenForData, SendData, Disconnect, two completions | pools, route object | completions after Disconnect, resets, order of the two pools | what it took it gives back; its socket is closed |
| Listener | `Tcp/SocketListener.cs` | listening socket, pending accepts | Start, Stop, CreateListener, SocketAccepted | port listener, the system | callbacks after Stop, failing binds, aborted accepts, a handler that throws | never deaf while it listens; one accept; a client is handed over once |
| Port listener | `PortListener.cs` | current listener, counter | Start, Stop, the SocketConnected handler | listener, connection factory | old listeners that live on; a Stop in the middle of an event | only the current listener finds the handler; restarts settle |
| Request stream | `Http/HttpRequestStream.cs` | headers so far, body | Write, Read | route object, adapter | where the network cuts the request | the same request whatever the cut |
| Response and delivery | `Http/HttpResponseStream.cs`, `Http/HttpStreamRouteObject.cs` | head sent or not, position, one array | Read, SendResponse, error pages | connection, adapter | asynchronous sends sharing the array; failure midway | the client gets the response, or a beginning of it |
| Router, factory | `Http/HttpStreamRouter.cs`, `Http/HttpSocketConnectionFactory.cs` | factory cache, list of route objects | Route, CreateWebsiteEndpoint | repository, WCF | list shared by threads without a lock; cache never refreshed | a host reaches its own site |
| Connection counter | `ConnectionMonitor` | a number | ++, -- | port listener | updates without a lock | equals the open connections |
| Website endpoints | `WebsiteEndpoint/*.cs` | service hosts, domains | Start, Stop | repository | two sites of one name stop the start | one endpoint per site |
| OWIN adapter | `WebsiteAdapter/OwinWebsiteAdapter.cs` | environment | ParseRequest | the website's task | five-second limit, task goes on; code that runs before the limit | whole answer or none; an end of every wait |
| Repository | `src/src/Oswos.Repository/WebsiteRepository.cs` | database of sites | AddOrUpdate, Remove, GetByHost | router, settings site | match by substring; a path that is not updated | an update is stored; one site per host |
| Host program | `src/src/Oswos.Console/Program.cs` | none | Main | all | never calls Stop | order of start-up |
| Settings and default site | `src/src/Oswos.Website.*` | views, routes | Nancy modules | repository | none of their own | calls AddOrUpdate |
| ASP.NET host | `SimpleOwinAspNetHost.cs`, twice | third-party | runs a site under IIS | not this server | not this server | |

`PROJECT.json` lists the hazards with the line where each bites and the
properties that cover it.

## 2. The modules

```
BufferAllocator  <--implements--  BufferPool  <--INSTANCE Pool--  SocketConnection
ArgsAllocator    <--implements--  SocketConnection
SocketListener   <--INSTANCE L--  PortListener
HttpRequestStream <--EXTENDS-- HttpStreamRouteObject
HostRouting      <--implements--  WebsiteRouting
ConnectionRegistry        OwinWebsiteAdapter
*_proofs: theorems        MC*: instances for TLC
```

Proofs follow the same lines: `SocketConnection_proofs` cites a lemma of
`BufferPool_proofs`, `PortListener_proofs` the steps proved in
`SocketListener_proofs`, and `HttpStreamRouteObject_proofs` holds the theorems
about the request stream it uses as well.

**BufferPool** has the variables of the class. `CheckOut` has two actions, for
an offset from the stack and for a fresh one; offsets are counted in buffers,
and the two SetBuffer calls become `buffer[a]`. Both methods hold the lock from
end to end, so each is one action. Its own specification calls it as its
comments ask. **BufferAllocator** is what the class promises: a set of free
buffers, Acquire and Release.

**SocketConnection** composes that pool with its real user. Each connection is
served by one callback at a time; `pc[c]` says where it is. Every call that takes
a pool's lock is an action: the constructor is `TakeArgs` then `TakeBuffer`,
Disconnect is `ReleaseSocket`, `RenewReceiveArgs`, `ReturnBuffer`, `ReturnArgs`.
`SendCompleted` comes at any time. Abstractions:
- What the handler does with a request is a choice: wait for more, respond,
  error page, throw. Data is left out.
- What lies outside the class and throws is a step of its own: reading the address
  of a client that is gone, before the constructor (`AcceptThrows`), closing the
  website's channel (`CloseThrows`, on to the error page), and the handlers of
  Disconnected, whose exception skips the rest of Disconnect (`DisconnectedThrows`).
- A call that completes at once runs its callback inline: the same steps in one
  of the orders the model allows.
- Disconnect puts a *new* args object in the pool; the model reuses the name of
  the disposed one, so that the set stays finite.
- A closed slot is used again for another client; a connection whose socket was
  reset and never closed frees its slot too (its socket is then out of sight).
- `up` becomes FALSE when an exception leaves a callback.

**ArgsAllocator** is what the pool of args objects promises: an object is checked out
for one receive or one send of one connection, and for nothing else until it is
checked in. `Users(a)` of SocketConnection says who uses an object, read off the
connections.

**SocketListener** has one action for each call of the owner (`Start`, `Stop`),
each outcome of an accept (`Connect`, `AcceptFails`, aborted by `Closed`) and
each branch of the callback: `SocketAborted` (make a listener again),
`SocketAccepted` (re-arm the accept, or make a listener again when that throws),
`SocketAcceptedThrows` (no socket, nothing catches it), `OnSocketConnected`
(after the lock has been released), `LoadHandler` and `Raise`. Raising the event
reads its handler to see that there is one, reads it again, makes the event's
arguments, and only then calls it (`Tcp/SocketListener.cs:214-215`): `handing[l]`
holds the clients before the first step, `raising[l]` and `calling[l]` those before
the second and third. A handler detached before it is loaded is a call of null
(`RaiseThrows`); one detached after that is called all the same. A build that reads
it once does `LoadHandler` at once. The handler itself may throw
(`HandlerThrows`): the server's does for a client that has gone
(`PortListener.cs:39`) and when no args are left (`Tcp/SocketArgsPool.cs:72`).
`fault` tells where the exception came from that ended the process, and `up` is that
there was none. `Handler` attaches or detaches the handler, on the owner's thread. `CreateListener` is an operator with the
three outcomes its catch-all leaves: listening, not bound, closed. An accept that
fails inside it calls it again, with one of the same outcomes, so nested calls
are not steps of their own. Callbacks run inline inside CreateListener have their
exceptions swallowed there; the model lets them come later, where they are not,
which is the worse case.

**PortListener** makes a new listener for each Start and drives the instance of
SocketListener; attaching the handler and starting, detaching it and stopping,
are separate steps (`Handler` with `Start` or `Stop` of the instance), with
callbacks between them. So a listener that is stopped, or an old one of a server
that was started again, may still hand over a client whose callback had loaded the
handler in time. `ImplementsListener` says that it does nothing to its
listeners that SocketListener does not allow.

**HttpRequestStream** models Write over every cut into chunks. A request is its
lengths (head, blank line, body), the places of two-byte characters in its head,
and whether its header lines parse. A stored byte is its place in the request, so
the arithmetic of `_headerData.IndexOf` (characters of everything so far) against
the chunk's bytes is kept exactly. Header names and values are not modelled.
Its initial predicate, next-state relation and invariant carry the name of the
part (`StreamInit`, `StreamNext`, `StreamIndInv`), since the next module extends it.

**HttpStreamRouteObject** extends that module, owns its variables and runs a connection from the first chunk to the last
byte: the handler and its two catch blocks, `Position = 0` and `Read`, the loop
of SendResponse, and the system's queue of sends. A send holds a reference to the
array and a count; its bytes are taken when it is transmitted. SendData may find
the pool empty, and closing the website's channel, inside the same try block, may
throw after the last chunk (`CloseThrows`): then the error page follows a complete
response. The handlers of Disconnected run behind that block, with the socket closed;
one that throws ends the process (`DisconnectThrows`). Read and SendData of one turn are one action: a send transmitted
between the two has the effect of one transmitted after them, apart from a copy
caught halfway.

**OwinWebsiteAdapter** is one ParseRequest and the website's task, sharing the
environment. `Call` enters the website's ProcessRequest, on the adapter's thread and
before the wait; `Invoke` and `InvokeThrows` are its return, with a task or without,
and the website's to make. The website (external) sets a status, headers and a body
in that order, before or after it has returned its task, and may fail or hang anywhere. Filling in the request half of the
environment and finding the startup class happen before the task exists and are
left out.

**WebsiteRouting** is what decides which site answers: the table of websites
(`Add`, `Update`, `Remove`), a process that reads it once when it starts (`Main`,
`StartWebsiteEndpoint`, `HttpStreamRouter`) and may end and start again, and the
look-up, call and delivery of each request. `endpoints` and `factoryCache` are of
the table at the start, `GetByHost` is of the table now. **HostRouting** is the
promise it implements: a request is answered by a site started under a name in
its Host header, or by an error. Abstractions:
- A Host header is the set of names it contains, since the query matches with
  Contains. The query has no order, so any matching row can be returned.
- A website is a name and a path, and a path is malformed or not. The display
  name is left out: it is shown by the form and names the application domain
  (`WebsiteEndpoint/WebsiteEndpointServer.cs:36`, `:46`), which need not be unique, and
  its column is not nullable.
- A start fails for the two reasons the table can give, equal names and malformed
  paths. Other failures while starting (no permission, a missing assembly) are left
  out, and that a process which fails to start has such a table rests on it.
- `sessions[n]` counts the channels open at an endpoint, which WCF limits. A
  channel is closed after a delivered response only; a session nobody uses is
  closed by the endpoint at some time (`SessionIdles`).
- `bootRows` (the table at the start) and `leaked` are history.

**ConnectionRegistry** has what all connections share and no lock guards: the
list of route objects and the connection counter. `++` and `--` are a read and a
write; `List.Add` reads the size, then stores element and size; `List.Remove`
finds the index, then removes there, which throws when the list has become too
short. Each connection does these in the order the handlers were attached in:
list, counter, and list, counter again in Disconnected. A connection that is
reset keeps its entry and its count for ever, as Disconnect skips everything for
a socket that is no longer connected. `listRaced` and `countRaced` are history:
two operations have overlapped.

## 3. What is checked

The properties are aimed at the hazards `PROJECT.json` lists. Each property of a
passing run has a mutant, a changed definition under which TLC must find it
violated (operators named `Definition_Change`, next to the original).

### Passing runs

| Run | Instance | Shows |
|---|---|---|
| `buffer_pool` | 5 args, 4 buffers | used as its comments ask, the pool hands no buffer out twice, its stack, mark and holders divide the offsets between them (`IndInv`), and it implements the allocator |
| `connection` | 2 connections, 4 args | `ArgsConserved`: no args object lost or shared, through sends that outlive Disconnect and through resets. `BufferNeverExhausted`: the constructor, once it has args, finds a buffer. `BuffersAccounted`: the count stays exact although the wrong buffers are returned. `OnlyFirstBufferShared`: the damage of that is confined to offset 0. `RequestsEnd`, `PoolRefills`: callbacks end, args come back |
| `listener` | 1 listener, 4 accepts, 2 clients | `NeverDeaf`, `OneAccept` until the first Stop, `ThrowsOnlyAfterStop`: what the listener itself throws needs a Stop or a detached handler. `AcceptedIsHandedOver`: an accepted client reaches the event unless the process ends |
| `port` | 3 listeners, 3 accepts, 1 client | three starts and the listeners left over from them: `OneAcceptEach`. `HandlerOfCurrent`: only the current listener finds the server's handler, and clients are dropped only once a Stop has begun. `FaultsOnlyAfterStop`: until then only the handler's own exceptions end the server. `RestartsSettle` |
| `request_stream` | heads of 0 to 6 bytes, bodies of 0 and 6, every cut | `BodyIsSubsequence`: no byte of the headers and none twice in the body of a plain request. `FirstWriteExact`: whole when one write holds everything |
| `route_object` | array of 3, heads of 2, 3 and 5, bodies of 0, 2, 3 and 7 | `IntactUnlessOverlapped`: without overlapping sends the client gets a beginning of the response, then of the error page. `LengthsHonest`: as many bytes as announced even with them. `StoredBodyIsEnd`: with the request is stored the end of what has arrived of its body. `NoWriteAfterHeaders`: one request per connection, so the loss in later writes does not reach the server |
| `owin_adapter` | 3 headers, body of 4 | `WholeUnlessTimedOut`. `CallEnds`: a call ends once the website has handed over its task |
| `website_routing` | 2 requests, 2 rows, 2 names, a header with one name and one with both, a good and a malformed path, 1 session | `OwnSiteUnlessRenamed`: a row that kept its name is, when it is the one found, served by the site started for it. `RefusedOnlyIfNewer`: only rows that are new or renamed miss the cache. `ServesIffValid`: a process comes up exactly when names are distinct and paths usable. `RefusedOnlyAfterLeaks`: until a delivery fails, an endpoint refuses a request only while others use all its sessions. `ImplementsHostRouting`, `RequestAnswered` |
| `connection_registry` | 4 connections | `ListExact`, `CountExact`: exact until two operations overlap. `ListFailsOnlyWhenRaced`: only then can Remove throw out of Disconnect |

`IndInv` of a run is the inductive invariant of its module: types and the facts
the other properties rest on (`StreamIndInv` for the request stream). TLC checks it
where TLAPS proves it.

### Runs that refute a statement of the repository

| Run | Statement | What the code does |
|---|---|---|
| `connection_buffers` | a buffer has one user (`Tcp/BufferPool.cs:76-78`) | Disconnect checks in a new args object, whose offset is 0; a connection made after one disconnect shares offset 0 with the earlier one that has had it all along |
| `listener_stop` | "Stop listening" (`Tcp/SocketListener.cs:129`) | the aborted accept's callback makes the listener again |
| `request_body` | a body written in two parts is read back (`HttpRequestStreamTests.cs:119-138`) | bytes are skipped in each later write |

Met while modelling, without a run of their own:
- After a reset `Connected` is false, so Disconnect closes nothing and fires
  nothing (`Tcp/SocketConnection.cs:64`, though line 130 calls it for this case
  and line 82 says "Fire Disconnected event"). `Reset` in ConnectionRegistry: the
  list and the counter keep the connection for ever.
- The next chunk is read into the array a pending send still uses
  (`Http/HttpStreamRouteObject.cs:83`): the condition of `IntactUnlessOverlapped`.
- Stop of PortListener detaches the handler of a listener that still accepts. A
  callback that has just seen the handler then calls null, which ends the process
  (`PortListener.cs:32`, `Tcp/SocketListener.cs:214`): `RaiseThrows`. One that has
  loaded it serves its client after the Stop.
- The handler of new connections throws for a client that has gone and when the pool
  of args objects is empty (`PortListener.cs:39`, `:41`). Nothing catches that, so it
  ends a server that nobody stopped: `HandlerThrows`.
- The call of ProcessRequest (`WebsiteAdapter/OwinWebsiteAdapter.cs:85`) comes before
  the wait of five seconds and has no limit.
- Write leaves the position of the body's stream at its end
  (`Http/HttpRequestStream.cs:101`). What is stored is modelled; whether a website that
  reads without seeking finds it is not.
- An update assigns the new path to itself and is lost
  (`src/src/Oswos.Repository/WebsiteRepository.cs:26`).
- A row added at run time whose name occurs in the header of another site can be
  found instead of that site, and has no factory: requests for the other site are
  refused until the next start. Rows that swap names are served by each other's
  sites until then, and the settings site can be renamed out of its own reach.
- The form accepts a name that exists or a path that is malformed; the next start
  then fails, and there is no settings site to correct it with.
- `IsRunning` is true of a listener whose Bind failed
  (`Tcp/SocketListener.cs:121`).
- Three tests expect a request line without a blank line to be parsed
  (`HttpRequestStreamTests.cs:12-45`), which Write does not do.
- A head longer than 4096 bytes is cut off (`Http/HttpResponseStream.cs:72`).
- A website that fails never delivers the message the adapter prepares for it,
  since the body it sets has another type (`WebsiteAdapter/OwinWebsiteAdapter.cs:93`).

### Bounds

Only the constants bound the models; no action has a counter that is cut off,
because what grows in the program (the stack of offsets, pending sends, bodies)
is bounded by the number of objects or the length of a response.
- Two connections are the fewest that can share a buffer, and with four args one
  connection can have sends under way while the other is constructed and the pool
  runs empty. The safety properties hold for any numbers by proof.
- Four accepts on one listener are enough for two generations of aborted accepts
  and one pending; two clients are enough for one handed over twice or two at once. With two accepts per listener the model would block a third;
  CreateListener needs a free one to listen, and has its failing outcomes always.
- Three listeners are a current one, one stopped, and one stopped before it.
- Heads of up to six bytes with a blank line of four let every cut fall before,
  inside and after the blank line, and let `bodyStart + 4` fall inside and beyond
  the chunk.
- With an array of three, a response is one chunk, exact multiples and a rest.
- Two rows, two names and a header with both of them are the fewest for a wrong
  match, a duplicate, a swap and a rename; two requests for one session let a request
  be kept out by a leaked session and by one in use. `HostRouting` is refined on the same instance.
- Four connections give the list operations of three threads at once over one
  that is already in.

`port` does not check for deadlock: a listener is started once, and when all are
used up and all clients served the model is at its end. Nor does `connection_registry`,
whose connections come and go once, or stop when an exception ends the process. In `request_stream`,
`route_object` and `owin_adapter` the end is a stuttering action.

### Fairness

- *Connections*: the code of a callback runs on. The constructor, the handler
  (the channel to the website has a time limit), the loop over a finite response and
  Disconnect are weakly fair, and the system completes each send. A receive need
  never end: clients owe nothing.
- *Listeners*: a due callback is run, and one that has seen a handler goes on to
  load and call it. Nothing is asked of clients or owners; an
  accept may stay pending for ever.
- *Adapter*: ParseRequest runs on, and its wait ends when the time is over.
  Nothing is asked of the website, not even that ProcessRequest return: `CallEnds`
  begins where it has.
- *Requests* (WebsiteRouting): each goes on to its next step; opening a channel
  and calling an endpoint have time limits, whatever becomes of the website behind it.
  Nothing is asked of clients, of whoever writes the table, of the start and end
  of the process, or of sessions nobody uses.

Every liveness property of connections and listeners allows for the end of the
process (`~up`), which the code does not exclude; an exception of the handler of new
connections is one such end.

## 4. What is proved

All theorems hold for every value of the constants, under the named assumptions
of the modules: finite sets of objects, a capacity that is the number of args,
model values that are not confused (`NullAssumption`, `BufferAssumption`,
`ClientsAssumption`, `RegistryAssumption`), natural lengths and at least one
response (`RequestAssumption`, `ResponseAssumption`), two-byte characters that do
not overlap (`IsRequest`), a header that is a set of names
(`ContainsAssumption`), an endpoint that takes at least one session
(`LimitAssumption`). TLC evaluates each of them in the runs.

**Buffer pool** (`BufferPool_proofs`). `Exclusive`, that no two args objects hold one
buffer, is not inductive: it says
nothing of the stack. `IndInv` adds that the stack has no offset twice
(`Distinct`), none that is held (`Disjoint`), and that stack and holders make up
all offsets below the high-water mark (`Covered`). From it, `Exclusive` and the
refinement of the allocator, whose free set is the stack and everything above the
mark.

**Connections** (`SocketConnection_proofs`). The program breaks the discipline
above: it returns offset 0 every time. What survives rests on three facts that
the invariant states: who owns args is read off `pc` (`ArgsOwned`, with
`ArgsConserved`), only zeros are on the stack (`OnlyFirstReturned`), and buffers
in use are below the mark (`HeldBelowIndex`). A fresh offset is then above every
one in use, so only offset 0 is shared; and mark and stack still balance the
connections in debt (`BuffersAccounted`). `BufferNeverExhausted` needs counting:
every connection in debt owns an args object, these are different, the one in its
constructor is not yet in debt, so the debt is smaller than the capacity.
`ConnectionImplementsArgsAllocator` refines the other allocator: four actions are
check-outs or check-ins, of an object nobody or somebody uses by `ArgsConserved`, and
all others leave the users alone. Of args the program keeps the promise that it
breaks of buffers.

**Listener** (`SocketListener_proofs`). `ThrowsOnlyAfterStop` names the two ways the
listener itself throws out of a callback: it was stopped, or its handler was detached
under a client on its way to it. What the handler throws is told apart by `fault` and
needs neither. The invariant and `OneAccept` depend on each other: a listener that was never stopped has its one accept only
on a socket that listens (`ListeningWhileInUse`), hence its callback finds one
and cannot throw, and CreateListener replaces the accept it was called for. The
invariant is proved for one listener and carried to all, as a step touches one.

**Port listener** (`PortListener_proofs`). The steps of the network are steps of
SocketListener, so that module's invariant holds of every listener ever made:
its lemmas are cited through an instance. The host's steps need what a listener
is like before its start and after its stop (`Silent`, `IndInv`), and that only
the current one has its handler attached, unless it is silent. `PortOneAcceptEach`,
`PortHandlerOfCurrent` and `PortFaultsOnlyAfterStop` hold for any number of restarts.
The last two are of the server what `subscribed` and `ThrowsOnlyAfterStop` are of a
listener: a handler is loaded only where it is attached, and what a listener throws
needs a Stop of the host that has at least begun. `PortImplementsListener` is
the refinement of the whole specification: each step of the host is a call an owner
may make, each step of the network one of SocketListener's, and the listener that
Stop closes is the one the step says. `PortListenersSafe` states what a listener
promises (`NeverDeaf`, `AcceptedOnce`) of the server's.

**Adapter** (`OwinWebsiteAdapter_proofs`). `WholeUnlessTimedOut` follows from
what a wait that was not cut short has seen (`WaitSawEnd`), that a task that has
ended well has written everything (`DoneIsWhole`), and that the adapter's reads
come after that (`ReadsAreWhole`).

**Request stream** (`HttpStreamRouteObject_proofs`, first half). `Collecting` says
how many characters the bytes collected so far have made: one each in a plain
request, fewer with wide characters, but none fewer behind the head. Hence the
place of the blank line that Write computes is never beyond the true one in
characters, and `bodyStart + 4` never falls short of the body in bytes
(`BodyBytesProperties`). So what is stored is a subsequence of the body, though
not the whole of it (`request_body`). The theorems are stated of the stream alone
(`StreamInvariant`, `StreamBodyIsSubsequence`, `StreamFirstWriteExact`), under any
writes at all, and of a connection: `RouteImplementsStream` shows that every step of
HttpStreamRouteObject is a Write of what the socket delivered or leaves the stream
alone. `RouteStoredBody` says of the server what `NoWriteAfterHeaders` is worth: the
write that completes the headers is the only one that stores a body, it stores the bytes
of its chunk behind an index that is too large by what came before (`StoredByWrite`), and
no step after it writes again (`RouteStoredBodyStep`). So the end of what has arrived is
stored, and all of it if there was one write. What a website reads of it is not modelled.

**Delivery** (second half). `IntactUnlessOverlapped` speaks of what has left;
inductive is a statement about what was *given* to SendData (`OutputInv`): n bytes
of one response and m of the error page, of which a beginning has left and the
rest lies at the start of the arrays of the pending sends (`Sent`). While more can
be sent, n and m are what has been read (`UpToDate`). Without overlap the array of
a page has no pending send when the next chunk is read into it
(`SiteNothingPending`), so a chunk extends n or m by itself (`SiteChunkSent`,
`ErrorChunkSent`) and a transmission moves bytes without changing them
(`TransmitSent`). `NoWriteAfterHeaders` needs that a connection that still
receives has no headers yet (`ReadInv`).

`LengthsHonest` also speaks of overlapped sends, where the content is lost, so it
needs an invariant of its own: `LengthInv` counts. The bytes that have left and those
the pending sends hold are together what `Read` has returned, and the loop ends only
when that is everything. The pending sends are summed (`Counted`); what a sum does
when a send is appended (`CountedSent`) or the first one is taken away
(`CountedTransmitted`) is proved in the first part of the module, by induction over
the length of the sequence. The library's induction over the naturals takes an
operator, so `NatSetInduction` is derived from the well-foundedness of `<` for sets
of naturals, and each use gives the set of lengths for which the lemma holds.

`CrashInv` is what remains of the exceptions that end the process: with proper header
lines none is raised by the parser or by null headers, so the process ends only out
of a catch block that cannot send its page, or out of a handler of Disconnected
(`RouteCrashExplained`). The second comes when the website's response has been read
to its end, and the socket is then closed. The condition is needed: a request without header lines, or with a line without a colon, does end it.

**Routing** (`WebsiteRouting_proofs`). `EndpointsInv` ties endpoints and cache to
the table the process started with, `RequestInv` a request to what it has found,
and from these two the three properties about names and the refinement of
HostRouting follow: `started` is the endpoints once the process serves, `asked`
the Host header. What HostRouting promises is proved of HostRouting (`PromiseInv`) and
carried over by the refinement: `RoutingAnsweredByNamed`. `RefusedOnlyAfterLeaks` needs counting (`SessionInv`): without a
leak the sessions of an endpoint are exactly the requests that use one, and the
request that is refused is not one of them, so as many others as there are sessions
are. Nothing in the code keeps connections below that number: with 500 args objects
requests can be refused with no leak at all, and the theorem says when.

**Registry** (`ConnectionRegistry_proofs`). The properties themselves, with types,
are inductive: until two operations overlap, the one in the middle of an operation
has an index or number that is still right. The lemmas are about removing at an
index and about a set that gains or loses one member.

Only model-checked: the liveness properties, `AcceptedIsHandedOver`, `RequestsEnd`,
`PoolRefills`, `RestartsSettle`, `CallEnds` and `RequestAnswered` (fairness and
ENABLED are beyond the prover). Every invariant and every safety action property of
a passing run has a theorem, and so has each refinement. Three of the refinements and
what HostRouting promises are theorems without a run: `ImplementsListener`,
`ImplementsArgsAllocator`, `RouteImplementsStream` and `RoutingAnsweredByNamed`.
`PoolExclusive` and `ListenerAcceptedOnce` are of conjuncts of the two `IndInv` their
runs check, and so are the facts of `PortListenersSafe` and `RouteCrashExplained`. Refuted statements are
counterexamples TLC finds, not proofs.

## 5. What is not modelled

| Part | Why |
|---|---|
| `WebsiteEndpointServer.Stop` | `Main` has its call commented out; endpoints end with the process |
| The search of the adapter for the startup class, the request half of the environment | they happen once, before the website's task exists |
| Bootstrap and jQuery scripts of the two sites | third-party code that runs in browsers, not in this server |
| Header names and values, URIs, HTTP versions, wording of pages | data that none of the properties tells apart |
| Dispose and finalizers of pools and connections | nothing in the program calls Dispose; the finalizer of a connection does nothing |
| Lazy creation of the pools' single instances | double-checked under a lock, before any other use |
| WCF, named pipes, sockets, Nancy | external: modelled by the outcomes the code can see |
| `SimpleOwinAspNetHost.cs` | third-party, not run by this server |
| Views, assets, packages, generated entity classes | no logic |

## 6. Plan

Done, in this order: BufferPool with its abstraction; SocketConnection;
SocketListener; PortListener; HttpRequestStream; HttpStreamRouteObject;
OwinWebsiteAdapter; WebsiteRouting (with the channel that is closed only on
success) and HostRouting; ConnectionRegistry; the proofs of all of them.

SocketListener_proofs, PortListener_proofs and HttpStreamRouteObject_proofs then gained
the whole-specification refinements of SocketListener and HttpRequestStream, the sums
behind `LengthsHonest`, and the ends of the process; SocketConnection the refinement
of ArgsAllocator; WebsiteRouting what HostRouting promises.

What could follow:
1. A connection that has both its pools and its bytes: SendThrows of
   HttpStreamRouteObject driven by the empty pool of SocketConnection, which today
   are two models of one call.
2. That the callbacks of HttpStreamRouteObject are, with its bytes left out, those of
   SocketConnection: the refinement that would join the two.
