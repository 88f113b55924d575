----------------------------- MODULE HostRouting -----------------------------
(***************************************************************************)
(* What the server promises about hosts, without saying how: a process     *)
(* serves the sites it started with, and a request is answered by a site   *)
(* that was started under a name that occurs in its Host header, or by an  *)
(* error page.  WebsiteRouting.tla implements it, whatever happens to the  *)
(* table of websites meanwhile.                                            *)
(***************************************************************************)
CONSTANTS Connections, Hosts, Names, Contains, Sites, Null, Error

VARIABLES
  started,  \* started[n]: the site this process serves as n, or Null
  asked,    \* asked[c]: the Host header of the request of c, or Null
  answer    \* answer[c]: the site whose response c gets, Error, or Null

vars == <<started, asked, answer>>

Nothing == [c \in Connections |-> Null]
NoSites == [n \in Names |-> Null]

Init == started = NoSites /\ asked = Nothing /\ answer = Nothing

\* The process is ready, with any sites,
Start ==
  /\ started = NoSites /\ asked = Nothing
  /\ started' \in [Names -> Sites \cup {Null}]
  /\ UNCHANGED <<asked, answer>>

\* and ends, with all it had in hand.
Exit == started' = NoSites /\ asked' = Nothing /\ answer' = Nothing

Ask(c, h) ==
  /\ asked[c] = Null
  /\ asked' = [asked EXCEPT ![c] = h]
  /\ UNCHANGED <<started, answer>>

Answer(c) ==
  /\ asked[c] # Null /\ answer[c] = Null
  /\ \E n \in Contains[asked[c]] :
       /\ started[n] # Null
       /\ answer' = [answer EXCEPT ![c] = started[n]]
  /\ UNCHANGED <<started, asked>>

\* No such site, or it fails, or its response cannot be sent to the end.
Fail(c) ==
  /\ asked[c] # Null
  /\ answer' = [answer EXCEPT ![c] = Error]
  /\ UNCHANGED <<started, asked>>

Leave(c) ==
  /\ answer[c] # Null
  /\ asked' = [asked EXCEPT ![c] = Null]
  /\ answer' = [answer EXCEPT ![c] = Null]
  /\ UNCHANGED started

Next ==
  \/ Start \/ Exit
  \/ \E c \in Connections : \/ \E h \in Hosts : Ask(c, h)
                            \/ Answer(c) \/ Fail(c) \/ Leave(c)

Spec == Init /\ [][Next]_vars
-----------------------------------------------------------------------------
TypeOK ==
  /\ started \in [Names -> Sites \cup {Null}]
  /\ asked \in [Connections -> Hosts \cup {Null}]
  /\ answer \in [Connections -> Sites \cup {Null, Error}]

\* A response is of a site that this process started under a name in the header.
AnsweredByNamed ==
  \A c \in Connections :
    answer[c] \notin {Null, Error} =>
      \E n \in Contains[asked[c]] : started[n] = answer[c]

\* Inductive strengthening: who has not asked has no answer.
AnsweredOnlyIfAsked ==
  \A c \in Connections : asked[c] = Null => answer[c] = Null
PromiseInv == TypeOK /\ AnsweredByNamed /\ AnsweredOnlyIfAsked
=============================================================================
