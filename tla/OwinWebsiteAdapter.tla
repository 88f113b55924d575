-------------------------- MODULE OwinWebsiteAdapter --------------------------
(***************************************************************************)
(* WebsiteAdapter/OwinWebsiteAdapter.cs: one call of ParseRequest (WCF     *)
(* makes an adapter for each) and the website's task that it starts and    *)
(* waits five seconds for.  Both use one environment: the website fills in *)
(* a status, headers and a body, and nothing stops it from going on while  *)
(* the adapter, tired of waiting, makes a response of what is there.       *)
(*                                                                         *)
(* The website is external: it sets its status, adds headers, and writes   *)
(* its body, in that order, and ends, fails or hangs at any point, also    *)
(* before it has handed over its task, when the adapter is not yet waiting *)
(* but running the website's code.  Headers and bytes are counted.         *)
(***************************************************************************)
EXTENDS Naturals

CONSTANTS MaxHeaders, MaxBody   \* bounds: what the website wants to answer

ASSUME SizeAssumption == MaxHeaders \in Nat /\ MaxBody \in Nat

VARIABLES
  task,          \* the website's work: "none", "running", "done" or "failed"
  status,        \* environment: owin.ResponseStatusCode; 0 when there is none
  headers,       \* environment: the number of owin.ResponseHeaders
  body,          \* environment: the bytes written to owin.ResponseBody, or
                 \* NoStream when that is not an HttpResponseStream
  pc,            \* what ParseRequest does next
  timedOut,      \* history: Wait has returned false
  responseStatus,  \* responseStatusCode, then StatusCode of the response
  responseHeaders, \* how many headers have been copied to the response
  enumerated,    \* how many headers there were when their loop began
  sent           \* the bytes of the body that were serialised

envVars == <<task, status, headers, body>>
readVars == <<responseStatus, responseHeaders, enumerated, sent>>
vars == <<envVars, pc, timedOut, readVars>>

NoStream == MaxBody + 1

Init ==
  /\ task = "none" /\ status = 0 /\ headers = 0 /\ body = 0
  /\ pc = "invoking"
  /\ timedOut = FALSE
  /\ responseStatus = 0 /\ responseHeaders = 0 /\ enumerated = 0 /\ sent = 0

Goto(from, to) == pc = from /\ pc' = to
-----------------------------------------------------------------------------
(* The website                                                               *)

SetStatus ==
  /\ task = "running" /\ status = 0
  /\ status' = 200
  /\ UNCHANGED <<task, headers, body, pc, timedOut, readVars>>

AddHeader ==
  /\ task = "running" /\ status # 0 /\ headers < MaxHeaders /\ body = 0
  /\ headers' = headers + 1
  /\ UNCHANGED <<task, status, body, pc, timedOut, readVars>>

WriteBody ==
  /\ task = "running" /\ status # 0 /\ headers = MaxHeaders /\ body < MaxBody
  /\ body' = body + 1
  /\ UNCHANGED <<task, status, headers, pc, timedOut, readVars>>

Complete ==
  /\ task = "running" /\ status # 0 /\ headers = MaxHeaders /\ body = MaxBody
  /\ task' = "done"
  /\ UNCHANGED <<status, headers, body, pc, timedOut, readVars>>

Fail ==
  /\ task = "running"
  /\ task' = "failed"
  /\ UNCHANGED <<status, headers, body, pc, timedOut, readVars>>
-----------------------------------------------------------------------------
(* InvokeStartupClass                                                        *)

\* The website's code is called, ...
Call ==
  /\ pc = "invoking" /\ task = "none"
  /\ task' = "running"
  /\ UNCHANGED <<status, headers, body, pc, timedOut, readVars>>

\* ... and returns a task, whatever it has done by then, ...
Invoke ==
  /\ task # "none"
  /\ Goto("invoking", "waiting")
  /\ UNCHANGED <<envVars, timedOut, readVars>>

\* ... or throws, or returns none: not the exception that is caught.  Or it
\* does neither, and the call has no end.
InvokeThrows ==
  /\ task # "none"
  /\ Goto("invoking", "faulted")
  /\ UNCHANGED <<envVars, timedOut, readVars>>

\* Mutant: the wait is over as soon as there is a status.
WaitReturns_Early ==
  /\ status # 0
  /\ Goto("waiting", "readingStatus")
  /\ UNCHANGED <<envVars, timedOut, readVars>>

WaitReturns ==
  /\ task = "done"
  /\ Goto("waiting", "readingStatus")
  /\ UNCHANGED <<envVars, timedOut, readVars>>

\* Mutant: Wait without a limit.
WaitTimesOut_Never == pc = "waiting" /\ timedOut /\ UNCHANGED vars

\* Five seconds are over.  The result of Wait is not looked at.
WaitTimesOut ==
  /\ task = "running"
  /\ timedOut' = TRUE
  /\ Goto("waiting", "readingStatus")
  /\ UNCHANGED <<envVars, readVars>>

\* The task has failed: the environment gets status 500 and a body that is a
\* MemoryStream.
WaitThrows ==
  /\ task = "failed"
  /\ status' = 500 /\ body' = NoStream
  /\ Goto("waiting", "readingStatus")
  /\ UNCHANGED <<task, headers, timedOut, readVars>>
-----------------------------------------------------------------------------
(* ParseRequest, from "Parse response" on                                    *)

ReadStatus ==
  /\ Goto("readingStatus", "readingStream")
  /\ responseStatus' = status
  /\ UNCHANGED <<envVars, timedOut, responseHeaders, enumerated, sent>>

\* Mutant: the type of the body is not looked at.
ReadStream_Unchecked ==
  /\ Goto("readingStream", "copyingHeaders")
  /\ enumerated' = headers
  /\ UNCHANGED <<envVars, timedOut, responseStatus, responseHeaders, sent>>

\* Get finds an HttpResponseStream; the loop over the headers begins.
ReadStream ==
  /\ body # NoStream
  /\ Goto("readingStream", "copyingHeaders")
  /\ enumerated' = headers
  /\ UNCHANGED <<envVars, timedOut, responseStatus, responseHeaders, sent>>

\* Get returns null for a body of another type, and setting HttpVersion throws.
ReadStreamThrows ==
  /\ body = NoStream
  /\ Goto("readingStream", "faulted")
  /\ UNCHANGED <<envVars, timedOut, readVars>>

\* One turn of the loop over the headers.
CopyHeader ==
  /\ Goto("copyingHeaders", "copyingHeaders")
  /\ headers = enumerated /\ responseHeaders < enumerated
  /\ responseHeaders' = responseHeaders + 1
  /\ UNCHANGED <<envVars, timedOut, responseStatus, enumerated, sent>>

\* The website has added a header: the enumerator throws.
CopyHeaderThrows ==
  /\ Goto("copyingHeaders", "faulted")
  /\ headers # enumerated
  /\ UNCHANGED <<envVars, timedOut, readVars>>

CopiedHeaders ==
  /\ Goto("copyingHeaders", "serialising")
  /\ headers = enumerated /\ responseHeaders = enumerated
  /\ UNCHANGED <<envVars, timedOut, readVars>>

\* The response goes back over the channel with the body as it is by now.
Return ==
  /\ Goto("serialising", "returned")
  /\ sent' = body
  /\ UNCHANGED <<envVars, timedOut, responseStatus, responseHeaders, enumerated>>

\* Writing to the stream of a website may go on after that, unseen.
Over == pc \in {"returned", "faulted"} /\ UNCHANGED vars

Website ==
  \/ SetStatus \/ AddHeader \/ WriteBody \/ Complete \/ Fail
  \/ Invoke \/ InvokeThrows
Wait == WaitReturns \/ WaitTimesOut \/ WaitThrows
ParseRequest ==
  \/ Call \/ Wait \/ ReadStatus \/ ReadStream \/ ReadStreamThrows
  \/ CopyHeader \/ CopyHeaderThrows \/ CopiedHeaders \/ Return

Next == Website \/ ParseRequest \/ Over

Spec == Init /\ [][Next]_vars

(***************************************************************************)
(* Fairness.  The adapter's own code runs on, and the wait ends when its   *)
(* time is over.  Nothing is asked of the website, not even that it return *)
(* from ProcessRequest (Invoke).                                           *)
(***************************************************************************)
FairSpec == Spec /\ WF_vars(ParseRequest)
-----------------------------------------------------------------------------
TypeOK ==
  /\ task \in {"none", "running", "done", "failed"}
  /\ status \in {0, 200, 500} /\ responseStatus \in {0, 200, 500}
  /\ headers \in 0..MaxHeaders
  /\ responseHeaders \in 0..MaxHeaders /\ enumerated \in 0..MaxHeaders
  /\ body \in 0..NoStream /\ sent \in 0..MaxBody
  /\ pc \in {"invoking", "waiting", "readingStatus", "readingStream",
             "copyingHeaders", "serialising", "returned", "faulted"}
  /\ timedOut \in BOOLEAN

\* A response that the time limit did not cut short is the website's, whole; so a
\* website that fails in time never comes back as a response of any kind.
WholeUnlessTimedOut ==
  pc = "returned" /\ ~timedOut =>
    /\ responseStatus = 200 /\ responseHeaders = MaxHeaders /\ sent = MaxBody

(***************************************************************************)
(* Inductive strengthening: what a call that did not time out has seen.    *)
(***************************************************************************)
AfterWait == {"readingStatus", "readingStream", "copyingHeaders",
              "serialising", "returned"}

\* Only the end of the wait on a failed task changes status and stream, ...
ErrorSet ==
  /\ status = 500 => body = NoStream
  /\ body = NoStream =>
       task = "failed" /\ pc \in {"readingStatus", "readingStream", "faulted"}
\* ... a task that has ended well has written everything, ...
DoneIsWhole ==
  task = "done" => status = 200 /\ headers = MaxHeaders /\ body = MaxBody
\* ... a wait that was not cut short has seen the task end, ...
WaitSawEnd ==
  pc \in AfterWait /\ ~timedOut =>
    \/ task = "done"
    \/ task = "failed" /\ body = NoStream /\ pc \in {"readingStatus", "readingStream"}
\* ... and what has been read of a task that is done is all there is.
ReadsAreWhole ==
  task = "done" /\ ~timedOut =>
    /\ pc \in AfterWait \ {"readingStatus"} => responseStatus = 200
    /\ pc \in {"copyingHeaders", "serialising", "returned"} => enumerated = MaxHeaders
    /\ pc \in {"serialising", "returned"} => responseHeaders = MaxHeaders
    /\ pc = "returned" => sent = MaxBody

IndInv == TypeOK /\ ErrorSet /\ DoneIsWhole /\ WaitSawEnd /\ ReadsAreWhole

\* Once the website has handed over its task the call comes back, whatever the
\* website does then.  (ProcessRequest itself runs without a limit.)
CallEnds == pc = "waiting" ~> pc \in {"returned", "faulted"}
=============================================================================
