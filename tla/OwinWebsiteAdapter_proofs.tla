---------------------- MODULE OwinWebsiteAdapter_proofs ----------------------
(***************************************************************************)
(* Proofs about OwinWebsiteAdapter.tla, for a website of any number of     *)
(* headers and any length of body: a response that the time limit did not  *)
(* cut short is the website's, whole.                                      *)
(***************************************************************************)
EXTENDS OwinWebsiteAdapter, TLAPS

\* A call that has not begun has seen nothing.
LEMMA InitIndInv == Init => IndInv
  <1> SUFFICES ASSUME Init PROVE IndInv
    OBVIOUS
  <1>1. 0 \in 0..MaxHeaders /\ 0 \in 0..MaxBody /\ 0 \in 0..NoStream
    BY SizeAssumption DEF NoStream
  <1>2. TypeOK
    BY <1>1 DEF Init, TypeOK
  <1> QED
    BY <1>1, <1>2, SizeAssumption DEF NoStream, Init, IndInv, ErrorSet, DoneIsWhole, WaitSawEnd, ReadsAreWhole, AfterWait

\* The website's own steps, its return included: a task that has not ended was
\* waited for in vain.
LEMMA WebsiteStep ==
  ASSUME IndInv, Website
  PROVE  IndInv'
  <1> USE SizeAssumption DEF IndInv, TypeOK, ErrorSet, DoneIsWhole, WaitSawEnd, ReadsAreWhole,
          NoStream, AfterWait, readVars, envVars, Goto
  <1>1. CASE SetStatus
    BY <1>1 DEF SetStatus
  <1>2. CASE AddHeader
    <2>1. headers + 1 \in 0..MaxHeaders
      BY <1>2 DEF AddHeader
    <2> QED
      BY <1>2, <2>1 DEF AddHeader
  <1>3. CASE WriteBody
    BY <1>3 DEF WriteBody
  <1>4. CASE Complete
    BY <1>4 DEF Complete
  <1>5. CASE Fail
    BY <1>5 DEF Fail
  <1>6. CASE Invoke
    BY <1>6 DEF Invoke
  <1>7. CASE InvokeThrows
    BY <1>7 DEF InvokeThrows
  <1> QED
    BY <1>1, <1>2, <1>3, <1>4, <1>5, <1>6, <1>7 DEF Website

\* The call of the website, and the end of the wait.
LEMMA WaitStep ==
  ASSUME IndInv, Call \/ Wait
  PROVE  IndInv'
  <1> USE SizeAssumption DEF IndInv, TypeOK, ErrorSet, DoneIsWhole, WaitSawEnd, ReadsAreWhole,
          NoStream, AfterWait, readVars, envVars, Goto
  <1>1. CASE Call
    BY <1>1 DEF Call
  <1>2. CASE WaitReturns
    BY <1>2 DEF WaitReturns
  <1>3. CASE WaitTimesOut
    BY <1>3 DEF WaitTimesOut
  <1>4. CASE WaitThrows
    BY <1>4 DEF WaitThrows
  <1> QED
    BY <1>1, <1>2, <1>3, <1>4 DEF Wait

\* The steps that make the response: each reads what no longer changes.
LEMMA ResponseStep ==
  ASSUME IndInv,
         \/ ReadStatus \/ ReadStream \/ ReadStreamThrows
         \/ CopyHeader \/ CopyHeaderThrows \/ CopiedHeaders \/ Return
  PROVE  IndInv'
  <1> USE SizeAssumption DEF NoStream, AfterWait, readVars, envVars, Goto
  <1>1. CASE ReadStatus
    <2>1. TypeOK'
      BY <1>1 DEF ReadStatus, IndInv, TypeOK, ErrorSet
    <2>2. ErrorSet' /\ DoneIsWhole' /\ WaitSawEnd'
      BY <1>1 DEF ReadStatus, IndInv, TypeOK, ErrorSet, DoneIsWhole, WaitSawEnd
    <2>3. ReadsAreWhole'
      BY <1>1 DEF ReadStatus, IndInv, TypeOK, DoneIsWhole, ReadsAreWhole
    <2> QED
      BY <2>1, <2>2, <2>3 DEF IndInv
  <1>2. CASE ReadStream
    <2>1. TypeOK'
      BY <1>2 DEF ReadStream, IndInv, TypeOK, ErrorSet
    <2>2. ErrorSet' /\ DoneIsWhole' /\ WaitSawEnd'
      <3>1. /\ pc = "readingStream" /\ pc' = "copyingHeaders" /\ body # NoStream
            /\ UNCHANGED <<task, status, headers, body, timedOut>>
        BY <1>2 DEF ReadStream
      <3>2. ErrorSet' /\ DoneIsWhole'
        BY <3>1 DEF IndInv, ErrorSet, DoneIsWhole
      <3>3. ~timedOut => task = "done"
        BY <3>1 DEF IndInv, WaitSawEnd
      <3> QED
        BY <3>1, <3>2, <3>3 DEF WaitSawEnd
    <2>3. ReadsAreWhole'
      BY <1>2 DEF ReadStream, IndInv, TypeOK, DoneIsWhole, ReadsAreWhole
    <2> QED
      BY <2>1, <2>2, <2>3 DEF IndInv
  <1>3. CASE ReadStreamThrows
    BY <1>3 DEF ReadStreamThrows, IndInv, TypeOK, ErrorSet, DoneIsWhole, WaitSawEnd, ReadsAreWhole
  <1>4. CASE CopyHeader
    <2>1. responseHeaders + 1 \in 0..MaxHeaders
      BY <1>4 DEF CopyHeader, IndInv, TypeOK
    <2> QED
      BY <1>4, <2>1 DEF CopyHeader, IndInv, TypeOK, ErrorSet, DoneIsWhole, WaitSawEnd, ReadsAreWhole
  <1>5. CASE CopyHeaderThrows
    BY <1>5 DEF CopyHeaderThrows, IndInv, TypeOK, ErrorSet, DoneIsWhole, WaitSawEnd, ReadsAreWhole
  <1>6. CASE CopiedHeaders
    <2>1. TypeOK'
      BY <1>6 DEF CopiedHeaders, IndInv, TypeOK, ErrorSet
    <2>2. ErrorSet' /\ DoneIsWhole' /\ WaitSawEnd'
      BY <1>6 DEF CopiedHeaders, IndInv, TypeOK, ErrorSet, DoneIsWhole, WaitSawEnd
    <2>3. ReadsAreWhole'
      BY <1>6 DEF CopiedHeaders, IndInv, TypeOK, DoneIsWhole, ReadsAreWhole
    <2> QED
      BY <2>1, <2>2, <2>3 DEF IndInv
  <1>7. CASE Return
    <2>1. TypeOK'
      BY <1>7 DEF Return, IndInv, TypeOK, ErrorSet
    <2>2. ErrorSet' /\ DoneIsWhole' /\ WaitSawEnd'
      BY <1>7 DEF Return, IndInv, TypeOK, ErrorSet, DoneIsWhole, WaitSawEnd
    <2>3. ReadsAreWhole'
      BY <1>7 DEF Return, IndInv, TypeOK, DoneIsWhole, ReadsAreWhole
    <2> QED
      BY <2>1, <2>2, <2>3 DEF IndInv
  <1> QED
    BY <1>1, <1>2, <1>3, <1>4, <1>5, <1>6, <1>7

\* Every step of the call or of the website preserves the invariant.
LEMMA NextIndInv == IndInv /\ [Next]_vars => IndInv'
  <1> SUFFICES ASSUME IndInv, [Next]_vars PROVE IndInv'
    OBVIOUS
  <1>1. CASE Website
    BY <1>1, WebsiteStep
  <1>2. CASE ParseRequest
    BY <1>2, WaitStep, ResponseStep DEF ParseRequest
  <1>3. CASE UNCHANGED vars
    BY <1>3 DEF IndInv, TypeOK, ErrorSet, DoneIsWhole, WaitSawEnd, ReadsAreWhole, vars,
                envVars, readVars
  <1> QED
    BY <1>1, <1>2, <1>3 DEF Next, Over

\* The invariant of a call (ParseRequest and InvokeStartupClass).
THEOREM AdapterIndInv == Spec => []IndInv
  BY InitIndInv, NextIndInv, PTL DEF Spec

\* A response that the time limit did not cut short is whole, and a website that
\* fails in time is never answered for (ParseRequest after task.Wait).
THEOREM AdapterWholeUnlessTimedOut == Spec => []WholeUnlessTimedOut
  <1>1. IndInv => WholeUnlessTimedOut
    BY SizeAssumption DEF IndInv, WaitSawEnd, ReadsAreWhole, WholeUnlessTimedOut, AfterWait
  <1> QED
    BY <1>1, AdapterIndInv, PTL
=============================================================================
