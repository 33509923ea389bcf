------------------------- MODULE AudioCaptureProofs -------------------------
(***************************************************************************)
(* What AudioCapture guarantees for every number of recordings, with any   *)
(* combination of timeouts, orphaned workers, failing backend calls and    *)
(* failing file operations.                                                *)
(***************************************************************************)
EXTENDS AudioCapture, TLAPS

\* The caller has a recording: from the moment it opened one until it published
\* or failed.
Begun ==
  \/ caller \in {"wait", "giveup", "retry", "settle"} \union StopSteps
  \/ caller = "out" /\ result = "started"

\* A living worker is the recording's, or is kept as an orphan; where the backend
\* is closed, or a worker is about to be spawned, none lives.
FreeInv ==
  /\ caller \in {"release", "open", "abort", "close", "publish"} => ~Alive
  /\ caller \in {"release", "open"} => state = "IDLE"
  /\ Alive /\ state = "IDLE" => orphan = "kept"
  /\ Alive => owner # NoSession

\* Sessions are numbered upwards: nothing is known of one that has not begun.
SessionInv ==
  /\ caller \in {"release", "open"} => session < MaxSessions
  /\ owner <= session
  /\ \A s \in damaged : s <= session

\* A recording that is on has its own worker and an open file, and audio it lost
\* is remembered as an error.
RecordingInv ==
  Begun =>
    /\ state = "RECORDING" /\ temp = "open"
    /\ owner = session /\ session # NoSession
    /\ session \in damaged => workerError = session /\ caller # "publish"

\* Without a recording there is nothing to clean up.
IdleInv ==
  /\ state = "IDLE" => stopping = "no"
  /\ caller = "out" /\ result \in {"none", "artifact", "failed"} =>
       state = "IDLE" /\ temp = "none"

IInv == TypeOK /\ FreeInv /\ SessionInv /\ RecordingInv /\ IdleInv /\ ErrorsAreOwn

-----------------------------------------------------------------------------
(* Steps of the two threads.                                               *)

\* The bound alone: the provers do better without the Boolean constant.
LEMMA BoundIsNat == MaxSessions \in Nat
BY AudioCaptureAssumption

\* The initial state satisfies it.
LEMMA IInit == Init => IInv
BY BoundIsNat
   DEF Init, IInv, TypeOK, FreeInv, SessionInv, RecordingInv, IdleInv, ErrorsAreOwn, Begun,
       Alive, Results, StopSteps, StartSteps, NoSession, Sessions

\* Every step keeps the types.
LEMMA TypeStep == TypeOK /\ FreeInv /\ SessionInv /\ Next => TypeOK'
<1>. SUFFICES ASSUME TypeOK, FreeInv, SessionInv, Next PROVE TypeOK'
  OBVIOUS
<1>. USE BoundIsNat
     DEF TypeOK, StartSteps, StopSteps, Results, Sessions, NoSession, Goto, Out, callVars,
         fileVars, workerVars, errorVars
<1>1. CASE Start
  BY <1>1 DEF Start
<1>2. CASE Stop
  BY <1>2 DEF Stop
<1>3. CASE ReleaseLeftover \/ AbortStart \/ CloseStream
  BY <1>3 DEF ReleaseLeftover, AbortStart, CloseStream, CloseBackend
<1>4. CASE OpenAndSpawn \/ SpawnFails
  <2>1. NextSession \in Sessions
    BY <1>4 DEF OpenAndSpawn, SpawnFails, NextSession, SessionInv
  <2>2. CASE OpenAndSpawn
    BY <2>1, <2>2 DEF OpenAndSpawn, ErrorsCleared
  <2>3. CASE SpawnFails
    BY <2>1, <2>3 DEF SpawnFails, ErrorsCleared
  <2>. QED
    BY <1>4, <2>2, <2>3
<1>5. CASE OpenFails
  <2>1. NextSession \in Sessions
    BY <1>5 DEF OpenFails, NextSession, SessionInv
  <2>. QED
    BY <1>5, <2>1 DEF OpenFails
<1>6. CASE WorkerReported \/ WaitTimesOut \/ JoinStarted \/ JoinWorker
  BY <1>6 DEF WorkerReported, WaitTimesOut, JoinStarted, JoinWorker
<1>7. CASE GiveUp \/ CloseQueue \/ AbortStream
  BY <1>7 DEF GiveUp, CloseQueue, AbortStream
<1>8. CASE Fail \/ FailEscapes
  <2>1. CASE Fail
    BY <2>1 DEF Fail, TempAfterFail, ErrorsCleared
  <2>2. CASE FailEscapes
    BY <2>2 DEF FailEscapes
  <2>. QED
    BY <1>8, <2>1, <2>2
<1>9. CASE Publish \/ PublishFails \/ PublishEscapes
  BY <1>9 DEF Publish, PublishFails, PublishEscapes
<1>10. CASE Worker
  <2>1. CASE Read
    <3>1. owner \in Sessions
      BY <2>1 DEF Read, FreeInv, Alive
    <3>2. damaged' \in SUBSET Sessions /\ owner \in 0 .. MaxSessions
      BY <2>1, <3>1 DEF Read
    <3>3. workerError' \in {workerError, owner} /\ worker' \in {"reading", "leaving"}
      BY <2>1 DEF Read, ErrorAfter
    <3>. QED
      BY <2>1, <3>2, <3>3 DEF Read
  <2>2. CASE BackendStarts \/ BackendDoesNotStart \/ ReadEnds \/ Leave
    BY <2>2 DEF BackendStarts, BackendDoesNotStart, ErrorAfter, ReadEnds, Leave
  <2>. QED
    BY <1>10, <2>1, <2>2 DEF Worker
<1>. QED
  BY <1>1, <1>2, <1>3, <1>4, <1>5, <1>6, <1>7, <1>8, <1>9, <1>10 DEF Next, Caller, CallerAlone, InBackend

\* The parts of the invariant beside the types.
Parts == FreeInv /\ SessionInv /\ RecordingInv /\ IdleInv /\ ErrorsAreOwn

\* start(), from the guard to the answer.
LEMMA PartsOfStart ==
  ASSUME TypeOK, Parts,
         Start \/ ReleaseLeftover \/ OpenAndSpawn \/ SpawnFails \/ OpenFails \/ WorkerReported
           \/ WaitTimesOut \/ GiveUp \/ JoinStarted \/ AbortStart
  PROVE  Parts'
<1>. USE DEF Parts, FreeInv, SessionInv, RecordingInv, IdleInv, ErrorsAreOwn, Begun, Alive,
             StopSteps, callVars, fileVars, workerVars, errorVars, Goto, Out
<1>0. session \in Nat /\ owner \in Nat /\ \A s \in damaged : s \in Nat
  BY BoundIsNat DEF TypeOK, Sessions
<1>1. CASE Start
  BY <1>0, <1>1 DEF Start, MayStart
<1>2. CASE ReleaseLeftover \/ AbortStart
  BY <1>2 DEF ReleaseLeftover, AbortStart, CloseBackend
<1>3. CASE OpenAndSpawn \/ SpawnFails
  <2>1. \A s \in damaged : s # session + 1
    BY <1>0
  <2>. QED
    BY <1>0, <1>3, <2>1 DEF OpenAndSpawn, SpawnFails, NextSession, ErrorsCleared, NoSession
<1>4. CASE OpenFails
  BY <1>0, <1>4 DEF OpenFails, NextSession
<1>5. CASE WorkerReported \/ WaitTimesOut \/ JoinStarted
  BY <1>5 DEF WorkerReported, WaitTimesOut, JoinStarted
<1>6. CASE GiveUp
  BY <1>6 DEF GiveUp
<1>. QED
  BY <1>1, <1>2, <1>3, <1>4, <1>5, <1>6

\* stop(), and the way out of a failure.
LEMMA PartsOfStop ==
  ASSUME TypeOK, Parts,
         Stop \/ CloseQueue \/ AbortStream \/ JoinWorker \/ CloseStream \/ Publish
           \/ PublishFails \/ PublishEscapes \/ Fail \/ FailEscapes
  PROVE  Parts'
<1>. USE DEF Parts, FreeInv, SessionInv, RecordingInv, IdleInv, ErrorsAreOwn, Begun, Alive,
             StopSteps, callVars, fileVars, workerVars, errorVars, Goto, Out
<1>1. CASE Stop
  BY <1>1 DEF Stop
<1>2. CASE CloseQueue \/ AbortStream \/ JoinWorker
  BY <1>2 DEF CloseQueue, AbortStream, JoinWorker
<1>3. CASE CloseStream
  BY <1>3 DEF CloseStream, CloseBackend, RecordedErrors
<1>4. CASE Publish \/ PublishFails
  BY <1>4 DEF Publish, PublishFails
<1>5. CASE PublishEscapes
  BY <1>5 DEF PublishEscapes
<1>6. CASE Fail
  BY <1>6 DEF Fail, TempAfterFail, ErrorsCleared, TypeOK
<1>7. CASE FailEscapes
  BY <1>7 DEF FailEscapes
<1>. QED
  BY <1>1, <1>2, <1>3, <1>4, <1>5, <1>6, <1>7

\* The worker.
LEMMA PartsOfWorker ==
  ASSUME TypeOK, Parts, Worker
  PROVE  Parts'
<1>. USE DEF Parts, FreeInv, SessionInv, RecordingInv, IdleInv, ErrorsAreOwn, Begun, Alive,
             StopSteps, callVars, fileVars, workerVars, errorVars
<1>0. session \in Nat /\ owner \in Nat /\ \A s \in damaged : s \in Nat
  BY BoundIsNat DEF TypeOK, Sessions
<1>1. CASE BackendStarts \/ BackendDoesNotStart \/ ReadEnds \/ Leave
  BY <1>0, <1>1 DEF BackendStarts, BackendDoesNotStart, ReadEnds, Leave, ErrorAfter
<1>2. CASE Read
  BY <1>0, <1>2 DEF Read, ErrorAfter
<1>. QED
  BY <1>1, <1>2 DEF Worker

\* The invariant is inductive.
LEMMA IStep == IInv /\ [Next]_vars => IInv'
<1>. SUFFICES ASSUME IInv, [Next]_vars PROVE IInv'
  OBVIOUS
<1>1. CASE Next
  <2>1. TypeOK'
    BY <1>1, TypeStep DEF IInv
  <2>2. Parts'
    BY <1>1, PartsOfStart, PartsOfStop, PartsOfWorker
       DEF IInv, Parts, Next, Caller, CallerAlone, InBackend
  <2>. QED
    BY <2>1, <2>2 DEF IInv, Parts
<1>2. CASE UNCHANGED vars
  BY <1>2 DEF vars, callVars, fileVars, workerVars, errorVars, IInv, TypeOK, FreeInv, SessionInv,
     RecordingInv, IdleInv, ErrorsAreOwn, Begun, Alive
<1>. QED
  BY <1>1, <1>2

-----------------------------------------------------------------------------
(* The theorems.                                                           *)

\* The strengthened invariant of the capture.
THEOREM CaptureInductive == Spec => []IInv
BY IInit, IStep, PTL DEF Spec

\* Whatever times out, the caller closes the backend, or spawns a worker, only
\* when no earlier worker is still inside it.
THEOREM BackendFree == Spec => []BackendIsFree
<1>1. IInv => BackendIsFree
  BY DEF IInv, FreeInv, BackendIsFree
<1>. QED
  BY <1>1, CaptureInductive, PTL

\* A WAV is published only if its session lost no audio and its worker is gone.
THEOREM PublishedWhole == Spec => []PublishedIsWhole
<1>1. IInv => PublishedIsWhole
  BY DEF IInv, FreeInv, RecordingInv, Begun, StopSteps, PublishedIsWhole
<1>. QED
  BY <1>1, CaptureInductive, PTL

\* No recording is blamed for the error of an orphan.
THEOREM ErrorsOwn == Spec => []ErrorsAreOwn
<1>1. IInv => ErrorsAreOwn
  BY DEF IInv
<1>. QED
  BY <1>1, CaptureInductive, PTL

\* What start() and stop() answer agrees with what they leave behind.
THEOREM CallsHonest == Spec => []CallsAreHonest
<1>1. IInv => CallsAreHonest
  BY DEF IInv, TypeOK, Results, RecordingInv, Begun, IdleInv, CallsAreHonest
<1>. QED
  BY <1>1, CaptureInductive, PTL

=============================================================================
