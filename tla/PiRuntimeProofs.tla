-------------------------- MODULE PiRuntimeProofs ---------------------------
(***************************************************************************)
(* What the wired process guarantees for every number of clients,          *)
(* recordings and presses: the controller and the flow keep what each was  *)
(* proved to keep alone, because each is to the other the environment it   *)
(* assumed, and no shutdown leaves anything behind, whether close()        *)
(* returned or raised.                                                     *)
(***************************************************************************)
EXTENDS PiRuntime, PendingFlowProofs

\* The controller's lemmas, about the controller of this process.
Controller == INSTANCE PushToTalkProofs
                WITH worker <- listener, closer <- stopper, app <- Application

\* The recorder of the flow is inside the callback the controller is in, and only
\* an exit of the interpreter refuses what it submits.
RecorderInv ==
  /\ recorder = "recording" <=> phase = "RECORDING"
  /\ recorder \in {"submit", "unscheduled", "retire", "discard"} => listener = "callback"
  /\ recorder \in {"unscheduled", "retire", "discard"} => closer \in {"exit", "exited"}

\* How far each part was closed when close(), or the exit after it, is at each of
\* its steps.
ClosingInv ==
  /\ runtime \in RuntimeSteps
  /\ runtime = "serving" => stopper = "open"
  /\ runtime \in {"serving", "controller", "aborted"} => closer = "open"
  /\ runtime \in {"flow", "client", "closed"} =>
       listener \in {"gone", "dead"} /\ closer \notin {"exit", "exited"}
  /\ runtime \in {"client", "closed"} => closer = "done"
  /\ runtime = "exiting" => closer \in {"open", "exit", "exited"}
  /\ runtime = "ended" => listener \in {"gone", "dead"} /\ closer = "exited"
  /\ closer \in {"done", "exited"} => queue = << >> /\ worker = "free"

FlowInv    == HandledInv /\ ProcessingHasOwner
RuntimeInv == FlowInv /\ Controller!IInv /\ RecorderInv /\ ClosingInv

-----------------------------------------------------------------------------
(* The application that the controller sees.                               *)

\* It is idle, recording or busy as the phase is.
LEMMA ApplicationIsPhase ==
  /\ Application \in {"idle", "recording", "busy"}
  /\ Application = "idle" <=> phase = "IDLE"
  /\ Application = "recording" <=> phase = "RECORDING"
BY DEF Application

\* And so it is after a step.
LEMMA ApplicationIsNextPhase ==
  /\ Application' \in {"idle", "recording", "busy"}
  /\ Application' = "idle" <=> phase' = "IDLE"
  /\ Application' = "recording" <=> phase' = "RECORDING"
BY DEF Application

\* The pool thread takes steps of the flow's worker, with the client open or closed.
LEMMA PoolSteps == PoolThread => Worker
BY DEF PoolThread, SendEnds, Worker

\* close() and the exit each take steps of the flow's closer.
LEMMA CloserSteps ==
  /\ CloseFlow => runtime = "flow" /\ Closer /\ UNCHANGED pttVars
  /\ InterpreterExits => runtime = "exiting" /\ Closer /\ UNCHANGED <<pttVars, runtime>>
BY DEF CloseFlow, FlowCloses, InterpreterExits, FlowStep, Closer

\* What no part of the flow but the callbacks does to it.
LEMMA FlowThreadsEndCycles ==
  ASSUME FlowThreads \/ OperatorRequest \/ CloseFlow \/ InterpreterExits
  PROVE  \/ Application' = Application
         \/ Application = "busy" /\ Application' = "idle"
<1>1. ASSUME Worker \/ Closer \/ Submit \/ AbandonUnscheduled \/ RetireUnscheduled \/ Discard
      PROVE  \/ phase' = phase
             \/ phase = "PROCESSING" /\ phase' \in {"IDLE", "WAIT_CONFIRMATION"}
  BY <1>1 DEF Worker, Take, AnswerAccepted, AnswerRejected, SenderRaised, Store, AbandonAnswer,
     CleanUp, AbandonFailedSend, Finish, Closer, SetClosed, ShutdownPool, ExitBegins,
     JoinPool, Submit, AbandonUnscheduled, RetireUnscheduled, Discard, Abandon, StillProcessing,
     flowVars
<1>2. ASSUME NEW c \in Clients, Client(c)
      PROVE  \/ phase' = phase
             \/ phase = "WAIT_CONFIRMATION" /\ phase' = "IDLE"
  BY <1>2 DEF Client, Request, EnterGateway, Execute, ClearSlot, flowVars
<1>3. \/ Worker \/ Closer \/ Submit \/ AbandonUnscheduled \/ RetireUnscheduled \/ Discard
      \/ \E c \in Clients : Client(c)
  BY PoolSteps, CloserSteps DEF FlowThreads, OperatorRequest, FlowStep, Client
<1>4. \/ phase' = phase
      \/ /\ phase \in {"PROCESSING", "WAIT_CONFIRMATION"}
         /\ phase' \in {"IDLE", "WAIT_CONFIRMATION"}
  BY <1>1, <1>2, <1>3
<1>. QED
  BY <1>4, ApplicationIsPhase, ApplicationIsNextPhase

-----------------------------------------------------------------------------
(* Each part takes steps of its own specification.                         *)

\* Every step of the process is a step of the flow, or leaves it alone.
LEMMA FlowTakesItsSteps == RuntimeNext => [Next]_vars
BY PoolSteps, CloserSteps
   DEF RuntimeNext, FlowThreads, OperatorRequest, ButtonEdge, ControllerThreads, AskFlow, Report,
       ReportReturns, Close, CloseButton, CloseController, CloseClient, Exit, MainClosesClient,
       ProcessEnds, FlowStep, PttStep, Next, Recorder, Client

\* Ptt and Controller name the same actions of the same module.
LEMMA SameController == [Ptt!Next]_(Ptt!vars) => [Controller!Next]_(Controller!vars)
BY DEF Ptt!buttonVars, Ptt!workerVars, Ptt!stateVars, Ptt!history, Ptt!vars,
       Ptt!Generations, Ptt!NoTimer, Ptt!NoKind, Ptt!Event, Ptt!NoEvent, Ptt!Closed,
       Ptt!Edge, Ptt!Press, Ptt!Release, Ptt!Enqueue, Ptt!TimerExpires, Ptt!Timeout,
       Ptt!TimerEnqueues, Ptt!Return, Ptt!IsCut, Ptt!StateAfter, Ptt!BeginStop,
       Ptt!Ignore, Ptt!Pressed, Ptt!Released, Ptt!MaxDuration, Ptt!Shutdown,
       Ptt!TakeEvent, Ptt!CallApplication, Ptt!Granted, Ptt!CompletedCallback,
       Ptt!ErrorCallback, Ptt!MayStart, Ptt!MayNotStart, Ptt!CaptureStarts,
       Ptt!WorkerAlone, Ptt!CaptureReturns,
       Ptt!CaptureDoesNotStart, Ptt!CaptureStops, Ptt!StopEscapes, Ptt!Deliver,
       Ptt!ReportError, Ptt!CallbackReturns, Ptt!Worker, Ptt!SetClosed, Ptt!CancelTimer,
       Ptt!PutShutdown, Ptt!WorkerAlive, Ptt!Join, Ptt!JoinTimesOut, Ptt!Closer,
       Ptt!CycleEnds, Ptt!Button, Ptt!Timer, Ptt!Next,
       Controller!buttonVars, Controller!workerVars, Controller!stateVars,
       Controller!history, Controller!vars, Controller!Generations, Controller!NoTimer,
       Controller!NoKind, Controller!Event, Controller!NoEvent, Controller!Closed,
       Controller!Edge, Controller!Press, Controller!Release, Controller!Enqueue,
       Controller!TimerExpires, Controller!Timeout, Controller!TimerEnqueues,
       Controller!Return, Controller!IsCut, Controller!StateAfter, Controller!BeginStop,
       Controller!Ignore, Controller!Pressed, Controller!Released,
       Controller!MaxDuration, Controller!Shutdown, Controller!TakeEvent,
       Controller!CallApplication, Controller!Granted, Controller!CompletedCallback,
       Controller!ErrorCallback, Controller!MayStart, Controller!MayNotStart,
       Controller!CaptureStarts, Controller!CaptureDoesNotStart, Controller!CaptureStops,
       Controller!StopEscapes, Controller!Deliver, Controller!ReportError,
       Controller!CallbackReturns, Controller!WorkerAlone, Controller!CaptureReturns,
       Controller!Worker, Controller!SetClosed,
       Controller!CancelTimer, Controller!PutShutdown, Controller!WorkerAlive,
       Controller!Join, Controller!JoinTimesOut, Controller!Closer, Controller!CycleEnds,
       Controller!Button, Controller!Timer, Controller!Next

\* What the two parts know of each other when the worker reports.
LEMMA ReportingState ==
  ASSUME RuntimeInv
  PROVE  /\ listener \in {"completed", "failed"} => phase = "RECORDING" /\ recorder = "recording"
         /\ listener = "completed" => ~Refused
<1>1. listener \in {"completed", "failed"} => phase = "RECORDING"
  BY ApplicationIsPhase DEF RuntimeInv, Controller!IInv, Controller!ControlInv, Controller!AppAgrees
<1>2. phase = "RECORDING" => pending = NoOperation
  BY DEF RuntimeInv, FlowInv, HandledInv, IInv, SlotInv, PhaseMatchesSlot
<1>3. listener = "completed" => ~Closed
  BY DEF RuntimeInv, ClosingInv, RuntimeSteps, Closed
<1>. QED
  BY <1>1, <1>2, <1>3 DEF RuntimeInv, RecorderInv, Refused

\* Every step of the process is a step of the controller: what the flow answers
\* and when it ends a cycle is what PushToTalk assumes of its application.
LEMMA ControllerTakesItsSteps ==
  RuntimeInv /\ [RuntimeNext]_runtimeVars => [Ptt!Next]_(Ptt!vars)
<1>. SUFFICES ASSUME RuntimeInv, [RuntimeNext]_runtimeVars PROVE [Ptt!Next]_(Ptt!vars)
  OBVIOUS
<1>. USE DEF pttVars, Ptt!vars, Ptt!buttonVars, Ptt!workerVars, Ptt!stateVars, Ptt!history
<1>1. ASSUME UNCHANGED pttVars,
             \/ Application' = Application
             \/ Application = "busy" /\ Application' = "idle"
      PROVE  [Ptt!Next]_(Ptt!vars)
  BY <1>1 DEF Ptt!Next, Ptt!CycleEnds
<1>2. CASE FlowThreads \/ OperatorRequest \/ CloseFlow \/ InterpreterExits
  <2>1. UNCHANGED pttVars
    BY <1>2, CloserSteps DEF FlowThreads, OperatorRequest, FlowStep
  <2>. QED
    BY <1>1, <1>2, <2>1, FlowThreadsEndCycles
<1>3. CASE ButtonEdge \/ ControllerThreads \/ ReportReturns
  BY <1>3 DEF ButtonEdge, ControllerThreads, ReportReturns, PttStep, Ptt!Next, Ptt!Button,
     Ptt!Worker, Ptt!WorkerAlone, Ptt!CaptureReturns
<1>4. CASE AskFlow
  <2>1. CASE TryBeginRecording /\ Ptt!Granted
    <3>1. Application = "idle" /\ Application' = "recording"
      BY <2>1, ApplicationIsPhase, ApplicationIsNextPhase DEF TryBeginRecording, MayBegin
    <3>. QED
      BY <2>1, <3>1 DEF Ptt!Next, Ptt!Worker, Ptt!WorkerAlone, Ptt!MayStart
  <2>2. CASE Ptt!MayNotStart
    BY <2>2 DEF Ptt!Next, Ptt!Worker, Ptt!WorkerAlone
  <2>. QED
    BY <1>4, <2>1, <2>2 DEF AskFlow
<1>5. CASE Report
  <2>1. CASE OnCaptureCompleted /\ Ptt!CompletedCallback
    <3>1. ~Refused
      BY <2>1, ReportingState DEF Ptt!CompletedCallback, Ptt!CallApplication
    <3>2. phase' = "PROCESSING"
      BY <2>1, <3>1 DEF OnCaptureCompleted
    <3>3. Application' = "busy"
      BY <3>2, ApplicationIsNextPhase
    <3>. QED
      BY <2>1, <3>3 DEF Ptt!Next, Ptt!Worker, Ptt!WorkerAlone, Ptt!Deliver
  <2>2. CASE OnCaptureError /\ Ptt!ErrorCallback
    <3>1. phase = "RECORDING"
      BY <2>2, ReportingState DEF Ptt!ErrorCallback, Ptt!CallApplication
    <3>2. phase' = "IDLE"
      BY <2>2, <3>1 DEF OnCaptureError
    <3>3. Application' = "idle"
      BY <3>2, ApplicationIsNextPhase
    <3>. QED
      BY <2>2, <3>3 DEF Ptt!Next, Ptt!Worker, Ptt!WorkerAlone, Ptt!ReportError
  <2>. QED
    BY <1>5, <2>1, <2>2 DEF Report
<1>6. CASE CloseController
  BY <1>6 DEF CloseController, Ptt!Next
<1>7. CASE CloseButton \/ CloseClient \/ MainClosesClient \/ ProcessEnds
              \/ UNCHANGED runtimeVars
  <2>1. UNCHANGED <<vars, pttVars>>
    BY <1>7 DEF CloseButton, CloseClient, MainClosesClient, ProcessEnds, runtimeVars
  <2>2. phase' = phase
    BY <2>1 DEF vars, flowVars
  <2>3. Application' = Application
    BY <2>2 DEF Application
  <2>. QED
    BY <1>1, <2>1, <2>3
<1>. QED
  BY <1>2, <1>3, <1>4, <1>5, <1>6, <1>7 DEF RuntimeNext, Close, Exit

-----------------------------------------------------------------------------
(* The callbacks, the order of close() and the exit.                       *)

\* The controller's own steps move neither a worker that is inside a callback nor
\* one that ended, and leave close() where it is.
LEMMA ControllerStepsKeep ==
  ASSUME ButtonEdge \/ ControllerThreads
  PROVE  /\ UNCHANGED <<vars, runtime, stopper>>
         /\ listener \in {"callback", "gone", "dead"} => listener' = listener
BY DEF ButtonEdge, ControllerThreads, PttStep, Ptt!Press, Ptt!Release, Ptt!Edge, Ptt!Enqueue,
       Ptt!Timer, Ptt!TimerExpires, Ptt!TimerEnqueues, Ptt!TakeEvent, Ptt!CaptureStarts,
       Ptt!CaptureDoesNotStart, Ptt!CaptureStops, Ptt!StopEscapes, Ptt!workerVars

\* While the worker is in a callback only the exit of the interpreter can have shut
\* the pool.
LEMMA OnlyExitShutsPool ==
  ASSUME RuntimeInv, listener = "callback", ~PoolOpen
  PROVE  closer \in {"exit", "exited"}
BY DEF RuntimeInv, ClosingInv, RuntimeSteps, PoolOpen

\* The recorder stays the controller's callback.
LEMMA RecorderStep == RuntimeInv /\ [RuntimeNext]_runtimeVars => RecorderInv'
<1>. SUFFICES ASSUME RuntimeInv, [RuntimeNext]_runtimeVars PROVE RecorderInv'
  OBVIOUS
<1>0. RecorderInv
  BY DEF RuntimeInv
<1>1. CASE FlowThreads \/ OperatorRequest \/ CloseFlow \/ InterpreterExits
  <2>1. phase = "RECORDING" <=> phase' = "RECORDING"
    BY <1>1, FlowThreadsEndCycles, ApplicationIsPhase, ApplicationIsNextPhase
  <2>2. listener' = listener
    BY <1>1, CloserSteps DEF FlowThreads, OperatorRequest, FlowStep, pttVars
  <2>3. CASE Submit
    BY <1>0, <2>1, <2>2, <2>3, OnlyExitShutsPool DEF Submit, RecorderInv
  <2>4. CASE AbandonUnscheduled \/ RetireUnscheduled \/ Discard
    BY <1>0, <2>1, <2>2, <2>4
       DEF RecorderInv, AbandonUnscheduled, RetireUnscheduled, Discard
  <2>5. CASE Worker \/ Closer \/ \E c \in Clients : Client(c)
    <3>1. recorder' = recorder
      BY <2>5, ClientsFrame
         DEF recorderVars, Worker, Take, AnswerAccepted, AnswerRejected, SenderRaised, Store,
             AbandonAnswer, CleanUp, AbandonFailedSend, Finish, Closer, SetClosed, ShutdownPool,
             ExitBegins, JoinPool
    <3>2. closer' = closer \/ Closer
      BY <2>5, ClientsFrame
         DEF Worker, Take, AnswerAccepted, AnswerRejected, SenderRaised, Store, AbandonAnswer,
             CleanUp, AbandonFailedSend, Finish
    <3>3. closer \in {"exit", "exited"} => closer' \in {"exit", "exited"}
      BY <3>2 DEF Closer, SetClosed, ShutdownPool, ExitBegins, JoinPool
    <3>. QED
      BY <1>0, <2>1, <2>2, <3>1, <3>3 DEF RecorderInv
  <2>. QED
    BY <1>1, <2>3, <2>4, <2>5, PoolSteps, CloserSteps
       DEF FlowThreads, OperatorRequest, FlowStep, Client
<1>2. CASE ButtonEdge \/ ControllerThreads
  BY <1>0, <1>2, ControllerStepsKeep DEF vars, flowVars, recorderVars, RecorderInv
<1>3. CASE AskFlow
  <2>1. CASE TryBeginRecording
    BY <2>1 DEF TryBeginRecording, RecorderInv
  <2>2. CASE UNCHANGED vars /\ Ptt!MayNotStart
    BY <1>0, <2>2 DEF vars, flowVars, recorderVars, Ptt!MayNotStart, RecorderInv
  <2>. QED
    BY <1>3, <2>1, <2>2 DEF AskFlow
<1>4. CASE Report
  <2>1. CASE OnCaptureCompleted /\ Ptt!CompletedCallback
    BY <2>1, ReportingState
       DEF OnCaptureCompleted, Ptt!CompletedCallback, Ptt!CallApplication, RecorderInv
  <2>2. CASE OnCaptureError /\ Ptt!ErrorCallback
    BY <2>2, ReportingState
       DEF OnCaptureError, Ptt!ErrorCallback, Ptt!CallApplication, RecorderInv
  <2>. QED
    BY <1>4, <2>1, <2>2 DEF Report
<1>5. CASE ReportReturns
  BY <1>0, <1>5 DEF ReportReturns, PttStep, vars, flowVars, recorderVars, RecorderInv
<1>6. CASE CloseController
  BY <1>0, <1>6 DEF CloseController, Ptt!Closer, Ptt!SetClosed, Ptt!CancelTimer, Ptt!PutShutdown,
     Ptt!Join, Ptt!JoinTimesOut, Ptt!workerVars, vars, flowVars, recorderVars, RecorderInv
<1>7. CASE CloseButton \/ CloseClient \/ MainClosesClient \/ ProcessEnds
              \/ UNCHANGED runtimeVars
  BY <1>0, <1>7 DEF CloseButton, CloseClient, MainClosesClient, ProcessEnds, runtimeVars, vars,
     flowVars, recorderVars, pttVars, RecorderInv
<1>. QED
  BY <1>1, <1>2, <1>3, <1>4, <1>5, <1>6, <1>7 DEF RuntimeNext, Close, Exit

\* A pool that was drained gets no more work, whoever shut it.
LEMMA DrainedStays ==
  ASSUME RuntimeInv, FlowThreads \/ OperatorRequest, closer \in {"done", "exited"}
  PROVE  UNCHANGED <<queue, worker>>
<1>1. queue = << >> /\ worker = "free" /\ ~PoolOpen
  BY DEF RuntimeInv, ClosingInv, PoolOpen
<1>2. ~Worker
  BY <1>1 DEF Worker, Take, AnswerAccepted, AnswerRejected, SenderRaised, Store,
     AbandonAnswer, CleanUp, AbandonFailedSend, Finish
<1>3. CASE Submit \/ AbandonUnscheduled \/ RetireUnscheduled \/ Discard
  BY <1>1, <1>3 DEF Submit, AbandonUnscheduled, RetireUnscheduled, Discard, workerVars
<1>4. CASE \E c \in Clients : Client(c)
  BY <1>4, ClientsFrame DEF workerVars
<1>. QED
  BY <1>2, <1>3, <1>4, PoolSteps DEF FlowThreads, OperatorRequest, FlowStep, Client

\* close() goes on to the next part only when the one before it is closed, and the
\* process ends only when every thread did.
LEMMA ClosingStep == RuntimeInv /\ [RuntimeNext]_runtimeVars => ClosingInv'
<1>. SUFFICES ASSUME RuntimeInv, [RuntimeNext]_runtimeVars PROVE ClosingInv'
  OBVIOUS
<1>0. ClosingInv
  BY DEF RuntimeInv
<1>1. CASE FlowThreads \/ OperatorRequest
  <2>1. UNCHANGED <<runtime, stopper, listener>>
    BY <1>1 DEF FlowThreads, OperatorRequest, FlowStep, pttVars
  <2>2. closer' = closer
    BY <1>1, ClientsFrame, PoolSteps
       DEF FlowThreads, OperatorRequest, FlowStep, Client, Submit, AbandonUnscheduled,
           RetireUnscheduled, Discard, Worker, Take, AnswerAccepted, AnswerRejected,
           SenderRaised, Store, AbandonAnswer, CleanUp, AbandonFailedSend, Finish
  <2>. QED
    BY <1>0, <1>1, <2>1, <2>2, DrainedStays DEF ClosingInv
<1>2. CASE ButtonEdge \/ ControllerThreads
  BY <1>0, <1>2, ControllerStepsKeep DEF vars, workerVars, ClosingInv
<1>3. CASE AskFlow \/ Report \/ ReportReturns
  <2>1. UNCHANGED <<closer, queue, worker, runtime, stopper>>
    BY <1>3 DEF AskFlow, Report, ReportReturns, PttStep, TryBeginRecording, OnCaptureCompleted,
       OnCaptureError, vars, workerVars, Ptt!Granted, Ptt!MayNotStart, Ptt!CompletedCallback,
       Ptt!ErrorCallback, Ptt!CallApplication, Ptt!CallbackReturns
  <2>2. listener \notin {"gone", "dead"}
    BY <1>3 DEF AskFlow, Report, ReportReturns, PttStep, Ptt!Granted, Ptt!MayNotStart,
       Ptt!CompletedCallback, Ptt!ErrorCallback, Ptt!CallApplication, Ptt!CallbackReturns
  <2>. QED
    BY <1>0, <2>1, <2>2 DEF ClosingInv
<1>4. CASE CloseController
  <2>1. UNCHANGED <<closer, queue, worker, listener>> /\ runtime = "controller"
    BY <1>4 DEF CloseController, vars, workerVars, Ptt!Closer, Ptt!SetClosed, Ptt!CancelTimer,
       Ptt!PutShutdown, Ptt!Join, Ptt!JoinTimesOut, Ptt!workerVars
  <2>2. stopper' = "done" => listener \in {"gone", "dead"}
    BY <1>4 DEF CloseController, Ptt!Closer, Ptt!SetClosed, Ptt!CancelTimer, Ptt!PutShutdown,
       Ptt!Join, Ptt!JoinTimesOut, Ptt!WorkerAlive
  <2>3. \/ runtime' = "controller"
        \/ runtime' = "aborted"
        \/ runtime' = "flow" /\ stopper' = "done"
    BY <1>4 DEF CloseController
  <2>. QED
    BY <1>0, <2>1, <2>2, <2>3 DEF ClosingInv, RuntimeSteps
<1>5. CASE CloseFlow
  <2>1. UNCHANGED <<listener, stopper>> /\ runtime = "flow"
    BY <1>5 DEF CloseFlow, pttVars
  <2>2. runtime' = IF closer' = "done" THEN "client" ELSE "flow"
    BY <1>5 DEF CloseFlow
  <2>3. closer' = "done" => queue' = << >> /\ worker' = "free"
    BY <1>5 DEF CloseFlow, FlowCloses, SetClosed, ShutdownPool, JoinPool, workerVars
  <2>4. closer' \notin {"exit", "exited"}
    BY <1>0, <1>5, <2>1
       DEF CloseFlow, FlowCloses, SetClosed, ShutdownPool, JoinPool, ClosingInv
  <2>. QED
    BY <1>0, <2>1, <2>2, <2>3, <2>4 DEF ClosingInv, RuntimeSteps
<1>6. CASE CloseButton \/ CloseClient \/ MainClosesClient \/ ProcessEnds
  BY <1>0, <1>6 DEF CloseButton, CloseClient, MainClosesClient, ProcessEnds, vars, pttVars,
     workerVars, ClosingInv, RuntimeSteps
<1>8. CASE InterpreterExits
  <2>1. UNCHANGED <<listener, stopper, runtime>> /\ runtime = "exiting"
    BY <1>8, CloserSteps DEF pttVars
  <2>2. \/ closer' = "exit"
        \/ closer' = "exited" /\ queue' = << >> /\ worker' = "free"
    BY <1>0, <1>8, <2>1
       DEF InterpreterExits, FlowStep, ExitBegins, JoinPool, ClosingInv, workerVars
  <2>. QED
    BY <1>0, <2>1, <2>2 DEF ClosingInv
<1>7. CASE UNCHANGED runtimeVars
  BY <1>0, <1>7 DEF runtimeVars, vars, pttVars, workerVars, ClosingInv
<1>. QED
  BY <1>1, <1>2, <1>3, <1>4, <1>5, <1>6, <1>7, <1>8 DEF RuntimeNext, Close, Exit

-----------------------------------------------------------------------------
(* The theorems.                                                           *)

\* The process starts with both parts in their initial states.
LEMMA RuntimeStarts == RuntimeInit => Ptt!Init /\ RuntimeInv
<1>. SUFFICES ASSUME RuntimeInit PROVE Ptt!Init /\ RuntimeInv
  OBVIOUS
<1>1. Init /\ phase = "IDLE"
  BY DEF RuntimeInit, Init
<1>2. Application = "idle"
  BY <1>1, ApplicationIsPhase
<1>3. Ptt!Init
  BY <1>2 DEF RuntimeInit, Ptt!Init, Ptt!NoKind, Ptt!NoTimer
<1>4. Controller!Init
  BY <1>3 DEF Ptt!Init, Ptt!NoKind, Ptt!NoTimer, Ptt!NoEvent, Ptt!Event, Controller!Init,
     Controller!NoKind, Controller!NoTimer, Controller!NoEvent, Controller!Event
<1>5. Controller!IInv
  BY <1>4, Controller!IInit, PiRuntimeAssumption
<1>6. HandledInv
  BY <1>1, HandledInit
<1>7. ProcessingHasOwner
  BY <1>1 DEF ProcessingHasOwner
<1>8. RecorderInv /\ ClosingInv
  BY DEF RuntimeInit, Init, RecorderInv, ClosingInv, RuntimeSteps
<1>. QED
  BY <1>3, <1>5, <1>6, <1>7, <1>8 DEF RuntimeInv, FlowInv

\* Each part keeps its invariant by its own lemmas, and the two that join them
\* are kept as well.
LEMMA RuntimeStep == RuntimeInv /\ [RuntimeNext]_runtimeVars => RuntimeInv'
<1>. SUFFICES ASSUME RuntimeInv, [RuntimeNext]_runtimeVars PROVE RuntimeInv'
  OBVIOUS
<1>1. [Next]_vars
  BY FlowTakesItsSteps DEF runtimeVars
<1>2. FlowInv'
  BY <1>1, HandledStep, OwnerStep DEF RuntimeInv, FlowInv, HandledInv
<1>3. [Controller!Next]_(Controller!vars)
  BY ControllerTakesItsSteps, SameController
<1>4. Controller!IInv'
  BY <1>3, Controller!IStep, PiRuntimeAssumption DEF RuntimeInv
<1>. QED
  BY <1>2, <1>4, RecorderStep, ClosingStep DEF RuntimeInv

\* The strengthened invariant of the process.
THEOREM RuntimeInductive == RuntimeSpec => []RuntimeInv
<1>1. RuntimeInit => RuntimeInv
  BY RuntimeStarts
<1>. QED
  BY <1>1, RuntimeStep, PTL DEF RuntimeSpec

\* The flow of the process is the flow of PendingFlow: what is proved of that one
\* holds here, with the controller as its recorder.
THEOREM RuntimeRunsFlow == RuntimeSpec => Spec
<1>1. RuntimeInit => Init
  BY DEF RuntimeInit
<1>2. [RuntimeNext]_runtimeVars => [Next]_vars
  BY FlowTakesItsSteps DEF runtimeVars
<1>. QED
  BY <1>1, <1>2, PTL DEF RuntimeSpec, Spec

\* The process keeps the promise to its operator: button, controller, threads and
\* pages together implement the abstract cycle.
THEOREM RuntimeImplementsCycle == RuntimeSpec => CycleSpec
BY RuntimeRunsFlow, ImplementsCycle

\* And the controller is the controller of PushToTalk: the flow answers it and
\* ends its cycles as that one assumes of its application.
THEOREM RuntimeRunsController == RuntimeSpec => ControllerContract
<1>1. RuntimeInit => Ptt!Init
  BY RuntimeStarts
<1>. QED
  BY <1>1, ControllerTakesItsSteps, RuntimeInductive, PTL
     DEF RuntimeSpec, ControllerContract, Ptt!Spec

\* The microphone is open only in the controller's RECORDING, also after a stop()
\* that killed the worker.
LEMMA MicrophoneInRecording ==
  ASSUME RuntimeInv, capture = "recording"
  PROVE  state = "RECORDING"
<1>1. listener \in Controller!WorkerSteps
  BY DEF RuntimeInv, Controller!IInv, Controller!TypeOK
<1>2. listener \in {"wait", "stop", "dead"}
  BY <1>1 DEF RuntimeInv, Controller!IInv, Controller!ControlInv, Controller!CaptureInv,
     Controller!CaptureInOrder, Controller!WorkerSteps
<1>. QED
  BY <1>2 DEF RuntimeInv, Controller!IInv, Controller!ControlInv, Controller!StepInv,
     Controller!CaptureInv, Controller!CaptureInOrder

\* The microphone is never open while an operation waits for its decision or is
\* being applied, whatever the button, the timer and the clients do meanwhile.
THEOREM DecisionWithoutMicrophone == RuntimeSpec => []NoRecordingOverDecision
<1>1. RuntimeInv => NoRecordingOverDecision
  <2>. SUFFICES ASSUME RuntimeInv, capture = "recording"
                PROVE  pending = NoOperation /\ \A c \in Clients : ~InGateway(c)
    BY DEF NoRecordingOverDecision
  <2>1. Application = "recording"
    BY MicrophoneInRecording
       DEF RuntimeInv, Controller!IInv, Controller!ControlInv, Controller!AppAgrees
  <2>2. phase = "RECORDING"
    BY <2>1, ApplicationIsPhase
  <2>. QED
    BY <2>2 DEF RuntimeInv, FlowInv, HandledInv, IInv, SlotInv, PhaseMatchesSlot, ClearCannotMiss
<1>. QED
  BY <1>1, RuntimeInductive, PTL

\* An orderly shutdown refuses no recording; and once close() returned, or the
\* process ended after a controller.close() that raised, there is no job, no timer,
\* no thread, no cycle still processing and no undeleted file.
THEOREM ShutdownComplete == RuntimeSpec => []ShutdownIsComplete
<1>1. RuntimeInv => OnlyExitRefuses
  <2>. SUFFICES ASSUME RuntimeInv, recorder \in {"unscheduled", "retire", "discard"}
                PROVE  runtime = "exiting" /\ closer \in {"exit", "exited"}
    BY DEF OnlyExitRefuses
  <2>1. listener = "callback" /\ closer \in {"exit", "exited"}
    BY DEF RuntimeInv, RecorderInv
  <2>. QED
    BY <2>1 DEF RuntimeInv, ClosingInv, RuntimeSteps
<1>2. RuntimeInv => NothingLeftBehind
  <2>. SUFFICES ASSUME RuntimeInv, runtime \in {"closed", "ended"} PROVE NothingLeftBehind
    BY DEF NothingLeftBehind
  <2>1. queue = << >> /\ worker = "free" /\ listener \in {"gone", "dead"}
    BY DEF RuntimeInv, ClosingInv
  <2>2. recorder \notin {"submit", "unscheduled", "retire", "discard"}
    BY <2>1 DEF RuntimeInv, RecorderInv
  <2>3. jobs = 0
    BY <2>1, <2>2
       DEF RuntimeInv, FlowInv, HandledInv, IInv, CountInv, JobsAreAccounted, WorkerBusy, One
  <2>4. armed = 0
    BY <2>1 DEF RuntimeInv, Controller!IInv, Controller!ControlInv, Controller!ArmedInv,
       Controller!NoTimer
  <2>5. DeleteAfterSend => \A wav \in files : Held(wav)
    BY DEF RuntimeInv, FlowInv, HandledInv, HeldInv
  <2>6. DeleteAfterSend => files \subseteq undeleted
    BY <2>1, <2>2, <2>5 DEF Held
  <2>7. phase # "PROCESSING"
    BY <2>1, <2>2 DEF RuntimeInv, FlowInv, ProcessingHasOwner, WorkerWillAnswer
  <2>. QED
    BY <2>1, <2>3, <2>4, <2>6, <2>7 DEF NothingLeftBehind
<1>3. RuntimeInv => ShutdownIsComplete
  BY <1>1, <1>2 DEF ShutdownIsComplete
<1>. QED
  BY <1>3, RuntimeInductive, PTL

=============================================================================
