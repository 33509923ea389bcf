----------------------------- MODULE PiRuntime ------------------------------
(***************************************************************************)
(* PiRuntime: one process that wires the push-to-talk controller to the    *)
(* pending-operation flow and stops both.  PendingFlow is extended: its    *)
(* recorder is the controller's worker, whose callbacks run the flow's     *)
(* critical sections one by one.  PushToTalk is instantiated: the          *)
(* application it asks and reports to is the flow's phase.  main() is part *)
(* of it: when close() raises it closes the client and the interpreter     *)
(* exits, beside a controller worker that may still deliver a recording.   *)
(***************************************************************************)
EXTENDS PendingFlow

CONSTANT MaxPresses

\* The bound on recordings is never what refuses one.
ASSUME PiRuntimeAssumption ==
  MaxPresses \in Nat /\ MaxPresses <= MaxCycles

VARIABLES
  button, presses, gpio, events, armed, posting,    \* the controller, as in PushToTalk
  listener, handling, state, generation,            \* listener: its worker thread
  stopper,                                          \* controller.close()
  capture, expired, cut,
  runtime                                           \* how far close() got, and what main() did
                                                    \* after a close() that raised

RuntimeSteps == {"serving", "controller", "flow", "client", "closed",
                 "aborted", "exiting", "ended"}

pttVars == <<button, presses, gpio, events, armed, posting, listener, handling,
             state, generation, stopper, capture, expired, cut>>
runtimeVars == <<vars, pttVars, runtime>>

\* can_start_capture, on_capture_completed and on_capture_error are the flow's.
Application == CASE phase = "IDLE" -> "idle"
                 [] phase = "RECORDING" -> "recording"
                 [] OTHER -> "busy"

Ptt == INSTANCE PushToTalk
         WITH worker <- listener, closer <- stopper, app <- Application

RuntimeInit ==
  /\ Init
  /\ button = "up" /\ presses = 0 /\ gpio = "none" /\ events = << >>
  /\ armed = 0 /\ posting = {}
  /\ listener = "wait" /\ handling = Ptt!NoEvent
  /\ state = "IDLE" /\ generation = 0 /\ stopper = "open"
  /\ capture = "idle" /\ expired = {} /\ cut = {}
  /\ runtime = "serving"

-----------------------------------------------------------------------------
(* Steps of one part leave the other alone; a callback is a step of both.  *)

FlowStep(A) == A /\ UNCHANGED <<pttVars, runtime>>
PttStep(A)  == UNCHANGED vars /\ A /\ UNCHANGED runtime

ClientOpen == runtime \notin {"closed", "exiting", "ended"}

\* The closed client breaks the connection of a running send and raises at a new
\* one; an answer that was received before it closed was classified before it, too.
SendEnds ==
  \/ ClientOpen /\ (AnswerAccepted \/ AnswerRejected)
  \/ AnswerRejected /\ reason' = "TRANSPORT_ERROR"
  \/ SenderRaised

PoolThread ==
  Take \/ SendEnds \/ Store \/ AbandonAnswer \/ CleanUp \/ AbandonFailedSend \/ Finish

FlowThreads ==
  \/ FlowStep(Submit \/ AbandonUnscheduled \/ RetireUnscheduled \/ Discard)
  \/ FlowStep(PoolThread)
  \/ \E c \in Clients : FlowStep(EnterGateway(c) \/ Execute(c) \/ ClearSlot(c))

\* The web server runs until close() begins; calls it accepted may still finish.
OperatorRequest ==
  /\ runtime = "serving"
  /\ \E c \in Clients : FlowStep(Request(c))

\* Button.close() comes first, so no edge is reported after it.
ButtonEdge == runtime = "serving" /\ PttStep(Ptt!Press \/ Ptt!Release)

ControllerThreads ==
  \/ PttStep(Ptt!Enqueue) \/ PttStep(Ptt!Timer) \/ PttStep(Ptt!TakeEvent)
  \/ PttStep(Ptt!CaptureStarts) \/ PttStep(Ptt!CaptureDoesNotStart)
  \/ PttStep(Ptt!CaptureStops) \/ PttStep(Ptt!StopEscapes)

AskFlow ==
  /\ \/ TryBeginRecording /\ Ptt!Granted
     \/ ~MayBegin /\ UNCHANGED vars /\ Ptt!MayNotStart
  /\ UNCHANGED runtime

\* Mutated form: the capture error is logged and the flow never hears of it.
ReportOnlyCompleted ==
  /\ \/ OnCaptureCompleted /\ Ptt!CompletedCallback
     \/ UNCHANGED vars /\ Ptt!ErrorCallback
  /\ UNCHANGED runtime

Report ==
  /\ \/ OnCaptureCompleted /\ Ptt!CompletedCallback
     \/ OnCaptureError /\ Ptt!ErrorCallback
  /\ UNCHANGED runtime

\* The worker is inside on_capture_completed until the flow's part of it ended.
ReportReturns == recorder = "idle" /\ PttStep(Ptt!CallbackReturns)

-----------------------------------------------------------------------------
(* close(): button, controller, flow, client.                              *)

CloseButton ==
  /\ runtime = "serving"
  /\ runtime' = "controller"
  /\ UNCHANGED <<vars, pttVars>>

\* controller.close() may raise, and then close() closes nothing after it.
CloseController ==
  /\ runtime = "controller"
  /\ UNCHANGED vars
  /\ Ptt!Closer
  /\ runtime' = CASE stopper' = "done" -> "flow"
                  [] stopper' = "raised" -> "aborted"
                  [] OTHER -> runtime

FlowCloses == SetClosed \/ ShutdownPool \/ JoinPool

\* Mutated form: shutdown(wait=False).
CloseFlowWithoutWaiting ==
  /\ runtime = "flow"
  /\ FlowCloses
  /\ runtime' = IF closer' = "join" THEN "client" ELSE runtime
  /\ UNCHANGED pttVars

CloseFlow ==
  /\ runtime = "flow"
  /\ FlowCloses
  /\ runtime' = IF closer' = "done" THEN "client" ELSE runtime
  /\ UNCHANGED pttVars

CloseClient ==
  /\ runtime = "client"
  /\ runtime' = "closed"
  /\ UNCHANGED <<vars, pttVars>>

Close == CloseButton \/ CloseController \/ CloseFlow \/ CloseClient

-----------------------------------------------------------------------------
(* What follows a close() that raised: main()'s own finally, then the exit *)
(* of the interpreter, which shuts the pool, waits for its jobs and then   *)
(* for every other thread.                                                 *)

MainClosesClient ==
  /\ runtime = "aborted"
  /\ runtime' = "exiting"
  /\ UNCHANGED <<vars, pttVars>>

InterpreterExits ==
  /\ runtime = "exiting"
  /\ FlowStep(ExitBegins \/ JoinPool)

\* No thread of the process is a daemon but those that only wait for another.
ProcessEnds ==
  /\ runtime = "exiting"
  /\ closer = "exited"
  /\ listener \in {"gone", "dead"}
  /\ armed = 0 /\ posting = {}
  /\ \A c \in Clients : step[c] = "idle"
  /\ runtime' = "ended"
  /\ UNCHANGED <<vars, pttVars>>

Exit == MainClosesClient \/ InterpreterExits \/ ProcessEnds

RuntimeNext ==
  \/ FlowThreads \/ OperatorRequest \/ ButtonEdge \/ ControllerThreads
  \/ AskFlow \/ Report \/ ReportReturns \/ Close \/ Exit

RuntimeSpec == RuntimeInit /\ [][RuntimeNext]_runtimeVars

-----------------------------------------------------------------------------
\* The microphone is never open while an operation waits for a decision or is
\* being applied, whatever the button did meanwhile.
NoRecordingOverDecision ==
  capture = "recording" => pending = NoOperation /\ \A c \in Clients : ~InGateway(c)

\* close() refuses no recording: the flow outlives the controller. Only the exit of
\* the interpreter after a controller.close() that raised does, and the recording
\* that the worker still delivers then is abandoned and deleted like any other.
OnlyExitRefuses ==
  recorder \in {"unscheduled", "retire", "discard"} =>
    runtime = "exiting" /\ closer \in {"exit", "exited"}

\* Once close() returned, or the process ended without it, nothing is left behind:
\* no job, no armed timer, no running thread, no cycle still processing, and no file
\* but those the file system refused to delete.
NothingLeftBehind ==
  runtime \in {"closed", "ended"} =>
    /\ jobs = 0 /\ worker = "free" /\ queue = << >>
    /\ armed = 0 /\ listener \in {"gone", "dead"}
    /\ phase # "PROCESSING"
    /\ DeleteAfterSend => files \subseteq undeleted

\* An orderly shutdown loses no recording, and neither kind leaves anything behind.
ShutdownIsComplete == OnlyExitRefuses /\ NothingLeftBehind

\* Seen from the controller, the flow is an application that answers and ends
\* cycles as PushToTalk assumes.
ControllerContract == Ptt!Spec

=============================================================================
