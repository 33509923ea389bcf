----------------------------- MODULE PushToTalk -----------------------------
(***************************************************************************)
(* PushToTalkController of the Raspberry Pi, with the button, the maximum- *)
(* duration timer and the capture it drives.                               *)
(*                                                                         *)
(* Threads.  GPIO callbacks and timer threads only enqueue events.  One    *)
(* worker takes them in order, asks the application whether a recording    *)
(* may start, calls AudioCapture.start and stop, and reports one outcome.  *)
(* close() runs on the main thread.  One step is one access to state that  *)
(* another thread sees, or one call that may block.                        *)
(*                                                                         *)
(* AudioCapture is seen through the outcomes of start() and stop(); the    *)
(* application is seen through can_start_capture and the two callbacks.    *)
(* A generation is the number of a recording, as in the code.              *)
(***************************************************************************)
EXTENDS Naturals, Sequences

CONSTANTS
  MaxPresses    \* bound: how often the operator presses the button

ASSUME PushToTalkAssumption == MaxPresses \in Nat

VARIABLES
  button, presses,     \* the physical button, and how often it went down
  gpio,                \* GPIO callback: the kind it is about to put, or "none"
  events,              \* the controller's queue
  armed, posting,      \* waiting Timer thread; timer threads inside _on_timeout
  worker, handling,    \* worker thread: step and local `event`
  state, generation,   \* _state, _generation
  closer,              \* how far close() got
  capture,             \* whether AudioCapture holds a recording
  app,                 \* the application cycle behind can_start_capture
  expired, cut         \* history: timers that ran out, recordings they ended

buttonVars == <<button, presses, gpio>>
workerVars == <<worker, handling>>
stateVars  == <<state, generation>>
history    == <<expired, cut>>
vars == <<buttonVars, events, armed, posting, workerVars, stateVars, closer,
          capture, app, history>>

Generations == 1 .. MaxPresses
NoTimer     == 0
Kinds       == {"PRESSED", "RELEASED", "MAX_DURATION", "SHUTDOWN"}
States      == {"IDLE", "RECORDING", "WAITING_FOR_RELEASE"}
NoKind      == "none"

\* Only a MAX_DURATION event's generation is ever read; the others carry 0.
Event(kind, g) == [kind |-> kind, generation |-> g]
NoEvent        == Event(NoKind, 0)
Events         == [kind : Kinds, generation : Nat]

WorkerSteps  == {"wait", "ask", "start", "stop", "completed", "failed",
                 "callback", "gone", "dead"}
ClosingSteps == {"open", "cancel", "put", "join", "done", "raised"}

TypeOK ==
  /\ button \in {"up", "down"}
  /\ presses \in Nat
  /\ gpio \in {"PRESSED", "RELEASED", NoKind}
  /\ events \in Seq(Events)
  /\ armed \in Nat
  /\ posting \in SUBSET Nat
  /\ worker \in WorkerSteps
  /\ handling \in Events \union {NoEvent}
  /\ state \in States
  /\ generation \in Nat
  /\ closer \in ClosingSteps
  /\ capture \in {"idle", "recording"}
  /\ app \in {"idle", "recording", "busy"}
  /\ expired \in SUBSET Nat
  /\ cut \in SUBSET Nat

Init ==
  /\ button = "up" /\ presses = 0 /\ gpio = NoKind
  /\ events = << >>
  /\ armed = NoTimer /\ posting = {}
  /\ worker = "wait" /\ handling = NoEvent
  /\ state = "IDLE" /\ generation = 0
  /\ closer = "open"
  /\ capture = "idle" /\ app = "idle"
  /\ expired = {} /\ cut = {}

Closed == closer # "open"

-----------------------------------------------------------------------------
(* Button: gpiozero reports alternating edges; each callback tests _closed *)
(* and then puts its event.                                                *)

Edge(kind) ==
  /\ gpio = NoKind
  /\ gpio' = IF Closed THEN NoKind ELSE kind
  /\ UNCHANGED <<events, armed, posting, workerVars, stateVars, closer, capture, app, history>>

Press ==
  /\ button = "up"
  /\ presses < MaxPresses
  /\ button' = "down"
  /\ presses' = presses + 1
  /\ Edge("PRESSED")

Release ==
  /\ button = "down"
  /\ button' = "up"
  /\ UNCHANGED presses
  /\ Edge("RELEASED")

Enqueue ==
  /\ gpio # NoKind
  /\ events' = Append(events, Event(gpio, 0))
  /\ gpio' = NoKind
  /\ UNCHANGED <<button, presses, armed, posting, workerVars, stateVars, closer,
                 capture, app, history>>

-----------------------------------------------------------------------------
(* Timer: a thread that was not cancelled in time enqueues MAX_DURATION.   *)

TimerExpires ==
  /\ armed # NoTimer
  /\ armed' = NoTimer
  /\ expired' = expired \union {armed}
  /\ posting' = IF Closed THEN posting ELSE posting \union {armed}
  /\ UNCHANGED <<buttonVars, events, workerVars, stateVars, closer, capture, app, cut>>

\* Mutated forms: the event carries the generation of the moment it is put, or
\* the one before the increment.
TimeoutOfNow(g)      == Event("MAX_DURATION", generation)
TimeoutOfPrevious(g) == Event("MAX_DURATION", g - 1)
Timeout(g) == Event("MAX_DURATION", g)

TimerEnqueues(g) ==
  /\ g \in posting
  /\ posting' = posting \ {g}
  /\ events' = Append(events, Timeout(g))
  /\ UNCHANGED <<buttonVars, armed, workerVars, stateVars, closer, capture, app, history>>

-----------------------------------------------------------------------------
(* Worker.                                                                 *)

\* Leaves the handler of the current event.
Return(next) == worker' = next /\ handling' = NoEvent

\* Mutated form: only the generation is compared.
CutByGeneration(e) == e.generation = generation
IsCut(e) == state = "RECORDING" /\ e.generation = generation

\* The state a finished hold leaves behind, whether stop() failed or not.
\* Mutated form: every finished hold waits for a release.
StateAfterAlwaysWaiting(e) == "WAITING_FOR_RELEASE"
StateAfter(e) == IF e.kind = "MAX_DURATION" THEN "WAITING_FOR_RELEASE" ELSE "IDLE"

BeginStop(e) ==
  /\ armed' = NoTimer
  /\ worker' = "stop"
  /\ handling' = e
  /\ cut' = IF e.kind = "MAX_DURATION" THEN cut \union {generation} ELSE cut
  /\ UNCHANGED state

Ignore(next) ==
  /\ Return(next)
  /\ UNCHANGED <<state, armed, cut>>

Pressed(e) ==
  IF state = "IDLE"
  THEN worker' = "ask" /\ handling' = e /\ UNCHANGED <<state, armed, cut>>
  ELSE Ignore("wait")

Released(e) ==
  CASE state = "WAITING_FOR_RELEASE" ->
         state' = "IDLE" /\ Return("wait") /\ UNCHANGED <<armed, cut>>
    [] state = "RECORDING" -> BeginStop(e)
    [] OTHER -> Ignore("wait")

MaxDuration(e) == IF IsCut(e) THEN BeginStop(e) ELSE Ignore("wait")

\* Mutated form: a recording in progress is abandoned by the shutdown.
ShutdownAbandoning(e) ==
  armed' = NoTimer /\ Return("gone") /\ UNCHANGED <<state, cut>>

Shutdown(e) ==
  IF state = "RECORDING"
  THEN BeginStop(e)
  ELSE armed' = NoTimer /\ Return("gone") /\ UNCHANGED <<state, cut>>

TakeEvent ==
  /\ worker = "wait"
  /\ events # << >>
  /\ events' = Tail(events)
  /\ LET e == Head(events) IN
       \/ e.kind = "PRESSED" /\ Pressed(e)
       \/ e.kind = "RELEASED" /\ Released(e)
       \/ e.kind = "MAX_DURATION" /\ MaxDuration(e)
       \/ e.kind = "SHUTDOWN" /\ Shutdown(e)
  /\ UNCHANGED <<buttonVars, posting, generation, closer, capture, app, expired>>

\* The worker's part of a call into the application, without what it does there.
CallApplication(from, to) ==
  /\ worker = from
  /\ worker' = to
  /\ UNCHANGED <<buttonVars, events, armed, posting, handling, stateVars, closer,
                 capture, history>>

Granted           == CallApplication("ask", "start")
CompletedCallback == CallApplication("completed", "callback")
ErrorCallback     == CallApplication("failed", "callback")

\* can_start_capture moves the application to recording when it says yes.
MayStart == app = "idle" /\ app' = "recording" /\ Granted

MayNotStart ==
  /\ worker = "ask"
  /\ Return("wait")
  /\ UNCHANGED <<buttonVars, events, armed, posting, stateVars, closer, capture, app,
                 history>>

CaptureStarts ==
  /\ worker = "start"
  /\ capture = "idle"
  /\ capture' = "recording"
  /\ generation' = generation + 1
  /\ state' = "RECORDING"
  /\ armed' = generation + 1
  /\ Return("wait")
  /\ UNCHANGED <<buttonVars, events, posting, closer, app, history>>

\* Mutated form: only AudioCaptureError is caught, so the worker dies.
StartFailureEscapes ==
  /\ worker = "start"
  /\ worker' = "dead"
  /\ UNCHANGED <<buttonVars, events, armed, posting, handling, stateVars, closer, capture,
                 app, history>>

\* AudioCaptureError or any other exception of start().
CaptureDoesNotStart ==
  /\ worker = "start"
  /\ worker' = "failed"
  /\ state' = "IDLE"
  /\ UNCHANGED <<buttonVars, events, armed, posting, handling, generation, closer,
                 capture, app, history>>

\* stop() out of order raises AudioCaptureStateError and changes nothing.
CaptureStops ==
  /\ worker = "stop"
  /\ \/ capture = "recording" /\ worker' = "completed"
     \/ worker' = "failed"
  /\ capture' = "idle"
  /\ state' = StateAfter(handling)
  /\ UNCHANGED <<buttonVars, events, armed, posting, handling, generation, closer,
                 app, history>>

\* An OSError of closing the WAV or of discarding it (the recording stays open)
\* or of duration_of (it is published): nothing in _finish catches it, so the
\* worker thread ends.
StopEscapes ==
  /\ worker = "stop"
  /\ worker' = "dead"
  /\ capture' \in {"idle", "recording"}
  /\ UNCHANGED <<buttonVars, events, armed, posting, handling, stateVars, closer,
                 app, history>>

Deliver == app' = "busy" /\ CompletedCallback

ReportError == app' = "idle" /\ ErrorCallback

\* Exceptions of the consumer are logged; the loop goes on, or ends after SHUTDOWN.
CallbackReturns ==
  /\ worker = "callback"
  /\ Return(IF handling.kind = "SHUTDOWN" THEN "gone" ELSE "wait")
  /\ UNCHANGED <<buttonVars, events, armed, posting, stateVars, closer, capture, app,
                 history>>

\* The return of start() or stop(), and the steps that wait for nobody.
CaptureReturns == CaptureStarts \/ CaptureDoesNotStart \/ CaptureStops \/ StopEscapes

WorkerAlone ==
  TakeEvent \/ MayStart \/ MayNotStart \/ Deliver \/ ReportError \/ CallbackReturns

Worker == WorkerAlone \/ CaptureReturns

-----------------------------------------------------------------------------
(* close(): _closed, timer.cancel, SHUTDOWN, join for five seconds.        *)

SetClosed ==
  /\ closer = "open"
  /\ closer' = "cancel"
  /\ UNCHANGED <<buttonVars, events, armed, posting, workerVars, stateVars, capture,
                 app, history>>

CancelTimer ==
  /\ closer = "cancel"
  /\ closer' = "put"
  /\ armed' = NoTimer
  /\ UNCHANGED <<buttonVars, events, posting, workerVars, stateVars, capture, app, history>>

\* Mutated form: no SHUTDOWN event while a recording is on.
PutShutdownWhenIdle ==
  /\ closer = "put"
  /\ closer' = "join"
  /\ events' = IF state = "IDLE" THEN Append(events, Event("SHUTDOWN", 0)) ELSE events
  /\ UNCHANGED <<buttonVars, armed, posting, workerVars, stateVars, capture, app, history>>

PutShutdown ==
  /\ closer = "put"
  /\ closer' = "join"
  /\ events' = Append(events, Event("SHUTDOWN", 0))
  /\ UNCHANGED <<buttonVars, armed, posting, workerVars, stateVars, capture, app, history>>

WorkerAlive == worker \notin {"gone", "dead"}

Join ==
  /\ closer = "join"
  /\ ~WorkerAlive
  /\ closer' = "done"
  /\ UNCHANGED <<buttonVars, events, armed, posting, workerVars, stateVars, capture,
                 app, history>>

\* A start() or stop() of several seconds, or one that hangs, uses up the five of
\* the join; they may run out at any step of the worker that follows it.
JoinTimesOut ==
  /\ closer = "join"
  /\ WorkerAlive
  /\ closer' = "raised"
  /\ UNCHANGED <<buttonVars, events, armed, posting, workerVars, stateVars, capture,
                 app, history>>

Closer == SetClosed \/ CancelTimer \/ PutShutdown \/ Join \/ JoinTimesOut

\* The application ends the cycle that a delivered recording began.
CycleEnds ==
  /\ app = "busy"
  /\ app' = "idle"
  /\ UNCHANGED <<buttonVars, events, armed, posting, workerVars, stateVars, closer,
                 capture, history>>

Button == Press \/ Release \/ Enqueue
Timer  == TimerExpires \/ \E g \in Generations : TimerEnqueues(g)

Next == Button \/ Timer \/ Worker \/ Closer \/ CycleEnds

Spec == Init /\ [][Next]_vars

\* Threads that were started keep running and a Timer that is not cancelled runs
\* out.  Nobody is obliged to press, to release, to close or to end a cycle.  Nor
\* does a start() or stop() have to return: both call the backend on this thread
\* without a timeout (docs/architecture/audio-capture.md:367-369).
Fairness ==
  /\ WF_vars(Enqueue)
  /\ WF_vars(TimerExpires)
  /\ \A g \in Generations : WF_vars(TimerEnqueues(g))
  /\ WF_vars(WorkerAlone)
  /\ WF_vars(CancelTimer \/ PutShutdown \/ Join \/ JoinTimesOut)

FairSpec == Spec /\ Fairness

-----------------------------------------------------------------------------
Queued(kind) == \E i \in DOMAIN events : events[i].kind = kind
InCallOf(step, kind) == worker = step /\ handling.kind = kind

\* The application believes a recording is on exactly while the controller has
\* one or still owes the report of one: whatever start() and stop() do, the two
\* state machines of controller.py and flow.py never part.
AppAgrees ==
  app = "recording" <=>
    state = "RECORDING" \/ worker \in {"start", "completed", "failed"}

\* Calls reach AudioCapture in order: start() finds it idle, stop() finds a
\* recording, although presses, releases and late timers interleave.
CaptureInOrder ==
  /\ worker = "start" => capture = "idle"
  /\ worker = "stop" => capture = "recording"
  /\ worker = "wait" => (capture = "recording" <=> state = "RECORDING")

\* A recording is cut only by its own timer: a timer that fired late for an
\* earlier recording does not stop the next take.
OnlyOwnTimerCuts == cut \subseteq expired

\* The controller never waits for a release that already happened: while it is
\* recording or waiting for the release, the button is down or the release is
\* still on its way to the worker.
ReleaseIsAhead ==
  state # "IDLE" /\ worker # "dead" /\ ~Closed =>
    \/ button = "down"
    \/ gpio = "RELEASED"
    \/ Queued("RELEASED")
    \/ InCallOf("stop", "RELEASED")

\* A worker that ended by SHUTDOWN left nothing behind: no recording, no timer,
\* and an outcome for every recording it was allowed to begin.
CleanShutdown ==
  worker = "gone" => capture = "idle" /\ armed = NoTimer /\ app # "recording"

\* However stop() fails, the controller leaves RECORDING
\* (docs/interfaces/push-to-talk-capture.md:291-292).
StopLeavesRecording ==
  [][worker = "stop" /\ worker' # "stop" => state' # "RECORDING"]_vars

\* A recording ends even if the button is never released: its stop() is called,
\* and RECORDING outlives the call only if the call killed the worker or never
\* returns.
RecordingEnds ==
  state = "RECORDING" ~> state # "RECORDING" \/ worker = "dead" \/ [](worker = "stop")

\* SHUTDOWN reaches the worker whatever it was doing when close() was called,
\* unless it is inside the capture for ever.
WorkerExits == closer = "join" ~> ~WorkerAlive \/ [](worker \in {"start", "stop"})

=============================================================================
