-------------------------- MODULE PushToTalkProofs --------------------------
(***************************************************************************)
(* What PushToTalk guarantees for every number of presses, with a stop()   *)
(* that may raise anything, and with any interleaving of edges, timers and *)
(* close().                                                                *)
(***************************************************************************)
EXTENDS PushToTalk, TLAPS

\* What the worker's position says about the controller's state.
StepInv ==
  /\ worker \in {"ask", "start"} => state = "IDLE"
  /\ worker \in {"stop", "dead"} => state = "RECORDING"
  /\ worker \in {"completed", "failed", "callback", "gone"} => state # "RECORDING"

\* And about the capture: between calls it holds a recording exactly in RECORDING.
CaptureInv ==
  /\ CaptureInOrder
  /\ worker \in {"ask", "completed", "failed", "callback", "gone"} => capture = "idle"

\* A timer is armed only while its recording is on and the worker is free.
ArmedInv == armed # NoTimer => worker = "wait" /\ state = "RECORDING"

\* Every MAX_DURATION event on its way comes from a timer that ran out.
TimeoutsExpired ==
  /\ posting \subseteq expired
  /\ \A i \in 1 .. Len(events) :
       events[i].kind = "MAX_DURATION" => events[i].generation \in expired

ControlInv == StepInv /\ AppAgrees /\ CaptureInv /\ ArmedInv
TimerInv   == TimeoutsExpired /\ OnlyOwnTimerCuts
IInv       == TypeOK /\ ControlInv /\ TimerInv

-----------------------------------------------------------------------------
(* Events.                                                                 *)

\* Putting an event at the end of the queue leaves those before it in place.
LEMMA AppendEvent ==
  ASSUME NEW q \in Seq(Events), NEW e \in Events
  PROVE  /\ Append(q, e) \in Seq(Events)
         /\ Len(Append(q, e)) = Len(q) + 1
         /\ \A i \in 1 .. Len(q) + 1 :
              Append(q, e)[i] = IF i = Len(q) + 1 THEN e ELSE q[i]
OBVIOUS

\* The event taken and those that stay are events of the queue.
LEMMA TakeHead ==
  ASSUME NEW q \in Seq(Events), q # << >>
  PROVE  /\ Head(q) \in Events /\ Head(q) = q[1] /\ Len(q) >= 1
         /\ Tail(q) \in Seq(Events)
         /\ Len(Tail(q)) = Len(q) - 1
         /\ \A i \in 1 .. Len(q) - 1 : Tail(q)[i] = q[i + 1]
OBVIOUS

\* The generation a cut belongs to, when the event handled is a timeout of it.
CutBy(e) == e.kind = "MAX_DURATION" /\ e.generation = generation

\* Handling an event, whatever it is, does one of five things to the worker.
LEMMA TakeEventOutcomes ==
  ASSUME TakeEvent
  PROVE  /\ worker = "wait"
         /\ events # << >> /\ events' = Tail(events)
         /\ UNCHANGED <<buttonVars, posting, generation, closer, capture, app, expired>>
         /\ handling' \in {NoEvent, Head(events)}
         /\ \/ worker' = "wait" /\ UNCHANGED <<state, armed, cut>>
            \/ /\ worker' = "wait" /\ state = "WAITING_FOR_RELEASE" /\ state' = "IDLE"
               /\ UNCHANGED <<armed, cut>>
            \/ worker' = "ask" /\ state = "IDLE" /\ UNCHANGED <<state, armed, cut>>
            \/ /\ worker' = "stop" /\ state = "RECORDING" /\ armed' = NoTimer
               /\ UNCHANGED state
               /\ \/ UNCHANGED cut
                  \/ CutBy(Head(events)) /\ cut' = cut \union {generation}
            \/ /\ worker' = "gone" /\ state # "RECORDING" /\ armed' = NoTimer
               /\ UNCHANGED <<state, cut>>
<1>. DEFINE e == Head(events)
<1>. USE DEF TakeEvent, Return, Ignore, BeginStop, CutBy
<1>1. CASE e.kind = "PRESSED" /\ Pressed(e)
  BY <1>1 DEF Pressed
<1>2. CASE e.kind = "RELEASED" /\ Released(e)
  BY <1>2 DEF Released
<1>3. CASE e.kind = "MAX_DURATION" /\ MaxDuration(e)
  BY <1>3 DEF MaxDuration, IsCut
<1>4. CASE e.kind = "SHUTDOWN" /\ Shutdown(e)
  BY <1>4 DEF Shutdown
<1>. QED
  BY <1>1, <1>2, <1>3, <1>4

-----------------------------------------------------------------------------
(* Types.                                                                  *)

\* The initial state has the types.
LEMMA TypeInit == Init => TypeOK
BY DEF Init, TypeOK, NoKind, NoTimer, WorkerSteps, States, ClosingSteps

\* Every step of the button, the timer and close() keeps the types.
LEMMA TypeOfOthers == TypeOK /\ (Button \/ Timer \/ Closer \/ CycleEnds) => TypeOK'
<1>. SUFFICES ASSUME TypeOK, Button \/ Timer \/ Closer \/ CycleEnds PROVE TypeOK'
  OBVIOUS
<1>. USE DEF TypeOK, NoKind, buttonVars, workerVars, stateVars, history
<1>1. CASE Press \/ Release
  <2>1. /\ button' \in {"up", "down"} /\ presses' \in Nat
        /\ gpio' \in {"PRESSED", "RELEASED", NoKind}
    BY <1>1 DEF Press, Release, Edge
  <2>2. UNCHANGED <<events, armed, posting, workerVars, stateVars, closer, capture, app, history>>
    BY <1>1 DEF Press, Release, Edge
  <2>. QED
    BY <2>1, <2>2
<1>2. CASE Enqueue
  <2>1. Event(gpio, 0) \in Events
    BY <1>2 DEF Enqueue, Event, Events, Kinds
  <2>2. events' \in Seq(Events)
    BY <1>2, <2>1, AppendEvent DEF Enqueue
  <2>. QED
    BY <1>2, <2>2 DEF Enqueue
<1>3. CASE TimerExpires
  BY <1>3 DEF TimerExpires, NoTimer
<1>4. ASSUME NEW g \in Generations, TimerEnqueues(g) PROVE TypeOK'
  <2>1. Timeout(g) \in Events
    BY <1>4 DEF TimerEnqueues, Timeout, Event, Events, Kinds
  <2>2. events' \in Seq(Events)
    BY <1>4, <2>1, AppendEvent DEF TimerEnqueues
  <2>3. posting' \in SUBSET Nat
    BY <1>4 DEF TimerEnqueues
  <2>. QED
    BY <1>4, <2>2, <2>3 DEF TimerEnqueues
<1>5. CASE PutShutdown
  <2>1. Event("SHUTDOWN", 0) \in Events
    BY DEF Event, Events, Kinds
  <2>2. events' \in Seq(Events)
    BY <1>5, <2>1, AppendEvent DEF PutShutdown
  <2>. QED
    BY <1>5, <2>2 DEF PutShutdown, ClosingSteps
<1>6. CASE SetClosed \/ CancelTimer \/ Join \/ JoinTimesOut
  <2>1. armed' \in Nat /\ closer' \in ClosingSteps
    BY <1>6 DEF SetClosed, CancelTimer, Join, JoinTimesOut, ClosingSteps, NoTimer
  <2>2. UNCHANGED <<buttonVars, events, posting, workerVars, stateVars, capture, app, history>>
    BY <1>6 DEF SetClosed, CancelTimer, Join, JoinTimesOut
  <2>. QED
    BY <2>1, <2>2
<1>7. CASE CycleEnds
  BY <1>7 DEF CycleEnds
<1>. QED
  BY <1>1, <1>2, <1>3, <1>4, <1>5, <1>6, <1>7 DEF Button, Timer, Closer

\* Every step of the worker keeps the types.
LEMMA TypeOfWorker == TypeOK /\ Worker => TypeOK'
<1>. SUFFICES ASSUME TypeOK, Worker PROVE TypeOK'
  OBVIOUS
<1>. USE DEF TypeOK, WorkerSteps, States, NoTimer, buttonVars, workerVars, stateVars, history
<1>1. CASE TakeEvent
  <2>1. Head(events) \in Events /\ events' \in Seq(Events)
    BY <1>1, TakeHead, TakeEventOutcomes
  <2>2. handling' \in Events \union {NoEvent}
    BY <1>1, <2>1, TakeEventOutcomes
  <2>3. cut' \in SUBSET Nat
    BY <1>1, TakeEventOutcomes
  <2>4. worker' \in WorkerSteps /\ state' \in States /\ armed' \in Nat
    BY <1>1, TakeEventOutcomes
  <2>5. UNCHANGED <<buttonVars, posting, generation, closer, capture, app, expired>>
    BY <1>1, TakeEventOutcomes
  <2>. QED
    BY <2>1, <2>2, <2>3, <2>4, <2>5
<1>2. CASE MayStart \/ MayNotStart
  BY <1>2 DEF MayStart, MayNotStart, Granted, CallApplication, Return
<1>3. CASE CaptureStarts
  BY <1>3 DEF CaptureStarts, Return
<1>4. CASE CaptureDoesNotStart
  BY <1>4 DEF CaptureDoesNotStart
<1>5. CASE CaptureStops \/ StopEscapes
  BY <1>5 DEF CaptureStops, StopEscapes, StateAfter
<1>6. CASE Deliver \/ ReportError
  BY <1>6 DEF Deliver, ReportError, CompletedCallback, ErrorCallback, CallApplication
<1>7. CASE CallbackReturns
  BY <1>7 DEF CallbackReturns, Return
<1>. QED
  BY <1>1, <1>2, <1>3, <1>4, <1>5, <1>6, <1>7 DEF Worker, WorkerAlone, CaptureReturns

-----------------------------------------------------------------------------
(* The worker, the capture and the application.                            *)

\* Edges, timers, close() and the end of a cycle leave the three in agreement.
LEMMA ControlOfOthers ==
  TypeOK /\ ControlInv /\ (Button \/ Timer \/ Closer \/ CycleEnds) => ControlInv'
<1>. SUFFICES ASSUME TypeOK, ControlInv, Button \/ Timer \/ Closer \/ CycleEnds
              PROVE  ControlInv'
  OBVIOUS
<1>1. /\ UNCHANGED <<worker, state, capture>>
      /\ armed' = armed \/ armed' = NoTimer
      /\ app' = app \/ (app = "busy" /\ app' = "idle")
  BY DEF Button, Press, Release, Edge, Enqueue, Timer, TimerExpires, TimerEnqueues, Closer,
     SetClosed, CancelTimer, PutShutdown, Join, JoinTimesOut, CycleEnds, workerVars, stateVars
<1>. QED
  BY <1>1 DEF ControlInv, StepInv, AppAgrees, CaptureInv, CaptureInOrder, ArmedInv

\* So does every step of the worker, one handler at a time.
LEMMA ControlOfWorker == TypeOK /\ ControlInv /\ Worker => ControlInv'
<1>. SUFFICES ASSUME TypeOK, ControlInv, Worker PROVE ControlInv'
  OBVIOUS
<1>. USE DEF ControlInv, StepInv, AppAgrees, CaptureInv, CaptureInOrder, ArmedInv, stateVars
<1>0. capture \in {"idle", "recording"}
  BY DEF TypeOK
<1>1. CASE TakeEvent
  BY <1>0, <1>1, TakeEventOutcomes
<1>2. CASE MayStart \/ MayNotStart
  BY <1>2 DEF MayStart, MayNotStart, Granted, CallApplication, Return
<1>3. CASE CaptureStarts
  BY <1>3 DEF CaptureStarts, Return
<1>4. CASE CaptureDoesNotStart
  BY <1>4 DEF CaptureDoesNotStart
<1>5. CASE CaptureStops
  BY <1>5 DEF CaptureStops, StateAfter
<1>6. CASE StopEscapes
  BY <1>6 DEF StopEscapes
<1>7. CASE Deliver \/ ReportError
  BY <1>7 DEF Deliver, ReportError, CompletedCallback, ErrorCallback, CallApplication
<1>8. CASE CallbackReturns
  BY <1>8 DEF CallbackReturns, Return
<1>. QED
  BY <1>1, <1>2, <1>3, <1>4, <1>5, <1>6, <1>7, <1>8 DEF Worker, WorkerAlone, CaptureReturns

-----------------------------------------------------------------------------
(* Timers and the recordings they cut.                                     *)

\* Only a timer that ran out posts a timeout.
LEMMA TimersOfOthers ==
  TypeOK /\ TimerInv /\ (Button \/ Timer \/ Closer \/ CycleEnds) => TimerInv'
<1>. SUFFICES ASSUME TypeOK, TimerInv, Button \/ Timer \/ Closer \/ CycleEnds
              PROVE  TimerInv'
  OBVIOUS
<1>. USE DEF TimerInv, TimeoutsExpired, OnlyOwnTimerCuts, history
<1>0. events \in Seq(Events) /\ Len(events) \in Nat
  BY DEF TypeOK
<1>1. CASE Press \/ Release
  BY <1>1 DEF Press, Release, Edge
<1>2. CASE Enqueue
  <2>1. Event(gpio, 0) \in Events /\ Event(gpio, 0).kind # "MAX_DURATION"
    BY <1>2 DEF Enqueue, Event, Events, Kinds, TypeOK, NoKind
  <2>. QED
    BY <1>0, <1>2, <2>1, AppendEvent DEF Enqueue
<1>3. CASE TimerExpires
  BY <1>3 DEF TimerExpires
<1>4. ASSUME NEW g \in Generations, TimerEnqueues(g) PROVE TimerInv'
  <2>1. /\ Timeout(g) \in Events
        /\ Timeout(g).generation = g /\ g \in expired
    BY <1>4 DEF TimerEnqueues, Timeout, Event, Events, Kinds, TypeOK
  <2>. QED
    BY <1>0, <1>4, <2>1, AppendEvent DEF TimerEnqueues
<1>5. CASE PutShutdown
  <2>1. /\ Event("SHUTDOWN", 0) \in Events
        /\ Event("SHUTDOWN", 0).kind # "MAX_DURATION"
    BY DEF Event, Events, Kinds
  <2>. QED
    BY <1>0, <1>5, <2>1, AppendEvent DEF PutShutdown
<1>6. CASE SetClosed \/ CancelTimer \/ Join \/ JoinTimesOut \/ CycleEnds
  BY <1>6 DEF SetClosed, CancelTimer, Join, JoinTimesOut, CycleEnds
<1>. QED
  BY <1>1, <1>2, <1>3, <1>4, <1>5, <1>6 DEF Button, Timer, Closer

\* The worker cuts a recording only by an event that carries its generation.
LEMMA TimersOfWorker == TypeOK /\ TimerInv /\ Worker => TimerInv'
<1>. SUFFICES ASSUME TypeOK, TimerInv, Worker PROVE TimerInv'
  OBVIOUS
<1>. USE DEF TimerInv, TimeoutsExpired, OnlyOwnTimerCuts
<1>1. CASE TakeEvent
  <2>1. events \in Seq(Events) /\ events # << >> /\ Len(events) \in Nat
    BY <1>1, TakeEventOutcomes DEF TypeOK
  <2>2. Head(events).kind = "MAX_DURATION" => Head(events).generation \in expired
    BY <2>1, TakeHead
  <2>3. /\ posting' = posting /\ expired' = expired
        /\ events' = Tail(events)
        /\ cut' = cut \/ (CutBy(Head(events)) /\ cut' = cut \union {generation})
    BY <1>1, TakeEventOutcomes
  <2>4. cut' \subseteq expired'
    BY <2>2, <2>3 DEF CutBy
  <2>5. \A i \in 1 .. Len(events) - 1 :
          Tail(events)[i].kind = "MAX_DURATION" => Tail(events)[i].generation \in expired
    <3>1. \A i \in 1 .. Len(events) - 1 : i + 1 \in 1 .. Len(events)
      BY <2>1
    <3>. QED
      BY <2>1, <3>1, TakeHead
  <2>6. Len(events') = Len(events) - 1
    BY <2>1, <2>3, TakeHead
  <2>. QED
    BY <2>3, <2>4, <2>5, <2>6
<1>2. CASE Worker /\ ~TakeEvent
  BY <1>2 DEF Worker, WorkerAlone, CaptureReturns,
              MayStart, MayNotStart, Granted, CaptureStarts, CaptureDoesNotStart,
     CaptureStops, StopEscapes, Deliver, ReportError, CompletedCallback, ErrorCallback,
     CallApplication, CallbackReturns, history
<1>. QED
  BY <1>1, <1>2

-----------------------------------------------------------------------------
(* The theorems.                                                           *)

\* The invariant holds initially.
LEMMA IInit == Init => IInv
<1>1. Init => ControlInv
  BY DEF Init, ControlInv, StepInv, AppAgrees, CaptureInv, CaptureInOrder, ArmedInv
<1>2. Init => TimerInv
  BY DEF Init, TimerInv, TimeoutsExpired, OnlyOwnTimerCuts
<1>. QED
  BY <1>1, <1>2, TypeInit DEF IInv

\* And every step keeps it.
LEMMA IStep == IInv /\ [Next]_vars => IInv'
<1>. SUFFICES ASSUME IInv, [Next]_vars PROVE IInv'
  OBVIOUS
<1>1. CASE Button \/ Timer \/ Closer \/ CycleEnds
  BY <1>1, TypeOfOthers, ControlOfOthers, TimersOfOthers DEF IInv
<1>2. CASE Worker
  BY <1>2, TypeOfWorker, ControlOfWorker, TimersOfWorker DEF IInv
<1>3. CASE UNCHANGED vars
  <2>1. TypeOK'
    BY <1>3 DEF IInv, vars, buttonVars, workerVars, stateVars, history, TypeOK
  <2>2. ControlInv'
    BY <1>3 DEF IInv, vars, workerVars, stateVars, ControlInv, StepInv, AppAgrees,
       CaptureInv, CaptureInOrder, ArmedInv
  <2>3. TimerInv'
    BY <1>3 DEF IInv, vars, history, TimerInv, TimeoutsExpired, OnlyOwnTimerCuts
  <2>. QED
    BY <2>1, <2>2, <2>3 DEF IInv
<1>. QED
  BY <1>1, <1>2, <1>3 DEF Next

\* The strengthened invariant of the controller, for any number of presses.
THEOREM ControllerInductive == Spec => []IInv
BY IInit, IStep, PTL DEF Spec

\* Application and controller never part: RECORDING on one side is a recording,
\* or the report of one, on the other (controller.py, _handle_pressed, _finish).
THEOREM ApplicationAgrees == Spec => []AppAgrees
<1>1. IInv => AppAgrees
  BY DEF IInv, ControlInv
<1>. QED
  BY <1>1, ControllerInductive, PTL

\* start() and stop() reach AudioCapture only in alternation.
THEOREM CallsInOrder == Spec => []CaptureInOrder
<1>1. IInv => CaptureInOrder
  BY DEF IInv, ControlInv, CaptureInv
<1>. QED
  BY <1>1, ControllerInductive, PTL

\* A late timer of an earlier recording never cuts the present one.
THEOREM OwnTimerCuts == Spec => []OnlyOwnTimerCuts
<1>1. IInv => OnlyOwnTimerCuts
  BY DEF IInv, TimerInv
<1>. QED
  BY <1>1, ControllerInductive, PTL

\* A worker that ended by SHUTDOWN left no recording, no timer and no report
\* behind, also when close() and the arming of the timer race.
THEOREM ShutdownIsClean == Spec => []CleanShutdown
<1>1. IInv => CleanShutdown
  BY DEF IInv, ControlInv, StepInv, AppAgrees, CaptureInv, ArmedInv, CleanShutdown
<1>. QED
  BY <1>1, ControllerInductive, PTL

-----------------------------------------------------------------------------
(* The release that ends a hold is never lost.                             *)

\* The operator still holds the button, or its release is on the way: behind
\* the i-th event, or about to be put.
ReleaseAfter(i) ==
  \/ button = "down"
  \/ gpio = "RELEASED"
  \/ \E j \in 1 .. Len(events) : i < j /\ events[j].kind = "RELEASED"

\* The worker is in a hold, or about to be.
Holding == (state # "IDLE" /\ worker # "dead") \/ worker \in {"ask", "start"}

\* Every press on its way has its release behind it.
AheadInv ==
  ~Closed =>
    /\ gpio = "PRESSED" => button = "down"
    /\ \A i \in 1 .. Len(events) : events[i].kind = "PRESSED" => ReleaseAfter(i)
    /\ Holding => ReleaseAfter(0) \/ InCallOf("stop", "RELEASED")

\* An event put behind the others takes no release away.
LEMMA PutKeepsReleases ==
  ASSUME NEW q \in Seq(Events), NEW e \in Events, NEW i \in Nat,
         \E j \in 1 .. Len(q) : i < j /\ q[j].kind = "RELEASED"
  PROVE  \E j \in 1 .. Len(Append(q, e)) : i < j /\ Append(q, e)[j].kind = "RELEASED"
<1>1. PICK j \in 1 .. Len(q) : i < j /\ q[j].kind = "RELEASED"
  OBVIOUS
<1>2. Append(q, e)[j] = q[j] /\ j \in 1 .. Len(Append(q, e))
  BY AppendEvent
<1>. QED
  BY <1>1, <1>2

\* The button, timers and close() keep it: edges alternate.
LEMMA AheadOfOthers ==
  TypeOK /\ AheadInv /\ (Button \/ Timer \/ Closer \/ CycleEnds) => AheadInv'
<1>. SUFFICES ASSUME TypeOK, AheadInv, Button \/ Timer \/ Closer \/ CycleEnds, ~Closed'
              PROVE  AheadInv'
  BY DEF AheadInv
<1>. USE DEF Holding, InCallOf, buttonVars, workerVars, stateVars, history
<1>0. events \in Seq(Events) /\ Len(events) \in Nat
  BY DEF TypeOK
<1>a. /\ ~Closed
      /\ gpio = "PRESSED" => button = "down"
      /\ \A i \in 1 .. Len(events) : events[i].kind = "PRESSED" => ReleaseAfter(i)
      /\ Holding => ReleaseAfter(0) \/ InCallOf("stop", "RELEASED")
  <2>1. ~Closed
    BY DEF Closed, Button, Timer, Closer, CycleEnds, Press, Release, Enqueue, Edge,
       TimerExpires, TimerEnqueues, SetClosed, CancelTimer, PutShutdown, Join, JoinTimesOut
  <2>. QED
    BY <2>1 DEF AheadInv
<1>1. CASE Press
  <2>1. button' = "down"
    BY <1>1 DEF Press
  <2>. QED
    BY <2>1 DEF AheadInv, ReleaseAfter
<1>2. CASE Release
  <2>1. gpio' = "RELEASED"
    BY <1>2, <1>a DEF Release, Edge
  <2>. QED
    BY <2>1 DEF AheadInv, ReleaseAfter
<1>3. ASSUME NEW e \in Events, events' = Append(events, e),
             UNCHANGED <<button, worker, handling, state, closer>>,
             e.kind = "PRESSED" => button = "down",
             \/ UNCHANGED gpio
             \/ gpio' = NoKind /\ e.kind = gpio
      PROVE  AheadInv'
  <2>1. /\ Len(events') = Len(events) + 1
        /\ \A i \in 1 .. Len(events) + 1 :
             events'[i] = IF i = Len(events) + 1 THEN e ELSE events[i]
    BY <1>0, <1>3, AppendEvent
  <2>2. ASSUME NEW i \in 0 .. Len(events), ReleaseAfter(i)
        PROVE  ReleaseAfter(i)'
    <3>1. CASE button = "down"
      BY <1>3, <3>1 DEF ReleaseAfter
    <3>2. CASE gpio = "RELEASED"
      <4>1. CASE UNCHANGED gpio
        BY <3>2, <4>1 DEF ReleaseAfter
      <4>2. CASE e.kind = gpio
        <5>1. Len(events) + 1 \in 1 .. Len(events') /\ i < Len(events) + 1
              /\ events'[Len(events) + 1].kind = "RELEASED"
          BY <1>0, <2>1, <3>2, <4>2
        <5>. QED
          BY <5>1 DEF ReleaseAfter
      <4>. QED
        BY <1>3, <4>1, <4>2
    <3>3. CASE \E j \in 1 .. Len(events) : i < j /\ events[j].kind = "RELEASED"
      <4>1. i \in Nat
        BY <1>0
      <4>. QED
        BY <1>0, <1>3, <3>3, <4>1, PutKeepsReleases DEF ReleaseAfter
    <3>. QED
      BY <2>2, <3>1, <3>2, <3>3 DEF ReleaseAfter
  <2>3. ASSUME NEW i \in 1 .. Len(events'), events'[i].kind = "PRESSED"
        PROVE  ReleaseAfter(i)'
    <3>1. CASE i = Len(events) + 1
      <4>1. button' = "down"
        BY <1>0, <1>3, <2>1, <2>3, <3>1
      <4>. QED
        BY <4>1 DEF ReleaseAfter
    <3>2. CASE i # Len(events) + 1
      <4>1. i \in 1 .. Len(events) /\ events[i].kind = "PRESSED" /\ i \in 0 .. Len(events)
        BY <1>0, <2>1, <2>3, <3>2
      <4>. QED
        BY <1>a, <2>2, <4>1
    <3>. QED
      BY <3>1, <3>2
  <2>4. gpio' = "PRESSED" => button' = "down"
    BY <1>3, <1>a DEF NoKind
  <2>5. Holding' => ReleaseAfter(0)' \/ InCallOf("stop", "RELEASED")'
    <3>1. 0 \in 0 .. Len(events)
      BY <1>0
    <3>. QED
      BY <1>3, <1>a, <2>2, <3>1
  <2>. QED
    BY <2>3, <2>4, <2>5 DEF AheadInv
<1>4. CASE Enqueue
  <2>1. Event(gpio, 0) \in Events /\ Event(gpio, 0).kind = gpio
    BY <1>4 DEF Enqueue, Event, Events, Kinds, TypeOK, NoKind
  <2>. QED
    BY <1>3, <1>4, <1>a, <2>1 DEF Enqueue
<1>5. ASSUME NEW g \in Generations, TimerEnqueues(g) PROVE AheadInv'
  <2>1. Timeout(g) \in Events /\ Timeout(g).kind = "MAX_DURATION"
    BY <1>5 DEF TimerEnqueues, Timeout, Event, Events, Kinds, TypeOK
  <2>. QED
    BY <1>3, <1>5, <2>1 DEF TimerEnqueues
<1>6. CASE TimerExpires \/ CycleEnds
  BY <1>6, <1>a DEF TimerExpires, CycleEnds, AheadInv, ReleaseAfter
<1>7. ~Closer
  BY <1>a DEF Closer, SetClosed, CancelTimer, PutShutdown, Join, JoinTimesOut, Closed
<1>. QED
  BY <1>1, <1>2, <1>4, <1>5, <1>6, <1>7 DEF Button, Timer

\* The worker keeps it: it takes a release only to end the hold.
LEMMA AheadOfWorker == TypeOK /\ StepInv /\ AheadInv /\ Worker => AheadInv'
<1>. SUFFICES ASSUME TypeOK, StepInv, AheadInv, Worker, ~Closed'
              PROVE  AheadInv'
  BY DEF AheadInv
<1>. USE DEF Holding, InCallOf, StepInv
<1>0. events \in Seq(Events) /\ Len(events) \in Nat
  BY DEF TypeOK
<1>a. UNCHANGED <<button, gpio, closer>>
  BY DEF Worker, WorkerAlone, CaptureReturns,
         TakeEvent, MayStart, MayNotStart, Granted, CaptureStarts,
     CaptureDoesNotStart, CaptureStops, StopEscapes, Deliver, ReportError, CompletedCallback,
     ErrorCallback, CallApplication, CallbackReturns, buttonVars
<1>b. /\ gpio = "PRESSED" => button = "down"
      /\ \A i \in 1 .. Len(events) : events[i].kind = "PRESSED" => ReleaseAfter(i)
      /\ Holding => ReleaseAfter(0) \/ InCallOf("stop", "RELEASED")
  BY <1>a DEF AheadInv, Closed
<1>1. CASE TakeEvent
  <2>1. /\ worker = "wait" /\ events' = Tail(events)
        /\ events[1] = Head(events) /\ Len(events) >= 1
        /\ Len(events') = Len(events) - 1
        /\ \A i \in 1 .. Len(events) - 1 : events'[i] = events[i + 1]
    BY <1>0, <1>1, TakeEventOutcomes, TakeHead
  <2>2. ASSUME NEW i \in Nat, ReleaseAfter(i + 1)
        PROVE  ReleaseAfter(i)'
    <3>1. CASE button = "down" \/ gpio = "RELEASED"
      BY <1>a, <3>1 DEF ReleaseAfter
    <3>2. CASE \E j \in 1 .. Len(events) : i + 1 < j /\ events[j].kind = "RELEASED"
      <4>1. PICK j \in 1 .. Len(events) : i + 1 < j /\ events[j].kind = "RELEASED"
        BY <3>2
      <4>2. j - 1 \in 1 .. Len(events) - 1 /\ i < j - 1 /\ (j - 1) + 1 = j
        BY <1>0, <4>1
      <4>3. j - 1 \in 1 .. Len(events') /\ events'[j - 1].kind = "RELEASED"
        BY <2>1, <4>1, <4>2
      <4>. QED
        BY <4>2, <4>3 DEF ReleaseAfter
    <3>. QED
      BY <2>2, <3>1, <3>2 DEF ReleaseAfter
  <2>3. ASSUME NEW i \in 1 .. Len(events'), events'[i].kind = "PRESSED"
        PROVE  ReleaseAfter(i)'
    <3>1. i + 1 \in 1 .. Len(events) /\ events[i + 1].kind = "PRESSED" /\ i \in Nat
      BY <1>0, <2>1, <2>3
    <3>. QED
      BY <1>b, <2>2, <3>1
  <2>4. Holding' => ReleaseAfter(0)' \/ InCallOf("stop", "RELEASED")'
    <3>1. CASE Head(events).kind = "PRESSED"
      <4>1. 1 \in 1 .. Len(events) /\ events[1].kind = "PRESSED" /\ 1 = 0 + 1
        BY <1>0, <2>1, <3>1
      <4>. QED
        BY <1>b, <2>2, <4>1
    <3>2. CASE Head(events).kind = "RELEASED"
      BY <1>1, <2>1, <3>2 DEF TakeEvent, Released, Return, Ignore, BeginStop, States, TypeOK
    <3>3. CASE Head(events).kind \in {"MAX_DURATION", "SHUTDOWN"}
      <4>1. /\ worker' \in {"wait", "stop", "gone"} /\ state' = state
        BY <1>1, <3>3
           DEF TakeEvent, MaxDuration, Shutdown, Return, Ignore, BeginStop
      <4>2. ASSUME ReleaseAfter(0) PROVE ReleaseAfter(1)
        <5>1. \A j \in 1 .. Len(events) : events[j].kind = "RELEASED" => 1 < j
          BY <1>0, <2>1, <3>3
        <5>. QED
          BY <4>2, <5>1 DEF ReleaseAfter
      <4>3. Holding' => Holding
        BY <2>1, <4>1
      <4>4. ReleaseAfter(1) => ReleaseAfter(0)'
        BY <2>2, 0 \in Nat, 0 + 1 = 1
      <4>. QED
        BY <1>b, <2>1, <4>2, <4>3, <4>4
    <3>4. Head(events).kind \in Kinds
      BY <1>0, <1>1, TakeEventOutcomes, TakeHead DEF Events
    <3>. QED
      BY <3>1, <3>2, <3>3, <3>4 DEF Kinds
  <2>. QED
    BY <1>a, <1>b, <2>3, <2>4 DEF AheadInv
<1>2. CASE Worker /\ ~TakeEvent
  <2>1. UNCHANGED events
    BY <1>2 DEF Worker, WorkerAlone, CaptureReturns,
                MayStart, MayNotStart, Granted, CaptureStarts, CaptureDoesNotStart,
       CaptureStops, StopEscapes, Deliver, ReportError, CompletedCallback, ErrorCallback,
       CallApplication, CallbackReturns
  <2>2. Holding' => Holding /\ ~InCallOf("stop", "RELEASED")
    BY <1>2 DEF Worker, WorkerAlone, CaptureReturns,
                MayStart, MayNotStart, Granted, CaptureStarts, CaptureDoesNotStart,
       CaptureStops, StopEscapes, Deliver, ReportError, CompletedCallback, ErrorCallback,
       CallApplication, CallbackReturns, StateAfter, Return, stateVars
  <2>. QED
    BY <1>a, <1>b, <2>1, <2>2 DEF AheadInv, ReleaseAfter
<1>. QED
  BY <1>1, <1>2

\* A hold that the controller is in will end by its own release: the controller
\* never waits for one that it has already taken, or that nobody put.
THEOREM ReleaseAhead == Spec => []ReleaseIsAhead
<1>1. Init => AheadInv
  BY DEF Init, AheadInv, Holding, NoKind
<1>2. IInv /\ AheadInv /\ [Next]_vars => AheadInv'
  <2>1. CASE UNCHANGED vars
    BY <2>1 DEF vars, buttonVars, workerVars, stateVars, AheadInv, Holding, ReleaseAfter,
       InCallOf, Closed
  <2>. QED
    BY <2>1, AheadOfOthers, AheadOfWorker DEF Next, IInv, ControlInv
<1>3. IInv /\ AheadInv => ReleaseIsAhead
  <2>1. IInv => DOMAIN events = 1 .. Len(events)
    BY DEF IInv, TypeOK
  <2>. QED
    BY <2>1 DEF AheadInv, ReleaseIsAhead, ReleaseAfter, Holding, Queued
<1>. QED
  BY <1>1, <1>2, <1>3, ControllerInductive, PTL DEF Spec

=============================================================================
