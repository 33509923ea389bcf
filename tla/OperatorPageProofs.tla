------------------------- MODULE OperatorPageProofs -------------------------
(***************************************************************************)
(* The card, the buttons and the failure text of the operator page, for    *)
(* any number of operations and of lost requests.                          *)
(***************************************************************************)
EXTENDS OperatorPage, TLAPS

\* The server holds at most the newest operation, and exactly while it waits.
ServerInv ==
  /\ pending # None => pending = begun
  /\ phase = "wait" <=> pending # None
  /\ phase = "busy" => begun # 0

\* An answer in flight names an operation exactly when it says "wait", and never
\* an older one than the page shows.
AnswerInv ==
  /\ answer.phase = "wait" <=> answer.op # None
  /\ answer.op <= begun /\ operation <= begun
  /\ stage \in {"headers", "body"} /\ answer.op # None => operation <= answer.op

\* One task runs and at most one waits; a decision is under way from the click
\* until its own answer.
TaskInv ==
  /\ stage # "none" <=> poll = "running" \/ call = "running"
  /\ ~(poll = "running" /\ call = "running")
  /\ poll = "queued" => call = "running"
  /\ call = "queued" => poll = "running"
  /\ stage \in {"post", "reply"} => call = "running"
  /\ resolving = "yes" <=> call = "queued" \/ stage \in {"post", "reply"}

\* Nothing can be clicked before the task of the last click has ended.
ButtonInv == call # "none" => buttons = "off"

\* A visible card is the one the last render was about.
CardInv ==
  panel = "wait" =>
    /\ operation # None /\ snapshot = operation
    /\ signature.phase = "wait" /\ signature.op = operation

\* The operation a decision is about is the one that was clicked, and never newer
\* than what the page shows or is about to show.
TargetInv ==
  resolving = "yes" =>
    /\ target # None /\ target <= begun
    /\ target = clicked
    /\ panel = "wait" => target <= snapshot
    /\ stage = "body" /\ answer.op # None => target <= answer.op

\* A refused confirmation that is on its way to the page is about its card.
RefusalInv ==
  stage = "reply" /\ outcome = "execution_failed" /\ panel = "wait" => snapshot = target

IInv ==
  /\ TypeOK
  /\ ServerInv /\ AnswerInv /\ TaskInv /\ ButtonInv
  /\ CardInv /\ TargetInv /\ RefusalInv /\ FailureIsOfTheCard

-----------------------------------------------------------------------------
(* Steps.                                                                  *)

\* The page opens on a server that is idle.
LEMMA IInit == Init => IInv
BY OperatorPageAssumption
   DEF Init, IInv, TypeOK, ServerInv, AnswerInv, TaskInv, ButtonInv, CardInv, TargetInv,
       RefusalInv, FailureIsOfTheCard, None, Operations, ServerPhases, Panels, Outcomes,
       Status, NoSignature

\* The server moves on: what the page has in hand only gets older.
LEMMA ServerStep ==
  ASSUME IInv, ServerMoves
  PROVE  IInv'
BY OperatorPageAssumption
   DEF IInv, ServerMoves, pageVars, viewVars, taskVars, flightVars, TypeOK, ServerInv,
       AnswerInv, TaskInv, ButtonInv, CardInv, TargetInv, RefusalInv, FailureIsOfTheCard,
       None, Operations, ServerPhases

\* A timer and the first two awaits of a poll touch nothing that is shown.
LEMMA PollStep ==
  ASSUME IInv, PollTimer \/ StatusAnswered
  PROVE  IInv'
<1>. USE DEF IInv, TypeOK, ServerInv, AnswerInv, TaskInv, ButtonInv, CardInv, TargetInv,
             RefusalInv, FailureIsOfTheCard, serverVars, viewVars, flightVars
<1>1. CASE PollTimer
  BY <1>1 DEF PollTimer
<1>2. CASE StatusAnswered
  BY <1>2 DEF StatusAnswered, Status, None, ServerPhases, Operations
<1>. QED
  BY <1>1, <1>2

\* The queue after a task: what waits runs next, and a decision that waits goes
\* on being under way.
LEMMA TaskEnds ==
  ASSUME IInv, EndTask, UNCHANGED resolving, stage \notin {"post", "reply"}
  PROVE  /\ TaskInv'
         /\ poll' \in {"timer", "queued", "running"} /\ call' \in {"none", "queued", "running"}
         /\ stage' \in {"none", "post", "fetch"}
         /\ call' # "none" => call # "none" /\ resolving = "yes"
BY DEF IInv, TypeOK, TaskInv, EndTask

\* The headers of an answer end the poll while a decision waits.
LEMMA HeadersStep ==
  ASSUME IInv, HeadersArrive
  PROVE  IInv'
<1>. USE DEF serverVars, viewVars, flightVars
<1>1. CASE resolving = "yes"
  <2>1. EndTask /\ UNCHANGED resolving /\ stage \notin {"post", "reply"}
    BY <1>1 DEF HeadersArrive
  <2>. QED
    BY <1>1, <2>1, TaskEnds
       DEF HeadersArrive, IInv, TypeOK, ServerInv, AnswerInv, ButtonInv, CardInv, TargetInv,
           RefusalInv, FailureIsOfTheCard
<1>2. CASE resolving # "yes"
  BY <1>2
     DEF HeadersArrive, IInv, TypeOK, ServerInv, AnswerInv, TaskInv, ButtonInv, CardInv,
         TargetInv, RefusalInv, FailureIsOfTheCard
<1>. QED
  BY <1>1, <1>2

\* What a render leaves on the page, whichever branch it takes.
LEMMA Rendered ==
  ASSUME IInv, stage = "body", RenderStatus(answer)
  PROVE  /\ {operation', snapshot', failure'} \subseteq Operations \union {None}
         /\ signature' \in [phase : ServerPhases \union {"none"},
                            op : Operations \union {None},
                            failure : Operations \union {None}]
         /\ panel' \in Panels /\ buttons' \in {"on", "off"}
         /\ resolving = "yes" => buttons' = "off"
         /\ operation' <= begun
         /\ CardInv' /\ FailureIsOfTheCard'
         /\ panel' = "wait" /\ resolving = "yes" => target <= snapshot'
<1>. USE DEF IInv, TypeOK, CardInv, FailureIsOfTheCard, FailureFor, None
<1>1. Signature(answer) \in [phase : ServerPhases \union {"none"},
                             op : Operations \union {None},
                             failure : Operations \union {None}]
      /\ Signature(answer).phase = answer.phase /\ Signature(answer).op = answer.op
  BY DEF Signature
<1>2. answer.op \in Operations \union {None} /\ answer.phase \in ServerPhases
      /\ answer.op <= begun /\ (answer.phase = "wait" <=> answer.op # None)
      /\ (resolving = "yes" /\ answer.op # None => target <= answer.op)
      /\ (resolving = "yes" => buttons = "off")
  BY DEF AnswerInv, TargetInv, TaskInv, ButtonInv
<1>. HIDE DEF Signature
<1>3. CASE Signature(answer) = signature
  BY <1>1, <1>2, <1>3 DEF RenderStatus, TargetInv, AnswerInv
<1>4. CASE Signature(answer) # signature /\ answer.phase = "wait"
  BY <1>1, <1>2, <1>4
     DEF RenderStatus, RenderPending, SameSnapshot, ButtonsAfterRender, Panels
<1>5. CASE Signature(answer) # signature /\ answer.phase # "wait"
  BY <1>1, <1>2, <1>5 DEF RenderStatus, ShowNothing, Panels, ServerPhases
<1>. QED
  BY <1>3, <1>4, <1>5

\* The body of an answer is rendered and its task ends, also in the middle of a
\* decision.
LEMMA BodyStep ==
  ASSUME IInv, BodyArrives
  PROVE  IInv'
<1>1. /\ stage = "body" /\ RenderStatus(answer) /\ EndTask
      /\ UNCHANGED <<serverVars, resolving, flightVars, clicked, lost>>
  BY DEF BodyArrives
<1>2. /\ TaskInv' /\ poll' \in {"timer", "queued", "running"}
      /\ call' \in {"none", "queued", "running"} /\ stage' \in {"none", "post", "fetch"}
      /\ call' # "none" => call # "none" /\ resolving = "yes"
  BY <1>1, TaskEnds
<1>3. TypeOK'
  BY <1>1, <1>2, Rendered DEF IInv, TypeOK, serverVars, flightVars
<1>4. ServerInv' /\ RefusalInv'
  BY <1>1, <1>2 DEF IInv, ServerInv, RefusalInv, serverVars
<1>5. AnswerInv' /\ ButtonInv' /\ TargetInv'
  <2>1. /\ operation' <= begun /\ (resolving = "yes" => buttons' = "off")
        /\ panel' = "wait" /\ resolving = "yes" => target <= snapshot'
    BY <1>1, Rendered
  <2>. QED
    BY <1>1, <1>2, <2>1
       DEF IInv, AnswerInv, ButtonInv, TargetInv, serverVars, flightVars
<1>6. CardInv' /\ FailureIsOfTheCard'
  BY <1>1, Rendered
<1>. QED
  BY <1>2, <1>3, <1>4, <1>5, <1>6 DEF IInv

\* A lost request shows the system card and ends its task.
LEMMA LossStep ==
  ASSUME IInv, StatusFails \/ DecisionFails
  PROVE  IInv'
<1>. USE OperatorPageAssumption
     DEF RenderDisconnected, ShowNothing, NoSignature, serverVars, flightVars, None, Panels
<1>1. CASE StatusFails
  <2>1. /\ EndTask /\ UNCHANGED resolving /\ stage \notin {"post", "reply"}
    BY <1>1 DEF StatusFails
  <2>. QED
    BY <1>1, <2>1, TaskEnds
       DEF StatusFails, IInv, TypeOK, ServerInv, AnswerInv, ButtonInv, CardInv, TargetInv,
           RefusalInv, FailureIsOfTheCard
<1>2. CASE DecisionFails
  BY <1>2
     DEF DecisionFails, IInv, TypeOK, ServerInv, AnswerInv, TaskInv, ButtonInv, CardInv,
         TargetInv, RefusalInv, FailureIsOfTheCard
<1>. QED
  BY <1>1, <1>2

\* A click chooses the operation on screen, the newest the page knows of.
LEMMA ClickStep ==
  ASSUME IInv, NEW a \in {"confirm", "cancel"}, Click(a)
  PROVE  IInv'
<1>. USE DEF Click, serverVars, viewVars
<1>1. operation \in Nat
  BY OperatorPageAssumption DEF IInv, TypeOK, Operations, None
<1>2. TypeOK' /\ ServerInv' /\ CardInv' /\ FailureIsOfTheCard'
  BY DEF IInv, TypeOK, ServerInv, CardInv, FailureIsOfTheCard
<1>3. TaskInv' /\ ButtonInv'
  BY DEF IInv, TypeOK, TaskInv, ButtonInv
<1>4. AnswerInv' /\ TargetInv' /\ RefusalInv'
  BY <1>1 DEF IInv, AnswerInv, TargetInv, RefusalInv, CardInv, ButtonInv
<1>. QED
  BY <1>2, <1>3, <1>4 DEF IInv

\* The server decides, and a refusal can only be of the operation shown.
LEMMA AnsweredStep ==
  ASSUME IInv, DecisionAnswered
  PROVE  IInv'
BY DEF DecisionAnswered, PostedId, IInv, TypeOK, ServerInv, AnswerInv, TaskInv, ButtonInv, CardInv,
       TargetInv, RefusalInv, FailureIsOfTheCard, viewVars, None, ServerPhases, Operations,
       Outcomes

\* The decision's answer ends it and may leave a failure text.
LEMMA ArrivesStep ==
  ASSUME IInv, DecisionArrives
  PROVE  IInv'
BY DEF DecisionArrives, IInv, TypeOK, ServerInv, AnswerInv, TaskInv, ButtonInv, CardInv,
       TargetInv, RefusalInv, FailureIsOfTheCard, serverVars, flightVars

-----------------------------------------------------------------------------
(* Theorems.                                                               *)

\* Every step of the page and of the server keeps the invariant.
LEMMA IStep == IInv /\ [Next]_vars => IInv'
<1>. SUFFICES ASSUME IInv, [Next]_vars PROVE IInv'
  OBVIOUS
<1>1. CASE UNCHANGED vars
  BY <1>1
     DEF IInv, TypeOK, ServerInv, AnswerInv, TaskInv, ButtonInv, CardInv, TargetInv,
         RefusalInv, FailureIsOfTheCard, vars, serverVars, viewVars, taskVars, flightVars
<1>2. CASE Next
  BY <1>2, ServerStep, PollStep, HeadersStep, BodyStep, LossStep, ClickStep, AnsweredStep,
     ArrivesStep DEF Next, PageSteps
<1>. QED
  BY <1>1, <1>2

\* The inductive invariant of the page, for every number of operations and of
\* lost requests.
THEOREM PageInductive == Spec => []IInv
BY IInit, IStep, PTL DEF Spec

\* The operation that the server acts on is the one whose card was clicked, whatever
\* poll rendered another one before the request was sent.
\* (renderPending and resolveOperation of app.js)
THEOREM CardIsDecided == Spec => DecisionIsForTheCard
<1>1. ASSUME IInv, [Next]_vars, stage = "post", stage' = "reply",
             outcome' \in {"success", "execution_failed"}
      PROVE  clicked # None /\ pending = clicked
  <2>1. target # None /\ target = clicked
    BY <1>1 DEF IInv, TaskInv, TargetInv
  <2>2. ~PollTimer /\ ~StatusAnswered /\ ~HeadersArrive /\ ~BodyArrives /\ ~DecisionArrives
    BY <1>1 DEF PollTimer, StatusAnswered, HeadersArrive, BodyArrives, DecisionArrives
  <2>3. ~ServerMoves /\ ~StatusFails /\ ~DecisionFails /\ ~UNCHANGED vars
    BY <1>1 DEF ServerMoves, pageVars, StatusFails, DecisionFails, vars, taskVars
  <2>4. ASSUME NEW a \in {"confirm", "cancel"} PROVE ~Click(a)
    BY <1>1 DEF Click
  <2>5. DecisionAnswered
    BY <1>1, <2>2, <2>3, <2>4 DEF Next, PageSteps
  <2>6. pending = target
    BY <1>1, <2>5 DEF DecisionAnswered, PostedId
  <2>. QED
    BY <2>1, <2>6
<1>2. IInv /\ [Next]_vars =>
        [stage = "post" /\ stage' = "reply" /\ outcome' \in {"success", "execution_failed"} =>
           clicked # None /\ pending = clicked]_vars
  BY <1>1
<1>. QED
  BY <1>2, PageInductive, PTL DEF Spec, DecisionIsForTheCard

\* The buttons are off from a click until its answer was handled, whatever polls
\* render in between.
THEOREM OneDecisionAtATime == Spec => []BusyWhileResolving
<1>1. IInv => BusyWhileResolving
  BY DEF IInv, TaskInv, ButtonInv, BusyWhileResolving
<1>. QED
  BY <1>1, PageInductive, PTL

\* A failure text stands on the card of the operation that failed.
\* (applyResolution and renderPending of app.js)
THEOREM FailureOfTheCard == Spec => []FailureIsOfTheCard
<1>1. IInv => FailureIsOfTheCard
  BY DEF IInv
<1>. QED
  BY <1>1, PageInductive, PTL

=============================================================================
