---------------------------- MODULE OperatorPage ----------------------------
(***************************************************************************)
(* The operator page (app.js): one browser tab that polls the cycle, shows *)
(* the pending operation and posts the operator's decision.                *)
(*                                                                         *)
(* JavaScript runs one callback at a time, but every await lets a click or *)
(* a timer in.  Polls and decisions are tasks of one promise queue, so one *)
(* task runs and at most one waits.  One step is the code between two      *)
(* awaits, or one answer of the server.                                    *)
(*                                                                         *)
(* The server is the cycle as the API shows it: its phase and the pending  *)
(* operation.  Another page may resolve the operation too.  "busy" stands  *)
(* for recording and processing, which the page renders the same way.      *)
(***************************************************************************)
EXTENDS Naturals

CONSTANTS
  MaxOperations,  \* bound: recordings begun while the page is open
  MaxFailures     \* bound: requests or answers the network loses

ASSUME OperatorPageAssumption ==
  MaxOperations \in Nat /\ MaxFailures \in Nat

VARIABLES
  phase, pending, begun,                    \* the server
  operation, snapshot, failure,             \* ids held by `state`, None for null
  resolving,                                \* state.resolving
  signature,                                \* renderedSignature
  panel, buttons,                           \* what is visible; the two buttons
  poll, call, stage,                        \* promise queue and the running await
  answer, target, action, outcome,          \* contents in flight
  clicked,                                  \* history: the card under the last click
  lost                                      \* network failures so far

serverVars == <<phase, pending, begun>>
viewVars   == <<operation, snapshot, failure, signature, panel>>
taskVars   == <<poll, call, stage>>
flightVars == <<answer, target, action, outcome>>
vars == <<serverVars, viewVars, resolving, buttons, taskVars, flightVars, clicked, lost>>

None         == 0
Operations   == 1 .. MaxOperations
ServerPhases == {"idle", "busy", "wait"}
Panels       == {"loading", "system", "idle", "busy", "wait"}
Outcomes     == {"success", "settled_elsewhere", "no_pending", "execution_failed", "none"}

Status(p, op) == [phase |-> p, op |-> op]
NoSignature   == [phase |-> "none", op |-> None, failure |-> None]

TypeOK ==
  /\ phase \in ServerPhases
  /\ {pending, operation, snapshot, failure, target, clicked} \subseteq Operations \union {None}
  /\ begun \in 0 .. MaxOperations
  /\ resolving \in {"yes", "no"} /\ buttons \in {"on", "off"}
  /\ signature \in [phase : ServerPhases \union {"none"},
                    op : Operations \union {None}, failure : Operations \union {None}]
  /\ panel \in Panels
  /\ poll \in {"timer", "queued", "running"}
  /\ call \in {"none", "queued", "running"}
  /\ stage \in {"none", "fetch", "headers", "body", "post", "reply"}
  /\ answer \in [phase : ServerPhases, op : Operations \union {None}]
  /\ action \in {"confirm", "cancel"}
  /\ outcome \in Outcomes
  /\ lost \in 0 .. MaxFailures

\* renderLoading, and the first poll on its way.
Init ==
  /\ phase = "idle" /\ pending = None /\ begun = 0
  /\ operation = None /\ snapshot = None /\ failure = None
  /\ resolving = "no" /\ signature = NoSignature
  /\ panel = "loading" /\ buttons = "on"
  /\ poll = "running" /\ call = "none" /\ stage = "fetch"
  /\ answer = Status("idle", None)
  /\ target = None /\ action = "confirm" /\ outcome = "none"
  /\ clicked = None
  /\ lost = 0

-----------------------------------------------------------------------------
(* Server: the cycle moves on, driven by the button, the PC and other pages. *)

pageVars == <<viewVars, resolving, buttons, taskVars, flightVars, clicked, lost>>

ServerMoves ==
  /\ \/ phase = "idle" /\ begun < MaxOperations
        /\ phase' = "busy" /\ begun' = begun + 1 /\ UNCHANGED pending
     \/ phase = "busy" /\ phase' = "wait" /\ pending' = begun /\ UNCHANGED begun
     \/ phase = "busy" /\ phase' = "idle" /\ UNCHANGED <<pending, begun>>
     \/ phase = "wait" /\ phase' = "idle" /\ pending' = None /\ UNCHANGED begun
  /\ UNCHANGED pageVars

-----------------------------------------------------------------------------
(* Rendering.                                                              *)

\* Mutated form: a failure text outlives its operation.
FailureKept(op) == failure
FailureFor(op) == IF failure = op THEN failure ELSE None

SameSnapshot(op) == snapshot = op

\* Mutated form: rendering enables the buttons also during a decision.
ButtonsAlwaysOn == "on"
ButtonsAfterRender == IF resolving = "no" THEN "on" ELSE buttons

ShowNothing(p, sig) ==
  /\ panel' = p
  /\ signature' = sig
  /\ operation' = None /\ snapshot' = None /\ failure' = None
  /\ UNCHANGED buttons

\* Mutated form: renderedSignature keeps the last status that was shown.
DisconnectKeepingSignature == ShowNothing("system", signature)
RenderDisconnected == ShowNothing("system", NoSignature)

RenderPending(op, sig) ==
  /\ signature' = sig
  /\ operation' = op
  /\ failure' = FailureFor(op)
  /\ IF SameSnapshot(op) /\ panel = "wait" /\ buttons = "on"
     THEN UNCHANGED <<snapshot, panel, buttons>>
     ELSE snapshot' = op /\ panel' = "wait" /\ buttons' = ButtonsAfterRender

\* cycleSignature; headline and detail are functions of the phase.
Signature(s) == [phase |-> s.phase, op |-> s.op, failure |-> FailureFor(s.op)]

\* renderStatus: nothing is touched while the signature stays the same.
RenderStatus(s) ==
  \/ /\ Signature(s) = signature
     /\ failure' = FailureFor(s.op)
     /\ UNCHANGED <<operation, snapshot, signature, panel, buttons>>
  \/ /\ Signature(s) # signature
     /\ IF s.phase = "wait" THEN RenderPending(s.op, Signature(s))
                            ELSE ShowNothing(s.phase, Signature(s))

-----------------------------------------------------------------------------
(* The promise queue: the next task starts when the running one ends.      *)

EndTask ==
  \/ /\ poll = "running"
     /\ poll' = "timer"
     /\ call' = IF call = "queued" THEN "running" ELSE "none"
     /\ stage' = IF call = "queued" THEN "post" ELSE "none"
  \/ /\ call = "running"
     /\ call' = "none"
     /\ poll' = IF poll = "queued" THEN "running" ELSE poll
     /\ stage' = IF poll = "queued" THEN "fetch" ELSE "none"

\* scheduleNextPoll's timer.
PollTimer ==
  /\ poll = "timer"
  /\ poll' = IF stage = "none" THEN "running" ELSE "queued"
  /\ stage' = IF stage = "none" THEN "fetch" ELSE stage
  /\ UNCHANGED <<serverVars, viewVars, resolving, buttons, call, flightVars, clicked, lost>>

\* fetchCycleStatus up to its first await, the answer, and the two awaits after it.
StatusAnswered ==
  /\ stage = "fetch"
  /\ answer' = Status(phase, pending)
  /\ stage' = "headers"
  /\ UNCHANGED <<serverVars, viewVars, resolving, buttons, poll, call, target, action,
                 outcome, clicked, lost>>

HeadersArrive ==
  /\ stage = "headers"
  /\ IF resolving = "yes"
     THEN EndTask
     ELSE stage' = "body" /\ UNCHANGED <<poll, call>>
  /\ UNCHANGED <<serverVars, viewVars, resolving, buttons, flightVars, clicked, lost>>

BodyArrives ==
  /\ stage = "body"
  /\ RenderStatus(answer)
  /\ EndTask
  /\ UNCHANGED <<serverVars, resolving, flightVars, clicked, lost>>

\* fetch or response.text() rejects, also while a decision is being made.
StatusFails ==
  /\ stage \in {"fetch", "headers", "body"}
  /\ lost < MaxFailures
  /\ lost' = lost + 1
  /\ RenderDisconnected
  /\ EndTask
  /\ UNCHANGED <<serverVars, resolving, flightVars, clicked>>

-----------------------------------------------------------------------------
(* A decision: resolveOperation.                                           *)

Click(a) ==
  /\ panel = "wait" /\ buttons = "on"
  /\ operation # None /\ resolving = "no"
  /\ resolving' = "yes"
  /\ buttons' = "off"
  /\ target' = operation
  /\ action' = a
  /\ clicked' = snapshot
  /\ call' = IF stage = "none" THEN "running" ELSE "queued"
  /\ stage' = IF stage = "none" THEN "post" ELSE stage
  /\ UNCHANGED <<serverVars, viewVars, poll, answer, outcome, lost>>

\* Mutated form: the id is read when the request is sent, not when it is clicked.
OperationAtSending == operation
PostedId == target

\* The gateway's answer: `settled_elsewhere` stands for already_resolved,
\* conflict and stale_operation, which the page treats alike.
DecisionAnswered ==
  /\ stage = "post"
  /\ stage' = "reply"
  /\ \/ /\ pending = PostedId
        /\ phase' = "idle" /\ pending' = None /\ outcome' = "success"
     \/ /\ pending = PostedId /\ action = "confirm"
        /\ outcome' = "execution_failed" /\ UNCHANGED <<phase, pending>>
     \/ /\ pending # PostedId
        /\ outcome' = "settled_elsewhere" /\ UNCHANGED <<phase, pending>>
     \/ /\ pending = None
        /\ outcome' = "no_pending" /\ UNCHANGED <<phase, pending>>
  /\ UNCHANGED <<begun, viewVars, resolving, buttons, poll, call, answer, target,
                 action, clicked, lost>>

\* applyResolution, then the refresh of the finally block.
DecisionArrives ==
  /\ stage = "reply"
  /\ failure' = CASE outcome = "execution_failed" -> target
                  [] outcome = "no_pending" -> failure
                  [] OTHER -> None
  /\ resolving' = "no"
  /\ stage' = "fetch"
  /\ UNCHANGED <<serverVars, operation, snapshot, signature, panel, buttons, poll,
                 call, flightVars, clicked, lost>>

\* The request or its answer is lost; the server may have acted on it.
DecisionFails ==
  /\ stage \in {"post", "reply"}
  /\ lost < MaxFailures
  /\ lost' = lost + 1
  /\ RenderDisconnected
  /\ resolving' = "no"
  /\ stage' = "fetch"
  /\ UNCHANGED <<serverVars, poll, call, flightVars, clicked>>

PageSteps ==
  \/ PollTimer \/ StatusAnswered \/ HeadersArrive \/ BodyArrives
  \/ DecisionAnswered \/ DecisionArrives

Next ==
  \/ ServerMoves \/ PageSteps \/ StatusFails \/ DecisionFails
  \/ \E a \in {"confirm", "cancel"} : Click(a)

Spec == Init /\ [][Next]_vars

\* The event loop, its timers and the server's answers keep coming.
FairSpec == Spec /\ WF_vars(PageSteps)

-----------------------------------------------------------------------------
\* A decision that the server acts on, or tries to, is about the card that was on
\* screen at the click, although polls replace the card and `state` between the click
\* and the request (docs/interfaces/pending-operation-web-ui.md:77).
DecisionIsForTheCard ==
  [][stage = "post" /\ stage' = "reply" /\ outcome' \in {"success", "execution_failed"} =>
       clicked # None /\ pending = clicked]_vars

\* While a decision is under way no second one can be clicked, also when a poll
\* whose body was still being read renders in the middle of it.
BusyWhileResolving == resolving = "yes" => buttons = "off"

\* The text "could not be confirmed" never stands on another operation's card.
FailureIsOfTheCard == panel = "wait" /\ failure # None => failure = snapshot

\* A page that is left alone ends up showing the phase and the operation of the
\* server, after any number of lost requests.
PageCatchesUp == <>[](panel = phase /\ (phase = "wait" => snapshot = pending))

\* Between tasks a visible card can be used: the buttons of an operation that
\* could not be confirmed are enabled again
\* (docs/interfaces/pending-operation-web-ui.md:49 and :91).
CardIsUsable == stage = "none" /\ panel = "wait" => buttons = "on"

=============================================================================
