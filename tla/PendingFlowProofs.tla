------------------------- MODULE PendingFlowProofs -------------------------
(***************************************************************************)
(* What PendingFlow guarantees for every number of clients and recordings, *)
(* and whether or not the file system lets a recording be deleted.         *)
(***************************************************************************)
EXTENDS PendingFlow, TLAPS

\* Every stored operation used up a recording that is past its answer.
OperationsComeFromRecordings ==
  offered + Len(queue) + One(worker \in {"send", "store"})
          + One(recorder \in {"recording", "submit"}) <= cycle

\* The gateway's lock: one client at a time between its first and last step.
GatewayExclusive ==
  \A c, d \in Clients : InGateway(c) /\ InGateway(d) => c = d

\* Where each operation stands, and what the lock holder knows about its own.
LedgerInv ==
  /\ pending <= offered
  /\ \A op \in Operations : op > offered => effects[op] = 0 /\ op \notin cancelled
  /\ AppliedAtMostOnce
  /\ CancelledNeverApplied
  /\ pending \notin cancelled
  /\ pending # NoOperation /\ effects[pending] # 0 =>
       \E c \in Clients : step[c] = "clear" /\ action[c] = "CONFIRM"
  /\ \A c \in Clients :
       /\ step[c] = "execute" => action[c] = "CONFIRM" /\ effects[target[c]] = 0
       /\ step[c] = "clear" =>
            effects[target[c]] = IF action[c] = "CONFIRM" THEN 1 ELSE 0

\* The remembered resolution is what happened to that operation.
LastIsTruthful ==
  last.op # NoOperation =>
    \/ last.action = "CONFIRM" /\ effects[last.op] = 1
    \/ last.action = "CANCEL" /\ last.op \in cancelled

SlotInv == PhaseMatchesSlot /\ GatewayExclusive /\ ClearCannotMiss

CountInv == TypeOK /\ JobsAreAccounted /\ OperationsComeFromRecordings

IInv == CountInv /\ SlotInv /\ LedgerInv /\ LastIsTruthful /\ RepliesAreTruthful

-----------------------------------------------------------------------------
(* Which variables each kind of thread leaves alone.                       *)

\* The bound alone: the provers do better without the Boolean constants.
LEMMA BoundIsNat == MaxCycles \in Nat
BY PendingFlowAssumption

\* The flow's own threads never touch a client or the ledger.
LEMMA FlowThreadsFrame ==
  Recorder \/ Worker \/ Closer => UNCHANGED <<clientVars, settledVars>>
BY DEF Recorder, TryBeginRecording, MayBegin, OnCaptureError, OnCaptureCompleted, Submit,
       AbandonUnscheduled, RetireUnscheduled, Discard, Worker, Take, AnswerAccepted,
       AnswerRejected, SenderRaised, Store, AbandonAnswer, CleanUp, AbandonFailedSend,
       Finish, Closer, SetClosed, ShutdownPool, ExitBegins, JoinPool

\* A gateway call touches only the slot, the ledger and its own client.
LEMMA ClientsFrame ==
  ASSUME NEW c \in Clients, Client(c)
  PROVE  UNCHANGED <<offered, origin, jobs, recorderVars, queue, workerVars,
                     closer, fileVars>>
BY DEF Client, Request, EnterGateway, Execute, ClearSlot, Answer, flowVars

\* A step belongs to one of the threads.
LEMMA NextThreads ==
  ASSUME [Next]_vars
  PROVE  \/ Recorder \/ Worker \/ Closer
         \/ \E c \in Clients : Client(c)
         \/ UNCHANGED vars
BY DEF Next

-----------------------------------------------------------------------------
(* Types and counts.                                                       *)

Counts == JobsAreAccounted /\ OperationsComeFromRecordings

\* The initial state is well typed and its counts agree.
LEMMA CountInit == Init => CountInv
<1>. SUFFICES ASSUME Init PROVE CountInv
  OBVIOUS
<1>1. PhaseTypes
  BY BoundIsNat DEF Init, PhaseTypes, Phases, Messages
<1>2. ThreadTypes
  BY BoundIsNat DEF Init, ThreadTypes, RecorderSteps, WorkerSteps, ClosingSteps,
                    Messages
<1>3. ClientTypes
  BY DEF Init, ClientTypes, ClientSteps, Actions
<1>4. LedgerTypes
  BY DEF Init, LedgerTypes
<1>5. Counts
  BY DEF Init, Counts, JobsAreAccounted, OperationsComeFromRecordings, One, WorkerBusy
<1>. QED
  BY <1>1, <1>2, <1>3, <1>4, <1>5 DEF CountInv, TypeOK, Counts

\* The push-to-talk worker's callbacks keep types and counts.
LEMMA CountsOfRecorder == CountInv /\ Recorder => (PhaseTypes /\ ThreadTypes /\ Counts)'
<1>. USE BoundIsNat
     DEF PhaseTypes, ThreadTypes, Counts, JobsAreAccounted, OperationsComeFromRecordings,
         One, WorkerBusy, flowVars, workerVars, fileVars
<1>. SUFFICES ASSUME PhaseTypes, ThreadTypes, Counts, Recorder
              PROVE  (PhaseTypes /\ ThreadTypes /\ Counts)'
  BY DEF CountInv, TypeOK
<1>. USE DEF Phases, Messages, Rejected, NoMessage, NoOperation, RecorderSteps
<1>1. CASE TryBeginRecording
  BY <1>1 DEF TryBeginRecording, MayBegin
<1>2. CASE OnCaptureError
  BY <1>2 DEF OnCaptureError
<1>0. Len(queue) \in Nat
  OBVIOUS
<1>3. CASE OnCaptureCompleted
  <2>1. cycle \in Cycles
    BY <1>0, <1>3 DEF OnCaptureCompleted, Cycles
  <2>2. CASE Refused
    BY <1>3, <2>1, <2>2 DEF OnCaptureCompleted
  <2>3. CASE ~Refused
    BY <1>3, <2>1, <2>3 DEF OnCaptureCompleted
  <2>. QED
    BY <2>2, <2>3
<1>4. CASE Submit
  <2>1. cycle \in Cycles
    BY <1>0, <1>4 DEF Submit, Cycles
  <2>2. CASE PoolOpen
    <3>1. queue' \in Seq(Cycles) /\ Len(queue') = Len(queue) + 1
      BY <1>4, <2>1, <2>2 DEF Submit
    <3>. QED
      BY <1>0, <1>4, <2>2, <3>1 DEF Submit
  <2>3. CASE ~PoolOpen
    BY <1>4, <2>3 DEF Submit
  <2>. QED
    BY <2>2, <2>3
<1>5. CASE AbandonUnscheduled
  BY <1>5 DEF AbandonUnscheduled, Abandon, StillProcessing
<1>6. CASE RetireUnscheduled
  BY <1>6 DEF RetireUnscheduled
<1>7. CASE Discard
  BY <1>7 DEF Discard, Unlink
<1>. QED
  BY <1>1, <1>2, <1>3, <1>4, <1>5, <1>6, <1>7 DEF Recorder

\* The pool thread keeps types and counts.
LEMMA CountsOfWorker == CountInv /\ Worker => (PhaseTypes /\ ThreadTypes /\ Counts)'
<1>. USE BoundIsNat
     DEF PhaseTypes, ThreadTypes, Counts, JobsAreAccounted, OperationsComeFromRecordings,
         One, WorkerBusy, flowVars, recorderVars, workerVars, fileVars
<1>. SUFFICES ASSUME PhaseTypes, ThreadTypes, Counts, Worker
              PROVE  (PhaseTypes /\ ThreadTypes /\ Counts)'
  BY DEF CountInv, TypeOK
<1>. USE DEF Phases, Messages, Rejected, NoMessage, NoOperation, WorkerSteps
<1>0. Len(queue) \in Nat
  OBVIOUS
<1>1. CASE Take
  <2>1. /\ Head(queue) \in Cycles
        /\ Tail(queue) \in Seq(Cycles)
        /\ Len(Tail(queue)) = Len(queue) - 1
    BY <1>1 DEF Take
  <2>2. Head(queue) \in 0 .. MaxCycles
    BY <2>1 DEF Cycles
  <2>3. /\ job' \in 0 .. MaxCycles
        /\ queue' \in Seq(Cycles)
        /\ Len(queue') = Len(queue) - 1
    BY <1>1, <2>1, <2>2 DEF Take
  <2>4. PhaseTypes' /\ ThreadTypes'
    BY <1>1, <2>3 DEF Take
  <2>5. /\ worker = "free" /\ worker' = "send"
        /\ UNCHANGED <<offered, cycle, recorder, jobs>>
    BY <1>1 DEF Take
  <2>6. Counts'
    BY <1>0, <2>3, <2>5
  <2>. QED
    BY <2>4, <2>6
<1>2. CASE AnswerAccepted
  BY <1>0, <1>2 DEF AnswerAccepted
<1>3. CASE AnswerRejected
  BY <1>0, <1>3 DEF AnswerRejected
<1>4. CASE SenderRaised
  BY <1>0, <1>4 DEF SenderRaised
<1>5. CASE Store
  <2>1. /\ worker = "store" /\ worker' = "cleanup"
        /\ UNCHANGED <<jobs, recorder, cycle, queue, job, reason, closer, files, undeleted>>
        /\ offered' \in {offered, offered + 1}
    BY <1>5 DEF Store
  <2>2. Counts'
    BY <1>0, <2>1
  <2>3. ThreadTypes'
    BY <2>1
  <2>4. offered' \in 0 .. MaxCycles
    <3>1. offered' <= cycle
      BY <1>0, <2>1, <2>2
    <3>. QED
      BY <2>1, <3>1
  <2>5. PhaseTypes'
    BY <1>5, <2>1, <2>4 DEF Store, Operations
  <2>. QED
    BY <2>2, <2>3, <2>5
<1>6. CASE AbandonAnswer
  BY <1>0, <1>6 DEF AbandonAnswer, Abandon, StillProcessing
<1>7. CASE CleanUp
  <2>1. /\ files' \in SUBSET Cycles
        /\ undeleted' \in SUBSET Cycles
    <3>1. CASE DeleteAfterSend
      <4>1. Unlink(job)
        BY <1>7, <3>1 DEF CleanUp
      <4>2. CASE files' = files \ {job} /\ UNCHANGED undeleted
        BY <4>2
      <4>3. CASE job \in files /\ undeleted' = undeleted \union {job} /\ UNCHANGED files
        BY <4>3
      <4>. QED
        BY <4>1, <4>2, <4>3 DEF Unlink
    <3>2. CASE ~DeleteAfterSend
      BY <1>7, <3>2 DEF CleanUp
    <3>. QED
      BY <3>1, <3>2
  <2>2. /\ worker \in {"cleanup", "unwind"}
        /\ worker' \in {"finish", "failed"}
        /\ UNCHANGED <<flowVars, jobs, recorderVars, queue, job, reason, closer>>
    BY <1>7 DEF CleanUp
  <2>3. PhaseTypes'
    BY <2>2
  <2>4. ThreadTypes'
    BY <2>1, <2>2
  <2>5. Counts'
    BY <1>0, <2>2
  <2>. QED
    BY <2>3, <2>4, <2>5
<1>8. CASE AbandonFailedSend
  BY <1>0, <1>8 DEF AbandonFailedSend, Abandon, StillProcessing
<1>9. CASE Finish
  BY <1>0, <1>9 DEF Finish
<1>. QED
  BY <1>1, <1>2, <1>3, <1>4, <1>5, <1>6, <1>7, <1>8, <1>9 DEF Worker

\* close() touches neither.
LEMMA CountsOfCloser == CountInv /\ Closer => (PhaseTypes /\ ThreadTypes /\ Counts)'
BY DEF CountInv, TypeOK, PhaseTypes, ThreadTypes, Counts, JobsAreAccounted, WorkerBusy,
       OperationsComeFromRecordings, Closer, SetClosed, ShutdownPool, ExitBegins, JoinPool,
       ClosingSteps, flowVars, recorderVars, workerVars, fileVars

\* Gateway calls keep the types and do not touch the counts.
LEMMA CountsOfClients ==
  ASSUME CountInv, NEW c \in Clients, Client(c)
  PROVE  CountInv'
<1>1. ThreadTypes' /\ Counts'
  BY ClientsFrame DEF CountInv, TypeOK, ThreadTypes, Counts, JobsAreAccounted,
     WorkerBusy, OperationsComeFromRecordings, recorderVars, workerVars, fileVars
<1>. USE DEF CountInv, TypeOK, PhaseTypes, ClientTypes, LedgerTypes, flowVars, clientVars,
            settledVars, Answer
<1>2. CASE Request(c)
  <2>1. PhaseTypes' /\ LedgerTypes'
    BY <1>2, ClientsFrame DEF Request, recorderVars
  <2>2. \A id \in 1 .. offered : id \in Operations
    BY BoundIsNat DEF Operations
  <2>3. ClientTypes'
    BY <1>2, <2>2 DEF Request, ClientSteps
  <2>. QED
    BY <1>1, <2>1, <2>3 DEF Counts
<1>3. CASE EnterGateway(c)
  <2>1. PhaseTypes' /\ LedgerTypes'
    BY <1>3, ClientsFrame DEF EnterGateway, recorderVars
  <2>2. ClientTypes'
    BY <1>3 DEF EnterGateway, Remembered, ClientSteps, Statuses
  <2>. QED
    BY <1>1, <2>1, <2>2 DEF Counts
<1>4. CASE Execute(c)
  <2>1. PhaseTypes'
    BY <1>4, ClientsFrame DEF Execute, recorderVars
  <2>2. ClientTypes'
    BY <1>4 DEF Execute, ClientSteps, Statuses
  <2>3. LedgerTypes'
    BY <1>4 DEF Execute
  <2>. QED
    BY <1>1, <2>1, <2>2, <2>3 DEF Counts
<1>5. CASE ClearSlot(c)
  <2>1. ClientTypes'
    BY <1>5 DEF ClearSlot, ClientSteps, Statuses
  <2>2. CASE pending = target[c] /\ phase = "WAIT_CONFIRMATION"
    <3>1. PhaseTypes'
      BY <1>5, <2>2, ClientsFrame
         DEF ClearSlot, recorderVars, Phases, Messages, NoOperation
    <3>2. target[c] \in Operations \union {NoOperation}
      BY <2>2
    <3>3. target[c] # NoOperation /\ action[c] \in Actions
      BY BoundIsNat DEF NoOperation, Operations, ForeignId
    <3>4. LedgerTypes'
      BY <1>5, <2>2, <3>2, <3>3 DEF ClearSlot
    <3>. QED
      BY <1>1, <2>1, <3>1, <3>4 DEF Counts
  <2>3. CASE ~(pending = target[c] /\ phase = "WAIT_CONFIRMATION")
    <3>1. PhaseTypes' /\ LedgerTypes'
      BY <1>5, <2>3, ClientsFrame DEF ClearSlot, recorderVars
    <3>. QED
      BY <1>1, <2>1, <3>1 DEF Counts
  <2>. QED
    BY <2>2, <2>3
<1>. QED
  BY <1>2, <1>3, <1>4, <1>5 DEF Client

\* Types and counts are inductive on their own.
LEMMA CountStep == CountInv /\ [Next]_vars => CountInv'
<1>. SUFFICES ASSUME CountInv, [Next]_vars PROVE CountInv'
  OBVIOUS
<1>1. CASE Recorder \/ Worker \/ Closer
  <2>1. (PhaseTypes /\ ThreadTypes /\ Counts)'
    BY <1>1, CountsOfRecorder, CountsOfWorker, CountsOfCloser
  <2>2. (ClientTypes /\ LedgerTypes)'
    BY <1>1, FlowThreadsFrame
       DEF CountInv, TypeOK, ClientTypes, LedgerTypes, clientVars, settledVars
  <2>. QED
    BY <2>1, <2>2 DEF CountInv, TypeOK, Counts
<1>2. ASSUME NEW c \in Clients, Client(c) PROVE CountInv'
  BY <1>2, CountsOfClients
<1>3. CASE UNCHANGED vars
  BY <1>3 DEF vars, flowVars, recorderVars, workerVars, fileVars, clientVars, settledVars,
     CountInv, TypeOK, PhaseTypes, ThreadTypes, ClientTypes, LedgerTypes, JobsAreAccounted,
     WorkerBusy, OperationsComeFromRecordings
<1>. QED
  BY <1>1, <1>2, <1>3, NextThreads

\* Every variable keeps its type: in particular no more operations are stored
\* than recordings were made, and the job count never goes below zero.
THEOREM TypeCorrect == Spec => []TypeOK
<1>1. Spec => []CountInv
  BY CountInit, CountStep, PTL DEF Spec
<1>2. CountInv => TypeOK
  BY DEF CountInv
<1>. QED
  BY <1>1, <1>2, PTL

-----------------------------------------------------------------------------
(* The slot, the lock, and the ledger of applied and cancelled operations. *)

\* Seen from the gateway, the flow's own threads only ever fill an empty slot,
\* with an operation nobody has seen before.
LEMMA FlowThreadsSlot ==
  ASSUME CountInv, PhaseMatchesSlot, Recorder \/ Worker \/ Closer
  PROVE  /\ PhaseMatchesSlot'
         /\ pending # NoOperation => UNCHANGED <<phase, pending>>
         /\ \/ UNCHANGED <<pending, offered>>
            \/ pending = NoOperation /\ pending' = offered + 1 /\ offered' = offered + 1
<1>. USE DEF PhaseMatchesSlot, NoOperation, flowVars
<1>. USE CountInv DEF CountInv, TypeOK, PhaseTypes
<1>1. CASE Recorder
  BY <1>1 DEF Recorder, TryBeginRecording, MayBegin, OnCaptureError, OnCaptureCompleted, Submit,
     AbandonUnscheduled, RetireUnscheduled, Discard, Abandon, StillProcessing, Refused
<1>2. CASE Store
  BY <1>2, BoundIsNat DEF Store
<1>3. CASE Worker /\ ~Store
  BY <1>3 DEF Worker, Take, AnswerAccepted, AnswerRejected, SenderRaised, AbandonAnswer,
     CleanUp, AbandonFailedSend, Finish, Abandon, StillProcessing
<1>4. CASE Closer
  BY <1>4 DEF Closer, SetClosed, ShutdownPool, ExitBegins, JoinPool
<1>. QED
  BY <1>1, <1>2, <1>3, <1>4

\* The initial state satisfies the strengthened invariant.
LEMMA IInit == Init => IInv
<1>. SUFFICES ASSUME Init PROVE IInv
  OBVIOUS
<1>1. CountInv
  BY CountInit
<1>2. SlotInv
  BY DEF Init, SlotInv, PhaseMatchesSlot, GatewayExclusive, ClearCannotMiss, InGateway,
         NoOperation
<1>3. LedgerInv
  BY DEF Init, LedgerInv, AppliedAtMostOnce, CancelledNeverApplied, NoOperation
<1>4. LastIsTruthful /\ RepliesAreTruthful
  BY DEF Init, LastIsTruthful, RepliesAreTruthful, Answered, NoReply
<1>. QED
  BY <1>1, <1>2, <1>3, <1>4 DEF IInv

\* The flow's own threads preserve it.
LEMMA IStepOfFlowThreads ==
  ASSUME IInv, Recorder \/ Worker \/ Closer
  PROVE  IInv'
<1>. USE DEF IInv, SlotInv, clientVars, settledVars
<1>1. CountInv'
  <2>1. [Next]_vars
    BY DEF Next
  <2>. QED
    BY <2>1, CountStep
<1>2. UNCHANGED <<step, action, target, reply, last, effects, cancelled>>
  BY FlowThreadsFrame
<1>3. /\ PhaseMatchesSlot'
      /\ pending # NoOperation => UNCHANGED <<phase, pending>>
      /\ \/ UNCHANGED <<pending, offered>>
         \/ pending = NoOperation /\ pending' = offered + 1 /\ offered' = offered + 1
  BY FlowThreadsSlot
<1>4. SlotInv'
  <2>1. GatewayExclusive'
    BY <1>2 DEF GatewayExclusive, InGateway
  <2>2. ClearCannotMiss'
    BY <1>2, <1>3 DEF ClearCannotMiss, InGateway, PhaseMatchesSlot
  <2>. QED
    BY <1>3, <2>1, <2>2
<1>5. LedgerInv'
  <2>. USE DEF LedgerInv, AppliedAtMostOnce, CancelledNeverApplied
  <2>1. CASE UNCHANGED <<pending, offered>>
    BY <1>2, <2>1
  <2>2. CASE pending' = offered + 1 /\ offered' = offered + 1
    <3>1. offered \in Nat /\ offered + 1 \in Operations
      BY <1>1, <2>2, BoundIsNat DEF CountInv, TypeOK, PhaseTypes, NoOperation
    <3>2. effects[offered + 1] = 0 /\ offered + 1 \notin cancelled
      BY <3>1
    <3>3. \A op \in Operations : op > offered + 1 => op > offered
      BY <3>1 DEF Operations
    <3>. QED
      BY <1>2, <2>2, <3>1, <3>2, <3>3
  <2>. QED
    BY <1>3, <2>1, <2>2
<1>6. LastIsTruthful' /\ RepliesAreTruthful'
  BY <1>2 DEF LastIsTruthful, RepliesAreTruthful, Answered
<1>. QED
  BY <1>1, <1>4, <1>5, <1>6

\* Every step of a gateway call preserves it.
LEMMA IStepOfClients ==
  ASSUME IInv, NEW c \in Clients, Client(c)
  PROVE  IInv'
<1>. USE BoundIsNat DEF IInv, SlotInv, flowVars, settledVars
<1>1. CountInv'
  BY CountsOfClients
<1>2. /\ offered' = offered
      /\ step \in [Clients -> ClientSteps] /\ action \in [Clients -> Actions]
      /\ target \in [Clients -> Operations \union {ForeignId}]
      /\ reply \in [Clients -> Statuses \union {NoReply}]
      /\ effects \in [Operations -> Nat]
      /\ pending \in Operations \union {NoOperation}
  BY ClientsFrame DEF CountInv, TypeOK, PhaseTypes, ClientTypes, LedgerTypes
<1>3. NoOperation \notin Operations /\ ForeignId \notin Operations /\ ForeignId # NoOperation
  BY DEF NoOperation, Operations, ForeignId
<1>. USE DEF GatewayExclusive, ClearCannotMiss, InGateway, PhaseMatchesSlot, LedgerInv,
             AppliedAtMostOnce, CancelledNeverApplied, LastIsTruthful, Answer
<1>4. CASE Request(c)
  <2>1. /\ step[c] = "idle" /\ step' = [step EXCEPT ![c] = "call"]
        /\ reply' = [reply EXCEPT ![c] = NoReply]
        /\ \A d \in Clients \ {c} : action'[d] = action[d] /\ target'[d] = target[d]
        /\ UNCHANGED <<phase, pending, last, effects, cancelled>>
    BY <1>2, <1>4 DEF Request
  <2>2. SlotInv' /\ LastIsTruthful'
    BY <1>2, <2>1
  <2>3. LedgerInv'
    BY <1>2, <2>1
  <2>4. RepliesAreTruthful'
    BY <1>2, <2>1 DEF RepliesAreTruthful, Answered, NoReply
  <2>. QED
    BY <1>1, <2>2, <2>3, <2>4
<1>5. CASE EnterGateway(c)
  <2>1. /\ step[c] = "call" /\ \A d \in Clients : ~InGateway(d)
        /\ UNCHANGED <<phase, pending, action, target, last, effects, cancelled>>
    BY <1>5 DEF EnterGateway, GatewayFree
  <2>2. CASE pending = target[c] /\ last.op # target[c]
    <3>1. pending # NoOperation /\ pending \in Operations /\ phase = "WAIT_CONFIRMATION"
      BY <1>2, <1>3, <2>2
    <3>2. effects[pending] = 0
      BY <2>1, <3>1
    <3>3. /\ step' = [step EXCEPT ![c] = IF action[c] = "CONFIRM" THEN "execute" ELSE "clear"]
          /\ reply' = reply
      BY <1>5, <2>2, <3>1 DEF EnterGateway
    <3>4. SlotInv' /\ LastIsTruthful'
      BY <1>2, <2>1, <2>2, <3>1, <3>3
    <3>5. LedgerInv'
      BY <1>2, <2>1, <2>2, <3>1, <3>2, <3>3
    <3>6. RepliesAreTruthful'
      BY <1>2, <2>1, <3>3 DEF RepliesAreTruthful, Answered
    <3>. QED
      BY <1>1, <3>4, <3>5, <3>6
  <2>3. CASE ~(pending = target[c] /\ last.op # target[c])
    <3>1. /\ step' = [step EXCEPT ![c] = "idle"]
          /\ \/ /\ last.op = target[c]
                /\ reply' = [reply EXCEPT ![c] =
                     IF last.action = action[c] THEN "ALREADY_RESOLVED" ELSE "CONFLICT"]
             \/ \E status \in {"NO_PENDING", "STALE_OPERATION"} :
                   reply' = [reply EXCEPT ![c] = status]
      BY <1>5, <2>3 DEF EnterGateway, Remembered
    <3>2. SlotInv' /\ LastIsTruthful' /\ LedgerInv'
      BY <1>2, <2>1, <3>1
    <3>3. last.op = target[c] => target[c] \in Operations
      BY <1>2, <1>3 DEF CountInv, TypeOK, LedgerTypes
    <3>4. RepliesAreTruthful'
      BY <1>2, <1>3, <2>1, <3>1, <3>3 DEF RepliesAreTruthful, Answered, Actions
    <3>. QED
      BY <1>1, <3>2, <3>4
  <2>. QED
    BY <2>2, <2>3
<1>6. CASE Execute(c)
  <2>1. /\ step[c] = "execute" /\ action[c] = "CONFIRM"
        /\ pending = target[c] /\ target[c] \in Operations /\ effects[target[c]] = 0
        /\ target[c] \notin cancelled /\ target[c] <= offered
        /\ phase = "WAIT_CONFIRMATION"
        /\ \A d \in Clients : d # c => ~InGateway(d)
        /\ UNCHANGED <<phase, pending, action, target, last, cancelled>>
    BY <1>2, <1>3, <1>6 DEF Execute
  <2>2. CASE effects' = [effects EXCEPT ![target[c]] = @ + 1]
             /\ step' = [step EXCEPT ![c] = "clear"] /\ reply' = reply
    <3>1. /\ effects'[target[c]] = 1
          /\ \A op \in Operations : op # target[c] => effects'[op] = effects[op]
      BY <1>2, <2>1, <2>2
    <3>2. SlotInv'
      BY <1>2, <2>1, <2>2
    <3>3. LedgerInv'
      BY <1>2, <2>1, <2>2, <3>1
         DEF CountInv, TypeOK, LedgerTypes, PhaseTypes, Operations
    <3>4. LastIsTruthful'
      BY <1>2, <2>1, <3>1 DEF CountInv, TypeOK, LedgerTypes
    <3>5. RepliesAreTruthful'
      BY <1>2, <2>1, <2>2, <3>1 DEF RepliesAreTruthful, Answered
    <3>. QED
      BY <1>1, <3>2, <3>3, <3>4, <3>5
  <2>3. CASE effects' = effects /\ step' = [step EXCEPT ![c] = "idle"]
             /\ reply' = [reply EXCEPT ![c] = "EXECUTION_FAILED"]
    <3>1. SlotInv' /\ LastIsTruthful' /\ LedgerInv'
      BY <1>2, <2>1, <2>3
    <3>2. RepliesAreTruthful'
      BY <1>2, <2>1, <2>3 DEF RepliesAreTruthful, Answered
    <3>. QED
      BY <1>1, <3>1, <3>2
  <2>. QED
    BY <1>6, <2>2, <2>3 DEF Execute
<1>7. CASE ClearSlot(c)
  <2>1. /\ step[c] = "clear" /\ pending = target[c] /\ target[c] \in Operations
        /\ phase = "WAIT_CONFIRMATION" /\ target[c] \notin cancelled
        /\ effects[target[c]] = IF action[c] = "CONFIRM" THEN 1 ELSE 0
        /\ target[c] <= offered /\ action[c] \in Actions
        /\ \A d \in Clients : d # c => ~InGateway(d)
    BY <1>2, <1>3, <1>7 DEF ClearSlot
  <2>2. /\ pending' = NoOperation /\ phase' = "IDLE"
        /\ last' = [op |-> target[c], action |-> action[c]]
        /\ cancelled' = IF action[c] = "CANCEL" THEN cancelled \union {target[c]}
                                               ELSE cancelled
        /\ step' = [step EXCEPT ![c] = "idle"]
        /\ reply' = [reply EXCEPT ![c] = "SUCCESS"]
        /\ UNCHANGED <<action, target, effects>>
    BY <1>7, <2>1 DEF ClearSlot
  <2>3. SlotInv'
    BY <1>2, <2>1, <2>2
  <2>4. LedgerInv'
    <3>1. NoOperation \notin cancelled' /\ NoOperation <= offered
      BY <1>1, <1>2, <1>3, <2>2
         DEF CountInv, TypeOK, LedgerTypes, PhaseTypes, NoOperation
    <3>2. action[c] = "CANCEL" => effects[target[c]] = 0
      BY <2>1
    <3>. QED
      BY <1>2, <2>1, <2>2, <3>1, <3>2
         DEF CountInv, TypeOK, PhaseTypes, Operations
  <2>5. LastIsTruthful'
    BY <2>1, <2>2 DEF Actions
  <2>6. RepliesAreTruthful'
    BY <1>2, <2>1, <2>2 DEF RepliesAreTruthful, Answered
  <2>. QED
    BY <1>1, <2>3, <2>4, <2>5, <2>6
<1>. QED
  BY <1>4, <1>5, <1>6, <1>7 DEF Client

\* The strengthened invariant is inductive.
LEMMA IStep == IInv /\ [Next]_vars => IInv'
<1>. SUFFICES ASSUME IInv, [Next]_vars PROVE IInv'
  OBVIOUS
<1>1. CASE UNCHANGED vars
  <2>1. CountInv'
    BY CountStep DEF IInv
  <2>2. (SlotInv /\ LedgerInv /\ LastIsTruthful /\ RepliesAreTruthful)'
    BY <1>1 DEF IInv, SlotInv, LedgerInv, LastIsTruthful, RepliesAreTruthful, Answered,
       PhaseMatchesSlot, GatewayExclusive, ClearCannotMiss, InGateway, AppliedAtMostOnce,
       CancelledNeverApplied, vars, flowVars, clientVars, settledVars
  <2>. QED
    BY <2>1, <2>2 DEF IInv
<1>. QED
  BY <1>1, NextThreads, IStepOfFlowThreads, IStepOfClients

\* The strengthened invariant holds in every reachable state.
THEOREM Inductive == Spec => []IInv
BY IInit, IStep, PTL DEF Spec

\* The effect of an operation is applied at most once, for any number of
\* clients confirming it any number of times.
THEOREM AtMostOnce == Spec => []AppliedAtMostOnce
<1>1. IInv => AppliedAtMostOnce
  BY DEF IInv, LedgerInv
<1>. QED
  BY <1>1, Inductive, PTL

\* An applied operation is never also cancelled, and what every client was
\* told is what happened.
THEOREM TruthfulReplies == Spec => [](CancelledNeverApplied /\ RepliesAreTruthful)
<1>1. IInv => CancelledNeverApplied /\ RepliesAreTruthful
  BY DEF IInv, LedgerInv
<1>. QED
  BY <1>1, Inductive, PTL

\* The phase shown to the operator and the slot agree, and a clear that follows
\* an execution never misses.
THEOREM SlotAndPhaseAgree == Spec => [](PhaseMatchesSlot /\ ClearCannotMiss)
<1>1. IInv => PhaseMatchesSlot /\ ClearCannotMiss
  BY DEF IInv, SlotInv
<1>. QED
  BY <1>1, Inductive, PTL

-----------------------------------------------------------------------------
(* Steps: how an operation leaves the slot, and the abstract cycle.        *)

\* The slot is emptied only by the client that holds the gateway.
LEMMA SlotStep ==
  ASSUME IInv, [Next]_vars, pending # NoOperation, pending' # pending
  PROVE  \E c \in Clients : ClearSlot(c)
<1>1. ~(Recorder \/ Worker \/ Closer)
  BY FlowThreadsSlot DEF IInv, SlotInv
<1>2. pending = pending' \/ ~UNCHANGED vars
  BY DEF vars, flowVars
<1>3. PICK c \in Clients : Client(c)
  BY <1>1, <1>2, NextThreads DEF vars, flowVars
<1>4. ~(Request(c) \/ EnterGateway(c) \/ Execute(c))
  BY DEF Request, EnterGateway, Execute, flowVars
<1>. QED
  BY <1>3, <1>4 DEF Client

\* What ClearSlot does to a slot the lock holder decided about.
LEMMA ClearStep ==
  ASSUME IInv, NEW c \in Clients, ClearSlot(c)
  PROVE  /\ pending \in Operations /\ pending = target[c]
         /\ phase = "WAIT_CONFIRMATION" /\ phase' = "IDLE" /\ pending' = NoOperation
         /\ pending \notin cancelled
         /\ effects' = effects
         /\ \/ effects[pending] = 1 /\ cancelled' = cancelled
            \/ effects[pending] = 0 /\ cancelled' = cancelled \union {pending}
<1>1. step[c] = "clear" /\ pending = target[c] /\ phase = "WAIT_CONFIRMATION"
  BY DEF ClearSlot, IInv, SlotInv, ClearCannotMiss, InGateway
<1>2. pending \in Operations /\ pending \notin cancelled
  BY <1>1 DEF IInv, SlotInv, PhaseMatchesSlot, CountInv, TypeOK, PhaseTypes, LedgerInv
<1>3. effects[target[c]] = IF action[c] = "CONFIRM" THEN 1 ELSE 0
  BY <1>1 DEF IInv, LedgerInv
<1>4. action[c] \in {"CONFIRM", "CANCEL"}
  BY DEF IInv, CountInv, TypeOK, ClientTypes, Actions
<1>. QED
  BY <1>1, <1>2, <1>3, <1>4 DEF ClearSlot

\* An operation leaves the slot for exactly one of two reasons: its effect was
\* applied once, or it was cancelled and never applied.
THEOREM SlotSettled == Spec => SlotIsSettled
<1>1. IInv /\ [Next]_vars =>
        [pending # NoOperation /\ pending' # pending =>
           /\ pending' = NoOperation
           /\ (effects[pending] = 1) # (pending \in cancelled')]_vars
  <2>. SUFFICES ASSUME IInv, [Next]_vars, pending # NoOperation, pending' # pending
                PROVE  /\ pending' = NoOperation
                       /\ (effects[pending] = 1) # (pending \in cancelled')
    OBVIOUS
  <2>1. PICK c \in Clients : ClearSlot(c)
    BY SlotStep
  <2>. QED
    BY <2>1, ClearStep
<1>. QED
  BY <1>1, Inductive, PTL DEF Spec, SlotIsSettled

\* Every step of the flow and the gateway is a step of the abstract cycle.
LEMMA CycleStep == IInv /\ [Next]_vars => [Cycle!CycleNext]_(Cycle!cycleVars)
<1>. SUFFICES ASSUME IInv, [Next]_vars PROVE [Cycle!CycleNext]_(Cycle!cycleVars)
  OBVIOUS
<1>. USE DEF Cycle!cycleVars, flowVars
<1>1. ASSUME Recorder \/ Worker \/ Closer PROVE [Cycle!CycleNext]_(Cycle!cycleVars)
  <2>1. UNCHANGED <<effects, cancelled>>
    BY <1>1, FlowThreadsFrame DEF settledVars
  <2>2. CASE Recorder
    BY <2>1, <2>2
       DEF Recorder, TryBeginRecording, MayBegin, OnCaptureError, OnCaptureCompleted, Submit,
           AbandonUnscheduled, RetireUnscheduled, Discard, Abandon, StillProcessing, Refused,
           Cycle!CycleNext, Cycle!Open, Cycle!Accept, Cycle!GiveUp
  <2>3. CASE Store
    <3>1. CASE phase # "PROCESSING" \/ pending # NoOperation
      BY <2>1, <2>3, <3>1 DEF Store
    <3>2. CASE phase = "PROCESSING" /\ pending = NoOperation /\ Closed
      BY <2>1, <2>3, <3>2 DEF Store, Cycle!CycleNext, Cycle!GiveUp
    <3>3. CASE phase = "PROCESSING" /\ pending = NoOperation /\ ~Closed
      <4>1. pending' = offered + 1 /\ offered' = offered + 1 /\ phase' = "WAIT_CONFIRMATION"
        BY <2>3, <3>3 DEF Store
      <4>2. CountInv'
        BY CountStep DEF IInv
      <4>3. offered + 1 \in Operations
        BY <4>1, <4>2, BoundIsNat
           DEF CountInv, TypeOK, PhaseTypes, Operations, NoOperation, IInv
      <4>4. effects[offered + 1] = 0 /\ offered + 1 \notin cancelled
        BY <4>3 DEF IInv, LedgerInv, Operations, CountInv, TypeOK, PhaseTypes
      <4>. QED
        BY <2>1, <3>3, <4>1, <4>3, <4>4 DEF Cycle!CycleNext, Cycle!Offer
    <3>. QED
      BY <3>1, <3>2, <3>3
  <2>4. CASE Worker /\ ~Store
    BY <2>1, <2>4
       DEF Worker, Take, AnswerAccepted, AnswerRejected, SenderRaised, AbandonAnswer,
           CleanUp, AbandonFailedSend, Finish, Abandon, StillProcessing, Cycle!CycleNext, Cycle!GiveUp
  <2>5. CASE Closer
    BY <2>1, <2>5 DEF Closer, SetClosed, ShutdownPool, ExitBegins, JoinPool
  <2>. QED
    BY <1>1, <2>2, <2>3, <2>4, <2>5
<1>2. ASSUME NEW c \in Clients, Client(c) PROVE [Cycle!CycleNext]_(Cycle!cycleVars)
  <2>1. CASE Request(c) \/ EnterGateway(c)
    BY <2>1 DEF Request, EnterGateway, settledVars
  <2>2. CASE Execute(c)
    <3>1. pending = target[c] /\ phase = "WAIT_CONFIRMATION" /\ effects[target[c]] = 0
      BY <2>2 DEF Execute, IInv, SlotInv, ClearCannotMiss, InGateway, LedgerInv
    <3>. QED
      BY <2>2, <3>1 DEF Execute, Cycle!CycleNext, Cycle!Apply
  <2>3. CASE ClearSlot(c)
    BY <2>3, ClearStep
       DEF Cycle!CycleNext, Cycle!Settle, Cycle!Withdraw, Cycle!NoOperation, NoOperation
  <2>. QED
    BY <1>2, <2>1, <2>2, <2>3 DEF Client
<1>3. CASE UNCHANGED vars
  BY <1>3 DEF vars, settledVars
<1>. QED
  BY <1>1, <1>2, <1>3, NextThreads

\* The threads, the queue, the lock and the failures of PendingFlow together
\* implement the abstract operation cycle.
THEOREM ImplementsCycle == Spec => CycleSpec
<1>1. Init => Cycle!CycleInit
  BY DEF Init, Cycle!CycleInit, NoOperation, Cycle!NoOperation
<1>. QED
  BY <1>1, CycleStep, Inductive, PTL DEF Spec, CycleSpec, Cycle!CycleSpec

\* One step of the abstract cycle keeps its own promise.
LEMMA CycleInvStep ==
  Cycle!CycleInv /\ [Cycle!CycleNext]_(Cycle!cycleVars) => Cycle!CycleInv'
<1>. SUFFICES ASSUME Cycle!CycleInv, [Cycle!CycleNext]_(Cycle!cycleVars)
              PROVE  Cycle!CycleInv'
  OBVIOUS
<1>. USE DEF Cycle!CycleInv, Cycle!CycleTypeOK, Cycle!DecisionIsOpen,
             Cycle!AppliedOrCancelled, Cycle!Phases
<1>1. CASE Cycle!Open \/ Cycle!Accept \/ Cycle!GiveUp
  BY <1>1 DEF Cycle!Open, Cycle!Accept, Cycle!GiveUp
<1>2. CASE Cycle!Offer
  BY <1>2 DEF Cycle!Offer
<1>3. CASE Cycle!Apply
  BY <1>3 DEF Cycle!Apply
<1>4. CASE Cycle!Settle
  BY <1>4 DEF Cycle!Settle
<1>5. CASE Cycle!Withdraw
  BY <1>5 DEF Cycle!Withdraw
<1>6. CASE UNCHANGED Cycle!cycleVars
  BY <1>6 DEF Cycle!cycleVars
<1>. QED
  BY <1>1, <1>2, <1>3, <1>4, <1>5, <1>6 DEF Cycle!CycleNext

\* The cycle's promise, of itself and so of whatever implements it: the effect of
\* an operation is applied at most once, one that was cancelled is never applied,
\* and a decision is asked only about one that is not settled.
THEOREM CycleIsSafe == CycleSpec => []Cycle!CycleInv
<1>1. Cycle!CycleInit => Cycle!CycleInv
  BY DEF Cycle!CycleInit, Cycle!CycleInv, Cycle!CycleTypeOK, Cycle!DecisionIsOpen,
         Cycle!AppliedOrCancelled, Cycle!Phases
<1>. QED
  BY <1>1, CycleInvStep, PTL DEF CycleSpec, Cycle!CycleSpec

-----------------------------------------------------------------------------
(* PROCESSING is never orphaned.                                           *)

\* No step leaves a recording in PROCESSING with no thread to answer it.
LEMMA OwnerStep == IInv /\ ProcessingHasOwner /\ [Next]_vars => ProcessingHasOwner'
<1>. SUFFICES ASSUME IInv, ProcessingHasOwner, [Next]_vars PROVE ProcessingHasOwner'
  OBVIOUS
<1>. USE DEF ProcessingHasOwner, WorkerWillAnswer, flowVars, recorderVars, workerVars, fileVars
<1>1. CASE Recorder
  <2>1. queue \in Seq(Cycles)
    BY DEF IInv, CountInv, TypeOK, ThreadTypes
  <2>2. CASE Submit
    <3>1. CASE PoolOpen
      <4>1. queue' # << >>
        BY <2>1, <2>2, <3>1 DEF Submit
      <4>. QED
        BY <4>1
    <3>2. CASE ~PoolOpen
      BY <2>2, <3>2 DEF Submit
    <3>. QED
      BY <3>1, <3>2
  <2>3. CASE AbandonUnscheduled
    BY <2>3 DEF AbandonUnscheduled, Abandon, StillProcessing, IInv, SlotInv, PhaseMatchesSlot
  <2>4. CASE ~Submit /\ ~AbandonUnscheduled
    BY <1>1, <2>4 DEF Recorder, TryBeginRecording, MayBegin, OnCaptureError, OnCaptureCompleted,
       RetireUnscheduled, Discard
  <2>. QED
    BY <2>2, <2>3, <2>4
<1>2. CASE Worker
  BY <1>2 DEF Worker, Take, AnswerAccepted, AnswerRejected, SenderRaised, Store,
     AbandonAnswer, CleanUp, AbandonFailedSend, Finish, Abandon, StillProcessing, IInv, SlotInv,
     PhaseMatchesSlot
<1>3. CASE Closer
  BY <1>3 DEF Closer, SetClosed, ShutdownPool, ExitBegins, JoinPool
<1>4. ASSUME NEW c \in Clients, Client(c) PROVE ProcessingHasOwner'
  <2>1. UNCHANGED <<queue, recorder, worker>>
    BY <1>4, ClientsFrame
  <2>2. phase' = phase \/ phase' = "IDLE"
    BY <1>4 DEF Client, Request, EnterGateway, Execute, ClearSlot
  <2>. QED
    BY <2>1, <2>2
<1>5. CASE UNCHANGED vars
  BY <1>5 DEF vars
<1>. QED
  BY <1>1, <1>2, <1>3, <1>4, <1>5, NextThreads

\* A cycle that is PROCESSING always has a callback, a queued job or a pool
\* step that will end it, also when deletions fail and while closing.
THEOREM ProcessingOwned == Spec => []ProcessingHasOwner
<1>1. Init => ProcessingHasOwner
  BY DEF Init, ProcessingHasOwner
<1>. QED
  BY <1>1, OwnerStep, Inductive, PTL DEF Spec

-----------------------------------------------------------------------------
(* Recordings are handled in the order they were made, their files last as *)
(* long as they are needed, and an operation is of the current recording.  *)

\* The last recording that its callback is done with.
Latest == IF recorder = "idle" THEN cycle ELSE cycle - 1

\* The queue and the pool thread hold distinct recordings, in their order.
OrderInv ==
  /\ recorder # "idle" => cycle \in Cycles
  /\ \A i \in 1 .. Len(queue) : queue[i] <= Latest
  /\ \A i, j \in 1 .. Len(queue) : i < j => queue[i] < queue[j]
  /\ worker # "free" =>
       /\ job \in Cycles /\ job <= Latest
       /\ \A i \in 1 .. Len(queue) : job < queue[i]

\* The pool thread takes the oldest recording.
LEMMA TakeQueue ==
  ASSUME ThreadTypes, Take
  PROVE  /\ Len(queue) \in Nat /\ Len(queue) > 0 /\ 1 \in 1 .. Len(queue)
         /\ job' = queue[1] /\ queue[1] \in Cycles
         /\ Len(queue') = Len(queue) - 1
         /\ \A i \in 1 .. Len(queue') : i + 1 \in 1 .. Len(queue) /\ queue'[i] = queue[i + 1]
<1>1. queue \in Seq(Cycles) /\ queue # << >>
  BY DEF ThreadTypes, Take
<1>2. Len(queue) \in Nat /\ Len(queue) > 0
  BY <1>1
<1>3. Head(queue) = queue[1] /\ queue[1] \in Cycles /\ Len(Tail(queue)) = Len(queue) - 1
  BY <1>1, <1>2
<1>4. \A i \in 1 .. Len(Tail(queue)) :
        i + 1 \in 1 .. Len(queue) /\ Tail(queue)[i] = queue[i + 1]
  BY <1>1, <1>2, <1>3
<1>5. job' = Head(queue) /\ queue' = Tail(queue)
  BY DEF Take
<1>. QED
  BY <1>2, <1>3, <1>4, <1>5

\* A recording is scheduled behind all others.
LEMMA SubmitQueue ==
  ASSUME ThreadTypes, cycle \in Cycles, Submit, PoolOpen
  PROVE  /\ Len(queue) \in Nat /\ Len(queue') = Len(queue) + 1
         /\ \A i \in 1 .. Len(queue) : queue'[i] = queue[i]
         /\ queue'[Len(queue) + 1] = cycle
<1>1. queue \in Seq(Cycles) /\ queue' = Append(queue, cycle)
  BY DEF ThreadTypes, Submit
<1>. QED
  BY <1>1

\* The order is kept.
LEMMA OrderStep == TypeOK /\ OrderInv /\ [Next]_vars => OrderInv'
<1>. SUFFICES ASSUME TypeOK, OrderInv, [Next]_vars PROVE OrderInv'
  OBVIOUS
<1>. USE BoundIsNat DEF OrderInv, Latest, Cycles, recorderVars, workerVars
<1>0. PhaseTypes /\ ThreadTypes /\ Len(queue) \in Nat /\ cycle \in Nat
      /\ \A i \in 1 .. Len(queue) : queue[i] \in Nat
  BY DEF TypeOK, PhaseTypes, ThreadTypes
<1>1. CASE TryBeginRecording
  BY <1>0, <1>1 DEF TryBeginRecording
<1>2. CASE OnCaptureError
  BY <1>0, <1>2 DEF OnCaptureError
<1>3. CASE OnCaptureCompleted
  BY <1>0, <1>3 DEF OnCaptureCompleted
<1>4. CASE Submit
  <2>1. CASE PoolOpen
    <3>1. /\ Len(queue') = Len(queue) + 1
          /\ \A i \in 1 .. Len(queue) : queue'[i] = queue[i]
          /\ queue'[Len(queue) + 1] = cycle
      BY <1>0, <1>4, <2>1, SubmitQueue DEF Submit
    <3>2. /\ recorder = "submit" /\ recorder' = "idle"
          /\ UNCHANGED <<cycle, worker, job>>
      BY <1>4, <2>1 DEF Submit
    <3>3. \A i \in 1 .. Len(queue') : i \in 1 .. Len(queue) \/ i = Len(queue) + 1
      BY <1>0, <3>1
    <3>4. /\ cycle' \in Cycles /\ Latest = cycle - 1 /\ Latest' = cycle
      BY <1>0, <3>2
    <3>5. \A i \in 1 .. Len(queue) : queue[i] < cycle /\ queue'[i] = queue[i]
      BY <1>0, <3>1, <3>4
    <3>6. \A i \in 1 .. Len(queue') : queue'[i] <= cycle
      <4>1. cycle \in Nat /\ Len(queue) \in Nat /\ \A i \in 1 .. Len(queue) : queue[i] \in Nat
        BY <1>0
      <4>. QED
        BY ONLY <3>1, <3>3, <3>5, <4>1
    <3>7. \A i, j \in 1 .. Len(queue') : i < j => queue'[i] < queue'[j]
      BY <1>0, <3>1, <3>3, <3>5
    <3>8. worker' # "free" =>
            /\ job' \in Cycles /\ job' < cycle
            /\ \A i \in 1 .. Len(queue') : job' < queue'[i]
      BY <1>0, <3>1, <3>2, <3>3, <3>4, <3>5
    <3>. QED
      BY <1>0, <3>2, <3>4, <3>6, <3>7, <3>8
  <2>2. CASE ~PoolOpen
    BY <1>0, <1>4, <2>2 DEF Submit
  <2>. QED
    BY <2>1, <2>2
<1>5. CASE AbandonUnscheduled \/ RetireUnscheduled \/ Discard
  BY <1>0, <1>5 DEF AbandonUnscheduled, RetireUnscheduled, Discard
<1>6. CASE Take
  <2>1. /\ job' = queue[1] /\ 1 \in 1 .. Len(queue) /\ queue[1] \in Cycles
        /\ \A i \in 1 .. Len(queue') : i + 1 \in 1 .. Len(queue) /\ queue'[i] = queue[i + 1]
        /\ Len(queue') = Len(queue) - 1
    BY <1>0, <1>6, TakeQueue
  <2>2. UNCHANGED <<cycle, recorder>>
    BY <1>6 DEF Take
  <2>3. ASSUME NEW i \in 1 .. Len(queue')
        PROVE  queue'[i] <= Latest /\ job' < queue'[i]
    <3>1. i + 1 \in 1 .. Len(queue) /\ queue'[i] = queue[i + 1] /\ 1 < i + 1
      BY <2>1
    <3>. QED
      BY <2>1, <3>1
  <2>4. ASSUME NEW i \in 1 .. Len(queue'), NEW j \in 1 .. Len(queue'), i < j
        PROVE  queue'[i] < queue'[j]
    <3>1. /\ i + 1 \in 1 .. Len(queue) /\ queue'[i] = queue[i + 1]
          /\ j + 1 \in 1 .. Len(queue) /\ queue'[j] = queue[j + 1] /\ i + 1 < j + 1
      BY <2>1, <2>4
    <3>. QED
      BY <3>1
  <2>5. job' \in Cycles /\ job' <= Latest
    BY <2>1
  <2>. QED
    BY <2>2, <2>3, <2>4, <2>5
<1>7. CASE Worker /\ ~Take
  BY <1>7 DEF Worker, AnswerAccepted, AnswerRejected, SenderRaised, Store, AbandonAnswer,
     CleanUp, AbandonFailedSend, Finish
<1>8. CASE Closer
  BY <1>8 DEF Closer, SetClosed, ShutdownPool, ExitBegins, JoinPool
<1>9. ASSUME NEW c \in Clients, Client(c) PROVE OrderInv'
  BY <1>9, ClientsFrame
<1>10. CASE UNCHANGED vars
  BY <1>10 DEF vars
<1>. QED
  BY <1>1, <1>2, <1>3, <1>4, <1>5, <1>6, <1>7, <1>8, <1>9, <1>10, NextThreads DEF Recorder

\* What the upload of a recording relies on.
UploadInv ==
  /\ recorder = "submit" => cycle \in files
  /\ worker = "send" => job \in files
  /\ \A i \in 1 .. Len(queue) : queue[i] \in files

\* Deleting the file of a recording that is done takes no other file.
LEMMA UnlinkKeeps ==
  ASSUME NEW wav, NEW other, other # wav, other \in files, Unlink(wav)
  PROVE  other \in files'
BY DEF Unlink

\* No cleanup and no refused recording removes a file that is still to be sent.
LEMMA UploadStep == TypeOK /\ OrderInv /\ UploadInv /\ [Next]_vars => UploadInv'
<1>. SUFFICES ASSUME TypeOK, OrderInv, UploadInv, [Next]_vars PROVE UploadInv'
  OBVIOUS
<1>. USE DEF UploadInv, recorderVars, workerVars, fileVars
<1>0. /\ ThreadTypes /\ Len(queue) \in Nat /\ cycle \in Nat
      /\ \A i \in 1 .. Len(queue) : queue[i] \in Nat
      /\ recorder # "idle" =>
           /\ \A i \in 1 .. Len(queue) : queue[i] # cycle
           /\ worker # "free" => job # cycle
      /\ worker # "free" =>
           /\ \A i \in 1 .. Len(queue) : queue[i] # job
           /\ recorder = "submit" => job # cycle
  BY BoundIsNat DEF TypeOK, PhaseTypes, ThreadTypes, OrderInv, Latest, Cycles
<1>1. CASE TryBeginRecording \/ OnCaptureError
  BY <1>1 DEF TryBeginRecording, OnCaptureError
<1>2. CASE OnCaptureCompleted
  BY <1>2 DEF OnCaptureCompleted
<1>3. CASE Submit
  <2>1. CASE PoolOpen
    <3>1. cycle \in Cycles
      BY <1>3 DEF OrderInv, Submit
    <3>2. /\ Len(queue') = Len(queue) + 1
          /\ \A i \in 1 .. Len(queue) : queue'[i] = queue[i]
          /\ queue'[Len(queue) + 1] = cycle
      BY <1>0, <1>3, <2>1, <3>1, SubmitQueue
    <3>3. \A i \in 1 .. Len(queue') : i \in 1 .. Len(queue) \/ i = Len(queue) + 1
      BY <1>0, <3>2
    <3>4. /\ recorder = "submit" /\ recorder' = "idle"
          /\ UNCHANGED <<cycle, worker, job, files>>
      BY <1>3, <2>1 DEF Submit
    <3>. QED
      BY <3>2, <3>3, <3>4
  <2>2. CASE ~PoolOpen
    BY <1>3, <2>2 DEF Submit
  <2>. QED
    BY <2>1, <2>2
<1>4. CASE AbandonUnscheduled \/ RetireUnscheduled
  BY <1>4 DEF AbandonUnscheduled, RetireUnscheduled
<1>5. CASE Discard
  <2>1. /\ recorder = "discard" /\ recorder' = "idle"
        /\ UNCHANGED <<cycle, queue, worker, job>>
        /\ Unlink(cycle) \/ UNCHANGED files
    BY <1>5 DEF Discard
  <2>. QED
    BY <1>0, <2>1, UnlinkKeeps
<1>6. CASE Take
  <2>1. /\ job' = queue[1] /\ 1 \in 1 .. Len(queue)
        /\ \A i \in 1 .. Len(queue') : i + 1 \in 1 .. Len(queue) /\ queue'[i] = queue[i + 1]
    BY <1>0, <1>6, TakeQueue
  <2>2. UNCHANGED <<cycle, recorder, files>>
    BY <1>6 DEF Take
  <2>. QED
    BY <2>1, <2>2
<1>7. CASE CleanUp
  <2>1. /\ worker \in {"cleanup", "unwind"} /\ worker' \in {"failed", "finish"}
        /\ UNCHANGED <<recorder, cycle, queue, job>>
        /\ Unlink(job) \/ UNCHANGED files
    BY <1>7 DEF CleanUp
  <2>. QED
    BY <1>0, <2>1, UnlinkKeeps
<1>8. CASE Worker /\ ~Take /\ ~CleanUp
  BY <1>8 DEF Worker, AnswerAccepted, AnswerRejected, SenderRaised, Store, AbandonAnswer,
     AbandonFailedSend, Finish
<1>9. CASE Closer
  BY <1>9 DEF Closer, SetClosed, ShutdownPool, ExitBegins, JoinPool
<1>10. ASSUME NEW c \in Clients, Client(c) PROVE UploadInv'
  BY <1>10, ClientsFrame
<1>11. CASE UNCHANGED vars
  BY <1>11 DEF vars
<1>. QED
  BY <1>1, <1>2, <1>3, <1>4, <1>5, <1>6, <1>7, <1>8, <1>9, <1>10, <1>11, NextThreads
     DEF Recorder

\* A thread has still to delete this file, or was refused its deletion.
Held(wav) ==
  \/ recorder \in {"submit", "unscheduled", "retire", "discard"} /\ wav = cycle
  \/ \E i \in 1 .. Len(queue) : queue[i] = wav
  \/ worker \in {"send", "store", "abandon", "cleanup", "unwind"} /\ wav = job
  \/ wav \in undeleted

HeldInv == DeleteAfterSend => \A wav \in files : Held(wav)

\* A file is let go only when it is deleted.
LEMMA HeldStep == TypeOK /\ HeldInv /\ [Next]_vars => HeldInv'
<1>. SUFFICES ASSUME TypeOK, HeldInv, [Next]_vars, DeleteAfterSend
              PROVE  \A wav \in files' : Held(wav)'
  BY DEF HeldInv
<1>. USE DEF HeldInv, Held, recorderVars, workerVars, fileVars
<1>0. ThreadTypes /\ Len(queue) \in Nat
  BY DEF TypeOK, ThreadTypes
<1>1. CASE TryBeginRecording \/ OnCaptureError
  BY <1>1 DEF TryBeginRecording, OnCaptureError
<1>2. CASE OnCaptureCompleted
  BY <1>2 DEF OnCaptureCompleted
<1>3. CASE Submit
  <2>1. CASE PoolOpen
    <3>1. /\ queue \in Seq(Cycles) /\ queue' = Append(queue, cycle)
          /\ recorder' = "idle" /\ UNCHANGED <<cycle, worker, job, files, undeleted>>
      BY <1>0, <1>3, <2>1 DEF Submit, ThreadTypes
    <3>2. /\ Len(queue') = Len(queue) + 1
          /\ \A i \in 1 .. Len(queue) : queue'[i] = queue[i]
          /\ queue'[Len(queue) + 1] = cycle
      BY <3>1
    <3>3. /\ \A i \in 1 .. Len(queue) : i \in 1 .. Len(queue')
          /\ Len(queue) + 1 \in 1 .. Len(queue')
      BY <1>0, <3>2
    <3>. QED
      BY <3>1, <3>2, <3>3
  <2>2. CASE ~PoolOpen
    BY <1>3, <2>2 DEF Submit
  <2>. QED
    BY <2>1, <2>2
<1>4. CASE AbandonUnscheduled \/ RetireUnscheduled
  BY <1>4 DEF AbandonUnscheduled, RetireUnscheduled
<1>5. CASE Discard
  <2>1. /\ recorder = "discard" /\ recorder' = "idle" /\ Unlink(cycle)
        /\ UNCHANGED <<cycle, queue, worker, job>>
    BY <1>5 DEF Discard
  <2>. QED
    BY <2>1 DEF Unlink
<1>6. CASE Take
  <2>1. /\ job' = queue[1] /\ Len(queue') = Len(queue) - 1
        /\ \A i \in 1 .. Len(queue') : queue'[i] = queue[i + 1]
    BY <1>0, <1>6, TakeQueue
  <2>2. worker = "free" /\ worker' = "send" /\ UNCHANGED <<cycle, recorder, files, undeleted>>
    BY <1>6 DEF Take
  <2>3. ASSUME NEW i \in 1 .. Len(queue), i # 1
        PROVE  i - 1 \in 1 .. Len(queue') /\ queue'[i - 1] = queue[i]
    BY <1>0, <2>1, <2>3
  <2>. QED
    BY <2>1, <2>2, <2>3
<1>7. CASE CleanUp
  <2>1. /\ worker \in {"cleanup", "unwind"} /\ Unlink(job)
        /\ UNCHANGED <<recorder, cycle, queue, job>>
    BY <1>7 DEF CleanUp
  <2>. QED
    BY <2>1 DEF Unlink
<1>8. CASE Worker /\ ~Take /\ ~CleanUp
  BY <1>8 DEF Worker, AnswerAccepted, AnswerRejected, SenderRaised, Store, AbandonAnswer,
     AbandonFailedSend, Finish
<1>9. CASE Closer
  BY <1>9 DEF Closer, SetClosed, ShutdownPool, ExitBegins, JoinPool
<1>10. ASSUME NEW c \in Clients, Client(c) PROVE \A wav \in files' : Held(wav)'
  BY <1>10, ClientsFrame
<1>11. CASE UNCHANGED vars
  BY <1>11 DEF vars
<1>. QED
  BY <1>1, <1>2, <1>3, <1>4, <1>5, <1>6, <1>7, <1>8, <1>9, <1>10, <1>11, NextThreads
     DEF Recorder

\* The threads that may still answer the recording they hold.
Answering  == worker \in {"send", "store", "abandon", "unwind", "failed"}
Scheduling == recorder \in {"submit", "unscheduled"}

\* While no deletion was refused only the recording in PROCESSING is held by a
\* thread that can answer it, by one such thread, and it is the current one.
FreshInv ==
  undeleted = {} =>
    /\ Len(queue) + One(Answering) + One(Scheduling) <= One(phase = "PROCESSING")
    /\ \A i \in 1 .. Len(queue) : queue[i] = cycle
    /\ Answering => job = cycle
    /\ pending # NoOperation => origin = cycle

\* Of n waiting jobs and two threads, at most one holds a recording.
LEMMA AtMostOneHolds ==
  ASSUME NEW n \in Nat, NEW a \in {0, 1}, NEW b \in {0, 1}, NEW c \in {0, 1},
         n + a + b <= c
  PROVE  /\ c = 0 => n <= 0 /\ a = 0 /\ b = 0
         /\ a = 1 => n <= 0 /\ b = 0
OBVIOUS

\* It is inductive: a new recording begins only when nobody holds another.
LEMMA FreshStep == IInv /\ FreshInv /\ [Next]_vars => FreshInv'
<1>. SUFFICES ASSUME IInv, FreshInv, [Next]_vars, undeleted' = {} PROVE FreshInv'
  BY DEF FreshInv
<1>. USE DEF Answering, Scheduling, One, flowVars, recorderVars, workerVars, fileVars
<1>0. /\ ThreadTypes /\ PhaseTypes /\ PhaseMatchesSlot
      /\ Len(queue) \in Nat /\ undeleted \in SUBSET Cycles
  BY DEF IInv, CountInv, TypeOK, SlotInv, ThreadTypes
<1>a. /\ undeleted = {}
      /\ CleanUp => (worker = "cleanup" => worker' = "finish") /\ (worker' \in {"failed", "finish"})
  <2>1. CASE CleanUp \/ Discard
    <3>1. undeleted \subseteq undeleted'
      BY <2>1 DEF CleanUp, Discard, Unlink
    <3>2. ASSUME CleanUp, DeleteAfterSend PROVE job \notin files'
      BY <3>2 DEF CleanUp, Unlink
    <3>. QED
      BY <2>1, <3>1, <3>2 DEF CleanUp, Discard
  <2>2. CASE ~CleanUp /\ ~Discard
    <3>1. UNCHANGED undeleted
      BY <2>2, NextThreads, ClientsFrame
         DEF Recorder, TryBeginRecording, OnCaptureError, OnCaptureCompleted, Submit,
             AbandonUnscheduled, RetireUnscheduled, Worker, Take, AnswerAccepted,
             AnswerRejected, SenderRaised, Store, AbandonAnswer, AbandonFailedSend, Finish,
             Closer, SetClosed, ShutdownPool, ExitBegins, JoinPool, vars
    <3>. QED
      BY <2>2, <3>1
  <2>. QED
    BY <2>1, <2>2
<1>b. /\ Len(queue) + One(Answering) + One(Scheduling) <= One(phase = "PROCESSING")
      /\ \A i \in 1 .. Len(queue) : queue[i] = cycle
      /\ Answering => job = cycle
      /\ pending # NoOperation => origin = cycle
  BY <1>a DEF FreshInv
<1>c. /\ phase # "PROCESSING" => Len(queue) <= 0 /\ ~Answering /\ ~Scheduling
      /\ Answering => Len(queue) <= 0 /\ ~Scheduling
  <2>1. /\ One(Answering) \in {0, 1} /\ One(Scheduling) \in {0, 1}
        /\ One(phase = "PROCESSING") \in {0, 1}
    OBVIOUS
  <2>2. /\ One(phase = "PROCESSING") = 0 =>
             Len(queue) <= 0 /\ One(Answering) = 0 /\ One(Scheduling) = 0
        /\ One(Answering) = 1 => Len(queue) <= 0 /\ One(Scheduling) = 0
    <3>. HIDE DEF One, Answering, Scheduling
    <3>. QED
      BY <1>0, <1>b, <2>1, AtMostOneHolds
  <2>. QED
    BY <2>2
<1>1. CASE TryBeginRecording
  BY <1>0, <1>1, <1>b, <1>c DEF TryBeginRecording, MayBegin, FreshInv
<1>2. CASE OnCaptureError
  BY <1>0, <1>2, <1>b, <1>c DEF OnCaptureError, FreshInv
<1>3. CASE OnCaptureCompleted
  <2>1. CASE Refused
    BY <1>0, <1>3, <1>b, <2>1 DEF OnCaptureCompleted, FreshInv
  <2>2. CASE ~Refused
    BY <1>0, <1>3, <1>b, <1>c, <2>2 DEF OnCaptureCompleted, Refused, FreshInv
  <2>. QED
    BY <2>1, <2>2
<1>4. CASE Submit
  <2>1. CASE PoolOpen
    <3>1. /\ queue \in Seq(Cycles) /\ queue' = Append(queue, cycle)
          /\ recorder = "submit" /\ recorder' = "idle"
          /\ UNCHANGED <<cycle, worker, job, phase, pending, origin>>
      BY <1>0, <1>4, <2>1 DEF Submit, ThreadTypes
    <3>2. /\ Len(queue') = Len(queue) + 1
          /\ \A i \in 1 .. Len(queue) : queue'[i] = queue[i]
          /\ queue'[Len(queue) + 1] = cycle
      BY <3>1
    <3>3. \A i \in 1 .. Len(queue') : i \in 1 .. Len(queue) \/ i = Len(queue) + 1
      BY <1>0, <3>2
    <3>4. \A i \in 1 .. Len(queue') : queue'[i] = cycle
      BY <1>b, <3>2, <3>3
    <3>5. Len(queue') + One(Answering)' + One(Scheduling)' <= One(phase = "PROCESSING")'
      BY <1>0, <1>b, <3>1, <3>2
    <3>. QED
      BY <1>b, <3>1, <3>4, <3>5 DEF FreshInv
  <2>2. CASE ~PoolOpen
    BY <1>0, <1>4, <1>b, <2>2 DEF Submit, FreshInv
  <2>. QED
    BY <2>1, <2>2
<1>5. CASE AbandonUnscheduled
  BY <1>0, <1>5, <1>b, <1>c
     DEF AbandonUnscheduled, Abandon, StillProcessing, PhaseMatchesSlot, FreshInv
<1>6. CASE RetireUnscheduled \/ Discard
  BY <1>0, <1>6, <1>b DEF RetireUnscheduled, Discard, FreshInv
<1>7. CASE Take
  <2>1. /\ Len(queue) > 0 /\ job' = queue[1] /\ 1 \in 1 .. Len(queue)
        /\ Len(queue') = Len(queue) - 1
        /\ \A i \in 1 .. Len(queue') : i + 1 \in 1 .. Len(queue) /\ queue'[i] = queue[i + 1]
    BY <1>0, <1>7, TakeQueue
  <2>2. /\ worker = "free" /\ worker' = "send"
        /\ UNCHANGED <<cycle, recorder, phase, pending, origin>>
    BY <1>7 DEF Take
  <2>. QED
    BY <1>0, <1>b, <2>1, <2>2 DEF FreshInv
<1>8. CASE Store
  BY <1>0, <1>8, <1>b, <1>c DEF Store, PhaseMatchesSlot, FreshInv
<1>9. CASE AbandonAnswer \/ AbandonFailedSend
  <2>1. /\ Answering /\ worker' \in {"cleanup", "finish"}
        /\ UNCHANGED <<recorder, cycle, queue, job>>
    BY <1>9 DEF AbandonAnswer, AbandonFailedSend
  <2>2. phase = "PROCESSING" /\ pending = NoOperation
    BY <1>0, <1>c, <2>1 DEF PhaseMatchesSlot
  <2>3. phase' = "IDLE" /\ pending' = NoOperation
    BY <1>9, <2>2 DEF AbandonAnswer, AbandonFailedSend, Abandon, StillProcessing
  <2>4. Len(queue) <= 0 /\ ~Scheduling' /\ ~Answering'
    BY <1>c, <2>1
  <2>. QED
    BY <1>0, <1>b, <2>1, <2>3, <2>4 DEF FreshInv
<1>10. CASE CleanUp
  <2>1. /\ worker \in {"cleanup", "unwind"} /\ worker' \in {"failed", "finish"}
        /\ worker = "cleanup" => worker' = "finish"
        /\ UNCHANGED <<recorder, cycle, queue, job, phase, pending, origin>>
    BY <1>10, <1>a DEF CleanUp
  <2>2. Answering' => Answering
    BY <2>1
  <2>3. One(Answering)' <= One(Answering) /\ One(Answering)' \in {0, 1}
    BY <2>2
  <2>4. /\ Len(queue) + One(Answering) + One(Scheduling) <= One(phase = "PROCESSING")
        /\ One(Scheduling)' = One(Scheduling)
        /\ One(phase = "PROCESSING")' = One(phase = "PROCESSING")
        /\ {One(Answering), One(Scheduling), One(phase = "PROCESSING")} \subseteq {0, 1}
    BY <1>b, <2>1
  <2>5. Len(queue') + One(Answering)' + One(Scheduling)' <= One(phase = "PROCESSING")'
    <3>. HIDE DEF One, Answering, Scheduling
    <3>. QED
      BY <1>0, <2>1, <2>3, <2>4
  <2>. QED
    BY <1>b, <2>1, <2>2, <2>5 DEF FreshInv
<1>11. CASE AnswerAccepted \/ AnswerRejected \/ SenderRaised \/ Finish
  BY <1>0, <1>11, <1>b DEF AnswerAccepted, AnswerRejected, SenderRaised, Finish, FreshInv
<1>12. CASE Closer
  BY <1>12, <1>b DEF Closer, SetClosed, ShutdownPool, ExitBegins, JoinPool, FreshInv
<1>13. ASSUME NEW c \in Clients, Client(c) PROVE FreshInv'
  <2>1. UNCHANGED <<origin, recorder, cycle, queue, worker, job>>
    BY <1>13, ClientsFrame
  <2>2. CASE Request(c) \/ EnterGateway(c) \/ Execute(c)
    BY <1>b, <2>1, <2>2 DEF Request, EnterGateway, Execute, FreshInv
  <2>3. CASE ClearSlot(c)
    BY <1>b, <1>c, <2>1, <2>3, <1>0 DEF ClearSlot, FreshInv
  <2>. QED
    BY <1>13, <2>2, <2>3 DEF Client
<1>14. CASE UNCHANGED vars
  BY <1>14, <1>b DEF vars, FreshInv
<1>. QED
  BY <1>1, <1>2, <1>3, <1>4, <1>5, <1>6, <1>7, <1>8, <1>9, <1>10, <1>11, <1>12, <1>13, <1>14,
     NextThreads DEF Recorder, Worker

\* What the recordings of every reachable state are bound by.
HandledInv == IInv /\ OrderInv /\ UploadInv /\ HeldInv /\ FreshInv

\* Nothing is recorded, queued or on disk at the start.
LEMMA HandledInit == Init => HandledInv
<1>. SUFFICES ASSUME Init PROVE OrderInv /\ UploadInv /\ HeldInv /\ FreshInv
  BY IInit DEF HandledInv
<1>1. Len(queue) = 0 /\ recorder = "idle" /\ worker = "free" /\ files = {}
      /\ phase = "IDLE" /\ pending = NoOperation
  BY DEF Init
<1>. QED
  BY <1>1 DEF OrderInv, UploadInv, HeldInv, FreshInv, Answering, Scheduling, One

\* Every step keeps the five parts.
LEMMA HandledStep == HandledInv /\ [Next]_vars => HandledInv'
BY IStep, OrderStep, UploadStep, HeldStep, FreshStep DEF HandledInv, IInv, CountInv

\* Recordings are handled in order, their files are held, and while no deletion
\* was refused only the current one can be answered.
THEOREM RecordingsHandled == Spec => []HandledInv
BY HandledInit, HandledStep, PTL DEF Spec

\* DOMAIN of the queue, as the properties write it.
LEMMA QueueDomain ==
  ASSUME HandledInv
  PROVE  DOMAIN queue = 1 .. Len(queue)
BY DEF HandledInv, IInv, CountInv, TypeOK, ThreadTypes

\* The file of a recording is on disk until its upload has ended, whichever
\* other files are deleted meanwhile.
THEOREM UploadsFindTheirFile == Spec => []UploadHasItsFile
<1>1. HandledInv => UploadHasItsFile
  BY QueueDomain DEF HandledInv, UploadInv, UploadHasItsFile
<1>. QED
  BY <1>1, RecordingsHandled, PTL

\* No published file is forgotten: a thread will delete it, or the operating
\* system refused to.
THEOREM FilesAreOwned == Spec => []FilesHaveAnOwner
<1>1. HandledInv => FilesHaveAnOwner
  BY QueueDomain DEF HandledInv, HeldInv, Held, FilesHaveAnOwner
<1>. QED
  BY <1>1, RecordingsHandled, PTL

\* While every deletion succeeds the operator is shown the operation of the
\* current recording, however many recordings, clients and failures there were.
THEOREM OperationIsCurrent == Spec => []OperationOfThisRecording
<1>1. HandledInv => OperationOfThisRecording
  BY DEF HandledInv, FreshInv, OperationOfThisRecording
<1>. QED
  BY <1>1, RecordingsHandled, PTL

\* The job count that shutdown and tests wait on is the number of recordings in
\* the callback, in the queue and in the pool thread.
THEOREM JobsCounted == Spec => []JobsAreAccounted
<1>1. IInv => JobsAreAccounted
  BY DEF IInv, CountInv
<1>. QED
  BY <1>1, Inductive, PTL

-----------------------------------------------------------------------------
(* Where every deletion succeeds, PROCESSING ends as documented.           *)

NothingRefused == ~UnlinkMayFail => undeleted = {}

\* Only a deletion that fails is remembered as refused.
LEMMA RefusalStep == NothingRefused /\ [Next]_vars => NothingRefused'
<1>. SUFFICES ASSUME undeleted = {}, ~UnlinkMayFail, [Next]_vars PROVE undeleted' = {}
  BY DEF NothingRefused
<1>1. CASE Recorder
  BY <1>1 DEF Recorder, TryBeginRecording, OnCaptureError, OnCaptureCompleted, Submit,
     AbandonUnscheduled, RetireUnscheduled, Discard, Unlink, fileVars
<1>2. CASE Worker \/ Closer
  BY <1>2 DEF Worker, Take, AnswerAccepted, AnswerRejected, SenderRaised, Store, AbandonAnswer,
     CleanUp, AbandonFailedSend, Finish, Closer, SetClosed, ShutdownPool, ExitBegins, JoinPool,
     Unlink, fileVars
<1>3. CASE \E c \in Clients : Client(c)
  BY <1>3, ClientsFrame DEF fileVars
<1>4. CASE UNCHANGED vars
  BY <1>4 DEF vars, fileVars
<1>. QED
  BY <1>1, <1>2, <1>3, <1>4, NextThreads

\* While no deletion was refused PROCESSING ends by the pool thread that holds the
\* current recording, or because the pool refused it.
LEMMA OwnAnswerStep ==
  ASSUME HandledInv, undeleted = {}, [Next]_vars, phase = "PROCESSING", phase' # "PROCESSING"
  PROVE  job = cycle \/ recorder = "unscheduled"
<1>1. Answering => job = cycle
  BY DEF HandledInv, FreshInv
<1>2. pending = NoOperation /\ \A c \in Clients : ~InGateway(c)
  BY DEF HandledInv, IInv, SlotInv, PhaseMatchesSlot, ClearCannotMiss
<1>3. CASE Recorder
  BY <1>2, <1>3
     DEF Recorder, TryBeginRecording, MayBegin, OnCaptureError, OnCaptureCompleted, Submit,
         AbandonUnscheduled, RetireUnscheduled, Discard, flowVars
<1>4. CASE Worker
  BY <1>1, <1>4
     DEF Worker, Take, AnswerAccepted, AnswerRejected, SenderRaised, Store, AbandonAnswer,
         CleanUp, AbandonFailedSend, Finish, Answering, flowVars
<1>5. ~Closer
  BY DEF Closer, SetClosed, ShutdownPool, ExitBegins, JoinPool, flowVars
<1>6. ASSUME NEW c \in Clients, Client(c) PROVE FALSE
  BY <1>2, <1>6 DEF Client, Request, EnterGateway, Execute, ClearSlot, InGateway, flowVars
<1>7. CASE UNCHANGED vars
  BY <1>7 DEF vars, flowVars
<1>. QED
  BY <1>3, <1>4, <1>5, <1>6, <1>7, NextThreads

\* Where the file system deletes what it is told to, a cycle leaves PROCESSING only
\* by the answer to its own recording, as pending-operation-flow.md says: refused
\* deletions are all that takes this away (ProcessingEndsByOwnAnswer, _process).
THEOREM OwnAnswerEndsProcessing ==
  ASSUME ~UnlinkMayFail
  PROVE  Spec => ProcessingEndsByOwnAnswer
<1>1. Init => NothingRefused
  BY DEF Init, NothingRefused
<1>2. HandledInv /\ NothingRefused /\ [Next]_vars =>
        [phase = "PROCESSING" /\ phase' # "PROCESSING" =>
           job = cycle \/ recorder = "unscheduled"]_vars
  BY OwnAnswerStep DEF NothingRefused
<1>. QED
  BY <1>1, <1>2, RefusalStep, RecordingsHandled, PTL DEF Spec, ProcessingEndsByOwnAnswer

-----------------------------------------------------------------------------
(* The safe half of ProcessingEnds and CloseReturns: a measure.            *)

\* At most so many steps of the pool thread, and of the callback, are ahead.
WorkerStepsLeft ==
  CASE worker = "send" -> 5
    [] worker \in {"store", "abandon"} -> 4
    [] worker \in {"cleanup", "unwind"} -> 3
    [] worker = "failed" -> 2
    [] worker = "finish" -> 1
    [] OTHER -> 0

RecorderStepsLeft ==
  CASE recorder = "recording" -> 8
    [] recorder = "submit" -> 7
    [] recorder = "unscheduled" -> 3
    [] recorder = "retire" -> 2
    [] recorder = "discard" -> 1
    [] OTHER -> 0

\* A job that waits is six steps of the pool thread.
WorkLeft == 6 * Len(queue) + WorkerStepsLeft + RecorderStepsLeft

\* Only the operator gives the flow more to do.
StepsWindDown ==
  [][(Recorder \/ Worker) /\ ~TryBeginRecording => WorkLeft' < WorkLeft]_vars

\* Nothing but a new recording adds to it.
NothingWindsUp == [][~TryBeginRecording => WorkLeft' <= WorkLeft]_vars

\* The measure is a number, and zero exactly when nothing is held by a thread.
LEMMA WorkLeftIsNat ==
  ASSUME ThreadTypes
  PROVE  /\ WorkLeft \in Nat
         /\ WorkLeft = 0 <=> queue = << >> /\ worker = "free" /\ recorder = "idle"
<1>1. /\ WorkerStepsLeft \in 0 .. 5
      /\ WorkerStepsLeft = 0 <=> worker = "free"
  BY DEF ThreadTypes, WorkerStepsLeft, WorkerSteps
<1>2. /\ RecorderStepsLeft \in 0 .. 8
      /\ RecorderStepsLeft = 0 <=> recorder = "idle"
  BY DEF ThreadTypes, RecorderStepsLeft, RecorderSteps
<1>3. Len(queue) \in Nat /\ (Len(queue) = 0 <=> queue = << >>)
  BY DEF ThreadTypes
<1>. QED
  BY <1>1, <1>2, <1>3 DEF WorkLeft

\* Each step of the pool thread leaves less work.
LEMMA WorkerWindsDown ==
  ASSUME ThreadTypes, Worker
  PROVE  WorkLeft' < WorkLeft
<1>0. Len(queue) \in Nat /\ RecorderStepsLeft \in 0 .. 8 /\ worker \in WorkerSteps
  BY DEF ThreadTypes, RecorderStepsLeft
<1>1. RecorderStepsLeft' = RecorderStepsLeft
  BY DEF Worker, Take, AnswerAccepted, AnswerRejected, SenderRaised, Store, AbandonAnswer,
     CleanUp, AbandonFailedSend, Finish, recorderVars, RecorderStepsLeft
<1>2. CASE Take
  <2>1. Len(queue') = Len(queue) - 1 /\ worker = "free" /\ worker' = "send"
    BY <1>2, TakeQueue DEF Take
  <2>2. WorkerStepsLeft = 0 /\ WorkerStepsLeft' = 5
    BY <2>1 DEF WorkerStepsLeft
  <2>. QED
    BY <1>0, <1>1, <2>1, <2>2 DEF WorkLeft
<1>3. CASE Worker /\ ~Take
  <2>1. /\ queue' = queue
        /\ \/ worker = "send" /\ worker' \in {"store", "abandon", "unwind"}
           \/ worker \in {"store", "abandon"} /\ worker' = "cleanup"
           \/ worker \in {"cleanup", "unwind"} /\ worker' \in {"failed", "finish"}
           \/ worker = "failed" /\ worker' = "finish"
           \/ worker = "finish" /\ worker' = "free"
    BY <1>3 DEF Worker, AnswerAccepted, AnswerRejected, SenderRaised, Store, AbandonAnswer,
       CleanUp, AbandonFailedSend, Finish
  <2>2. /\ WorkerStepsLeft \in 0 .. 5 /\ WorkerStepsLeft' \in 0 .. 5
        /\ WorkerStepsLeft' < WorkerStepsLeft
    BY <2>1 DEF WorkerStepsLeft
  <2>. QED
    BY <1>0, <1>1, <2>1, <2>2 DEF WorkLeft
<1>. QED
  BY <1>2, <1>3

\* And so does each step of a callback.
LEMMA RecorderWindsDown ==
  ASSUME TypeOK, OrderInv, Recorder, ~TryBeginRecording
  PROVE  WorkLeft' < WorkLeft
<1>0. Len(queue) \in Nat /\ WorkerStepsLeft \in 0 .. 5
  BY DEF TypeOK, ThreadTypes, WorkerStepsLeft
<1>1. WorkerStepsLeft' = WorkerStepsLeft
  BY DEF Recorder, OnCaptureError, OnCaptureCompleted, Submit, AbandonUnscheduled,
     RetireUnscheduled, Discard, workerVars, WorkerStepsLeft
<1>2. CASE Submit /\ PoolOpen
  <2>1. recorder = "submit" /\ recorder' = "idle" /\ cycle \in Cycles
    BY <1>2 DEF Submit, OrderInv
  <2>2. Len(queue') = Len(queue) + 1
    BY <1>2, <2>1, SubmitQueue DEF TypeOK
  <2>3. RecorderStepsLeft = 7 /\ RecorderStepsLeft' = 0
    BY <2>1 DEF RecorderStepsLeft
  <2>. QED
    BY <1>0, <1>1, <2>2, <2>3 DEF WorkLeft
<1>3. CASE ~(Submit /\ PoolOpen)
  <2>1. /\ queue' = queue
        /\ \/ recorder = "recording" /\ recorder' \in {"idle", "discard", "submit"}
           \/ recorder = "submit" /\ recorder' = "unscheduled"
           \/ recorder = "unscheduled" /\ recorder' = "retire"
           \/ recorder = "retire" /\ recorder' = "discard"
           \/ recorder = "discard" /\ recorder' = "idle"
    BY <1>3 DEF Recorder, OnCaptureError, OnCaptureCompleted, Submit, AbandonUnscheduled,
       RetireUnscheduled, Discard
  <2>2. /\ RecorderStepsLeft \in 0 .. 8 /\ RecorderStepsLeft' \in 0 .. 8
        /\ RecorderStepsLeft' < RecorderStepsLeft
    BY <2>1 DEF RecorderStepsLeft
  <2>. QED
    BY <1>0, <1>1, <2>1, <2>2 DEF WorkLeft
<1>. QED
  BY <1>2, <1>3

\* Without another press the flow comes to rest: every step of the pool thread and
\* of a callback brings it nearer, and no client and no close() takes it further
\* away. What fairness adds is only that these steps are taken.
THEOREM FlowWindsDown == Spec => StepsWindDown /\ NothingWindsUp
<1>1. HandledInv /\ [Next]_vars =>
        [(Recorder \/ Worker) /\ ~TryBeginRecording => WorkLeft' < WorkLeft]_vars
  BY WorkerWindsDown, RecorderWindsDown DEF HandledInv, IInv, CountInv, TypeOK
<1>2. HandledInv /\ [Next]_vars => [~TryBeginRecording => WorkLeft' <= WorkLeft]_vars
  <2>. SUFFICES ASSUME HandledInv, Next, ~TryBeginRecording PROVE WorkLeft' <= WorkLeft
    OBVIOUS
  <2>0. TypeOK /\ TypeOK' /\ ThreadTypes /\ ThreadTypes' /\ OrderInv
    BY CountStep DEF HandledInv, IInv, CountInv, TypeOK
  <2>1. WorkLeft \in Nat /\ WorkLeft' \in Nat
    <3>1. Len(queue') \in Nat
      BY <2>0 DEF ThreadTypes
    <3>2. WorkerStepsLeft' \in 0 .. 5 /\ RecorderStepsLeft' \in 0 .. 8
      BY DEF WorkerStepsLeft, RecorderStepsLeft
    <3>. QED
      BY <2>0, <3>1, <3>2, WorkLeftIsNat DEF WorkLeft
  <2>2. CASE Recorder \/ Worker
    BY <2>0, <2>1, <2>2, WorkerWindsDown, RecorderWindsDown
  <2>3. CASE Closer \/ \E c \in Clients : Client(c)
    <3>1. UNCHANGED <<queue, worker, recorder>>
      BY <2>3, ClientsFrame
         DEF Closer, SetClosed, ShutdownPool, ExitBegins, JoinPool, recorderVars, workerVars
    <3>2. WorkLeft' = WorkLeft
      BY <3>1 DEF WorkLeft, WorkerStepsLeft, RecorderStepsLeft
    <3>. QED
      BY <2>1, <3>2
  <2>. QED
    BY <2>2, <2>3 DEF Next
<1>. QED
  BY <1>1, <1>2, RecordingsHandled, PTL DEF Spec, StepsWindDown, NothingWindsUp

=============================================================================
