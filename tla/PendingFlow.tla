---------------------------- MODULE PendingFlow ----------------------------
(***************************************************************************)
(* PendingOperationFlow and PendingOperationGateway of the Raspberry Pi:   *)
(* the phase of the operation cycle, the only pending operation, the pool  *)
(* thread that talks to the PC, and the HTTP threads that confirm or       *)
(* cancel.                                                                 *)
(*                                                                         *)
(* Threads.  The recorder is the push-to-talk worker as the flow sees it:  *)
(* it asks try_begin_recording, then calls on_capture_completed or         *)
(* on_capture_error.  The pool worker runs _process.  Each client runs one *)
(* gateway call at a time.  The closer runs close().  One step is one      *)
(* critical section of the flow's Condition, or one call to code outside   *)
(* it (the PC, the executor, the file system, the pool); steps of          *)
(* different threads interleave freely.                                    *)
(*                                                                         *)
(* A recording is the number of the cycle that made it.  An operation      *)
(* identifier stands for a fresh uuid4: the n-th operation stored is n.    *)
(***************************************************************************)
EXTENDS Naturals, Sequences

CONSTANTS
  Clients,          \* HTTP threads that confirm or cancel
  MaxCycles,        \* bound: recordings the operator makes
  DeleteAfterSend,  \* delete_after_send of the flow and of RecordingSender
  UnlinkMayFail     \* whether Path.unlink may raise OSError

ASSUME PendingFlowAssumption ==
  /\ MaxCycles \in Nat
  /\ DeleteAfterSend \in BOOLEAN
  /\ UnlinkMayFail \in BOOLEAN

VARIABLES
  phase, pending, message, jobs,              \* PendingOperationFlow fields
  cycle,                                      \* recordings begun so far
  offered,                                    \* operations stored so far
  origin,                                     \* recording the pending operation came from
  recorder,                                   \* step of the push-to-talk worker
  queue,                                      \* work queue of ThreadPoolExecutor(max_workers=1)
  worker, job, reason,                        \* pool thread: step and locals of _process
  closer,                                     \* how far close(), or the exit without it, got
  files, undeleted,                           \* published WAV files on disk, and those of
                                              \* them whose deletion was refused
  step, action, target, reply,                \* each client's gateway call
  last,                                       \* _last_resolution
  effects, cancelled                          \* history: applied effects, cancels

recorderVars == <<recorder, cycle>>
workerVars   == <<worker, job, reason>>
fileVars     == <<files, undeleted>>
clientVars   == <<step, action, target, reply>>
settledVars  == <<last, effects, cancelled>>
flowVars     == <<phase, pending, message, offered, origin>>
vars == <<flowVars, jobs, recorderVars, queue, workerVars, closer,
          fileVars, clientVars, settledVars>>

NoOperation == 0
Operations  == 1 .. MaxCycles
\* An id this process never issued, from a page opened before a restart.
ForeignId   == MaxCycles + 1
Cycles      == 1 .. MaxCycles

Phases    == {"IDLE", "RECORDING", "PROCESSING", "WAIT_CONFIRMATION"}
Rejected  == {"TRANSPORT_ERROR", "SERVICE_ERROR", "CONTRACT_REJECTION"}
NoMessage == "none"
Messages  == Rejected \union {NoMessage, "CAPTURE_FAILED", "UNEXPECTED"}
Actions   == {"CONFIRM", "CANCEL"}
Statuses  == {"SUCCESS", "ALREADY_RESOLVED", "CONFLICT", "STALE_OPERATION",
              "NO_PENDING", "EXECUTION_FAILED"}
NoReply   == "none"
NoAction  == "none"

RecorderSteps == {"idle", "recording", "submit", "unscheduled", "retire", "discard"}
WorkerSteps   == {"free", "send", "store", "abandon", "cleanup", "unwind",
                  "failed", "finish"}
ClosingSteps  == {"open", "shutdown", "join", "done", "exit", "exited"}
ClientSteps   == {"idle", "call", "execute", "clear"}

PhaseTypes ==
  /\ phase \in Phases
  /\ pending \in Operations \union {NoOperation}
  /\ message \in Messages
  /\ cycle \in 0 .. MaxCycles
  /\ offered \in 0 .. MaxCycles
  /\ origin \in 0 .. MaxCycles

ThreadTypes ==
  /\ jobs \in Nat
  /\ recorder \in RecorderSteps
  /\ queue \in Seq(Cycles)
  /\ worker \in WorkerSteps
  /\ job \in 0 .. MaxCycles
  /\ reason \in Messages
  /\ closer \in ClosingSteps
  /\ files \in SUBSET Cycles
  /\ undeleted \in SUBSET Cycles

ClientTypes ==
  /\ step \in [Clients -> ClientSteps]
  /\ action \in [Clients -> Actions]
  /\ target \in [Clients -> Operations \union {ForeignId}]
  /\ reply \in [Clients -> Statuses \union {NoReply}]

LedgerTypes ==
  /\ last \in [op : Operations \union {NoOperation}, action : Actions \union {NoAction}]
  /\ effects \in [Operations -> Nat]
  /\ cancelled \in SUBSET Operations

TypeOK == PhaseTypes /\ ThreadTypes /\ ClientTypes /\ LedgerTypes

Init ==
  /\ phase = "IDLE" /\ pending = NoOperation /\ message = NoMessage
  /\ jobs = 0
  /\ cycle = 0 /\ offered = 0 /\ origin = 0
  /\ recorder = "idle"
  /\ queue = << >>
  /\ worker = "free" /\ job = 0 /\ reason = NoMessage
  /\ closer = "open"
  /\ files = {} /\ undeleted = {}
  /\ step = [c \in Clients |-> "idle"]
  /\ action = [c \in Clients |-> "CONFIRM"]
  /\ target = [c \in Clients |-> ForeignId]
  /\ reply = [c \in Clients |-> NoReply]
  /\ last = [op |-> NoOperation, action |-> NoAction]
  /\ effects = [op \in Operations |-> 0]
  /\ cancelled = {}

-----------------------------------------------------------------------------
(* Critical sections of the flow, each one a `with self._lock` block.      *)

\* Mutated form: a late failure resets whatever phase it finds.
StillProcessingUnchecked == phase # "RECORDING"
StillProcessing == phase = "PROCESSING" /\ pending = NoOperation

\* _abandon: only a cycle that is still processing returns to idle.
Abandon(text) ==
  IF StillProcessing
  THEN /\ phase' = "IDLE"
       /\ message' = text
       /\ UNCHANGED <<pending, offered, origin>>
  ELSE UNCHANGED flowVars

\* _closed is set by the first step of close(); the pool is shut down after it.
\* An exit of the interpreter shuts the pool and leaves _closed alone.
Closed   == closer \in {"shutdown", "join", "done"}
PoolOpen == closer \in {"open", "shutdown"}

Refused == Closed \/ phase # "RECORDING" \/ pending # NoOperation

\* cleanup() with missing_ok: gone already is not an error, but the
\* operating system may still refuse the deletion.
Unlink(wav) ==
  \/ files' = files \ {wav} /\ UNCHANGED undeleted
  \/ UnlinkMayFail /\ wav \in files /\ undeleted' = undeleted \union {wav} /\ UNCHANGED files

-----------------------------------------------------------------------------
(* Recorder: the push-to-talk worker calling into the flow.                *)

\* Mutated forms: only the slot is looked at, or only another recording.
MayBeginWhileProcessing == ~Closed /\ pending = NoOperation
MayBeginUnlessRecording == ~Closed /\ phase # "RECORDING"
MayBegin == ~Closed /\ phase = "IDLE" /\ pending = NoOperation

TryBeginRecording ==
  /\ recorder = "idle"
  /\ MayBegin
  /\ cycle < MaxCycles
  /\ phase' = "RECORDING"
  /\ message' = NoMessage
  /\ cycle' = cycle + 1
  /\ recorder' = "recording"
  /\ UNCHANGED <<pending, offered, origin, jobs, queue, workerVars,
                 closer, fileVars, clientVars, settledVars>>

OnCaptureError ==
  /\ recorder = "recording"
  /\ IF phase = "RECORDING"
     THEN phase' = "IDLE" /\ message' = "CAPTURE_FAILED"
     ELSE UNCHANGED <<phase, message>>
  /\ recorder' = "idle"
  /\ UNCHANGED <<pending, offered, origin, jobs, cycle, queue,
                 workerVars, closer, fileVars, clientVars, settledVars>>

OnCaptureCompleted ==
  /\ recorder = "recording"
  /\ files' = files \union {cycle}
  /\ IF Refused
     THEN /\ recorder' = "discard"
          /\ UNCHANGED <<phase, message, jobs>>
     ELSE /\ recorder' = "submit"
          /\ phase' = "PROCESSING"
          /\ message' = NoMessage
          /\ jobs' = jobs + 1
  /\ UNCHANGED <<pending, offered, origin, cycle, queue, undeleted,
                 workerVars, closer, clientVars, settledVars>>

\* Mutated forms: a refused submit skips _abandon; the file of a submitted
\* recording is discarded at once.
SubmitWithoutAbandon ==
  /\ recorder = "submit"
  /\ IF PoolOpen
     THEN queue' = Append(queue, cycle) /\ recorder' = "idle"
     ELSE recorder' = "retire" /\ UNCHANGED queue
  /\ UNCHANGED <<flowVars, jobs, cycle, workerVars, closer, fileVars, clientVars, settledVars>>

SubmitThenDiscard ==
  /\ recorder = "submit"
  /\ IF PoolOpen
     THEN queue' = Append(queue, cycle) /\ recorder' = "discard"
     ELSE recorder' = "unscheduled" /\ UNCHANGED queue
  /\ UNCHANGED <<flowVars, jobs, cycle, workerVars, closer, fileVars, clientVars, settledVars>>

\* jobs_pool.submit raises RuntimeError once the pool, or the interpreter, shuts down.
Submit ==
  /\ recorder = "submit"
  /\ IF PoolOpen
     THEN queue' = Append(queue, cycle) /\ recorder' = "idle"
     ELSE recorder' = "unscheduled" /\ UNCHANGED queue
  /\ UNCHANGED <<flowVars, jobs, cycle, workerVars, closer,
                 fileVars, clientVars, settledVars>>

AbandonUnscheduled ==
  /\ recorder = "unscheduled"
  /\ Abandon("UNEXPECTED")
  /\ recorder' = "retire"
  /\ UNCHANGED <<jobs, cycle, queue, workerVars, closer, fileVars,
                 clientVars, settledVars>>

\* Mutated forms: the refused recording is left on disk, or left counted.
RetireWithoutDiscard ==
  /\ recorder = "retire" /\ jobs' = jobs - 1 /\ recorder' = "idle"
  /\ UNCHANGED <<flowVars, cycle, queue, workerVars, closer, fileVars, clientVars, settledVars>>

RetireUncounted ==
  /\ recorder = "retire" /\ recorder' = "discard"
  /\ UNCHANGED <<flowVars, jobs, cycle, queue, workerVars, closer, fileVars, clientVars,
                 settledVars>>

RetireUnscheduled ==
  /\ recorder = "retire"
  /\ jobs' = jobs - 1
  /\ recorder' = "discard"
  /\ UNCHANGED <<flowVars, cycle, queue, workerVars, closer, fileVars,
                 clientVars, settledVars>>

\* An OSError here is logged by the controller and ends the callback.
Discard ==
  /\ recorder = "discard"
  /\ IF DeleteAfterSend THEN Unlink(cycle) ELSE UNCHANGED fileVars
  /\ recorder' = "idle"
  /\ UNCHANGED <<flowVars, jobs, cycle, queue, workerVars, closer,
                 clientVars, settledVars>>

Recorder ==
  \/ TryBeginRecording \/ OnCaptureError \/ OnCaptureCompleted \/ Submit
  \/ AbandonUnscheduled \/ RetireUnscheduled \/ Discard

-----------------------------------------------------------------------------
(* Pool worker: _process, RecordingSender.__call__ and _on_sent.           *)

\* Mutated form: the pool forgets queued work when it is shut down.
TakeUnlessShutdown ==
  /\ worker = "free" /\ queue # << >> /\ PoolOpen
  /\ job' = Head(queue) /\ queue' = Tail(queue) /\ worker' = "send" /\ reason' = NoMessage
  /\ UNCHANGED <<flowVars, jobs, recorderVars, closer, fileVars, clientVars, settledVars>>

Take ==
  /\ worker = "free"
  /\ queue # << >>
  /\ job' = Head(queue)
  /\ queue' = Tail(queue)
  /\ worker' = "send"
  /\ reason' = NoMessage
  /\ UNCHANGED <<flowVars, jobs, recorderVars, closer, fileVars,
                 clientVars, settledVars>>

\* interpret_audio and PcResponseInterpreter.interpret: no shared state is
\* touched until the classified answer is applied.
AnswerAccepted ==
  /\ worker = "send"
  /\ worker' = "store"
  /\ UNCHANGED <<flowVars, jobs, recorderVars, queue, job, reason, closer, fileVars, clientVars, settledVars>>

AnswerRejected ==
  /\ worker = "send"
  /\ \E kind \in Rejected \union {"UNEXPECTED"} : reason' = kind
  /\ worker' = "abandon"
  /\ UNCHANGED <<flowVars, jobs, recorderVars, queue, job, closer, fileVars, clientVars, settledVars>>

SenderRaised ==
  /\ worker = "send"
  /\ worker' = "unwind"
  /\ UNCHANGED <<flowVars, jobs, recorderVars, queue, job, reason,
                 closer, fileVars, clientVars, settledVars>>

\* The last critical section of _on_sent.
Store ==
  /\ worker = "store"
  /\ IF phase # "PROCESSING" \/ pending # NoOperation
     THEN UNCHANGED flowVars
     ELSE /\ message' = NoMessage
          /\ IF Closed
             THEN /\ phase' = "IDLE"
                  /\ UNCHANGED <<pending, offered, origin>>
             ELSE /\ phase' = "WAIT_CONFIRMATION"
                  /\ offered' = offered + 1
                  /\ pending' = offered + 1
                  /\ origin' = job
  /\ worker' = "cleanup"
  /\ UNCHANGED <<jobs, recorderVars, queue, job, reason,
                 closer, fileVars, clientVars, settledVars>>

AbandonAnswer ==
  /\ worker = "abandon"
  /\ Abandon(reason)
  /\ worker' = "cleanup"
  /\ UNCHANGED <<jobs, recorderVars, queue, job, reason,
                 closer, fileVars, clientVars, settledVars>>

\* RecordingSender's finally: the file goes whatever the result was.
CleanUp ==
  /\ worker \in {"cleanup", "unwind"}
  /\ IF DeleteAfterSend THEN Unlink(job) ELSE UNCHANGED fileVars
  /\ worker' = IF worker = "unwind" \/ (DeleteAfterSend /\ job \in files')
               THEN "failed" ELSE "finish"
  /\ UNCHANGED <<flowVars, jobs, recorderVars, queue, job, reason, closer, clientVars, settledVars>>

\* _process catches what the sender or its cleanup raised.
AbandonFailedSend ==
  /\ worker = "failed"
  /\ Abandon("UNEXPECTED")
  /\ worker' = "finish"
  /\ UNCHANGED <<jobs, recorderVars, queue, job, reason,
                 closer, fileVars, clientVars, settledVars>>

Finish ==
  /\ worker = "finish"
  /\ jobs' = jobs - 1
  /\ worker' = "free"
  /\ job' = 0
  /\ reason' = NoMessage
  /\ UNCHANGED <<flowVars, recorderVars, queue, closer, fileVars,
                 clientVars, settledVars>>

Worker ==
  \/ Take \/ AnswerAccepted \/ AnswerRejected \/ SenderRaised \/ Store
  \/ AbandonAnswer \/ CleanUp \/ AbandonFailedSend \/ Finish

-----------------------------------------------------------------------------
(* close(): refuse new work, then shut the pool down and wait for it.  A   *)
(* process that exits without it shuts the pool in concurrent.futures'     *)
(* exit hook, which waits for the queued jobs as well.                     *)

SetClosed ==
  /\ closer = "open"
  /\ closer' = "shutdown"
  /\ UNCHANGED <<flowVars, jobs, recorderVars, queue, workerVars, fileVars,
                 clientVars, settledVars>>

ShutdownPool ==
  /\ closer = "shutdown"
  /\ closer' = "join"
  /\ UNCHANGED <<flowVars, jobs, recorderVars, queue, workerVars, fileVars,
                 clientVars, settledVars>>

ExitBegins ==
  /\ closer = "open"
  /\ closer' = "exit"
  /\ UNCHANGED <<flowVars, jobs, recorderVars, queue, workerVars, fileVars,
                 clientVars, settledVars>>

JoinPool ==
  /\ queue = << >>
  /\ worker = "free"
  /\ \/ closer = "join" /\ closer' = "done"
     \/ closer = "exit" /\ closer' = "exited"
  /\ UNCHANGED <<flowVars, jobs, recorderVars, queue, workerVars,
                 fileVars, clientVars, settledVars>>

Closer == SetClosed \/ ShutdownPool \/ ExitBegins \/ JoinPool

-----------------------------------------------------------------------------
(* Gateway: confirm and cancel, under the gateway's own lock.  The lock is *)
(* held by the client that is between its first and its last step.         *)

InGateway(c) == step[c] \in {"execute", "clear"}

\* Mutated form: confirm and cancel run unlocked.
GatewayAlwaysFree == TRUE
GatewayFree == \A d \in Clients : ~InGateway(d)

Request(c) ==
  /\ step[c] = "idle"
  /\ \E a \in Actions, id \in (1 .. offered) \union {ForeignId} :
        /\ action' = [action EXCEPT ![c] = a]
        /\ target' = [target EXCEPT ![c] = id]
  /\ step' = [step EXCEPT ![c] = "call"]
  /\ reply' = [reply EXCEPT ![c] = NoReply]
  /\ UNCHANGED <<flowVars, jobs, recorderVars, queue, workerVars,
                 closer, fileVars, settledVars>>

Answer(c, status) ==
  /\ step' = [step EXCEPT ![c] = "idle"]
  /\ reply' = [reply EXCEPT ![c] = status]

\* Mutated form: a retry is recognised by its id alone.
RememberedById(c) == "ALREADY_RESOLVED"
Remembered(c) == IF last.action = action[c] THEN "ALREADY_RESOLVED" ELSE "CONFLICT"

\* The remembered resolution, then the slot read of _current_if_matches.
EnterGateway(c) ==
  /\ step[c] = "call"
  /\ GatewayFree
  /\ \/ /\ last.op = target[c]
        /\ Answer(c, Remembered(c))
     \/ /\ last.op # target[c]
        /\ pending = NoOperation
        /\ Answer(c, "NO_PENDING")
     \/ /\ last.op # target[c]
        /\ pending \notin {NoOperation, target[c]}
        /\ Answer(c, "STALE_OPERATION")
     \/ /\ last.op # target[c]
        /\ pending = target[c]
        /\ step' = [step EXCEPT ![c] = IF action[c] = "CONFIRM" THEN "execute" ELSE "clear"]
        /\ UNCHANGED reply
  /\ UNCHANGED <<flowVars, jobs, recorderVars, queue, workerVars,
                 closer, fileVars, action, target, settledVars>>

\* Mutated form: a failed execution is cleared like a success.
ExecuteIgnoringFailure(c) ==
  /\ step[c] = "execute"
  /\ effects' = effects \/ effects' = [effects EXCEPT ![target[c]] = @ + 1]
  /\ step' = [step EXCEPT ![c] = "clear"]
  /\ UNCHANGED <<flowVars, jobs, recorderVars, queue, workerVars, closer, fileVars, action,
                 target, reply, last, cancelled>>

\* The executor reports success, or reports failure or raises.
Execute(c) ==
  /\ step[c] = "execute"
  /\ \/ /\ effects' = [effects EXCEPT ![target[c]] = @ + 1]
        /\ step' = [step EXCEPT ![c] = "clear"]
        /\ UNCHANGED reply
     \/ /\ Answer(c, "EXECUTION_FAILED")
        /\ UNCHANGED effects
  /\ UNCHANGED <<flowVars, jobs, recorderVars, queue, workerVars,
                 closer, fileVars, action, target, last, cancelled>>

\* clear(operation_id) of the flow, and what the gateway makes of its answer.
ClearSlot(c) ==
  /\ step[c] = "clear"
  /\ IF pending = target[c] /\ phase = "WAIT_CONFIRMATION"
     THEN /\ pending' = NoOperation
          /\ phase' = "IDLE"
          /\ message' = NoMessage
          /\ last' = [op |-> target[c], action |-> action[c]]
          /\ cancelled' = IF action[c] = "CANCEL"
                          THEN cancelled \union {target[c]} ELSE cancelled
          /\ Answer(c, "SUCCESS")
     ELSE /\ Answer(c, "STALE_OPERATION")
          /\ UNCHANGED <<phase, pending, message, last, cancelled>>
  /\ UNCHANGED <<offered, origin, jobs, recorderVars, queue,
                 workerVars, closer, fileVars, action, target, effects>>

Client(c) == Request(c) \/ EnterGateway(c) \/ Execute(c) \/ ClearSlot(c)

-----------------------------------------------------------------------------
Next == Recorder \/ Worker \/ Closer \/ \E c \in Clients : Client(c)

Spec == Init /\ [][Next]_vars

\* The flow's own threads keep running: a submitted callback, the pool worker
\* (the HTTP client times out, so every send ends), a close() under way, and
\* the executor of a call that already holds the gateway.  Nobody is obliged
\* to press the button, to send a request or to close the process.
RecorderCallback == Submit \/ AbandonUnscheduled \/ RetireUnscheduled \/ Discard

Fairness ==
  /\ WF_vars(RecorderCallback)
  /\ WF_vars(Worker)
  /\ WF_vars(ShutdownPool \/ JoinPool)
  /\ \A c \in Clients : WF_vars(Execute(c) \/ ClearSlot(c))

FairSpec == Spec /\ Fairness

-----------------------------------------------------------------------------
(* Where the recording of the current cycle is still to be answered.       *)

WorkerBusy == worker # "free"

\* The pool thread has a step ahead of it that leaves PROCESSING.
WorkerWillAnswer ==
  worker \in {"send", "store", "abandon", "unwind", "failed"}

One(condition) == IF condition THEN 1 ELSE 0

\* The phase and the slot agree, as get_status promises: an operation is held
\* exactly in WAIT_CONFIRMATION (flow.py, `current` and `get_status`).
PhaseMatchesSlot == pending # NoOperation <=> phase = "WAIT_CONFIRMATION"

\* PROCESSING is never orphaned: the recorder, the queue or the pool thread
\* still has a step that ends it, so a press cannot be refused for ever.
ProcessingHasOwner ==
  phase = "PROCESSING" =>
    recorder \in {"submit", "unscheduled"} \/ queue # << >> \/ WorkerWillAnswer

\* The job count wait_until_settled waits on is exactly the recordings
\* accepted and not yet retired, whichever of three threads holds them.
JobsAreAccounted ==
  jobs = Len(queue) + One(WorkerBusy)
         + One(recorder \in {"submit", "unscheduled", "retire"})

\* The effect of one operation is applied at most once, however often and from
\* however many clients its confirmation is sent.
AppliedAtMostOnce == \A op \in Operations : effects[op] <= 1

\* An operation whose effect was applied is never also reported cancelled.
CancelledNeverApplied == \A op \in cancelled : effects[op] = 0

\* While the gateway holds its lock the operation it decided about cannot go
\* away, so the `stale` answer after an execution is unreachable.
ClearCannotMiss ==
  \A c \in Clients : InGateway(c) =>
    pending = target[c] /\ phase = "WAIT_CONFIRMATION"

Answered(c, statuses, a) ==
  step[c] = "idle" /\ reply[c] \in statuses /\ action[c] = a

\* What a client was told is what happened, also for a retry of a lost answer
\* and for the opposite action of another client.
RepliesAreTruthful ==
  \A c \in Clients :
    /\ \/ Answered(c, {"SUCCESS", "ALREADY_RESOLVED"}, "CONFIRM")
       \/ Answered(c, {"CONFLICT"}, "CANCEL")
       => target[c] \in Operations /\ effects[target[c]] = 1
    /\ \/ Answered(c, {"SUCCESS", "ALREADY_RESOLVED"}, "CANCEL")
       \/ Answered(c, {"CONFLICT"}, "CONFIRM")
       => target[c] \in cancelled

\* An operation leaves the slot only applied once or cancelled, and no other
\* operation takes its place in the same step.
SlotIsSettled ==
  [][pending # NoOperation /\ pending' # pending =>
       /\ pending' = NoOperation
       /\ (effects[pending] = 1) # (pending \in cancelled')]_vars

\* The operation shown to the operator was heard in the current recording and
\* not in an earlier one whose job is still finishing. A deletion that is refused
\* takes this guarantee away: see ProcessingEndsByOwnAnswer.
OperationOfThisRecording == undeleted = {} /\ pending # NoOperation => origin = cycle

\* A cycle leaves PROCESSING by the answer to its own recording.
ProcessingEndsByOwnAnswer ==
  [][phase = "PROCESSING" /\ phase' # "PROCESSING" =>
       job = cycle \/ recorder = "unscheduled"]_vars

\* The file of a job is on disk until its upload ended: neither another job's
\* cleanup nor a refused recording removes it.
UploadHasItsFile ==
  /\ worker = "send" => job \in files
  /\ \A i \in DOMAIN queue : queue[i] \in files

\* Every published file still has a thread that will delete it.
FilesHaveAnOwner ==
  DeleteAfterSend =>
    \A wav \in files \ undeleted :
      \/ recorder \in {"submit", "unscheduled", "retire", "discard"} /\ wav = cycle
      \/ \E i \in DOMAIN queue : queue[i] = wav
      \/ worker \in {"send", "store", "abandon", "cleanup", "unwind"} /\ wav = job

\* A recording that was accepted is answered, whatever the PC does.
ProcessingEnds == phase = "PROCESSING" ~> phase # "PROCESSING"

\* close() returns: the pool drains even when it closes on a full queue.
CloseReturns == closer = "shutdown" ~> closer = "done"

\* The flow and the gateway together implement the abstract cycle.
Cycle == INSTANCE OperationCycle

CycleSpec == Cycle!CycleSpec

=============================================================================
