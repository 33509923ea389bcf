---------------------------- MODULE AudioCapture ----------------------------
(***************************************************************************)
(* AudioCapture of the Raspberry Pi: one recording at a time, started and  *)
(* stopped by the caller's thread, read and written by a worker thread per *)
(* recording.                                                              *)
(*                                                                         *)
(* A call gives up waiting for a worker after five seconds.  A worker that *)
(* is alive then is kept as an orphan, and while it lives the next start   *)
(* is refused: so at most one worker lives, and one step stands for it.    *)
(* The backend is its stream, its PCM queue (module PcmBuffer) and the     *)
(* outcomes of its calls.  A session is the number of a temporary file.    *)
(***************************************************************************)
EXTENDS Naturals

CONSTANTS
  MaxSessions,   \* bound: recordings begun
  FsMayFail      \* whether closing or deleting the temporary file may raise OSError

ASSUME AudioCaptureAssumption ==
  MaxSessions \in Nat /\ FsMayFail \in BOOLEAN

VARIABLES
  caller, result,            \* step of start() or stop(); how the last call that was
                             \* not refused ended
  state, stopping,           \* _state, _stop_in_progress
  session, temp,             \* _active_session; the temporary file opened last
  worker, owner,             \* worker thread and the session it was started for
  orphan,                    \* _orphaned_worker
  started,                   \* _started_event
  startupError, workerError, \* session that stored the error, or 0
  cleanupError,              \* _cleanup_error
  stream, pcm,               \* backend: PortAudio stream and PCM queue
  damaged                    \* history: sessions that lost audio they were given

callVars   == <<caller, result>>
fileVars   == <<session, temp>>
workerVars == <<worker, owner, started>>
errorVars  == <<startupError, workerError, cleanupError>>
vars == <<callVars, state, stopping, fileVars, workerVars, orphan, errorVars,
          stream, pcm, damaged>>

NoSession == 0
Sessions  == 1 .. MaxSessions

StartSteps == {"release", "open", "wait", "giveup", "retry", "settle"}
StopSteps  == {"silence", "silenced", "join", "close", "publish"}
Results    == {"none", "started", "artifact", "failed", "escaped"}

TypeOK ==
  /\ caller \in {"out", "abort", "fail"} \union StartSteps \union StopSteps
  /\ result \in Results
  /\ state \in {"IDLE", "RECORDING"} /\ stopping \in {"no", "yes"}
  /\ session \in 0 .. MaxSessions
  /\ temp \in {"none", "open", "closed"}
  /\ worker \in {"none", "starting", "reading", "leaving", "exited"}
  /\ owner \in 0 .. MaxSessions
  /\ orphan \in {"none", "kept"}
  /\ started \in {"clear", "set"}
  /\ startupError \in 0 .. MaxSessions /\ workerError \in 0 .. MaxSessions
  /\ cleanupError \in {"none", "stored"}
  /\ stream \in {"none", "open"} /\ pcm \in {"none", "open", "closed"}
  /\ damaged \in SUBSET Sessions

Init ==
  /\ caller = "out" /\ result = "none"
  /\ state = "IDLE" /\ stopping = "no"
  /\ session = NoSession /\ temp = "none"
  /\ worker = "none" /\ owner = NoSession /\ orphan = "none" /\ started = "clear"
  /\ startupError = NoSession /\ workerError = NoSession /\ cleanupError = "none"
  /\ stream = "none" /\ pcm = "none"
  /\ damaged = {}

Alive == worker \in {"starting", "reading", "leaving"}

Goto(to) == caller' = to /\ UNCHANGED result
Out(how) == caller' = "out" /\ result' = how

MayStart == state = "IDLE" /\ ~(orphan = "kept" /\ Alive)

-----------------------------------------------------------------------------
(* start().                                                                *)

Start ==
  /\ caller = "out"
  /\ session < MaxSessions
  /\ IF MayStart THEN Goto("release") ELSE UNCHANGED callVars
  /\ orphan' = IF Alive THEN orphan ELSE "none"
  /\ UNCHANGED <<state, stopping, fileVars, workerVars, errorVars, stream, pcm, damaged>>

\* _close_from_controller: backend.close aborts the stream, which stop() has done
\* already, and forgets it before closing it.  An abort that raises keeps it.
CloseBackend ==
  /\ pcm' = IF pcm = "open" THEN "closed" ELSE pcm
  /\ \/ stream' = "none" /\ UNCHANGED cleanupError
     \/ stream = "open" /\ stream' = "none" /\ cleanupError' = "stored"
     \/ stream = "open" /\ caller # "close" /\ cleanupError' = "stored" /\ UNCHANGED stream

ReleaseLeftover ==
  /\ caller = "release"
  /\ CloseBackend
  /\ Goto(IF cleanupError' = "stored" THEN "fail" ELSE "open")
  /\ UNCHANGED <<state, stopping, fileVars, workerVars, orphan, startupError, workerError,
                 damaged>>

\* Mutated form: the errors of an earlier worker stay.
ErrorsKept == UNCHANGED errorVars
ErrorsCleared ==
  startupError' = NoSession /\ workerError' = NoSession /\ cleanupError' = "none"

NextSession == session + 1

OpenAndSpawn ==
  /\ caller = "open"
  /\ Goto("wait")
  /\ session' = NextSession
  /\ temp' = "open"
  /\ state' = "RECORDING"
  /\ worker' = "starting" /\ owner' = NextSession /\ started' = "clear"
  /\ ErrorsCleared
  /\ UNCHANGED <<stopping, orphan, stream, pcm, damaged>>

\* No thread could be started: RuntimeError leaves start() as it is, in RECORDING.
SpawnFails ==
  /\ caller = "open"
  /\ Out("escaped")
  /\ session' = NextSession
  /\ temp' = "open"
  /\ state' = "RECORDING"
  /\ worker' = "exited" /\ owner' = NextSession /\ started' = "clear"
  /\ ErrorsCleared
  /\ UNCHANGED <<stopping, orphan, stream, pcm, damaged>>

\* _open_temp_file failed, before or after it counted the session: what it
\* created is discarded, unless that fails as well.
OpenFails ==
  /\ caller = "open"
  /\ session' \in {session, NextSession}
  /\ \/ Out("failed") /\ temp' = "none"
     \/ FsMayFail /\ Out("escaped") /\ temp' = "closed"
  /\ UNCHANGED <<state, stopping, workerVars, orphan, errorVars, stream, pcm, damaged>>

WorkerReported ==
  /\ caller = "wait"
  /\ started = "set"
  /\ IF startupError = NoSession THEN Out("started") ELSE Goto("settle")
  /\ UNCHANGED <<state, stopping, fileVars, workerVars, orphan, errorVars, stream, pcm, damaged>>

WaitTimesOut ==
  /\ caller = "wait"
  /\ started = "clear"
  /\ Goto("giveup")
  /\ UNCHANGED <<state, stopping, fileVars, workerVars, orphan, errorVars, stream, pcm, damaged>>

\* The first join after the timeout.  A worker that got into read() meanwhile
\* is stopped; one still inside backend.start() is left alone.
GiveUp ==
  /\ caller = "giveup"
  /\ \/ ~Alive /\ Goto("abort")
     \/ Alive /\ started = "set" /\ Goto("silence")
     \/ Alive /\ started = "clear" /\ Goto("retry")
  /\ UNCHANGED <<state, stopping, fileVars, workerVars, orphan, errorVars, stream, pcm, damaged>>

\* The last look at a worker that was given up, stopped or reported an error.
JoinStarted ==
  /\ caller \in {"retry", "settle"}
  /\ Goto(IF Alive THEN "fail" ELSE "abort")
  /\ UNCHANGED <<state, stopping, fileVars, workerVars, orphan, errorVars, stream, pcm, damaged>>

AbortStart ==
  /\ caller = "abort"
  /\ CloseBackend
  /\ Goto("fail")
  /\ UNCHANGED <<state, stopping, fileVars, workerVars, orphan, startupError, workerError,
                 damaged>>

-----------------------------------------------------------------------------
(* _stop_backend, of stop() and of a start() that gave up: backend.stop    *)
(* closes the queue and then aborts the stream, which may hang.            *)

\* Mutated form: the stream is aborted and the queue left open.
QueueKept ==
  /\ caller = "silence"
  /\ Goto("silenced")
  /\ UNCHANGED <<state, stopping, fileVars, workerVars, orphan, errorVars, stream, pcm, damaged>>

CloseQueue ==
  /\ caller = "silence"
  /\ pcm' = IF pcm = "open" THEN "closed" ELSE pcm
  /\ Goto("silenced")
  /\ UNCHANGED <<state, stopping, fileVars, workerVars, orphan, errorVars, stream, damaged>>

AbortStream ==
  /\ caller = "silenced"
  /\ \/ UNCHANGED cleanupError
     \/ stream = "open" /\ cleanupError' = "stored"
  /\ Goto(IF stopping = "yes" THEN "join" ELSE "retry")
  /\ UNCHANGED <<state, stopping, fileVars, workerVars, orphan, startupError, workerError,
                 stream, pcm, damaged>>

-----------------------------------------------------------------------------
(* _fail: the only way out of a failed start or stop.                      *)

\* Mutated form: the file of a failed recording is left behind.
TempKept == temp
TempAfterFail == "none"

Fail ==
  /\ caller = "fail"
  /\ temp' = TempAfterFail
  /\ state' = "IDLE" /\ stopping' = "no"
  /\ orphan' = IF Alive THEN "kept" ELSE orphan
  /\ ErrorsCleared
  /\ Out("failed")
  /\ UNCHANGED <<session, workerVars, stream, pcm, damaged>>

\* _discard_temp raises before any state was reset.
FailEscapes ==
  /\ FsMayFail
  /\ caller = "fail"
  /\ temp = "open"
  /\ temp' = "closed"
  /\ Out("escaped")
  /\ UNCHANGED <<state, stopping, session, workerVars, orphan, errorVars, stream, pcm, damaged>>

-----------------------------------------------------------------------------
(* stop().                                                                 *)

\* The controller calls stop() for a recording that start() told it was begun.
Stop ==
  /\ caller = "out" /\ result = "started"
  /\ state = "RECORDING" /\ stopping = "no"
  /\ stopping' = "yes"
  /\ Goto("silence")
  /\ UNCHANGED <<state, fileVars, workerVars, orphan, errorVars, stream, pcm, damaged>>

\* Mutated form: the join's outcome is not looked at.
JoinRegardless ==
  /\ caller = "join"
  /\ Goto("close")
  /\ UNCHANGED <<state, stopping, fileVars, workerVars, orphan, errorVars, stream, pcm, damaged>>

JoinWorker ==
  /\ caller = "join"
  /\ Goto(IF Alive THEN "fail" ELSE "close")
  /\ UNCHANGED <<state, stopping, fileVars, workerVars, orphan, errorVars, stream, pcm, damaged>>

\* Mutated form: only the caller's own errors are raised.
RecordedCleanupErrors == cleanupError' # "none"
RecordedErrors == workerError # NoSession \/ cleanupError' # "none"

CloseStream ==
  /\ caller = "close"
  /\ CloseBackend
  /\ Goto(IF RecordedErrors THEN "fail" ELSE "publish")
  /\ UNCHANGED <<state, stopping, fileVars, workerVars, orphan, startupError, workerError,
                 damaged>>

Publish ==
  /\ caller = "publish"
  /\ temp' = "none"
  /\ state' = "IDLE" /\ stopping' = "no"
  /\ Out("artifact")
  /\ UNCHANGED <<session, workerVars, orphan, errorVars, stream, pcm, damaged>>

\* Validation or the rename failed: both paths are deleted.
PublishFails ==
  /\ caller = "publish"
  /\ temp' = "none"
  /\ Goto("fail")
  /\ UNCHANGED <<state, stopping, session, workerVars, orphan, errorVars, stream, pcm, damaged>>

\* _close_wav is outside the try of _publish.
PublishEscapes ==
  /\ FsMayFail
  /\ caller = "publish"
  /\ temp' = "closed"
  /\ Out("escaped")
  /\ UNCHANGED <<state, stopping, session, workerVars, orphan, errorVars, stream, pcm, damaged>>

\* Calls of the backend on the caller's thread that touch PortAudio.
InBackend == ReleaseLeftover \/ AbortStart \/ AbortStream \/ CloseStream

CallerAlone ==
  \/ OpenAndSpawn \/ SpawnFails \/ OpenFails \/ WorkerReported \/ WaitTimesOut
  \/ GiveUp \/ JoinStarted \/ Fail \/ FailEscapes \/ CloseQueue
  \/ JoinWorker \/ Publish \/ PublishFails \/ PublishEscapes

Caller == InBackend \/ CallerAlone

-----------------------------------------------------------------------------
(* Worker: _run.                                                           *)

\* Only the worker of the active session may store an error.
ErrorAfter(error) == IF owner = session THEN owner ELSE error

BackendStarts ==
  /\ worker = "starting"
  /\ stream' = "open" /\ pcm' = "open"
  /\ started' = "set"
  /\ worker' = "reading"
  /\ UNCHANGED <<callVars, state, stopping, fileVars, owner, orphan, errorVars, damaged>>

\* start() cleans up after a PortAudioError only; what else it raises leaves the
\* stream that was opened.
BackendDoesNotStart ==
  /\ worker = "starting"
  /\ \/ UNCHANGED <<stream, pcm>>
     \/ stream' = "open" /\ pcm' = "open"
  /\ startupError' = ErrorAfter(startupError)
  /\ started' = "set"
  /\ worker' = "leaving"
  /\ UNCHANGED <<callVars, state, stopping, fileVars, owner, orphan, workerError,
                 cleanupError, damaged>>

\* A block that is not written: its file was closed, or read() or writeframes()
\* raised.  A block that is written leaves this state as it is.
Read ==
  /\ worker = "reading"
  /\ \/ /\ owner # session \/ temp # "open"
        /\ damaged' = damaged \union {owner}
        /\ UNCHANGED <<worker, workerError>>
     \/ /\ damaged' = damaged \union {owner}
        /\ workerError' = ErrorAfter(workerError)
        /\ worker' = "leaving"
  /\ UNCHANGED <<callVars, state, stopping, fileVars, owner, started, orphan, startupError,
                 cleanupError, stream, pcm>>

\* read() returned empty bytes: only a closed queue does.
ReadEnds ==
  /\ worker = "reading"
  /\ pcm = "closed"
  /\ worker' = "leaving"
  /\ UNCHANGED <<callVars, state, stopping, fileVars, owner, started, orphan, errorVars,
                 stream, pcm, damaged>>

Leave ==
  /\ worker = "leaving"
  /\ worker' = "exited"
  /\ UNCHANGED <<callVars, state, stopping, fileVars, owner, started, orphan, errorVars,
                 stream, pcm, damaged>>

Worker == BackendStarts \/ BackendDoesNotStart \/ Read \/ ReadEnds \/ Leave

Next == Start \/ Stop \/ Caller \/ Worker

Spec == Init /\ [][Next]_vars

\* The caller's waits for a worker are bounded, and the queue is closed before the
\* stream is aborted; but nothing makes backend.stop() or close() return
\* (docs/architecture/audio-capture.md:367-369).  backend.start() is taken to return,
\* though perhaps later than the caller waits: one that never does keeps the orphan
\* for ever, which lines 364-366 admit.  A read of a closed queue ends.  Nobody is
\* obliged to call, and a read of an open queue may go on for ever.
FairSpec ==
  /\ Spec
  /\ WF_vars(CallerAlone)
  /\ WF_vars(BackendStarts \/ BackendDoesNotStart)
  /\ WF_vars(ReadEnds)
  /\ WF_vars(Leave)

-----------------------------------------------------------------------------
\* The controller's thread is alone in the backend when it closes the stream or
\* spawns a worker, with any combination of timeouts: no worker that was given up
\* is still inside it.
BackendIsFree == caller \in {"release", "open", "abort", "close"} => ~Alive

\* A published WAV holds all the audio its worker was given: no block of that
\* session was dropped, failed to be read or failed to be written.
PublishedIsWhole ==
  caller = "publish" => session \notin damaged /\ ~Alive /\ owner = session

\* A recording is blamed only for its own errors, not for those an orphan of an
\* earlier session stored in the same fields.
ErrorsAreOwn ==
  state = "RECORDING" => {startupError, workerError} \subseteq {NoSession, session}

\* The caller is never left with a capture that contradicts what it was told:
\* after `started` it records, after anything else it can start again and no
\* temporary file is left. What escapes as an OSError, or as the RuntimeError of a
\* thread that could not be started, is excepted: it leaves RECORDING.
CallsAreHonest ==
  caller = "out" /\ result # "escaped" =>
    /\ result = "started" <=> state = "RECORDING"
    /\ state = "IDLE" => temp = "none" /\ stopping = "no"

\* A worker exits once its recording is being stopped, also when the caller does
\* not wait for it, or is inside an abort() that never returns.
StoppedWorkerExits == stopping = "yes" ~> ~Alive

\* A worker kept as an orphan exits, so that a later start is accepted again
\* (docs/architecture/audio-capture.md:302-307).
OrphanExits == orphan = "kept" /\ Alive ~> ~Alive

=============================================================================
