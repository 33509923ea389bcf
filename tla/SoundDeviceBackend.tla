------------------------- MODULE SoundDeviceBackend -------------------------
(***************************************************************************)
(* SoundDeviceBackend: a callback stream of PortAudio that is started,     *)
(* stopped and closed by AudioCapture's threads, one call at a time, while *)
(* the capture worker reads and PortAudio's own thread calls back.         *)
(*                                                                         *)
(* AudioCapture starts or closes the backend only when no worker is alive, *)
(* and stops it at any time. A recording, its buffer, its stream and the   *)
(* stream's thread have the number that _generation had in their start().  *)
(* External: abort() and close() of a stream return once its thread has    *)
(* ended; when one of them raises, the thread may live on.                 *)
(***************************************************************************)
EXTENDS PcmBuffer

CONSTANTS
  MaxGeneration,   \* bound: starts and closes
  MaxBlocks        \* bound: blocks PortAudio delivers

ASSUME BackendAssumption == MaxGeneration \in Nat /\ MaxBlocks \in Nat

VARIABLES
  generation, stopRequested, aborted,   \* _generation, _stop_requested, _aborted
  stream, pcm,                          \* _stream, _pcm: a number, or None
  buffers,                              \* the buffer of each recording
  call, step,                           \* the call in progress and where it is
  thread,                               \* each stream's thread: where, and what it holds
  reader, reading, item,                \* the worker: where, which buffer, what it took
  arrived,                              \* blocks PortAudio brought so far
  offered, received, ended,             \* history of each recording: blocks brought to it
                                        \* while open, blocks read, and how reading ended
  leaked                                \* history: streams whose close() raised

attributes == <<generation, stopRequested, aborted, stream, pcm>>
callVars   == <<call, step>>
readerVars == <<reader, reading, item>>
history    == <<offered, received, ended, leaked>>
vars == <<attributes, buffers, callVars, thread, readerVars, arrived, history>>

None        == 0
Recordings  == 1 .. MaxGeneration
Blocks      == [stream: Recordings, number: 1 .. MaxBlocks]

\* A thread that holds nothing.
Free(at) == [at |-> at, pcm |-> None, block |-> Sentinel]

Init ==
  /\ generation = 0 /\ stopRequested = "clear" /\ aborted = "no"
  /\ stream = None /\ pcm = None
  /\ buffers = [r \in Recordings |-> NewBuffer]
  /\ call = "none" /\ step = "out"
  /\ thread = [s \in Recordings |-> Free("none")]
  /\ reader = "out" /\ reading = None /\ item = Sentinel
  /\ arrived = 0
  /\ offered = [r \in Recordings |-> << >>] /\ received = [r \in Recordings |-> << >>]
  /\ ended = [r \in Recordings |-> "reading"] /\ leaked = {}

Update(r, b) == buffers' = [buffers EXCEPT ![r] = b]
Goto(to)     == step' = to /\ UNCHANGED call
Return       == call' = "none" /\ step' = "out"

-----------------------------------------------------------------------------
(* stop() and close(); start() begins with close().                        *)

Stop ==
  /\ call = "none"
  /\ call' = "stop" /\ step' = "quiet"
  /\ stopRequested' = "set"
  /\ UNCHANGED <<generation, aborted, stream, pcm, buffers, thread, readerVars, arrived,
                 history>>

CloseOrStart ==
  /\ call = "none" /\ reader = "out" /\ generation < MaxGeneration
  /\ call' \in {"close", "start"} /\ step' = "quiet"
  /\ generation' = generation + 1
  /\ stopRequested' = "set"
  /\ UNCHANGED <<aborted, stream, pcm, buffers, thread, readerVars, arrived, history>>

\* Mutated form: stop() leaves it to abort() to release the read.
LeaveOpen ==
  /\ step = "quiet" /\ Goto("abort")
  /\ UNCHANGED <<attributes, buffers, thread, readerVars, arrived, history>>
\* The queue is closed before the stream is aborted.
CloseQueue ==
  /\ step = "quiet" /\ Goto("abort")
  /\ IF pcm = None THEN UNCHANGED buffers ELSE Update(pcm, Close(buffers[pcm]))
  /\ UNCHANGED <<attributes, thread, readerVars, arrived, history>>

Stopped == IF call = "stop" THEN Return ELSE Goto("release")

\* abort() once per stream. A PortAudioError is swallowed; any other exception
\* leaves the call with the stream still held.
Abort ==
  /\ step = "abort"
  /\ IF stream = None \/ aborted = "yes"
     THEN Stopped /\ UNCHANGED aborted
     ELSE /\ aborted' = "yes"
          /\ \/ thread[stream].at = "ended" /\ Stopped
             \/ Stopped
             \/ Return
  /\ UNCHANGED <<generation, stopRequested, stream, pcm, buffers, thread, readerVars,
                 arrived, history>>

\* The stream is forgotten, and then closed.
Release ==
  /\ step = "release"
  /\ stream' = None
  /\ \/ /\ stream # None => thread[stream].at = "ended"
        /\ IF call = "close" THEN Return ELSE Goto("device")
        /\ UNCHANGED leaked
     \/ stream # None /\ Return /\ leaked' = leaked \union {stream}
  /\ UNCHANGED <<generation, stopRequested, aborted, pcm, buffers, thread, readerVars,
                 arrived, offered, received, ended>>

-----------------------------------------------------------------------------
(* start() after its close().                                              *)

\* The configured device is not there, ambiguous or unsupported, or PortAudio
\* fails; otherwise a new buffer takes the place of the old one.
ChooseDevice ==
  /\ step = "device"
  /\ aborted' = "no" /\ stopRequested' = "clear"
  /\ \/ Return /\ UNCHANGED pcm
     \/ Goto("open") /\ pcm' = generation
  /\ UNCHANGED <<generation, stream, buffers, thread, readerVars, arrived, history>>

OpenStream ==
  /\ step = "open"
  /\ \/ Return /\ pcm' = None /\ UNCHANGED stream
     \/ Goto("begin") /\ stream' = generation /\ UNCHANGED pcm
  /\ UNCHANGED <<generation, stopRequested, aborted, buffers, thread, readerVars, arrived,
                 history>>

BeginStream ==
  /\ step = "begin"
  /\ Return
  /\ thread' = [thread EXCEPT ![generation].at = "idle"]
  /\ reader' = "call"
  /\ UNCHANGED <<attributes, buffers, reading, item, arrived, history>>

\* stream.start() raised: _abandon, whose close of the stream may raise as well.
Abandon ==
  /\ step = "begin"
  /\ Return
  /\ pcm' = None /\ stream' = None
  /\ Update(pcm, Close(buffers[pcm]))
  /\ UNCHANGED <<generation, stopRequested, aborted, thread, readerVars, arrived, history>>

Caller ==
  \/ Stop \/ CloseOrStart \/ CloseQueue \/ Abort \/ Release
  \/ ChooseDevice \/ OpenStream \/ BeginStream \/ Abandon

-----------------------------------------------------------------------------
(* PortAudio's thread of stream s: _on_pcm and _on_finished.               *)

At(s, from) == thread[s].at = from
Move(s, to) == thread' = [thread EXCEPT ![s] = Free(to)]
Hold(s, to) == thread' = [thread EXCEPT ![s].at = to, ![s].pcm = pcm]

\* Mutated form: only a requested stop keeps a callback out.
ListensToAny(s) == stopRequested = "clear"
Listens(s) == generation = s /\ stopRequested = "clear"

Callback(s) ==
  /\ At(s, "idle") /\ arrived < MaxBlocks
  /\ arrived' = arrived + 1
  /\ thread' = IF Listens(s)
               THEN [thread EXCEPT ![s].at = "checked",
                                   ![s].block = [stream |-> s, number |-> arrived']]
               ELSE thread
  /\ UNCHANGED <<attributes, buffers, callVars, readerVars, history>>

\* pcm = self._pcm, which may be another buffer by now.
TakeBuffer(s) ==
  /\ At(s, "checked")
  /\ IF pcm = None THEN Move(s, "idle") ELSE Hold(s, "holding")
  /\ UNCHANGED <<attributes, buffers, callVars, readerVars, arrived, history>>

DeliverBlock(s) ==
  LET r == thread[s].pcm
      block == thread[s].block
  IN
  /\ At(s, "holding") /\ Move(s, "idle")
  /\ Update(r, Put(buffers[r], block))
  /\ offered' = IF buffers[r].ending = "open"
                THEN [offered EXCEPT ![r] = Append(@, block)] ELSE offered
  /\ UNCHANGED <<attributes, callVars, readerVars, arrived, received, ended, leaked>>

\* An input status or an exception fails the capture; an empty block is nothing.
DeliverNone(s) ==
  LET r == thread[s].pcm IN
  /\ At(s, "holding") /\ Move(s, "idle")
  /\ \/ Update(r, Fail(buffers[r], "stream"))
     \/ UNCHANGED buffers
  /\ UNCHANGED <<attributes, callVars, readerVars, arrived, history>>

\* The stream ends: aborted or closed, or by itself.
Finish(s) ==
  /\ At(s, "idle")
  /\ Move(s, IF generation = s THEN "finishing" ELSE "ended")
  /\ UNCHANGED <<attributes, buffers, callVars, readerVars, arrived, history>>

FinishTakes(s) ==
  /\ At(s, "finishing")
  /\ IF pcm = None THEN Move(s, "ended")
     ELSE Hold(s, IF stopRequested = "set" THEN "closing" ELSE "failing")
  /\ UNCHANGED <<attributes, buffers, callVars, readerVars, arrived, history>>

FinishEnds(s) ==
  LET r == thread[s].pcm IN
  /\ Move(s, "ended")
  /\ \/ At(s, "closing") /\ Update(r, Close(buffers[r]))
     \/ At(s, "failing") /\ Update(r, Fail(buffers[r], "stream"))
  /\ UNCHANGED <<attributes, callVars, readerVars, arrived, history>>

InCallback(s) ==
  TakeBuffer(s) \/ DeliverBlock(s) \/ DeliverNone(s) \/ FinishTakes(s) \/ FinishEnds(s)

Thread(s) == Callback(s) \/ Finish(s) \/ InCallback(s)

-----------------------------------------------------------------------------
(* read(), by the capture worker, until it ends.                           *)

\* _pcm is never None here: the worker reads after its start() has returned.
Read ==
  /\ reader = "call"
  /\ reader' = "get" /\ reading' = pcm
  /\ UNCHANGED <<attributes, buffers, callVars, thread, item, arrived, history>>

GetItem ==
  LET b == buffers[reading] IN
  /\ reader = "get" /\ b.queue # << >>
  /\ reader' = "took" /\ item' = Head(b.queue)
  /\ Update(reading, Take(b))
  /\ UNCHANGED <<attributes, callVars, thread, reading, arrived, history>>

ReturnBlock ==
  /\ reader = "took" /\ IsBlock(item)
  /\ reader' = "call" /\ item' = Sentinel
  /\ Update(reading, CountOff(buffers[reading]))
  /\ received' = [received EXCEPT ![reading] = Append(@, item)]
  /\ UNCHANGED <<attributes, callVars, thread, reading, arrived, offered, ended, leaked>>

\* b"" or the failure: the worker leaves.
ReturnEnd ==
  /\ reader = "took" /\ ~IsBlock(item)
  /\ reader' = "out" /\ reading' = None
  /\ Update(reading, RequeueSentinel(buffers[reading]))
  /\ ended' = [ended EXCEPT ![reading] = buffers[reading].failure]
  /\ UNCHANGED <<attributes, callVars, thread, item, arrived, offered, received, leaked>>

Reader == Read \/ GetItem \/ ReturnBlock \/ ReturnEnd

Next == Caller \/ Reader \/ \E s \in Recordings : Thread(s)

Spec == Init /\ [][Next]_vars

\* The worker keeps reading, a callback and the first half of a stop come to their
\* end. Nobody is obliged to bring audio or to stop, and abort() may hang.
FairSpec ==
  /\ Spec
  /\ WF_vars(Reader) /\ WF_vars(CloseQueue)
  /\ \A s \in Recordings : WF_vars(InCallback(s))

-----------------------------------------------------------------------------
Buffers ==
  [queue: Seq(Blocks \union {Sentinel}), depth: Nat, sentinel: {"out", "queued"},
   ending: {"open", "closed"}, failure: Failures]

\* Types, and that a callback holds a buffer exactly when it has one to deliver to.
TypeOK ==
  /\ generation \in 0 .. MaxGeneration
  /\ stopRequested \in {"clear", "set"} /\ aborted \in {"no", "yes"}
  /\ stream \in Recordings \union {None} /\ pcm \in Recordings \union {None}
  /\ buffers \in [Recordings -> Buffers]
  /\ call \in {"none", "stop", "close", "start"}
  /\ step \in {"out", "quiet", "abort", "release", "device", "open", "begin"}
  /\ thread \in [Recordings ->
       [at: {"none", "idle", "checked", "holding", "finishing", "closing", "failing",
             "ended"},
        pcm: Recordings \union {None}, block: Blocks \union {Sentinel}]]
  /\ \A s \in Recordings :
       thread[s].at \in {"holding", "closing", "failing"} <=> thread[s].pcm # None
  /\ reader \in {"out", "call", "get", "took"}
  /\ reading \in Recordings \union {None} /\ item \in Blocks \union {Sentinel}
  /\ arrived \in 0 .. MaxBlocks
  /\ offered \in [Recordings -> Seq(Blocks)] /\ received \in [Recordings -> Seq(Blocks)]
  /\ ended \in [Recordings -> Failures \union {"reading"}]
  /\ leaked \in SUBSET Recordings

InHand(r) == IF reader = "took" /\ reading = r /\ IsBlock(item) THEN <<item>> ELSE << >>

\* A recording is whole: what was read, is in hand and waits is what was brought
\* while it was open, in order and without a gap; only a capture that failed may
\* lack the end of it, and reading ends normally only when nothing lacks.
ReadIsWhole ==
  \A r \in Recordings :
    LET kept == received[r] \o InHand(r) \o Waiting(buffers[r]) IN
    /\ kept = SubSeq(offered[r], 1, Len(kept))
    /\ buffers[r].failure = "none" => kept = offered[r]
    /\ ended[r] = "none" => received[r] = offered[r]

BlocksOf(s, r) == {i \in DOMAIN offered[r] : offered[r][i].stream = s}

\* Audio of one recording does not get into another. Only a stream that could not
\* be closed can add to a later recording, and only the one block of the callback
\* that was running.
RecordingsDoNotMix ==
  \A r, s \in Recordings : s # r =>
    /\ BlocksOf(s, r) # {} => s \in leaked
    /\ \A i, j \in BlocksOf(s, r) : i = j

\* The reserved slot is always there when it is needed: put_nowait(_SENTINEL)
\* cannot raise queue.Full, in _wake_locked nor in get().
SentinelFits ==
  \A r \in Recordings :
    /\ buffers[r].sentinel = "out" => Len(buffers[r].queue) <= Capacity
    /\ Len(buffers[r].queue) <= Capacity + 1

\* A blocked read is released by stop(), even when abort() hangs, and by a stream
\* that ends by itself (sounddevice_backend.py:8-10).
ReadIsReleased ==
  \A r \in Recordings :
    reader # "out" /\ pcm = r /\ (stopRequested = "set" \/ thread[r].at = "ended")
      ~> reader = "out"

=============================================================================
