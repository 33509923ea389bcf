----------------------------- MODULE PcmBuffer ------------------------------
(***************************************************************************)
(* _PcmBuffer of sounddevice_backend.py: the bounded queue between the     *)
(* PortAudio callback, the thread that stops the recording and the capture *)
(* worker. A buffer is a value; put, fail and close are one critical       *)
(* section each. get is two: it takes an item from the queue outside the   *)
(* buffer's lock and settles it under the lock afterwards, so everything   *)
(* else may happen in between.                                             *)
(***************************************************************************)
EXTENDS Naturals, Sequences

CONSTANT Capacity    \* PCM_QUEUE_CAPACITY

ASSUME CapacityAssumption == Capacity \in Nat \ {0}

\* A block is the stream that captured it and its number; streams count from 1.
Sentinel == [stream |-> 0, number |-> 0]
IsBlock(item) == item # Sentinel

Failures == {"none", "overflow", "stream"}

NewBuffer == [queue |-> << >>, depth |-> 0, sentinel |-> "out",
              ending |-> "open", failure |-> "none"]

\* _wake_locked: one sentinel, once, in the slot that data never takes.
Wake(b) ==
  [b EXCEPT !.ending = "closed", !.sentinel = "queued",
            !.queue = IF b.sentinel = "queued" THEN @ ELSE Append(@, Sentinel)]

\* Mutated form: the data may fill the reserved slot as well.
OverflowsLate(b) == b.depth > Capacity
\* Every data slot is taken, or put_nowait would raise queue.Full.
Overflows(b) == b.depth >= Capacity \/ Len(b.queue) > Capacity

\* Mutated form: the oldest block makes room for the new one.
PutDroppingOldest(b, block) ==
  IF b.ending = "closed" \/ b.failure # "none" THEN b
  ELSE [b EXCEPT !.queue = Append(IF Overflows(b) THEN Tail(@) ELSE @, block),
                 !.depth = IF Overflows(b) THEN @ ELSE @ + 1]
Put(b, block) ==
  CASE b.ending = "closed" \/ b.failure # "none" -> b
    [] b.ending = "open" /\ b.failure = "none" /\ Overflows(b) ->
         Wake([b EXCEPT !.failure = "overflow"])
    [] OTHER -> [b EXCEPT !.queue = Append(@, block), !.depth = @ + 1]

Fail(b, e) ==
  IF b.ending = "closed" /\ b.failure = "none" THEN b
  ELSE Wake([b EXCEPT !.failure = IF @ = "none" THEN e ELSE @])

Close(b) == Wake(b)

\* get: an item leaves the queue; a block is counted off; the sentinel goes back,
\* so that every later get ends as well.
Take(b) == [b EXCEPT !.queue = Tail(@)]
CountOff(b) == [b EXCEPT !.depth = @ - 1]
RequeueSentinel(b) ==
  IF b.sentinel = "queued" /\ b.queue = << >>
  THEN [b EXCEPT !.queue = Append(@, Sentinel)] ELSE b

\* The blocks that wait, when the sentinel is where it belongs: behind them.
Waiting(b) ==
  IF b.queue # << >> /\ b.queue[Len(b.queue)] = Sentinel
  THEN SubSeq(b.queue, 1, Len(b.queue) - 1) ELSE b.queue

=============================================================================
