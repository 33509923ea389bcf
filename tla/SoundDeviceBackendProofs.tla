---------------------- MODULE SoundDeviceBackendProofs ----------------------
(***************************************************************************)
(* What the PortAudio backend guarantees for every capacity of the queue,  *)
(* every number of recordings and every number of blocks.                  *)
(***************************************************************************)
EXTENDS SoundDeviceBackend, SequenceTheorems, TLAPS

-----------------------------------------------------------------------------
(* One recording: its buffer, the reader's hand, what was read and brought. *)

\* What the reader has in its hand of recording r.
Hand(r) ==
  IF reader = "took" /\ reading = r
  THEN IF IsBlock(item) THEN "block" ELSE "sentinel" ELSE "nothing"

Held(h, x) == IF h = "block" THEN <<x>> ELSE << >>

\* The sentinel is queued once, behind every block, when the buffer closes; depth
\* counts the blocks that wait or are in the hand.
BufferInv(b, h) ==
  /\ b.sentinel = "out" <=> b.ending = "open"
  /\ b.ending = "open" =>
       /\ b.failure = "none" /\ h # "sentinel" /\ b.depth <= Capacity
       /\ \A i \in 1 .. Len(b.queue) : IsBlock(b.queue[i])
  /\ b.ending = "closed" =>
       /\ \A i \in 1 .. (Len(b.queue) - 1) : IsBlock(b.queue[i])
       /\ h = "sentinel" => b.queue = << >>
       /\ h # "sentinel" => Len(b.queue) > 0 /\ b.queue[Len(b.queue)] = Sentinel
  /\ h = "block" => b.depth = Len(Waiting(b)) + 1
  /\ h # "block" => b.depth = Len(Waiting(b))
  /\ Len(b.queue) <= Capacity + 1

\* b with its failure set; left unexpanded where a proof does not look inside.
Failing(b, e) == [b EXCEPT !.failure = e]

Kept(b, h, x, read) == read \o Held(h, x) \o Waiting(b)

IsPrefix(p, q) == Len(p) <= Len(q) /\ \A i \in 1 .. Len(p) : p[i] = q[i]

\* What was read, is in the hand and waits is a prefix of what was brought.
WholeInv(b, h, x, read, brought, end) ==
  /\ IsPrefix(Kept(b, h, x, read), brought)
  /\ b.failure = "none" => Kept(b, h, x, read) = brought
  /\ end = "none" => read = brought /\ b.ending = "closed"

-----------------------------------------------------------------------------
(* Buffers.                                                                *)

\* The sentinel is no block.
LEMMA SentinelIsNoBlock == \A block \in Blocks : IsBlock(block) /\ block # Sentinel
BY DEF Blocks, Sentinel, IsBlock, Recordings

\* A queue without its last item.
Front(q) == SubSeq(q, 1, Len(q) - 1)

\* In a queue of blocks all of them wait.
LEMMA WaitingBlocks ==
  ASSUME NEW b \in Buffers, \A i \in 1 .. Len(b.queue) : IsBlock(b.queue[i])
  PROVE  Waiting(b) = b.queue
BY DEF Waiting, Buffers, IsBlock

\* Behind the blocks that wait is the sentinel, once it is queued.
LEMMA WaitingEnded ==
  ASSUME NEW b \in Buffers, Len(b.queue) > 0, b.queue[Len(b.queue)] = Sentinel
  PROVE  Waiting(b) = Front(b.queue)
<1>1. b.queue # << >>
  OBVIOUS
<1>. QED
  BY <1>1 DEF Waiting, Front

\* The front of a sequence that grew is the sequence.
LEMMA AppendSubSeq ==
  ASSUME NEW S, NEW q \in Seq(S), NEW x \in S
  PROVE  Front(Append(q, x)) = q
BY DEF Front

\* What is appended to the second of two sequences is appended to both.
LEMMA ConcatAppend ==
  ASSUME NEW S, NEW p \in Seq(S), NEW q \in Seq(S), NEW x \in S
  PROVE  p \o Append(q, x) = Append(p \o q, x)
OBVIOUS

\* A prefix is a subsequence from the first item.
LEMMA PrefixIsSubSeq ==
  ASSUME NEW S, NEW p \in Seq(S), NEW q \in Seq(S), IsPrefix(p, q)
  PROVE  p = SubSeq(q, 1, Len(p))
<1>1. /\ SubSeq(q, 1, Len(p)) \in Seq(S) /\ Len(SubSeq(q, 1, Len(p))) = Len(p)
      /\ \A i \in 1 .. Len(p) : SubSeq(q, 1, Len(p))[i] = q[i]
  BY DEF IsPrefix
<1>. QED
  BY <1>1, SeqEqual DEF IsPrefix

\* Waking closes an open buffer, leaves a closed one as it is, and does not touch
\* the blocks that wait.
LEMMA WakeKeeps ==
  ASSUME NEW b \in Buffers, NEW e \in Failures, NEW h, NEW c,
         BufferInv(b, h), c = Failing(b, e)
  PROVE  /\ Wake(c) \in Buffers /\ BufferInv(Wake(c), h)
         /\ Waiting(Wake(c)) = Waiting(b) /\ Wake(c).ending = "closed"
         /\ Wake(c).failure = e
<1>. DEFINE w == Wake(c)
<1>1. /\ c.queue = b.queue /\ c.sentinel = b.sentinel /\ c.depth = b.depth
      /\ c.failure = e /\ c.ending = b.ending /\ c \in Buffers
  BY DEF Buffers, Failing
<1>2. CASE b.ending = "closed"
  <2>1. w = c /\ w.ending = "closed"
    BY <1>1, <1>2 DEF Wake, BufferInv, Buffers
  <2>2. Waiting(c) = Waiting(b)
    BY <1>1 DEF Waiting
  <2>3. c.ending = "closed"
    BY <2>1
  <2>4. BufferInv(c, h)
    BY <1>1, <1>2, <2>2, <2>3 DEF BufferInv
  <2>. QED
    BY <1>1, <2>1, <2>2, <2>4
<1>3. CASE b.ending = "open"
  <2>1. /\ w.queue = Append(b.queue, Sentinel) /\ w.sentinel = "queued"
        /\ w.ending = "closed" /\ w.depth = b.depth /\ w.failure = e
    BY <1>1, <1>3 DEF Wake, BufferInv, Buffers
  <2>2. b.queue \in Seq(Blocks \union {Sentinel}) /\ b.depth \in Nat
    BY DEF Buffers
  <2>3. w \in Buffers
    <3>1. Append(b.queue, Sentinel) \in Seq(Blocks \union {Sentinel})
      BY <2>2
    <3>2. w = [c EXCEPT !.ending = "closed", !.sentinel = "queued",
                        !.queue = Append(b.queue, Sentinel)]
      BY <1>1, <1>3 DEF Wake, BufferInv, Buffers
    <3>. QED
      BY <1>1, <3>1, <3>2 DEF Buffers
  <2>4. /\ Len(w.queue) = Len(b.queue) + 1 /\ w.queue[Len(w.queue)] = Sentinel
        /\ Len(w.queue) > 0
        /\ \A i \in 1 .. Len(b.queue) : w.queue[i] = b.queue[i]
    BY <2>1, <2>2
  <2>5. Waiting(b) = b.queue
    BY <1>3, WaitingBlocks DEF BufferInv
  <2>6. Waiting(w) = Front(w.queue)
    BY <2>3, <2>4, WaitingEnded
  <2>. HIDE DEF w
  <2>7. Front(w.queue) = b.queue
    BY <2>1, <2>2, AppendSubSeq
  <2>8. Len(b.queue) <= Capacity
    <3>1. b.depth <= Capacity /\ (b.depth = Len(b.queue) \/ b.depth = Len(b.queue) + 1)
      BY <1>3, <2>2, <2>5 DEF BufferInv
    <3>. QED
      BY <2>2, <3>1, CapacityAssumption
  <2>9. BufferInv(w, h)
    BY <1>3, <2>1, <2>2, <2>4, <2>5, <2>6, <2>7, <2>8, CapacityAssumption DEF BufferInv
  <2>. QED
    BY <2>1, <2>3, <2>5, <2>6, <2>7, <2>9 DEF w
<1>. QED
  BY <1>2, <1>3 DEF Buffers

\* A recording that fails or is closed keeps what waits.
LEMMA EndKeeps ==
  ASSUME NEW b \in Buffers, NEW h, NEW x, NEW read, NEW brought, NEW end,
         BufferInv(b, h), WholeInv(b, h, x, read, brought, end),
         NEW c, c = Close(b) \/ c = Fail(b, "stream")
  PROVE  c \in Buffers /\ BufferInv(c, h) /\ WholeInv(c, h, x, read, brought, end)
<1>1. /\ b = Failing(b, b.failure) /\ b.failure \in Failures
      /\ "stream" \in Failures
  BY DEF Buffers, Failures, Failing
<1>2. CASE c = b
  BY <1>2
<1>3. c = b \/ \E e \in Failures :
                 c = Wake(Failing(b, e)) /\ (e = "none" => b.failure = "none")
  <2>1. CASE c = Close(b)
    BY <1>1, <2>1 DEF Close
  <2>2. CASE c = Fail(b, "stream")
    BY <1>1, <2>2 DEF Fail, Failing
  <2>. QED
    BY <2>1, <2>2
<1>. QED
  <2>1. CASE c = b
    BY <1>2, <2>1
  <2>2. CASE c # b
    <3>1. PICK e \in Failures :
            c = Wake(Failing(b, e)) /\ (e = "none" => b.failure = "none")
      BY <1>3, <2>2
    <3>2. /\ c \in Buffers /\ BufferInv(c, h)
          /\ Waiting(c) = Waiting(b) /\ c.ending = "closed" /\ c.failure = e
      BY <3>1, WakeKeeps
    <3>. QED
      BY <3>1, <3>2 DEF WholeInv, Kept
  <2>. QED
    BY <2>1, <2>2

\* A block is brought.
LEMMA PutKeeps ==
  ASSUME NEW b \in Buffers, NEW block \in Blocks, NEW h, NEW x, NEW read \in Seq(Blocks),
         h = "block" => x \in Blocks, NEW brought \in Seq(Blocks), NEW end,
         BufferInv(b, h), WholeInv(b, h, x, read, brought, end)
  PROVE  LET more == IF b.ending = "open" THEN Append(brought, block) ELSE brought IN
         /\ Put(b, block) \in Buffers /\ BufferInv(Put(b, block), h)
         /\ WholeInv(Put(b, block), h, x, read, more, end)
<1>1. b.queue \in Seq(Blocks \union {Sentinel}) /\ b.depth \in Nat /\ b.failure \in Failures
  BY DEF Buffers
<1>2. CASE b.ending = "closed"
  BY <1>2 DEF Put, BufferInv
<1>3. CASE b.ending = "open" /\ Overflows(b)
  <2>1. Put(b, block) = Wake(Failing(b, "overflow"))
    BY <1>3 DEF Put, BufferInv, Failing
  <2>2. IsPrefix(Kept(b, h, x, read), Append(brought, block)) /\ end # "none"
    <3>1. IsPrefix(Kept(b, h, x, read), brought) /\ end # "none"
      BY <1>3 DEF WholeInv
    <3>2. Len(Append(brought, block)) = Len(brought) + 1
      OBVIOUS
    <3>3. \A i \in 1 .. Len(brought) : Append(brought, block)[i] = brought[i]
      OBVIOUS
    <3>. QED
      BY <3>1, <3>2, <3>3, LenProperties DEF IsPrefix
  <2>3. /\ Put(b, block) \in Buffers /\ BufferInv(Put(b, block), h)
        /\ Waiting(Put(b, block)) = Waiting(b) /\ Put(b, block).ending = "closed"
        /\ Put(b, block).failure = "overflow"
    <3>1. "overflow" \in Failures
      BY DEF Failures
    <3>. QED
      BY <2>1, <3>1, WakeKeeps
  <2>4. WholeInv(Put(b, block), h, x, read, Append(brought, block), end)
    BY <2>2, <2>3 DEF WholeInv, Kept
  <2>. QED
    BY <1>3, <2>3, <2>4
<1>4. CASE b.ending = "open" /\ ~Overflows(b)
  <2>. DEFINE c == Put(b, block)
  <2>1. c = [b EXCEPT !.queue = Append(@, block), !.depth = @ + 1]
    BY <1>3, <1>4 DEF Put, BufferInv
  <2>2. /\ c \in Buffers /\ c.queue = Append(b.queue, block) /\ c.depth = b.depth + 1
        /\ c.sentinel = b.sentinel /\ c.ending = "open" /\ c.failure = b.failure
    <3>1. /\ Append(b.queue, block) \in Seq(Blocks \union {Sentinel}) /\ b.depth + 1 \in Nat
          /\ c = [b EXCEPT !.queue = Append(b.queue, block), !.depth = b.depth + 1]
      BY <1>1, <2>1
    <3>. QED
      BY <1>4, <3>1 DEF Buffers
  <2>. HIDE DEF c
  <2>3. b.depth < Capacity /\ Len(b.queue) <= Capacity
    BY <1>1, <1>4, CapacityAssumption DEF Overflows
  <2>4. /\ Len(c.queue) = Len(b.queue) + 1
        /\ \A i \in 1 .. Len(c.queue) : IsBlock(c.queue[i])
    BY <1>1, <1>4, <2>2, SentinelIsNoBlock DEF BufferInv
  <2>5. Waiting(b) = b.queue /\ Waiting(c) = Append(b.queue, block)
    BY <1>4, <2>2, <2>4, WaitingBlocks DEF BufferInv
  <2>6. BufferInv(c, h)
    <3>1. /\ b.sentinel = "out" /\ h # "sentinel"
          /\ h = "block" => b.depth = Len(b.queue) + 1
          /\ h # "block" => b.depth = Len(b.queue)
      BY <1>4, <2>5 DEF BufferInv
    <3>2. /\ h = "block" => c.depth = Len(Waiting(c)) + 1
          /\ h # "block" => c.depth = Len(Waiting(c))
      BY <1>1, <2>2, <2>5, <3>1
    <3>3. c.depth <= Capacity /\ Len(c.queue) <= Capacity + 1 /\ c.failure = "none"
      BY <1>1, <1>4, <2>2, <2>3, <2>4, CapacityAssumption DEF BufferInv
    <3>. QED
      BY <2>2, <2>4, <3>1, <3>2, <3>3 DEF BufferInv
  <2>7. b.queue \in Seq(Blocks)
    BY <1>1, <1>4 DEF BufferInv, IsBlock
  <2>8. Kept(c, h, x, read) = Append(Kept(b, h, x, read), block)
    <3>1. Held(h, x) \in Seq(Blocks)
      BY DEF Held
    <3>2. read \o Held(h, x) \in Seq(Blocks)
      BY <3>1
    <3>3. (read \o Held(h, x)) \o Append(b.queue, block)
            = Append((read \o Held(h, x)) \o b.queue, block)
      <4>. DEFINE p == read \o Held(h, x)
      <4>1. p \in Seq(Blocks)
        BY <3>2
      <4>. HIDE DEF p
      <4>2. p \o Append(b.queue, block) = Append(p \o b.queue, block)
        BY <2>7, <4>1, ConcatAppend
      <4>. QED
        BY <4>2 DEF p
    <3>. QED
      BY <2>5, <3>3 DEF Kept
  <2>9. Kept(b, h, x, read) = brought /\ end # "none"
    BY <1>4 DEF BufferInv, WholeInv
  <2>10. IsPrefix(Append(brought, block), Append(brought, block))
    BY DEF IsPrefix
  <2>. QED
    BY <1>4, <2>2, <2>6, <2>8, <2>9, <2>10 DEF WholeInv, c
<1>. QED
  BY <1>2, <1>3, <1>4 DEF Buffers

\* A queue of blocks begins with a block.
LEMMA QueueOfBlocks ==
  ASSUME NEW q \in Seq(Blocks \union {Sentinel}), Len(q) > 0,
         \A i \in 1 .. Len(q) : IsBlock(q[i])
  PROVE  /\ Head(q) \in Blocks /\ IsBlock(Head(q)) /\ Tail(q) \in Seq(Blocks)
         /\ Len(Tail(q)) = Len(q) - 1
         /\ \A i \in 1 .. Len(Tail(q)) : IsBlock(Tail(q)[i])
         /\ q = <<Head(q)>> \o Tail(q)
<1>1. q \in Seq(Blocks)
  BY DEF IsBlock
<1>2. Head(q) \in Blocks /\ Tail(q) \in Seq(Blocks) /\ Len(Tail(q)) = Len(q) - 1
  BY <1>1
<1>3. Head(q) = q[1] /\ \A i \in 1 .. Len(Tail(q)) : Tail(q)[i] = q[i + 1]
  BY <1>1
<1>4. IsBlock(Head(q)) /\ \A i \in 1 .. Len(Tail(q)) : IsBlock(Tail(q)[i])
  BY <1>2, <1>3
<1>5. q = <<Head(q)>> \o Tail(q)
  BY <1>1
<1>. QED
  BY <1>2, <1>4, <1>5

\* In a queue that ends with the sentinel, the head is a block or all there is.
LEMMA QueueEnds ==
  ASSUME NEW q \in Seq(Blocks \union {Sentinel}), Len(q) > 0,
         \A i \in 1 .. (Len(q) - 1) : IsBlock(q[i]), q[Len(q)] = Sentinel,
         ~IsBlock(Head(q))
  PROVE  Tail(q) = << >> /\ Front(q) = << >>
<1>1. q[1] = Sentinel /\ Len(q) \in Nat
  BY DEF IsBlock
<1>2. ~(Len(q) > 1)
  <2>1. \A i \in 1 .. (Len(q) - 1) : q[i] # Sentinel
    BY DEF IsBlock
  <2>2. SUFFICES ASSUME Len(q) > 1 PROVE FALSE
    OBVIOUS
  <2>3. 1 \in 1 .. (Len(q) - 1)
    BY <2>2
  <2>. QED
    BY <1>1, <2>1, <2>3
<1>3. Front(q) = << >>
  <2>1. Len(q) - 1 \in Int /\ Len(q) - 1 < 1
    BY <1>2
  <2>. QED
    BY <2>1, SubSeqEmpty DEF Front
<1>4. Tail(q) = << >>
  <2>1. Len(q) \in Int /\ Len(q) < 2
    BY <1>2
  <2>2. Tail(q) = SubSeq(q, 2, Len(q))
    BY TailIsSubSeq
  <2>. QED
    BY <2>1, <2>2, SubSeqEmpty
<1>. QED
  BY <1>3, <1>4

\* A block before the sentinel leaves a shorter queue of the same kind.
LEMMA QueueGoesOn ==
  ASSUME NEW q \in Seq(Blocks \union {Sentinel}), Len(q) > 0,
         \A i \in 1 .. (Len(q) - 1) : IsBlock(q[i]), q[Len(q)] = Sentinel,
         IsBlock(Head(q))
  PROVE  /\ Head(q) \in Blocks /\ Tail(q) \in Seq(Blocks \union {Sentinel})
         /\ Len(Tail(q)) = Len(q) - 1 /\ Len(Tail(q)) > 0 /\ Tail(q)[Len(Tail(q))] = Sentinel
         /\ \A i \in 1 .. (Len(Tail(q)) - 1) : IsBlock(Tail(q)[i])
         /\ Front(Tail(q)) \in Seq(Blocks) /\ Len(Front(Tail(q))) = Len(Tail(q)) - 1
         /\ Front(q) = <<Head(q)>> \o Front(Tail(q))
<1>. DEFINE t == Tail(q)
            w == SubSeq(t, 1, Len(t) - 1)
<1>1. /\ Head(q) = q[1] /\ Len(q) \in Nat /\ Head(q) \in Blocks
      /\ t \in Seq(Blocks \union {Sentinel}) /\ Len(t) = Len(q) - 1
      /\ \A i \in 1 .. Len(t) : t[i] = q[i + 1]
  BY DEF IsBlock
<1>2. Len(q) >= 2
  BY <1>1 DEF IsBlock
<1>3. /\ Len(t) > 0 /\ t[Len(t)] = Sentinel
      /\ \A i \in 1 .. (Len(t) - 1) : IsBlock(t[i])
  BY <1>1, <1>2
<1>4. /\ w \in Seq(Blocks) /\ Len(w) = Len(q) - 2
      /\ \A i \in 1 .. (Len(q) - 2) : w[i] = q[i + 1]
  <2>1. \A i \in 1 .. (Len(t) - 1) : t[i] \in Blocks
    BY <1>1, <1>3 DEF IsBlock
  <2>. QED
    BY <1>1, <1>2, <2>1, SubSeqProperties
<1>. DEFINE v == <<Head(q)>> \o w
            u == SubSeq(q, 1, Len(q) - 1)
<1>5. /\ u \in Seq(Blocks \union {Sentinel}) /\ Len(u) = Len(q) - 1
      /\ \A i \in 1 .. (Len(q) - 1) : u[i] = q[i]
  BY <1>2
<1>6. /\ v \in Seq(Blocks \union {Sentinel}) /\ Len(v) = Len(q) - 1 /\ v[1] = Head(q)
      /\ \A i \in 2 .. (Len(q) - 1) : v[i] = w[i - 1]
  BY <1>1, <1>2, <1>4
<1>7. u = v
  <2>. HIDE DEF u, v
  <2>1. \A i \in 1 .. (Len(q) - 1) : u[i] = v[i]
    BY <1>1, <1>2, <1>4, <1>5, <1>6
  <2>. QED
    BY <1>5, <1>6, <2>1, SeqEqual
<1>8. Front(q) = u /\ Front(t) = w
  BY DEF Front
<1>9. Len(t) > 0 /\ Len(w) = Len(t) - 1
  BY <1>1, <1>2, <1>4
<1>10. Front(q) = <<Head(q)>> \o Front(t)
  BY <1>7, <1>8
<1>11. Front(t) \in Seq(Blocks) /\ Len(Front(t)) = Len(t) - 1
  BY <1>4, <1>8, <1>9
<1>. HIDE DEF u, v, w
<1>. QED
  BY <1>1, <1>3, <1>9, <1>10, <1>11

\* What is left of a buffer from which an item was taken.
LEMMA TakeShape ==
  ASSUME NEW b \in Buffers, b.queue # << >>, NEW t, t = Take(b)
  PROVE  /\ t \in Buffers /\ t.queue = Tail(b.queue) /\ t.depth = b.depth
         /\ t.ending = b.ending /\ t.sentinel = b.sentinel /\ t.failure = b.failure
         /\ b.queue \in Seq(Blocks \union {Sentinel}) /\ b.depth \in Nat
<1>1. b.queue \in Seq(Blocks \union {Sentinel}) /\ b.depth \in Nat
  BY DEF Buffers
<1>2. Tail(b.queue) \in Seq(Blocks \union {Sentinel})
  BY <1>1, HeadTailProperties
<1>. QED
  BY <1>1, <1>2 DEF Take, Buffers

\* The reader takes a block.
LEMMA TakeBlock ==
  ASSUME NEW b \in Buffers, b.queue # << >>, IsBlock(Head(b.queue)),
         BufferInv(b, "nothing"), NEW t, t = Take(b)
  PROVE  /\ Head(b.queue) \in Blocks /\ t \in Buffers /\ BufferInv(t, "block")
         /\ Waiting(b) = <<Head(b.queue)>> \o Waiting(t) /\ t.failure = b.failure
         /\ Waiting(t) \in Seq(Blocks)
<1>. DEFINE q == b.queue
<1>1. /\ q \in Seq(Blocks \union {Sentinel}) /\ Len(q) > 0 /\ b.depth \in Nat
      /\ IsBlock(Head(q))
  BY DEF Buffers
<1>2. /\ t \in Buffers /\ t.queue = Tail(q) /\ t.depth = b.depth /\ t.ending = b.ending
      /\ t.sentinel = b.sentinel /\ t.failure = b.failure
  BY TakeShape
<1>3. b.depth = Len(Waiting(b)) /\ Len(q) <= Capacity + 1
  BY DEF BufferInv
<1>. HIDE DEF q
<1>4. CASE b.ending = "open"
  <2>1. \A i \in 1 .. Len(q) : IsBlock(q[i])
    BY <1>4 DEF BufferInv, q
  <2>2. /\ Head(q) \in Blocks /\ Tail(q) \in Seq(Blocks) /\ Len(Tail(q)) = Len(q) - 1
        /\ \A i \in 1 .. Len(Tail(q)) : IsBlock(Tail(q)[i])
        /\ q = <<Head(q)>> \o Tail(q)
    BY <1>1, <2>1, QueueOfBlocks
  <2>3. Waiting(b) = q /\ Waiting(t) = Tail(q)
    BY <1>2, <2>1, <2>2, WaitingBlocks DEF q
  <2>4. b.depth = Len(Tail(q)) + 1 /\ Len(Tail(q)) <= Capacity + 1
    BY <1>1, <1>3, <2>2, <2>3, CapacityAssumption
  <2>5. BufferInv(t, "block")
    BY <1>2, <1>4, <2>2, <2>3, <2>4 DEF BufferInv
  <2>. QED
    BY <1>2, <2>2, <2>3, <2>5 DEF q
<1>5. CASE b.ending = "closed"
  <2>. DEFINE r == Tail(q)
              w == Front(r)
  <2>1. (\A i \in 1 .. (Len(q) - 1) : IsBlock(q[i])) /\ q[Len(q)] = Sentinel
    BY <1>5 DEF BufferInv, q
  <2>2. r = Tail(q) /\ w = Front(r) /\ t.queue = r
    BY <1>2
  <2>3. /\ Head(q) \in Blocks /\ r \in Seq(Blocks \union {Sentinel}) /\ Len(r) = Len(q) - 1
        /\ Len(r) > 0 /\ r[Len(r)] = Sentinel /\ \A i \in 1 .. (Len(r) - 1) : IsBlock(r[i])
        /\ w \in Seq(Blocks) /\ Len(w) = Len(r) - 1
        /\ Front(q) = <<Head(q)>> \o w
    BY <1>1, <2>1, QueueGoesOn
  <2>. HIDE DEF r, w
  <2>4. Waiting(b) = Front(q) /\ Waiting(t) = w
    <3>1. Len(b.queue) > 0 /\ b.queue[Len(b.queue)] = Sentinel
      BY <1>1, <2>1, Zenon DEF q
    <3>2. Len(t.queue) > 0 /\ t.queue[Len(t.queue)] = Sentinel /\ t \in Buffers
      BY <1>2, <2>2, <2>3
    <3>3. Waiting(t) = Front(t.queue)
      BY <3>2, WaitingEnded
    <3>4. Waiting(b) = Front(b.queue)
      BY <3>1, WaitingEnded
    <3>. QED
      BY <2>2, <3>3, <3>4 DEF q
  <2>5. Len(<<Head(q)>> \o w) = Len(w) + 1
    BY <2>3
  <2>6. b.depth = Len(w) + 1 /\ Len(r) <= Capacity + 1
    BY <1>1, <1>3, <2>3, <2>4, <2>5, CapacityAssumption
  <2>7. BufferInv(t, "block")
    BY <1>2, <1>5, <2>2, <2>3, <2>4, <2>6 DEF BufferInv
  <2>. QED
    BY <1>2, <2>3, <2>4, <2>7 DEF q
<1>. QED
  BY <1>4, <1>5 DEF Buffers

\* The reader takes the sentinel.
LEMMA TakeSentinel ==
  ASSUME NEW b \in Buffers, NEW q, q = b.queue, q # << >>, ~IsBlock(Head(q)),
         BufferInv(b, "nothing"), NEW t, t = Take(b)
  PROVE  /\ t \in Buffers /\ BufferInv(t, "sentinel")
         /\ Waiting(b) = << >> /\ Waiting(t) = << >> /\ t.failure = b.failure
<1>1. q \in Seq(Blocks \union {Sentinel}) /\ Len(q) > 0 /\ b.depth \in Nat
  BY DEF Buffers
<1>2. /\ t \in Buffers /\ t.queue = Tail(q) /\ t.depth = b.depth /\ t.ending = b.ending
      /\ t.sentinel = b.sentinel /\ t.failure = b.failure
  BY TakeShape
<1>3. b.ending = "closed"
  <2>1. CASE b.ending = "open"
    <3>1. \A i \in 1 .. Len(q) : IsBlock(q[i])
      BY <2>1 DEF BufferInv
    <3>. QED
      BY <1>1, <3>1, QueueOfBlocks
  <2>. QED
    BY <2>1 DEF Buffers
<1>4. (\A i \in 1 .. (Len(q) - 1) : IsBlock(q[i])) /\ q[Len(q)] = Sentinel
  BY <1>3 DEF BufferInv
<1>5. Tail(q) = << >> /\ Front(q) = << >>
  BY <1>1, <1>4, QueueEnds
<1>6. Waiting(b) = << >>
  BY <1>1, <1>4, <1>5, WaitingEnded
<1>7. Waiting(t) = << >>
  BY <1>2, <1>5 DEF Waiting
<1>8. BufferInv(t, "sentinel")
  BY <1>2, <1>3, <1>5, <1>6, <1>7, CapacityAssumption DEF BufferInv
<1>. QED
  BY <1>2, <1>6, <1>7, <1>8

\* Only blocks wait.
LEMMA WaitingIsBlocks ==
  ASSUME NEW b \in Buffers, NEW h, h # "sentinel", BufferInv(b, h)
  PROVE  Waiting(b) \in Seq(Blocks)
<1>. DEFINE q == b.queue
<1>1. q \in Seq(Blocks \union {Sentinel})
  BY DEF Buffers
<1>2. CASE b.ending = "open"
  <2>1. \A i \in 1 .. Len(q) : IsBlock(q[i])
    BY <1>2 DEF BufferInv
  <2>2. q \in Seq(Blocks)
    <3>. HIDE DEF q
    <3>. QED
      BY <1>1, <2>1 DEF IsBlock
  <2>. QED
    BY <2>1, <2>2, WaitingBlocks
<1>3. CASE b.ending = "closed"
  <2>1. /\ \A i \in 1 .. (Len(q) - 1) : IsBlock(q[i])
        /\ Len(b.queue) > 0 /\ b.queue[Len(b.queue)] = Sentinel
    BY <1>3 DEF BufferInv
  <2>2. Front(q) \in Seq(Blocks)
    <3>. HIDE DEF q
    <3>1. \A i \in 1 .. (Len(q) - 1) : q[i] \in Blocks
      BY <1>1, <2>1 DEF IsBlock
    <3>. QED
      BY <1>1, <3>1, SubSeqProperties DEF Front
  <2>3. Waiting(b) = Front(b.queue)
    BY <2>1, WaitingEnded
  <2>. QED
    BY <2>2, <2>3
<1>. QED
  BY <1>2, <1>3 DEF Buffers

\* Taking an item moves it from those that wait into the hand.
LEMMA TakeKeeps ==
  ASSUME NEW b \in Buffers, b.queue # << >>, NEW x, NEW read \in Seq(Blocks),
         NEW brought, NEW end,
         BufferInv(b, "nothing"), WholeInv(b, "nothing", x, read, brought, end),
         NEW t, t = Take(b), NEW y, y = Head(b.queue),
         NEW h, h = IF IsBlock(y) THEN "block" ELSE "sentinel"
  PROVE  t \in Buffers /\ BufferInv(t, h) /\ WholeInv(t, h, y, read, brought, end)
<1>1. t.ending = b.ending
  BY TakeShape
<1>2. CASE IsBlock(y)
  <2>1. /\ y \in Blocks /\ t \in Buffers /\ BufferInv(t, "block") /\ t.failure = b.failure
        /\ Waiting(b) = <<y>> \o Waiting(t) /\ Waiting(t) \in Seq(Blocks)
    BY <1>2, TakeBlock
  <2>2. read \o (<<y>> \o Waiting(t)) = (read \o <<y>>) \o Waiting(t)
    BY <2>1
  <2>3. read \o << >> = read
    OBVIOUS
  <2>4. Kept(t, "block", y, read) = Kept(b, "nothing", x, read)
    BY <2>1, <2>2, <2>3 DEF Kept, Held
  <2>. QED
    BY <1>1, <1>2, <2>1, <2>4 DEF WholeInv
<1>3. CASE ~IsBlock(y)
  <2>1. /\ t \in Buffers /\ BufferInv(t, "sentinel") /\ t.failure = b.failure
        /\ Waiting(b) = << >> /\ Waiting(t) = << >>
    BY <1>3, TakeSentinel
  <2>2. Kept(t, "sentinel", y, read) = Kept(b, "nothing", x, read)
    BY <2>1 DEF Kept, Held
  <2>. QED
    BY <1>1, <1>3, <2>1, <2>2 DEF WholeInv
<1>. QED
  BY <1>2, <1>3

\* The block in the hand is returned.
LEMMA CountOffKeeps ==
  ASSUME NEW b \in Buffers, NEW x \in Blocks, NEW read \in Seq(Blocks),
         NEW brought \in Seq(Blocks), NEW end, Waiting(b) \in Seq(Blocks),
         BufferInv(b, "block"), WholeInv(b, "block", x, read, brought, end),
         NEW c, c = CountOff(b), NEW y
  PROVE  /\ c \in Buffers /\ BufferInv(c, "nothing")
         /\ WholeInv(c, "nothing", y, Append(read, x), brought, end)
<1>1. b.depth = Len(Waiting(b)) + 1 /\ Len(Waiting(b)) \in Nat /\ b.depth - 1 = Len(Waiting(b))
  BY DEF BufferInv
<1>2. /\ c \in Buffers /\ c.queue = b.queue /\ c.depth = Len(Waiting(b))
      /\ c.ending = b.ending /\ c.sentinel = b.sentinel /\ c.failure = b.failure
  BY <1>1 DEF CountOff, Buffers
<1>3. Waiting(c) = Waiting(b)
  BY <1>2 DEF Waiting
<1>4. BufferInv(c, "nothing")
  BY <1>1, <1>2, <1>3, CapacityAssumption DEF BufferInv
<1>5. Kept(b, "block", x, read) = Kept(c, "nothing", y, Append(read, x))
  BY <1>3 DEF Kept, Held
<1>6. end # "none"
  <2>1. Len(Kept(b, "block", x, read)) > Len(read)
    BY DEF Kept, Held
  <2>2. IsPrefix(Kept(b, "block", x, read), brought)
    BY DEF WholeInv
  <2>. QED
    BY <2>1, <2>2 DEF WholeInv, IsPrefix
<1>. QED
  BY <1>2, <1>4, <1>5, <1>6 DEF WholeInv

\* The sentinel goes back and the reading ends with what the buffer says.
LEMMA RequeueKeeps ==
  ASSUME NEW b \in Buffers, NEW x, NEW read \in Seq(Blocks),
         NEW brought \in Seq(Blocks), NEW end,
         BufferInv(b, "sentinel"), WholeInv(b, "sentinel", x, read, brought, end),
         NEW c, c = RequeueSentinel(b), NEW y
  PROVE  /\ c \in Buffers /\ BufferInv(c, "nothing")
         /\ WholeInv(c, "nothing", y, read, brought, b.failure)
<1>1. /\ b.ending = "closed" /\ b.sentinel = "queued" /\ b.queue = << >> /\ b.depth \in Nat
      /\ b.depth = Len(Waiting(b))
  BY DEF BufferInv, Buffers
<1>2. <<Sentinel>> \in Seq(Blocks \union {Sentinel})
  OBVIOUS
<1>3. /\ c \in Buffers /\ c.queue = <<Sentinel>> /\ c.depth = b.depth
      /\ c.ending = "closed" /\ c.sentinel = "queued" /\ c.failure = b.failure
  <2>1. c = [b EXCEPT !.queue = Append(<< >>, Sentinel)]
    BY <1>1 DEF RequeueSentinel
  <2>2. c = [b EXCEPT !.queue = <<Sentinel>>]
    BY <2>1
  <2>. QED
    BY <1>1, <1>2, <2>2 DEF Buffers
<1>4. Waiting(b) = << >>
  BY <1>1 DEF Waiting
<1>5. Waiting(c) = << >>
  <2>1. Len(<<Sentinel>>) = 1 /\ <<Sentinel>>[1] = Sentinel /\ <<Sentinel>> # << >>
    OBVIOUS
  <2>2. Waiting(c) = SubSeq(<<Sentinel>>, 1, 0)
    BY <1>3, <2>1 DEF Waiting
  <2>. QED
    BY <2>2, SubSeqEmpty
<1>6. BufferInv(c, "nothing")
  <2>1. /\ Len(c.queue) > 0 /\ c.queue[Len(c.queue)] = Sentinel
        /\ \A i \in 1 .. (Len(c.queue) - 1) : IsBlock(c.queue[i])
        /\ Len(c.queue) <= Capacity + 1
    BY <1>3, CapacityAssumption
  <2>2. c.depth = Len(Waiting(c))
    BY <1>1, <1>3, <1>4, <1>5
  <2>. QED
    BY <1>3, <2>1, <2>2, Zenon DEF BufferInv
<1>7. Kept(b, "sentinel", x, read) = read /\ Kept(c, "nothing", y, read) = read
  BY <1>4, <1>5 DEF Kept, Held
<1>. QED
  BY <1>3, <1>6, <1>7 DEF WholeInv

-----------------------------------------------------------------------------
(* The inductive invariant.                                                *)

\* Where a call can be, what it has in the meantime, and that no worker reads while
\* the backend is started or closed.
ControlInv ==
  /\ step = "out" <=> call = "none"
  /\ step \in {"release", "device", "open", "begin"} => call \in {"close", "start"}
  /\ step \in {"device", "open", "begin"} => call = "start"
  /\ call \in {"close", "start"} => generation # 0 /\ reader = "out"
  /\ call \in {"close", "start"} /\ step \in {"quiet", "abort", "release"} =>
       stream < generation
  /\ step \in {"device", "open"} => stream = None
  /\ step \in {"open", "begin"} => pcm = generation
  /\ step = "begin" => stream = generation
  /\ stream <= generation
  /\ reader # "out" => pcm # None
  /\ reader \in {"get", "took"} => reading # None

RecordingInv(r) ==
  /\ BufferInv(buffers[r], Hand(r))
  /\ WholeInv(buffers[r], Hand(r), item, received[r], offered[r], ended[r])

Whole == buffers \in [Recordings -> Buffers] /\ \A r \in Recordings : RecordingInv(r)

Alive(s) == thread[s].at \notin {"none", "ended"}
Brings(s) == thread[s].at \in {"checked", "holding"}

\* A stream that lives and was not leaked is the backend's, and so is its buffer;
\* a leaked one is of an earlier generation, and no stream is ahead of it.
OwnerInv ==
  /\ \A s \in Recordings : Alive(s) /\ s \notin leaked => stream = s /\ pcm = s
  /\ \A s \in leaked : s < generation
  /\ \A s \in Recordings :
       s > generation \/ (s = generation /\ call = "start") => thread[s].at = "none"

\* A thread holds its own block, and the buffer of another recording only if leaked.
HoldInv ==
  /\ \A s \in Recordings : Brings(s) => thread[s].block.stream = s
  /\ \A s \in Recordings : thread[s].pcm \in {s, None} \/ s \in leaked

\* A block got into another recording only from a leaked stream, which brings no other.
MixInv ==
  \A r, s \in Recordings : s # r =>
    /\ BlocksOf(s, r) # {} => s \in leaked /\ ~Brings(s)
    /\ \A i, j \in BlocksOf(s, r) : i = j

IInv ==
  /\ TypeOK
  /\ ControlInv
  /\ Whole
  /\ OwnerInv
  /\ HoldInv
  /\ MixInv

-----------------------------------------------------------------------------
(* Recordings: one buffer changes in a step, or none.                      *)

Histories ==
  offered \in [Recordings -> Seq(Blocks)] /\ received \in [Recordings -> Seq(Blocks)]

\* What is in the hand matters only when it is a block.
LEMMA HandOfAnother ==
  ASSUME NEW b, NEW h, h # "block", NEW x, NEW y, NEW read, NEW brought, NEW end,
         WholeInv(b, h, x, read, brought, end)
  PROVE  WholeInv(b, h, y, read, brought, end)
BY DEF WholeInv, Kept, Held

\* No buffer changes and the hand stays as it is.
LEMMA NoneChanges ==
  ASSUME Whole,
         UNCHANGED <<buffers, offered, received, ended, item>>,
         \A r \in Recordings : Hand(r)' = Hand(r)
  PROVE  Whole'
BY DEF Whole, RecordingInv

\* The buffer of one recording changes and keeps what is to be kept.
LEMMA OneChanges ==
  ASSUME Whole, NEW r0 \in Recordings, NEW c \in Buffers,
         buffers' = [buffers EXCEPT ![r0] = c],
         \A r \in Recordings \ {r0} :
           /\ \/ Hand(r) = "nothing" /\ Hand(r)' = "nothing"
              \/ Hand(r)' = Hand(r) /\ item' = item
           /\ offered'[r] = offered[r] /\ received'[r] = received[r] /\ ended'[r] = ended[r],
         BufferInv(c, Hand(r0)'),
         WholeInv(c, Hand(r0)', item', received'[r0], offered'[r0], ended'[r0])
  PROVE  Whole'
<1>1. buffers' \in [Recordings -> Buffers] /\ buffers'[r0] = c
  BY DEF Whole
<1>2. ASSUME NEW r \in Recordings, r # r0 PROVE RecordingInv(r)'
  <2>1. /\ BufferInv(buffers[r], Hand(r))
        /\ WholeInv(buffers[r], Hand(r), item, received[r], offered[r], ended[r])
    BY DEF Whole, RecordingInv
  <2>2. buffers'[r] = buffers[r]
    BY <1>2 DEF Whole
  <2>3. WholeInv(buffers[r], Hand(r)', item', received[r], offered[r], ended[r])
    BY <1>2, <2>1, HandOfAnother
  <2>. QED
    BY <1>2, <2>1, <2>2, <2>3 DEF RecordingInv
<1>3. RecordingInv(r0)'
  BY <1>1 DEF RecordingInv
<1>. QED
  BY <1>1, <1>2, <1>3 DEF Whole

\* A buffer is closed or fails.
LEMMA OneEnds ==
  ASSUME Whole, NEW r0 \in Recordings,
         NEW c, c = Close(buffers[r0]) \/ c = Fail(buffers[r0], "stream"),
         buffers' = [buffers EXCEPT ![r0] = c],
         UNCHANGED <<offered, received, ended, item>>,
         \A r \in Recordings : Hand(r)' = Hand(r)
  PROVE  Whole'
<1>1. /\ buffers[r0] \in Buffers /\ BufferInv(buffers[r0], Hand(r0))
      /\ WholeInv(buffers[r0], Hand(r0), item, received[r0], offered[r0], ended[r0])
  BY DEF Whole, RecordingInv
<1>2. /\ c \in Buffers /\ BufferInv(c, Hand(r0))
      /\ WholeInv(c, Hand(r0), item, received[r0], offered[r0], ended[r0])
  BY <1>1, EndKeeps
<1>3. \A r \in Recordings \ {r0} : Hand(r)' = Hand(r) /\ item' = item
  OBVIOUS
<1>4. /\ BufferInv(c, Hand(r0)')
      /\ WholeInv(c, Hand(r0)', item', received'[r0], offered'[r0], ended'[r0])
  BY <1>2
<1>. QED
  BY <1>2, <1>3, <1>4, OneChanges

\* A thread that brings a block holds it.
LEMMA BringsBlock ==
  ASSUME TypeOK, HoldInv, NEW s \in Recordings, Brings(s)
  PROVE  thread[s].block \in Blocks
<1>1. thread[s].block.stream = s /\ s # 0
  BY DEF HoldInv, Recordings
<1>2. thread[s].block \in Blocks \union {Sentinel}
  BY DEF TypeOK
<1>. QED
  BY <1>1, <1>2 DEF Sentinel

\* A block is brought to the buffer that its thread holds.
LEMMA OneIsBrought ==
  ASSUME TypeOK, HoldInv, Whole, NEW s \in Recordings, DeliverBlock(s)
  PROVE  Whole' /\ Histories'
<1>1. PICK r0 \in Recordings : r0 = thread[s].pcm
  BY DEF TypeOK, DeliverBlock, At
<1>. DEFINE block == thread[s].block
            c == Put(buffers[r0], block)
            more == IF buffers[r0].ending = "open" THEN Append(offered[r0], block) ELSE offered[r0]
<1>2. block \in Blocks
  BY BringsBlock DEF DeliverBlock, At, Brings
<1>3. /\ buffers' = [buffers EXCEPT ![r0] = c]
      /\ offered' = [offered EXCEPT ![r0] = more]
      /\ UNCHANGED <<received, ended, item>> /\ \A r \in Recordings : Hand(r)' = Hand(r)
  BY <1>1 DEF TypeOK, DeliverBlock, Update, readerVars, Hand
<1>4. /\ buffers[r0] \in Buffers /\ BufferInv(buffers[r0], Hand(r0))
      /\ WholeInv(buffers[r0], Hand(r0), item, received[r0], offered[r0], ended[r0])
      /\ received[r0] \in Seq(Blocks) /\ offered[r0] \in Seq(Blocks)
  BY <1>1 DEF Whole, RecordingInv, TypeOK
<1>5. Hand(r0) = "block" => item \in Blocks
  BY DEF Hand, TypeOK, IsBlock
<1>. HIDE DEF block
<1>6. /\ c \in Buffers /\ BufferInv(c, Hand(r0))
      /\ WholeInv(c, Hand(r0), item, received[r0], more, ended[r0])
  <2>1. more = IF buffers[r0].ending = "open" THEN Append(offered[r0], block) ELSE offered[r0]
    OBVIOUS
  <2>2. c = Put(buffers[r0], block)
    OBVIOUS
  <2>. HIDE DEF c, more
  <2>. QED
    BY <1>2, <1>4, <1>5, <2>1, <2>2, PutKeeps
<1>7. more \in Seq(Blocks)
  BY <1>2, <1>4
<1>. HIDE DEF c, more
<1>8. /\ offered' \in [Recordings -> Seq(Blocks)] /\ offered'[r0] = more
      /\ \A r \in Recordings \ {r0} : offered'[r] = offered[r]
  BY <1>1, <1>3, <1>7 DEF TypeOK
<1>9. /\ BufferInv(c, Hand(r0)')
      /\ WholeInv(c, Hand(r0)', item', received'[r0], offered'[r0], ended'[r0])
  BY <1>1, <1>3, <1>6, <1>8
<1>10. Whole'
  BY <1>1, <1>3, <1>6, <1>8, <1>9, OneChanges
<1>. QED
  BY <1>3, <1>8, <1>10 DEF Histories, TypeOK

\* The reader takes an item.
LEMMA OneIsTaken ==
  ASSUME TypeOK, ControlInv, Whole, GetItem
  PROVE  Whole'
<1>1. PICK r0 \in Recordings : r0 = reading
  BY DEF TypeOK, ControlInv, GetItem
<1>. DEFINE b == buffers[r0]
            t == Take(b)
            y == Head(b.queue)
            h == IF IsBlock(y) THEN "block" ELSE "sentinel"
<1>2. /\ b.queue # << >> /\ item' = y /\ buffers' = [buffers EXCEPT ![r0] = t]
      /\ UNCHANGED <<offered, received, ended>>
      /\ Hand(r0) = "nothing" /\ Hand(r0)' = h
      /\ \A r \in Recordings \ {r0} : Hand(r) = "nothing" /\ Hand(r)' = "nothing"
  <2>1. /\ reader = "get" /\ b.queue # << >> /\ reader' = "took" /\ item' = y
        /\ buffers' = [buffers EXCEPT ![r0] = t] /\ reading = r0 /\ reading' = r0
        /\ UNCHANGED <<offered, received, ended>>
    BY <1>1 DEF GetItem, Update, history
  <2>. HIDE DEF b, t, y
  <2>. QED
    BY <2>1 DEF Hand
<1>3. /\ b \in Buffers /\ BufferInv(b, "nothing")
      /\ WholeInv(b, "nothing", item, received[r0], offered[r0], ended[r0])
      /\ received[r0] \in Seq(Blocks)
  BY <1>2 DEF Whole, RecordingInv, TypeOK
<1>4. /\ t \in Buffers /\ BufferInv(t, h)
      /\ WholeInv(t, h, y, received[r0], offered[r0], ended[r0])
  BY <1>2, <1>3, TakeKeeps
<1>. HIDE DEF b, t, y, h
<1>5. /\ BufferInv(t, Hand(r0)')
      /\ WholeInv(t, Hand(r0)', item', received'[r0], offered'[r0], ended'[r0])
  BY <1>2, <1>4
<1>. QED
  BY <1>2, <1>4, <1>5, OneChanges

\* The reader returns a block.
LEMMA OneIsReturned ==
  ASSUME TypeOK, ControlInv, Whole, ReturnBlock
  PROVE  Whole' /\ Histories'
<1>1. PICK r0 \in Recordings : r0 = reading
  BY DEF TypeOK, ControlInv, ReturnBlock
<1>. DEFINE b == buffers[r0]
            c == CountOff(b)
<1>2. /\ item' = Sentinel /\ buffers' = [buffers EXCEPT ![r0] = c]
      /\ UNCHANGED <<offered, ended>> /\ Hand(r0) = "block" /\ Hand(r0)' = "nothing"
      /\ \A r \in Recordings \ {r0} : Hand(r) = "nothing" /\ Hand(r)' = "nothing"
  BY <1>1 DEF ReturnBlock, Update, Hand
<1>3. /\ item \in Blocks /\ b \in Buffers /\ BufferInv(b, "block")
      /\ WholeInv(b, "block", item, received[r0], offered[r0], ended[r0])
      /\ received[r0] \in Seq(Blocks) /\ offered[r0] \in Seq(Blocks)
  BY <1>2 DEF Whole, RecordingInv, TypeOK, ReturnBlock, IsBlock
<1>4. Waiting(b) \in Seq(Blocks)
  BY <1>3, WaitingIsBlocks
<1>5. /\ c \in Buffers /\ BufferInv(c, "nothing")
      /\ WholeInv(c, "nothing", Sentinel, Append(received[r0], item), offered[r0], ended[r0])
  BY <1>3, <1>4, CountOffKeeps
<1>6. /\ received' \in [Recordings -> Seq(Blocks)]
      /\ received'[r0] = Append(received[r0], item)
      /\ \A r \in Recordings \ {r0} : received'[r] = received[r]
  BY <1>1, <1>3 DEF ReturnBlock, TypeOK
<1>. HIDE DEF b, c
<1>7. /\ BufferInv(c, Hand(r0)')
      /\ WholeInv(c, Hand(r0)', item', received'[r0], offered'[r0], ended'[r0])
  BY <1>2, <1>5, <1>6
<1>8. Whole'
  BY <1>2, <1>5, <1>6, <1>7, OneChanges
<1>. QED
  BY <1>2, <1>6, <1>8 DEF Histories, TypeOK

\* The reading ends.
LEMMA OneIsEnded ==
  ASSUME TypeOK, ControlInv, Whole, ReturnEnd
  PROVE  Whole' /\ ended' \in [Recordings -> Failures \union {"reading"}]
<1>1. PICK r0 \in Recordings : r0 = reading
  BY DEF TypeOK, ControlInv, ReturnEnd
<1>. DEFINE b == buffers[r0]
            c == RequeueSentinel(b)
<1>2. /\ item' = item /\ buffers' = [buffers EXCEPT ![r0] = c]
      /\ ended' = [ended EXCEPT ![r0] = b.failure]
      /\ UNCHANGED <<offered, received>> /\ Hand(r0) = "sentinel" /\ Hand(r0)' = "nothing"
      /\ \A r \in Recordings \ {r0} : Hand(r) = "nothing" /\ Hand(r)' = "nothing"
  BY <1>1 DEF ReturnEnd, Update, Hand
<1>3. /\ b \in Buffers /\ BufferInv(b, "sentinel") /\ b.failure \in Failures
      /\ WholeInv(b, "sentinel", item, received[r0], offered[r0], ended[r0])
      /\ received[r0] \in Seq(Blocks) /\ offered[r0] \in Seq(Blocks)
  BY <1>2 DEF Whole, RecordingInv, TypeOK, Buffers
<1>4. /\ c \in Buffers /\ BufferInv(c, "nothing")
      /\ WholeInv(c, "nothing", item, received[r0], offered[r0], b.failure)
  BY <1>3, RequeueKeeps
<1>5. /\ ended' \in [Recordings -> Failures \union {"reading"}] /\ ended'[r0] = b.failure
      /\ \A r \in Recordings \ {r0} : ended'[r] = ended[r]
  BY <1>2, <1>3 DEF TypeOK
<1>. HIDE DEF b, c
<1>6. /\ BufferInv(c, Hand(r0)')
      /\ WholeInv(c, Hand(r0)', item', received'[r0], offered'[r0], ended'[r0])
  BY <1>2, <1>4, <1>5
<1>7. Whole'
  BY <1>2, <1>4, <1>5, <1>6, OneChanges
<1>. QED
  BY <1>5, <1>7

\* Every step keeps the recordings whole.
LEMMA WholeStep ==
  ASSUME TypeOK, ControlInv, HoldInv, Whole, Next
  PROVE  Whole'
<1>1. CASE Stop
  BY <1>1, NoneChanges DEF Stop, history, readerVars, Hand
<1>2. CASE CloseOrStart
  BY <1>2, NoneChanges DEF CloseOrStart, history, readerVars, Hand
<1>3. CASE CloseQueue
  <2>1. UNCHANGED <<offered, received, ended, item>> /\ \A r \in Recordings : Hand(r)' = Hand(r)
    BY <1>3 DEF CloseQueue, history, readerVars, Hand
  <2>2. CASE pcm = None
    BY <1>3, <2>1, <2>2, NoneChanges DEF CloseQueue
  <2>3. CASE pcm # None
    <3>1. PICK r0 \in Recordings : r0 = pcm
      BY <2>3 DEF TypeOK
    <3>2. buffers' = [buffers EXCEPT ![r0] = Close(buffers[r0])]
      BY <1>3, <2>3, <3>1 DEF CloseQueue, Update
    <3>. QED
      BY <2>1, <3>2, OneEnds
  <2>. QED
    BY <2>2, <2>3
<1>4. CASE Abort
  BY <1>4, NoneChanges DEF Abort, history, readerVars, Hand
<1>5. CASE Release
  BY <1>5, NoneChanges DEF Release, readerVars, Hand
<1>6. CASE ChooseDevice
  BY <1>6, NoneChanges DEF ChooseDevice, history, readerVars, Hand
<1>7. CASE OpenStream
  BY <1>7, NoneChanges DEF OpenStream, history, readerVars, Hand
<1>8. CASE BeginStream
  <2>1. \A r \in Recordings : Hand(r) = "nothing" /\ Hand(r)' = "nothing"
    BY <1>8 DEF BeginStream, ControlInv, Hand
  <2>. QED
    BY <1>8, <2>1, NoneChanges DEF BeginStream, history
<1>9. CASE Abandon
  <2>1. PICK r0 \in Recordings : r0 = pcm
    BY <1>9 DEF Abandon, ControlInv, TypeOK, None
  <2>2. /\ buffers' = [buffers EXCEPT ![r0] = Close(buffers[r0])]
        /\ UNCHANGED <<offered, received, ended, item>>
        /\ \A r \in Recordings : Hand(r)' = Hand(r)
    BY <1>9, <2>1 DEF Abandon, Update, history, readerVars, Hand
  <2>. QED
    BY <2>2, OneEnds
<1>10. ASSUME NEW s \in Recordings, Thread(s) PROVE Whole'
  <2>1. CASE Callback(s) \/ TakeBuffer(s) \/ Finish(s) \/ FinishTakes(s)
    BY <2>1, NoneChanges
    DEF Callback, TakeBuffer, Finish, FinishTakes, history, readerVars, Hand
  <2>2. CASE DeliverBlock(s)
    BY <2>2, OneIsBrought
  <2>3. CASE DeliverNone(s) \/ FinishEnds(s)
    <3>1. PICK r0 \in Recordings : r0 = thread[s].pcm
      BY <2>3 DEF DeliverNone, FinishEnds, At, TypeOK
    <3>2. /\ UNCHANGED <<offered, received, ended, item>>
          /\ \A r \in Recordings : Hand(r)' = Hand(r)
      BY <2>3 DEF DeliverNone, FinishEnds, history, readerVars, Hand
    <3>3. \/ UNCHANGED buffers
          \/ buffers' = [buffers EXCEPT ![r0] = Close(buffers[r0])]
          \/ buffers' = [buffers EXCEPT ![r0] = Fail(buffers[r0], "stream")]
      BY <2>3, <3>1 DEF DeliverNone, FinishEnds, Update
    <3>. QED
      BY <3>2, <3>3, NoneChanges, OneEnds
  <2>. QED
    BY <1>10, <2>1, <2>2, <2>3 DEF Thread, InCallback
<1>11. CASE Read
  BY <1>11, NoneChanges DEF Read, history, Hand
<1>12. CASE GetItem
  BY <1>12, OneIsTaken
<1>13. CASE ReturnBlock
  BY <1>13, OneIsReturned
<1>14. CASE ReturnEnd
  BY <1>14, OneIsEnded
<1>. QED
  BY <1>1, <1>2, <1>3, <1>4, <1>5, <1>6, <1>7, <1>8, <1>9, <1>10, <1>11, <1>12, <1>13,
     <1>14 DEF Next, Caller, Reader

\* Every step keeps the blocks of the histories and the ways a reading ends.
LEMMA HistoryStep ==
  ASSUME TypeOK, ControlInv, HoldInv, Whole, Next
  PROVE  Histories' /\ ended' \in [Recordings -> Failures \union {"reading"}]
<1>1. CASE Caller \/ Read \/ GetItem
  BY <1>1 DEF Caller, Stop, CloseOrStart, CloseQueue, Abort, Release, ChooseDevice, OpenStream,
     BeginStream, Abandon, Read, GetItem, history, Histories, TypeOK
<1>2. ASSUME NEW s \in Recordings, Thread(s)
      PROVE  Histories' /\ ended' \in [Recordings -> Failures \union {"reading"}]
  <2>1. CASE DeliverBlock(s)
    BY <2>1, OneIsBrought DEF DeliverBlock, TypeOK
  <2>2. CASE ~DeliverBlock(s)
    BY <1>2, <2>2 DEF Thread, InCallback, Callback, TakeBuffer, DeliverNone, Finish,
       FinishTakes, FinishEnds, history, Histories, TypeOK
  <2>. QED
    BY <2>1, <2>2
<1>3. CASE ReturnBlock
  BY <1>3, OneIsReturned DEF ReturnBlock, TypeOK
<1>4. CASE ReturnEnd
  BY <1>4, OneIsEnded DEF ReturnEnd, Histories, TypeOK
<1>. QED
  BY <1>1, <1>2, <1>3, <1>4 DEF Next, Reader

-----------------------------------------------------------------------------
(* Types and control.                                                      *)

ThreadTypes ==
  /\ thread \in [Recordings ->
       [at: {"none", "idle", "checked", "holding", "finishing", "closing", "failing",
             "ended"},
        pcm: Recordings \union {None}, block: Blocks \union {Sentinel}]]
  /\ \A s \in Recordings :
       thread[s].at \in {"holding", "closing", "failing"} <=> thread[s].pcm # None

\* Every step keeps the types of the threads.
LEMMA ThreadStep ==
  ASSUME TypeOK, ControlInv, OwnerInv, Next
  PROVE  ThreadTypes'
<1>1. ThreadTypes
  BY DEF ThreadTypes, TypeOK
<1>2. CASE UNCHANGED thread
  BY <1>1, <1>2 DEF ThreadTypes
<1>3. CASE BeginStream
  <2>1. thread' = [thread EXCEPT ![generation].at = "idle"]
    BY <1>3 DEF BeginStream
  <2>2. generation \in Recordings /\ call = "start"
    BY <1>3 DEF BeginStream, ControlInv, TypeOK, Recordings
  <2>3. thread[generation].pcm = None
    BY <1>1, <2>2 DEF ThreadTypes, OwnerInv
  <2>. QED
    BY <1>1, <2>1, <2>2, <2>3 DEF ThreadTypes
<1>4. ASSUME NEW s \in Recordings, Thread(s) PROVE ThreadTypes'
  <2>1. CASE Callback(s)
    <3>1. CASE Listens(s)
      <4>1. [stream |-> s, number |-> arrived'] \in Blocks
        BY <2>1, BackendAssumption DEF Callback, TypeOK, Blocks
      <4>2. /\ thread[s].at = "idle"
            /\ thread' = [thread EXCEPT ![s].at = "checked",
                                        ![s].block = [stream |-> s, number |-> arrived']]
        BY <2>1, <3>1 DEF Callback, At
      <4>. QED
        BY <1>1, <4>1, <4>2 DEF ThreadTypes
    <3>2. CASE ~Listens(s)
      BY <1>1, <2>1, <3>2 DEF ThreadTypes, Callback
    <3>. QED
      BY <3>1, <3>2
  <2>2. ASSUME NEW to \in {"idle", "finishing", "ended"}, Move(s, to) PROVE ThreadTypes'
    <3>1. Free(to) \in [at: {"none", "idle", "checked", "holding", "finishing", "closing",
                            "failing", "ended"},
                       pcm: Recordings \union {None}, block: Blocks \union {Sentinel}]
      BY DEF Free
    <3>2. Free(to).at \notin {"holding", "closing", "failing"} /\ Free(to).pcm = None
      BY DEF Free
    <3>. QED
      BY <1>1, <2>2, <3>1, <3>2 DEF ThreadTypes, Move
  <2>3. ASSUME NEW to \in {"holding", "closing", "failing"}, Hold(s, to), pcm # None
        PROVE  ThreadTypes'
    <3>1. pcm \in Recordings
      BY <2>3 DEF TypeOK
    <3>. DEFINE held == [thread[s] EXCEPT !.at = to, !.pcm = pcm]
    <3>2. thread[s] \in [at: {"none", "idle", "checked", "holding", "finishing", "closing",
                              "failing", "ended"},
                         pcm: Recordings \union {None}, block: Blocks \union {Sentinel}]
      BY <1>1 DEF ThreadTypes
    <3>3. /\ held \in [at: {"none", "idle", "checked", "holding", "finishing", "closing",
                            "failing", "ended"},
                       pcm: Recordings \union {None}, block: Blocks \union {Sentinel}]
          /\ held.at = to /\ held.pcm = pcm
      BY <2>3, <3>1, <3>2
    <3>4. thread' = [thread EXCEPT ![s] = held]
      BY <1>1, <2>3 DEF ThreadTypes, Hold
    <3>. HIDE DEF held
    <3>. QED
      BY <1>1, <2>3, <3>3, <3>4 DEF ThreadTypes
  <2>. QED
    BY <1>4, <2>1, <2>2, <2>3 DEF Thread, InCallback, TakeBuffer, DeliverBlock, DeliverNone,
       Finish, FinishTakes, FinishEnds
<1>. QED
  BY <1>2, <1>3, <1>4 DEF Next, Caller, Reader, Stop, CloseOrStart, CloseQueue, Abort, Release,
     ChooseDevice, OpenStream, Abandon, Read, GetItem, ReturnBlock, ReturnEnd

\* Every step keeps the types.
LEMMA TypeStep ==
  ASSUME TypeOK, ControlInv, OwnerInv, HoldInv, Whole, Next
  PROVE  TypeOK'
<1>1. ThreadTypes' /\ Whole' /\ Histories' /\ ended' \in [Recordings -> Failures \union {"reading"}]
  BY ThreadStep, WholeStep, HistoryStep
<1>2. /\ generation' \in 0 .. MaxGeneration
      /\ stopRequested' \in {"clear", "set"} /\ aborted' \in {"no", "yes"}
      /\ stream' \in Recordings \union {None} /\ pcm' \in Recordings \union {None}
  <2>1. CASE Caller
    BY <2>1, BackendAssumption DEF TypeOK, ControlInv, Recordings, None, Caller, Stop, CloseOrStart,
       CloseQueue, Abort, Release, ChooseDevice, OpenStream, BeginStream, Abandon, attributes
  <2>2. CASE ~Caller
    BY <2>2 DEF Next, TypeOK, Thread, InCallback, Callback, TakeBuffer, DeliverBlock, DeliverNone,
       Finish, FinishTakes, FinishEnds, Reader, Read, GetItem, ReturnBlock, ReturnEnd, attributes
  <2>. QED
    BY <2>1, <2>2
<1>3. /\ call' \in {"none", "stop", "close", "start"}
      /\ step' \in {"out", "quiet", "abort", "release", "device", "open", "begin"}
  <2>1. CASE Caller
    BY <2>1 DEF TypeOK, Caller, Stop, CloseOrStart, CloseQueue, Abort, Stopped, Release,
       ChooseDevice, OpenStream, BeginStream, Abandon, Goto, Return
  <2>2. CASE ~Caller
    <3>1. UNCHANGED callVars
      BY <2>2 DEF Next, Thread, InCallback, Callback, TakeBuffer, DeliverBlock, DeliverNone,
         Finish, FinishTakes, FinishEnds, Reader, Read, GetItem, ReturnBlock, ReturnEnd
    <3>. QED
      BY <3>1 DEF TypeOK, callVars
  <2>. QED
    BY <2>1, <2>2
<1>4. /\ reader' \in {"out", "call", "get", "took"}
      /\ reading' \in Recordings \union {None} /\ item' \in Blocks \union {Sentinel}
  <2>1. CASE GetItem
    <3>1. reading \in Recordings
      BY <2>1 DEF GetItem, TypeOK, ControlInv
    <3>2. buffers[reading].queue \in Seq(Blocks \union {Sentinel})
      BY <3>1 DEF TypeOK, Buffers
    <3>. QED
      BY <2>1, <3>2, HeadTailProperties DEF GetItem, TypeOK
  <2>2. CASE Read \/ ReturnBlock \/ ReturnEnd
    BY <2>2 DEF Read, ReturnBlock, ReturnEnd, TypeOK
  <2>3. CASE ~Reader
    BY <2>3 DEF Next, TypeOK, Caller, Stop, CloseOrStart, CloseQueue, Abort, Release, ChooseDevice,
       OpenStream, BeginStream, Abandon, Thread, InCallback, Callback, TakeBuffer, DeliverBlock,
       DeliverNone, Finish, FinishTakes, FinishEnds, readerVars
  <2>. QED
    BY <2>1, <2>2, <2>3 DEF Reader
<1>5. arrived' \in 0 .. MaxBlocks
  <2>1. ASSUME NEW s \in Recordings, Thread(s) PROVE arrived' \in 0 .. MaxBlocks
    <3>1. CASE Callback(s)
      BY <3>1, BackendAssumption DEF Callback, TypeOK
    <3>2. CASE Finish(s) \/ InCallback(s)
      BY <3>2 DEF InCallback, TakeBuffer, DeliverBlock, DeliverNone, Finish, FinishTakes,
         FinishEnds, TypeOK
    <3>. QED
      BY <2>1, <3>1, <3>2 DEF Thread
  <2>2. CASE Caller \/ Reader
    BY <2>2 DEF TypeOK, Caller, Stop, CloseOrStart, CloseQueue, Abort, Release, ChooseDevice,
       OpenStream, BeginStream, Abandon, Reader, Read, GetItem, ReturnBlock, ReturnEnd
  <2>. QED
    BY <2>1, <2>2 DEF Next
<1>6. leaked' \in SUBSET Recordings
  <2>1. CASE Release
    BY <2>1 DEF Release, TypeOK
  <2>2. CASE ~Release
    BY <2>2 DEF Next, TypeOK, Caller, Stop, CloseOrStart, CloseQueue, Abort, ChooseDevice,
       OpenStream, BeginStream, Abandon, Thread, InCallback, Callback, TakeBuffer, DeliverBlock,
       DeliverNone, Finish, FinishTakes, FinishEnds, Reader, Read, GetItem, ReturnBlock,
       ReturnEnd, history
  <2>. QED
    BY <2>1, <2>2
<1>. QED
  BY <1>1, <1>2, <1>3, <1>4, <1>5, <1>6 DEF TypeOK, ThreadTypes, Whole, Histories

\* Every step keeps what is known of the call and the reader.
LEMMA ControlStep ==
  ASSUME TypeOK, ControlInv, Next
  PROVE  ControlInv'
<1>1. CASE Caller
  <2>1. CASE Stop
    BY <2>1 DEF TypeOK, ControlInv, Recordings, None, Stop, Goto, Return, attributes, readerVars
  <2>2. CASE CloseOrStart
    BY <2>2 DEF TypeOK, ControlInv, Recordings, None, CloseOrStart, Goto, Return, attributes, readerVars
  <2>3. CASE CloseQueue
    BY <2>3 DEF TypeOK, ControlInv, Recordings, None, CloseQueue, Goto, Return, attributes, readerVars
  <2>4. CASE Abort
    BY <2>4 DEF TypeOK, ControlInv, Recordings, None, Abort, Stopped, Goto, Return, attributes, readerVars
  <2>5. CASE Release
    BY <2>5 DEF TypeOK, ControlInv, Recordings, None, Release, Goto, Return, attributes, readerVars
  <2>6. CASE ChooseDevice
    BY <2>6 DEF TypeOK, ControlInv, Recordings, None, ChooseDevice, Goto, Return, attributes, readerVars
  <2>7. CASE OpenStream
    BY <2>7 DEF TypeOK, ControlInv, Recordings, None, OpenStream, Goto, Return, attributes, readerVars
  <2>8. CASE BeginStream
    BY <2>8 DEF TypeOK, ControlInv, Recordings, None, BeginStream, Goto, Return, attributes, readerVars
  <2>9. CASE Abandon
    BY <2>9 DEF TypeOK, ControlInv, Recordings, None, Abandon, Goto, Return, attributes, readerVars
  <2>. QED
    BY <1>1, <2>1, <2>2, <2>3, <2>4, <2>5, <2>6, <2>7, <2>8, <2>9 DEF Caller
<1>2. CASE Reader
  BY <1>2 DEF TypeOK, ControlInv, Reader, Read, GetItem, ReturnBlock, ReturnEnd, attributes,
     callVars
<1>3. ASSUME NEW s \in Recordings, Thread(s) PROVE ControlInv'
  BY <1>3 DEF ControlInv, Thread, InCallback, Callback, TakeBuffer, DeliverBlock, DeliverNone,
     Finish, FinishTakes, FinishEnds, attributes, callVars, readerVars
<1>. QED
  BY <1>1, <1>2, <1>3 DEF Next

-----------------------------------------------------------------------------
(* Streams and the threads that bring their audio.                         *)

\* A thread that makes a step lives, and no other thread changes.
LEMMA ThreadMoves ==
  ASSUME TypeOK, NEW s \in Recordings, Thread(s)
  PROVE  /\ \A q \in Recordings \ {s} : thread'[q] = thread[q]
         /\ Alive(s) /\ thread'[s].at # "none"
<1>1. CASE Callback(s)
  BY <1>1 DEF Callback, At, Alive, TypeOK
<1>2. CASE Finish(s) \/ InCallback(s)
  BY <1>2 DEF InCallback, TakeBuffer, DeliverBlock, DeliverNone, Finish, FinishTakes,
     FinishEnds, At, Move, Hold, Free, Alive, TypeOK
<1>. QED
  BY <1>1, <1>2 DEF Thread

\* Every step keeps the owner of each living stream.
LEMMA OwnerStep ==
  ASSUME TypeOK, ControlInv, OwnerInv, Next
  PROVE  OwnerInv'
<1>1. CASE Stop
  BY <1>1 DEF Stop, attributes, history, OwnerInv, Alive
<1>2. CASE CloseOrStart
  BY <1>2 DEF CloseOrStart, history, OwnerInv, Alive, TypeOK, Recordings
<1>3. CASE CloseQueue
  BY <1>3 DEF CloseQueue, Goto, attributes, history, OwnerInv, Alive
<1>4. CASE Abort
  BY <1>4 DEF Abort, Stopped, Goto, Return, history, OwnerInv, Alive
<1>5. CASE Release
  <2>1. /\ UNCHANGED <<generation, thread, pcm>> /\ (call' = call \/ call' = "none")
        /\ \/ UNCHANGED leaked /\ (stream # None => thread[stream].at = "ended")
           \/ stream # None /\ leaked' = leaked \union {stream}
    BY <1>5 DEF Release, Goto, Return
  <2>2. stream < generation
    BY <1>5 DEF Release, ControlInv
  <2>3. \A s \in Recordings : ~(Alive(s)' /\ s \notin leaked')
    BY <2>1 DEF OwnerInv, Alive, Recordings, None
  <2>4. \A s \in leaked' : s < generation'
    BY <2>1, <2>2 DEF OwnerInv
  <2>5. \A s \in Recordings :
          s > generation' \/ (s = generation' /\ call' = "start") => thread'[s].at = "none"
    BY <2>1 DEF OwnerInv
  <2>. QED
    BY <2>3, <2>4, <2>5 DEF OwnerInv
<1>6. CASE ChooseDevice
  BY <1>6 DEF ChooseDevice, Goto, Return, history, OwnerInv, Alive, ControlInv, Recordings, None
<1>7. CASE OpenStream
  BY <1>7 DEF OpenStream, Goto, Return, history, OwnerInv, Alive, ControlInv, Recordings, None
<1>8. CASE BeginStream
  BY <1>8 DEF BeginStream, Return, attributes, history, OwnerInv, Alive, ControlInv, TypeOK, Recordings
<1>9. CASE Abandon
  BY <1>9 DEF Abandon, Return, history, OwnerInv, Alive, ControlInv, TypeOK, Recordings
<1>10. ASSUME NEW s \in Recordings, Thread(s) PROVE OwnerInv'
  <2>1. UNCHANGED <<generation, stream, pcm, call, leaked>>
    BY <1>10 DEF Thread, InCallback, Callback, TakeBuffer, DeliverBlock, DeliverNone, Finish,
       FinishTakes, FinishEnds, attributes, callVars, history
  <2>. QED
    BY <1>10, <2>1, ThreadMoves DEF OwnerInv, Alive
<1>11. CASE Reader
  BY <1>11 DEF Reader, Read, GetItem, ReturnBlock, ReturnEnd, attributes, callVars, history,
     OwnerInv, Alive
<1>. QED
  BY <1>1, <1>2, <1>3, <1>4, <1>5, <1>6, <1>7, <1>8, <1>9, <1>10, <1>11 DEF Next, Caller

\* Every step keeps what a thread holds.
LEMMA HoldStep ==
  ASSUME TypeOK, ControlInv, OwnerInv, HoldInv, Next
  PROVE  HoldInv'
<1>1. CASE BeginStream
  <2>1. /\ UNCHANGED leaked
        /\ \A s \in Recordings : /\ thread'[s].block = thread[s].block
                                 /\ thread'[s].pcm = thread[s].pcm
                                 /\ Brings(s)' => Brings(s)
    BY <1>1 DEF BeginStream, history, TypeOK, Brings
  <2>. QED
    BY <2>1 DEF HoldInv
<1>2. CASE (Caller /\ ~BeginStream) \/ Reader
  <2>1. UNCHANGED thread /\ leaked \subseteq leaked'
    BY <1>2 DEF Caller, Stop, CloseOrStart, CloseQueue, Abort, Release, ChooseDevice, OpenStream,
       Abandon, Reader, Read, GetItem, ReturnBlock, ReturnEnd, history
  <2>. QED
    BY <2>1 DEF HoldInv, Brings
<1>3. ASSUME NEW s \in Recordings, Thread(s) PROVE HoldInv'
  <2>1. UNCHANGED leaked /\ \A q \in Recordings \ {s} : thread'[q] = thread[q]
    BY <1>3, ThreadMoves DEF Thread, InCallback, Callback, TakeBuffer, DeliverBlock, DeliverNone,
       Finish, FinishTakes, FinishEnds, history
  <2>2. Alive(s) /\ (s \notin leaked => pcm = s)
    BY <1>3, ThreadMoves DEF OwnerInv
  <2>3. /\ Brings(s)' => thread'[s].block.stream = s
        /\ thread'[s].pcm \in {s, None} \/ s \in leaked
    <3>1. CASE Callback(s)
      BY <3>1 DEF Callback, HoldInv, Brings, TypeOK
    <3>2. CASE TakeBuffer(s)
      <4>1. thread[s].block.stream = s
        BY <3>2 DEF TakeBuffer, At, HoldInv, Brings
      <4>2. CASE Move(s, "idle")
        BY <4>2 DEF Move, Free, Brings, TypeOK
      <4>3. CASE Hold(s, "holding")
        BY <2>2, <4>1, <4>3 DEF Hold, TypeOK
      <4>. QED
        BY <3>2, <4>2, <4>3 DEF TakeBuffer
    <3>3. CASE Finish(s) \/ FinishTakes(s)
      <4>1. CASE Finish(s)
        BY <4>1 DEF Finish, Move, Free, Brings, TypeOK
      <4>2. CASE FinishTakes(s)
        BY <2>2, <4>2 DEF FinishTakes, Move, Hold, Free, Brings, TypeOK
      <4>. QED
        BY <3>3, <4>1, <4>2
    <3>4. CASE DeliverBlock(s) \/ DeliverNone(s) \/ FinishEnds(s)
      BY <3>4 DEF DeliverBlock, DeliverNone, FinishEnds, Move, Free, Brings, TypeOK
    <3>. QED
      BY <1>3, <3>1, <3>2, <3>3, <3>4 DEF Thread, InCallback
  <2>. QED
    BY <2>1, <2>3 DEF HoldInv, Brings
<1>. QED
  BY <1>1, <1>2, <1>3 DEF Next

\* A thread starts to bring a block only while its stream is not leaked.
LEMMA BringsOn ==
  ASSUME TypeOK, OwnerInv, Next, NEW s \in Recordings, s \in leaked, ~Brings(s)
  PROVE  ~Brings(s)'
<1>1. CASE BeginStream
  BY <1>1 DEF BeginStream, TypeOK, Brings
<1>2. CASE (Caller /\ ~BeginStream) \/ Reader
  <2>1. UNCHANGED thread
    BY <1>2 DEF Caller, Stop, CloseOrStart, CloseQueue, Abort, Release, ChooseDevice, OpenStream,
       Abandon, Reader, Read, GetItem, ReturnBlock, ReturnEnd
  <2>. QED
    BY <2>1 DEF Brings
<1>3. ASSUME NEW q \in Recordings, Thread(q), q # s PROVE ~Brings(s)'
  BY <1>3, ThreadMoves DEF Brings
<1>4. CASE Thread(s)
  <2>1. ~Listens(s)
    BY DEF OwnerInv, Listens, TypeOK
  <2>2. CASE Callback(s)
    BY <2>1, <2>2 DEF Callback, Brings
  <2>3. CASE ~Callback(s)
    BY <1>4, <2>3 DEF Thread, InCallback, TakeBuffer, DeliverBlock, DeliverNone, Finish,
       FinishTakes, FinishEnds, At, Move, Hold, Free, Brings, TypeOK
  <2>. QED
    BY <2>2, <2>3
<1>. QED
  BY <1>1, <1>2, <1>3, <1>4 DEF Next

\* Every step keeps recordings from mixing.
LEMMA MixStep ==
  ASSUME TypeOK, OwnerInv, HoldInv, MixInv, Next
  PROVE  MixInv'
<1>1. leaked \subseteq leaked'
  BY DEF Next, Caller, Stop, CloseOrStart, CloseQueue, Abort, Release, ChooseDevice, OpenStream,
     BeginStream, Abandon, Thread, InCallback, Callback, TakeBuffer, DeliverBlock, DeliverNone,
     Finish, FinishTakes, FinishEnds, Reader, Read, GetItem, ReturnBlock, ReturnEnd, history
<1>2. SUFFICES ASSUME NEW r \in Recordings, NEW s \in Recordings, s # r
               PROVE  /\ BlocksOf(s, r)' # {} => s \in leaked' /\ ~Brings(s)'
                      /\ \A i, j \in BlocksOf(s, r)' : i = j
  BY DEF MixInv
<1>3. /\ BlocksOf(s, r) # {} => s \in leaked /\ ~Brings(s)
      /\ \A i, j \in BlocksOf(s, r) : i = j
  BY <1>2 DEF MixInv
<1>4. CASE BlocksOf(s, r)' = BlocksOf(s, r)
  BY <1>1, <1>3, <1>4, BringsOn
<1>5. CASE offered'[r] # offered[r]
  <2>1. PICK q \in Recordings : DeliverBlock(q)
    BY <1>5 DEF Next, Caller, Stop, CloseOrStart, CloseQueue, Abort, Release, ChooseDevice,
       OpenStream, BeginStream, Abandon, Thread, InCallback, Callback, TakeBuffer, DeliverNone,
       Finish, FinishTakes, FinishEnds, Reader, Read, GetItem, ReturnBlock, ReturnEnd, history
  <2>2. /\ thread[q].pcm = r /\ Brings(q)
        /\ offered'[r] = Append(offered[r], thread[q].block)
        /\ thread[q].block \in Blocks /\ thread[q].block.stream = q
        /\ offered[r] \in Seq(Blocks)
    <3>1. thread[q].pcm \in Recordings /\ Brings(q)
      BY <2>1 DEF DeliverBlock, At, TypeOK, Brings
    <3>. QED
      BY <1>5, <2>1, <3>1, BringsBlock DEF DeliverBlock, TypeOK, HoldInv
  <2>3. CASE q # s
    <3>1. BlocksOf(s, r)' = BlocksOf(s, r)
      BY <2>2, <2>3 DEF BlocksOf
    <3>. QED
      BY <1>4, <3>1
  <2>4. CASE q = s
    <3>1. s \in leaked
      BY <1>2, <2>2, <2>4 DEF HoldInv, Recordings, None
    <3>2. BlocksOf(s, r) = {}
      BY <1>3, <2>2, <2>4
    <3>3. BlocksOf(s, r)' \subseteq {Len(offered[r]) + 1}
      BY <2>2, <3>2 DEF BlocksOf
    <3>4. ~Brings(s)'
      BY <2>1, <2>4 DEF DeliverBlock, Move, Free, Brings, TypeOK
    <3>. QED
      BY <1>1, <3>1, <3>3, <3>4
  <2>. QED
    BY <2>3, <2>4
<1>. QED
  BY <1>4, <1>5 DEF BlocksOf

-----------------------------------------------------------------------------
(* The theorems.                                                           *)

\* The invariant holds at first.
LEMMA InitInv == Init => IInv
<1>. SUFFICES ASSUME Init PROVE IInv
  OBVIOUS
<1>1. NewBuffer \in Buffers /\ Waiting(NewBuffer) = << >>
  BY DEF NewBuffer, Buffers, Failures, Waiting
<1>2. TypeOK
  BY <1>1, BackendAssumption DEF Init, TypeOK, Free
<1>3. ControlInv /\ OwnerInv /\ HoldInv /\ MixInv
  BY DEF Init, ControlInv, OwnerInv, HoldInv, MixInv, Alive, Brings, Free, BlocksOf, None
<1>4. \A r \in Recordings : BufferInv(NewBuffer, "nothing")
  BY <1>1, CapacityAssumption DEF BufferInv, NewBuffer
<1>5. WholeInv(NewBuffer, "nothing", Sentinel, << >>, << >>, "reading")
  BY <1>1 DEF WholeInv, Kept, Held, IsPrefix, NewBuffer
<1>6. Whole
  BY <1>1, <1>4, <1>5 DEF Init, Whole, RecordingInv, Hand
<1>. QED
  BY <1>2, <1>3, <1>6 DEF IInv

\* Every step keeps it.
LEMMA StepInv == IInv /\ [Next]_vars => IInv'
<1>. SUFFICES ASSUME IInv, [Next]_vars PROVE IInv'
  OBVIOUS
<1>. USE DEF IInv
<1>1. CASE Next
  BY <1>1, TypeStep, ControlStep, WholeStep, OwnerStep, HoldStep, MixStep
<1>2. CASE UNCHANGED vars
  BY <1>2 DEF vars, attributes, callVars, readerVars, history, TypeOK, ControlInv, Whole,
     RecordingInv, Hand, OwnerInv, Alive, HoldInv, Brings, MixInv, BlocksOf
<1>. QED
  BY <1>1, <1>2

\* The types, where a call can be, whole recordings, and who owns a stream and what
\* its thread holds hold in every reachable state.
THEOREM BackendInductive == Spec => []IInv
BY InitInv, StepInv, PTL DEF Spec

\* The variables keep their types, for every capacity and every number of recordings
\* and blocks.
THEOREM BackendTypes == Spec => []TypeOK
<1>1. IInv => TypeOK
  BY DEF IInv
<1>. QED
  BY <1>1, BackendInductive, PTL

\* put_nowait(_SENTINEL) never raises queue.Full.
THEOREM SentinelAlwaysFits == Spec => []SentinelFits
<1>1. IInv => SentinelFits
  <2>. SUFFICES ASSUME IInv, NEW r \in Recordings
                PROVE  /\ buffers[r].sentinel = "out" => Len(buffers[r].queue) <= Capacity
                       /\ Len(buffers[r].queue) <= Capacity + 1
    BY DEF SentinelFits
  <2>1. BufferInv(buffers[r], Hand(r)) /\ buffers[r] \in Buffers
    BY DEF IInv, Whole, RecordingInv
  <2>. DEFINE b == buffers[r]
  <2>2. Len(b.queue) <= Capacity + 1
    BY <2>1 DEF BufferInv
  <2>3. CASE b.sentinel = "out"
    <3>1. /\ b.ending = "open" /\ Hand(r) # "sentinel" /\ b.depth <= Capacity
          /\ \A i \in 1 .. Len(b.queue) : IsBlock(b.queue[i])
      BY <2>1, <2>3 DEF BufferInv
    <3>2. Waiting(b) = b.queue
      BY <2>1, <3>1, WaitingBlocks
    <3>3. b.depth = Len(b.queue) \/ b.depth = Len(b.queue) + 1
      BY <2>1, <3>2 DEF BufferInv
    <3>4. b.queue \in Seq(Blocks \union {Sentinel}) /\ b.depth \in Nat
      BY <2>1 DEF Buffers
    <3>. QED
      BY <2>2, <3>1, <3>3, <3>4, CapacityAssumption
  <2>. QED
    BY <2>2, <2>3
<1>. QED
  BY <1>1, BackendInductive, PTL

\* What read() returned, holds and leaves waiting is what the callbacks brought, in
\* order and without a gap, but for the end of a capture that failed.
THEOREM ReadsAreWhole == Spec => []ReadIsWhole
<1>1. IInv => ReadIsWhole
  <2>. SUFFICES ASSUME IInv, NEW r \in Recordings
                PROVE  LET kept == received[r] \o InHand(r) \o Waiting(buffers[r]) IN
                       /\ kept = SubSeq(offered[r], 1, Len(kept))
                       /\ buffers[r].failure = "none" => kept = offered[r]
                       /\ ended[r] = "none" => received[r] = offered[r]
    BY DEF ReadIsWhole
  <2>1. /\ BufferInv(buffers[r], Hand(r)) /\ buffers[r] \in Buffers
        /\ WholeInv(buffers[r], Hand(r), item, received[r], offered[r], ended[r])
        /\ received[r] \in Seq(Blocks) /\ offered[r] \in Seq(Blocks)
        /\ item \in Blocks \union {Sentinel}
    BY DEF IInv, Whole, RecordingInv, TypeOK
  <2>2. InHand(r) = Held(Hand(r), item) /\ InHand(r) \in Seq(Blocks)
    BY <2>1 DEF InHand, Held, Hand, IsBlock
  <2>3. Waiting(buffers[r]) \in Seq(Blocks)
    <3>1. CASE Hand(r) # "sentinel"
      BY <2>1, <3>1, WaitingIsBlocks
    <3>2. CASE Hand(r) = "sentinel"
      <4>1. buffers[r].queue = << >>
        BY <2>1, <3>2 DEF BufferInv, Buffers
      <4>. QED
        BY <4>1 DEF Waiting
    <3>. QED
      BY <3>1, <3>2
  <2>. DEFINE kept == received[r] \o InHand(r) \o Waiting(buffers[r])
  <2>4. kept \in Seq(Blocks)
    BY <2>1, <2>2, <2>3
  <2>5. kept = Kept(buffers[r], Hand(r), item, received[r])
    BY <2>2 DEF Kept
  <2>. HIDE DEF kept
  <2>6. /\ IsPrefix(kept, offered[r])
        /\ buffers[r].failure = "none" => kept = offered[r]
        /\ ended[r] = "none" => received[r] = offered[r]
    BY <2>1, <2>5 DEF WholeInv
  <2>7. kept = SubSeq(offered[r], 1, Len(kept))
    BY <2>1, <2>4, <2>6, PrefixIsSubSeq
  <2>. QED
    BY <2>6, <2>7 DEF kept
<1>. QED
  BY <1>1, BackendInductive, PTL

\* Audio of a stream gets into another recording only when the stream could not be
\* closed, and then only the block of the callback that was running.
THEOREM RecordingsStayApart == Spec => []RecordingsDoNotMix
<1>1. IInv => RecordingsDoNotMix
  BY DEF IInv, MixInv, RecordingsDoNotMix
<1>. QED
  BY <1>1, BackendInductive, PTL

=============================================================================
