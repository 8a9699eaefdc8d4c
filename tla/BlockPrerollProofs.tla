------------------------- MODULE BlockPrerollProofs -------------------------
(***************************************************************************)
(* What BlockPreroll guarantees for every queue depth, plan length and     *)
(* number of failures: no block is lost but by an overwritten result,      *)
(* blocks air in order as long as none overtakes another, none airs more   *)
(* than twice, and the degraded hold always waits for somebody at work.    *)
(***************************************************************************)
EXTENDS BlockPreroll, FiniteSetTheorems, SequenceTheorems, TLAPS

(***************************************************************************)
(* The inductive invariant.                                                *)
(***************************************************************************)

\* What the place in the tick says about the rest: before the first tick the
\* two seeded blocks are in the queue and nothing else has moved; at the fence,
\* and when the queue is loaded, there is no preview_.
PhaseInv ==
  /\ pc = "start" => /\ Len(queue) >= 2 /\ aired = <<>> /\ preview = NoResult
                     /\ ~Preparing /\ live = 0
  /\ pc \in {"fence", "sync", "loadQueue"} => preview = NoResult
  /\ fill # "off" => preview # NoResult
  /\ fed >= 2 /\ (kicks = 2 => pc \in {"kick", "submit"})

\* The hold: it is for a block on the timeline, it ends before a block is put
\* on air another way, and as long as the last submission counts its block is
\* being prepared.
HoldInv ==
  /\ lastValid => Preparing
  /\ degraded => live # 0 /\ pc \notin {"fence", "sync"}
  /\ degraded => preview # NoResult \/ Preparing

\* The queue holds the last blocks that were fed, in their order; LastOut is the
\* one before them.
QueueInv == \A k \in 1..Len(queue) : queue[k] = fed - Len(queue) + k
LastOut == fed - Len(queue)

\* While none has overtaken another, at most one block is being prepared ...
OneInv ==
  ~overtaken =>
    /\ Len(requests) <= 1
    /\ requests # <<>> => worker = 0 /\ slot = NoResult
    /\ worker # 0 => slot = NoResult

\* ... it is the one that left the queue last, and preview_ and the block that
\* aired last come before it or are the same block, which is tried again.
LastAired == aired[Len(aired)]
Steps(s) == \A k \in 1..(Len(s) - 1) : s[k + 1] - s[k] \in {0, 1}
OrderInv ==
  ~overtaken =>
    /\ requests # <<>> => requests[1].block = LastOut
    /\ worker # 0 => worker = LastOut
    /\ slot # NoResult => slot.block = LastOut
    /\ preview # NoResult => preview.block = LastOut
                               \/ (Preparing /\ preview.block = LastOut - 1)
    /\ pc # "start" =>
         /\ aired # <<>>
         /\ preview # NoResult => LastAired \in {preview.block - 1, preview.block}
         /\ preview = NoResult /\ Preparing => LastAired \in {LastOut - 1, LastOut}
         /\ preview = NoResult /\ ~Preparing => LastAired = LastOut
    /\ Steps(aired)

IInv == TypeOK /\ PhaseInv /\ HoldInv /\ QueueInv /\ OneInv /\ OrderInv /\ NoSilentLoss
-----------------------------------------------------------------------------
(* SeamPreparer's queue.                                                   *)

Req == [block : Blocks, seam : 1..NoFence]
BlocksOf(s) == {s[k].block : k \in DOMAIN s}
Apart(s) == \A i, j \in DOMAIN s : s[i].block = s[j].block => i = j

\* An insertion makes the queue one longer and adds its request: nothing that
\* waited is dropped, wherever lower_bound puts the new one.
LEMMA InsertAtProperties ==
  ASSUME NEW s \in Seq(Req), NEW i \in 1..(Len(s) + 1), NEW e \in Req
  PROVE  /\ InsertAt(s, i, e) \in Seq(Req)
         /\ Len(InsertAt(s, i, e)) = Len(s) + 1
         /\ BlocksOf(InsertAt(s, i, e)) = BlocksOf(s) \cup {e.block}
         /\ s = <<>> => InsertAt(s, i, e)[1] = e
         /\ Apart(s) /\ e.block \notin BlocksOf(s) => Apart(InsertAt(s, i, e))
<1> DEFINE front == SubSeq(s, 1, i - 1)
           back  == SubSeq(s, i, Len(s))
           r     == InsertAt(s, i, e)
<1>1. /\ front \in Seq(Req) /\ Len(front) = i - 1
      /\ \A k \in 1..(i - 1) : front[k] = s[k]
  BY SubSeqProperties
<1>2. /\ back \in Seq(Req) /\ Len(back) = Len(s) - i + 1
      /\ \A k \in 1..(Len(s) - i + 1) : back[k] = s[i + k - 1]
  BY SubSeqProperties
<1>3. /\ r \in Seq(Req) /\ Len(r) = Len(s) + 1
      /\ \A k \in 1..(i - 1) : r[k] = s[k]
      /\ r[i] = e
      /\ \A k \in (i + 1)..(Len(s) + 1) : r[k] = s[k - 1]
  <2> DEFINE f == front \o <<e>>
  <2> HIDE DEF front, back
  <2>1. /\ f \in Seq(Req) /\ Len(f) = i
        /\ \A k \in 1..(i - 1) : f[k] = s[k]
        /\ f[i] = e
    BY <1>1
  <2> HIDE DEF f
  <2>2. f \o back \in Seq(Req) /\ Len(f \o back) = Len(s) + 1
    <3>1. f \in Seq(Req) /\ back \in Seq(Req)   BY <2>1, <1>2
    <3>2. f \o back \in Seq(Req) /\ Len(f \o back) = Len(f) + Len(back)
      BY <3>1, ConcatProperties
    <3> QED   BY <3>2, <2>1, <1>2
  <2>3. \A k \in 1..(Len(s) + 1) : (f \o back)[k] = IF k <= i THEN f[k] ELSE back[k - i]
    BY <2>1, <1>2, ConcatProperties
  <2>4. r = f \o back
    BY DEF InsertAt, f, front, back
  <2> HIDE DEF r
  <2>5. \A k \in 1..(Len(s) + 1) : r[k] = IF k <= i THEN f[k] ELSE back[k - i]
    BY <2>3, <2>4, Zenon
  <2>6. Len(s) \in Nat
    OBVIOUS
  <2>7. \A k \in 1..i : r[k] = f[k]
    BY <2>5, <2>6
  <2>8. \A k \in (i + 1)..(Len(s) + 1) : r[k] = s[k - 1]
    <3>1. SUFFICES ASSUME NEW k \in (i + 1)..(Len(s) + 1)  PROVE r[k] = s[k - 1]
      OBVIOUS
    <3>2. r[k] = back[k - i]
      BY <2>5, <2>6
    <3>3. k - i \in 1..(Len(s) - i + 1) /\ i + (k - i) - 1 = k - 1
      OBVIOUS
    <3> QED   BY <3>2, <3>3, <1>2
  <2> QED
    BY <2>1, <2>2, <2>4, <2>7, <2>8
<1> HIDE DEF r
<1>4. DOMAIN r = 1..(Len(s) + 1) /\ DOMAIN s = 1..Len(s)
  BY <1>3
<1>5. ASSUME NEW k \in DOMAIN r  PROVE r[k].block \in BlocksOf(s) \cup {e.block}
  <2>1. CASE k < i   BY <2>1, <1>3, <1>4 DEF BlocksOf
  <2>2. CASE k = i   BY <2>2, <1>3
  <2>3. CASE k > i
    <3>1. r[k] = s[k - 1] /\ k - 1 \in DOMAIN s   BY <2>3, <1>3, <1>4
    <3> QED   BY <3>1 DEF BlocksOf
  <2> QED   BY <2>1, <2>2, <2>3, <1>4
<1>6. ASSUME NEW k \in DOMAIN s  PROVE \E j \in DOMAIN r : r[j].block = s[k].block
  <2>1. CASE k < i   BY <2>1, <1>3, <1>4
  <2>2. CASE k >= i
    <3>1. r[k + 1] = s[k] /\ k + 1 \in DOMAIN r   BY <2>2, <1>3, <1>4
    <3> QED   BY <3>1
  <2> QED   BY <2>1, <2>2, <1>4
<1>7. i \in DOMAIN r /\ r[i].block = e.block
  BY <1>3, <1>4
<1>8. BlocksOf(r) = BlocksOf(s) \cup {e.block}
  BY <1>5, <1>6, <1>7 DEF BlocksOf
<1>9. s = <<>> => r[1] = e
  BY <1>3
<1>10. ASSUME Apart(s), e.block \notin BlocksOf(s)  PROVE Apart(r)
  <2> DEFINE from(k) == IF k < i THEN k ELSE k - 1
  <2>1. ASSUME NEW k \in DOMAIN r, k # i
        PROVE  from(k) \in DOMAIN s /\ r[k] = s[from(k)] /\ r[k].block \in BlocksOf(s)
    <3>1. from(k) \in DOMAIN s /\ r[k] = s[from(k)]
      BY <1>3, <1>4, <2>1
    <3> QED   BY <3>1 DEF BlocksOf
  <2>2. \A j, k \in DOMAIN r : j # i /\ k # i /\ from(j) = from(k) => j = k
    BY <1>4
  <2> HIDE DEF from
  <2>3. ASSUME NEW j \in DOMAIN r, NEW k \in DOMAIN r, r[j].block = r[k].block
        PROVE  j = k
    <3>1. CASE j # i /\ k # i
      BY <1>10, <2>1, <2>2, <2>3, <3>1 DEF Apart
    <3>2. CASE j = i \/ k = i
      BY <1>3, <1>10, <2>1, <2>3, <3>2
    <3> QED   BY <3>1, <3>2
  <2> QED   BY <2>3 DEF Apart
<1> QED
  BY <1>3, <1>8, <1>9, <1>10 DEF r

\* Submit puts a request somewhere into the queue.
LEMMA SubmitProperties ==
  ASSUME TypeOK, NEW b \in Blocks, NEW seam \in 1..NoFence, Submit(b, seam)
  PROVE  /\ requests' \in Seq(Req)
         /\ Len(requests') = Len(requests) + 1
         /\ requests' # <<>>
         /\ BlocksOf(requests') = BlocksOf(requests) \cup {b}
         /\ requests = <<>> => requests'[1].block = b
         /\ Apart(requests) /\ b \notin BlocksOf(requests) => Apart(requests')
<1> DEFINE earlier == {k \in DOMAIN requests : requests[k].seam < seam}
           e == [block |-> b, seam |-> seam]
<1>1. requests \in Seq(Req) /\ e \in Req
  BY DEF TypeOK, Req
<1>2. DOMAIN requests = 1..Len(requests) /\ Len(requests) \in Nat
  BY <1>1
<1>3. IsFiniteSet(1..Len(requests)) /\ Cardinality(1..Len(requests)) = Len(requests)
  <2> DEFINE n == Len(requests)
  <2>1. n \in Int /\ 1 \in Int   BY <1>2
  <2> HIDE DEF n
  <2>2. IsFiniteSet(1..n) /\ Cardinality(1..n) = IF 1 > n THEN 0 ELSE n - 1 + 1
    BY <2>1, FS_Interval
  <2> QED   BY <2>2, <1>2 DEF n
<1>4. Cardinality(earlier) \in 0..Len(requests)
  BY <1>2, <1>3, FS_Subset, FS_CardinalityType
<1>5. Cardinality(earlier) + 1 \in 1..(Len(requests) + 1)
  BY <1>4, <1>2
<1>6. requests' = InsertAt(requests, Cardinality(earlier) + 1, e)
  BY DEF Submit
<1> HIDE DEF earlier, e
<1>7. /\ requests' \in Seq(Req)
      /\ Len(requests') = Len(requests) + 1
      /\ BlocksOf(requests') = BlocksOf(requests) \cup {e.block}
      /\ requests = <<>> => requests'[1] = e
      /\ Apart(requests) /\ e.block \notin BlocksOf(requests) => Apart(requests')
  BY <1>1, <1>5, <1>6, InsertAtProperties
<1> QED
  BY <1>7, <1>2 DEF e

\* TryTakePreviewProducer leaves the queue of requests alone, or puts the block
\* it took into it once more.
LEMMA TakeProperties ==
  ASSUME TypeOK, slot # NoResult, NEW headroom \in BOOLEAN, TakeResult(headroom)
  PROVE  /\ slot.block \in Blocks /\ slot' = NoResult /\ lastValid' = FALSE
         /\ retried' \in 0..MaxBlock /\ requests' \in Seq(Req)
         /\ lastSubmitted' = lastSubmitted /\ expectContent' = expectContent /\ worker' = worker
         /\ \/ requests' = requests
            \/ /\ headroom = TRUE /\ MayRetry(slot.block)
               /\ Len(requests') = Len(requests) + 1 /\ requests' # <<>>
               /\ BlocksOf(requests') = BlocksOf(requests) \cup {slot.block}
               /\ requests = <<>> => requests'[1].block = slot.block
               /\ Apart(requests) /\ slot.block \notin BlocksOf(requests) => Apart(requests')
<1>1. slot.block \in Blocks /\ slot \in Results /\ requests \in Seq(Req) /\ retried \in 0..MaxBlock
  BY DEF TypeOK, Results, NoResult, Req
<1>2. slot.block \in 0..MaxBlock
  BY <1>1 DEF Blocks
<1>3. 0 \in 0..MaxBlock
  BY PrerollAssumption
<1>4. fence \in 1..NoFence
  BY PrerollAssumption DEF TypeOK, NoFence, Blocks
<1>5. CASE /\ slot.block \notin PadFirst /\ ~slot.dec
           /\ headroom /\ MayRetry(slot.block)
  <2>1. Submit(slot.block, fence) /\ retried' = slot.block
    BY <1>5 DEF TakeResult
  <2>2. /\ requests' \in Seq(Req)
        /\ Len(requests') = Len(requests) + 1 /\ requests' # <<>>
        /\ BlocksOf(requests') = BlocksOf(requests) \cup {slot.block}
        /\ requests = <<>> => requests'[1].block = slot.block
        /\ Apart(requests) /\ slot.block \notin BlocksOf(requests) => Apart(requests')
    BY <2>1, <1>1, <1>4, SubmitProperties
  <2> QED
    BY <2>1, <2>2, <1>1, <1>2, <1>5 DEF TakeResult
<1>6. CASE ~(/\ slot.block \notin PadFirst /\ ~slot.dec
             /\ headroom /\ MayRetry(slot.block))
  <2>1. requests' = requests
    BY <1>6 DEF TakeResult
  <2>2. retried' \in {0, retried}
    BY <1>6 DEF TakeResult
  <2> QED
    BY <2>1, <2>2, <1>1, <1>3 DEF TakeResult
<1> QED
  BY <1>5, <1>6

-----------------------------------------------------------------------------
(* The queue of blocks and the history.                                    *)

\* The front of the queue is the block after the last one that left it.
LEMMA PopProperties ==
  ASSUME TypeOK, QueueInv, queue # <<>>, queue' = Tail(queue), fed' = fed
  PROVE  /\ Head(queue) \in Blocks /\ Head(queue) = LastOut + 1
         /\ queue' \in Seq(Blocks) /\ Len(queue') = Len(queue) - 1
         /\ QueueInv' /\ LastOut' = LastOut + 1
         /\ Range(queue) \subseteq Range(queue') \cup {Head(queue)}
<1>1. queue \in Seq(Blocks) /\ fed \in Int
  BY DEF TypeOK, Blocks
<1>2. /\ Head(queue) \in Blocks /\ Tail(queue) \in Seq(Blocks)
      /\ Len(Tail(queue)) = Len(queue) - 1 /\ Head(queue) = queue[1]
      /\ \A k \in 1..(Len(queue) - 1) : Tail(queue)[k] = queue[k + 1]
      /\ Len(queue) \in Nat /\ Len(queue) >= 1
  BY <1>1, HeadTailProperties
<1>3. Head(queue) = LastOut + 1
  BY <1>1, <1>2 DEF QueueInv, LastOut
<1>4. LastOut' = LastOut + 1
  BY <1>1, <1>2 DEF LastOut
<1>5. QueueInv'
  BY <1>1, <1>2 DEF QueueInv
<1>6. Range(queue) \subseteq Range(Tail(queue)) \cup {Head(queue)}
  <2>1. DOMAIN queue = 1..Len(queue) /\ DOMAIN Tail(queue) = 1..(Len(queue) - 1)
    BY <1>1, <1>2
  <2>2. SUFFICES ASSUME NEW k \in 1..Len(queue)
                 PROVE  queue[k] \in Range(Tail(queue)) \cup {Head(queue)}
    BY <2>1 DEF Range
  <2>3. CASE k = 1   BY <2>3, <1>2
  <2>4. CASE k # 1
    <3>1. k - 1 \in 1..(Len(queue) - 1) /\ Tail(queue)[k - 1] = queue[k]
      BY <2>4, <1>2
    <3> QED   BY <3>1, <2>1 DEF Range
  <2> QED   BY <2>3, <2>4
<1> QED
  BY <1>2, <1>3, <1>4, <1>5, <1>6

\* Two blocks leave the queue together before the first tick.
LEMMA PopTwoProperties ==
  ASSUME NEW s \in Seq(Blocks), Len(s) >= 2
  PROVE  /\ SubSeq(s, 3, Len(s)) \in Seq(Blocks)
         /\ Len(SubSeq(s, 3, Len(s))) = Len(s) - 2
         /\ \A k \in 1..(Len(s) - 2) : SubSeq(s, 3, Len(s))[k] = s[k + 2]
         /\ Range(s) \subseteq Range(SubSeq(s, 3, Len(s))) \cup {s[1], s[2]}
<1> DEFINE n == Len(s)
           r == SubSeq(s, 3, n)
<1>1. n \in Nat /\ n >= 2 /\ DOMAIN s = 1..n
  OBVIOUS
<1>2. \A k \in 3..n : s[k] \in Blocks
  BY <1>1
<1>3. n \in Int /\ 3 \in Int
  BY <1>1
<1> HIDE DEF n
<1>4. /\ r \in Seq(Blocks) /\ Len(r) = (IF 3 <= n THEN n - 3 + 1 ELSE 0)
      /\ \A k \in 1..(n - 3 + 1) : r[k] = s[3 + k - 1]
  BY <1>2, <1>3, SubSeqProperties
<1> HIDE DEF r
<1>5. Len(r) = n - 2 /\ DOMAIN r = 1..(n - 2) /\ \A k \in 1..(n - 2) : r[k] = s[k + 2]
  BY <1>1, <1>4
<1>6. Range(s) \subseteq Range(r) \cup {s[1], s[2]}
  <2>1. SUFFICES ASSUME NEW k \in 1..n, k # 1, k # 2  PROVE s[k] \in Range(r)
    BY <1>1 DEF Range
  <2>2. k - 2 \in 1..(n - 2) /\ r[k - 2] = s[k]
    BY <2>1, <1>1, <1>5
  <2> QED   BY <2>2, <1>5 DEF Range
<1> QED
  BY <1>4, <1>5, <1>6 DEF n, r

\* A block that airs becomes the last one, and keeps the order if it is the one
\* that aired before it or the next one.
LEMMA AirProperties ==
  ASSUME NEW s \in Seq(Blocks), NEW b \in Blocks
  PROVE  /\ Append(s, b) \in Seq(Blocks) /\ Append(s, b) # <<>>
         /\ Append(s, b)[Len(Append(s, b))] = b
         /\ Range(Append(s, b)) = Range(s) \cup {b}
         /\ Steps(s) /\ (s # <<>> => b - s[Len(s)] \in {0, 1}) => Steps(Append(s, b))
<1> DEFINE r == Append(s, b)
<1>1. /\ r \in Seq(Blocks) /\ Len(r) = Len(s) + 1 /\ r[Len(s) + 1] = b
      /\ \A k \in 1..Len(s) : r[k] = s[k]
  BY AppendProperties
<1>2. Len(s) \in Nat /\ DOMAIN s = 1..Len(s) /\ DOMAIN r = 1..(Len(s) + 1)
  BY <1>1
<1> HIDE DEF r
<1>3. Range(r) = Range(s) \cup {b}
  <2>1. Range(r) \subseteq Range(s) \cup {b}
    BY <1>1, <1>2 DEF Range
  <2>2. Range(s) \subseteq Range(r)
    BY <1>1, <1>2 DEF Range
  <2>3. b \in Range(r)
    BY <1>1, <1>2 DEF Range
  <2> QED   BY <2>1, <2>2, <2>3
<1>4. ASSUME Steps(s), s # <<>> => b - s[Len(s)] \in {0, 1}
      PROVE  Steps(r)
  <2>1. SUFFICES ASSUME NEW k \in 1..Len(s)  PROVE r[k + 1] - r[k] \in {0, 1}
    BY <1>1, <1>2 DEF Steps
  <2>2. CASE k = Len(s)
    <3>1. s # <<>>   BY <2>2
    <3>2. r[k] = s[k] /\ r[k + 1] = b   BY <2>2, <1>1
    <3> QED   BY <3>1, <3>2, <2>2, <1>4
  <2>3. CASE k # Len(s)
    <3> DEFINE n == Len(s)
    <3>0. n \in Nat /\ k \in 1..n /\ k # n   BY <2>3, <1>2
    <3> HIDE DEF n
    <3>b. k \in 1..(n - 1) /\ k + 1 \in 1..n   BY <3>0
    <3>1. k \in 1..(Len(s) - 1) /\ k + 1 \in 1..Len(s)   BY <3>b DEF n
    <3>2. r[k] = s[k] /\ r[k + 1] = s[k + 1]   BY <3>1, <1>1
    <3>3. s[k + 1] - s[k] \in {0, 1}
      <4>1. s # <<>>   BY <1>2
      <4> QED   BY <3>1, <1>4 DEF Steps
    <3> QED   BY <3>2, <3>3
  <2> QED   BY <2>2, <2>3
<1> QED
  BY <1>1, <1>2, <1>3, <1>4 DEF r

-----------------------------------------------------------------------------
(* The initial state.                                                      *)

LEMMA InitIInv == Init => IInv
<1> SUFFICES ASSUME Init  PROVE IInv
  OBVIOUS
<1> USE PrerollAssumption DEF Init
<1>1. 1 \in Blocks /\ 2 \in Blocks /\ queue \in Seq(Blocks)
  BY DEF Blocks
<1>2. /\ queue = <<1, 2>> /\ fed = 2 /\ Len(queue) = 2
      /\ DOMAIN queue = 1..2 /\ queue[1] = 1 /\ queue[2] = 2
  OBVIOUS
<1>3. TypeOK
  <2>1. requests \in Seq([block : Blocks, seam : 1..NoFence]) /\ aired \in Seq(Blocks)
    OBVIOUS
  <2>2. degraded \in BOOLEAN /\ lastValid \in BOOLEAN /\ expectContent \in BOOLEAN
        /\ overtaken \in BOOLEAN
    OBVIOUS
  <2>3. kicks \in 0..2 /\ now \in 0..MaxBlock /\ worker \in 0..MaxBlock /\ failures \in 0..MaxFailures
        /\ lastSubmitted \in 0..MaxBlock /\ retried \in 0..MaxBlock
    OBVIOUS
  <2>4. preview \in Results /\ slot \in Results /\ overwritten \subseteq Blocks
    BY DEF Results
  <2> QED   BY <1>1, <1>2, <2>1, <2>2, <2>3, <2>4, Zenon DEF TypeOK
<1>4. PhaseInv /\ HoldInv /\ QueueInv
  BY <1>2 DEF PhaseInv, HoldInv, QueueInv, Preparing, NoResult
<1>5. OneInv /\ OrderInv
  <2>1. Len(aired) = 0 /\ Len(requests) = 0
    OBVIOUS
  <2>2. Steps(aired)
    BY <2>1 DEF Steps
  <2> QED   BY <2>1, <2>2 DEF OneInv, OrderInv, NoResult
<1>6. NoSilentLoss
  <2>1. 1..fed \subseteq Range(queue)
    BY <1>2 DEF Range
  <2> QED   BY <2>1 DEF NoSilentLoss
<1> QED
  BY <1>3, <1>4, <1>5, <1>6 DEF IInv

-----------------------------------------------------------------------------
(* The types.                                                              *)

\* A block that goes on air keeps the fence with the timeline.
LEMMA GoLiveProperties ==
  ASSUME TypeOK, NEW b \in Blocks, GoLive(b)
  PROVE  /\ live' \in Blocks \cup {0} /\ fence' = (IF live' = 0 THEN NoFence ELSE live')
         /\ aired' \in Seq(Blocks) /\ aired' = Append(aired, b)
         /\ pc' = "kick" /\ kicks' \in 0..2 /\ kicks' = 2 /\ live' = b /\ live' # 0
         /\ aired' # <<>> /\ LastAired' = b
         /\ Range(aired') = Range(aired) \cup {b}
         /\ Steps(aired) /\ (aired # <<>> => b - LastAired \in {0, 1}) => Steps(aired')
<1>1. b # 0 /\ aired \in Seq(Blocks)
  BY DEF Blocks, TypeOK
<1>2. live' = b /\ fence' = b /\ aired' = Append(aired, b) /\ pc' = "kick" /\ kicks' = 2
  BY DEF GoLive
<1>3. /\ Append(aired, b) \in Seq(Blocks) /\ Append(aired, b) # <<>>
      /\ Append(aired, b)[Len(Append(aired, b))] = b
      /\ Range(Append(aired, b)) = Range(aired) \cup {b}
      /\ Steps(aired) /\ (aired # <<>> => b - aired[Len(aired)] \in {0, 1})
           => Steps(Append(aired, b))
  BY <1>1, AirProperties
<1> QED
  BY <1>1, <1>2, <1>3 DEF LastAired


LEMMA TypeStep ==
  ASSUME TypeOK, PhaseInv, QueueInv, Next
  PROVE  TypeOK'
<1> USE PrerollAssumption
<1>0. /\ requests \in Seq(Req)
      /\ \A b \in Blocks : b \in 0..MaxBlock /\ b # 0
      /\ fence \in 1..NoFence /\ NoFence \in 1..NoFence
      /\ \A r \in Results : r # NoResult => r.block \in Blocks
  BY DEF TypeOK, Req, NoFence, Blocks, Results, NoResult
<1>1. CASE WorkerTake
  <2>1. Head(requests) \in Req /\ Tail(requests) \in Seq(Req)
    BY <1>0, <1>1, HeadTailProperties DEF WorkerTake
  <2>2. worker' \in 0..MaxBlock /\ requests' \in Seq(Req)
    BY <2>1, <1>0, <1>1 DEF WorkerTake, Req
  <2> QED
    BY <1>1, <2>2 DEF WorkerTake, TypeOK, takeVars, submitVars, historyVars, Req
<1>2. CASE WorkerDone
  <2>1. PICK dec \in BOOLEAN :
          /\ IF worker \in PadFirst \/ dec THEN UNCHANGED failures
             ELSE failures < MaxFailures /\ failures' = failures + 1
          /\ slot' = [block |-> worker, dec |-> dec]
    BY <1>2 DEF WorkerDone
  <2>2. worker \in Blocks
    BY <1>2 DEF WorkerDone, TypeOK, Blocks
  <2>3. slot' \in Results /\ failures' \in 0..MaxFailures
    BY <2>1, <2>2 DEF Results, TypeOK
  <2>4. overwritten' \subseteq Blocks
    BY <1>2, <1>0 DEF WorkerDone, TypeOK, Results, NoResult
  <2>5. worker' \in 0..MaxBlock
    BY <1>2 DEF WorkerDone
  <2> QED
    BY <1>2, <2>3, <2>4, <2>5 DEF WorkerDone, TypeOK, takeVars, submitVars
<1>3. CASE Start
  <2>1. Len(queue) >= 2 /\ queue \in Seq(Blocks) /\ Len(queue) \in Nat /\ Len(queue) <= QueueDepth
    BY <1>3 DEF Start, PhaseInv, TypeOK
  <2>2. queue[2] \in Blocks /\ Head(queue) \in Blocks
    BY <2>1
  <2>3. queue' \in Seq(Blocks) /\ Len(queue') = Len(queue) - 2
    <3>1. queue' = SubSeq(queue, 3, Len(queue))   BY <1>3 DEF Start
    <3> QED   BY <3>1, <2>1, PopTwoProperties
  <2>4. aired' \in Seq(Blocks)
    BY <1>3, <2>2 DEF Start, TypeOK
  <2>5. Submit(queue[2], NoFence)
    BY <1>3 DEF Start
  <2>6. requests' \in Seq(Req)
    BY <2>5, <2>2, <1>0, SubmitProperties
  <2>7. lastSubmitted' \in 0..MaxBlock /\ lastValid' \in BOOLEAN /\ expectContent' \in BOOLEAN
    BY <1>3, <2>2, <1>0 DEF Start
  <2>8. live' \in Blocks \cup {0} /\ fence' = (IF live' = 0 THEN NoFence ELSE live')
    BY <1>3, <2>2, <1>0 DEF Start
  <2> QED
    BY <1>3, <2>1, <2>3, <2>4, <2>6, <2>7, <2>8 DEF Start, TypeOK, takeVars, Req
<1>4. CASE PreTake
  <2>1. CASE PreviewWanted
    <3>1. PICK headroom \in BOOLEAN : TakeResult(headroom)
      BY <1>4, <2>1 DEF PreTake
    <3>2. /\ slot' = NoResult /\ lastValid' = FALSE /\ retried' \in 0..MaxBlock
          /\ requests' \in Seq(Req)
          /\ lastSubmitted' = lastSubmitted /\ expectContent' = expectContent /\ worker' = worker
      BY <3>1, <2>1, TakeProperties DEF PreviewWanted
    <3>3. preview' \in Results /\ fill' \in {"off", "running", "primed", "gone"}
      BY <1>4, <2>1 DEF PreTake, TypeOK
    <3> QED
      BY <1>4, <3>2, <3>3 DEF PreTake, TypeOK, historyVars, Req, Results
  <2>2. CASE ~PreviewWanted
    BY <1>4, <2>2 DEF PreTake, TypeOK, historyVars, submitVars, seamVars
  <2> QED   BY <2>1, <2>2
<1>5. CASE NoTake
  BY <1>5 DEF NoTake, TypeOK, takeVars, submitVars, seamVars, historyVars
<1>6. CASE TakePreview
  <2>1. preview.block \in Blocks /\ GoLive(preview.block)
    BY <1>6, <1>0 DEF TakePreview, PreviewFirst, TypeOK
  <2>2. /\ live' \in Blocks \cup {0} /\ fence' = (IF live' = 0 THEN NoFence ELSE live')
        /\ aired' \in Seq(Blocks) /\ pc' = "kick" /\ kicks' \in 0..2
    BY <2>1, GoLiveProperties
  <2> QED
    BY <1>6, <2>2 DEF TakePreview, TypeOK, submitVars, seamVars, Results
<1>7. CASE TakeMissed
  <2>1. degraded' \in BOOLEAN /\ pc' \in {"load", "fence"}
    BY <1>7 DEF TakeMissed, Holds, TypeOK
  <2> QED
    BY <1>7, <2>1 DEF TakeMissed, TypeOK, submitVars, seamVars, historyVars
<1>8. CASE FenceTakesSlot
  <2>1. CASE slot # NoResult
    <3>1. slot.block \in Blocks /\ GoLive(slot.block) /\ TakeResult(FALSE)
      BY <1>8, <2>1, <1>0 DEF FenceTakesSlot, TypeOK
    <3>2. /\ live' \in Blocks \cup {0} /\ fence' = (IF live' = 0 THEN NoFence ELSE live')
          /\ aired' \in Seq(Blocks) /\ pc' = "kick" /\ kicks' \in 0..2
      BY <3>1, GoLiveProperties
    <3>3. /\ slot' = NoResult /\ lastValid' = FALSE /\ retried' \in 0..MaxBlock
          /\ requests' \in Seq(Req)
          /\ lastSubmitted' = lastSubmitted /\ expectContent' = expectContent /\ worker' = worker
      BY <3>1, <2>1, TakeProperties
    <3> QED
      BY <1>8, <3>2, <3>3 DEF FenceTakesSlot, TypeOK, takeVars, Req, Results
  <2>2. CASE slot = NoResult
    BY <1>8, <2>2 DEF FenceTakesSlot, TypeOK, takeVars, submitVars, seamVars
  <2> QED   BY <2>1, <2>2
<1>9. CASE FenceTakesQueue
  <2>1. queue # <<>> /\ queue' = Tail(queue) /\ fed' = fed /\ overtaken' \in BOOLEAN
    BY <1>9 DEF FenceTakesQueue, PopQueue, TypeOK, Preparing
  <2>2. /\ Head(queue) \in Blocks /\ queue' \in Seq(Blocks) /\ Len(queue') <= QueueDepth
    BY <2>1, PopProperties DEF TypeOK
  <2>3. GoLive(Head(queue))
    BY <1>9 DEF FenceTakesQueue
  <2>4. /\ live' \in Blocks \cup {0} /\ fence' = (IF live' = 0 THEN NoFence ELSE live')
        /\ aired' \in Seq(Blocks) /\ pc' = "kick" /\ kicks' \in 0..2
    BY <2>2, <2>3, GoLiveProperties
  <2> QED
    BY <1>9, <2>1, <2>2, <2>4 DEF FenceTakesQueue, TypeOK, takeVars, submitVars, seamVars
<1>10. CASE EnterGap
  BY <1>10 DEF EnterGap, EmptyLive, TypeOK, takeVars, submitVars, seamVars, historyVars
<1>11. CASE Load
  <2>1. CASE ~(live = 0 /\ fence = NoFence)
    BY <1>11, <2>1 DEF Load, TypeOK, submitVars, seamVars
  <2>2. CASE live = 0 /\ fence = NoFence /\ preview # NoResult
    <3>1. preview.block \in Blocks /\ GoLive(preview.block)
      BY <1>11, <2>2, <1>0 DEF Load, TypeOK
    <3>2. /\ live' \in Blocks \cup {0} /\ fence' = (IF live' = 0 THEN NoFence ELSE live')
          /\ aired' \in Seq(Blocks) /\ pc' = "kick" /\ kicks' \in 0..2
      BY <3>1, GoLiveProperties
    <3> QED
      BY <1>11, <2>2, <3>2 DEF Load, TypeOK, submitVars, seamVars, Results
  <2>3. CASE live = 0 /\ fence = NoFence /\ preview = NoResult /\ slot # NoResult
    <3>1. slot.block \in Blocks /\ GoLive(slot.block) /\ TakeResult(FALSE)
      BY <1>11, <2>3, <1>0 DEF Load, TypeOK
    <3>2. /\ live' \in Blocks \cup {0} /\ fence' = (IF live' = 0 THEN NoFence ELSE live')
          /\ aired' \in Seq(Blocks) /\ pc' = "kick" /\ kicks' \in 0..2
      BY <3>1, GoLiveProperties
    <3>3. /\ slot' = NoResult /\ lastValid' = FALSE /\ retried' \in 0..MaxBlock
          /\ requests' \in Seq(Req)
          /\ lastSubmitted' = lastSubmitted /\ expectContent' = expectContent /\ worker' = worker
      BY <3>1, <2>3, TakeProperties
    <3> QED
      BY <1>11, <2>3, <3>2, <3>3 DEF Load, TypeOK, Req, Results
  <2>4. CASE live = 0 /\ fence = NoFence /\ preview = NoResult /\ slot = NoResult
    BY <1>11, <2>4 DEF Load, TypeOK, submitVars, seamVars
  <2> QED   BY <2>1, <2>2, <2>3, <2>4
<1>12. CASE LoadQueue
  <2>1. CASE PopQueue /\ GoLive(Head(queue))
    <3>1. queue # <<>> /\ queue' = Tail(queue) /\ fed' = fed /\ overtaken' \in BOOLEAN
      BY <1>12, <2>1 DEF LoadQueue, PopQueue, TypeOK, Preparing
    <3>2. /\ Head(queue) \in Blocks /\ queue' \in Seq(Blocks) /\ Len(queue') <= QueueDepth
      BY <3>1, PopProperties DEF TypeOK
    <3>3. /\ live' \in Blocks \cup {0} /\ fence' = (IF live' = 0 THEN NoFence ELSE live')
          /\ aired' \in Seq(Blocks) /\ pc' = "kick" /\ kicks' \in 0..2
      BY <2>1, <3>2, GoLiveProperties
    <3> QED
      BY <1>12, <3>1, <3>2, <3>3 DEF LoadQueue, TypeOK, takeVars, submitVars, seamVars
  <2>2. CASE queue = <<>> /\ pc' = "kick" /\ kicks' = 1
               /\ UNCHANGED <<queue, live, fence, aired, overtaken>>
    BY <1>12, <2>2 DEF LoadQueue, TypeOK, takeVars, submitVars, seamVars
  <2> QED   BY <1>12, <2>1, <2>2 DEF LoadQueue
<1>13. CASE Kick
  <2>1. pc' \in {"kick", "submit", "pretake"} /\ kicks' \in 0..2
    BY <1>13 DEF Kick, EndOfKick, TypeOK
  <2> QED
    BY <1>13, <2>1 DEF Kick, TypeOK, takeVars, submitVars, seamVars, historyVars
<1>14. CASE KickSubmits
  <2>1. pc' \in {"kick", "submit", "pretake"} /\ kicks' \in 0..2
    BY <1>14 DEF KickSubmits, EndOfKick
  <2>2. CASE queue = <<>>
    BY <1>14, <2>1, <2>2 DEF KickSubmits, TypeOK, takeVars, submitVars
  <2>3. CASE queue # <<>>
    <3> DEFINE b == Head(queue)
    <3>1. queue' = Tail(queue) /\ fed' = fed /\ overtaken' \in BOOLEAN
      BY <1>14, <2>3 DEF KickSubmits, PopQueue, TypeOK, Preparing
    <3>2. /\ b \in Blocks /\ queue' \in Seq(Blocks) /\ Len(queue') <= QueueDepth
      BY <3>1, <2>3, PopProperties DEF TypeOK
    <3>3. Submit(b, fence)
      BY <1>14, <2>3 DEF KickSubmits
    <3>4. requests' \in Seq(Req)
      BY <3>2, <3>3, <1>0, SubmitProperties
    <3>5. /\ lastSubmitted' \in 0..MaxBlock /\ lastValid' \in BOOLEAN
          /\ expectContent' \in BOOLEAN /\ retried' \in 0..MaxBlock
      BY <1>14, <2>3, <3>2, <1>0 DEF KickSubmits, TypeOK
    <3> QED
      BY <1>14, <2>1, <3>1, <3>2, <3>4, <3>5 DEF KickSubmits, TypeOK, takeVars, Req
  <2> QED   BY <2>2, <2>3
<1>15. CASE FillPrimes
  BY <1>15 DEF FillPrimes, TypeOK, submitVars, seamVars, historyVars
<1>16. CASE FillFails
  <2>1. PICK dec \in BOOLEAN : preview' = [preview EXCEPT !.dec = dec]
    BY <1>16 DEF FillFails
  <2>2. preview \in [block : Blocks, dec : BOOLEAN]
    BY <1>16 DEF FillFails, PhaseInv, TypeOK, Results
  <2>3. preview' \in Results
    BY <2>1, <2>2 DEF Results
  <2>4. failures' \in 0..MaxFailures
    BY <1>16 DEF FillFails, TypeOK
  <2> QED
    BY <1>16, <2>3, <2>4 DEF FillFails, TypeOK, submitVars, seamVars
<1>17. CASE Advance
  BY <1>17 DEF Advance, TypeOK, takeVars, submitVars, seamVars, historyVars
<1>18. CASE Feed
  <2>1. fed + 1 \in Blocks /\ fed' = fed + 1
    BY <1>18 DEF Feed, TypeOK, Blocks
  <2>2. queue' \in Seq(Blocks) /\ Len(queue') <= QueueDepth
    BY <1>18, <2>1 DEF Feed, TypeOK
  <2> QED
    BY <1>18, <2>1, <2>2 DEF Feed, TypeOK, takeVars, submitVars, seamVars, historyVars
<1> QED
  BY <1>1, <1>2, <1>3, <1>4, <1>5, <1>6, <1>7, <1>8, <1>9, <1>10, <1>11, <1>12, <1>13,
     <1>14, <1>15, <1>16, <1>17, <1>18 DEF Next, Tick, Worker

-----------------------------------------------------------------------------
(* The place in the tick.                                                  *)

LEMMA PhaseStep ==
  ASSUME TypeOK, PhaseInv, Next
  PROVE  PhaseInv'
<1> USE DEF PhaseInv
<1>0. fed \in Int /\ (fill # "off" => preview # NoResult)
  BY DEF TypeOK, Blocks
<1>1. CASE WorkerTake
  <2>1. pc # "start"
    BY <1>1 DEF WorkerTake, Preparing
  <2> QED   BY <1>1, <2>1 DEF WorkerTake, takeVars, historyVars
<1>2. CASE WorkerDone
  <2>1. pc # "start"
    BY <1>2 DEF WorkerDone, Preparing
  <2> QED   BY <1>2, <2>1 DEF WorkerDone, takeVars
<1>3. CASE Start
  BY <1>3 DEF Start, takeVars
<1>4. CASE PreTake
  BY <1>4 DEF PreTake, PreviewWanted
<1>5. CASE NoTake
  BY <1>5 DEF NoTake, takeVars
<1>6. CASE TakePreview
  BY <1>6 DEF TakePreview, GoLive
<1>7. CASE TakeMissed
  <2>1. preview' = NoResult /\ preview = NoResult /\ fill' = fill /\ fed' = fed /\ kicks' = kicks
        /\ pc = "take" /\ pc' # "start"
    BY <1>7 DEF TakeMissed, PreviewFirst
  <2> QED   BY <2>1
<1>8. CASE FenceTakesSlot
  BY <1>8 DEF FenceTakesSlot, GoLive, takeVars
<1>9. CASE FenceTakesQueue
  BY <1>9 DEF FenceTakesQueue, GoLive, takeVars
<1>10. CASE EnterGap
  BY <1>10 DEF EnterGap, takeVars
<1>11. CASE Load
  BY <1>11 DEF Load, GoLive
<1>12. CASE LoadQueue
  BY <1>12 DEF LoadQueue, GoLive, takeVars
<1>13. CASE Kick
  BY <1>13 DEF Kick, EndOfKick, takeVars
<1>14. CASE KickSubmits
  BY <1>14 DEF KickSubmits, EndOfKick, takeVars
<1>15. CASE FillPrimes
  BY <1>15 DEF FillPrimes, Preparing, seamVars, historyVars
<1>16. CASE FillFails
  <2>1. PICK dec \in BOOLEAN : preview' = [preview EXCEPT !.dec = dec]
    BY <1>16 DEF FillFails
  <2>2. preview # NoResult /\ preview \in Results /\ fill = "running"
    BY <1>16 DEF FillFails, TypeOK
  <2>3. preview.block # 0 /\ preview'.block = preview.block
    BY <2>1, <2>2 DEF Results, Blocks
  <2>4. preview' # NoResult
    BY <2>3 DEF NoResult
  <2> QED   BY <1>16, <2>2, <2>4 DEF FillFails
<1>17. CASE Advance
  BY <1>17 DEF Advance, takeVars
<1>18. CASE Feed
  <2>1. queue \in Seq(Blocks) /\ Len(queue) \in Nat
    BY DEF TypeOK
  <2>2. Len(queue') = Len(queue) + 1
    BY <1>18, <2>1 DEF Feed
  <2> QED   BY <1>18, <1>0, <2>1, <2>2 DEF Feed, Preparing, takeVars, seamVars, historyVars
<1> QED
  BY <1>1, <1>2, <1>3, <1>4, <1>5, <1>6, <1>7, <1>8, <1>9, <1>10, <1>11, <1>12, <1>13,
     <1>14, <1>15, <1>16, <1>17, <1>18 DEF Next, Tick, Worker

-----------------------------------------------------------------------------
(* The hold.                                                               *)

LEMMA HoldStep ==
  ASSUME TypeOK, PhaseInv, HoldInv, QueueInv, Next
  PROVE  HoldInv'
<1> USE PrerollAssumption DEF HoldInv
<1>0. /\ requests \in Seq(Req) /\ fence \in 1..NoFence /\ NoFence \in 1..NoFence
      /\ (live = 0 <=> fence = NoFence)
      /\ \A r \in Results : r # NoResult => r.block \in Blocks
      /\ degraded \in BOOLEAN /\ lastValid \in BOOLEAN
      /\ 0 \notin Blocks
  BY DEF TypeOK, Req, NoFence, Blocks, Results, NoResult
<1>1. CASE WorkerTake
  <2>1. worker' # 0
    <3>1. Head(requests) \in Req
      BY <1>0, <1>1, HeadTailProperties DEF WorkerTake
    <3> QED   BY <3>1, <1>0, <1>1 DEF WorkerTake, Req
  <2> QED   BY <1>1, <2>1 DEF WorkerTake, takeVars, submitVars, Preparing
<1>2. CASE WorkerDone
  <2>1. slot' # NoResult
    BY <1>2 DEF WorkerDone, NoResult
  <2> QED   BY <1>2, <2>1 DEF WorkerDone, takeVars, submitVars, Preparing
<1>3. CASE Start
  <2>1. queue \in Seq(Blocks) /\ Len(queue) >= 2 /\ ~degraded
    BY <1>3 DEF Start, PhaseInv, TypeOK
  <2>2. queue[2] \in Blocks /\ Submit(queue[2], NoFence)
    BY <1>3, <2>1 DEF Start
  <2>3. requests' # <<>>
    BY <2>2, <1>0, SubmitProperties
  <2> QED   BY <1>3, <2>1, <2>3 DEF Start, Preparing, takeVars
<1>4. CASE PreTake
  <2>1. CASE PreviewWanted
    <3>1. PICK headroom \in BOOLEAN : TakeResult(headroom)
      BY <1>4, <2>1 DEF PreTake
    <3>2. lastValid' = FALSE
      BY <3>1 DEF TakeResult
    <3> QED   BY <1>4, <2>1, <3>2 DEF PreTake, PreviewWanted
  <2>2. CASE ~PreviewWanted
    BY <1>4, <2>2 DEF PreTake, submitVars, seamVars, Preparing
  <2> QED   BY <2>1, <2>2
<1>5. CASE NoTake
  BY <1>5 DEF NoTake, takeVars, submitVars, seamVars, Preparing
<1>6. CASE TakePreview
  BY <1>6 DEF TakePreview, submitVars, seamVars, Preparing
<1>7. CASE TakeMissed
  <2>1. fence # NoFence /\ live # 0 /\ live' = live
    BY <1>7, <1>0 DEF TakeMissed, FenceDue
  <2>2. /\ lastValid' = lastValid /\ preview' = preview /\ requests' = requests
        /\ worker' = worker /\ slot' = slot
    BY <1>7 DEF TakeMissed, submitVars, seamVars
  <2>3. Holds => preview # NoResult \/ Preparing
    BY DEF Holds
  <2>4. degraded' => pc' = "load"
    BY <1>7 DEF TakeMissed
  <2>5. degraded' => Holds
    BY <1>7 DEF TakeMissed
  <2> QED   BY <2>1, <2>2, <2>3, <2>4, <2>5 DEF Preparing
<1>8. CASE FenceTakesSlot
  <2>1. ~degraded' /\ degraded' = degraded
    BY <1>8 DEF FenceTakesSlot, takeVars
  <2>2. CASE slot # NoResult
    BY <1>8, <2>1, <2>2 DEF FenceTakesSlot, TakeResult
  <2>3. CASE slot = NoResult
    BY <1>8, <2>1, <2>3 DEF FenceTakesSlot, submitVars, seamVars, Preparing
  <2> QED   BY <2>2, <2>3
<1>9. CASE FenceTakesQueue
  BY <1>9 DEF FenceTakesQueue, takeVars, submitVars, seamVars, Preparing
<1>10. CASE EnterGap
  BY <1>10 DEF EnterGap, takeVars, submitVars, seamVars, Preparing
<1>11. CASE Load
  <2>1. degraded' = degraded
    BY <1>11 DEF Load
  <2>2. CASE ~(live = 0 /\ fence = NoFence)
    BY <1>11, <2>1, <2>2 DEF Load, submitVars, seamVars, Preparing
  <2>3. CASE live = 0 /\ fence = NoFence
    <3>1. ~degraded
      BY <2>3
    <3>2. CASE preview # NoResult
      BY <1>11, <2>1, <2>3, <3>1, <3>2 DEF Load, submitVars, seamVars, Preparing
    <3>3. CASE preview = NoResult /\ slot # NoResult
      BY <1>11, <2>1, <2>3, <3>1, <3>3 DEF Load, TakeResult
    <3>4. CASE preview = NoResult /\ slot = NoResult
      BY <1>11, <2>1, <2>3, <3>1, <3>4 DEF Load, submitVars, seamVars, Preparing
    <3> QED   BY <3>2, <3>3, <3>4
  <2> QED   BY <2>2, <2>3
<1>12. CASE LoadQueue
  <2>1. /\ lastValid' = lastValid /\ preview' = preview /\ requests' = requests
        /\ worker' = worker /\ slot' = slot /\ degraded' = degraded /\ pc' = "kick"
    BY <1>12 DEF LoadQueue, GoLive, takeVars, submitVars, seamVars
  <2>2. degraded => live' # 0
    <3>1. CASE PopQueue /\ GoLive(Head(queue))
      <4>1. queue # <<>> /\ queue \in Seq(Blocks)
        BY <3>1 DEF PopQueue, TypeOK
      <4> QED   BY <3>1, <4>1, <1>0, HeadTailProperties DEF GoLive
    <3>2. CASE ~(PopQueue /\ GoLive(Head(queue)))
      BY <1>12, <3>2 DEF LoadQueue
    <3> QED   BY <3>1, <3>2
  <2> QED   BY <2>1, <2>2 DEF Preparing
<1>13. CASE Kick
  BY <1>13 DEF Kick, EndOfKick, takeVars, submitVars, seamVars, Preparing
<1>14. CASE KickSubmits
  <2>1. degraded' = degraded /\ live' = live /\ preview' = preview
        /\ worker' = worker /\ slot' = slot /\ pc' \in {"kick", "pretake"}
    BY <1>14 DEF KickSubmits, EndOfKick, takeVars
  <2>2. CASE queue = <<>>
    BY <1>14, <2>1, <2>2 DEF KickSubmits, submitVars, Preparing
  <2>3. CASE queue # <<>>
    <3>1. Head(queue) \in Blocks /\ Submit(Head(queue), fence)
      BY <1>14, <2>3, HeadTailProperties DEF KickSubmits, TypeOK
    <3>2. requests' # <<>>
      BY <3>1, <1>0, SubmitProperties
    <3> QED   BY <2>1, <3>2 DEF Preparing
  <2> QED   BY <2>2, <2>3
<1>15. CASE FillPrimes
  BY <1>15 DEF FillPrimes, submitVars, seamVars, Preparing
<1>16. CASE FillFails
  <2>1. preview' # NoResult
    <3>1. PICK dec \in BOOLEAN : preview' = [preview EXCEPT !.dec = dec]
      BY <1>16 DEF FillFails
    <3>2. preview \in [block : Blocks, dec : BOOLEAN]
      BY <1>16 DEF FillFails, PhaseInv, TypeOK, Results
    <3>3. preview'.block # 0
      BY <3>1, <3>2, <1>0
    <3> QED   BY <3>3 DEF NoResult
  <2> QED   BY <1>16, <2>1 DEF FillFails, submitVars, seamVars, Preparing
<1>17. CASE Advance
  BY <1>17 DEF Advance, takeVars, submitVars, seamVars, Preparing
<1>18. CASE Feed
  BY <1>18 DEF Feed, takeVars, submitVars, seamVars, Preparing
<1> QED
  BY <1>1, <1>2, <1>3, <1>4, <1>5, <1>6, <1>7, <1>8, <1>9, <1>10, <1>11, <1>12, <1>13,
     <1>14, <1>15, <1>16, <1>17, <1>18 DEF Next, Tick, Worker

-----------------------------------------------------------------------------
(* The queue, and who has which block.                                     *)

\* Every action but four leaves the queue of blocks alone.
LEMMA QueueStep ==
  ASSUME TypeOK, PhaseInv, QueueInv, Next
  PROVE  QueueInv'
<1>0. queue \in Seq(Blocks) /\ fed \in Int /\ Len(queue) \in Nat
  BY DEF TypeOK, Blocks
<1>1. CASE UNCHANGED <<queue, fed>>
  BY <1>1 DEF QueueInv
<1>2. CASE queue # <<>> /\ queue' = Tail(queue) /\ fed' = fed
  BY <1>2, PopProperties
<1>3. CASE Start
  <2>1. Len(queue) >= 2 /\ fed' = fed /\ queue' = SubSeq(queue, 3, Len(queue))
    BY <1>3 DEF Start, PhaseInv
  <2>2. Len(queue') = Len(queue) - 2 /\ \A k \in 1..(Len(queue) - 2) : queue'[k] = queue[k + 2]
    BY <2>1, <1>0, PopTwoProperties
  <2>3. SUFFICES ASSUME NEW k \in 1..(Len(queue) - 2)
                 PROVE  queue[k + 2] = fed - (Len(queue) - 2) + k
    BY <2>1, <2>2 DEF QueueInv
  <2>4. k + 2 \in 1..Len(queue)
    BY <1>0, <2>1
  <2> QED   BY <2>4, <1>0 DEF QueueInv
<1>4. CASE Feed
  <2>1. fed' = fed + 1 /\ queue' = Append(queue, fed + 1)
    BY <1>4 DEF Feed
  <2>2. Len(queue') = Len(queue) + 1 /\ queue'[Len(queue) + 1] = fed + 1
        /\ \A k \in 1..Len(queue) : queue'[k] = queue[k]
    BY <2>1, <1>0
  <2> QED   BY <2>1, <2>2, <1>0 DEF QueueInv
<1>5. \/ UNCHANGED <<queue, fed>>
      \/ queue # <<>> /\ queue' = Tail(queue) /\ fed' = fed
      \/ Start \/ Feed
  BY DEF Next, Tick, Worker, PreTake, NoTake, TakePreview, TakeMissed, FenceTakesSlot,
         FenceTakesQueue, EnterGap, Load, LoadQueue, Kick, KickSubmits, PopQueue,
         WorkerTake, WorkerDone, FillPrimes, FillFails, Advance
<1> QED
  BY <1>1, <1>2, <1>3, <1>4, <1>5

\* Nothing is lost: what leaves one place is in the next.
LEMMA LossStep ==
  ASSUME TypeOK, PhaseInv, QueueInv, NoSilentLoss, Next
  PROVE  NoSilentLoss'
<1> DEFINE Held == Range(queue) \cup BlocksOf(requests) \cup {worker, slot.block, preview.block}
                   \cup Range(aired) \cup overwritten
<1>0. /\ queue \in Seq(Blocks) /\ fed \in Int /\ requests \in Seq(Req) /\ aired \in Seq(Blocks)
      /\ fence \in 1..NoFence /\ NoFence \in 1..NoFence
      /\ slot \in Results /\ preview \in Results
      /\ \A r \in Results : r # NoResult => r.block \in Blocks
      /\ NoResult.block = 0
  BY PrerollAssumption DEF TypeOK, Req, Blocks, NoFence, Results, NoResult
<1>1. 1..fed \subseteq Held
  BY DEF NoSilentLoss, BlocksOf
<1>2. ASSUME fed' = fed, Held \subseteq Held' \cup {0}  PROVE NoSilentLoss'
  <2>1. 1..fed' \subseteq Held'
    BY <1>0, <1>1, <1>2
  <2> QED   BY <2>1 DEF NoSilentLoss, BlocksOf
<1>3. CASE WorkerTake
  <2>1. requests # <<>> /\ worker' = Head(requests).block /\ requests' = Tail(requests)
    BY <1>3 DEF WorkerTake
  <2>2. BlocksOf(requests) \subseteq BlocksOf(requests') \cup {worker'}
    <3>1. /\ Head(requests) = requests[1] /\ requests' \in Seq(Req)
          /\ Len(requests) \in Nat /\ Len(requests') = Len(requests) - 1
          /\ \A k \in 1..(Len(requests) - 1) : requests'[k] = requests[k + 1]
      BY <2>1, <1>0, HeadTailProperties
    <3>2. DOMAIN requests = 1..Len(requests) /\ DOMAIN requests' = 1..(Len(requests) - 1)
      BY <1>0, <3>1
    <3>3. SUFFICES ASSUME NEW k \in 1..Len(requests), k # 1
                   PROVE  requests[k].block \in BlocksOf(requests')
      BY <2>1, <3>1, <3>2 DEF BlocksOf
    <3>4. k - 1 \in 1..(Len(requests) - 1) /\ requests'[k - 1] = requests[k]
      BY <3>1, <3>3
    <3> QED   BY <3>2, <3>4 DEF BlocksOf
  <2>3. worker = 0
    BY <1>3 DEF WorkerTake
  <2> QED
    BY <1>2, <1>3, <2>2, <2>3 DEF WorkerTake, takeVars, historyVars
<1>4. CASE WorkerDone
  <2>1. slot'.block = worker
    BY <1>4 DEF WorkerDone
  <2> QED   BY <1>2, <1>4, <2>1 DEF WorkerDone, takeVars
<1>5. CASE Start
  <2>1. Len(queue) >= 2 /\ queue' = SubSeq(queue, 3, Len(queue))
    BY <1>5 DEF Start, PhaseInv
  <2>2. Range(queue) \subseteq Range(queue') \cup {queue[1], queue[2]}
        /\ Head(queue) = queue[1] /\ queue[1] \in Blocks /\ queue[2] \in Blocks
    BY <2>1, <1>0, PopTwoProperties
  <2>3. Range(aired') = Range(aired) \cup {queue[1]}
    BY <1>5, <2>2, <1>0, AirProperties DEF Start
  <2>4. BlocksOf(requests') = BlocksOf(requests) \cup {queue[2]}
    BY <1>5, <2>2, <1>0, SubmitProperties DEF Start
  <2> QED   BY <1>2, <1>5, <2>2, <2>3, <2>4 DEF Start, takeVars
<1>6. CASE PreTake
  <2>1. CASE PreviewWanted
    <3>1. PICK headroom \in BOOLEAN : TakeResult(headroom)
      BY <1>6, <2>1 DEF PreTake
    <3>2. BlocksOf(requests) \subseteq BlocksOf(requests') /\ worker' = worker
      BY <3>1, <2>1, TakeProperties DEF PreviewWanted
    <3>3. preview = NoResult /\ preview' = slot
      BY <1>6, <2>1 DEF PreTake, PreviewWanted
    <3> QED   BY <1>0, <1>2, <1>6, <3>2, <3>3 DEF PreTake, historyVars
  <2>2. CASE ~PreviewWanted
    BY <1>2, <1>6, <2>2 DEF PreTake, seamVars, historyVars
  <2> QED   BY <2>1, <2>2
<1>7. CASE UNCHANGED <<queue, fed, requests, worker, slot, preview, aired, overwritten>>
  BY <1>2, <1>7
<1>8. ASSUME preview # NoResult, GoLive(preview.block), preview' = NoResult,
             UNCHANGED <<queue, fed, requests, worker, slot, overwritten>>
      PROVE  NoSilentLoss'
  <2>1. preview.block \in Blocks
    BY <1>0, <1>8
  <2>2. Range(aired') = Range(aired) \cup {preview.block}
    BY <1>8, <2>1, GoLiveProperties
  <2> QED   BY <1>2, <1>8, <2>2
<1>9. CASE TakePreview
  BY <1>8, <1>9 DEF TakePreview, PreviewFirst, seamVars
<1>10. ASSUME slot # NoResult, GoLive(slot.block), TakeResult(FALSE),
              UNCHANGED <<queue, fed, preview, overwritten>>
       PROVE  NoSilentLoss'
  <2>1. slot.block \in Blocks
    BY <1>0, <1>10
  <2>2. Range(aired') = Range(aired) \cup {slot.block}
    BY <1>10, <2>1, GoLiveProperties
  <2>3. BlocksOf(requests) \subseteq BlocksOf(requests') /\ worker' = worker
    BY <1>10, TakeProperties
  <2> QED   BY <1>2, <1>10, <2>2, <2>3
<1>11. CASE FenceTakesSlot
  BY <1>7, <1>10, <1>11 DEF FenceTakesSlot, takeVars, seamVars
<1>12. ASSUME PopQueue, GoLive(Head(queue)),
              UNCHANGED <<fed, requests, worker, slot, preview, overwritten>>
       PROVE  NoSilentLoss'
  <2>1. /\ Head(queue) \in Blocks
        /\ Range(queue) \subseteq Range(queue') \cup {Head(queue)}
    BY <1>12, PopProperties DEF PopQueue
  <2>2. Range(aired') = Range(aired) \cup {Head(queue)}
    BY <1>12, <2>1, GoLiveProperties
  <2> QED   BY <1>2, <1>12, <2>1, <2>2
<1>13. CASE FenceTakesQueue
  BY <1>12, <1>13 DEF FenceTakesQueue, takeVars, seamVars
<1>14. CASE LoadQueue
  BY <1>7, <1>12, <1>14 DEF LoadQueue, takeVars, seamVars
<1>15. CASE Load
  BY <1>7, <1>8, <1>10, <1>15 DEF Load, seamVars
<1>16. CASE KickSubmits
  <2>1. CASE queue = <<>>
    BY <1>7, <1>16, <2>1 DEF KickSubmits, takeVars
  <2>2. CASE queue # <<>>
    <3>1. /\ PopQueue /\ fed' = fed /\ Submit(Head(queue), fence) /\ worker' = worker
          /\ slot' = slot /\ preview' = preview /\ aired' = aired /\ overwritten' = overwritten
      BY <1>16, <2>2 DEF KickSubmits, takeVars
    <3>2. /\ Head(queue) \in Blocks
          /\ Range(queue) \subseteq Range(queue') \cup {Head(queue)}
      BY <3>1, PopProperties DEF PopQueue
    <3>3. BlocksOf(requests') = BlocksOf(requests) \cup {Head(queue)}
      BY <3>1, <3>2, <1>0, SubmitProperties
    <3> QED   BY <1>2, <3>1, <3>2, <3>3
  <2> QED   BY <2>1, <2>2
<1>17. CASE FillFails
  <2>1. PICK dec \in BOOLEAN : preview' = [preview EXCEPT !.dec = dec]
    BY <1>17 DEF FillFails
  <2>2. preview'.block = preview.block
    BY <2>1, <1>0 DEF Results, NoResult
  <2> QED   BY <1>2, <1>17, <2>2 DEF FillFails, submitVars, seamVars
<1>18. CASE Feed
  <2>1. fed' = fed + 1 /\ queue' = Append(queue, fed + 1) /\ fed + 1 \in Blocks
    BY <1>18, PrerollAssumption DEF Feed, TypeOK, Blocks
  <2>2. Range(queue') = Range(queue) \cup {fed + 1}
    BY <2>1, <1>0, AirProperties
  <2>3. 1..fed' \subseteq 1..fed \cup {fed + 1}
    BY <2>1, <1>0
  <2>4. Held' = Held \cup {fed + 1}
    BY <1>18, <2>2 DEF Feed, takeVars, seamVars, historyVars
  <2> QED   BY <1>1, <2>3, <2>4 DEF NoSilentLoss, BlocksOf
<1>19. CASE NoTake \/ TakeMissed \/ EnterGap \/ Kick \/ FillPrimes \/ Advance
  BY <1>7, <1>19 DEF NoTake, TakeMissed, EnterGap, Kick, FillPrimes, Advance,
                     takeVars, seamVars, historyVars
<1> QED
  BY <1>3, <1>4, <1>5, <1>6, <1>9, <1>11, <1>13, <1>14, <1>15, <1>16, <1>17, <1>18, <1>19
  DEF Next, Tick, Worker

-----------------------------------------------------------------------------
(* The order.                                                              *)

LEMMA OrderStep ==
  ASSUME TypeOK, PhaseInv, QueueInv, OneInv, OrderInv, Next
  PROVE  OneInv' /\ OrderInv'
<1>0. /\ queue \in Seq(Blocks) /\ fed \in Int /\ requests \in Seq(Req) /\ aired \in Seq(Blocks)
      /\ fence \in 1..NoFence /\ NoFence \in 1..NoFence
      /\ slot \in Results /\ preview \in Results /\ worker \in 0..MaxBlock
      /\ \A r \in Results : r # NoResult => r.block \in Blocks
      /\ \A b \in Blocks : b \in Int /\ b # 0
      /\ LastOut \in Int /\ overtaken \in BOOLEAN
      /\ pc = "start" \/ overtaken \/ aired # <<>>
  <2>1. fence \in 1..NoFence /\ NoFence \in 1..NoFence
    BY PrerollAssumption DEF TypeOK, NoFence, Blocks
  <2>2. \A b \in Blocks : b \in Int /\ b # 0
    BY DEF Blocks
  <2>3. \A r \in Results : r # NoResult => r.block \in Blocks
    BY DEF Results
  <2>4. /\ queue \in Seq(Blocks) /\ fed \in Int /\ requests \in Seq(Req) /\ aired \in Seq(Blocks)
        /\ slot \in Results /\ preview \in Results /\ worker \in 0..MaxBlock
        /\ overtaken \in BOOLEAN
    BY <2>2 DEF TypeOK, Req
  <2>5. LastOut \in Int
    BY <2>4, LenProperties DEF LastOut
  <2>6. pc = "start" \/ overtaken \/ aired # <<>>
    BY DEF OrderInv
  <2> QED   BY <2>1, <2>2, <2>3, <2>4, <2>5, <2>6
<1>1. CASE WorkerTake
  <2>1. /\ Head(requests) = requests[1] /\ requests' \in Seq(Req)
        /\ Len(requests) \in Nat /\ Len(requests') = Len(requests) - 1
        /\ Head(requests) \in Req
    BY <1>0, <1>1, HeadTailProperties DEF WorkerTake
  <2>2. worker' = requests[1].block /\ worker' # 0 /\ slot' = slot /\ Preparing /\ Preparing'
    BY <1>0, <1>1, <2>1 DEF WorkerTake, Req, Preparing
  <2>3. UNCHANGED <<overtaken, pc, preview, aired, LastOut, LastAired>>
    BY <1>1 DEF WorkerTake, takeVars, historyVars, LastOut, LastAired
  <2>4. SUFFICES ASSUME ~overtaken  PROVE OneInv' /\ OrderInv'
    BY <2>3 DEF OneInv, OrderInv
  <2>5. requests' = <<>> /\ slot' = NoResult /\ worker' = LastOut
    <3>1. requests # <<>> /\ Len(requests) <= 1 /\ slot = NoResult /\ requests[1].block = LastOut
      BY <1>1, <2>4 DEF WorkerTake, OneInv, OrderInv
    <3>2. Len(requests') = 0
      BY <3>1, <2>1
    <3> QED   BY <3>1, <3>2, <2>1, <2>2, EmptySeq
  <2>6. OneInv'
    BY <2>5 DEF OneInv
  <2> QED
    BY <2>2, <2>3, <2>4, <2>5, <2>6 DEF OrderInv
<1>2. CASE WorkerDone
  <2>1. /\ slot'.block = worker /\ slot' # NoResult /\ worker # 0 /\ worker' = 0
        /\ requests' = requests /\ Preparing /\ Preparing'
    BY <1>2 DEF WorkerDone, NoResult, Preparing
  <2>2. UNCHANGED <<overtaken, pc, preview, aired, LastOut, LastAired>>
    BY <1>2 DEF WorkerDone, takeVars, LastOut, LastAired
  <2>3. SUFFICES ASSUME ~overtaken  PROVE OneInv' /\ OrderInv'
    BY <2>2 DEF OneInv, OrderInv
  <2>4. requests = <<>> /\ worker = LastOut
    BY <2>1, <2>3 DEF OneInv, OrderInv
  <2> QED
    BY <2>1, <2>2, <2>3, <2>4 DEF OneInv, OrderInv
<1>3. CASE Start
  <2>1. /\ Len(queue) >= 2 /\ aired = <<>> /\ preview = NoResult /\ ~Preparing
        /\ queue' = SubSeq(queue, 3, Len(queue)) /\ fed' = fed
        /\ aired' = Append(aired, Head(queue)) /\ Submit(queue[2], NoFence)
        /\ pc' = "pretake" /\ UNCHANGED <<preview, worker, slot, overtaken>>
    BY <1>3 DEF Start, PhaseInv, takeVars
  <2>2. Len(queue') = Len(queue) - 2 /\ Len(queue) \in Nat
        /\ Head(queue) = queue[1] /\ queue[1] \in Blocks /\ queue[2] \in Blocks
    BY <2>1, <1>0, PopTwoProperties
  <2>3. LastOut' = LastOut + 2 /\ queue[1] = LastOut + 1 /\ queue[2] = LastOut + 2
    <3>1. 1 \in 1..Len(queue) /\ 2 \in 1..Len(queue)
      BY <2>1, <2>2
    <3>2. queue[1] = fed - Len(queue) + 1 /\ queue[2] = fed - Len(queue) + 2
      BY <3>1 DEF QueueInv
    <3>3. LastOut' = fed - (Len(queue) - 2)
      BY <2>1, <2>2 DEF LastOut
    <3> QED   BY <3>2, <3>3, <2>2, <1>0 DEF LastOut
  <2>4. requests = <<>> /\ worker = 0 /\ slot = NoResult
    BY <2>1 DEF Preparing
  <2>5. requests' # <<>> /\ Len(requests') = 1 /\ requests'[1].block = queue[2]
    BY <2>1, <2>2, <2>4, <1>0, SubmitProperties
  <2>6. /\ aired' # <<>> /\ LastAired' = queue[1] /\ Steps(aired')
    <3>1. Steps(aired) /\ (aired # <<>> => queue[1] - aired[Len(aired)] \in {0, 1})
      BY <2>1 DEF Steps
    <3>2. aired' = Append(aired, queue[1])
      BY <2>1, <2>2
    <3> DEFINE b == queue[1]
    <3>3. b \in Blocks   BY <2>2
    <3> HIDE DEF b
    <3>4. /\ Append(aired, b) # <<>> /\ Append(aired, b)[Len(Append(aired, b))] = b
          /\ Steps(aired) /\ (aired # <<>> => b - aired[Len(aired)] \in {0, 1}) => Steps(Append(aired, b))
      BY <3>3, <1>0, AirProperties
    <3> QED   BY <3>1, <3>2, <3>4 DEF LastAired, b
  <2>7. OneInv'
    BY <2>1, <2>4, <2>5 DEF OneInv
  <2>8. Preparing'
    BY <2>5 DEF Preparing
  <2>9. queue[1] = LastOut' - 1 /\ queue[2] = LastOut'
    BY <2>3, <1>0
  <2> QED
    BY <2>1, <2>4, <2>5, <2>6, <2>7, <2>8, <2>9 DEF OrderInv
<1>4. ASSUME slot # NoResult, NEW headroom \in BOOLEAN, TakeResult(headroom), preview = NoResult,
             ~overtaken
      PROVE  /\ slot.block = LastOut /\ slot' = NoResult /\ worker' = 0 /\ Preparing
             /\ requests = <<>>
             /\ \/ requests' = <<>>
                \/ headroom = TRUE /\ Len(requests') = 1 /\ requests'[1].block = LastOut
             /\ OneInv'
             /\ ~headroom => ~Preparing'
  <2>1. requests = <<>> /\ worker = 0 /\ slot.block = LastOut /\ Preparing
    BY <1>4 DEF OneInv, OrderInv, Preparing
  <2>2. /\ slot' = NoResult /\ worker' = worker
        /\ \/ requests' = requests
           \/ /\ headroom = TRUE /\ Len(requests') = Len(requests) + 1
              /\ requests = <<>> => requests'[1].block = slot.block
    BY <1>4, TakeProperties
  <2>3. Len(requests) = 0
    BY <2>1
  <2>4. \/ requests' = <<>>
        \/ headroom = TRUE /\ Len(requests') = 1 /\ requests'[1].block = LastOut
    BY <2>1, <2>2, <2>3
  <2>5. OneInv'
    <3>1. worker' = 0 /\ slot' = NoResult
      BY <2>1, <2>2
    <3>2. CASE requests' = <<>>
      BY <3>1, <3>2 DEF OneInv
    <3>3. CASE Len(requests') = 1
      BY <3>1, <3>3 DEF OneInv
    <3> QED   BY <3>2, <3>3, <2>4
  <2>6. ~headroom => ~Preparing'
    BY <2>1, <2>2, <2>4 DEF Preparing
  <2> QED
    BY <2>1, <2>2, <2>4, <2>5, <2>6
<1>5. CASE PreTake
  <2>1. CASE PreviewWanted
    <3>1. PICK headroom \in BOOLEAN : TakeResult(headroom)
      BY <1>5, <2>1 DEF PreTake
    <3>2. UNCHANGED <<overtaken, aired, LastOut, LastAired>> /\ pc # "start" /\ preview' = slot
          /\ preview = NoResult /\ slot # NoResult
      BY <1>5, <2>1 DEF PreTake, PreviewWanted, historyVars, LastOut, LastAired
    <3>3. SUFFICES ASSUME ~overtaken  PROVE OneInv' /\ OrderInv'
      BY <3>2 DEF OneInv, OrderInv
    <3>4. /\ slot.block = LastOut /\ slot' = NoResult /\ worker' = 0 /\ Preparing
          /\ \/ requests' = <<>>
             \/ Len(requests') = 1 /\ requests'[1].block = LastOut
          /\ OneInv'
      BY <3>1, <3>2, <3>3, <1>4
    <3>5. aired # <<>> /\ LastAired \in {LastOut - 1, LastOut} /\ Steps(aired)
      BY <3>2, <3>3, <3>4 DEF OrderInv
    <3> QED
      BY <3>2, <3>3, <3>4, <3>5 DEF OrderInv
  <2>2. CASE ~PreviewWanted
    <3>1. UNCHANGED <<overtaken, aired, LastOut, LastAired, preview, requests, worker, slot, Preparing>>
          /\ pc # "start" /\ pc' # "start"
      BY <1>5, <2>2 DEF PreTake, seamVars, historyVars, LastOut, LastAired, Preparing
    <3> QED   BY <3>1 DEF OneInv, OrderInv
  <2> QED   BY <2>1, <2>2
<1>6. ASSUME UNCHANGED <<queue, fed, requests, worker, slot, preview, aired, overtaken>>,
             pc' = "start" <=> pc = "start"
      PROVE  OneInv' /\ OrderInv'
  BY <1>6 DEF OneInv, OrderInv, LastOut, LastAired, Preparing
<1>7. ASSUME preview # NoResult, GoLive(preview.block), preview' = NoResult, pc # "start",
             UNCHANGED <<queue, fed, requests, worker, slot, overtaken>>
      PROVE  OneInv' /\ OrderInv'
  <2>1. SUFFICES ASSUME ~overtaken  PROVE OneInv' /\ OrderInv'
    BY <1>7 DEF OneInv, OrderInv
  <2>2. /\ preview.block \in Blocks
        /\ preview.block = LastOut \/ (Preparing /\ preview.block = LastOut - 1)
        /\ LastAired \in {preview.block - 1, preview.block} /\ aired # <<>> /\ Steps(aired)
    BY <1>0, <1>7, <2>1 DEF OrderInv
  <2>3. preview.block \in Int /\ LastAired \in Int /\ preview.block - LastAired \in {0, 1}
    BY <1>0, <2>2
  <2>4. aired' # <<>> /\ LastAired' = preview.block /\ Steps(aired')
    BY <1>7, <2>2, <2>3, GoLiveProperties
  <2>5. UNCHANGED <<LastOut, Preparing>>
    BY <1>7 DEF LastOut, Preparing
  <2>6. OneInv'
    BY <1>7 DEF OneInv
  <2> QED
    BY <1>7, <2>2, <2>4, <2>5, <2>6 DEF OrderInv
<1>8. CASE TakePreview
  BY <1>7, <1>8 DEF TakePreview, PreviewFirst, seamVars
<1>9. ASSUME slot # NoResult, GoLive(slot.block), TakeResult(FALSE), pc # "start",
             preview = NoResult, UNCHANGED <<queue, fed, preview, overtaken>>
      PROVE  OneInv' /\ OrderInv'
  <2>1. SUFFICES ASSUME ~overtaken  PROVE OneInv' /\ OrderInv'
    BY <1>9 DEF OneInv, OrderInv
  <2>2. /\ slot.block = LastOut /\ slot' = NoResult /\ worker' = 0 /\ Preparing
        /\ requests' = <<>> /\ OneInv' /\ ~Preparing'
    BY <1>9, <2>1, <1>4
  <2>3. LastAired \in {LastOut - 1, LastOut} /\ aired # <<>> /\ Steps(aired) /\ slot.block \in Blocks
    BY <1>0, <1>9, <2>1, <2>2 DEF OrderInv
  <2>4. slot.block - LastAired \in {0, 1}
    BY <1>0, <2>2, <2>3
  <2>5. aired' # <<>> /\ LastAired' = slot.block /\ Steps(aired')
    BY <1>9, <2>3, <2>4, GoLiveProperties
  <2>6. LastOut' = LastOut
    BY <1>9 DEF LastOut
  <2> QED
    BY <1>9, <2>2, <2>5, <2>6 DEF OrderInv
<1>10. CASE FenceTakesSlot
  <2>1. preview = NoResult /\ preview' = preview /\ queue' = queue /\ fed' = fed
        /\ overtaken' = overtaken /\ pc # "start"
    BY <1>10 DEF FenceTakesSlot, takeVars, PhaseInv
  <2>2. CASE slot # NoResult
    BY <1>9, <1>10, <2>1, <2>2 DEF FenceTakesSlot
  <2>3. CASE slot = NoResult
    BY <1>6, <1>10, <2>1, <2>3 DEF FenceTakesSlot, seamVars
  <2> QED   BY <2>2, <2>3
<1>11. ASSUME PopQueue, GoLive(Head(queue)), preview = NoResult, pc # "start",
              UNCHANGED <<fed, requests, worker, slot, preview>>
       PROVE  OneInv' /\ OrderInv'
  <2>1. SUFFICES ASSUME ~overtaken'  PROVE OneInv' /\ OrderInv'
    BY DEF OneInv, OrderInv
  <2>2. ~overtaken /\ ~Preparing
    BY <1>11, <2>1 DEF PopQueue, Preparing
  <2>3. Head(queue) \in Blocks /\ Head(queue) = LastOut + 1 /\ LastOut' = LastOut + 1
    BY <1>11, PopProperties DEF PopQueue
  <2>4. LastAired = LastOut /\ aired # <<>> /\ Steps(aired)
    BY <1>11, <2>2 DEF OrderInv
  <2>5. Head(queue) - LastAired \in {0, 1}
    BY <1>0, <2>3, <2>4
  <2>6. aired' # <<>> /\ LastAired' = Head(queue) /\ Steps(aired')
    BY <1>11, <2>3, <2>4, <2>5, GoLiveProperties
  <2>7. requests' = <<>> /\ worker' = 0 /\ slot' = NoResult
    BY <1>11, <2>2 DEF Preparing
  <2> QED
    BY <1>11, <2>3, <2>6, <2>7 DEF OneInv, OrderInv, Preparing
<1>12. CASE FenceTakesQueue
  BY <1>11, <1>12 DEF FenceTakesQueue, takeVars, seamVars, PhaseInv
<1>13. CASE LoadQueue
  <2>1. preview = NoResult /\ pc # "start"
        /\ UNCHANGED <<fed, requests, worker, slot, preview>>
    BY <1>13 DEF LoadQueue, takeVars, seamVars, PhaseInv
  <2>2. CASE PopQueue /\ GoLive(Head(queue))
    BY <1>11, <2>1, <2>2
  <2>3. CASE ~(PopQueue /\ GoLive(Head(queue)))
    BY <1>6, <1>13, <2>1, <2>3 DEF LoadQueue
  <2> QED   BY <2>2, <2>3
<1>14. CASE Load
  <2>1. pc # "start" /\ queue' = queue /\ fed' = fed /\ overtaken' = overtaken
    BY <1>14 DEF Load
  <2>2. CASE ~(live = 0 /\ fence = NoFence)
    BY <1>6, <1>14, <2>1, <2>2 DEF Load, seamVars
  <2>3. CASE live = 0 /\ fence = NoFence /\ preview # NoResult
    BY <1>7, <1>14, <2>1, <2>3 DEF Load, seamVars
  <2>4. CASE live = 0 /\ fence = NoFence /\ preview = NoResult /\ slot # NoResult
    BY <1>9, <1>14, <2>1, <2>4 DEF Load
  <2>5. CASE live = 0 /\ fence = NoFence /\ preview = NoResult /\ slot = NoResult
    BY <1>6, <1>14, <2>1, <2>5 DEF Load, seamVars
  <2> QED   BY <2>2, <2>3, <2>4, <2>5
<1>15. CASE KickSubmits
  <2>1. UNCHANGED <<fed, worker, slot, preview, aired, LastAired>> /\ pc # "start" /\ pc' # "start"
    BY <1>15 DEF KickSubmits, EndOfKick, takeVars, LastAired
  <2>2. CASE queue = <<>>
    BY <1>6, <1>15, <2>1, <2>2 DEF KickSubmits
  <2>3. CASE queue # <<>>
    <3>1. SUFFICES ASSUME ~overtaken'  PROVE OneInv' /\ OrderInv'
      BY DEF OneInv, OrderInv
    <3>2. PopQueue /\ Submit(Head(queue), fence)
      BY <1>15, <2>3 DEF KickSubmits
    <3>3. ~overtaken /\ ~Preparing
      BY <3>1, <3>2 DEF PopQueue, Preparing
    <3>4. Head(queue) \in Blocks /\ Head(queue) = LastOut + 1 /\ LastOut' = LastOut + 1
      BY <2>1, <3>2, PopProperties DEF PopQueue
    <3>5. requests = <<>> /\ worker = 0 /\ slot = NoResult /\ Len(requests) = 0
      BY <3>3 DEF Preparing
    <3>6. requests' # <<>> /\ Len(requests') = 1 /\ requests'[1].block = LastOut'
      BY <3>2, <3>4, <3>5, <1>0, SubmitProperties
    <3>7. Preparing' /\ OneInv'
      BY <2>1, <3>5, <3>6 DEF Preparing, OneInv
    <3>8. /\ aired # <<>> /\ Steps(aired)
          /\ preview # NoResult => preview.block = LastOut
                                     /\ LastAired \in {preview.block - 1, preview.block}
          /\ preview = NoResult => LastAired = LastOut
      BY <2>1, <3>3 DEF OrderInv
    <3>9. LastOut = LastOut' - 1
      BY <3>4, <1>0
    <3> QED
      BY <2>1, <3>5, <3>6, <3>7, <3>8, <3>9 DEF OrderInv
  <2> QED   BY <2>2, <2>3
<1>16. CASE FillFails
  <2>1. PICK dec \in BOOLEAN : preview' = [preview EXCEPT !.dec = dec]
    BY <1>16 DEF FillFails
  <2>2. preview'.block = preview.block /\ preview # NoResult
    BY <1>16, <2>1, <1>0 DEF FillFails, PhaseInv, Results, NoResult
  <2>3. preview' # NoResult
    BY <2>2, <1>0 DEF NoResult
  <2>4. UNCHANGED <<pc, overtaken, aired, LastOut, LastAired, requests, worker, slot, Preparing>>
    BY <1>16 DEF FillFails, seamVars, LastOut, LastAired, Preparing
  <2> QED   BY <2>2, <2>3, <2>4 DEF OneInv, OrderInv
<1>17. CASE Feed
  <2>1. Len(queue') = Len(queue) + 1 /\ fed' = fed + 1 /\ Len(queue) \in Int
    BY <1>17, <1>0 DEF Feed
  <2>2. LastOut' = LastOut
    BY <2>1, <1>0 DEF LastOut
  <2>3. UNCHANGED <<pc, overtaken, aired, LastAired, preview, requests, worker, slot, Preparing>>
    BY <1>17 DEF Feed, takeVars, seamVars, historyVars, LastAired, Preparing
  <2> QED   BY <2>2, <2>3 DEF OneInv, OrderInv
<1>18. CASE NoTake \/ TakeMissed \/ EnterGap \/ Kick \/ FillPrimes \/ Advance
  BY <1>6, <1>18 DEF NoTake, TakeMissed, EnterGap, Kick, EndOfKick, FillPrimes, Advance,
                     takeVars, seamVars, historyVars
<1> QED
  BY <1>1, <1>2, <1>3, <1>5, <1>8, <1>10, <1>12, <1>13, <1>14, <1>15, <1>16, <1>17, <1>18
  DEF Next, Tick, Worker

-----------------------------------------------------------------------------
(* The theorems.                                                           *)

LEMMA StepIInv == IInv /\ [Next]_vars => IInv'
<1> SUFFICES ASSUME IInv, [Next]_vars  PROVE IInv'
  OBVIOUS
<1>1. CASE Next
  BY <1>1, TypeStep, PhaseStep, HoldStep, QueueStep, LossStep, OrderStep DEF IInv
<1>2. CASE UNCHANGED vars
  <2> USE <1>2 DEF vars, takeVars, submitVars, seamVars, historyVars
  <2>1. TypeOK'   BY DEF IInv, TypeOK
  <2>2. PhaseInv' /\ HoldInv' /\ QueueInv'
    BY DEF IInv, PhaseInv, HoldInv, QueueInv, Preparing
  <2>3. OneInv' /\ OrderInv'
    BY DEF IInv, OneInv, OrderInv, LastOut, LastAired, Preparing
  <2>4. NoSilentLoss'   BY DEF IInv, NoSilentLoss
  <2> QED   BY <2>1, <2>2, <2>3, <2>4 DEF IInv
<1> QED
  BY <1>1, <1>2

LEMMA Invariance == Spec => []IInv
BY InitIInv, StepIInv, PTL DEF Spec

\* Every value stays in its range; with INV-BLOCK-WALLFENCE-003: there is a fence
\* exactly while a block owns the timeline.
THEOREM TypeCorrect == Spec => []TypeOK
<1>1. IInv => TypeOK   BY DEF IInv
<1> QED   BY <1>1, Invariance, PTL

\* Between FeedBlockPlan, the tick thread and SeamPreparer's worker a block that
\* was fed is never dropped, but by a result stored over it.
THEOREM NothingLost == Spec => []NoSilentLoss
<1>1. IInv => NoSilentLoss   BY DEF IInv
<1> QED   BY <1>1, Invariance, PTL

\* Fences, gaps, holds and retries alone never reorder blocks or skip one.
THEOREM AirsInOrder == Spec => []InOrderUnlessOvertaken
<1>1. IInv => InOrderUnlessOvertaken
  <2> SUFFICES ASSUME IInv, ~overtaken
               PROVE  \A k \in 1..(Len(aired) - 1) : aired[k + 1] - aired[k] \in {0, 1}
    BY DEF InOrderUnlessOvertaken
  <2> QED   BY DEF IInv, OrderInv, Steps
<1> QED   BY <1>1, Invariance, PTL

\* DEGRADED_TAKE_MODE waits only while the block it waits for is in preview_ or
\* with SeamPreparer.
THEOREM HoldHasWork == Spec => []DegradedHasWork
<1>1. IInv => DegradedHasWork   BY DEF IInv, HoldInv, DegradedHasWork
<1> QED   BY <1>1, Invariance, PTL

-----------------------------------------------------------------------------
(***************************************************************************)
(* How often a block airs.  A block is in one place between the queue and  *)
(* its airing; the retry puts it back into SeamPreparer's queue and at the *)
(* same time into preview_, for which it uses up the last submission.      *)
(***************************************************************************)

Airings(b) == Cardinality({k \in DOMAIN aired : aired[k] = b})
Pending(b) == b \in BlocksOf(requests) \/ b = worker \/ b = slot.block
One(test) == IF test THEN 1 ELSE 0
Owed(b) == Airings(b) + One(preview.block = b) + One(Pending(b))

ApartInv ==
  /\ Apart(requests)
  /\ worker # 0 => worker \notin BlocksOf(requests)
  /\ slot # NoResult => slot.block \notin BlocksOf(requests) /\ slot.block # worker

TwiceInv ==
  /\ \A b \in Blocks : Owed(b) <= 2 /\ (b > LastOut => Owed(b) = 0)
  /\ lastValid => /\ lastSubmitted \in Blocks /\ lastSubmitted <= LastOut
                  /\ \A b \in Blocks : b = lastSubmitted => Owed(b) <= 1

LEMMA AiringsType == ASSUME TypeOK  PROVE \A b : Airings(b) \in Nat
<1>1. IsFiniteSet(DOMAIN aired)
  <2> DEFINE n == Len(aired)
  <2>1. DOMAIN aired = 1..n /\ n \in Int /\ 1 \in Int
    BY DEF TypeOK
  <2> HIDE DEF n
  <2> QED   BY <2>1, FS_Interval
<1> QED   BY <1>1, FS_Subset, FS_CardinalityType DEF Airings

\* An airing is counted for its block and for no other.
LEMMA AiringCounts ==
  ASSUME TypeOK, NEW b \in Blocks, aired' = Append(aired, b)
  PROVE  \A x : Airings(x)' = Airings(x) + One(x = b)
<1> DEFINE n == Len(aired)
           at(x) == {k \in 1..n : aired[k] = x}
<1>1. /\ aired \in Seq(Blocks) /\ n \in Nat /\ DOMAIN aired = 1..n
      /\ DOMAIN aired' = 1..(n + 1) /\ aired'[n + 1] = b
      /\ \A k \in 1..n : aired'[k] = aired[k]
  BY DEF TypeOK
<1> HIDE DEF n
<1>2. IsFiniteSet(1..n)
  BY <1>1, FS_Interval
<1> SUFFICES ASSUME NEW x  PROVE Airings(x)' = Airings(x) + One(x = b)
  OBVIOUS
<1>3. /\ IsFiniteSet(at(x)) /\ Airings(x) = Cardinality(at(x)) /\ Cardinality(at(x)) \in Nat
      /\ n + 1 \notin at(x)
  BY <1>1, <1>2, FS_Subset, FS_CardinalityType DEF Airings
<1>4. {k \in DOMAIN aired' : aired'[k] = x} = IF x = b THEN at(x) \cup {n + 1} ELSE at(x)
  BY <1>1
<1>5. Airings(x)' = Cardinality(IF x = b THEN at(x) \cup {n + 1} ELSE at(x))
  BY <1>4 DEF Airings
<1> DEFINE old == at(x)
<1>6. IsFiniteSet(old) /\ Airings(x) = Cardinality(old) /\ n + 1 \notin old
  BY <1>3
<1>7. Airings(x)' = IF x = b THEN Cardinality(old \cup {n + 1}) ELSE Cardinality(old)
  BY <1>5
<1> HIDE DEF old
<1>8. Cardinality(old \cup {n + 1}) = Cardinality(old) + 1 /\ Cardinality(old) \in Nat
  BY <1>6, FS_AddElement, FS_CardinalityType
<1> QED   BY <1>6, <1>7, <1>8 DEF One

\* Steps that put nothing on air and add nothing to what waits for it.
LEMMA OwedQuiet ==
  ASSUME TypeOK, TwiceInv, aired' = aired, preview'.block = preview.block, LastOut' = LastOut,
         \A b \in Blocks : Pending(b)' => Pending(b),
         lastValid' => lastValid /\ lastSubmitted' = lastSubmitted
  PROVE  TwiceInv'
<1>1. \A b \in Blocks : Owed(b)' <= Owed(b) /\ Owed(b) \in Nat /\ Owed(b)' \in Nat
  <2> SUFFICES ASSUME NEW b \in Blocks
               PROVE  Owed(b)' <= Owed(b) /\ Owed(b) \in Nat /\ Owed(b)' \in Nat
    OBVIOUS
  <2>1. Airings(b)' = Airings(b) /\ Airings(b) \in Nat
    BY AiringsType DEF Airings
  <2> QED   BY <2>1 DEF Owed, One
<1> QED   BY <1>1 DEF TwiceInv

\* The block in preview_ goes on air.
LEMMA OwedTake ==
  ASSUME TypeOK, TwiceInv, preview # NoResult, GoLive(preview.block), preview' = NoResult,
         UNCHANGED <<queue, fed, requests, worker, slot, lastValid, lastSubmitted>>
  PROVE  TwiceInv'
<1>1. preview.block \in Blocks /\ NoResult.block = 0 /\ preview'.block = 0
  BY DEF TypeOK, Results, NoResult
<1>2. \A b \in Blocks : Owed(b)' = Owed(b)
  <2> SUFFICES ASSUME NEW b \in Blocks  PROVE Owed(b)' = Owed(b)
    OBVIOUS
  <2>1. Airings(b)' = Airings(b) + One(b = preview.block) /\ Airings(b) \in Nat
    BY <1>1, GoLiveProperties, AiringCounts, AiringsType
  <2>2. (Pending(b)' <=> Pending(b)) /\ b # 0
    BY DEF Pending, Blocks
  <2> QED   BY <1>1, <2>1, <2>2 DEF Owed, One
<1>3. LastOut' = LastOut
  BY DEF LastOut
<1> QED   BY <1>2, <1>3 DEF TwiceInv

\* A result in the slot goes on air.
LEMMA OwedTakeSlot ==
  ASSUME TypeOK, TwiceInv, ApartInv, slot # NoResult, GoLive(slot.block), TakeResult(FALSE),
         UNCHANGED <<queue, fed, preview>>
  PROVE  TwiceInv'
<1>1. slot.block \in Blocks /\ slot' = NoResult /\ NoResult.block = 0
      /\ requests' = requests /\ worker' = worker /\ lastValid' = FALSE
  BY TakeProperties DEF NoResult
<1>2. \A b \in Blocks : Owed(b)' = Owed(b)
  <2> SUFFICES ASSUME NEW b \in Blocks  PROVE Owed(b)' = Owed(b)
    OBVIOUS
  <2>1. Airings(b)' = Airings(b) + One(b = slot.block) /\ Airings(b) \in Nat
    BY <1>1, GoLiveProperties, AiringCounts, AiringsType
  <2>2. /\ b # 0 /\ (b # slot.block => (Pending(b)' <=> Pending(b)))
        /\ b = slot.block => Pending(b) /\ ~Pending(b)'
    BY <1>1 DEF Pending, Blocks, ApartInv
  <2>3. One(preview.block = b)' = One(preview.block = b)
    BY DEF One
  <2> QED   BY <2>1, <2>2, <2>3 DEF Owed, One
<1>3. LastOut' = LastOut
  BY DEF LastOut
<1> QED   BY <1>1, <1>2, <1>3 DEF TwiceInv

\* The front of the queue goes on air, or to SeamPreparer: it was nowhere else.
LEMMA OwedPop ==
  ASSUME TypeOK, QueueInv, TwiceInv, queue # <<>>, queue' = Tail(queue), fed' = fed,
         NEW b \in Blocks, b = Head(queue), preview' = preview,
         \/ GoLive(b) /\ UNCHANGED <<requests, worker, slot, lastValid, lastSubmitted>>
         \/ /\ Submit(b, fence) /\ lastSubmitted' = b
            /\ UNCHANGED <<aired, worker, slot>>
  PROVE  TwiceInv'
<1>1. b = LastOut + 1 /\ LastOut' = LastOut + 1 /\ LastOut \in Int
  BY PopProperties DEF TypeOK, LastOut, Blocks
<1>2. Owed(b) = 0 /\ \A x \in Blocks : Owed(x) \in Nat
  BY <1>1, AiringsType DEF TwiceInv, Owed, One
<1>3. \A x \in Blocks : Owed(x)' = Owed(x) + One(x = b)
  <2> SUFFICES ASSUME NEW x \in Blocks  PROVE Owed(x)' = Owed(x) + One(x = b)
    OBVIOUS
  <2>1. Airings(x) \in Nat /\ Airings(b) \in Nat /\ ~Pending(b)
    BY <1>2, AiringsType DEF Owed, One
  <2>2. CASE GoLive(b) /\ UNCHANGED <<requests, worker, slot>>
    <3>1. Airings(x)' = Airings(x) + One(x = b) /\ (Pending(x)' <=> Pending(x))
      BY <2>2, GoLiveProperties, AiringCounts DEF Pending
    <3> QED   BY <2>1, <3>1 DEF Owed, One
  <2>3. CASE Submit(b, fence) /\ UNCHANGED <<aired, worker, slot>>
    <3>1. fence \in 1..NoFence
      BY PrerollAssumption DEF TypeOK, NoFence, Blocks
    <3>2. BlocksOf(requests') = BlocksOf(requests) \cup {b}
      BY <2>3, <3>1, SubmitProperties
    <3>3. Airings(x)' = Airings(x) /\ (Pending(x)' <=> Pending(x) \/ x = b)
      BY <2>3, <3>2 DEF Pending, Airings
    <3> QED   BY <2>1, <3>3 DEF Owed, One
  <2> QED   BY <2>2, <2>3
<1>4. lastValid' => /\ lastSubmitted' \in Blocks /\ lastSubmitted' <= LastOut'
                    /\ \A x \in Blocks : x = lastSubmitted' => Owed(x)' <= 1
  <2>1. CASE lastSubmitted' = b
    BY <1>1, <1>2, <1>3, <2>1 DEF One
  <2>2. CASE UNCHANGED <<lastValid, lastSubmitted>>
    BY <1>1, <1>2, <1>3, <2>2 DEF One, TwiceInv, Blocks
  <2> QED   BY <2>1, <2>2
<1> QED   BY <1>1, <1>2, <1>3, <1>4 DEF TwiceInv, One, Blocks

\* A finished preroll becomes preview_; the retry is of the block submitted
\* last, and takes that submission back.
LEMMA OwedPreview ==
  ASSUME TypeOK, TwiceInv, ApartInv, PreviewWanted, NEW headroom \in BOOLEAN,
         TakeResult(headroom), preview' = slot, UNCHANGED <<queue, fed, aired>>
  PROVE  TwiceInv'
<1>1. /\ slot.block \in Blocks /\ slot' = NoResult /\ NoResult.block = 0 /\ preview.block = 0
      /\ worker' = worker /\ lastValid' = FALSE /\ slot # NoResult /\ preview' = slot
      /\ preview'.block = slot.block
      /\ \/ requests' = requests
         \/ /\ lastValid /\ lastSubmitted = slot.block
            /\ BlocksOf(requests') = BlocksOf(requests) \cup {slot.block}
  BY TakeProperties DEF NoResult, PreviewWanted, MayRetry
<1>2. ASSUME NEW b \in Blocks
      PROVE  Owed(b)' <= 2 /\ (b # slot.block => Owed(b)' = Owed(b))
             /\ (b = slot.block => Owed(b) >= 1)
  <2>1. Airings(b)' = Airings(b) /\ Airings(b) \in Nat /\ b # 0 /\ Owed(b) <= 2
    <3>1. Airings(b)' = Airings(b)
      BY DEF Airings
    <3> QED   BY <3>1, AiringsType DEF Blocks, TwiceInv
  <2>2. CASE b # slot.block
    <3>1. Pending(b)' <=> Pending(b)
      BY <1>1, <2>1, <2>2 DEF Pending
    <3> QED   BY <1>1, <2>1, <2>2, <3>1 DEF Owed, One
  <2>3. CASE b = slot.block
    <3>1. Pending(b) /\ (requests' = requests => ~Pending(b)')
      BY <1>1, <2>1, <2>3 DEF Pending, ApartInv
    <3>2. requests' # requests => Owed(b) <= 1
      BY <1>1, <2>3 DEF TwiceInv
    <3> QED   BY <1>1, <2>1, <2>3, <3>1, <3>2 DEF Owed, One
  <2> QED   BY <2>2, <2>3
<1>3. LastOut' = LastOut /\ ~(slot.block > LastOut)
  <2>1. ~(slot.block > LastOut)
    BY <1>1, <1>2 DEF TwiceInv
  <2> QED   BY <2>1 DEF LastOut
<1> QED   BY <1>1, <1>2, <1>3 DEF TwiceInv

\* Before the first tick: the first block goes on air, the second one to
\* SeamPreparer, and they are two.
LEMMA OwedStart ==
  ASSUME TypeOK, PhaseInv, QueueInv, TwiceInv, Start
  PROVE  TwiceInv'
<1>1. /\ Len(queue) >= 2 /\ preview' = preview /\ ~Preparing
      /\ queue' = SubSeq(queue, 3, Len(queue)) /\ fed' = fed
      /\ aired' = Append(aired, Head(queue)) /\ Submit(queue[2], NoFence)
      /\ lastSubmitted' = queue[2] /\ UNCHANGED <<worker, slot>>
  BY DEF Start, PhaseInv, takeVars
<1>2. /\ Len(queue') = Len(queue) - 2 /\ Len(queue) \in Nat /\ fed \in Int
      /\ Head(queue) = queue[1] /\ queue[1] \in Blocks /\ queue[2] \in Blocks
  <2>1. queue \in Seq(Blocks) /\ fed \in Int
    BY DEF TypeOK, Blocks
  <2> QED   BY <1>1, <2>1, PopTwoProperties
<1>3. queue[1] = LastOut + 1 /\ queue[2] = LastOut + 2 /\ LastOut' = LastOut + 2 /\ LastOut \in Int
  <2>1. 1 \in 1..Len(queue) /\ 2 \in 1..Len(queue)
    BY <1>1, <1>2
  <2>2. queue[1] = fed - Len(queue) + 1 /\ queue[2] = fed - Len(queue) + 2
    BY <2>1 DEF QueueInv
  <2>3. LastOut' = fed - (Len(queue) - 2)
    BY <1>1, <1>2 DEF LastOut
  <2> QED   BY <1>2, <2>2, <2>3 DEF LastOut
<1> PICK first : first = queue[1]
  OBVIOUS
<1> PICK second : second = queue[2]
  OBVIOUS
<1>4. BlocksOf(requests') = BlocksOf(requests) \cup {second}
  <2>1. NoFence \in 1..NoFence
    BY PrerollAssumption DEF NoFence
  <2> QED   BY <1>1, <1>2, <2>1, SubmitProperties
<1>5. aired' = Append(aired, first) /\ first \in Blocks
  BY <1>1, <1>2
<1>6. ASSUME NEW b \in Blocks
      PROVE  Owed(b) \in Nat /\ Owed(b)' = Owed(b) + One(b = first) + One(b = second)
  <2>1. Airings(b)' = Airings(b) + One(b = first) /\ Airings(b) \in Nat
    BY <1>5, AiringCounts, AiringsType
  <2>2. Pending(b)' <=> Pending(b) \/ b = second
    BY <1>1, <1>4 DEF Pending
  <2>3. b = second => ~Pending(b)
    <3>1. b = second => Owed(b) = 0
      BY <1>2, <1>3 DEF TwiceInv
    <3> QED   BY <2>1, <3>1 DEF Owed, One
  <2> QED   BY <1>1, <2>1, <2>2, <2>3 DEF Owed, One
<1>7. first # second /\ first = LastOut + 1 /\ second = LastOut + 2
      /\ Owed(first) = 0 /\ Owed(second) = 0 /\ second \in Blocks
  BY <1>2, <1>3 DEF TwiceInv
<1>8. \A b \in Blocks : /\ Owed(b)' <= 2 /\ (b > LastOut' => Owed(b)' = 0)
                        /\ b = second => Owed(b)' <= 1
  BY <1>3, <1>6, <1>7 DEF TwiceInv, One, Blocks
<1> QED   BY <1>1, <1>3, <1>7, <1>8 DEF TwiceInv

\* A block is with SeamPreparer once.
LEMMA ApartStep ==
  ASSUME TypeOK, PhaseInv, QueueInv, ApartInv, TwiceInv, Next
  PROVE  ApartInv'
<1>0. /\ requests \in Seq(Req) /\ slot \in Results /\ NoResult.block = 0
      /\ \A r \in Results : r # NoResult => r.block \in Blocks
      /\ \A b \in Blocks : b \in Nat /\ b # 0
  BY DEF TypeOK, Req, Results, NoResult, Blocks
<1>1. CASE WorkerTake
  <2>1. /\ requests # <<>> /\ worker' = Head(requests).block /\ requests' = Tail(requests)
        /\ slot' = slot
    BY <1>1 DEF WorkerTake
  <2>2. /\ Head(requests) = requests[1] /\ requests' \in Seq(Req)
        /\ Len(requests) \in Nat /\ Len(requests') = Len(requests) - 1
        /\ \A k \in 1..(Len(requests) - 1) : requests'[k] = requests[k + 1]
    BY <1>0, <2>1, HeadTailProperties
  <2>3. DOMAIN requests = 1..Len(requests) /\ DOMAIN requests' = 1..(Len(requests) - 1)
    BY <1>0, <2>2
  <2>4. \A k \in DOMAIN requests' : /\ k + 1 \in DOMAIN requests /\ k + 1 # 1
                                    /\ requests'[k].block = requests[k + 1].block
    BY <2>2, <2>3
  <2>5. 1 \in DOMAIN requests /\ worker' = requests[1].block
    BY <2>1, <2>2, <2>3
  <2>6. Apart(requests')
    BY <2>3, <2>4 DEF ApartInv, Apart
  <2>7. worker' \notin BlocksOf(requests') /\ BlocksOf(requests') \subseteq BlocksOf(requests)
        /\ worker' \in BlocksOf(requests)
    BY <2>4, <2>5 DEF ApartInv, Apart, BlocksOf
  <2> QED   BY <2>1, <2>6, <2>7 DEF ApartInv
<1>2. CASE WorkerDone
  <2>1. requests' = requests /\ worker # 0 /\ worker' = 0 /\ slot'.block = worker
    BY <1>2 DEF WorkerDone
  <2> QED   BY <2>1 DEF ApartInv
<1>3. ASSUME NEW b \in Blocks, ~Pending(b), NEW seam \in 1..NoFence, Submit(b, seam),
             UNCHANGED <<worker, slot>>
      PROVE  ApartInv'
  <2>1. /\ Apart(requests') /\ BlocksOf(requests') = BlocksOf(requests) \cup {b}
    BY <1>3, SubmitProperties DEF Pending, ApartInv
  <2> QED   BY <1>3, <2>1 DEF ApartInv, Pending
<1>4. ASSUME NEW b \in Blocks, b > LastOut  PROVE ~Pending(b)
  <2>1. Owed(b) = 0 /\ Airings(b) \in Nat
    BY <1>4, AiringsType DEF TwiceInv
  <2> QED   BY <2>1 DEF Owed, One
<1>5. CASE Start
  <2>1. Len(queue) >= 2 /\ Submit(queue[2], NoFence) /\ UNCHANGED <<worker, slot>>
    BY <1>5 DEF Start, PhaseInv
  <2>2. 2 \in 1..Len(queue) /\ Len(queue) \in Nat /\ fed \in Int /\ queue[2] \in Blocks
    <3>1. queue \in Seq(Blocks) /\ fed \in Int
      BY DEF TypeOK, Blocks
    <3> QED   BY <2>1, <3>1
  <2>3. queue[2] > LastOut
    BY <2>2 DEF QueueInv, LastOut
  <2>4. NoFence \in 1..NoFence
    BY PrerollAssumption DEF NoFence
  <2> QED   BY <1>3, <1>4, <2>1, <2>2, <2>3, <2>4
<1>6. CASE KickSubmits /\ queue # <<>>
  <2>1. /\ queue' = Tail(queue) /\ fed' = fed /\ Submit(Head(queue), fence)
        /\ UNCHANGED <<worker, slot>>
    BY <1>6 DEF KickSubmits, PopQueue
  <2>2. Head(queue) \in Blocks /\ Head(queue) > LastOut /\ fence \in 1..NoFence
    BY <1>6, <2>1, PopProperties, PrerollAssumption DEF TypeOK, NoFence, Blocks, LastOut
  <2> QED   BY <1>3, <1>4, <2>1, <2>2
<1>7. ASSUME NEW headroom \in BOOLEAN, slot # NoResult, TakeResult(headroom)
      PROVE  ApartInv'
  <2>1. /\ slot' = NoResult /\ worker' = worker /\ slot.block \in Blocks
        /\ \/ requests' = requests
           \/ /\ BlocksOf(requests') = BlocksOf(requests) \cup {slot.block}
              /\ Apart(requests) /\ slot.block \notin BlocksOf(requests) => Apart(requests')
    BY <1>7, TakeProperties
  <2> QED   BY <1>7, <2>1 DEF ApartInv
<1>8. CASE UNCHANGED seamVars
  BY <1>8 DEF seamVars, ApartInv
<1>9. CASE PreTake \/ FenceTakesSlot \/ Load
  <2>1. UNCHANGED seamVars \/ (slot # NoResult /\ \E headroom \in BOOLEAN : TakeResult(headroom))
    BY <1>9 DEF PreTake, FenceTakesSlot, Load, PreviewWanted
  <2> QED   BY <1>7, <1>8, <2>1
<1>10. CASE KickSubmits /\ queue = <<>>
  BY <1>8, <1>10 DEF KickSubmits, seamVars
<1>11. CASE NoTake \/ TakePreview \/ TakeMissed \/ FenceTakesQueue \/ EnterGap \/ LoadQueue
            \/ Kick \/ FillPrimes \/ FillFails \/ Advance \/ Feed
  BY <1>8, <1>11 DEF NoTake, TakePreview, TakeMissed, FenceTakesQueue, EnterGap, LoadQueue,
                     Kick, FillPrimes, FillFails, Advance, Feed
<1> QED
  BY <1>1, <1>2, <1>5, <1>6, <1>9, <1>10, <1>11 DEF Next, Tick, Worker

LEMMA TwiceStep ==
  ASSUME TypeOK, PhaseInv, QueueInv, ApartInv, TwiceInv, Next
  PROVE  TwiceInv'
<1>1. ASSUME UNCHANGED <<aired, queue, fed, requests, worker, slot, lastValid, lastSubmitted>>,
             preview'.block = preview.block
      PROVE  TwiceInv'
  <2>1. LastOut' = LastOut /\ \A b \in Blocks : Pending(b)' => Pending(b)
    BY <1>1 DEF LastOut, Pending
  <2> QED   BY <1>1, <2>1, OwedQuiet
<1>2. CASE NoTake \/ TakeMissed \/ EnterGap \/ Kick \/ FillPrimes \/ Advance
  BY <1>1, <1>2 DEF NoTake, TakeMissed, EnterGap, Kick, EndOfKick, FillPrimes, Advance,
                    takeVars, submitVars, seamVars, historyVars
<1>3. CASE FillFails
  <2>1. preview'.block = preview.block
    BY <1>3 DEF FillFails, TypeOK, Results, NoResult
  <2> QED   BY <1>1, <1>3, <2>1 DEF FillFails, submitVars, seamVars
<1>4. CASE Feed
  <2>1. queue \in Seq(Blocks) /\ fed \in Int
    BY DEF TypeOK, Blocks
  <2>2. LastOut' = LastOut
    <3>1. fed' = fed + 1 /\ queue' = Append(queue, fed + 1)
      BY <1>4 DEF Feed
    <3>2. Len(queue') = Len(queue) + 1 /\ Len(queue) \in Nat
      BY <2>1, <3>1
    <3> QED   BY <2>1, <3>1, <3>2 DEF LastOut
  <2>3. UNCHANGED <<aired, preview, requests, worker, slot, lastValid, lastSubmitted>>
    BY <1>4 DEF Feed, takeVars, submitVars, seamVars, historyVars
  <2> QED   BY <2>2, <2>3, OwedQuiet DEF Pending
<1>5. CASE WorkerTake
  <2>1. \A b \in Blocks : Pending(b)' => Pending(b)
    <3>1. requests # <<>> /\ requests \in Seq(Req)
          /\ worker' = Head(requests).block /\ requests' = Tail(requests) /\ slot' = slot
      BY <1>5 DEF WorkerTake, TypeOK, Req
    <3>2. /\ Head(requests) = requests[1] /\ requests' \in Seq(Req)
          /\ Len(requests) \in Nat /\ Len(requests') = Len(requests) - 1
          /\ \A k \in 1..(Len(requests) - 1) : requests'[k] = requests[k + 1]
      BY <3>1, HeadTailProperties
    <3>3. DOMAIN requests = 1..Len(requests) /\ DOMAIN requests' = 1..(Len(requests) - 1)
          /\ 1 \in DOMAIN requests
      BY <3>1, <3>2
    <3>4. \A k \in DOMAIN requests' : /\ k + 1 \in DOMAIN requests
                                      /\ requests'[k].block = requests[k + 1].block
      BY <3>2, <3>3
    <3>5. BlocksOf(requests') \subseteq BlocksOf(requests) /\ worker' \in BlocksOf(requests)
      BY <3>1, <3>2, <3>3, <3>4 DEF BlocksOf
    <3> QED   BY <3>1, <3>5 DEF Pending
  <2> QED   BY <1>5, <2>1, OwedQuiet DEF WorkerTake, takeVars, submitVars, historyVars, LastOut
<1>6. CASE WorkerDone
  <2>1. requests' = requests /\ worker' = 0 /\ slot'.block = worker
    BY <1>6 DEF WorkerDone
  <2>2. \A b \in Blocks : Pending(b)' => Pending(b)
    BY <2>1 DEF Pending, Blocks
  <2> QED   BY <1>6, <2>2, OwedQuiet DEF WorkerDone, takeVars, submitVars, LastOut
<1>7. CASE PreTake
  <2>1. CASE PreviewWanted
    BY <1>7, <2>1, OwedPreview DEF PreTake, historyVars
  <2>2. CASE ~PreviewWanted
    BY <1>1, <1>7, <2>2 DEF PreTake, submitVars, seamVars, historyVars
  <2> QED   BY <2>1, <2>2
<1>8. CASE TakePreview
  BY <1>8, OwedTake DEF TakePreview, PreviewFirst, submitVars, seamVars
<1>9. CASE FenceTakesSlot
  <2>1. UNCHANGED <<queue, fed, preview>>
    BY <1>9 DEF FenceTakesSlot, takeVars
  <2>2. CASE slot # NoResult
    BY <1>9, <2>1, <2>2, OwedTakeSlot DEF FenceTakesSlot
  <2>3. CASE slot = NoResult
    BY <1>1, <1>9, <2>1, <2>3 DEF FenceTakesSlot, submitVars, seamVars
  <2> QED   BY <2>2, <2>3
<1>10. CASE Load
  <2>1. UNCHANGED <<queue, fed>>
    BY <1>10 DEF Load
  <2>2. CASE live = 0 /\ fence = NoFence /\ preview # NoResult
    BY <1>10, <2>1, <2>2, OwedTake DEF Load, submitVars, seamVars
  <2>3. CASE live = 0 /\ fence = NoFence /\ preview = NoResult /\ slot # NoResult
    BY <1>10, <2>1, <2>3, OwedTakeSlot DEF Load
  <2>4. CASE UNCHANGED <<aired, preview, submitVars, seamVars>>
    BY <1>1, <2>1, <2>4 DEF submitVars, seamVars
  <2> QED   BY <1>10, <2>2, <2>3, <2>4 DEF Load
<1>11. CASE FenceTakesQueue \/ LoadQueue \/ KickSubmits
  <2>1. preview' = preview /\ fed' = fed
    BY <1>11 DEF FenceTakesQueue, LoadQueue, KickSubmits, takeVars
  <2>2. CASE PopQueue /\ GoLive(Head(queue)) /\ UNCHANGED <<submitVars, seamVars>>
    <3>1. queue # <<>> /\ queue' = Tail(queue) /\ Head(queue) \in Blocks
      BY <2>1, <2>2, PopProperties DEF PopQueue
    <3> QED   BY <2>1, <2>2, <3>1, OwedPop DEF submitVars, seamVars
  <2>3. CASE KickSubmits /\ queue # <<>>
    <3>1. queue' = Tail(queue) /\ Head(queue) \in Blocks
      BY <2>1, <2>3, PopProperties DEF KickSubmits, PopQueue
    <3> QED   BY <2>1, <2>3, <3>1, OwedPop DEF KickSubmits
  <2>4. CASE UNCHANGED <<queue, aired, submitVars, seamVars>>
    BY <1>1, <2>1, <2>4 DEF submitVars, seamVars
  <2> QED   BY <1>11, <2>2, <2>3, <2>4 DEF FenceTakesQueue, LoadQueue, KickSubmits, submitVars, seamVars
<1> QED
  BY <1>2, <1>3, <1>4, <1>5, <1>6, <1>7, <1>8, <1>9, <1>10, <1>11, OwedStart
  DEF Next, Tick, Worker

\* A block is submitted again at most once: however its preroll fails and
\* whatever the fence takes meanwhile, it goes on air at most twice
\* (AirsAtMostTwice).
THEOREM RetriedOnce == Spec => []AirsAtMostTwice
<1>1. Init => ApartInv /\ TwiceInv
  <2> SUFFICES ASSUME Init  PROVE ApartInv /\ TwiceInv
    OBVIOUS
  <2>1. requests = <<>> /\ worker = 0 /\ slot = NoResult /\ preview = NoResult /\ aired = <<>>
        /\ ~lastValid /\ NoResult.block = 0 /\ DOMAIN aired = {} /\ DOMAIN requests = {}
    BY DEF Init, NoResult
  <2>2. \A b \in Blocks : Airings(b) = 0 /\ ~Pending(b) /\ b # 0
    BY <2>1, FS_EmptySet DEF Airings, Pending, Blocks, BlocksOf
  <2>3. \A b \in Blocks : Owed(b) = 0
    BY <2>1, <2>2 DEF Owed, One
  <2> QED   BY <2>1, <2>3 DEF ApartInv, Apart, TwiceInv, BlocksOf
<1>2. IInv /\ ApartInv /\ TwiceInv /\ [Next]_vars => (ApartInv /\ TwiceInv)'
  <2> SUFFICES ASSUME IInv, ApartInv, TwiceInv, [Next]_vars  PROVE (ApartInv /\ TwiceInv)'
    OBVIOUS
  <2>1. CASE Next
    BY <2>1, ApartStep, TwiceStep DEF IInv
  <2>2. CASE UNCHANGED vars
    BY <2>2 DEF vars, takeVars, submitVars, seamVars, historyVars, ApartInv, TwiceInv,
                Owed, Airings, Pending, One, LastOut
  <2> QED   BY <2>1, <2>2
<1>3. IInv /\ TwiceInv => AirsAtMostTwice
  <2> SUFFICES ASSUME IInv, TwiceInv, NEW b \in Blocks  PROVE Airings(b) <= 2
    BY DEF AirsAtMostTwice, Airings
  <2> QED   BY AiringsType DEF IInv, TwiceInv, Owed, One
<1> QED   BY <1>1, <1>2, <1>3, Invariance, PTL DEF Spec
=============================================================================
