--------------------------- MODULE EvidenceProofs ---------------------------
(***************************************************************************)
(* What EvidencePipeline guarantees for any spool size, number of records, *)
(* of worker threads and of faults: every value has its type, the spool    *)
(* holds each appended record once and in order, AIR never takes a record  *)
(* for acknowledged that Core has not stored as acknowledged, what Core    *)
(* has stored as acknowledged is in the as-run files, and the as-run file  *)
(* has each record once and in the order of emission.                      *)
(***************************************************************************)
EXTENDS EvidencePipeline, FiniteSetTheorems, SequenceTheorems, TLAPS

(***************************************************************************)
(* The inductive invariant.                                                *)
(***************************************************************************)

Numbers  == {HELLO} \cup Records
Messages == Seq(Numbers)

\* What a handler can acknowledge without a new record: the ack loaded at HELLO,
\* what it has seen, and what is on its way back, are all stored in Core by the
\* time it reads the next message.
Covered(s, ack) ==
  /\ s.floor <= ack
  /\ s.seen \subseteq 0..ack \cup {s.msg}
  /\ IF s.pc \in {"half", "store"} THEN s.msg \in Records ELSE s.msg = 0
  /\ ToSet(s.down) \subseteq 0..ack

StreamsCovered == \A n \in 1..Stream : Covered(streams[n], coreAck)
AcksStored     == {ackFile, lastAcked} \subseteq 0..coreAck

\* The first record is never refused, so a number is used up only after it.
FirstTaken == lastAppended = 0 => sequence = 0

\* The file and what the writer thread has yet to put into it.
SpoolParts ==
  spoolFile \in Seq(Records) /\ writeQueue \in Seq(Records) /\ lastAppended \in Nat

ClientHasStream == client # "idle" => Stream > 0

IInv ==
  TypeOK /\ SpoolParts /\ FirstTaken /\ ClientHasStream /\ AcksStored /\ StreamsCovered

-----------------------------------------------------------------------------
(* Streams.                                                                *)

\* Messages that are a part of others bring nothing new.
LEMMA PartOfMessages ==
  ASSUME NEW s \in Messages, NEW k \in 0..Len(s)
  PROVE  SubSeq(s, 1, k) \in Messages /\ ToSet(SubSeq(s, 1, k)) \subseteq ToSet(s)
<1> DEFINE r == SubSeq(s, 1, k)
<1>1. Len(s) \in Nat /\ DOMAIN s = 1..Len(s) /\ \A i \in 1..Len(s) : s[i] \in Numbers
  BY DEF Messages
<1>2. k \in Int /\ 1 \in Int /\ \A i \in 1..k : s[i] \in Numbers
  BY <1>1
<1>3. r \in Seq(Numbers) /\ Len(r) = (IF 1 <= k THEN k - 1 + 1 ELSE 0)
      /\ \A i \in 1..(k - 1 + 1) : r[i] = s[1 + i - 1]
  BY <1>2, SubSeqProperties
<1> HIDE DEF r
<1>4. DOMAIN r = 1..k /\ \A i \in 1..k : r[i] = s[i]
  BY <1>1, <1>3
<1>5. ToSet(r) \subseteq ToSet(s)
  BY <1>1, <1>4 DEF ToSet
<1> QED
  BY <1>3, <1>5 DEF Messages, r

LEMMA RestOfMessages ==
  ASSUME NEW s \in Messages, s # <<>>
  PROVE  /\ Tail(s) \in Messages /\ Head(s) \in Numbers
         /\ ToSet(Tail(s)) \subseteq ToSet(s) /\ Head(s) \in ToSet(s)
<1>1. /\ Tail(s) \in Seq(Numbers) /\ Head(s) = s[1] /\ Head(s) \in Numbers
      /\ Len(s) \in Nat /\ Len(s) >= 1 /\ Len(Tail(s)) = Len(s) - 1
      /\ \A i \in 1..(Len(s) - 1) : Tail(s)[i] = s[i + 1]
  BY HeadTailProperties DEF Messages
<1>2. DOMAIN s = 1..Len(s) /\ DOMAIN Tail(s) = 1..(Len(s) - 1)
  BY <1>1 DEF Messages
<1>3. ToSet(Tail(s)) \subseteq ToSet(s) /\ s[1] \in ToSet(s)
  BY <1>1, <1>2 DEF ToSet
<1> QED
  BY <1>1, <1>3 DEF Messages

LEMMA MoreMessages ==
  ASSUME NEW s \in Messages, NEW m \in Numbers
  PROVE  Append(s, m) \in Messages /\ ToSet(Append(s, m)) = ToSet(s) \cup {m}
<1> DEFINE r == Append(s, m)
<1>1. /\ r \in Seq(Numbers) /\ Len(r) = Len(s) + 1 /\ r[Len(s) + 1] = m
      /\ \A i \in 1..Len(s) : r[i] = s[i]
  BY AppendProperties DEF Messages
<1>2. Len(s) \in Nat /\ DOMAIN s = 1..Len(s) /\ DOMAIN r = 1..(Len(s) + 1)
  BY <1>1 DEF Messages
<1> HIDE DEF r
<1>3. ToSet(r) \subseteq ToSet(s) \cup {m}
  BY <1>1, <1>2 DEF ToSet
<1>4. ToSet(s) \subseteq ToSet(r) /\ m \in ToSet(r)
  BY <1>1, <1>2 DEF ToSet
<1> QED
  BY <1>1, <1>3, <1>4 DEF Messages, r

\* A later ack covers whatever an earlier one did.
LEMMA LaterAck ==
  ASSUME NEW s, NEW a \in Nat, NEW b \in Nat, a <= b, s.floor \in Nat, Covered(s, a)
  PROVE  Covered(s, b)
BY DEF Covered

StreamFields ==
  [ up : Messages, down : Messages, live : BOOLEAN, eof : BOOLEAN, greeted : BOOLEAN,
    pc : {"waiting", "done"} \cup Handling, msg : {0} \cup Records,
    floor : {0} \cup Records, seen : SUBSET Records,
    index : {NoIndex} \cup Nat, terminals : SUBSET ({NoIndex} \cup Nat) ]

LEMMA StreamTypeFields == StreamType = StreamFields
BY DEF StreamType, StreamFields, Messages, Numbers

\* A new stream, one that was left, one that broke and one that was acknowledged.
LEMMA NewStreamOK ==
  ASSUME NEW a \in Nat
  PROVE  NewStream \in StreamFields /\ Covered(NewStream, a)
<1>1. <<HELLO>> \in Messages /\ <<>> \in Messages
  BY DEF Messages, Numbers
<1>2. ToSet(<<>>) = {}
  BY DEF ToSet
<1> QED
  BY <1>1, <1>2 DEF NewStream, StreamFields, Covered

LEMMA LeftOK ==
  ASSUME NEW a \in Nat, NEW s \in StreamFields, ToSet(s.down) \subseteq 0..a
  PROVE  Left(s) \in StreamFields /\ Covered(Left(s), a)
<1>1. <<>> \in Messages /\ NewStream \in StreamFields
  BY NewStreamOK DEF Messages
<1>2. Left(s) \in StreamFields
  BY <1>1 DEF Left, StreamFields
<1>3. /\ Left(s).down = s.down /\ Left(s).msg = NewStream.msg /\ Left(s).seen = NewStream.seen
      /\ Left(s).floor = NewStream.floor /\ Left(s).pc = "done"
  BY <1>1 DEF Left, StreamFields
<1>4. NewStream.msg = 0 /\ NewStream.seen = {} /\ NewStream.floor = 0
  BY DEF NewStream
<1> QED
  BY <1>2, <1>3, <1>4 DEF Covered

LEMMA BrokenOK ==
  ASSUME NEW a \in Nat, NEW s \in StreamFields, Covered(s, a), NEW t \in Broken(s)
  PROVE  t \in StreamFields /\ Covered(t, a)
<1>1. PICK k \in 0..Len(s.up), j \in 0..Len(s.down) : t = Cut(s, k, j)
  BY DEF Broken
<1>2. s.up \in Messages /\ s.down \in Messages
  BY DEF StreamFields
<1>3. SubSeq(s.up, 1, k) \in Messages
  BY <1>2, PartOfMessages
<1>4. SubSeq(s.down, 1, j) \in Messages /\ ToSet(SubSeq(s.down, 1, j)) \subseteq ToSet(s.down)
  BY <1>2, PartOfMessages
<1>5. t \in StreamFields
  BY <1>1, <1>3, <1>4 DEF StreamFields, Cut
<1>6. t.floor = s.floor /\ t.seen = s.seen /\ t.msg = s.msg /\ t.pc = s.pc
      /\ t.down = SubSeq(s.down, 1, j)
  BY <1>1 DEF StreamFields, Cut
<1> QED
  BY <1>4, <1>5, <1>6 DEF Covered

LEMMA AckedOK ==
  ASSUME NEW a \in Nat, NEW s \in StreamFields, NEW m \in Numbers, m <= a,
         s.floor <= a, s.seen \subseteq 0..a, ToSet(s.down) \subseteq 0..a
  PROVE  Acked(s, m) \in StreamFields /\ Covered(Acked(s, m), a)
<1> DEFINE d == IF s.live THEN Append(s.down, m) ELSE s.down
<1>1. s.down \in Messages /\ m \in 0..a
  BY DEF StreamFields, Numbers, Records, HELLO
<1>2. d \in Messages /\ ToSet(d) \subseteq 0..a
  BY <1>1, MoreMessages
<1>3. Acked(s, m) = [s EXCEPT !.pc = "reading", !.msg = 0, !.down = d]
  BY DEF Acked
<1> HIDE DEF d
<1>4. Acked(s, m) \in StreamFields
  BY <1>2, <1>3 DEF StreamFields, Handling
<1>5. /\ Acked(s, m).floor = s.floor /\ Acked(s, m).seen = s.seen /\ Acked(s, m).msg = 0
      /\ Acked(s, m).down = d /\ Acked(s, m).pc = "reading"
  BY <1>3 DEF StreamFields
<1> QED
  BY <1>2, <1>4, <1>5 DEF Covered

-----------------------------------------------------------------------------
(* The streams together.                                                   *)

StreamsOK == streams \in Seq(StreamFields) /\ StreamsCovered

\* One stream changes, and Core's ack may grow.
LEMMA ReplaceStream ==
  ASSUME StreamsOK, coreAck \in Nat, coreAck' \in Nat, coreAck <= coreAck',
         NEW n \in 1..Stream, NEW s \in StreamFields, Covered(s, coreAck'),
         streams' = [streams EXCEPT ![n] = s]
  PROVE  StreamsOK' /\ Stream' = Stream
<1>1. streams \in Seq(StreamFields) /\ Stream = Len(streams) /\ Len(streams) \in Nat
      /\ DOMAIN streams = 1..Len(streams)
      /\ \A h \in 1..Stream : streams[h] \in StreamFields /\ Covered(streams[h], coreAck)
  BY DEF StreamsOK, StreamsCovered, Stream
<1>2. /\ streams' \in Seq(StreamFields) /\ Len(streams') = Len(streams)
      /\ \A h \in 1..Stream : streams'[h] = IF h = n THEN s ELSE streams[h]
  BY <1>1, ExceptSeq
<1>3. ASSUME NEW h \in 1..Stream  PROVE Covered(streams'[h], coreAck')
  <2>1. CASE h = n
    BY <2>1, <1>2
  <2>2. CASE h # n
    <3>1. streams'[h] = streams[h] /\ Covered(streams[h], coreAck) /\ streams[h] \in StreamFields
      BY <2>2, <1>1, <1>2
    <3>2. streams[h].floor \in Nat
      BY <3>1, EvidenceAssumption DEF StreamFields, Records
    <3> QED   BY <3>1, <3>2, LaterAck
  <2> QED   BY <2>1, <2>2
<1> QED
  BY <1>1, <1>2, <1>3 DEF StreamsOK, StreamsCovered, Stream

LEMMA ReplaceStreamOnly ==
  ASSUME StreamsOK, coreAck \in Nat, coreAck' = coreAck,
         NEW n \in 1..Stream, NEW s \in StreamFields, Covered(s, coreAck),
         streams' = [streams EXCEPT ![n] = s]
  PROVE  StreamsOK' /\ Stream' = Stream
<1>1. coreAck' \in Nat /\ coreAck <= coreAck' /\ Covered(s, coreAck')
  OBVIOUS
<1> QED
  BY <1>1, ReplaceStream

\* No stream changes.
LEMMA SameStreams ==
  ASSUME StreamsOK, UNCHANGED <<streams, coreAck>>
  PROVE  StreamsOK' /\ Stream' = Stream
BY DEF StreamsOK, StreamsCovered, Stream

\* A stream is as covered as before if it has no more to acknowledge.
LEMMA StillCovered ==
  ASSUME NEW a, NEW s, NEW t, Covered(s, a), t.floor = s.floor, t.seen = s.seen, t.msg = s.msg,
         t.pc \in {"half", "store"} => s.pc \in {"half", "store"},
         s.pc \in {"half", "store"} => t.pc \in {"half", "store"},
         ToSet(t.down) \subseteq ToSet(s.down)
  PROVE  Covered(t, a)
BY DEF Covered

-----------------------------------------------------------------------------
(* The initial state.                                                      *)

LEMMA InitIInv == Init => IInv
<1> SUFFICES ASSUME Init  PROVE IInv
  OBVIOUS
<1> USE EvidenceAssumption DEF Init
<1>1. streams = <<>> /\ Stream = 0 /\ sendQueue = <<>> /\ asrun = <<>>
      /\ writeQueue = <<>> /\ spoolFile = <<>>
  BY DEF Stream
<1>2. spoolFile \o writeQueue = [i \in 1..lastAppended |-> i]
  <2>1. <<>> \o <<>> = <<>> /\ [i \in 1..0 |-> i] = <<>>
    OBVIOUS
  <2> QED   BY <2>1, <1>1
<1>3. streams \in Seq(StreamType) /\ sendQueue \in Seq(Records)
      /\ asrun \in Seq([rec : Records, index : {NoIndex} \cup Nat, via : Nat])
  BY <1>1
<1>7. SpoolParts
  BY <1>1 DEF SpoolParts
<1>4. TypeOK
  <2>1. /\ air \in {"up", "stopping", "ended", "dead"} /\ sequence \in {0} \cup Records
        /\ refused \subseteq Records /\ cap \in SpoolCaps
        /\ lastAppended <= sequence /\ ackCursor \in 0..lastAppended
        /\ cap > 0 => lastAppended - ackCursor <= cap
        /\ {ackFile, lastAcked, coreAck} \subseteq {0} \cup Records
        /\ client \in {"idle", "hello", "live", "closing"} /\ stranded \subseteq Records
        /\ faults \in 0..MaxFaults /\ busy \in BusyWorkers /\ jsonl \subseteq Records
        /\ doubtful \subseteq Records
    OBVIOUS
  <2> QED   BY <1>2, <1>3, <2>1 DEF TypeOK
<1>5. FirstTaken /\ AcksStored /\ ClientHasStream
  BY DEF FirstTaken, AcksStored, ClientHasStream
<1>6. StreamsCovered
  BY <1>1 DEF StreamsCovered
<1> QED
  BY <1>4, <1>5, <1>6, <1>7 DEF IInv

-----------------------------------------------------------------------------
(* The steps of Core's handlers.                                           *)

\* What a handler does to its stream.
LEMMA HandlerStep ==
  ASSUME TypeOK, StreamsOK, NEW n \in 1..Stream, Handler(n) \/ HandlerFails(n)
  PROVE  /\ StreamsOK' /\ Stream' = Stream
         /\ coreAck' \in Numbers /\ coreAck <= coreAck'
<1> DEFINE s == streams[n]
<1>0. /\ s \in StreamFields /\ Covered(s, coreAck) /\ coreAck \in Nat /\ coreAck \in Numbers
      /\ \A m \in Numbers : m \in Nat
  BY EvidenceAssumption DEF StreamsOK, StreamsCovered, Stream, TypeOK, Records, Numbers, HELLO
<1>1. s.up \in Messages /\ s.down \in Messages /\ s.msg \in Numbers
  BY <1>0 DEF StreamFields, Numbers, HELLO
<1> HIDE DEF s
<1>2. ASSUME coreAck' = coreAck, NEW t \in StreamFields, Covered(t, coreAck),
             streams' = [streams EXCEPT ![n] = t]
      PROVE  StreamsOK' /\ Stream' = Stream /\ coreAck' \in Numbers /\ coreAck <= coreAck'
  <2>1. coreAck' \in Nat /\ coreAck <= coreAck' /\ coreAck' \in Numbers /\ Covered(t, coreAck')
    BY <1>0, <1>2
  <2> QED   BY <1>0, <1>2, <2>1, ReplaceStream
<1>3. CASE HandlerStarts(n)
  <2> DEFINE t == [s EXCEPT !.pc = "reading"]
  <2>1. s.pc = "waiting" /\ coreAck' = coreAck /\ streams' = [streams EXCEPT ![n] = t]
    BY <1>3 DEF HandlerStarts, coreVars, s
  <2>2. t \in StreamFields
    BY <1>0 DEF StreamFields, Handling
  <2>3. Covered(t, coreAck)
    BY <1>0, <2>1 DEF Covered, StreamFields
  <2> QED   BY <1>2, <2>1, <2>2, <2>3
<1>4. CASE HandlerGreets(n)
  <2> DEFINE u == [s EXCEPT !.up = Tail(@), !.floor = coreAck]
             t == Acked(u, HELLO)
  <2>1. s.pc = "reading" /\ s.up # <<>> /\ coreAck' = coreAck /\ streams' = [streams EXCEPT ![n] = t]
    BY <1>4 DEF HandlerGreets, s
  <2>2. u \in StreamFields
    BY <1>0, <1>1, <2>1, RestOfMessages DEF StreamFields, Numbers, HELLO
  <2>3. u.floor = coreAck /\ u.seen = s.seen /\ u.down = s.down
    BY <1>0 DEF StreamFields
  <2>4. s.seen \subseteq 0..coreAck /\ ToSet(s.down) \subseteq 0..coreAck
    BY <1>0, <2>1 DEF Covered
  <2>5. HELLO \in Numbers /\ HELLO <= coreAck
    BY <1>0 DEF Numbers, HELLO
  <2> HIDE DEF u
  <2>6. t \in StreamFields /\ Covered(t, coreAck)
    BY <1>0, <2>2, <2>3, <2>4, <2>5, AckedOK
  <2> QED   BY <1>2, <2>1, <2>6
<1>5. CASE HandlerReads(n)
  <2> DEFINE r == Head(s.up)
             u == [s EXCEPT !.up = Tail(@)]
  <2>1. /\ s.pc = "reading" /\ s.up # <<>> /\ r # HELLO /\ coreAck' = coreAck
        /\ streams' = [streams EXCEPT ![n] = IF Duplicate(s, r) THEN Acked(u, r) ELSE Written(u, r)]
    BY <1>5 DEF HandlerReads, s
  <2>2. u \in StreamFields /\ r \in Records /\ r \in Numbers
    BY <1>0, <1>1, <2>1, RestOfMessages DEF StreamFields, Numbers
  <2>3. u.floor = s.floor /\ u.seen = s.seen /\ u.down = s.down /\ u.pc = "reading"
    BY <1>0, <2>1 DEF StreamFields
  <2>4. s.seen \subseteq 0..coreAck /\ ToSet(s.down) \subseteq 0..coreAck /\ s.floor <= coreAck
        /\ s.floor \in Nat
    BY <1>0, <2>1, EvidenceAssumption DEF Covered, StreamFields, Records
  <2> HIDE DEF u, r
  <2>5. CASE Duplicate(s, r)
    <3>1. r <= coreAck
      BY <1>0, <2>2, <2>4, <2>5 DEF Duplicate
    <3>2. Acked(u, r) \in StreamFields /\ Covered(Acked(u, r), coreAck)
      BY <1>0, <2>2, <2>3, <2>4, <3>1, AckedOK
    <3> QED   BY <1>2, <2>1, <2>5, <3>2
  <2>6. CASE ~Duplicate(s, r)
    <3> DEFINE t == Written(u, r)
    <3>1. IndexOf(u, r) \in {NoIndex} \cup Nat
      <4>1. Segment(r) \in Nat
        BY <2>2, EvidenceAssumption DEF Segment, Records
      <4> QED   BY <4>1, <2>2 DEF IndexOf, StreamFields
    <3>2. t \in StreamFields
      BY <2>2, <3>1 DEF Written, StreamFields, Handling
    <3>3. /\ t.floor = s.floor /\ t.seen = s.seen \cup {r} /\ t.msg = r /\ t.down = s.down
          /\ t.pc \in {"half", "store"}
      BY <2>2, <2>3 DEF Written, StreamFields
    <3> HIDE DEF t
    <3>4. Covered(t, coreAck)
      BY <2>2, <2>4, <3>3 DEF Covered
    <3> QED   BY <1>2, <2>1, <2>6, <3>2, <3>4 DEF t
  <2> QED   BY <2>5, <2>6
<1>6. CASE HandlerWritesJsonl(n)
  <2> DEFINE t == [s EXCEPT !.pc = "store"]
  <2>1. s.pc = "half" /\ coreAck' = coreAck /\ streams' = [streams EXCEPT ![n] = t]
    BY <1>6 DEF HandlerWritesJsonl, s
  <2>2. t \in StreamFields
    BY <1>0 DEF StreamFields, Handling
  <2>3. Covered(t, coreAck)
    BY <1>0, <2>1 DEF Covered, StreamFields
  <2> QED   BY <1>2, <2>1, <2>2, <2>3
<1>7. CASE HandlerStores(n)
  <2> DEFINE t == Acked(s, s.msg)
  <2>1. streams' = [streams EXCEPT ![n] = t]
        /\ coreAck' = IF s.msg > coreAck THEN s.msg ELSE coreAck
    BY <1>7 DEF HandlerStores, s
  <2> DEFINE m == s.msg
  <2>a. m \in Numbers /\ m \in Nat
    BY <1>0, <1>1
  <2> HIDE DEF m
  <2>b. coreAck' = IF m > coreAck THEN m ELSE coreAck
    BY <2>1 DEF m
  <2>c. coreAck' \in Numbers /\ coreAck' \in Nat /\ coreAck <= coreAck' /\ m <= coreAck'
    BY <1>0, <2>a, <2>b
  <2>2. coreAck' \in Numbers /\ coreAck' \in Nat /\ coreAck <= coreAck' /\ s.msg <= coreAck'
        /\ s.msg \in Nat
    BY <2>a, <2>c DEF m
  <2>3. s.floor \in Nat
    BY <1>0, EvidenceAssumption DEF StreamFields, Records
  <2>4. s.seen \subseteq 0..coreAck' /\ ToSet(s.down) \subseteq 0..coreAck' /\ s.floor <= coreAck'
    BY <1>0, <2>2, <2>3 DEF Covered
  <2>5. t \in StreamFields /\ Covered(t, coreAck')
    BY <1>0, <1>1, <2>2, <2>4, AckedOK
  <2> QED   BY <1>0, <2>1, <2>2, <2>5, ReplaceStream
<1>8. CASE HandlerFails(n)
  <2> DEFINE u == [s EXCEPT !.live = FALSE]
             t == Left(u)
  <2>1. coreAck' = coreAck /\ streams' = [streams EXCEPT ![n] = t]
    BY <1>8 DEF HandlerFails, s
  <2>2. u \in StreamFields /\ u.down = s.down
    BY <1>0 DEF StreamFields
  <2>3. ToSet(u.down) \subseteq 0..coreAck
    BY <1>0, <2>2 DEF Covered
  <2> HIDE DEF u
  <2>4. t \in StreamFields /\ Covered(t, coreAck)
    BY <1>0, <2>2, <2>3, LeftOK
  <2> QED   BY <1>2, <2>1, <2>4
<1>9. CASE HandlerEnds(n)
  <2> DEFINE t == Left(s)
  <2>1. coreAck' = coreAck /\ streams' = [streams EXCEPT ![n] = t]
    BY <1>9 DEF HandlerEnds, coreVars, s
  <2>2. ToSet(s.down) \subseteq 0..coreAck
    BY <1>0 DEF Covered
  <2>3. t \in StreamFields /\ Covered(t, coreAck)
    BY <1>0, <2>2, LeftOK
  <2> QED   BY <1>2, <2>1, <2>3
<1> QED
  BY <1>3, <1>4, <1>5, <1>6, <1>7, <1>8, <1>9 DEF Handler

-----------------------------------------------------------------------------
(* The steps of AIR and of the network that touch the streams.             *)

\* A replay sends lines of the spool file.
LEMMA ReplayType ==
  ASSUME SpoolParts
  PROVE  Replay \in Seq(Records)
<1> DEFINE n == Len(spoolFile)
           below == {i \in DOMAIN spoolFile : spoolFile[i] <= lastAcked}
           k == Cardinality(below)
<1>1. spoolFile \in Seq(Records) /\ n \in Nat /\ DOMAIN spoolFile = 1..n
  BY DEF SpoolParts
<1>2. IsFiniteSet(1..n)
  <2>1. n \in Int /\ 1 \in Int   BY <1>1
  <2> HIDE DEF n
  <2> QED   BY <2>1, FS_Interval
<1>3. k \in Nat
  <2>1. below \in SUBSET (1..n)   BY <1>1
  <2> HIDE DEF below
  <2> QED   BY <2>1, <1>2, FS_Subset, FS_CardinalityType
<1> HIDE DEF k
<1>4. k + 1 \in Int /\ n \in Int /\ \A i \in (k + 1)..n : spoolFile[i] \in Records
  BY <1>1, <1>3
<1>5. SubSeq(spoolFile, k + 1, n) \in Seq(Records)
  <2> HIDE DEF n
  <2> QED   BY <1>4, SubSeqProperties
<1> QED
  BY <1>5 DEF Replay, Above, k

LEMMA WritesStep ==
  ASSUME StreamsOK, coreAck \in Nat, Stream > 0, NEW ms \in Seq(Records), Writes(ms),
         coreAck' = coreAck
  PROVE  StreamsOK' /\ Stream' = Stream /\ client' \in {"live", "closing"}
<1>1. Conn \in StreamFields /\ Covered(Conn, coreAck) /\ Stream \in 1..Stream
  BY DEF StreamsOK, StreamsCovered, Stream, Conn
<1>2. CASE Conn.live
  <2> DEFINE t == [Conn EXCEPT !.up = @ \o ms]
  <2>1. client' = "live" /\ streams' = [streams EXCEPT ![Stream] = t]
    BY <1>2 DEF Writes, Conn
  <2>2. Conn.up \o ms \in Messages
    <3>1. Conn.up \in Seq(Numbers) /\ ms \in Seq(Numbers)
      BY <1>1 DEF StreamFields, Messages, Numbers
    <3> QED   BY <3>1, ConcatProperties DEF Messages
  <2>3. t \in StreamFields /\ Covered(t, coreAck)
    BY <1>1, <2>2 DEF StreamFields, Covered
  <2> HIDE DEF t
  <2> DEFINE n == Stream
  <2>4. n \in 1..Stream /\ streams' = [streams EXCEPT ![n] = t]
    BY <1>1, <2>1
  <2> HIDE DEF n
  <2> QED   BY <2>1, <2>3, <2>4, ReplaceStreamOnly
<1>3. CASE ~Conn.live
  <2>1. UNCHANGED streams /\ client' \in {"live", "closing"}
    BY <1>3 DEF Writes
  <2> QED   BY <2>1, SameStreams
<1> QED
  BY <1>2, <1>3

\* The transport of the client's stream goes.
LEMMA BreaksStep ==
  ASSUME StreamsOK, coreAck \in Nat, Stream > 0, NEW t \in Broken(Conn),
         streams' = [streams EXCEPT ![Stream] = t], coreAck' = coreAck
  PROVE  StreamsOK' /\ Stream' = Stream
<1>1. Conn \in StreamFields /\ Covered(Conn, coreAck) /\ Stream \in 1..Stream
  BY DEF StreamsOK, StreamsCovered, Stream, Conn
<1>2. t \in StreamFields /\ Covered(t, coreAck)
  BY <1>1, BrokenOK
<1> DEFINE n == Stream
<1>3. n \in 1..Stream /\ streams' = [streams EXCEPT ![n] = t]
  BY <1>1
<1> HIDE DEF n
<1> QED
  BY <1>2, <1>3, ReplaceStreamOnly

LEMMA AirGoneStep ==
  ASSUME StreamsOK, coreAck \in Nat, AirGone
  PROVE  StreamsOK' /\ UNCHANGED <<Stream, coreAck>>
<1>1. coreAck' = coreAck
  BY DEF AirGone, coreVars
<1>2. CASE streams' = streams
  BY <1>1, <1>2, SameStreams
<1>3. CASE streams' # streams
  <2>1. Stream # 0 /\ \E t \in Broken(Conn) : streams' = [streams EXCEPT ![Stream] = t]
    BY <1>3 DEF AirGone
  <2>2. Stream > 0
    BY <2>1 DEF Stream, StreamsOK
  <2> QED   BY <1>1, <2>1, <2>2, BreaksStep
<1> QED
  BY <1>1, <1>2, <1>3

\* Core's handlers die with it.
LEMMA CoreDiesStep ==
  ASSUME StreamsOK, coreAck \in Nat, CoreDies
  PROVE  StreamsOK' /\ UNCHANGED <<Stream, coreAck>>
<1>0. Stream \in Nat /\ Stream > 0 /\ coreAck' = coreAck
      /\ \A n \in 1..Stream : streams[n] \in StreamFields /\ Covered(streams[n], coreAck)
  <2>1. Stream > 0 /\ coreAck' = coreAck
    BY DEF CoreDies
  <2>2. Stream \in Nat /\ \A n \in 1..Stream : streams[n] \in StreamFields /\ Covered(streams[n], coreAck)
    BY DEF StreamsOK, StreamsCovered, Stream
  <2> QED   BY <2>1, <2>2
<1>1. PICK j \in 0..Len(Conn.down) :
        streams' = [n \in 1..Stream |->
          Left([streams[n] EXCEPT !.live = FALSE,
                                  !.down = IF n = Stream THEN SubSeq(@, 1, j) ELSE <<>>])]
  BY DEF CoreDies
<1> DEFINE dead(n) == [streams[n] EXCEPT !.live = FALSE,
                                         !.down = IF n = Stream THEN SubSeq(@, 1, j) ELSE <<>>]
<1>2. ASSUME NEW n \in 1..Stream
      PROVE  Left(dead(n)) \in StreamFields /\ Covered(Left(dead(n)), coreAck)
  <2> DEFINE s == streams[n]
             d == IF n = Stream THEN SubSeq(s.down, 1, j) ELSE <<>>
             t == [s EXCEPT !.live = FALSE, !.down = d]
  <2>1. s \in StreamFields /\ s.down \in Messages /\ ToSet(s.down) \subseteq 0..coreAck
    BY <1>0 DEF Covered, StreamFields
  <2>2. d \in Messages /\ ToSet(d) \subseteq 0..coreAck
    <3>1. CASE n = Stream
      <4>1. j \in 0..Len(s.down)   BY <3>1 DEF Conn
      <4> HIDE DEF s
      <4>2. SubSeq(s.down, 1, j) \in Messages /\ ToSet(SubSeq(s.down, 1, j)) \subseteq ToSet(s.down)
        BY <2>1, <4>1, PartOfMessages
      <4> QED   BY <3>1, <2>1, <4>2
    <3>2. CASE n # Stream
      <4>1. <<>> \in Messages /\ ToSet(<<>>) = {}   BY DEF Messages, ToSet
      <4> QED   BY <3>2, <4>1
    <3> QED   BY <3>1, <3>2
  <2>3. dead(n) = t
    OBVIOUS
  <2> HIDE DEF s, d
  <2>4. t \in StreamFields /\ t.down = d
    BY <2>1, <2>2 DEF StreamFields
  <2>5. Left(t) \in StreamFields /\ Covered(Left(t), coreAck)
    <3> HIDE DEF t
    <3>1. ToSet(t.down) \subseteq 0..coreAck   BY <2>2, <2>4
    <3> QED   BY <1>0, <2>4, <3>1, LeftOK
  <2> QED   BY <2>3, <2>5
<1> DEFINE e(n) == Left(dead(n))
<1>3. streams' = [n \in 1..Stream |-> e(n)]
  BY <1>1
<1>4. \A n \in 1..Stream : e(n) \in StreamFields /\ Covered(e(n), coreAck)
  BY <1>2
<1> HIDE DEF e
<1>5. streams' \in Seq(StreamFields) /\ Len(streams') = Stream
      /\ \A n \in 1..Stream : streams'[n] = e(n)
  BY <1>0, <1>3, <1>4, IsASeq
<1> QED
  BY <1>0, <1>4, <1>5 DEF StreamsOK, StreamsCovered, Stream

\* The rest of the client: it opens a stream, closes it, and reads an ack.
LEMMA ConnectsStep ==
  ASSUME StreamsOK, coreAck \in Nat, ClientConnects
  PROVE  StreamsOK' /\ coreAck' = coreAck
<1>1. coreAck' = coreAck /\ streams' = Append(streams, NewStream)
  BY DEF ClientConnects, coreVars
<1>2. NewStream \in StreamFields /\ Covered(NewStream, coreAck)
  BY NewStreamOK
<1>3. streams \in Seq(StreamFields) /\ \A n \in 1..Len(streams) : Covered(streams[n], coreAck)
  BY DEF StreamsOK, StreamsCovered, Stream
<1>4. /\ streams' \in Seq(StreamFields) /\ Len(streams') = Len(streams) + 1
      /\ \A n \in 1..Len(streams) : streams'[n] = streams[n]
      /\ streams'[Len(streams) + 1] = NewStream
  BY <1>1, <1>2, <1>3, AppendProperties
<1>5. ASSUME NEW n \in 1..Len(streams')  PROVE Covered(streams'[n], coreAck)
  <2>1. CASE n = Len(streams) + 1   BY <2>1, <1>2, <1>4
  <2>2. CASE n # Len(streams) + 1
    <3>1. n \in 1..Len(streams)   BY <2>2, <1>3, <1>4
    <3> QED   BY <3>1, <1>3, <1>4
  <2> QED   BY <2>1, <2>2
<1> QED
  BY <1>1, <1>4, <1>5 DEF StreamsOK, StreamsCovered, Stream

LEMMA WritesDoneStep ==
  ASSUME StreamsOK, coreAck \in Nat, Stream > 0, WritesDone, coreAck' = coreAck
  PROVE  StreamsOK'
<1> DEFINE n == Stream
           t == [streams[n] EXCEPT !.eof = TRUE]
<1>1. n \in 1..Stream /\ streams[n] \in StreamFields /\ Covered(streams[n], coreAck)
  BY DEF StreamsOK, StreamsCovered, Stream
<1>2. streams' = [streams EXCEPT ![n] = t]
  BY DEF WritesDone
<1>3. t \in StreamFields /\ Covered(t, coreAck)
  BY <1>1 DEF StreamFields, Covered
<1> HIDE DEF n, t
<1> QED
  BY <1>1, <1>2, <1>3, ReplaceStreamOnly

LEMMA AckReadsStep ==
  ASSUME TypeOK, SpoolParts, StreamsOK, AcksStored, coreAck \in Nat, Stream > 0, AckReads
  PROVE  /\ StreamsOK' /\ AcksStored' /\ coreAck' = coreAck
         /\ ackFile' \in Numbers /\ lastAcked' \in Numbers
         /\ ackCursor' \in 0..lastAppended /\ ackCursor <= ackCursor'
<1> DEFINE n == Stream
           s == streams[n]
           t == [s EXCEPT !.down = Tail(@), !.greeted = TRUE]
           seq == Head(s.down)
<1>0. /\ n \in 1..Stream /\ s \in StreamFields /\ Covered(s, coreAck) /\ s.down \in Messages
      /\ s.down # <<>> /\ coreAck' = coreAck
  <2>1. n \in 1..Stream /\ s \in StreamFields /\ Covered(s, coreAck)
    BY DEF StreamsOK, StreamsCovered, Stream
  <2>2. s.down # <<>> /\ coreAck' = coreAck
    BY DEF AckReads, Conn, coreVars
  <2>3. s.down \in Messages
    BY <2>1 DEF StreamFields
  <2> QED   BY <2>1, <2>2, <2>3
<1>1. streams' = [streams EXCEPT ![n] = t]
  BY DEF AckReads
<1> HIDE DEF n, s
<1>2. /\ Tail(s.down) \in Messages /\ seq \in Numbers
      /\ ToSet(Tail(s.down)) \subseteq ToSet(s.down) /\ seq \in ToSet(s.down)
  BY <1>0, RestOfMessages
<1>3. t \in StreamFields /\ t.down = Tail(s.down) /\ t.floor = s.floor /\ t.seen = s.seen
      /\ t.msg = s.msg /\ t.pc = s.pc
  BY <1>0, <1>2 DEF StreamFields
<1>4. Covered(t, coreAck)
  <2> HIDE DEF t
  <2> QED   BY <1>0, <1>2, <1>3, StillCovered
<1>5. StreamsOK'
  <2> HIDE DEF t
  <2> QED   BY <1>0, <1>1, <1>3, <1>4, ReplaceStreamOnly
<1>6. seq \in 0..coreAck /\ seq \in Int
  BY <1>0, <1>2 DEF Covered
<1>7. /\ ackFile \in Numbers /\ lastAcked \in Numbers
      /\ ackFile \in 0..coreAck /\ lastAcked \in 0..coreAck
      /\ ackCursor \in 0..lastAppended /\ lastAppended \in Nat
  <2>1. ackFile \in Numbers /\ lastAcked \in Numbers /\ ackCursor \in 0..lastAppended
    BY DEF TypeOK, Numbers, HELLO
  <2>2. lastAppended \in Nat
    BY DEF SpoolParts
  <2> QED   BY <2>1, <2>2 DEF AcksStored
<1>8. CASE UNCHANGED ackVars
  BY <1>0, <1>5, <1>7, <1>8 DEF ackVars, AcksStored
<1>9. CASE lastAcked' = seq /\ UpdateAck(seq)
  <2>1. ackFile' \in {ackFile, seq}
    BY <1>9 DEF UpdateAck
  <2>2. ackCursor' \in 0..lastAppended /\ ackCursor <= ackCursor'
    BY <1>6, <1>7, <1>9 DEF UpdateAck
  <2>3. AcksStored'
    BY <1>0, <1>6, <1>7, <1>9, <2>1 DEF AcksStored
  <2> QED   BY <1>0, <1>2, <1>5, <1>7, <1>9, <2>1, <2>2, <2>3
<1> QED
  BY <1>8, <1>9 DEF AckReads, Conn, n, s

-----------------------------------------------------------------------------
(* The spool.                                                              *)

Appended == spoolFile \o writeQueue = [i \in 1..lastAppended |-> i]

\* The next record goes to the end.
LEMMA AppendStep ==
  ASSUME SpoolParts, Appended, lastAppended + 1 \in Records,
         writeQueue' = Append(writeQueue, lastAppended + 1), spoolFile' = spoolFile,
         lastAppended' = lastAppended + 1
  PROVE  SpoolParts' /\ Appended'
<1> DEFINE r == lastAppended + 1
           old == spoolFile \o writeQueue
           new == spoolFile \o Append(writeQueue, r)
           ids == [i \in 1..r |-> i]
<1>1. /\ spoolFile \in Seq(Records) /\ writeQueue \in Seq(Records) /\ lastAppended \in Nat
      /\ Len(spoolFile) \in Nat /\ Len(writeQueue) \in Nat
  BY DEF SpoolParts
<1>2. /\ old \in Seq(Records) /\ Len(old) = Len(spoolFile) + Len(writeQueue)
      /\ \A i \in 1..(Len(spoolFile) + Len(writeQueue)) :
           old[i] = IF i <= Len(spoolFile) THEN spoolFile[i] ELSE writeQueue[i - Len(spoolFile)]
  BY <1>1, ConcatProperties
<1>3. Len(old) = lastAppended /\ \A i \in 1..lastAppended : old[i] = i
  <2>1. old = [i \in 1..lastAppended |-> i]
    BY DEF Appended
  <2> HIDE DEF old
  <2> QED   BY <2>1, <1>1, <1>2
<1>4. /\ Append(writeQueue, r) \in Seq(Records) /\ Len(Append(writeQueue, r)) = Len(writeQueue) + 1
      /\ \A i \in 1..Len(writeQueue) : Append(writeQueue, r)[i] = writeQueue[i]
      /\ Append(writeQueue, r)[Len(writeQueue) + 1] = r
  BY <1>1, AppendProperties
<1>5. /\ new \in Seq(Records) /\ Len(new) = Len(spoolFile) + Len(writeQueue) + 1
      /\ \A i \in 1..(Len(spoolFile) + Len(writeQueue) + 1) :
           new[i] = IF i <= Len(spoolFile) THEN spoolFile[i]
                    ELSE Append(writeQueue, r)[i - Len(spoolFile)]
  <2> DEFINE a == Append(writeQueue, r)
  <2>1. a \in Seq(Records) /\ Len(a) = Len(writeQueue) + 1
    BY <1>4
  <2> HIDE DEF a
  <2>2. /\ spoolFile \o a \in Seq(Records) /\ Len(spoolFile \o a) = Len(spoolFile) + Len(a)
        /\ \A i \in 1..(Len(spoolFile) + Len(a)) :
             (spoolFile \o a)[i] = IF i <= Len(spoolFile) THEN spoolFile[i] ELSE a[i - Len(spoolFile)]
    BY <1>1, <2>1, ConcatProperties
  <2> QED   BY <1>1, <2>1, <2>2 DEF a
<1> HIDE DEF old, new
<1>6. Len(new) = r
  BY <1>2, <1>3, <1>5
<1>7. ASSUME NEW i \in 1..r  PROVE new[i] = i
  <2>1. CASE i = r
    <3>1. i = Len(spoolFile) + Len(writeQueue) + 1
      BY <2>1, <1>2, <1>3
    <3>2. new[i] = Append(writeQueue, r)[i - Len(spoolFile)]
      BY <3>1, <1>1, <1>5
    <3>3. i - Len(spoolFile) = Len(writeQueue) + 1
      BY <3>1, <1>1
    <3> QED   BY <3>2, <3>3, <2>1, <1>4
  <2>2. CASE i # r
    <3>1. i \in 1..lastAppended
      BY <2>2, <1>1
    <3>2. CASE i <= Len(spoolFile)
      BY <3>1, <3>2, <1>1, <1>2, <1>3, <1>5
    <3>3. CASE i > Len(spoolFile)
      <4>1. i - Len(spoolFile) \in 1..Len(writeQueue)
        BY <3>1, <3>3, <1>1, <1>2, <1>3
      <4>2. Append(writeQueue, r)[i - Len(spoolFile)] = writeQueue[i - Len(spoolFile)]
        BY <4>1, <1>4
      <4>3. new[i] = old[i]
        BY <3>1, <3>3, <4>2, <1>1, <1>2, <1>3, <1>5
      <4> QED   BY <3>1, <4>3, <1>3
    <3> QED   BY <3>1, <3>2, <3>3, <1>1
  <2> QED   BY <2>1, <2>2
<1>8. new = ids
  <2>1. ids \in Seq(Nat) /\ new \in Seq(Nat) /\ Len(ids) = r /\ \A i \in 1..r : ids[i] = i
    <3>1. r \in Nat /\ Records \subseteq Nat   BY <1>1 DEF Records
    <3>2. new \in Seq(Nat)   BY <3>1, <1>5, SeqMonotonic
    <3>3. \A i \in 1..r : i \in Nat   BY <3>1
    <3> HIDE DEF r
    <3>4. ids \in Seq(Nat) /\ Len(ids) = r /\ \A i \in 1..r : ids[i] = i   BY <3>1, <3>3
    <3> QED   BY <3>2, <3>4
  <2> HIDE DEF ids
  <2> QED   BY <2>1, <1>6, <1>7, SeqEqual
<1>9. SpoolParts'
  BY <1>1, <1>4 DEF SpoolParts
<1>10. Appended'
  BY <1>8 DEF Appended, new, ids
<1> QED
  BY <1>9, <1>10

LEMMA FlushStep ==
  ASSUME SpoolParts, Appended, WriterFlushes
  PROVE  SpoolParts' /\ Appended'
<1>1. spoolFile' = spoolFile \o writeQueue /\ writeQueue' = <<>> /\ lastAppended' = lastAppended
  BY DEF WriterFlushes
<1>2. spoolFile \o writeQueue \in Seq(Records)
  BY ConcatProperties DEF SpoolParts
<1>3. spoolFile' \o writeQueue' = spoolFile \o writeQueue
  BY <1>1, <1>2, ConcatEmptySeq
<1> QED
  BY <1>1, <1>2, <1>3 DEF SpoolParts, Appended

-----------------------------------------------------------------------------
(* The types, variable by variable.                                        *)

EmitterOK ==
  /\ air \in {"up", "stopping", "ended", "dead"}
  /\ sequence \in {0} \cup Records /\ refused \subseteq Records
  /\ cap \in SpoolCaps
  /\ lastAppended <= sequence /\ ackCursor \in 0..lastAppended
  /\ cap > 0 => lastAppended - ackCursor <= cap

ClientOK ==
  /\ client \in {"idle", "hello", "live", "closing"}
  /\ sendQueue \in Seq(Records) /\ stranded \subseteq Records

CoreOK ==
  /\ faults \in 0..MaxFaults
  /\ busy \in BusyWorkers /\ jsonl \subseteq Records /\ doubtful \subseteq Records
  /\ asrun \in Seq([rec : Records, index : {NoIndex} \cup Nat, via : Nat])

AcksOK == {ackFile, lastAcked, coreAck} \subseteq Numbers

LEMMA TypeParts ==
  TypeOK <=> /\ EmitterOK /\ Appended /\ AcksOK /\ ClientOK /\ CoreOK
             /\ streams \in Seq(StreamFields)
BY StreamTypeFields
   DEF TypeOK, EmitterOK, Appended, AcksOK, ClientOK, CoreOK, Numbers, HELLO

LEMMA TypePartsPrime ==
  ASSUME EmitterOK', Appended', AcksOK', ClientOK', CoreOK', (streams \in Seq(StreamFields))'
  PROVE  TypeOK'
BY StreamTypeFields
   DEF TypeOK, EmitterOK, Appended, AcksOK, ClientOK, CoreOK, Numbers, HELLO

\* The emitter and the spool.
LEMMA EmitterStep ==
  ASSUME IInv, Next
  PROVE  EmitterOK' /\ SpoolParts' /\ Appended' /\ FirstTaken'
<1>0. EmitterOK /\ Appended /\ SpoolParts /\ FirstTaken /\ AcksOK /\ ClientHasStream
  BY TypeParts DEF IInv
<1>1. /\ lastAppended \in Nat /\ sequence \in Nat /\ ackCursor \in Nat /\ MaxSequence \in Nat
      /\ cap \in Nat /\ Records \subseteq Nat
  BY <1>0, EvidenceAssumption DEF EmitterOK, SpoolParts, Records
<1>2. CASE EmitAppends
  <2>1. /\ sequence + 1 \in Records /\ ~Gap(sequence + 1) /\ ~Full
        /\ sequence' = sequence + 1 /\ lastAppended' = sequence + 1
        /\ writeQueue' = Append(writeQueue, sequence + 1)
        /\ UNCHANGED <<air, refused, cap, spoolFile, ackCursor>>
    BY <1>2 DEF EmitAppends, ackVars
  <2>2. lastAppended = sequence
    BY <1>0, <1>1, <2>1 DEF Gap, FirstTaken
  <2>3. SpoolParts' /\ Appended'
    BY <1>0, <2>1, <2>2, AppendStep
  <2>4. EmitterOK'
    BY <1>0, <1>1, <2>1, <2>2 DEF EmitterOK, Full
  <2>5. FirstTaken'
    BY <1>1, <2>1 DEF FirstTaken
  <2> QED   BY <2>3, <2>4, <2>5
<1>3. CASE EmitRefused
  <2>1. /\ sequence + 1 \in Records /\ Full
        /\ sequence' = sequence + 1 /\ refused' = refused \cup {sequence + 1}
        /\ UNCHANGED <<air, cap, writeQueue, spoolFile, lastAppended, ackCursor>>
    BY <1>3 DEF EmitRefused, spoolVars, ackVars
  <2>2. lastAppended # 0
    BY <1>0, <1>1, <2>1 DEF Full, EmitterOK
  <2> QED
    BY <1>0, <1>1, <2>1, <2>2 DEF EmitterOK, SpoolParts, Appended, FirstTaken
<1>4. CASE EmitThrows
  <2>1. /\ air' = "dead" /\ sequence < MaxSequence /\ sequence' = sequence + 1 /\ lastAppended # 0
        /\ UNCHANGED <<refused, cap, writeQueue, spoolFile, lastAppended, ackCursor>>
    BY <1>4 DEF EmitThrows, AirGone, Gap, spoolVars, ackVars
  <2>2. sequence + 1 \in Records
    BY <1>1, <2>1 DEF Records
  <2> QED
    BY <1>0, <1>1, <2>1, <2>2 DEF EmitterOK, SpoolParts, Appended, FirstTaken
<1>5. CASE AirDies
  <2>1. air' = "dead"
        /\ UNCHANGED <<sequence, refused, cap, writeQueue, spoolFile, lastAppended, ackCursor>>
    BY <1>5 DEF AirDies, AirGone, spoolVars, ackVars
  <2> QED
    BY <1>0, <2>1 DEF EmitterOK, SpoolParts, Appended, FirstTaken
<1>6. CASE Stop \/ Ends
  <2>1. air' \in {"stopping", "ended"}
        /\ UNCHANGED <<sequence, refused, cap, writeQueue, spoolFile, lastAppended, ackCursor>>
    BY <1>6 DEF Stop, Ends, spoolVars, ackVars
  <2> QED
    BY <1>0, <2>1 DEF EmitterOK, SpoolParts, Appended, FirstTaken
<1>7. CASE WriterFlushes
  <2>1. UNCHANGED <<air, sequence, refused, cap, lastAppended, ackCursor>>
    BY <1>7 DEF WriterFlushes, emitterVars, ackVars
  <2>2. SpoolParts' /\ Appended'
    BY <1>0, <1>7, FlushStep
  <2> QED
    BY <1>0, <2>1, <2>2 DEF EmitterOK, FirstTaken
<1>8. CASE AckReads
  <2>1. UNCHANGED <<air, sequence, refused, cap, writeQueue, spoolFile, lastAppended>>
    BY <1>8 DEF AckReads, emitterVars, spoolVars
  <2>2. Stream > 0
    BY <1>0, <1>8 DEF AckReads, ClientHasStream
  <2>3. ackCursor' \in 0..lastAppended /\ ackCursor <= ackCursor'
    <3>1. TypeOK /\ SpoolParts /\ StreamsOK /\ AcksStored /\ coreAck \in Nat
      BY TypeParts, EvidenceAssumption DEF IInv, StreamsOK, AcksOK, Numbers, Records, HELLO
    <3> QED   BY <1>8, <2>2, <3>1, AckReadsStep
  <2>4. cap' > 0 => lastAppended' - ackCursor' <= cap'
    <3>1. cap > 0 => lastAppended - ackCursor <= cap
      BY <1>0 DEF EmitterOK
    <3>2. ackCursor' \in Nat /\ cap' = cap /\ lastAppended' = lastAppended
      BY <1>1, <2>1, <2>3
    <3>3. lastAppended - ackCursor' <= lastAppended - ackCursor
      <4>1. lastAppended \in Int /\ ackCursor \in Int /\ ackCursor' \in Int
        BY <1>1, <3>2
      <4>2. ackCursor <= ackCursor'
        BY <2>3
      <4>3. ASSUME NEW l \in Int, NEW a \in Int, NEW b \in Int, a <= b
            PROVE  l - b <= l - a
        BY <4>3
      <4> QED   BY <4>1, <4>2, <4>3
    <3>4. lastAppended - ackCursor \in Int /\ lastAppended - ackCursor' \in Int /\ cap \in Int
      BY <1>1, <3>2
    <3>5. cap > 0 => lastAppended - ackCursor' <= cap
      BY <3>1, <3>3, <3>4
    <3> QED   BY <3>2, <3>5
  <2>5. EmitterOK'
    BY <1>0, <2>1, <2>3, <2>4 DEF EmitterOK
  <2>6. SpoolParts' /\ FirstTaken'
    BY <1>0, <2>1 DEF SpoolParts, FirstTaken
  <2>7. Appended'
    BY <1>0, <2>1 DEF Appended
  <2> QED   BY <2>5, <2>6, <2>7
<1>9. CASE UNCHANGED <<emitterVars, spoolVars, ackVars>>
  BY <1>0, <1>9 DEF EmitterOK, SpoolParts, Appended, FirstTaken, emitterVars, spoolVars, ackVars
<1>10. \/ EmitAppends \/ EmitRefused \/ EmitThrows \/ AirDies \/ Stop \/ Ends
       \/ WriterFlushes \/ AckReads \/ UNCHANGED <<emitterVars, spoolVars, ackVars>>
  BY DEF Next, Emit, Client, Handler, NetworkBreaks, CoreDies, ClientConnects, HelloLost,
         HelloTimesOut, NoAnswer, ClientReplays, ClientSends, ClientCloses, ClientJoins,
         HandlerStarts, HandlerGreets, HandlerReads, HandlerWritesJsonl, HandlerStores,
         HandlerEnds, HandlerFails
<1> QED
  BY <1>2, <1>3, <1>4, <1>5, <1>6, <1>7, <1>8, <1>9, <1>10

\* The client and what it has to send.
LEMMA ClientStep ==
  ASSUME IInv, Next
  PROVE  ClientOK'
<1>0. ClientOK /\ SpoolParts /\ Appended /\ EmitterOK /\ CoreOK /\ ClientHasStream
      /\ streams \in Seq(StreamFields)
  BY TypeParts DEF IInv
<1>1. CASE EmitAppends
  <2>1. /\ sequence + 1 \in Records /\ sendQueue' = Append(sendQueue, sequence + 1)
        /\ client' = client /\ stranded' = stranded
    BY <1>1 DEF EmitAppends
  <2>2. sendQueue' \in Seq(Records)
    BY <1>0, <2>1, AppendProperties DEF ClientOK
  <2> QED   BY <1>0, <2>1, <2>2 DEF ClientOK
<1>2. CASE ClientReplays
  <2>1. stranded' = stranded \cup Missed /\ sendQueue' = sendQueue
        /\ client' \in {"live", "closing"}
    BY <1>2 DEF ClientReplays, Writes
  <2>2. lastAppended \in Nat /\ sequence \in {0} \cup Records /\ lastAppended <= sequence
    BY <1>0 DEF EmitterOK, SpoolParts
  <2>3. Missed \subseteq Records
    BY <2>2, EvidenceAssumption DEF Missed, Records
  <2> QED   BY <1>0, <2>1, <2>3 DEF ClientOK
<1>3. CASE ClientSends
  <2>1. stranded' = stranded /\ sendQueue' = <<>> /\ client' \in {"live", "closing"}
    BY <1>3 DEF ClientSends, Writes
  <2> QED   BY <1>0, <2>1 DEF ClientOK
<1>4. CASE ClientConnects \/ HelloLost \/ HelloTimesOut \/ ClientCloses \/ ClientJoins
  BY <1>0, <1>4 DEF ClientOK, ClientConnects, HelloLost, HelloTimesOut, NoAnswer, ClientCloses,
                    ClientJoins
<1>5. CASE UNCHANGED clientVars
  BY <1>0, <1>5 DEF ClientOK, clientVars
<1>6. \/ EmitAppends \/ ClientReplays \/ ClientSends
      \/ ClientConnects \/ HelloLost \/ HelloTimesOut \/ ClientCloses \/ ClientJoins
      \/ UNCHANGED clientVars
  BY DEF Next, Emit, EmitRefused, EmitThrows, Stop, WriterFlushes, Client, Ends, AckReads,
         Handler, NetworkBreaks, CoreDies, AirDies, AirGone, HandlerStarts, HandlerGreets,
         HandlerReads, HandlerWritesJsonl, HandlerStores, HandlerEnds, HandlerFails
<1> QED
  BY <1>1, <1>2, <1>3, <1>4, <1>5, <1>6

-----------------------------------------------------------------------------
(* What the streams, the acks and the client have in common.               *)

LEMMA StreamStep ==
  ASSUME IInv, Next
  PROVE  StreamsOK' /\ AcksStored' /\ AcksOK' /\ ClientHasStream'
<1>0. /\ TypeOK /\ SpoolParts /\ StreamsOK /\ AcksStored /\ AcksOK /\ ClientHasStream
      /\ coreAck \in Nat /\ Stream \in Nat /\ CoreOK
  <2>1. TypeOK /\ SpoolParts /\ StreamsOK /\ AcksStored /\ AcksOK /\ ClientHasStream /\ CoreOK
    BY TypeParts DEF IInv, StreamsOK
  <2> QED   BY <2>1, EvidenceAssumption DEF AcksOK, StreamsOK, Stream, Numbers, Records, HELLO
<1>1. ASSUME StreamsOK', UNCHANGED <<ackFile, lastAcked, coreAck>>, ClientHasStream'
      PROVE  StreamsOK' /\ AcksStored' /\ AcksOK' /\ ClientHasStream'
  BY <1>0, <1>1 DEF AcksStored, AcksOK
<1>2. ASSUME Stream' = Stream, client' = client \/ Stream > 0
      PROVE  ClientHasStream'
  BY <1>0, <1>2 DEF ClientHasStream
<1>3. ASSUME NEW n \in 1..Stream, Handler(n) \/ HandlerFails(n)
      PROVE  StreamsOK' /\ AcksStored' /\ AcksOK' /\ ClientHasStream'
  <2>1. StreamsOK' /\ Stream' = Stream /\ coreAck' \in Numbers /\ coreAck <= coreAck'
    BY <1>0, <1>3, HandlerStep
  <2>2. UNCHANGED <<ackFile, lastAcked, client>>
    BY <1>3 DEF Handler, HandlerStarts, HandlerGreets, HandlerReads, HandlerWritesJsonl,
                HandlerStores, HandlerEnds, HandlerFails, ackVars, clientVars
  <2>3. coreAck' \in Nat
    BY <2>1, EvidenceAssumption DEF Numbers, Records, HELLO
  <2>4. AcksStored'
    BY <1>0, <2>1, <2>2, <2>3 DEF AcksStored
  <2>5. AcksOK'
    BY <1>0, <2>1, <2>2 DEF AcksOK
  <2> QED   BY <1>2, <2>1, <2>2, <2>4, <2>5
<1>4. CASE NetworkBreaks
  <2>1. Stream > 0 /\ UNCHANGED <<ackFile, lastAcked, coreAck, client>>
        /\ \E t \in Broken(Conn) : streams' = [streams EXCEPT ![Stream] = t]
    BY <1>4 DEF NetworkBreaks, ackVars, clientVars, coreVars
  <2>2. StreamsOK' /\ Stream' = Stream
    BY <1>0, <2>1, BreaksStep
  <2> QED   BY <1>1, <1>2, <2>1, <2>2
<1>5. CASE CoreDies
  <2>1. UNCHANGED <<ackFile, lastAcked, client>>
    BY <1>5 DEF CoreDies, ackVars, clientVars
  <2> QED   BY <1>0, <1>1, <1>2, <1>5, <2>1, CoreDiesStep
<1>6. CASE AirDies \/ EmitThrows
  <2>1. AirGone /\ UNCHANGED <<ackFile, lastAcked, client>>
    BY <1>6 DEF AirDies, EmitThrows, AirGone, ackVars, clientVars
  <2> QED   BY <1>0, <1>1, <1>2, <2>1, AirGoneStep
<1>7. CASE ClientConnects
  <2>1. StreamsOK' /\ coreAck' = coreAck
    BY <1>0, <1>7, ConnectsStep
  <2>2. UNCHANGED <<ackFile, lastAcked>> /\ streams' = Append(streams, NewStream)
    BY <1>7 DEF ClientConnects, ackVars
  <2>3. Stream' = Stream + 1
    <3>1. streams \in Seq(StreamFields) /\ NewStream \in StreamFields
      BY <1>0, NewStreamOK DEF StreamsOK
    <3>2. Len(Append(streams, NewStream)) = Len(streams) + 1
      BY <3>1, AppendProperties
    <3> QED   BY <2>2, <3>2 DEF Stream
  <2>4. ClientHasStream'
    BY <1>0, <2>3 DEF ClientHasStream
  <2> QED   BY <1>1, <2>1, <2>2, <2>4
<1>8. CASE ClientReplays
  <2>1. Writes(Replay) /\ client # "idle" /\ UNCHANGED <<ackFile, lastAcked, coreAck>>
    BY <1>8 DEF ClientReplays, ackVars, coreVars
  <2>2. Replay \in Seq(Records) /\ Stream > 0
    BY <1>0, <2>1, ReplayType DEF ClientHasStream
  <2> DEFINE ms == Replay
  <2>3. ms \in Seq(Records) /\ Writes(ms)
    BY <2>1, <2>2
  <2> HIDE DEF ms
  <2>4. StreamsOK' /\ Stream' = Stream
    BY <1>0, <2>1, <2>2, <2>3, WritesStep
  <2> QED   BY <1>1, <1>2, <2>1, <2>2, <2>4
<1>9. CASE ClientSends
  <2>1. Writes(sendQueue) /\ client # "idle" /\ UNCHANGED <<ackFile, lastAcked, coreAck>>
    BY <1>9 DEF ClientSends, ackVars, coreVars
  <2>2. sendQueue \in Seq(Records) /\ Stream > 0
    BY <1>0, <2>1 DEF ClientHasStream, TypeOK
  <2>4. StreamsOK' /\ Stream' = Stream
    BY <1>0, <2>1, <2>2, WritesStep
  <2> QED   BY <1>1, <1>2, <2>1, <2>2, <2>4
<1>10. CASE HelloLost \/ HelloTimesOut \/ ClientCloses
  <2>1. WritesDone /\ client # "idle" /\ UNCHANGED <<ackFile, lastAcked, coreAck>>
    BY <1>10 DEF HelloLost, HelloTimesOut, NoAnswer, ClientCloses, ackVars, coreVars
  <2>2. Stream > 0
    BY <1>0, <2>1 DEF ClientHasStream
  <2>3. StreamsOK'
    BY <1>0, <2>1, <2>2, WritesDoneStep
  <2>4. Stream' = Stream
    <3>1. streams' = [streams EXCEPT ![Stream].eof = TRUE] /\ streams \in Seq(StreamFields)
      BY <1>0, <2>1 DEF WritesDone, StreamsOK
    <3> DEFINE n == Stream
               t == [streams[n] EXCEPT !.eof = TRUE]
    <3>2. n \in 1..Len(streams) /\ streams[n] \in StreamFields
      BY <1>0, <2>2, <3>1 DEF Stream
    <3>3. t \in StreamFields
      BY <3>2 DEF StreamFields
    <3>4. streams' = [streams EXCEPT ![n] = t]
      BY <3>1
    <3> HIDE DEF n, t
    <3>5. Len([streams EXCEPT ![n] = t]) = Len(streams)
      BY <3>1, <3>2, <3>3, ExceptSeq
    <3> QED   BY <3>4, <3>5 DEF Stream
  <2> QED   BY <1>1, <1>2, <2>1, <2>2, <2>3, <2>4
<1>11. CASE AckReads
  <2>1. Stream > 0 /\ client' = client
    BY <1>0, <1>11 DEF AckReads, ClientHasStream, clientVars
  <2>2. StreamsOK' /\ AcksStored' /\ coreAck' = coreAck /\ ackFile' \in Numbers
        /\ lastAcked' \in Numbers
    BY <1>0, <1>11, <2>1, AckReadsStep
  <2>3. AcksOK'
    BY <1>0, <2>2 DEF AcksOK
  <2>4. Stream' = Stream
    <3> DEFINE n == Stream
               t == [streams[n] EXCEPT !.down = Tail(@), !.greeted = TRUE]
    <3>1. streams' = [streams EXCEPT ![n] = t] /\ streams[n].down # <<>>
      BY <1>11 DEF AckReads, Conn
    <3>2. n \in 1..Len(streams) /\ streams[n] \in StreamFields /\ streams \in Seq(StreamFields)
      BY <1>0, <2>1 DEF StreamsOK, Stream
    <3>3. streams[n].down \in Messages
      BY <3>2 DEF StreamFields
    <3>4. Tail(streams[n].down) \in Messages
      <4> DEFINE d == streams[n].down
      <4>1. d \in Messages /\ d # <<>>
        BY <3>1, <3>3
      <4> HIDE DEF d
      <4>2. Tail(d) \in Messages
        BY <4>1, RestOfMessages
      <4> QED   BY <4>2 DEF d
    <3>5. t \in StreamFields
      BY <3>2, <3>4 DEF StreamFields
    <3> HIDE DEF n, t
    <3>6. Len([streams EXCEPT ![n] = t]) = Len(streams)
      BY <3>2, <3>5, ExceptSeq
    <3> QED   BY <3>1, <3>6 DEF Stream
  <2> QED   BY <1>2, <2>1, <2>2, <2>3, <2>4
<1>12. CASE EmitAppends \/ EmitRefused \/ Stop \/ WriterFlushes \/ Ends
  <2>1. UNCHANGED <<streams, ackFile, lastAcked, coreAck, client>>
    BY <1>12 DEF EmitAppends, EmitRefused, Stop, WriterFlushes, Ends, ackVars, coreVars, clientVars
  <2>2. StreamsOK' /\ Stream' = Stream
    BY <1>0, <2>1, SameStreams
  <2> QED   BY <1>1, <1>2, <2>1, <2>2
<1>13. CASE ClientJoins
  <2>1. UNCHANGED <<streams, ackFile, lastAcked, coreAck>> /\ client' = "idle"
    BY <1>13 DEF ClientJoins, ackVars, coreVars
  <2>2. StreamsOK' /\ ClientHasStream'
    BY <1>0, <2>1, SameStreams DEF ClientHasStream
  <2> QED   BY <1>1, <2>1, <2>2
<1> QED
  BY <1>3, <1>4, <1>5, <1>6, <1>7, <1>8, <1>9, <1>10, <1>11, <1>12, <1>13 DEF Next, Emit, Client

-----------------------------------------------------------------------------
(* Core's files.                                                           *)

\* What is in a stream, and in a sequence of messages.
LEMMA MessagesAre ==
  ASSUME NEW s \in Messages
  PROVE  ToSet(s) \subseteq Numbers
<1>1. Len(s) \in Nat /\ DOMAIN s = 1..Len(s) /\ \A i \in 1..Len(s) : s[i] \in Numbers
  BY DEF Messages
<1> QED
  BY <1>1 DEF ToSet

LEMMA CoreStep ==
  ASSUME IInv, Next
  PROVE  CoreOK'
<1> DEFINE Line == [rec : Records, index : {NoIndex} \cup Nat, via : Nat]
<1>0. /\ CoreOK /\ StreamsOK /\ Stream \in Nat
      /\ \A h \in 1..Stream : streams[h] \in StreamFields /\ Covered(streams[h], coreAck)
  <2>1. CoreOK /\ StreamsOK
    BY TypeParts DEF IInv, StreamsOK
  <2> QED   BY <2>1 DEF StreamsOK, StreamsCovered, Stream
<1>1. faults' \in 0..MaxFaults
  <2>1. faults \in 0..MaxFaults /\ (faults' = faults \/ Fault)
    BY <1>0 DEF CoreOK, Next, Emit, EmitAppends, EmitRefused, EmitThrows, Stop, WriterFlushes,
         Client, ClientConnects, HelloLost, HelloTimesOut, ClientReplays, ClientSends,
         ClientCloses, ClientJoins, Ends, AckReads, Handler, NetworkBreaks, CoreDies, AirDies,
         HandlerStarts, HandlerGreets, HandlerReads, HandlerWritesJsonl, HandlerStores,
         HandlerEnds, HandlerFails
  <2> QED   BY <2>1, EvidenceAssumption DEF Fault
<1>2. ASSUME NEW n \in 1..Stream, HandlerGreets(n)
      PROVE  CoreOK'
  <2>1. ASSUME NEW h \in Held \ {n}
        PROVE  ToSet(streams[h].up) \cup (IF streams[h].pc = "reading" THEN {} ELSE {streams[h].msg})
                 \subseteq Numbers
    <3>1. streams[h] \in StreamFields
      BY <1>0, <2>1 DEF Held
    <3>2. streams[h].up \in Messages /\ streams[h].msg \in Numbers
      BY <3>1 DEF StreamFields, Numbers, HELLO
    <3> DEFINE up == streams[h].up
               m  == streams[h].msg
    <3>3. up \in Messages /\ m \in Numbers
      BY <3>2
    <3> HIDE DEF up, m
    <3>4. ToSet(up) \subseteq Numbers
      BY <3>3, MessagesAre
    <3> QED   BY <3>3, <3>4 DEF up, m
  <2>2. Doubt(n) \subseteq Records
    <3> DEFINE D(h) == ToSet(streams[h].up)
                       \cup (IF streams[h].pc = "reading" THEN {} ELSE {streams[h].msg})
               all == UNION {D(h) : h \in Held \ {n}}
    <3>1. Doubt(n) = all \ {HELLO}
      BY DEF Doubt
    <3>2. \A h \in Held \ {n} : D(h) \subseteq Numbers
      BY <2>1
    <3>3. all \subseteq Numbers
      <4> HIDE DEF D
      <4>1. ASSUME NEW r \in all  PROVE r \in Numbers
        <5>1. PICK h \in Held \ {n} : r \in D(h)
          BY <4>1
        <5> QED   BY <3>2, <5>1
      <4> QED   BY <4>1
    <3> HIDE DEF all
    <3> QED   BY <3>1, <3>3 DEF Numbers
  <2>3. doubtful' = doubtful \cup Doubt(n) /\ UNCHANGED <<busy, jsonl, asrun>>
    BY <1>2 DEF HandlerGreets
  <2> QED   BY <1>0, <1>1, <2>2, <2>3 DEF CoreOK
<1>3. ASSUME NEW n \in 1..Stream, HandlerReads(n)
      PROVE  CoreOK'
  <2> DEFINE s == streams[n]
             r == Head(s.up)
             t == [s EXCEPT !.up = Tail(@)]
             line == [rec |-> r, index |-> IndexOf(t, r), via |-> n]
  <2>1. /\ s \in StreamFields /\ s.up \in Messages /\ s.up # <<>> /\ r # HELLO
        /\ asrun' \in {asrun, Append(asrun, line)}
        /\ UNCHANGED <<busy, jsonl, doubtful>>
    <3>1. s \in StreamFields
      BY <1>0
    <3>2. s.up \in Messages
      BY <3>1 DEF StreamFields
    <3>3. s.up # <<>> /\ r # HELLO /\ UNCHANGED <<busy, jsonl, doubtful>>
      BY <1>3 DEF HandlerReads
    <3>4. asrun' \in {asrun, Append(asrun, line)}
      BY <1>3 DEF HandlerReads
    <3> QED   BY <3>1, <3>2, <3>3, <3>4
  <2>2. r \in Records
    <3> DEFINE up == s.up
    <3>1. up \in Messages /\ up # <<>>
      BY <2>1
    <3> HIDE DEF up
    <3>2. Head(up) \in Numbers
      BY <3>1, RestOfMessages
    <3> QED   BY <2>1, <3>2 DEF Numbers, up
  <2>3. t.index \in {NoIndex} \cup Nat
    BY <2>1 DEF StreamFields
  <2> HIDE DEF t, r
  <2>4. IndexOf(t, r) \in {NoIndex} \cup Nat
    <3>1. Segment(r) \in Nat
      BY <2>2, EvidenceAssumption DEF Segment, Records
    <3> QED   BY <2>3, <3>1 DEF IndexOf
  <2>5. line \in Line
    BY <2>2, <2>4
  <2> HIDE DEF line, Line
  <2>6. asrun \in Seq(Line)
    BY <1>0 DEF CoreOK, Line
  <2>7. Append(asrun, line) \in Seq(Line)
    BY <2>5, <2>6, AppendProperties
  <2>8. asrun' \in Seq(Line)
    BY <2>1, <2>6, <2>7
  <2> QED   BY <1>0, <1>1, <2>1, <2>8 DEF CoreOK, Line
<1>4. ASSUME NEW n \in 1..Stream, HandlerWritesJsonl(n) \/ HandlerFails(n)
      PROVE  CoreOK'
  <2>1. /\ UNCHANGED <<busy, asrun>>
        /\ jsonl' = jsonl \/ (streams[n].pc = "half" /\ jsonl' = jsonl \cup {streams[n].msg})
        /\ doubtful' = doubtful \/ (streams[n].pc = "half" /\ doubtful' = doubtful \cup {streams[n].msg})
    BY <1>4 DEF HandlerWritesJsonl, HandlerFails
  <2>2. streams[n].pc = "half" => streams[n].msg \in Records
    BY <1>0 DEF Covered
  <2> QED   BY <1>0, <1>1, <2>1, <2>2 DEF CoreOK
<1>5. CASE CoreDies
  <2> DEFINE cut == {streams[n].msg : n \in {h \in Held : streams[h].pc \in {"half", "store"}}}
  <2>1. doubtful' = doubtful \cup cut /\ UNCHANGED <<busy, jsonl, asrun>>
    BY <1>5 DEF CoreDies
  <2>2. cut \subseteq Records
    BY <1>0 DEF Held, Covered
  <2> QED   BY <1>0, <1>1, <2>1, <2>2 DEF CoreOK
<1>6. CASE UNCHANGED <<busy, asrun, jsonl, doubtful>>
  BY <1>0, <1>1, <1>6 DEF CoreOK
<1>7. \/ \E n \in 1..Stream : HandlerGreets(n) \/ HandlerReads(n) \/ HandlerWritesJsonl(n)
                              \/ HandlerFails(n)
      \/ CoreDies \/ UNCHANGED <<busy, asrun, jsonl, doubtful>>
  BY DEF Next, Emit, EmitAppends, EmitRefused, EmitThrows, Stop, WriterFlushes,
         Client, ClientConnects, HelloLost, HelloTimesOut, NoAnswer, ClientReplays, ClientSends,
         ClientCloses, ClientJoins, Ends, AckReads, Handler, NetworkBreaks, AirDies, AirGone,
         HandlerStarts, HandlerStores, HandlerEnds, coreVars
<1> QED
  BY <1>2, <1>3, <1>4, <1>5, <1>6, <1>7

-----------------------------------------------------------------------------
(* The invariant and what follows from it.                                 *)

LEMMA StepIInv == IInv /\ [Next]_vars => IInv'
<1> SUFFICES ASSUME IInv, [Next]_vars  PROVE IInv'
  OBVIOUS
<1>1. CASE Next
  <2>1. EmitterOK' /\ SpoolParts' /\ Appended' /\ FirstTaken'
    BY <1>1, EmitterStep
  <2>2. StreamsOK' /\ AcksStored' /\ AcksOK' /\ ClientHasStream'
    BY <1>1, StreamStep
  <2>3. ClientOK' /\ CoreOK'
    BY <1>1, ClientStep, CoreStep
  <2>4. TypeOK'
    BY <2>1, <2>2, <2>3, TypePartsPrime DEF StreamsOK
  <2> QED   BY <2>1, <2>2, <2>4 DEF IInv, StreamsOK
<1>2. CASE UNCHANGED vars
  <2> USE <1>2 DEF vars, emitterVars, spoolVars, ackVars, clientVars, coreVars
  <2>1. TypeOK'
    BY DEF IInv, TypeOK
  <2>2. SpoolParts' /\ FirstTaken' /\ AcksStored'
    BY DEF IInv, SpoolParts, FirstTaken, AcksStored
  <2>3. StreamsCovered' /\ ClientHasStream'
    BY DEF IInv, StreamsCovered, ClientHasStream, Stream
  <2> QED   BY <2>1, <2>2, <2>3 DEF IInv
<1> QED
  BY <1>1, <1>2

LEMMA Invariance == Spec => []IInv
BY InitIInv, StepIInv, PTL DEF Spec

\* Every variable has its type; the file and the queue of the spool hold each
\* record EvidenceSpool::Append took once and in order; and what Core has not
\* acknowledged never exceeds the cap Append checks.
THEOREM TypeCorrect == Spec => []TypeOK
<1>1. IInv => TypeOK
  BY DEF IInv
<1> QED
  BY <1>1, Invariance, PTL

\* Neither EvidenceSpool::UpdateAck nor the client's last_acked_ nor any ack on
\* its way runs ahead of what DurableAckStore holds, so a restart of Core never
\* finds a record AIR will not send again, whatever breaks.
THEOREM AcksAreStored == Spec => []AirBehindCore
<1>1. IInv => AirBehindCore
  BY DEF IInv, AirBehindCore, AcksStored, StreamsCovered, Covered
<1> QED
  BY <1>1, Invariance, PTL

(***************************************************************************)
(* What is acknowledged is logged.                                         *)
(***************************************************************************)

(* What a handler has to read, u, after what it has seen and what was stored when it
   loaded the ack, floor.  Nothing is left out but the stranded records, str, and
   what is new is newer than all before it. *)
Known(u, seen, floor, i, r) == r <= floor \/ r \in seen \/ \E j \in 1..(i - 1) : u[j] = r
Newest(u, seen, i) == (\A q \in seen : q < u[i]) /\ \A j \in 1..(i - 1) : u[j] < u[i]

Order(u, seen, floor, str, top) ==
  /\ \A i \in 1..Len(u) : \A r \in Records :
       r < u[i] => Known(u, seen, floor, i, r) \/ r \in str
  /\ \A i \in 1..Len(u) : Known(u, seen, floor, i, u[i]) \/ Newest(u, seen, i)
  /\ \A q \in seen, r \in Records : r < q => r <= floor \/ r \in seen \/ r \in str
  /\ \A q \in seen : floor < q /\ q <= top
  /\ \A i \in 1..Len(u) : u[i] <= top

LEMMA MessageFacts ==
  ASSUME NEW u \in Messages
  PROVE  /\ Len(u) \in Nat /\ DOMAIN u = 1..Len(u)
         /\ \A i \in 1..Len(u) : u[i] \in Numbers /\ u[i] \in Nat
         /\ \A r : r \in ToSet(u) <=> \E i \in 1..Len(u) : u[i] = r
<1>1. Len(u) \in Nat /\ DOMAIN u = 1..Len(u) /\ \A i \in 1..Len(u) : u[i] \in Numbers
  BY DEF Messages
<1>2. Numbers \subseteq Nat
  BY EvidenceAssumption DEF Numbers, Records, HELLO
<1> QED
  BY <1>1, <1>2 DEF ToSet

\* More may be stranded and more appended.
LEMMA OrderGrows ==
  ASSUME NEW u \in Messages, NEW seen \in SUBSET Records, NEW floor \in Numbers,
         NEW str, NEW str2, str \subseteq str2, NEW top \in Nat, NEW top2 \in Nat, top <= top2,
         Order(u, seen, floor, str, top)
  PROVE  Order(u, seen, floor, str2, top2)
<1>1. \A i \in 1..Len(u) : u[i] \in Nat
  BY MessageFacts
<1>2. Records \subseteq Nat
  BY EvidenceAssumption DEF Records
<1> QED
  BY <1>1, <1>2 DEF Order

LEMMA OrderEmpty ==
  ASSUME NEW floor, NEW str, NEW top
  PROVE  Order(<<>>, {}, floor, str, top)
BY DEF Order

\* The first messages of a broken stream.
LEMMA OrderCut ==
  ASSUME NEW u \in Messages, NEW seen \in SUBSET Records, NEW floor \in Numbers,
         NEW str, NEW top \in Nat, Order(u, seen, floor, str, top), NEW k \in 0..Len(u)
  PROVE  Order(SubSeq(u, 1, k), seen, floor, str, top)
<1> DEFINE v == SubSeq(u, 1, k)
<1>1. Len(u) \in Nat
  BY MessageFacts
<1>2. k \in Int /\ 1 \in Int /\ \A i \in 1..k : u[i] \in Numbers
  BY <1>1, MessageFacts
<1>3. Len(v) = (IF 1 <= k THEN k - 1 + 1 ELSE 0) /\ \A i \in 1..(k - 1 + 1) : v[i] = u[1 + i - 1]
  BY <1>2, SubSeqProperties
<1> HIDE DEF v
<1>4. Len(v) = k /\ \A i \in 1..k : v[i] = u[i]
  BY <1>1, <1>3
<1>5. \A i \in 1..Len(v) : i \in 1..Len(u) /\ v[i] = u[i]
  BY <1>1, <1>4
<1>6. \A i \in 1..Len(v) : \A j \in 1..(i - 1) : v[j] = u[j]
  BY <1>1, <1>4
<1>7. ASSUME NEW i \in 1..Len(v), NEW r, Known(u, seen, floor, i, r)
      PROVE  Known(v, seen, floor, i, r)
  BY <1>6, <1>7 DEF Known
<1>8. ASSUME NEW i \in 1..Len(v), Newest(u, seen, i)
      PROVE  Newest(v, seen, i)
  BY <1>5, <1>6, <1>8 DEF Newest
<1> QED
  BY <1>5, <1>7, <1>8 DEF Order, v

\* The handler takes the next message.
LEMMA OrderTakes ==
  ASSUME NEW u \in Messages, u # <<>>, NEW seen \in SUBSET Records, NEW floor \in Numbers,
         NEW str, NEW top \in Nat, Order(u, seen, floor, str, top), Head(u) \in Records,
         NEW seen2, seen2 = IF Head(u) \in seen \/ Head(u) <= floor THEN seen
                            ELSE seen \cup {Head(u)}
  PROVE  Order(Tail(u), seen2, floor, str, top)
<1> DEFINE v == Tail(u)
           h == Head(u)
           n == Len(u)
<1>1. /\ Len(u) \in Nat /\ Len(u) >= 1 /\ h = u[1] /\ Len(v) = Len(u) - 1
      /\ \A i \in 1..(Len(u) - 1) : v[i] = u[i + 1]
  BY HeadTailProperties DEF Messages
<1>2. /\ \A i \in 1..Len(u) : u[i] \in Nat
      /\ Records \subseteq Nat /\ floor \in Nat /\ h \in Nat /\ h \in Records
  BY MessageFacts, EvidenceAssumption DEF Records, Numbers, HELLO
<1>3. seen2 = (IF h \in seen \/ h <= floor THEN seen ELSE seen \cup {h}) /\ seen \subseteq seen2
      /\ seen2 \subseteq seen \cup {h} /\ (h \in seen2 \/ h <= floor)
  OBVIOUS
<1> HIDE DEF v, h
<1>4. \A i \in 1..Len(v) : i + 1 \in 1..Len(u) /\ v[i] = u[i + 1] /\ v[i] \in Nat
  BY <1>1, <1>2
<1>5. ASSUME NEW i \in 1..Len(v), NEW r, Known(u, seen, floor, i + 1, r)
      PROVE  Known(v, seen2, floor, i, r)
  <2>1. CASE r <= floor \/ r \in seen
    BY <1>3, <2>1 DEF Known
  <2>2. CASE \E j \in 1..i : u[j] = r
    <3>1. PICK j \in 1..i : u[j] = r
      BY <2>2
    <3>2. CASE j = 1
      BY <1>1, <1>3, <3>1, <3>2 DEF Known
    <3>3. CASE j # 1
      <4>1. j - 1 \in 1..(i - 1) /\ j - 1 \in 1..(Len(u) - 1) /\ (j - 1) + 1 = j
        BY <1>1, <3>3
      <4>2. v[j - 1] = r
        BY <1>1, <3>1, <4>1
      <4> QED   BY <4>1, <4>2 DEF Known
    <3> QED   BY <3>2, <3>3
  <2>3. i + 1 - 1 = i
    BY <1>1
  <2> QED   BY <1>5, <2>1, <2>2, <2>3 DEF Known
<1>6. ASSUME NEW i \in 1..Len(v), Newest(u, seen, i + 1)
      PROVE  Newest(v, seen2, i)
  <2>1. /\ \A q \in seen : q < u[i + 1]
        /\ \A j \in 1..i : u[j] < u[i + 1]
    BY <1>1, <1>6 DEF Newest
  <2>2. h < v[i] /\ \A q \in seen : q < v[i]
    BY <1>1, <1>4, <2>1
  <2>3. \A j \in 1..(i - 1) : v[j] < v[i]
    <3>1. \A j \in 1..(i - 1) : j + 1 \in 1..i /\ j \in 1..(Len(u) - 1)
      BY <1>1
    <3> QED   BY <1>1, <1>4, <2>1, <3>1
  <2> QED   BY <1>3, <2>2, <2>3 DEF Newest
<1>7. \A i \in 1..Len(v) : \A r \in Records : r < v[i] => Known(v, seen2, floor, i, r) \/ r \in str
  BY <1>4, <1>5 DEF Order
<1>8. \A i \in 1..Len(v) : Known(v, seen2, floor, i, v[i]) \/ Newest(v, seen2, i)
  BY <1>4, <1>5, <1>6 DEF Order
<1>9. \A r \in Records : r < h => r <= floor \/ r \in seen \/ r \in str
  <2>1. 1 \in 1..Len(u) /\ h = u[1]
    BY <1>1
  <2> SUFFICES ASSUME NEW r \in Records, r < h  PROVE r <= floor \/ r \in seen \/ r \in str
    OBVIOUS
  <2>2. Known(u, seen, floor, 1, r) \/ r \in str
    BY <2>1 DEF Order
  <2>3. ~(\E j \in 1..(1 - 1) : u[j] = r)
    OBVIOUS
  <2> QED   BY <2>2, <2>3 DEF Known
<1>10. \A q \in seen2, r \in Records : r < q => r <= floor \/ r \in seen2 \/ r \in str
  BY <1>3, <1>9 DEF Order
<1>11. \A q \in seen2 : floor < q /\ q <= top
  BY <1>1, <1>2, <1>3 DEF Order
<1>12. \A i \in 1..Len(v) : v[i] <= top
  BY <1>4 DEF Order
<1> QED
  BY <1>7, <1>8, <1>10, <1>11, <1>12 DEF Order, v

\* The client sends ms behind what is on its way.
Ascending(ms) == \A i, j \in 1..Len(ms) : i < j => ms[i] < ms[j]

Follows(ms, u, seen, floor, str, top) ==
  \A i \in 1..Len(ms) :
    /\ ms[i] <= top
    /\ \A r \in Records : r < ms[i] =>
         r <= floor \/ r \in seen \/ r \in str \/ r \in ToSet(u) \/ r \in ToSet(ms)
    /\ \/ ms[i] <= floor \/ ms[i] \in seen \/ ms[i] \in ToSet(u)
       \/ (\A q \in seen : q < ms[i]) /\ \A q \in ToSet(u) : q < ms[i]

LEMMA OrderSends ==
  ASSUME NEW u \in Messages, NEW seen \in SUBSET Records, NEW floor \in Numbers,
         NEW str, NEW top \in Nat, Order(u, seen, floor, str, top),
         NEW ms \in Seq(Records), Ascending(ms), Follows(ms, u, seen, floor, str, top)
  PROVE  Order(u \o ms, seen, floor, str, top)
<1> DEFINE v == u \o ms
           n == Len(u)
           m == Len(ms)
<1>1. u \in Seq(Numbers) /\ ms \in Seq(Numbers) /\ n \in Nat /\ m \in Nat
      /\ \A i \in 1..m : ms[i] \in Records
  BY DEF Messages, Numbers
<1>2. /\ Len(v) = n + m
      /\ \A i \in 1..(n + m) : v[i] = IF i <= n THEN u[i] ELSE ms[i - n]
  BY <1>1, ConcatProperties
<1>3. /\ \A i \in 1..n : u[i] \in Nat
      /\ \A r : r \in ToSet(u) <=> \E i \in 1..n : u[i] = r
      /\ Records \subseteq Nat
  BY MessageFacts, EvidenceAssumption DEF Records
<1>4. \A r : r \in ToSet(ms) <=> \E i \in 1..m : ms[i] = r
  <2>1. DOMAIN ms = 1..m
    BY <1>1
  <2> QED   BY <2>1 DEF ToSet
<1> HIDE DEF v, n, m
<1>5. \A i \in 1..n : v[i] = u[i] /\ i \in 1..Len(v)
  BY <1>1, <1>2
<1>6. \A i \in 1..m : v[n + i] = ms[i] /\ n + i \in 1..Len(v)
  BY <1>1, <1>2
<1>7. \A i \in 1..Len(v) : i \in 1..n \/ \E k \in 1..m : i = n + k
  <2> SUFFICES ASSUME NEW i \in 1..Len(v), i \notin 1..n  PROVE \E k \in 1..m : i = n + k
    OBVIOUS
  <2>1. i - n \in 1..m /\ i = n + (i - n)
    BY <1>1, <1>2
  <2> QED   BY <2>1
<1>8. \A i \in 1..n : \A j \in 1..(i - 1) : v[j] = u[j]
  BY <1>1, <1>5
<1>9. ASSUME NEW i \in 1..n
      PROVE  /\ \A r \in Records : r < v[i] => Known(v, seen, floor, i, r) \/ r \in str
             /\ Known(v, seen, floor, i, v[i]) \/ Newest(v, seen, i)
             /\ v[i] <= top
  <2>1. \A r : Known(u, seen, floor, i, r) => Known(v, seen, floor, i, r)
    BY <1>8 DEF Known
  <2>2. Newest(u, seen, i) => Newest(v, seen, i)
    BY <1>5, <1>8 DEF Newest
  <2>3. v[i] = u[i]
    BY <1>5
  <2> QED   BY <2>1, <2>2, <2>3 DEF Order, n
<1>10. ASSUME NEW k \in 1..m, NEW p, p = n + k
       PROVE  /\ \A r \in Records : r < v[p] => Known(v, seen, floor, p, r) \/ r \in str
              /\ Known(v, seen, floor, p, v[p]) \/ Newest(v, seen, p)
              /\ v[p] <= top
  <2>1. v[p] = ms[k] /\ ms[k] \in Nat /\ p \in Nat
    <3>1. v[n + k] = ms[k] /\ ms[k] \in Nat
      BY <1>1, <1>3, <1>6
    <3>2. n + k \in Nat
      BY <1>1
    <3> QED   BY <1>10, <3>1, <3>2
  <2>2. \A j \in 1..n : j \in 1..(p - 1) /\ v[j] = u[j]
    <3>1. \A j \in 1..n : j \in 1..(p - 1)
      <4>1. n <= p - 1
        BY <1>1, <1>10
      <4> QED   BY <1>1, <2>1, <4>1
    <3> QED   BY <1>5, <3>1
  <2>3. \A j \in 1..m : j < k => n + j \in 1..(p - 1) /\ v[n + j] = ms[j]
    BY <1>1, <1>6, <1>10
  <2>4. \A j \in 1..(p - 1) : j \in 1..n \/ \E l \in 1..m : l < k /\ j = n + l
    <3> SUFFICES ASSUME NEW j \in 1..(p - 1), j \notin 1..n
                 PROVE  \E l \in 1..m : l < k /\ j = n + l
      OBVIOUS
    <3>1. j - n \in 1..m /\ j - n < k /\ j = n + (j - n)
      BY <1>1, <1>10
    <3> QED   BY <3>1
  <2>5. ASSUME NEW r \in ToSet(u)  PROVE Known(v, seen, floor, p, r)
    <3>1. PICK j \in 1..n : u[j] = r
      BY <1>3, <2>5
    <3>2. j \in 1..(p - 1) /\ v[j] = r
      BY <2>2, <3>1
    <3> QED   BY <3>2 DEF Known
  <2>6. ASSUME NEW r \in ToSet(ms), r < ms[k]
        PROVE  Known(v, seen, floor, p, r)
    <3>1. PICK j \in 1..m : ms[j] = r
      BY <1>4, <2>6
    <3>2. j < k
      <4>1. CASE k < j
        <5>1. ms[k] < ms[j]
          BY <3>1, <4>1 DEF Ascending, m
        <5>2. ms[j] \in Nat /\ ms[j] < ms[k]
          BY <1>1, <1>3, <2>6, <3>1
        <5> QED   BY <2>1, <5>1, <5>2
      <4>2. j # k
        BY <2>1, <2>6, <3>1
      <4> QED   BY <1>1, <4>1, <4>2
    <3>3. n + j \in 1..(p - 1) /\ v[n + j] = r
      BY <2>3, <3>1, <3>2
    <3> QED   BY <3>3 DEF Known
  <2>7. \A r \in Records : r < v[p] => Known(v, seen, floor, p, r) \/ r \in str
    <3> SUFFICES ASSUME NEW r \in Records, r < ms[k]
                 PROVE  Known(v, seen, floor, p, r) \/ r \in str
      BY <2>1
    <3>1. r <= floor \/ r \in seen \/ r \in str \/ r \in ToSet(u) \/ r \in ToSet(ms)
      BY DEF Follows, m
    <3> QED   BY <2>5, <2>6, <3>1 DEF Known
  <2>8. Known(v, seen, floor, p, v[p]) \/ Newest(v, seen, p)
    <3>1. CASE ms[k] <= floor \/ ms[k] \in seen \/ ms[k] \in ToSet(u)
      BY <2>1, <2>5, <3>1 DEF Known
    <3>2. CASE (\A q \in seen : q < ms[k]) /\ \A q \in ToSet(u) : q < ms[k]
      <4>1. ASSUME NEW j \in 1..(p - 1)  PROVE v[j] < ms[k]
        <5>1. CASE j \in 1..n
          BY <1>3, <1>5, <3>2, <5>1
        <5>2. CASE \E l \in 1..m : l < k /\ j = n + l
          BY <2>3, <5>2 DEF Ascending, m
        <5> QED   BY <2>4, <5>1, <5>2
      <4> QED   BY <2>1, <3>2, <4>1 DEF Newest
    <3> QED   BY <3>1, <3>2 DEF Follows, m
  <2>9. v[p] <= top
    BY <2>1 DEF Follows, m
  <2> QED   BY <2>7, <2>8, <2>9
<1>11. \A i \in 1..Len(v) : \A r \in Records : r < v[i] => Known(v, seen, floor, i, r) \/ r \in str
  BY <1>7, <1>9, <1>10
<1>12. \A i \in 1..Len(v) : Known(v, seen, floor, i, v[i]) \/ Newest(v, seen, i)
  BY <1>7, <1>9, <1>10
<1>13. \A i \in 1..Len(v) : v[i] <= top
  BY <1>7, <1>9, <1>10
<1> QED
  BY <1>11, <1>12, <1>13 DEF Order, v

(* The segment a handler takes a terminal for, after what it has seen: the last one
   started, unless its terminal was the last record.                       *)
IndexOK(index, terminals, seen) ==
  /\ index \in terminals => \E q \in seen : ~Opens(q) /\ \A o \in seen : o <= q
  /\ \A x \in terminals : x = NoIndex \/ \E o \in seen : Opens(o) /\ x = Segment(o)
  /\ \/ index = NoIndex /\ \A o \in seen : ~Opens(o)
     \/ \E o \in seen : Opens(o) /\ index = Segment(o) /\ \A q \in seen : Opens(q) => q <= o

\* A segment is opened by one record and closed by the next.
LEMMA SegmentsDiffer ==
  ASSUME NEW r \in Records, NEW o \in Records
  PROVE  /\ Segment(r) \in Nat /\ Segment(r) # NoIndex
         /\ Opens(r) /\ Opens(o) /\ Segment(r) = Segment(o) => r = o
         /\ ~Opens(r) => /\ r - 1 \in Records /\ Opens(r - 1) /\ Segment(r - 1) = Segment(r)
                         /\ r - 1 < r
         /\ ~Opens(r) /\ ~Opens(o) /\ o < r => o < r - 1
<1>1. r \in Nat /\ o \in Nat /\ r >= 1 /\ o >= 1 /\ r <= MaxSequence /\ MaxSequence \in Nat
  BY EvidenceAssumption DEF Records
<1>2. Segment(r) \in Nat /\ Segment(r) # NoIndex
  BY <1>1 DEF Segment, NoIndex
<1>3. Opens(r) /\ Opens(o) /\ Segment(r) = Segment(o) => r = o
  BY <1>1 DEF Segment, Opens
<1>4. ~Opens(r) => r - 1 \in Records /\ Opens(r - 1) /\ Segment(r - 1) = Segment(r) /\ r - 1 < r
  BY <1>1 DEF Segment, Opens, Records
<1>5. ~Opens(r) /\ ~Opens(o) /\ o < r => o < r - 1
  BY <1>1 DEF Opens
<1> QED
  BY <1>2, <1>3, <1>4, <1>5

LEMMA IndexOpens ==
  ASSUME NEW index, NEW terms, NEW seen \in SUBSET Records, IndexOK(index, terms, seen),
         NEW r \in Records, Opens(r), r \notin seen, \A q \in seen : q < r
  PROVE  IndexOK(Segment(r), terms, seen \cup {r})
<1>1. Segment(r) \notin terms
  BY SegmentsDiffer DEF IndexOK
<1>2. \A q \in seen \cup {r} : q <= r
  BY EvidenceAssumption DEF Records
<1>3. \A x \in terms : x = NoIndex \/ \E o \in seen \cup {r} : Opens(o) /\ x = Segment(o)
  BY DEF IndexOK
<1> QED
  BY <1>1, <1>2, <1>3 DEF IndexOK

LEMMA IndexCloses ==
  ASSUME NEW index, NEW terms, NEW seen \in SUBSET Records, IndexOK(index, terms, seen),
         NEW r \in Records, ~Opens(r), \A q \in seen : q < r
  PROVE  /\ IndexOK(index, terms, seen \cup {r})
         /\ IndexOK(index, terms \cup {index}, seen \cup {r})
<1>1. \A q \in seen \cup {r} : q <= r
  BY EvidenceAssumption DEF Records
<1>2. \E q \in seen \cup {r} : ~Opens(q) /\ \A o \in seen \cup {r} : o <= q
  BY <1>1
<1>3. \A x \in terms \cup {index} : x = NoIndex \/ \E o \in seen \cup {r} : Opens(o) /\ x = Segment(o)
  BY DEF IndexOK
<1>4. \/ index = NoIndex /\ \A o \in seen \cup {r} : ~Opens(o)
      \/ \E o \in seen \cup {r} : Opens(o) /\ index = Segment(o)
                                  /\ \A q \in seen \cup {r} : Opens(q) => q <= o
  BY DEF IndexOK
<1> QED
  BY <1>2, <1>3, <1>4 DEF IndexOK

\* The start of a segment that a handler neither has seen nor knows to be stored,
\* although it has seen something since, is stranded.
LEMMA StartMissed ==
  ASSUME NEW u \in Messages, NEW seen \in SUBSET Records, NEW floor \in Numbers, NEW str, NEW top,
         Order(u, seen, floor, str, top), u # <<>>, Head(u) \in Records,
         NEW o \in seen, o < Head(u) - 1, \A q \in seen : Opens(q) => q <= o, ~Opens(Head(u))
  PROVE  Head(u) - 1 \in str
<1> DEFINE r == Head(u)
           e == r - 1
<1>1. e \in Records /\ Opens(e) /\ e < r /\ o < e
  BY SegmentsDiffer
<1>2. e \in Nat /\ o \in Nat /\ floor \in Nat
  BY <1>1, EvidenceAssumption DEF Records, Numbers, HELLO
<1>3. floor < o
  BY DEF Order
<1>4. e \notin seen
  BY <1>1, <1>2
<1>5. 1 \in 1..Len(u) /\ r = u[1]
  BY HeadTailProperties DEF Messages
<1>6. Known(u, seen, floor, 1, e) \/ e \in str
  BY <1>1, <1>5 DEF Order
<1>7. ~(\E j \in 1..(1 - 1) : u[j] = e)
  OBVIOUS
<1> QED
  BY <1>2, <1>3, <1>4, <1>6, <1>7, <1>1 DEF Known

\* What is new to a handler is newer than what it has seen.
LEMMA NewIsNewest ==
  ASSUME NEW u \in Messages, NEW seen, NEW floor, NEW str, NEW top,
         Order(u, seen, floor, str, top), u # <<>>, Head(u) \notin seen, ~(Head(u) <= floor)
  PROVE  \A q \in seen : q < Head(u)
<1>1. 1 \in 1..Len(u) /\ Head(u) = u[1]
  BY HeadTailProperties DEF Messages
<1>2. Known(u, seen, floor, 1, u[1]) \/ Newest(u, seen, 1)
  BY <1>1 DEF Order
<1>3. ~(\E j \in 1..(1 - 1) : u[j] = u[1])
  OBVIOUS
<1> QED
  BY <1>1, <1>2, <1>3 DEF Known, Newest

\* A suppressed end of a segment is one whose start was missed.
LEMMA SuppressedMissed ==
  ASSUME NEW u \in Messages, NEW seen \in SUBSET Records, NEW floor \in Numbers, NEW str, NEW top,
         Order(u, seen, floor, str, top), u # <<>>, Head(u) \in Records,
         NEW index, NEW terms, IndexOK(index, terms, seen), index \in terms,
         Head(u) \notin seen, ~(Head(u) <= floor), ~Opens(Head(u))
  PROVE  Head(u) - 1 \in str
<1> DEFINE r == Head(u)
<1>1. PICK q \in seen : ~Opens(q) /\ \A o \in seen : o <= q
  BY DEF IndexOK
<1>2. q < r
  BY NewIsNewest
<1>3. q < r - 1
  BY <1>1, <1>2, SegmentsDiffer
<1> QED
  BY <1>1, <1>3, StartMissed

InLog(log, r) == \E i \in 1..Len(log) : log[i].rec = r

\* In both as-run files, or excused.
Fine(r, log, js, str) == (r \in js /\ InLog(log, r)) \/ r \in str \/ (~Opens(r) /\ r - 1 \in str)

\* HELLO is the first message and comes alone; until its handler runs there is no answer.
Hello(s) ==
  /\ HELLO \in ToSet(s.up) => /\ Len(s.up) = 1 /\ s.pc \in {"waiting", "reading"}
                              /\ s.seen = {} /\ s.down = <<>> /\ ~s.greeted
  /\ s.pc = "waiting" => /\ ToSet(s.up) \subseteq {HELLO} /\ (s.live => s.up # <<>>)
                         /\ s.seen = {} /\ s.down = <<>> /\ ~s.greeted

\* What a handler has begun to write.
InHand(s, log, js, str) ==
  /\ s.pc \in {"half", "store"} => s.msg \in s.seen
  /\ s.pc = "half" => InLog(log, s.msg)
  /\ s.pc = "store" => Fine(s.msg, log, js, str)

StreamInv(s, log, js, str, top) ==
  /\ Order(s.up, s.seen, s.floor, str, top)
  /\ Hello(s) /\ IndexOK(s.index, s.terminals, s.seen) /\ InHand(s, log, js, str)

\* The client's stream while it waits for its first ack, and when it has sent the replay:
\* every record it has appended is stranded, with the handler or on its way there, or
\* in its queue, in which what is new is newer than all before it.
HelloIs(s, acked) ==
  /\ s.pc \in {"waiting", "reading", "done"} /\ s.seen = {}
  /\ ToSet(s.up) \subseteq {HELLO} /\ ToSet(s.down) \subseteq {HELLO}
  /\ s.greeted => acked = 0

LiveIs(s, queue, str, top) ==
  /\ s.pc # "waiting" /\ HELLO \notin ToSet(s.up)
  /\ \A r \in 1..top : \/ r <= s.floor \/ r \in s.seen \/ r \in str
                       \/ r \in ToSet(s.up) \/ r \in ToSet(queue)
  /\ \A r \in ToSet(queue) :
       \/ r <= s.floor \/ r \in s.seen \/ r \in ToSet(s.up)
       \/ (\A q \in s.seen : q < r) /\ \A q \in ToSet(s.up) : q < r

\* What a change of a stream from s to t leaves of that for the client.
Carries(s, t, queue, str, top) ==
  /\ t.eof = s.eof
  /\ \A acked : HelloIs(s, acked) => HelloIs(t, acked)
  /\ ~s.eof /\ t.live => s.live /\ (LiveIs(s, queue, str, top) => LiveIs(t, queue, str, top))

LEMMA StreamGrows ==
  ASSUME NEW s \in StreamFields, NEW log, NEW log2, NEW js, NEW js2, NEW str, NEW str2,
         NEW top \in Nat, NEW top2 \in Nat, js \subseteq js2, str \subseteq str2, top <= top2,
         \A r : InLog(log, r) => InLog(log2, r),
         StreamInv(s, log, js, str, top)
  PROVE  StreamInv(s, log2, js2, str2, top2)
<1> DEFINE u == s.up
           seen == s.seen
           floor == s.floor
<1>1. u \in Messages /\ seen \in SUBSET Records /\ floor \in Numbers
  BY DEF StreamFields, Numbers, HELLO
<1>2. Order(u, seen, floor, str, top)
  BY DEF StreamInv
<1> HIDE DEF u, seen, floor
<1>3. Order(u, seen, floor, str2, top2)
  BY <1>1, <1>2, OrderGrows
<1>4. InHand(s, log2, js2, str2)
  BY DEF StreamInv, InHand, Fine
<1> QED
  BY <1>3, <1>4 DEF StreamInv, u, seen, floor

LEMMA TakenMessages ==
  ASSUME NEW u \in Messages, u # <<>>
  PROVE  /\ ToSet(u) = {Head(u)} \cup ToSet(Tail(u)) /\ Head(u) \in Numbers
         /\ Tail(u) \in Messages /\ (Len(u) = 1 => Tail(u) = <<>>)
<1>1. /\ Len(u) \in Nat /\ Len(u) >= 1 /\ Head(u) = u[1] /\ Len(Tail(u)) = Len(u) - 1
      /\ \A i \in 1..(Len(u) - 1) : Tail(u)[i] = u[i + 1]
      /\ Tail(u) \in Seq(Numbers)
  BY HeadTailProperties DEF Messages
<1>2. Head(u) \in Numbers /\ Tail(u) \in Messages /\ ToSet(Tail(u)) \subseteq ToSet(u) /\ Head(u) \in ToSet(u)
  BY RestOfMessages
<1>3. ASSUME NEW r \in ToSet(u)  PROVE r \in {Head(u)} \cup ToSet(Tail(u))
  <2>1. PICK i \in 1..Len(u) : u[i] = r
    BY <1>3, MessageFacts
  <2>2. CASE i = 1
    BY <1>1, <2>1, <2>2
  <2>3. CASE i # 1
    <3>1. i - 1 \in 1..Len(Tail(u)) /\ Tail(u)[i - 1] = r
      BY <1>1, <2>1, <2>3
    <3> QED   BY <1>2, <3>1, MessageFacts
  <2> QED   BY <2>2, <2>3
<1>4. Len(u) = 1 => Tail(u) = <<>>
  <2> DEFINE v == Tail(u)
  <2>1. v \in Seq(Numbers) /\ Len(v) = Len(u) - 1 /\ Len(u) \in Nat
    BY <1>1
  <2> HIDE DEF v
  <2>2. Len(v) = 0 => v = <<>>
    BY <2>1
  <2> QED   BY <2>1, <2>2 DEF v
<1> QED
  BY <1>2, <1>3, <1>4

-----------------------------------------------------------------------------
(* What a step does to a stream, field by field.                           *)

LEMMA NewFields ==
  /\ NewStream.up = <<HELLO>> /\ NewStream.down = <<>> /\ NewStream.live = TRUE
  /\ NewStream.eof = FALSE /\ NewStream.greeted = FALSE /\ NewStream.pc = "waiting"
  /\ NewStream.msg = 0 /\ NewStream.floor = 0 /\ NewStream.seen = {}
  /\ NewStream.index = NoIndex /\ NewStream.terminals = {}
BY DEF NewStream

LEMMA LeftFields ==
  ASSUME NEW s
  PROVE  /\ Left(s).up = <<>> /\ Left(s).down = s.down /\ Left(s).live = s.live
         /\ Left(s).eof = s.eof /\ Left(s).greeted = s.greeted /\ Left(s).pc = "done"
         /\ Left(s).msg = 0 /\ Left(s).floor = 0 /\ Left(s).seen = {}
         /\ Left(s).index = NoIndex /\ Left(s).terminals = {}
BY DEF Left, NewStream

\* What a step leaves to the stream's other end.
SameEnds(s, t)  == t.live = s.live /\ t.eof = s.eof /\ t.greeted = s.greeted
SameTake(s, t)  == t.floor = s.floor /\ t.seen = s.seen
SameIndex(s, t) == t.index = s.index /\ t.terminals = s.terminals

LEMMA AckedFields ==
  ASSUME NEW s \in StreamFields, NEW m
  PROVE  /\ Acked(s, m).up = s.up /\ SameEnds(s, Acked(s, m)) /\ SameTake(s, Acked(s, m))
         /\ SameIndex(s, Acked(s, m)) /\ Acked(s, m).pc = "reading" /\ Acked(s, m).msg = 0
         /\ Acked(s, m).down = IF s.live THEN Append(s.down, m) ELSE s.down
BY DEF Acked, StreamFields, SameEnds, SameTake, SameIndex

LEMMA WrittenFields ==
  ASSUME NEW s \in StreamFields, NEW r
  PROVE  /\ Written(s, r).up = s.up /\ Written(s, r).down = s.down /\ SameEnds(s, Written(s, r))
         /\ Written(s, r).floor = s.floor /\ Written(s, r).seen = s.seen \cup {r}
         /\ Written(s, r).msg = r
         /\ Written(s, r).pc = IF Suppressed(s, r) THEN "store" ELSE "half"
         /\ Written(s, r).index = IF Suppressed(s, r) THEN s.index ELSE IndexOf(s, r)
         /\ Written(s, r).terminals = IF Suppressed(s, r) \/ Opens(r) THEN s.terminals
                                      ELSE s.terminals \cup {IndexOf(s, r)}
BY DEF Written, StreamFields, SameEnds

-----------------------------------------------------------------------------
(* Each step of a handler keeps its stream in order.                       *)

LEMMA FieldTypes ==
  ASSUME NEW s \in StreamFields
  PROVE  /\ s.up \in Messages /\ s.down \in Messages /\ s.seen \in SUBSET Records
         /\ s.floor \in Numbers /\ s.msg \in Numbers
         /\ s.pc \in {"waiting", "done", "reading", "half", "store"}
         /\ s.live \in BOOLEAN /\ s.eof \in BOOLEAN /\ s.greeted \in BOOLEAN
BY DEF StreamFields, Numbers, HELLO, Handling

LEMMA EmptyMessages == ToSet(<<>>) = {} /\ <<>> \in Messages /\ Len(<<>>) = 0
BY DEF ToSet, Messages

\* A handler that has not started reads HELLO next.
LEMMA StartsFlow ==
  ASSUME NEW s \in StreamFields, NEW t \in StreamFields, NEW log, NEW js, NEW str, NEW top,
         StreamInv(s, log, js, str, top), s.pc = "waiting", t.pc = "reading",
         t.up = s.up, t.down = s.down, SameEnds(s, t), SameTake(s, t), SameIndex(s, t)
  PROVE  StreamInv(t, log, js, str, top) /\ \A queue : Carries(s, t, queue, str, top)
<1> USE DEF SameEnds, SameTake, SameIndex
<1>1. Hello(t)
  BY DEF StreamInv, Hello
<1>2. StreamInv(t, log, js, str, top)
  BY <1>1 DEF StreamInv, InHand
<1>3. \A queue : Carries(s, t, queue, str, top)
  BY DEF Carries, HelloIs, LiveIs
<1> QED
  BY <1>2, <1>3

LEMMA GreetsFlow ==
  ASSUME NEW s \in StreamFields, NEW t \in StreamFields, NEW log, NEW js, NEW str, NEW top,
         StreamInv(s, log, js, str, top), s.pc = "reading", s.up # <<>>, Head(s.up) = HELLO,
         t.up = Tail(s.up), t.seen = s.seen, SameEnds(s, t), SameIndex(s, t), t.pc = "reading",
         t.down = IF s.live THEN Append(s.down, HELLO) ELSE s.down
  PROVE  StreamInv(t, log, js, str, top) /\ \A queue : Carries(s, t, queue, str, top)
<1> DEFINE u == s.up
           d == s.down
<1>1. u \in Messages /\ u # <<>> /\ d \in Messages
  BY FieldTypes
<1>2. Head(u) = HELLO /\ ToSet(t.down) \subseteq ToSet(d) \cup {HELLO}
  <2>1. ToSet(Append(d, HELLO)) = ToSet(d) \cup {HELLO}
    <3>1. HELLO \in Numbers
      BY DEF Numbers
    <3> HIDE DEF d
    <3> QED   BY <1>1, <3>1, MoreMessages
  <2> QED   BY <2>1
<1> HIDE DEF u, d
<1>3. HELLO \in ToSet(u) /\ (Len(u) = 1 => Tail(u) = <<>>)
  BY <1>1, <1>2, TakenMessages
<1>4. t.up = <<>> /\ s.seen = {} /\ t.seen = {}
  BY <1>3 DEF u, StreamInv, Hello
<1>5. Order(t.up, t.seen, t.floor, str, top)
  BY <1>4, OrderEmpty
<1>6. Hello(t)
  BY <1>4, EmptyMessages DEF Hello
<1>7. StreamInv(t, log, js, str, top)
  BY <1>5, <1>6 DEF StreamInv, InHand, SameIndex
<1>8. ASSUME NEW acked, HelloIs(s, acked)  PROVE HelloIs(t, acked)
  BY <1>2, <1>4, <1>8, EmptyMessages DEF HelloIs, SameEnds, d
<1>9. \A queue : ~LiveIs(s, queue, str, top)
  BY <1>3 DEF LiveIs, u
<1> QED
  BY <1>7, <1>8, <1>9 DEF Carries, SameEnds

\* HELLO is not behind another message.
LEMMA NoHelloBehind ==
  ASSUME NEW s \in StreamFields, Hello(s), s.up # <<>>, Head(s.up) # HELLO
  PROVE  HELLO \notin ToSet(s.up) /\ HELLO \notin ToSet(Tail(s.up)) /\ Head(s.up) \in Records
<1> DEFINE u == s.up
<1>1. u \in Messages /\ u # <<>> /\ Head(u) # HELLO
  BY FieldTypes
<1>2. HELLO \in ToSet(u) => Len(u) = 1
  BY DEF Hello
<1> HIDE DEF u
<1>3. /\ ToSet(u) = {Head(u)} \cup ToSet(Tail(u)) /\ (Len(u) = 1 => Tail(u) = <<>>)
      /\ Head(u) \in Records
  BY <1>1, TakenMessages DEF Numbers
<1>4. HELLO \notin ToSet(u)
  BY <1>1, <1>2, <1>3, EmptyMessages
<1> QED
  BY <1>3, <1>4 DEF u

\* What the client knows of a stream whose handler takes a record.
LEMMA TakesCarries ==
  ASSUME NEW s \in StreamFields, NEW t \in StreamFields, NEW str, NEW top,
         Hello(s), s.up # <<>>, Head(s.up) # HELLO, t.up = Tail(s.up), SameEnds(s, t),
         t.floor = s.floor, t.pc # "waiting",
         t.seen = IF Head(s.up) \in s.seen \/ Head(s.up) <= s.floor THEN s.seen
                  ELSE s.seen \cup {Head(s.up)}
  PROVE  \A queue : Carries(s, t, queue, str, top)
<1> DEFINE u == s.up
           r == Head(u)
<1>1. u \in Messages /\ u # <<>> /\ r # HELLO
  BY FieldTypes
<1>2. HELLO \notin ToSet(u)
  BY NoHelloBehind
<1> HIDE DEF u
<1>3. ToSet(u) = {r} \cup ToSet(Tail(u))
  BY <1>1, TakenMessages
<1>4. \A acked : ~HelloIs(s, acked)
  BY <1>1, <1>3 DEF HelloIs, u
<1> HIDE DEF r
<1>5. s.seen \subseteq t.seen /\ t.seen \subseteq s.seen \cup {r} /\ (r \in t.seen \/ r <= t.floor)
  BY DEF u, r
<1>6. t.up = Tail(u)
  BY DEF u
<1>7. ASSUME NEW queue, LiveIs(s, queue, str, top)  PROVE LiveIs(t, queue, str, top)
  <2>1. \A q \in 1..top : q <= t.floor \/ q \in t.seen \/ q \in str \/ q \in ToSet(t.up) \/ q \in ToSet(queue)
    BY <1>3, <1>5, <1>6, <1>7 DEF LiveIs, u
  <2>2. ASSUME NEW q \in ToSet(queue)
        PROVE  \/ q <= t.floor \/ q \in t.seen \/ q \in ToSet(t.up)
               \/ (\A o \in t.seen : o < q) /\ \A o \in ToSet(t.up) : o < q
    <3>1. \/ q <= s.floor \/ q \in s.seen \/ q \in ToSet(u)
          \/ (\A o \in s.seen : o < q) /\ \A o \in ToSet(u) : o < q
      BY <1>7, <2>2 DEF LiveIs, u
    <3>2. CASE q <= s.floor \/ q \in s.seen \/ q \in ToSet(u)
      BY <1>3, <1>5, <1>6, <3>2
    <3>3. CASE (\A o \in s.seen : o < q) /\ \A o \in ToSet(u) : o < q
      BY <1>3, <1>5, <1>6, <3>3
    <3> QED   BY <3>1, <3>2, <3>3
  <2>3. HELLO \notin ToSet(t.up)
    BY <1>2, <1>3, <1>6
  <2> QED   BY <2>1, <2>2, <2>3 DEF LiveIs
<1> QED
  BY <1>4, <1>7 DEF Carries, SameEnds

\* A duplicate is acknowledged.
LEMMA DuplicateFlow ==
  ASSUME NEW s \in StreamFields, NEW t \in StreamFields, NEW log, NEW js, NEW str, NEW top \in Nat,
         StreamInv(s, log, js, str, top), s.up # <<>>, Head(s.up) # HELLO, Duplicate(s, Head(s.up)),
         t.up = Tail(s.up), SameEnds(s, t), SameTake(s, t), SameIndex(s, t), t.pc = "reading"
  PROVE  StreamInv(t, log, js, str, top) /\ \A queue : Carries(s, t, queue, str, top)
<1>1. Hello(s) /\ Order(s.up, s.seen, s.floor, str, top)
  BY DEF StreamInv
<1>2. Head(s.up) \in Records /\ HELLO \notin ToSet(t.up)
  BY <1>1, NoHelloBehind
<1>3. t.floor = s.floor /\ t.seen = s.seen
  BY DEF SameTake
<1>4. t.seen = IF Head(s.up) \in s.seen \/ Head(s.up) <= s.floor THEN s.seen
               ELSE s.seen \cup {Head(s.up)}
  BY <1>3 DEF Duplicate
<1>5. \A queue : Carries(s, t, queue, str, top)
  BY <1>1, <1>3, <1>4, TakesCarries
<1>6. Order(t.up, t.seen, t.floor, str, top)
  <2> DEFINE u == s.up
             seen == s.seen
             floor == s.floor
             seen2 == t.seen
  <2>1. u \in Messages /\ u # <<>> /\ seen \in SUBSET Records /\ floor \in Numbers
    BY FieldTypes
  <2>2. /\ Order(u, seen, floor, str, top) /\ Head(u) \in Records
        /\ seen2 = IF Head(u) \in seen \/ Head(u) <= floor THEN seen ELSE seen \cup {Head(u)}
    BY <1>1, <1>2, <1>4
  <2> HIDE DEF u, seen, floor, seen2
  <2>3. Order(Tail(u), seen2, floor, str, top)
    BY <2>1, <2>2, OrderTakes
  <2> QED   BY <1>3, <2>3 DEF u, seen, floor, seen2
<1>7. Hello(t) /\ InHand(t, log, js, str)
  BY <1>2 DEF Hello, InHand
<1>8. StreamInv(t, log, js, str, top)
  BY <1>6, <1>7 DEF StreamInv, SameTake, SameIndex
<1> QED
  BY <1>5, <1>8

\* A new record is written, or its line suppressed.
LEMMA WrittenFlow ==
  ASSUME NEW s \in StreamFields, NEW t \in StreamFields, NEW log, NEW log2, NEW js, NEW str,
         NEW top \in Nat, NEW r, r = Head(s.up),
         StreamInv(s, log, js, str, top), s.up # <<>>, r # HELLO, ~Duplicate(s, r),
         t.up = Tail(s.up), SameEnds(s, t), t.floor = s.floor, t.seen = s.seen \cup {r}, t.msg = r,
         t.pc = IF Suppressed(s, r) THEN "store" ELSE "half",
         t.index = IF Suppressed(s, r) THEN s.index ELSE IndexOf(s, r),
         t.terminals = IF Suppressed(s, r) \/ Opens(r) THEN s.terminals
                       ELSE s.terminals \cup {IndexOf(s, r)},
         Suppressed(s, r) \/ InLog(log2, r)
  PROVE  StreamInv(t, log2, js, str, top) /\ \A queue : Carries(s, t, queue, str, top)
<1> DEFINE u == s.up
           seen == s.seen
           floor == s.floor
           index == s.index
           terms == s.terminals
<1>1. Hello(s) /\ Order(u, seen, floor, str, top) /\ IndexOK(index, terms, seen)
  BY DEF StreamInv
<1>2. r \in Records /\ HELLO \notin ToSet(t.up)
  BY <1>1, NoHelloBehind
<1>3. u \in Messages /\ u # <<>> /\ seen \in SUBSET Records /\ floor \in Numbers
      /\ Head(u) = r /\ r \notin seen /\ ~(r <= floor)
  BY FieldTypes DEF Duplicate
<1>4. \A queue : Carries(s, t, queue, str, top)
  <2>1. t.pc # "waiting" /\ t.seen = IF Head(s.up) \in s.seen \/ Head(s.up) <= s.floor THEN s.seen
                                     ELSE s.seen \cup {Head(s.up)}
    BY <1>3
  <2> QED   BY <1>1, <2>1, TakesCarries
<1>5. /\ Opens(r) => ~Suppressed(s, r) /\ IndexOf(s, r) = Segment(r)
      /\ ~Opens(r) => IndexOf(s, r) = index /\ (Suppressed(s, r) <=> index \in terms)
  BY DEF Suppressed, IndexOf
<1>6. t.up = Tail(u) /\ t.seen = seen \cup {r} /\ t.floor = floor
  OBVIOUS
<1>7. /\ Opens(r) => t.index = Segment(r) /\ t.terminals = terms
      /\ ~Opens(r) => t.index = index /\ (t.terminals = terms \/ t.terminals = terms \cup {index})
  BY <1>5
<1>8. Hello(t)
  BY <1>2 DEF Hello
<1> HIDE DEF u, seen, floor, index, terms
<1>9. Order(t.up, t.seen, t.floor, str, top)
  <2> DEFINE seen2 == seen \cup {r}
  <2>1. seen2 = IF Head(u) \in seen \/ Head(u) <= floor THEN seen ELSE seen \cup {Head(u)}
    BY <1>3
  <2>2. Head(u) \in Records
    BY <1>2, <1>3
  <2> HIDE DEF seen2
  <2>3. Order(Tail(u), seen2, floor, str, top)
    BY <1>1, <1>3, <2>1, <2>2, OrderTakes
  <2> QED   BY <1>6, <2>3 DEF seen2
<1>10. \A q \in seen : q < r
  BY <1>1, <1>3, NewIsNewest
<1>11. IndexOK(t.index, t.terminals, t.seen)
  <2>1. CASE Opens(r)
    <3>1. IndexOK(Segment(r), terms, seen \cup {r})
      BY <1>1, <1>2, <1>3, <1>10, <2>1, IndexOpens
    <3> QED   BY <1>6, <1>7, <2>1, <3>1
  <2>2. CASE ~Opens(r)
    <3>1. IndexOK(index, terms, seen \cup {r}) /\ IndexOK(index, terms \cup {index}, seen \cup {r})
      BY <1>1, <1>2, <1>3, <1>10, <2>2, IndexCloses
    <3> QED   BY <1>6, <1>7, <2>2, <3>1
  <2> QED   BY <2>1, <2>2
<1>12. Suppressed(s, r) => ~Opens(r) /\ r - 1 \in str
  <2> SUFFICES ASSUME Suppressed(s, r)  PROVE ~Opens(r) /\ r - 1 \in str
    OBVIOUS
  <2>1. ~Opens(r) /\ index \in terms
    BY <1>5
  <2>2. Head(u) \in Records /\ Head(u) \notin seen /\ ~(Head(u) <= floor) /\ ~Opens(Head(u))
    BY <1>2, <1>3, <2>1
  <2>3. Head(u) - 1 \in str
    BY <1>1, <1>3, <2>1, <2>2, SuppressedMissed
  <2> QED   BY <1>3, <2>1, <2>3
<1>13. InHand(t, log2, js, str)
  BY <1>12 DEF InHand, Fine
<1>14. StreamInv(t, log2, js, str, top)
  BY <1>8, <1>9, <1>11, <1>13 DEF StreamInv
<1> QED
  BY <1>4, <1>14

\* The line in the other file, and the ack.
LEMMA JsonlFlow ==
  ASSUME NEW s \in StreamFields, NEW t \in StreamFields, NEW log, NEW js, NEW str, NEW top,
         StreamInv(s, log, js, str, top), s.pc = "half", t.pc = "store",
         t.up = s.up, t.down = s.down, SameEnds(s, t), SameTake(s, t), SameIndex(s, t),
         t.msg = s.msg
  PROVE  /\ StreamInv(t, log, js \cup {s.msg}, str, top)
         /\ \A queue : Carries(s, t, queue, str, top)
<1> USE DEF SameEnds, SameTake, SameIndex
<1>1. Hello(t)
  BY DEF StreamInv, Hello
<1>2. InHand(t, log, js \cup {s.msg}, str)
  BY DEF StreamInv, InHand, Fine
<1>3. StreamInv(t, log, js \cup {s.msg}, str, top)
  BY <1>1, <1>2 DEF StreamInv
<1>4. \A queue : Carries(s, t, queue, str, top)
  BY DEF Carries, HelloIs, LiveIs
<1> QED
  BY <1>3, <1>4

LEMMA StoresFlow ==
  ASSUME NEW s \in StreamFields, NEW t \in StreamFields, NEW log, NEW js, NEW str, NEW top,
         StreamInv(s, log, js, str, top), s.pc = "store", t.pc = "reading",
         t.up = s.up, SameEnds(s, t), SameTake(s, t), SameIndex(s, t)
  PROVE  StreamInv(t, log, js, str, top) /\ \A queue : Carries(s, t, queue, str, top)
<1> USE DEF SameEnds, SameTake, SameIndex
<1>1. Hello(t)
  BY DEF StreamInv, Hello
<1>2. StreamInv(t, log, js, str, top)
  BY <1>1 DEF StreamInv, InHand
<1>3. \A queue : Carries(s, t, queue, str, top)
  BY DEF Carries, HelloIs, LiveIs
<1> QED
  BY <1>2, <1>3

\* The handler is gone: the client that is still connected has closed the stream, or
\* sees it broken.
LEMMA LeftFlow ==
  ASSUME NEW s \in StreamFields, NEW t, NEW log, NEW js, NEW str, NEW top,
         t.up = <<>>, t.eof = s.eof, t.greeted = s.greeted, t.pc = "done",
         ToSet(t.down) \subseteq ToSet(s.down),
         t.seen = {}, t.index = NoIndex, t.terminals = {}, s.eof \/ ~t.live
  PROVE  StreamInv(t, log, js, str, top) /\ \A queue : Carries(s, t, queue, str, top)
<1>1. Order(t.up, t.seen, t.floor, str, top)
  BY OrderEmpty
<1>2. Hello(t) /\ InHand(t, log, js, str)
  BY EmptyMessages DEF Hello, InHand
<1>3. IndexOK(t.index, t.terminals, t.seen)
  BY DEF IndexOK
<1>4. StreamInv(t, log, js, str, top)
  BY <1>1, <1>2, <1>3 DEF StreamInv
<1>5. \A queue : Carries(s, t, queue, str, top)
  BY EmptyMessages DEF Carries, HelloIs
<1> QED
  BY <1>4, <1>5

-----------------------------------------------------------------------------
(* Each step of the client and of the network does, too.                   *)

LEMMA BrokenFlow ==
  ASSUME NEW s \in StreamFields, NEW log, NEW js, NEW str, NEW top \in Nat,
         StreamInv(s, log, js, str, top), NEW t \in Broken(s)
  PROVE  StreamInv(t, log, js, str, top) /\ \A queue : Carries(s, t, queue, str, top)
<1>1. PICK k \in 0..Len(s.up), j \in 0..Len(s.down) : t = Cut(s, k, j)
  BY DEF Broken
<1> DEFINE u == s.up
           d == s.down
           seen == s.seen
           floor == s.floor
           v == SubSeq(u, 1, k)
           e == SubSeq(d, 1, j)
<1>2. /\ t.up = v /\ t.down = e /\ t.live = FALSE /\ t.eof = s.eof /\ t.greeted = s.greeted
      /\ t.seen = seen /\ t.floor = floor /\ t.pc = s.pc /\ t.msg = s.msg /\ SameIndex(s, t)
  <2> HIDE DEF u, d, v, e, seen, floor
  <2>1. t.up = SubSeq(s.up, 1, k) /\ t.down = SubSeq(s.down, 1, j) /\ t.live = FALSE
    BY <1>1 DEF StreamFields, Cut
  <2>2. /\ t.eof = s.eof /\ t.greeted = s.greeted /\ t.seen = s.seen /\ t.floor = s.floor
        /\ t.pc = s.pc /\ t.msg = s.msg /\ t.index = s.index /\ t.terminals = s.terminals
    BY <1>1 DEF StreamFields, Cut
  <2> QED   BY <2>1, <2>2 DEF SameIndex, u, d, v, e, seen, floor
<1>3. u \in Messages /\ d \in Messages /\ seen \in SUBSET Records /\ floor \in Numbers
  BY FieldTypes
<1>4. k \in 0..Len(u) /\ j \in 0..Len(d) /\ Order(u, seen, floor, str, top) /\ Hello(s)
  BY DEF StreamInv
<1>5. d = <<>> => e = <<>>
  <2>1. ASSUME d = <<>>  PROVE e = <<>>
    <3>1. j = 0
      BY <1>4, <2>1
    <3> QED   BY <2>1, <3>1
  <2> QED   BY <2>1
<1> HIDE DEF u, d, seen, floor
<1>6. Order(v, seen, floor, str, top)
  BY <1>3, <1>4, OrderCut
<1>7. ToSet(v) \subseteq ToSet(u) /\ ToSet(e) \subseteq ToSet(d) /\ v \in Messages
  BY <1>3, <1>4, PartOfMessages
<1>8. HELLO \in ToSet(v) /\ Len(u) = 1 => Len(v) = 1
  <2>1. /\ \A i \in 1..k : u[i] \in Numbers
        /\ k \in Int /\ 1 \in Int /\ k <= Len(u) /\ Len(u) \in Nat
    BY <1>3, <1>4, MessageFacts
  <2>2. Len(v) = IF 1 <= k THEN k - 1 + 1 ELSE 0
    BY <2>1, SubSeqProperties
  <2>3. HELLO \in ToSet(v) => Len(v) >= 1
    <3> HIDE DEF v
    <3> QED   BY <1>7, MessageFacts
  <2> QED   BY <2>1, <2>2, <2>3
<1> HIDE DEF v, e
<1>9. Hello(t)
  <2>1. ASSUME HELLO \in ToSet(t.up)
        PROVE  /\ Len(t.up) = 1 /\ t.pc \in {"waiting", "reading"}
               /\ t.seen = {} /\ t.down = <<>> /\ ~t.greeted
    <3>1. HELLO \in ToSet(u)
      BY <1>2, <1>7, <2>1
    <3>2. Len(u) = 1 /\ s.pc \in {"waiting", "reading"} /\ seen = {} /\ d = <<>> /\ ~s.greeted
      BY <1>4, <3>1 DEF Hello, u, d, seen
    <3> QED   BY <1>2, <1>5, <1>8, <2>1, <3>2
  <2>2. ASSUME t.pc = "waiting"
        PROVE  ToSet(t.up) \subseteq {HELLO} /\ t.seen = {} /\ t.down = <<>> /\ ~t.greeted
    <3>1. ToSet(u) \subseteq {HELLO} /\ seen = {} /\ d = <<>> /\ ~s.greeted
      BY <1>2, <1>4, <2>2 DEF Hello, u, d, seen
    <3> QED   BY <1>2, <1>5, <1>7, <3>1
  <2> QED   BY <1>2, <2>1, <2>2 DEF Hello
<1>10. InHand(t, log, js, str) /\ IndexOK(t.index, t.terminals, t.seen)
  BY <1>2 DEF StreamInv, InHand, SameIndex, seen
<1>11. StreamInv(t, log, js, str, top)
  BY <1>2, <1>6, <1>9, <1>10 DEF StreamInv
<1>12. \A queue : Carries(s, t, queue, str, top)
  BY <1>2, <1>7 DEF Carries, HelloIs, u, d, seen
<1> QED
  BY <1>11, <1>12

\* The client closes its end.
LEMMA ClosesFlow ==
  ASSUME NEW s \in StreamFields, NEW log, NEW js, NEW str, NEW top,
         StreamInv(s, log, js, str, top)
  PROVE  StreamInv([s EXCEPT !.eof = TRUE], log, js, str, top)
<1> DEFINE t == [s EXCEPT !.eof = TRUE]
<1>1. /\ t.up = s.up /\ t.down = s.down /\ t.live = s.live /\ t.greeted = s.greeted
      /\ t.pc = s.pc /\ t.msg = s.msg /\ t.floor = s.floor /\ t.seen = s.seen
      /\ t.index = s.index /\ t.terminals = s.terminals
  BY DEF StreamFields
<1> HIDE DEF t
<1>2. Hello(t) /\ InHand(t, log, js, str)
  BY <1>1 DEF StreamInv, Hello, InHand
<1>3. StreamInv(t, log, js, str, top)
  BY <1>1, <1>2 DEF StreamInv
<1> QED
  BY <1>3 DEF t

\* The client reads an ack; the first one is the answer to HELLO.
LEMMA AckFlow ==
  ASSUME NEW s \in StreamFields, NEW t, NEW log, NEW js, NEW str, NEW top,
         StreamInv(s, log, js, str, top), s.down # <<>>,
         t = [s EXCEPT !.down = Tail(@), !.greeted = TRUE]
  PROVE  /\ StreamInv(t, log, js, str, top)
         /\ t.eof = s.eof /\ t.live = s.live
         /\ \A acked, acked2 :
              HelloIs(s, acked) /\ acked2 = (IF ~s.greeted \/ Head(s.down) > acked
                                             THEN Head(s.down) ELSE acked)
              => HelloIs(t, acked2)
         /\ \A queue : LiveIs(s, queue, str, top) => LiveIs(t, queue, str, top)
<1> DEFINE d == s.down
<1>1. /\ t.up = s.up /\ t.down = Tail(d) /\ t.live = s.live /\ t.eof = s.eof /\ t.greeted = TRUE
      /\ t.pc = s.pc /\ t.msg = s.msg /\ t.floor = s.floor /\ t.seen = s.seen
      /\ t.index = s.index /\ t.terminals = s.terminals
  BY DEF StreamFields
<1>2. d \in Messages /\ d # <<>>
  BY FieldTypes
<1> HIDE DEF d
<1>3. ToSet(d) = {Head(d)} \cup ToSet(Tail(d))
  BY <1>2, TakenMessages
<1>4. HELLO \notin ToSet(s.up) /\ s.pc # "waiting"
  BY <1>2 DEF StreamInv, Hello, d
<1>5. Hello(t) /\ InHand(t, log, js, str)
  BY <1>1, <1>4 DEF StreamInv, Hello, InHand
<1>6. StreamInv(t, log, js, str, top)
  BY <1>1, <1>5 DEF StreamInv
<1>7. ASSUME NEW acked, NEW acked2, HelloIs(s, acked),
             acked2 = IF ~s.greeted \/ Head(s.down) > acked THEN Head(s.down) ELSE acked
      PROVE  HelloIs(t, acked2)
  <2>1. ToSet(d) \subseteq {HELLO} /\ (s.greeted => acked = 0)
    BY <1>7 DEF HelloIs, d
  <2>2. Head(d) = 0 /\ ToSet(Tail(d)) \subseteq {HELLO}
    BY <1>3, <2>1 DEF HELLO
  <2>3. acked2 = 0
    BY <1>7, <2>1, <2>2 DEF d
  <2> QED   BY <1>1, <1>7, <2>2, <2>3 DEF HelloIs
<1>8. \A queue : LiveIs(s, queue, str, top) => LiveIs(t, queue, str, top)
  BY <1>1 DEF LiveIs
<1> QED
  BY <1>1, <1>6, <1>7, <1>8

LEMMA NewFlow ==
  ASSUME NEW log, NEW js, NEW str, NEW top \in Nat, NEW acked
  PROVE  StreamInv(NewStream, log, js, str, top) /\ HelloIs(NewStream, acked)
<1> DEFINE u == <<HELLO>>
<1>1. Len(u) = 1 /\ u[1] = 0 /\ u # <<>> /\ ToSet(u) = {HELLO} /\ \A i \in 1..Len(u) : u[i] = 0
  <2>1. Len(u) = 1 /\ u[1] = 0 /\ u # <<>> /\ DOMAIN u = {1}
    BY DEF HELLO
  <2> HIDE DEF u
  <2> QED   BY <2>1 DEF ToSet, HELLO
<1>2. \A r \in Records : ~(r < 0)
  BY EvidenceAssumption DEF Records
<1> HIDE DEF u
<1>3. Order(u, {}, 0, str, top)
  BY <1>1, <1>2 DEF Order, Known
<1>4. Hello(NewStream) /\ InHand(NewStream, log, js, str) /\ HelloIs(NewStream, acked)
  BY <1>1, NewFields, EmptyMessages DEF Hello, InHand, HelloIs, u
<1>5. IndexOK(NewStream.index, NewStream.terminals, NewStream.seen)
  BY NewFields DEF IndexOK
<1> QED
  BY <1>3, <1>4, <1>5, NewFields DEF StreamInv, u

\* The messages of two sequences.
LEMMA BothSets ==
  ASSUME NEW S, NEW u \in Seq(S), NEW v \in Seq(S)
  PROVE  ToSet(u \o v) = ToSet(u) \cup ToSet(v)
<1> DEFINE w == u \o v
<1>1. /\ Len(u) \in Nat /\ Len(v) \in Nat /\ Len(w) = Len(u) + Len(v)
      /\ w \in Seq(S)
      /\ \A i \in 1..(Len(u) + Len(v)) : w[i] = IF i <= Len(u) THEN u[i] ELSE v[i - Len(u)]
  BY ConcatProperties
<1> HIDE DEF w
<1>2. DOMAIN u = 1..Len(u) /\ DOMAIN v = 1..Len(v) /\ DOMAIN w = 1..(Len(u) + Len(v))
  BY <1>1
<1>3. ToSet(u) \subseteq ToSet(w)
  BY <1>1, <1>2 DEF ToSet
<1>4. ToSet(v) \subseteq ToSet(w)
  <2> SUFFICES ASSUME NEW i \in 1..Len(v)  PROVE v[i] \in ToSet(w)
    BY <1>2 DEF ToSet
  <2>1. Len(u) + i \in DOMAIN w /\ w[Len(u) + i] = v[i]
    BY <1>1, <1>2
  <2> QED   BY <2>1 DEF ToSet
<1>5. ToSet(w) \subseteq ToSet(u) \cup ToSet(v)
  <2> SUFFICES ASSUME NEW i \in 1..(Len(u) + Len(v))  PROVE w[i] \in ToSet(u) \cup ToSet(v)
    BY <1>2 DEF ToSet
  <2>1. CASE i <= Len(u)
    BY <1>1, <1>2, <2>1 DEF ToSet
  <2>2. CASE ~(i <= Len(u))
    <3>1. i - Len(u) \in DOMAIN v /\ w[i] = v[i - Len(u)]
      BY <1>1, <1>2, <2>2
    <3> QED   BY <3>1 DEF ToSet
  <2> QED   BY <2>1, <2>2
<1> QED
  BY <1>3, <1>4, <1>5 DEF w

\* The client writes records ms to a stream that holds.
LEMMA SendsFlow ==
  ASSUME NEW s \in StreamFields, NEW t \in StreamFields, NEW log, NEW js, NEW str,
         NEW top \in Nat, NEW ms \in Seq(Records), Ascending(ms),
         StreamInv(s, log, js, str, top), HELLO \notin ToSet(s.up), s.pc # "waiting",
         t.up = s.up \o ms, t.down = s.down, t.pc = s.pc, t.msg = s.msg,
         SameEnds(s, t), SameTake(s, t), SameIndex(s, t), Follows(ms, s.up, s.seen, s.floor, str, top)
  PROVE  /\ StreamInv(t, log, js, str, top)
         /\ ToSet(t.up) = ToSet(s.up) \cup ToSet(ms) /\ HELLO \notin ToSet(t.up)
<1> DEFINE u == s.up
           seen == s.seen
           floor == s.floor
<1>1. /\ t.up = u \o ms /\ t.down = s.down /\ t.live = s.live /\ t.eof = s.eof
      /\ t.greeted = s.greeted /\ t.pc = s.pc /\ t.msg = s.msg
      /\ t.floor = floor /\ t.seen = seen /\ t.index = s.index /\ t.terminals = s.terminals
  BY DEF SameEnds, SameTake, SameIndex
<1>2. u \in Messages /\ seen \in SUBSET Records /\ floor \in Numbers
  BY FieldTypes
<1>3. Order(u, seen, floor, str, top)
  BY DEF StreamInv
<1>4. Follows(ms, u, seen, floor, str, top)
  OBVIOUS
<1> HIDE DEF u, seen, floor
<1>5. Order(u \o ms, seen, floor, str, top)
  BY <1>2, <1>3, <1>4, OrderSends
<1>6. ToSet(u \o ms) = ToSet(u) \cup ToSet(ms)
  <2>1. u \in Seq(Numbers) /\ ms \in Seq(Numbers)
    BY <1>2 DEF Messages, Numbers
  <2> QED   BY <2>1, BothSets
<1>7. HELLO \notin ToSet(ms)
  <2>1. Len(ms) \in Nat /\ DOMAIN ms = 1..Len(ms) /\ \A i \in 1..Len(ms) : ms[i] \in Records
    OBVIOUS
  <2>2. HELLO \notin Records
    BY EvidenceAssumption DEF HELLO, Records
  <2> QED   BY <2>1, <2>2 DEF ToSet
<1>8. HELLO \notin ToSet(t.up)
  BY <1>1, <1>6, <1>7 DEF u
<1>9. Hello(t) /\ InHand(t, log, js, str)
  BY <1>1, <1>8 DEF StreamInv, Hello, InHand, seen
<1>10. StreamInv(t, log, js, str, top)
  BY <1>1, <1>5, <1>9 DEF StreamInv, seen
<1> QED
  BY <1>1, <1>6, <1>8, <1>10 DEF u

-----------------------------------------------------------------------------
(* The invariant of the streams, of the client and of Core's files.        *)

StreamsFlow == \A n \in 1..Stream : StreamInv(streams[n], asrun, jsonl, stranded, lastAppended)

ClientFlow ==
  /\ client = "hello" => HelloIs(Conn, lastAcked)
  /\ client \in {"hello", "live"} => ~Conn.eof
  /\ client = "live" /\ Conn.live => LiveIs(Conn, sendQueue, stranded, lastAppended)

QueueFlow == Ascending(sendQueue) /\ \A i \in 1..Len(sendQueue) : sendQueue[i] <= lastAppended
AcksFine  == \A r \in 1..coreAck : Fine(r, asrun, jsonl, stranded)
FlowInv   == StreamsFlow /\ ClientFlow /\ QueueFlow /\ AcksFine

\* Nothing is taken out of the files, and no stranded record comes back.
LogGrows ==
  /\ jsonl \subseteq jsonl' /\ stranded \subseteq stranded' /\ lastAppended <= lastAppended'
  /\ \A r : InLog(asrun, r) => InLog(asrun', r)

FlowTypes ==
  /\ streams \in Seq(StreamFields) /\ Stream \in Nat
  /\ \A n \in 1..Stream : streams[n] \in StreamFields /\ Covered(streams[n], coreAck)
  /\ lastAppended \in Nat /\ coreAck \in Nat /\ coreAck \in Numbers /\ sendQueue \in Seq(Records)
  /\ client # "idle" => Stream > 0
  /\ asrun \in Seq([rec : Records, index : {NoIndex} \cup Nat, via : Nat])

LEMMA IInvTypes == IInv => FlowTypes
BY TypeParts, EvidenceAssumption
   DEF IInv, FlowTypes, StreamsCovered, Stream, SpoolParts, AcksOK, ClientOK, CoreOK,
       ClientHasStream, Numbers, Records, HELLO

LEMMA OneStream ==
  ASSUME FlowTypes, FlowTypes', NEW n \in 1..Stream, NEW t, streams' = [streams EXCEPT ![n] = t]
  PROVE  /\ Stream' = Stream /\ streams'[n] = t /\ t \in StreamFields
         /\ \A h \in 1..Stream : h # n => streams'[h] = streams[h]
         /\ n = Stream => Conn' = t
         /\ n # Stream => Conn' = Conn
<1>1. /\ Len(streams) \in Nat /\ DOMAIN streams = 1..Len(streams)
      /\ Len(streams') \in Nat /\ DOMAIN streams' = 1..Len(streams')
      /\ n \in 1..Len(streams)
  BY DEF FlowTypes, Stream
<1>2. 1..Len(streams') = 1..Len(streams)
  BY <1>1
<1>3. Len(streams') = Len(streams)
  BY <1>1, <1>2
<1>4. streams'[n] = t /\ \A h \in 1..Len(streams) : h # n => streams'[h] = streams[h]
  BY <1>1
<1>5. t \in StreamFields
  BY <1>1, <1>3, <1>4 DEF FlowTypes, Stream
<1>6. Stream' = Stream
  BY <1>3 DEF Stream
<1>7. Conn' = streams'[Stream] /\ Stream \in 1..Stream
  BY <1>1, <1>6 DEF Conn, Stream
<1>8. n = Stream => Conn' = t
  BY <1>4, <1>7
<1>9. n # Stream => Conn' = Conn
  <2>1. \A h \in 1..Stream : h # n => streams'[h] = streams[h]
    BY <1>4 DEF Stream
  <2> QED   BY <1>7, <2>1 DEF Conn
<1> QED
  BY <1>4, <1>5, <1>6, <1>8, <1>9 DEF Stream

LEMMA OneFlow ==
  ASSUME FlowTypes, FlowTypes', StreamsFlow, LogGrows, NEW n \in 1..Stream, NEW t,
         streams' = [streams EXCEPT ![n] = t],
         StreamInv(t, asrun', jsonl', stranded', lastAppended')
  PROVE  StreamsFlow'
<1> SUFFICES ASSUME NEW h \in 1..Stream
             PROVE  StreamInv(streams'[h], asrun', jsonl', stranded', lastAppended')
  BY OneStream DEF StreamsFlow
<1>1. CASE h = n
  BY <1>1, OneStream
<1>2. CASE h # n
  <2> DEFINE s == streams[h]
  <2>1. s \in StreamFields /\ StreamInv(s, asrun, jsonl, stranded, lastAppended) /\ streams'[h] = s
        /\ lastAppended \in Nat /\ lastAppended' \in Nat
    BY <1>2, OneStream DEF StreamsFlow, FlowTypes
  <2>2. /\ jsonl \subseteq jsonl' /\ stranded \subseteq stranded' /\ lastAppended <= lastAppended'
        /\ \A r : InLog(asrun, r) => InLog(asrun', r)
    BY DEF LogGrows
  <2> HIDE DEF s
  <2>3. StreamInv(s, asrun', jsonl', stranded', lastAppended')
    BY <2>1, <2>2, StreamGrows
  <2> QED   BY <2>1, <2>3
<1> QED
  BY <1>1, <1>2

LEMMA AllFlow ==
  ASSUME FlowTypes, FlowTypes', StreamsFlow, LogGrows, streams' = streams
  PROVE  StreamsFlow'
<1> SUFFICES ASSUME NEW h \in 1..Stream
             PROVE  StreamInv(streams[h], asrun', jsonl', stranded', lastAppended')
  BY DEF StreamsFlow, Stream
<1> DEFINE s == streams[h]
<1>1. s \in StreamFields /\ StreamInv(s, asrun, jsonl, stranded, lastAppended)
      /\ lastAppended \in Nat /\ lastAppended' \in Nat
  BY DEF StreamsFlow, FlowTypes
<1>2. /\ jsonl \subseteq jsonl' /\ stranded \subseteq stranded' /\ lastAppended <= lastAppended'
      /\ \A r : InLog(asrun, r) => InLog(asrun', r)
  BY DEF LogGrows
<1> HIDE DEF s
<1>3. StreamInv(s, asrun', jsonl', stranded', lastAppended')
  BY <1>1, <1>2, StreamGrows
<1> QED
  BY <1>3 DEF s

LEMMA StillFine ==
  ASSUME AcksFine, LogGrows, coreAck' = coreAck
  PROVE  AcksFine'
<1> SUFFICES ASSUME NEW r \in 1..coreAck  PROVE Fine(r, asrun', jsonl', stranded')
  BY DEF AcksFine
<1>1. Fine(r, asrun, jsonl, stranded)
  BY DEF AcksFine
<1> QED
  BY <1>1 DEF Fine, LogGrows

\* A handler or the network changes a stream, the client does nothing.
LEMMA CarriedFlow ==
  ASSUME FlowTypes, FlowTypes', FlowInv, LogGrows, NEW n \in 1..Stream, NEW t,
         streams' = [streams EXCEPT ![n] = t],
         UNCHANGED <<client, lastAcked, sendQueue, stranded, lastAppended>>,
         StreamInv(t, asrun', jsonl', stranded, lastAppended),
         \A queue : Carries(streams[n], t, queue, stranded, lastAppended)
  PROVE  StreamsFlow' /\ ClientFlow' /\ QueueFlow'
<1>1. StreamsFlow'
  BY OneFlow DEF FlowInv
<1>2. QueueFlow'
  BY DEF FlowInv, QueueFlow, Ascending
<1>3. ClientFlow'
  <2>1. CASE n = Stream
    <3>1. Conn' = t /\ Conn = streams[n]
      BY <2>1, OneStream DEF Conn
    <3> DEFINE s == streams[n]
    <3>2. /\ client = "hello" => HelloIs(s, lastAcked)
          /\ client \in {"hello", "live"} => ~s.eof
          /\ client = "live" /\ s.live => LiveIs(s, sendQueue, stranded, lastAppended)
      BY <3>1 DEF FlowInv, ClientFlow
    <3>3. Carries(s, t, sendQueue, stranded, lastAppended)
      OBVIOUS
    <3> HIDE DEF s
    <3>4. /\ client = "hello" => HelloIs(t, lastAcked)
          /\ client \in {"hello", "live"} => ~t.eof
      BY <3>2, <3>3 DEF Carries
    <3>5. ASSUME client = "live", t.live  PROVE LiveIs(t, sendQueue, stranded, lastAppended)
      <4>1. s \in StreamFields /\ (s.live \/ ~s.live)
        BY DEF FlowTypes, s
      <4>2. CASE s.live
        BY <3>2, <3>3, <3>5, <4>2 DEF Carries
      <4>3. CASE ~s.live
        BY <3>2, <3>3, <3>5, <4>3 DEF Carries
      <4> QED   BY <4>1, <4>2, <4>3
    <3> QED   BY <3>1, <3>4, <3>5 DEF ClientFlow
  <2>2. CASE n # Stream
    <3>1. Conn' = Conn
      BY <2>2, OneStream
    <3> QED   BY <3>1 DEF FlowInv, ClientFlow
  <2> QED   BY <2>1, <2>2
<1> QED
  BY <1>1, <1>2, <1>3

\* Each step of handler n, as far as its stream is concerned.
HandlerTo(n, t) ==
  /\ streams' = [streams EXCEPT ![n] = t]
  /\ StreamInv(t, asrun', jsonl', stranded, lastAppended)
  /\ \A queue : Carries(streams[n], t, queue, stranded, lastAppended)

LEMMA StartsTo ==
  ASSUME FlowTypes, FlowTypes', StreamsFlow, NEW n \in 1..Stream, HandlerStarts(n)
  PROVE  \E t : /\ HandlerTo(n, t) /\ t.up = streams[n].up /\ t.live = streams[n].live
                /\ t.pc = "reading" /\ t.msg = streams[n].msg /\ SameTake(streams[n], t)
<1> DEFINE s == streams[n]
           t == [s EXCEPT !.pc = "reading"]
<1>1. s.pc = "waiting" /\ streams' = [streams EXCEPT ![n] = t] /\ asrun' = asrun /\ jsonl' = jsonl
  BY DEF HandlerStarts, coreVars
<1>2. s \in StreamFields /\ StreamInv(s, asrun, jsonl, stranded, lastAppended)
  BY DEF FlowTypes, StreamsFlow
<1>3. t.up = s.up /\ t.down = s.down /\ t.pc = "reading" /\ t.msg = s.msg /\ t.live = s.live
      /\ SameEnds(s, t) /\ SameTake(s, t) /\ SameIndex(s, t)
  BY <1>2 DEF StreamFields, SameEnds, SameTake, SameIndex
<1> HIDE DEF s, t
<1>4. t \in StreamFields
  BY <1>1, OneStream
<1>5. StreamInv(t, asrun, jsonl, stranded, lastAppended)
      /\ \A queue : Carries(s, t, queue, stranded, lastAppended)
  BY <1>1, <1>2, <1>3, <1>4, StartsFlow
<1> QED
  BY <1>1, <1>3, <1>5 DEF HandlerTo, s

LEMMA GreetsTo ==
  ASSUME FlowTypes, FlowTypes', StreamsFlow, NEW n \in 1..Stream, HandlerGreets(n)
  PROVE  \E t : /\ HandlerTo(n, t) /\ t.up = Tail(streams[n].up) /\ t.live = streams[n].live
                /\ t.pc = "reading" /\ t.msg = 0 /\ t.floor = coreAck /\ t.seen = streams[n].seen
<1> DEFINE s == streams[n]
           v == [s EXCEPT !.up = Tail(@), !.floor = coreAck]
           t == Acked(v, HELLO)
<1>1. /\ s.pc = "reading" /\ s.up # <<>> /\ Head(s.up) = HELLO
      /\ streams' = [streams EXCEPT ![n] = t] /\ asrun' = asrun /\ jsonl' = jsonl
  BY DEF HandlerGreets
<1>2. s \in StreamFields /\ StreamInv(s, asrun, jsonl, stranded, lastAppended)
  BY DEF FlowTypes, StreamsFlow
<1>3. v.up = Tail(s.up) /\ v.down = s.down /\ v.live = s.live /\ v.eof = s.eof
      /\ v.greeted = s.greeted /\ v.seen = s.seen /\ v.floor = coreAck
      /\ v.index = s.index /\ v.terminals = s.terminals
  BY <1>2 DEF StreamFields
<1>4. v \in StreamFields
  <2> DEFINE u == s.up
  <2>1. u \in Messages /\ u # <<>>
    BY <1>1, <1>2, FieldTypes
  <2> HIDE DEF u
  <2>2. Tail(u) \in Messages
    BY <2>1, RestOfMessages
  <2>3. coreAck \in {0} \cup Records
    BY DEF FlowTypes, Numbers, HELLO
  <2> QED   BY <1>2, <2>2, <2>3 DEF StreamFields, u
<1> HIDE DEF s, v
<1>5. t.up = Tail(s.up) /\ t.seen = s.seen /\ SameEnds(s, t) /\ SameIndex(s, t) /\ t.pc = "reading"
      /\ t.msg = 0 /\ t.floor = coreAck /\ t.live = s.live
      /\ t.down = IF s.live THEN Append(s.down, HELLO) ELSE s.down
  BY <1>3, <1>4, AckedFields DEF SameEnds, SameTake, SameIndex
<1> HIDE DEF t
<1>6. t \in StreamFields
  BY <1>1, OneStream
<1>7. StreamInv(t, asrun, jsonl, stranded, lastAppended)
      /\ \A queue : Carries(s, t, queue, stranded, lastAppended)
  BY <1>1, <1>2, <1>5, <1>6, GreetsFlow
<1> QED
  BY <1>1, <1>5, <1>7 DEF HandlerTo, s

LEMMA JsonlTo ==
  ASSUME FlowTypes, FlowTypes', StreamsFlow, NEW n \in 1..Stream, HandlerWritesJsonl(n)
  PROVE  \E t : /\ HandlerTo(n, t) /\ t.up = streams[n].up /\ t.pc = "store"
                /\ t.msg = streams[n].msg /\ SameTake(streams[n], t)
<1> DEFINE s == streams[n]
           t == [s EXCEPT !.pc = "store"]
<1>1. s.pc = "half" /\ streams' = [streams EXCEPT ![n] = t] /\ asrun' = asrun
      /\ jsonl' = jsonl \cup {s.msg}
  BY DEF HandlerWritesJsonl
<1>2. s \in StreamFields /\ StreamInv(s, asrun, jsonl, stranded, lastAppended)
  BY DEF FlowTypes, StreamsFlow
<1>3. t.up = s.up /\ t.down = s.down /\ t.pc = "store" /\ t.msg = s.msg
      /\ SameEnds(s, t) /\ SameTake(s, t) /\ SameIndex(s, t)
  BY <1>2 DEF StreamFields, SameEnds, SameTake, SameIndex
<1> HIDE DEF s, t
<1>4. t \in StreamFields
  BY <1>1, OneStream
<1>5. StreamInv(t, asrun, jsonl \cup {s.msg}, stranded, lastAppended)
      /\ \A queue : Carries(s, t, queue, stranded, lastAppended)
  BY <1>1, <1>2, <1>3, <1>4, JsonlFlow
<1> QED
  BY <1>1, <1>3, <1>5 DEF HandlerTo, s

LEMMA StoresTo ==
  ASSUME FlowTypes, FlowTypes', StreamsFlow, NEW n \in 1..Stream, HandlerStores(n)
  PROVE  \E t : /\ HandlerTo(n, t) /\ t.up = streams[n].up /\ t.pc = "reading" /\ t.msg = 0
                /\ SameTake(streams[n], t)
<1> DEFINE s == streams[n]
           t == Acked(s, s.msg)
<1>1. s.pc = "store" /\ streams' = [streams EXCEPT ![n] = t] /\ asrun' = asrun /\ jsonl' = jsonl
  BY DEF HandlerStores
<1>2. s \in StreamFields /\ StreamInv(s, asrun, jsonl, stranded, lastAppended)
  BY DEF FlowTypes, StreamsFlow
<1> HIDE DEF s
<1>3. t.up = s.up /\ t.pc = "reading" /\ t.msg = 0
      /\ SameEnds(s, t) /\ SameTake(s, t) /\ SameIndex(s, t)
  BY <1>2, AckedFields
<1> HIDE DEF t
<1>4. t \in StreamFields
  BY <1>1, OneStream
<1>5. StreamInv(t, asrun, jsonl, stranded, lastAppended)
      /\ \A queue : Carries(s, t, queue, stranded, lastAppended)
  BY <1>1, <1>2, <1>3, <1>4, StoresFlow
<1> QED
  BY <1>1, <1>3, <1>5 DEF HandlerTo, s

LEMMA LeavesTo ==
  ASSUME FlowTypes, FlowTypes', StreamsFlow, NEW n \in 1..Stream, HandlerFails(n) \/ HandlerEnds(n)
  PROVE  \E t : HandlerTo(n, t) /\ t.pc = "done"
<1> DEFINE s == streams[n]
<1>1. PICK v : /\ v \in {s, [s EXCEPT !.live = FALSE]} /\ streams' = [streams EXCEPT ![n] = Left(v)]
               /\ s.eof \/ ~v.live
               /\ asrun' = asrun /\ jsonl' = jsonl
  <2>0. s \in StreamFields
    BY DEF FlowTypes
  <2>1. CASE HandlerFails(n)
    <3> DEFINE v == [s EXCEPT !.live = FALSE]
    <3>1. v.live = FALSE
      BY <2>0 DEF StreamFields
    <3>2. streams' = [streams EXCEPT ![n] = Left(v)] /\ asrun' = asrun /\ jsonl' = jsonl
      BY <2>1 DEF HandlerFails
    <3> HIDE DEF v
    <3>3. ~v.live
      BY <3>1
    <3> QED   BY <3>2, <3>3 DEF v
  <2>2. CASE HandlerEnds(n)
    BY <2>2 DEF HandlerEnds, coreVars
  <2> QED   BY <2>1, <2>2
<1>2. s \in StreamFields /\ StreamInv(s, asrun, jsonl, stranded, lastAppended)
  BY DEF FlowTypes, StreamsFlow
<1>3. v.eof = s.eof /\ v.greeted = s.greeted /\ v.down = s.down
  BY <1>1, <1>2 DEF StreamFields
<1> DEFINE t == Left(v)
<1> HIDE DEF s
<1>4. /\ t.up = <<>> /\ t.eof = s.eof /\ t.greeted = s.greeted /\ t.pc = "done" /\ t.down = s.down
      /\ t.seen = {} /\ t.index = NoIndex /\ t.terminals = {} /\ t.live = v.live
  BY <1>3, LeftFields
<1> HIDE DEF t
<1>5. ToSet(t.down) \subseteq ToSet(s.down) /\ (s.eof \/ ~t.live)
  BY <1>1, <1>4
<1>6. StreamInv(t, asrun, jsonl, stranded, lastAppended)
      /\ \A queue : Carries(s, t, queue, stranded, lastAppended)
  BY <1>2, <1>4, <1>5, LeftFlow
<1>7. streams' = [streams EXCEPT ![n] = t]
  BY <1>1 DEF t
<1> QED
  BY <1>1, <1>4, <1>6, <1>7 DEF HandlerTo, s

LEMMA InLogGrows ==
  ASSUME NEW S, NEW log \in Seq(S), NEW line \in S
  PROVE  /\ \A r : InLog(log, r) => InLog(Append(log, line), r)
         /\ InLog(Append(log, line), line.rec)
<1> DEFINE log2 == Append(log, line)
<1>1. /\ Len(log) \in Nat /\ Len(log2) = Len(log) + 1
      /\ \A i \in 1..Len(log) : log2[i] = log[i]
      /\ log2[Len(log) + 1] = line
  BY AppendProperties
<1> HIDE DEF log2
<1>2. \A i \in 1..Len(log) : i \in 1..Len(log2)
  BY <1>1
<1>3. Len(log) + 1 \in 1..Len(log2)
  BY <1>1
<1> QED
  BY <1>1, <1>2, <1>3 DEF InLog, log2

Writing == {"half", "store"}

\* What becomes of a stream when its handler takes a record.
Reads(s, t) ==
  /\ t.up = Tail(s.up) /\ t.floor = s.floor
  /\ IF Duplicate(s, Head(s.up))
     THEN t.seen = s.seen /\ t.pc = "reading" /\ t.msg = 0
     ELSE t.seen = s.seen \cup {Head(s.up)} /\ t.pc \in Writing /\ t.msg = Head(s.up)

\* What handler n reads, and what becomes of the as-run file.
LEMMA ReadsTo ==
  ASSUME FlowTypes, FlowTypes', StreamsFlow, NEW n \in 1..Stream, HandlerReads(n)
  PROVE  /\ \E t : HandlerTo(n, t) /\ Reads(streams[n], t)
         /\ \A r : InLog(asrun, r) => InLog(asrun', r)
<1> DEFINE Line == [rec : Records, index : {NoIndex} \cup Nat, via : Nat]
           s == streams[n]
           r == Head(s.up)
           v == [s EXCEPT !.up = Tail(@)]
           t == IF Duplicate(s, r) THEN Acked(v, r) ELSE Written(v, r)
           line == [rec |-> r, index |-> IndexOf(v, r), via |-> n]
<1>1. /\ s.pc = "reading" /\ s.up # <<>> /\ r # HELLO /\ jsonl' = jsonl
      /\ streams' = [streams EXCEPT ![n] = t]
      /\ asrun' = IF Duplicate(s, r) \/ Suppressed(v, r) THEN asrun ELSE Append(asrun, line)
  BY DEF HandlerReads
<1>2. s \in StreamFields /\ StreamInv(s, asrun, jsonl, stranded, lastAppended) /\ lastAppended \in Nat
  BY DEF FlowTypes, StreamsFlow
<1>3. /\ v.up = Tail(s.up) /\ v.down = s.down /\ v.live = s.live /\ v.eof = s.eof
      /\ v.greeted = s.greeted /\ v.seen = s.seen /\ v.floor = s.floor
      /\ v.index = s.index /\ v.terminals = s.terminals
  BY <1>2 DEF StreamFields
<1>4. v \in StreamFields
  <2> DEFINE u == s.up
  <2>1. u \in Messages /\ u # <<>>
    BY <1>1, <1>2, FieldTypes
  <2> HIDE DEF u
  <2>2. Tail(u) \in Messages
    BY <2>1, RestOfMessages
  <2> QED   BY <1>2, <2>2 DEF StreamFields, u
<1>5. r \in Records
  BY <1>1, <1>2, NoHelloBehind DEF StreamInv
<1>6. asrun \in Seq(Line) /\ asrun' \in Seq(Line)
  BY DEF FlowTypes
<1>7. line.rec = r
  OBVIOUS
<1>8. ~Duplicate(s, r) /\ ~Suppressed(v, r) => line \in Line
  <2> SUFFICES ASSUME ~Duplicate(s, r), ~Suppressed(v, r)  PROVE line \in Line
    OBVIOUS
  <2>1. v.index \in {NoIndex} \cup Nat
    BY <1>4 DEF StreamFields
  <2>2. Segment(r) \in Nat
    BY <1>5, SegmentsDiffer
  <2>3. IndexOf(v, r) \in {NoIndex} \cup Nat
    BY <2>1, <2>2 DEF IndexOf
  <2>4. n \in Nat
    BY DEF FlowTypes
  <2> HIDE DEF v, r
  <2> QED   BY <1>5, <2>3, <2>4
<1> HIDE DEF s, r, v, line, Line
<1>9. \A q : InLog(asrun, q) => InLog(asrun', q)
  BY <1>1, <1>6, <1>8, InLogGrows
<1>10. (Suppressed(v, r) <=> Suppressed(s, r)) /\ IndexOf(v, r) = IndexOf(s, r)
  BY <1>3 DEF Suppressed, IndexOf
<1>11. CASE Duplicate(s, r)
  <2>1. t = Acked(v, r) /\ asrun' = asrun
    BY <1>1, <1>11
  <2>2. t.up = Tail(s.up) /\ SameEnds(s, t) /\ SameTake(s, t) /\ SameIndex(s, t) /\ t.pc = "reading"
    BY <1>3, <1>4, <2>1, AckedFields DEF SameEnds, SameTake, SameIndex
  <2> HIDE DEF t
  <2>3. t \in StreamFields
    BY <1>1, OneStream
  <2>4. Head(s.up) # HELLO /\ Duplicate(s, Head(s.up))
    BY <1>1, <1>11 DEF r
  <2>5. StreamInv(t, asrun, jsonl, stranded, lastAppended)
        /\ \A queue : Carries(s, t, queue, stranded, lastAppended)
    BY <1>1, <1>2, <2>2, <2>3, <2>4, DuplicateFlow
  <2>6. HandlerTo(n, t)
    BY <1>1, <2>1, <2>5 DEF HandlerTo, s
  <2>7. t.msg = 0
    BY <1>4, <2>1, AckedFields DEF t
  <2>8. Reads(s, t)
    BY <1>11, <2>2, <2>7 DEF Reads, SameTake, r
  <2> QED   BY <1>9, <2>6, <2>8 DEF s
<1>12. CASE ~Duplicate(s, r)
  <2>1. t = Written(v, r)
    BY <1>12
  <2>2. /\ t.up = Tail(s.up) /\ SameEnds(s, t) /\ t.floor = s.floor /\ t.seen = s.seen \cup {r}
        /\ t.msg = r /\ t.pc = (IF Suppressed(s, r) THEN "store" ELSE "half")
        /\ t.index = (IF Suppressed(s, r) THEN s.index ELSE IndexOf(s, r))
        /\ t.terminals = (IF Suppressed(s, r) \/ Opens(r) THEN s.terminals
                          ELSE s.terminals \cup {IndexOf(s, r)})
    <3> HIDE DEF t
    <3> DEFINE w == Written(v, r)
    <3>7. /\ w.up = v.up /\ SameEnds(v, w) /\ w.floor = v.floor /\ w.seen = v.seen \cup {r}
          /\ w.msg = r /\ w.pc = (IF Suppressed(v, r) THEN "store" ELSE "half")
      BY <1>4, WrittenFields
    <3>8. t = w
      BY <2>1
    <3> HIDE DEF w
    <3>1. /\ t.up = v.up /\ SameEnds(v, t) /\ t.floor = v.floor /\ t.seen = v.seen \cup {r}
          /\ t.msg = r /\ t.pc = (IF Suppressed(v, r) THEN "store" ELSE "half")
      BY <3>7, <3>8
    <3>2. /\ t.index = (IF Suppressed(v, r) THEN v.index ELSE IndexOf(v, r))
          /\ t.terminals = (IF Suppressed(v, r) \/ Opens(r) THEN v.terminals
                            ELSE v.terminals \cup {IndexOf(v, r)})
      BY <1>4, <2>1, WrittenFields
    <3>3. SameEnds(s, t)
      BY <1>3, <3>1 DEF SameEnds
    <3>4. t.index = (IF Suppressed(s, r) THEN s.index ELSE IndexOf(s, r))
      BY <1>3, <1>10, <3>2
    <3>5. t.terminals = (IF Suppressed(s, r) \/ Opens(r) THEN s.terminals
                         ELSE s.terminals \cup {IndexOf(s, r)})
      BY <1>3, <1>10, <3>2
    <3>6. t.pc = (IF Suppressed(s, r) THEN "store" ELSE "half")
      BY <1>10, <3>1
    <3> QED   BY <1>3, <3>1, <3>3, <3>4, <3>5, <3>6
  <2> HIDE DEF t
  <2>3. t \in StreamFields
    BY <1>1, OneStream
  <2>4. Suppressed(s, r) \/ InLog(asrun', r)
    BY <1>1, <1>6, <1>7, <1>8, <1>10, <1>12, InLogGrows
  <2>5. r = Head(s.up)
    BY DEF r
  <2>6. StreamInv(t, asrun', jsonl, stranded, lastAppended)
        /\ \A queue : Carries(s, t, queue, stranded, lastAppended)
    BY <1>1, <1>2, <1>12, <2>2, <2>3, <2>4, <2>5, WrittenFlow
  <2>7. HandlerTo(n, t)
    BY <1>1, <2>6 DEF HandlerTo, s
  <2>8. Reads(s, t)
    BY <1>12, <2>2 DEF Reads, Writing, r
  <2> QED   BY <1>9, <2>7, <2>8 DEF s
<1> QED
  BY <1>11, <1>12

\* The ack that is stored covers nothing more than the record that was written.
LEMMA StoresFine ==
  ASSUME FlowTypes, FlowInv, NEW n \in 1..Stream, HandlerStores(n)
  PROVE  AcksFine'
<1> DEFINE s == streams[n]
<1>1. /\ s.pc = "store" /\ coreAck' = (IF s.msg > coreAck THEN s.msg ELSE coreAck)
      /\ UNCHANGED <<asrun, jsonl, stranded>>
  BY DEF HandlerStores, clientVars
<1>2. /\ s \in StreamFields /\ StreamInv(s, asrun, jsonl, stranded, lastAppended)
      /\ Covered(s, coreAck) /\ coreAck \in Nat
  BY DEF FlowTypes, FlowInv, StreamsFlow
<1>3. s.msg \in s.seen /\ Fine(s.msg, asrun, jsonl, stranded) /\ s.seen \in SUBSET Records
      /\ s.seen \subseteq 0..coreAck \cup {s.msg} /\ s.floor <= coreAck /\ s.floor \in Numbers
  BY <1>1, <1>2, FieldTypes DEF StreamInv, InHand, Covered
<1>4. \A q \in s.seen, r \in Records : r < q => r <= s.floor \/ r \in s.seen \/ r \in stranded
  BY <1>2 DEF StreamInv, Order
<1> HIDE DEF s
<1>5. s.msg \in Nat /\ s.floor \in Nat /\ s.msg \in 1..MaxSequence /\ MaxSequence \in Nat
  BY <1>3, EvidenceAssumption DEF Records, Numbers, HELLO
<1> SUFFICES ASSUME NEW r \in 1..coreAck'  PROVE Fine(r, asrun, jsonl, stranded)
  BY <1>1 DEF AcksFine
<1>6. CASE r <= coreAck
  <2>1. r \in 1..coreAck
    BY <1>2, <1>6
  <2> QED   BY <2>1 DEF FlowInv, AcksFine
<1>7. CASE r = s.msg
  BY <1>3, <1>7
<1>8. CASE ~(r <= coreAck) /\ r # s.msg
  <2>1. r \in Records /\ r < s.msg
    BY <1>1, <1>2, <1>5, <1>8 DEF Records
  <2>2. r \in Nat
    BY <2>1, <1>5 DEF Records
  <2>3. r \in stranded
    BY <1>2, <1>3, <1>4, <1>5, <1>8, <2>1, <2>2
  <2> QED   BY <2>3 DEF Fine
<1> QED
  BY <1>6, <1>7, <1>8

LEMMA HandlerFlow ==
  ASSUME FlowTypes, FlowTypes', FlowInv, NEW n \in 1..Stream, Handler(n) \/ HandlerFails(n)
  PROVE  FlowInv'
<1>1. UNCHANGED <<client, lastAcked, sendQueue, stranded, lastAppended>>
  BY DEF Handler, HandlerStarts, HandlerGreets, HandlerReads, HandlerWritesJsonl, HandlerStores,
         HandlerEnds, HandlerFails, clientVars, ackVars, spoolVars
<1>2. StreamsFlow /\ AcksFine /\ lastAppended \in Nat
  BY DEF FlowInv, FlowTypes
<1>3. \E t : HandlerTo(n, t)
  BY <1>2, StartsTo, GreetsTo, ReadsTo, JsonlTo, StoresTo, LeavesTo DEF Handler
<1>4. jsonl \subseteq jsonl' /\ \A r : InLog(asrun, r) => InLog(asrun', r)
  <2>1. CASE HandlerReads(n)
    BY <1>2, <2>1, ReadsTo DEF HandlerReads
  <2>2. CASE ~HandlerReads(n)
    <3>1. asrun' = asrun /\ jsonl \subseteq jsonl'
      BY <2>2 DEF Handler, HandlerStarts, HandlerGreets, HandlerWritesJsonl, HandlerStores,
                  HandlerEnds, HandlerFails, coreVars
    <3> QED   BY <3>1
  <2> QED   BY <2>1, <2>2
<1>5. LogGrows
  BY <1>1, <1>2, <1>4 DEF LogGrows
<1>6. StreamsFlow' /\ ClientFlow' /\ QueueFlow'
  BY <1>1, <1>3, <1>5, CarriedFlow DEF HandlerTo
<1>7. AcksFine'
  <2>1. CASE HandlerStores(n)
    BY <2>1, StoresFine
  <2>2. CASE ~HandlerStores(n)
    <3>1. coreAck' = coreAck
      BY <2>2 DEF Handler, HandlerStarts, HandlerGreets, HandlerReads, HandlerWritesJsonl,
                  HandlerEnds, HandlerFails, coreVars
    <3> QED   BY <1>2, <1>5, <3>1, StillFine
  <2> QED   BY <2>1, <2>2
<1> QED
  BY <1>6, <1>7 DEF FlowInv

-----------------------------------------------------------------------------
(* What breaks, and the client.                                            *)

\* The client's stream breaks.
LEMMA BreaksFlow ==
  ASSUME FlowTypes, FlowTypes', FlowInv, Stream > 0, NEW t \in Broken(Conn),
         streams' = [streams EXCEPT ![Stream] = t],
         UNCHANGED <<client, lastAcked, sendQueue, stranded, lastAppended, asrun, jsonl, coreAck>>
  PROVE  FlowInv'
<1> DEFINE n == Stream
           s == streams[n]
<1>1. n \in 1..Stream /\ t \in Broken(s) /\ streams' = [streams EXCEPT ![n] = t]
      /\ lastAppended \in Nat
  BY DEF FlowTypes, Conn
<1>2. s \in StreamFields /\ StreamInv(s, asrun, jsonl, stranded, lastAppended)
  BY <1>1 DEF FlowTypes, FlowInv, StreamsFlow
<1>3. LogGrows
  BY <1>1 DEF LogGrows
<1> HIDE DEF s
<1>4. StreamInv(t, asrun, jsonl, stranded, lastAppended)
      /\ \A queue : Carries(s, t, queue, stranded, lastAppended)
  BY <1>1, <1>2, BrokenFlow
<1>5. /\ StreamInv(t, asrun', jsonl', stranded, lastAppended)
      /\ \A queue : Carries(streams[n], t, queue, stranded, lastAppended)
  BY <1>4 DEF s
<1> HIDE DEF n
<1>6. StreamsFlow' /\ ClientFlow' /\ QueueFlow'
  BY <1>1, <1>3, <1>5, CarriedFlow
<1>7. AcksFine'
  BY <1>3, StillFine DEF FlowInv
<1> QED
  BY <1>6, <1>7 DEF FlowInv

\* Nothing of it changes.
LEMMA SameFlow ==
  ASSUME FlowTypes, FlowTypes', FlowInv,
         UNCHANGED <<streams, client, lastAcked, sendQueue, stranded, lastAppended, asrun, jsonl,
                     coreAck>>
  PROVE  FlowInv'
<1>1. LogGrows
  BY DEF LogGrows, FlowTypes
<1>2. StreamsFlow'
  BY <1>1, AllFlow DEF FlowInv
<1>3. AcksFine'
  BY <1>1, StillFine DEF FlowInv
<1>4. ClientFlow' /\ QueueFlow'
  BY DEF FlowInv, ClientFlow, QueueFlow, Ascending, Conn, Stream
<1> QED
  BY <1>2, <1>3, <1>4 DEF FlowInv

LEMMA AirGoneFlow ==
  ASSUME FlowTypes, FlowTypes', FlowInv, AirGone
  PROVE  FlowInv'
<1>1. UNCHANGED <<client, lastAcked, sendQueue, stranded, lastAppended, asrun, jsonl, coreAck>>
  BY DEF AirGone, spoolVars, ackVars, clientVars, coreVars
<1>2. CASE streams' = streams
  BY <1>1, <1>2, SameFlow
<1>3. CASE streams' # streams
  <2>1. Stream # 0 /\ \E t \in Broken(Conn) : streams' = [streams EXCEPT ![Stream] = t]
    BY <1>3 DEF AirGone
  <2>2. Stream > 0
    BY <2>1 DEF FlowTypes
  <2> QED   BY <1>1, <2>1, <2>2, BreaksFlow
<1> QED
  BY <1>2, <1>3

LEMMA CoreDiesFlow ==
  ASSUME FlowTypes, FlowTypes', FlowInv, CoreDies
  PROVE  FlowInv'
<1>1. /\ UNCHANGED <<client, lastAcked, sendQueue, stranded, lastAppended, asrun, jsonl, coreAck>>
      /\ Stream > 0
  BY DEF CoreDies, spoolVars, ackVars, clientVars
<1>2. PICK j \in 0..Len(Conn.down) :
        streams' = [n \in 1..Stream |->
          Left([streams[n] EXCEPT !.live = FALSE,
                                  !.down = IF n = Stream THEN SubSeq(@, 1, j) ELSE <<>>])]
  BY DEF CoreDies
<1> DEFINE d(n) == IF n = Stream THEN SubSeq(streams[n].down, 1, j) ELSE <<>>
           dead(n) == [streams[n] EXCEPT !.live = FALSE, !.down = d(n)]
           e(n) == Left(dead(n))
<1>3. ASSUME NEW n \in 1..Stream
      PROVE  /\ StreamInv(e(n), asrun, jsonl, stranded, lastAppended)
             /\ \A queue : Carries(streams[n], e(n), queue, stranded, lastAppended)
             /\ ~e(n).live
  <2> DEFINE s == streams[n]
             v == dead(n)
  <2>1. s \in StreamFields /\ StreamInv(s, asrun, jsonl, stranded, lastAppended) /\ s.down \in Messages
    BY FieldTypes DEF FlowTypes, FlowInv, StreamsFlow
  <2>2. v.live = FALSE /\ v.eof = s.eof /\ v.greeted = s.greeted /\ v.down = d(n)
    <3> HIDE DEF s, d
    <3>1. dead(n) = [s EXCEPT !.live = FALSE, !.down = d(n)]
      BY DEF s
    <3> QED   BY <2>1, <3>1 DEF StreamFields
  <2>3. ToSet(d(n)) \subseteq ToSet(s.down)
    <3>1. CASE n = Stream
      <4>1. j \in 0..Len(s.down)   BY <3>1 DEF Conn
      <4> HIDE DEF s
      <4>2. ToSet(SubSeq(s.down, 1, j)) \subseteq ToSet(s.down)
        BY <2>1, <4>1, PartOfMessages
      <4> QED   BY <3>1, <4>2 DEF s
    <3>2. CASE n # Stream
      BY <3>2, EmptyMessages
    <3> QED   BY <3>1, <3>2
  <2> DEFINE t == Left(v)
  <2>4. e(n) = t
    OBVIOUS
  <2> HIDE DEF s, v, d
  <2>5. /\ t.up = <<>> /\ t.eof = s.eof /\ t.greeted = s.greeted /\ t.pc = "done" /\ t.down = d(n)
        /\ t.seen = {} /\ t.index = NoIndex /\ t.terminals = {} /\ t.live = FALSE
    BY <2>2, LeftFields
  <2> HIDE DEF t
  <2>6. ToSet(t.down) \subseteq ToSet(s.down) /\ (s.eof \/ ~t.live) /\ ~t.live
    BY <2>3, <2>5
  <2>7. StreamInv(t, asrun, jsonl, stranded, lastAppended)
        /\ \A queue : Carries(s, t, queue, stranded, lastAppended)
    BY <2>1, <2>5, <2>6, LeftFlow
  <2> QED   BY <2>4, <2>6, <2>7 DEF s
<1>4. streams' = [n \in 1..Stream |-> e(n)]
  BY <1>2
<1> HIDE DEF e
<1>5. /\ DOMAIN streams' = 1..Stream /\ \A n \in 1..Stream : streams'[n] = e(n)
  BY <1>4
<1>6. Stream' = Stream
  <2>1. Len(streams') \in Nat /\ DOMAIN streams' = 1..Len(streams') /\ Stream \in Nat
    BY DEF FlowTypes
  <2>2. 1..Len(streams') = 1..Stream
    BY <1>5, <2>1
  <2> QED   BY <2>1, <2>2 DEF Stream
<1>7. Stream \in 1..Stream /\ Conn' = e(Stream)
  <2>1. Stream \in 1..Stream
    BY <1>1 DEF FlowTypes
  <2>2. Conn' = streams'[Stream]
    BY <1>6 DEF Conn
  <2> QED   BY <1>5, <2>1, <2>2
<1>8. StreamsFlow'
  BY <1>1, <1>3, <1>5, <1>6 DEF StreamsFlow
<1>9. LogGrows
  BY <1>1 DEF LogGrows, FlowTypes
<1>10. AcksFine'
  BY <1>1, <1>9, StillFine DEF FlowInv
<1>11. QueueFlow'
  BY <1>1 DEF FlowInv, QueueFlow, Ascending
<1>12. ClientFlow'
  <2> DEFINE n == Stream
             t == e(n)
             s == streams[n]
  <2>1. Conn' = t /\ Conn = s /\ ~t.live /\ Carries(s, t, sendQueue, stranded, lastAppended)
    BY <1>3, <1>7 DEF Conn
  <2>2. (client = "hello" => HelloIs(s, lastAcked)) /\ (client \in {"hello", "live"} => ~s.eof)
    BY <2>1 DEF FlowInv, ClientFlow
  <2> HIDE DEF t, s, n
  <2>3. (client = "hello" => HelloIs(t, lastAcked)) /\ (client \in {"hello", "live"} => ~t.eof)
    BY <2>1, <2>2 DEF Carries
  <2> QED   BY <1>1, <2>1, <2>3 DEF ClientFlow
<1> QED
  BY <1>8, <1>10, <1>11, <1>12 DEF FlowInv

LEMMA ConnectsFlow ==
  ASSUME FlowTypes, FlowTypes', FlowInv, ClientConnects
  PROVE  FlowInv'
<1>1. /\ UNCHANGED <<lastAcked, sendQueue, stranded, lastAppended, asrun, jsonl, coreAck>>
      /\ streams' = Append(streams, NewStream) /\ client' = "hello"
  BY DEF ClientConnects, spoolVars, ackVars, coreVars
<1>2. streams \in Seq(StreamFields) /\ NewStream \in StreamFields /\ lastAppended \in Nat
  BY NewStreamOK DEF FlowTypes
<1>3. /\ Len(streams') = Len(streams) + 1 /\ streams'[Len(streams) + 1] = NewStream
      /\ \A n \in 1..Len(streams) : streams'[n] = streams[n]
      /\ Len(streams) \in Nat
  BY <1>1, <1>2, AppendProperties
<1>4. Stream' = Stream + 1 /\ Conn' = NewStream /\ \A n \in 1..Stream : streams'[n] = streams[n]
      /\ Stream \in Nat
  BY <1>3 DEF Stream, Conn
<1>5. StreamInv(NewStream, asrun, jsonl, stranded, lastAppended) /\ HelloIs(NewStream, lastAcked)
  BY <1>2, NewFlow
<1>6. StreamsFlow'
  <2> SUFFICES ASSUME NEW n \in 1..(Stream + 1)
               PROVE  StreamInv(streams'[n], asrun, jsonl, stranded, lastAppended)
    BY <1>1, <1>4 DEF StreamsFlow
  <2>1. CASE n = Stream + 1
    BY <1>3, <1>5, <2>1 DEF Stream
  <2>2. CASE n # Stream + 1
    <3>1. n \in 1..Stream
      <4> DEFINE last == Stream
      <4>1. last \in Nat
        BY <1>3 DEF Stream
      <4>3. n \in 1..(last + 1) /\ n # last + 1
        BY <2>2
      <4> HIDE DEF last
      <4>2. n \in 1..last
        BY <4>1, <4>3
      <4> QED   BY <4>2 DEF last
    <3> QED   BY <1>4, <3>1 DEF FlowInv, StreamsFlow
  <2> QED   BY <2>1, <2>2
<1>7. ClientFlow'
  <2>1. ~NewStream.eof
    BY NewFields
  <2> QED   BY <1>1, <1>4, <1>5, <2>1 DEF ClientFlow
<1>8. QueueFlow'
  BY <1>1 DEF FlowInv, QueueFlow, Ascending
<1>9. AcksFine'
  BY <1>1 DEF FlowInv, AcksFine
<1> QED
  BY <1>6, <1>7, <1>8, <1>9 DEF FlowInv

\* The client closes its end.
LEMMA WritesDoneFlow ==
  ASSUME FlowTypes, FlowTypes', FlowInv, Stream > 0, WritesDone, client' = "closing",
         UNCHANGED <<lastAcked, sendQueue, stranded, lastAppended, asrun, jsonl, coreAck>>
  PROVE  FlowInv'
<1> DEFINE n == Stream
           s == streams[n]
           t == [s EXCEPT !.eof = TRUE]
<1>1. n \in 1..Stream /\ streams' = [streams EXCEPT ![n] = t]
  BY DEF FlowTypes, WritesDone
<1>2. s \in StreamFields /\ StreamInv(s, asrun, jsonl, stranded, lastAppended)
  BY <1>1 DEF FlowTypes, FlowInv, StreamsFlow
<1>3. LogGrows
  BY DEF LogGrows, FlowTypes
<1> HIDE DEF s
<1>4. StreamInv(t, asrun', jsonl', stranded', lastAppended')
  BY <1>2, ClosesFlow
<1> HIDE DEF n, t
<1>5. StreamsFlow'
  BY <1>1, <1>3, <1>4, OneFlow DEF FlowInv
<1>6. ClientFlow'
  BY DEF ClientFlow
<1>7. QueueFlow'
  BY DEF FlowInv, QueueFlow, Ascending
<1>8. AcksFine'
  BY <1>3, StillFine DEF FlowInv
<1> QED
  BY <1>5, <1>6, <1>7, <1>8 DEF FlowInv

LEMMA AckReadsFlow ==
  ASSUME FlowTypes, FlowTypes', FlowInv, AckReads
  PROVE  FlowInv'
<1> DEFINE n == Stream
           s == streams[n]
           t == [s EXCEPT !.down = Tail(@), !.greeted = TRUE]
<1>1. /\ UNCHANGED <<client, sendQueue, stranded, lastAppended, asrun, jsonl, coreAck>>
      /\ client # "idle" /\ s.down # <<>> /\ streams' = [streams EXCEPT ![n] = t]
      /\ lastAcked' = IF ~s.greeted \/ Head(s.down) > lastAcked THEN Head(s.down) ELSE lastAcked
  BY DEF AckReads, spoolVars, clientVars, coreVars, Conn, ackVars
<1>2. n \in 1..Stream
  BY <1>1 DEF FlowTypes
<1>3. s \in StreamFields /\ StreamInv(s, asrun, jsonl, stranded, lastAppended)
  BY <1>2 DEF FlowTypes, FlowInv, StreamsFlow
<1>4. LogGrows
  BY <1>1 DEF LogGrows, FlowTypes
<1>5. /\ client = "hello" => HelloIs(s, lastAcked)
      /\ client \in {"hello", "live"} => ~s.eof
      /\ client = "live" /\ s.live => LiveIs(s, sendQueue, stranded, lastAppended)
  BY DEF FlowInv, ClientFlow, Conn
<1> HIDE DEF s
<1>6. /\ StreamInv(t, asrun, jsonl, stranded, lastAppended)
      /\ t.eof = s.eof /\ t.live = s.live
      /\ \A acked, acked2 :
           HelloIs(s, acked) /\ acked2 = (IF ~s.greeted \/ Head(s.down) > acked
                                          THEN Head(s.down) ELSE acked)
           => HelloIs(t, acked2)
      /\ \A queue : LiveIs(s, queue, stranded, lastAppended)
                    => LiveIs(t, queue, stranded, lastAppended)
  BY <1>1, <1>3, AckFlow
<1> HIDE DEF n, t
<1>7. Conn' = t
  <2>1. n = Stream
    BY DEF n
  <2> QED   BY <1>1, <1>2, <2>1, OneStream
<1>8. StreamsFlow'
  <2>1. StreamInv(t, asrun', jsonl', stranded', lastAppended')
    BY <1>1, <1>6
  <2> QED   BY <1>1, <1>2, <1>4, <2>1, OneFlow DEF FlowInv
<1>9. ClientFlow'
  <2>1. client = "hello" => HelloIs(t, lastAcked')
    BY <1>1, <1>5, <1>6
  <2>2. client = "live" /\ t.live => LiveIs(t, sendQueue, stranded, lastAppended)
    BY <1>5, <1>6
  <2> QED   BY <1>1, <1>5, <1>6, <1>7, <2>1, <2>2 DEF ClientFlow
<1>10. QueueFlow'
  BY <1>1 DEF FlowInv, QueueFlow, Ascending
<1>11. AcksFine'
  BY <1>1, <1>4, StillFine DEF FlowInv
<1> QED
  BY <1>8, <1>9, <1>10, <1>11 DEF FlowInv

\* The next record is handed to the client.
LEMMA EmitsFlow ==
  ASSUME IInv, FlowTypes, FlowTypes', FlowInv, EmitAppends
  PROVE  FlowInv'
<1> DEFINE r == lastAppended + 1
           more == Append(sendQueue, r)
<1>1. /\ UNCHANGED <<streams, client, lastAcked, stranded, asrun, jsonl, coreAck>>
      /\ lastAppended' = r /\ sendQueue' = more /\ r \in Records /\ lastAppended \in Nat
  <2>1. /\ UNCHANGED <<streams, client, lastAcked, stranded, asrun, jsonl, coreAck>>
        /\ sequence + 1 \in Records /\ ~Gap(sequence + 1)
        /\ lastAppended' = sequence + 1 /\ sendQueue' = Append(sendQueue, sequence + 1)
    BY DEF EmitAppends, ackVars, coreVars
  <2>2. lastAppended \in Nat /\ sequence \in Nat /\ (lastAppended = 0 => sequence = 0)
    BY EvidenceAssumption DEF IInv, TypeOK, SpoolParts, FirstTaken, Records
  <2>3. sequence = lastAppended
    BY <2>1, <2>2 DEF Gap
  <2> QED   BY <2>1, <2>2, <2>3
<1>2. /\ sendQueue \in Seq(Records) /\ more \in Seq(Records) /\ Len(more) = Len(sendQueue) + 1
      /\ \A i \in 1..Len(sendQueue) : more[i] = sendQueue[i]
      /\ more[Len(sendQueue) + 1] = r /\ Len(sendQueue) \in Nat
  BY <1>1, AppendProperties DEF FlowTypes
<1>3. /\ Ascending(sendQueue) /\ \A i \in 1..Len(sendQueue) : sendQueue[i] <= lastAppended
      /\ \A i \in 1..Len(sendQueue) : sendQueue[i] \in Nat
  BY <1>2, EvidenceAssumption DEF FlowInv, QueueFlow, Records
<1>4. ToSet(more) = ToSet(sendQueue) \cup {r}
  <2> DEFINE q == sendQueue
  <2>1. q \in Messages /\ r \in Numbers
    BY <1>1, <1>2 DEF Messages, Numbers
  <2> HIDE DEF q, r
  <2>2. ToSet(Append(q, r)) = ToSet(q) \cup {r}
    BY <2>1, MoreMessages
  <2> QED   BY <2>2 DEF q
<1> HIDE DEF more
<1>5. \A i \in 1..Len(more) : more[i] <= r
  BY <1>1, <1>2, <1>3
<1>6. Ascending(more)
  <2> SUFFICES ASSUME NEW i \in 1..Len(more), NEW j \in 1..Len(more), i < j  PROVE more[i] < more[j]
    BY DEF Ascending
  <2>1. i \in 1..Len(sendQueue) /\ more[i] = sendQueue[i]
    BY <1>2
  <2>2. CASE j \in 1..Len(sendQueue)
    BY <1>2, <1>3, <2>1, <2>2 DEF Ascending
  <2>3. CASE j \notin 1..Len(sendQueue)
    <3>1. j = Len(sendQueue) + 1
      BY <1>2, <2>3
    <3>2. more[j] = r /\ sendQueue[i] <= lastAppended /\ sendQueue[i] \in Nat
      BY <1>2, <1>3, <2>1, <3>1
    <3> QED   BY <1>1, <2>1, <3>2
  <2> QED   BY <2>2, <2>3
<1>7. QueueFlow'
  BY <1>1, <1>5, <1>6 DEF QueueFlow
<1>8. LogGrows
  BY <1>1 DEF LogGrows
<1>9. StreamsFlow'
  BY <1>1, <1>8, AllFlow DEF FlowInv
<1>10. AcksFine'
  BY <1>1, <1>8, StillFine DEF FlowInv
<1>11. Conn' = Conn
  BY <1>1 DEF Conn, Stream
<1>12. ASSUME client = "live", Conn.live  PROVE LiveIs(Conn, more, stranded, r)
  <2> DEFINE s == Conn
             u == s.up
  <2>1. /\ s \in StreamFields /\ StreamInv(s, asrun, jsonl, stranded, lastAppended)
        /\ LiveIs(s, sendQueue, stranded, lastAppended)
    BY <1>12 DEF FlowTypes, FlowInv, StreamsFlow, ClientFlow, Conn
  <2>2. u \in Messages /\ s.seen \in SUBSET Records
    BY <2>1, FieldTypes
  <2>3. /\ \A q \in s.seen : q <= lastAppended
        /\ \A i \in 1..Len(u) : u[i] <= lastAppended
    BY <2>1 DEF StreamInv, Order
  <2> HIDE DEF u, s
  <2>4. \A q \in ToSet(u) : q <= lastAppended /\ q \in Nat
    BY <2>2, <2>3, MessageFacts
  <2>5. \A q \in s.seen : q < r
    BY <1>1, <2>2, <2>3, EvidenceAssumption DEF Records
  <2>6. \A q \in ToSet(u) : q < r
    BY <1>1, <2>4
  <2>7. \A q \in 1..r : \/ q <= s.floor \/ q \in s.seen \/ q \in stranded
                        \/ q \in ToSet(u) \/ q \in ToSet(more)
    <3> SUFFICES ASSUME NEW q \in 1..r
                 PROVE  \/ q <= s.floor \/ q \in s.seen \/ q \in stranded
                        \/ q \in ToSet(u) \/ q \in ToSet(more)
      OBVIOUS
    <3>1. CASE q = r
      BY <1>4, <3>1
    <3>2. CASE q # r
      <4>1. q \in 1..lastAppended
        BY <1>1, <3>2
      <4> QED   BY <1>4, <2>1, <4>1 DEF LiveIs, u
    <3> QED   BY <3>1, <3>2
  <2>8. \A q \in ToSet(more) :
          \/ q <= s.floor \/ q \in s.seen \/ q \in ToSet(u)
          \/ (\A o \in s.seen : o < q) /\ \A o \in ToSet(u) : o < q
    <3> SUFFICES ASSUME NEW q \in ToSet(more)
                 PROVE  \/ q <= s.floor \/ q \in s.seen \/ q \in ToSet(u)
                        \/ (\A o \in s.seen : o < q) /\ \A o \in ToSet(u) : o < q
      OBVIOUS
    <3>1. CASE q = r
      BY <2>5, <2>6, <3>1
    <3>2. CASE q \in ToSet(sendQueue)
      BY <2>1, <3>2 DEF LiveIs, u
    <3> QED   BY <1>4, <3>1, <3>2
  <2>9. s.pc # "waiting" /\ HELLO \notin ToSet(u)
    BY <2>1 DEF LiveIs, u
  <2> HIDE DEF r
  <2>10. LiveIs(s, more, stranded, r)
    BY <2>7, <2>8, <2>9 DEF LiveIs, u
  <2> QED   BY <2>10 DEF s
<1>13. ClientFlow'
  BY <1>1, <1>11, <1>12 DEF ClientFlow, FlowInv
<1> QED
  BY <1>7, <1>9, <1>10, <1>13 DEF FlowInv

\* The client sends what it was handed.
LEMMA SendsStepFlow ==
  ASSUME FlowTypes, FlowTypes', FlowInv, ClientSends
  PROVE  FlowInv'
<1> DEFINE n == Stream
           s == streams[n]
           t == [s EXCEPT !.up = @ \o sendQueue]
<1>1. /\ UNCHANGED <<lastAcked, stranded, lastAppended, asrun, jsonl, coreAck>>
      /\ client = "live" /\ sendQueue' = <<>> /\ Writes(sendQueue)
  BY DEF ClientSends, spoolVars, ackVars, coreVars
<1>2. n \in 1..Stream /\ Conn = s /\ lastAppended \in Nat /\ sendQueue \in Seq(Records)
  BY <1>1 DEF FlowTypes, Conn
<1>3. s \in StreamFields /\ StreamInv(s, asrun, jsonl, stranded, lastAppended) /\ ~s.eof
  BY <1>1, <1>2 DEF FlowTypes, FlowInv, StreamsFlow, ClientFlow
<1>4. LogGrows
  BY <1>1 DEF LogGrows, FlowTypes
<1>5. AcksFine'
  BY <1>1, <1>4, StillFine DEF FlowInv
<1>6. QueueFlow'
  BY <1>1 DEF QueueFlow, Ascending
<1>7. CASE ~s.live
  <2>1. streams' = streams /\ client' \in {"live", "closing"}
    BY <1>1, <1>2, <1>7 DEF Writes
  <2>2. Conn' = s
    BY <1>2, <2>1 DEF Conn, Stream
  <2>3. StreamsFlow'
    BY <1>4, <2>1, AllFlow DEF FlowInv
  <2>4. ClientFlow'
    <3> HIDE DEF s
    <3> QED   BY <1>3, <1>7, <2>1, <2>2 DEF ClientFlow
  <2> QED   BY <1>5, <1>6, <2>3, <2>4 DEF FlowInv
<1>8. CASE s.live
  <2>1. streams' = [streams EXCEPT ![n] = t] /\ client' = "live"
    BY <1>1, <1>2, <1>8 DEF Writes
  <2>2. LiveIs(s, sendQueue, stranded, lastAppended)
    BY <1>1, <1>2, <1>8 DEF FlowInv, ClientFlow
  <2>3. Ascending(sendQueue) /\ \A i \in 1..Len(sendQueue) : sendQueue[i] <= lastAppended
    BY DEF FlowInv, QueueFlow
  <2> DEFINE ms == sendQueue
  <2> HIDE DEF s
  <2>4. ms \in Messages /\ \A i \in 1..Len(ms) : ms[i] \in Records /\ ms[i] \in ToSet(ms)
    <3>1. DOMAIN ms = 1..Len(ms)
      BY <1>2
    <3> QED   BY <1>2, <3>1 DEF Messages, Numbers, ToSet
  <2>5. Follows(ms, s.up, s.seen, s.floor, stranded, lastAppended)
    <3> HIDE DEF ms
    <3> SUFFICES ASSUME NEW i \in 1..Len(ms)
                 PROVE  /\ ms[i] <= lastAppended
                        /\ \A r \in Records : r < ms[i] =>
                             \/ r <= s.floor \/ r \in s.seen \/ r \in stranded
                             \/ r \in ToSet(s.up) \/ r \in ToSet(ms)
                        /\ \/ ms[i] <= s.floor \/ ms[i] \in s.seen \/ ms[i] \in ToSet(s.up)
                           \/ (\A q \in s.seen : q < ms[i]) /\ \A q \in ToSet(s.up) : q < ms[i]
      BY DEF Follows
    <3>1. ms[i] <= lastAppended /\ ms[i] \in Records /\ ms[i] \in ToSet(ms)
      BY <2>3, <2>4 DEF ms
    <3>2. ASSUME NEW r \in Records, r < ms[i]
          PROVE  \/ r <= s.floor \/ r \in s.seen \/ r \in stranded
                 \/ r \in ToSet(s.up) \/ r \in ToSet(ms)
      <4>1. r \in 1..lastAppended
        BY <1>2, <3>1, <3>2, EvidenceAssumption DEF Records
      <4> QED   BY <2>2, <4>1 DEF LiveIs, ms
    <3>3. \/ ms[i] <= s.floor \/ ms[i] \in s.seen \/ ms[i] \in ToSet(s.up)
          \/ (\A q \in s.seen : q < ms[i]) /\ \A q \in ToSet(s.up) : q < ms[i]
      BY <2>2, <3>1 DEF LiveIs, ms
    <3> QED   BY <3>1, <3>2, <3>3
  <2>6. HELLO \notin ToSet(s.up) /\ s.pc # "waiting"
    BY <2>2 DEF LiveIs
  <2>7. /\ t.up = s.up \o ms /\ t.down = s.down /\ t.pc = s.pc /\ t.msg = s.msg
        /\ SameEnds(s, t) /\ SameTake(s, t) /\ SameIndex(s, t)
    BY <1>3 DEF StreamFields, SameEnds, SameTake, SameIndex
  <2> HIDE DEF ms, t, n
  <2>8. t \in StreamFields /\ Conn' = t
    <3>1. n = Stream
      BY DEF n
    <3> QED   BY <1>2, <2>1, <3>1, OneStream
  <2>9. /\ StreamInv(t, asrun, jsonl, stranded, lastAppended)
        /\ ToSet(t.up) = ToSet(s.up) \cup ToSet(ms) /\ HELLO \notin ToSet(t.up)
    <3>1. ms \in Seq(Records) /\ Ascending(ms) /\ lastAppended \in Nat /\ s \in StreamFields
          /\ StreamInv(s, asrun, jsonl, stranded, lastAppended)
      BY <1>2, <1>3, <2>3 DEF ms
    <3> QED   BY <2>5, <2>6, <2>7, <2>8, <3>1, SendsFlow
  <2>10. StreamsFlow'
    <3>1. StreamInv(t, asrun', jsonl', stranded', lastAppended')
      BY <1>1, <2>9
    <3> QED   BY <1>2, <1>4, <2>1, <3>1, OneFlow DEF FlowInv
  <2>11. LiveIs(t, <<>>, stranded, lastAppended)
    <3>1. \A r \in 1..lastAppended : \/ r <= t.floor \/ r \in t.seen \/ r \in stranded \/ r \in ToSet(t.up)
      BY <2>2, <2>7, <2>9 DEF LiveIs, SameTake, ms
    <3> QED   BY <2>6, <2>7, <2>9, <3>1, EmptyMessages DEF LiveIs
  <2>12. ClientFlow'
    BY <1>1, <1>3, <2>1, <2>7, <2>8, <2>11 DEF ClientFlow, SameEnds
  <2> QED   BY <1>5, <1>6, <2>10, <2>12 DEF FlowInv
<1>9. s.live \/ ~s.live
  BY <1>3 DEF StreamFields
<1> QED
  BY <1>7, <1>8, <1>9

\* The spool file holds the first records, each at its place.
LEMMA FileIs ==
  ASSUME SpoolParts, Appended
  PROVE  /\ spoolFile \in Seq(Records) /\ Len(spoolFile) \in Nat /\ Len(spoolFile) <= lastAppended
         /\ \A i \in 1..Len(spoolFile) : spoolFile[i] = i
<1> DEFINE f == spoolFile
           w == writeQueue
           ids == [i \in 1..lastAppended |-> i]
           all == f \o w
<1>1. /\ f \in Seq(Records) /\ w \in Seq(Records) /\ lastAppended \in Nat
      /\ Len(f) \in Nat /\ Len(w) \in Nat /\ all = ids
  BY DEF SpoolParts, Appended
<1> HIDE DEF f, w
<1>2. /\ all \in Seq(Records) /\ Len(all) = Len(f) + Len(w)
      /\ \A i \in 1..(Len(f) + Len(w)) : all[i] = IF i <= Len(f) THEN f[i] ELSE w[i - Len(f)]
  BY <1>1, ConcatProperties
<1>3. DOMAIN ids = 1..lastAppended /\ \A i \in 1..lastAppended : ids[i] = i
  OBVIOUS
<1> HIDE DEF all, ids
<1>4. DOMAIN all = 1..Len(all) /\ Len(all) \in Nat
  BY <1>2
<1>5. 1..Len(all) = 1..lastAppended
  BY <1>1, <1>3, <1>4
<1>6. Len(all) = lastAppended
  <2>1. ASSUME NEW a \in Nat, NEW b \in Nat, 1..a = 1..b  PROVE a = b
    BY <2>1
  <2>2. Len(all) \in Nat /\ lastAppended \in Nat
    BY <1>1, <1>4
  <2> QED   BY <1>5, <2>1, <2>2
<1>7. \A i \in 1..Len(f) : f[i] = i
  BY <1>1, <1>2, <1>3, <1>6
<1> QED
  BY <1>1, <1>2, <1>6, <1>7 DEF f

\* A client that has been acknowledged nothing replays all of the file.
LEMMA ReplaysAll ==
  ASSUME SpoolParts, lastAcked = 0
  PROVE  Replay = spoolFile
<1> DEFINE f == spoolFile
           below == {i \in DOMAIN f : f[i] <= 0}
<1>1. f \in Seq(Records) /\ DOMAIN f = 1..Len(f)
  BY DEF SpoolParts
<1> HIDE DEF f
<1>2. \A i \in DOMAIN f : ~(f[i] <= 0)
  BY <1>1, EvidenceAssumption DEF Records
<1>3. below = {}
  BY <1>2
<1>4. Cardinality(below) = 0
  BY <1>3, FS_EmptySet
<1> HIDE DEF below
<1>5. Cardinality(below) + 1 = 1
  BY <1>4
<1>6. SubSeq(f, 1, Len(f)) = f
  BY <1>1, SubSeqFull
<1>7. Replay = SubSeq(f, Cardinality(below) + 1, Len(f))
  BY DEF Replay, Above, below, f
<1> QED
  BY <1>5, <1>6, <1>7 DEF f

\* The client has its first ack and replays the file: what is neither in the file nor
\* in its queue is stranded.
LEMMA ReplaysFlow ==
  ASSUME IInv, FlowTypes, FlowTypes', FlowInv, ClientReplays
  PROVE  FlowInv'
<1> DEFINE n == Stream
           s == streams[n]
           t == [s EXCEPT !.up = @ \o spoolFile]
           str == stranded \cup Missed
<1>1. /\ UNCHANGED <<lastAcked, sendQueue, lastAppended, asrun, jsonl, coreAck>>
      /\ client = "hello" /\ Conn.greeted /\ Writes(Replay) /\ stranded' = str
  BY DEF ClientReplays, spoolVars, ackVars, coreVars
<1>2. n \in 1..Stream /\ Conn = s /\ lastAppended \in Nat /\ sendQueue \in Seq(Records)
  BY <1>1 DEF FlowTypes, Conn
<1>3. /\ s \in StreamFields /\ StreamInv(s, asrun, jsonl, stranded, lastAppended) /\ ~s.eof
      /\ HelloIs(s, lastAcked) /\ s.greeted
  BY <1>1, <1>2 DEF FlowTypes, FlowInv, StreamsFlow, ClientFlow
<1>4. LogGrows
  BY <1>1, <1>2 DEF LogGrows
<1>5. AcksFine'
  BY <1>1, <1>4, StillFine DEF FlowInv
<1>6. QueueFlow'
  BY <1>1 DEF FlowInv, QueueFlow, Ascending
<1>7. /\ lastAcked = 0 /\ Replay = spoolFile /\ spoolFile \in Seq(Records)
      /\ Len(spoolFile) \in Nat /\ Len(spoolFile) <= lastAppended
      /\ \A i \in 1..Len(spoolFile) : spoolFile[i] = i
  <2>1. lastAcked = 0 /\ SpoolParts /\ Appended
    BY <1>3, TypeParts DEF HelloIs, IInv
  <2> QED   BY <2>1, ReplaysAll, FileIs
<1>8. CASE ~s.live
  <2>1. streams' = streams /\ client' \in {"live", "closing"}
    BY <1>1, <1>2, <1>8 DEF Writes
  <2>2. Conn' = s
    BY <1>2, <2>1 DEF Conn, Stream
  <2>3. StreamsFlow'
    BY <1>4, <2>1, AllFlow DEF FlowInv
  <2>4. ClientFlow'
    <3> HIDE DEF s
    <3> QED   BY <1>3, <1>8, <2>1, <2>2 DEF ClientFlow
  <2> QED   BY <1>5, <1>6, <2>3, <2>4 DEF FlowInv
<1>9. CASE s.live
  <2> DEFINE ms == spoolFile
  <2>1. streams' = [streams EXCEPT ![n] = t] /\ client' = "live"
    BY <1>1, <1>2, <1>7, <1>9 DEF Writes
  <2> HIDE DEF s
  <2>2. /\ t.up = s.up \o ms /\ t.down = s.down /\ t.pc = s.pc /\ t.msg = s.msg
        /\ SameEnds(s, t) /\ SameTake(s, t) /\ SameIndex(s, t)
    BY <1>3 DEF StreamFields, SameEnds, SameTake, SameIndex
  <2>3. HELLO \notin ToSet(s.up) /\ s.pc # "waiting" /\ s.seen = {}
    BY <1>3 DEF StreamInv, Hello, HelloIs
  <2>4. ToSet(s.up) = {}
    BY <1>3, <2>3 DEF HelloIs
  <2>5. \A r : r \in ToSet(ms) <=> r \in 1..Len(ms)
    <3>1. ms \in Messages
      BY <1>7 DEF Messages, Numbers
    <3> HIDE DEF ms
    <3> QED   BY <1>7, <3>1, MessageFacts DEF ms
  <2> HIDE DEF ms, t, n, str
  <2>6. Ascending(ms)
    BY <1>7 DEF Ascending, ms
  <2>7. Follows(ms, s.up, s.seen, s.floor, str, lastAppended)
    <3> SUFFICES ASSUME NEW i \in 1..Len(ms)
                 PROVE  /\ ms[i] <= lastAppended
                        /\ \A r \in Records : r < ms[i] =>
                             \/ r <= s.floor \/ r \in s.seen \/ r \in str
                             \/ r \in ToSet(s.up) \/ r \in ToSet(ms)
                        /\ \/ ms[i] <= s.floor \/ ms[i] \in s.seen \/ ms[i] \in ToSet(s.up)
                           \/ (\A q \in s.seen : q < ms[i]) /\ \A q \in ToSet(s.up) : q < ms[i]
      BY DEF Follows
    <3>1. ms[i] = i /\ Len(ms) \in Nat /\ Len(ms) <= lastAppended
      BY <1>7 DEF ms
    <3>2. ASSUME NEW r \in Records, r < ms[i]  PROVE r \in ToSet(ms)
      <4>1. r \in 1..Len(ms)
        BY <3>1, <3>2, EvidenceAssumption DEF Records
      <4> QED   BY <2>5, <4>1
    <3> QED   BY <1>2, <2>3, <2>4, <3>1, <3>2
  <2>8. t \in StreamFields /\ Conn' = t
    <3>1. n = Stream
      BY DEF n
    <3> QED   BY <1>2, <2>1, <3>1, OneStream
  <2>9. StreamInv(s, asrun, jsonl, str, lastAppended)
    <3>1. stranded \subseteq str /\ lastAppended <= lastAppended
      BY <1>2 DEF str
    <3> QED   BY <1>2, <1>3, <3>1, StreamGrows
  <2>10. /\ StreamInv(t, asrun, jsonl, str, lastAppended)
         /\ ToSet(t.up) = ToSet(s.up) \cup ToSet(ms) /\ HELLO \notin ToSet(t.up)
    <3>1. ms \in Seq(Records) /\ lastAppended \in Nat /\ s \in StreamFields
      BY <1>2, <1>3, <1>7 DEF ms
    <3> QED   BY <2>2, <2>3, <2>6, <2>7, <2>8, <2>9, <3>1, SendsFlow
  <2>11. StreamsFlow'
    <3>1. StreamInv(t, asrun', jsonl', stranded', lastAppended')
      BY <1>1, <2>10
    <3> QED   BY <1>2, <1>4, <2>1, <3>1, OneFlow DEF FlowInv
  <2>12. LiveIs(t, sendQueue, str, lastAppended)
    <3>1. t.seen = {} /\ t.pc # "waiting" /\ ToSet(t.up) = ToSet(ms)
      BY <2>2, <2>3, <2>4, <2>10 DEF SameTake
    <3>2. \A r \in 1..lastAppended : r \in str \/ r \in ToSet(t.up) \/ r \in ToSet(sendQueue)
      BY <3>1 DEF str, Missed, ms
    <3>3. \A r \in ToSet(sendQueue) : r \in ToSet(t.up) \/ \A o \in ToSet(t.up) : o < r
      <4> SUFFICES ASSUME NEW r \in ToSet(sendQueue), r \notin ToSet(ms), NEW o \in ToSet(ms)
                   PROVE  o < r
        BY <3>1
      <4>1. r \in Records
        <5>1. DOMAIN sendQueue = 1..Len(sendQueue) /\ \A i \in 1..Len(sendQueue) : sendQueue[i] \in Records
          BY <1>2
        <5> QED   BY <5>1 DEF ToSet
      <4>2. r \notin 1..Len(ms) /\ o \in 1..Len(ms) /\ Len(ms) \in Nat
        BY <1>7, <2>5 DEF ms
      <4> QED   BY <4>1, <4>2, EvidenceAssumption DEF Records
    <3> QED   BY <2>10, <3>1, <3>2, <3>3 DEF LiveIs
  <2>13. ClientFlow'
    BY <1>1, <1>3, <2>1, <2>2, <2>8, <2>12 DEF ClientFlow, SameEnds
  <2> QED   BY <1>5, <1>6, <2>11, <2>13 DEF FlowInv
<1>10. s.live \/ ~s.live
  BY <1>3 DEF StreamFields
<1> QED
  BY <1>8, <1>9, <1>10

LEMMA InitFlow == Init => FlowInv
<1> SUFFICES ASSUME Init  PROVE FlowInv
  OBVIOUS
<1>1. streams = <<>> /\ Stream = 0 /\ sendQueue = <<>> /\ client = "idle" /\ coreAck = 0
  BY DEF Init, Stream
<1> QED
  BY <1>1 DEF FlowInv, StreamsFlow, ClientFlow, QueueFlow, AcksFine, Ascending

LEMMA StepFlow == IInv /\ IInv' /\ FlowInv /\ [Next]_vars => FlowInv'
<1> SUFFICES ASSUME IInv, IInv', FlowInv, [Next]_vars  PROVE FlowInv'
  OBVIOUS
<1>1. FlowTypes /\ FlowTypes'
  <2>1. FlowTypes
    BY IInvTypes
  <2>2. FlowTypes'
    BY IInvTypes, PTL
  <2> QED   BY <2>1, <2>2
<1>2. ASSUME NEW n \in 1..Stream, Handler(n) \/ HandlerFails(n)  PROVE FlowInv'
  BY <1>1, <1>2, HandlerFlow
<1>3. CASE NetworkBreaks
  <2>1. /\ Stream > 0 /\ \E t \in Broken(Conn) : streams' = [streams EXCEPT ![Stream] = t]
        /\ UNCHANGED <<client, lastAcked, sendQueue, stranded, lastAppended, asrun, jsonl, coreAck>>
    BY <1>3 DEF NetworkBreaks, spoolVars, ackVars, clientVars, coreVars
  <2> QED   BY <1>1, <2>1, BreaksFlow
<1>4. CASE CoreDies
  BY <1>1, <1>4, CoreDiesFlow
<1>5. CASE AirDies \/ EmitThrows
  BY <1>1, <1>5, AirGoneFlow DEF AirDies, EmitThrows
<1>6. CASE ClientConnects
  BY <1>1, <1>6, ConnectsFlow
<1>7. CASE ClientReplays
  BY <1>1, <1>7, ReplaysFlow
<1>8. CASE ClientSends
  BY <1>1, <1>8, SendsStepFlow
<1>9. CASE HelloLost \/ HelloTimesOut \/ ClientCloses
  <2>1. /\ WritesDone /\ client' = "closing" /\ Stream > 0
        /\ UNCHANGED <<lastAcked, sendQueue, stranded, lastAppended, asrun, jsonl, coreAck>>
    BY <1>1, <1>9 DEF HelloLost, HelloTimesOut, NoAnswer, ClientCloses, spoolVars, ackVars,
                      coreVars, FlowTypes
  <2> QED   BY <1>1, <2>1, WritesDoneFlow
<1>10. CASE AckReads
  BY <1>1, <1>10, AckReadsFlow
<1>11. CASE EmitAppends
  BY <1>1, <1>11, EmitsFlow
<1>12. CASE EmitRefused \/ Stop \/ WriterFlushes \/ Ends \/ UNCHANGED vars
  <2>1. UNCHANGED <<streams, client, lastAcked, sendQueue, stranded, lastAppended, asrun, jsonl,
                    coreAck>>
    BY <1>12 DEF EmitRefused, Stop, WriterFlushes, Ends, vars, spoolVars, ackVars, clientVars,
                 coreVars
  <2> QED   BY <1>1, <2>1, SameFlow
<1>13. CASE ClientJoins
  <2>1. /\ UNCHANGED <<streams, lastAcked, sendQueue, stranded, lastAppended, asrun, jsonl, coreAck>>
        /\ client' = "idle"
    BY <1>13 DEF ClientJoins, spoolVars, ackVars, coreVars
  <2>2. LogGrows
    BY <1>1, <2>1 DEF LogGrows, FlowTypes
  <2>3. StreamsFlow' /\ AcksFine'
    BY <1>1, <2>1, <2>2, AllFlow, StillFine DEF FlowInv
  <2>4. ClientFlow' /\ QueueFlow'
    BY <2>1 DEF FlowInv, ClientFlow, QueueFlow, Ascending
  <2> QED   BY <2>3, <2>4 DEF FlowInv
<1> QED
  BY <1>2, <1>3, <1>4, <1>5, <1>6, <1>7, <1>8, <1>9, <1>10, <1>11, <1>12, <1>13
     DEF Next, Emit, Client

LEMMA FlowInvariance == Spec => [](IInv /\ FlowInv)
<1>1. Init => IInv /\ FlowInv
  BY InitIInv, InitFlow
<1>2. (IInv /\ FlowInv) /\ [Next]_vars => (IInv /\ FlowInv)'
  BY StepIInv, StepFlow
<1> QED
  BY <1>1, <1>2, PTL DEF Spec

\* Whatever Core has acknowledged, after any number of broken streams, failed writes,
\* restarts and replays, is in both as-run files, but for the records a replay of the
\* spool file missed and the ends of segments whose starts were missed.
THEOREM AcksMeanLogged == Spec => []AckedIsLogged
<1>1. IInv /\ FlowInv => AckedIsLogged
  BY DEF FlowInv, AcksFine, AckedIsLogged, Fine, InLog, Logged
<1> QED
  BY <1>1, FlowInvariance, PTL

(***************************************************************************)
(* What is logged has happened so, in this order.                          *)
(***************************************************************************)

\* The handler is past HELLO, and there is something left for it to do.
Served(s) ==
  /\ s.pc \in Handling /\ HELLO \notin ToSet(s.up)
  /\ s.up # <<>> \/ s.live \/ s.pc # "reading"

\* What a handler has yet to acknowledge.
Pending(s) == (ToSet(s.up) \cup {s.msg}) \ {HELLO}

\* A line that is written is stored as acknowledged, may be written again, or is still
\* with its handler; all before it is stored or stranded.
LineOK(l, ss, ack, doubt, str) ==
  /\ \/ l.rec <= ack \/ l.rec \in doubt
     \/ \E h \in 1..Len(ss) : ss[h].pc \in Writing /\ ss[h].msg = l.rec
  /\ \A r \in Records : r < l.rec => r <= ack \/ r \in str
  /\ l.via \in 1..Len(ss) /\ (ss[l.via].pc # "done" => l.rec \in ss[l.via].seen)

\* What handler n may be sent, if it is the client's, or has been sent already is known
\* to it, or may be written again, when it is not newer than line l.
ServedOK(n, l, ss, doubt, str) ==
  Served(ss[n]) => \A r \in Records :
    r <= l.rec /\ (n = Len(ss) \/ r \in ToSet(ss[n].up))
    => r <= ss[n].floor \/ r \in ss[n].seen \/ r \in doubt \/ (r < l.rec /\ r \in str)

\* What the handler of an older stream has yet to acknowledge may be written again.
PairOK(n, h, ss, doubt, str) ==
  Served(ss[n]) /\ ss[h].pc \in Handling => \A e \in Pending(ss[h]) :
    e \in doubt /\ \A r \in Records : r < e => r <= ss[n].floor \/ r \in str \/ r \in doubt

LinesOK  == \A i \in 1..Len(asrun) : LineOK(asrun[i], streams, coreAck, doubtful, stranded)
AgainOK  == \A n \in 1..Stream, i \in 1..Len(asrun) : ServedOK(n, asrun[i], streams, doubtful, stranded)
PairsOK  == \A n \in 1..Stream : \A h \in 1..(n - 1) : PairOK(n, h, streams, doubtful, stranded)
LogInv   == LinesOK /\ AgainOK /\ PairsOK /\ LogGrowsInOrder /\ EndEchoesStart

\* What a step leaves of a stream, s, so that this goes on to hold.
CalmServed(n, s, t, latest) ==
  Served(t) => /\ Served(s) /\ t.floor = s.floor /\ s.seen \subseteq t.seen
               /\ n = latest \/ ToSet(t.up) \subseteq ToSet(s.up)

CalmRest(n, s, t, latest, doubt, ack) ==
  /\ n # latest /\ t.pc \in Handling => \A e \in Pending(t) : e \in Pending(s) /\ s.pc \in Handling
  /\ t.pc # "done" => s.pc # "done" /\ s.seen \subseteq t.seen
  /\ s.pc \in Writing => (t.pc \in Writing /\ t.msg = s.msg) \/ s.msg \in doubt \/ s.msg <= ack

LEMMA CalmLine ==
  ASSUME NEW ss, NEW tt, Len(ss) \in Nat, Len(tt) \in Nat, Len(ss) <= Len(tt),
         NEW ack \in Nat, NEW ack2 \in Nat, ack <= ack2,
         NEW doubt, NEW doubt2, doubt \subseteq doubt2, NEW str, NEW str2, str \subseteq str2,
         \A h \in 1..Len(ss) : CalmRest(h, ss[h], tt[h], Len(ss), doubt2, ack2),
         NEW l, l.rec \in Records, LineOK(l, ss, ack, doubt, str)
  PROVE  LineOK(l, tt, ack2, doubt2, str2)
<1>0. Records \subseteq Nat /\ \A h \in 1..Len(ss) : h \in 1..Len(tt)
  BY EvidenceAssumption DEF Records
<1>1. \/ l.rec <= ack2 \/ l.rec \in doubt2
      \/ \E h \in 1..Len(tt) : tt[h].pc \in Writing /\ tt[h].msg = l.rec
  <2>1. CASE l.rec <= ack
    <3>1. l.rec \in Nat
      BY <1>0
    <3>2. l.rec <= ack2
      BY <2>1, <3>1
    <3> QED   BY <3>2
  <2>2. CASE l.rec \in doubt
    BY <2>2
  <2>3. CASE \E h \in 1..Len(ss) : ss[h].pc \in Writing /\ ss[h].msg = l.rec
    <3>1. PICK h \in 1..Len(ss) : ss[h].pc \in Writing /\ ss[h].msg = l.rec
      BY <2>3
    <3>2. CalmRest(h, ss[h], tt[h], Len(ss), doubt2, ack2) /\ h \in 1..Len(tt)
      BY <1>0
    <3> QED   BY <3>1, <3>2 DEF CalmRest
  <2> QED   BY <2>1, <2>2, <2>3 DEF LineOK
<1>2. \A r \in Records : r < l.rec => r <= ack2 \/ r \in str2
  BY <1>0 DEF LineOK
<1>3. l.via \in 1..Len(tt) /\ (tt[l.via].pc # "done" => l.rec \in tt[l.via].seen)
  <2> DEFINE h == l.via
  <2>1. h \in 1..Len(ss) /\ (ss[h].pc # "done" => l.rec \in ss[h].seen)
    BY DEF LineOK
  <2> HIDE DEF h
  <2>2. CalmRest(h, ss[h], tt[h], Len(ss), doubt2, ack2) /\ h \in 1..Len(tt)
    BY <1>0, <2>1
  <2>3. tt[h].pc # "done" => l.rec \in tt[h].seen
    BY <2>1, <2>2 DEF CalmRest
  <2> QED   BY <2>2, <2>3 DEF h
<1> QED
  BY <1>1, <1>2, <1>3 DEF LineOK

LEMMA CalmServes ==
  ASSUME NEW ss, NEW tt, Len(ss) \in Nat, Len(tt) \in Nat, Len(ss) <= Len(tt),
         NEW doubt, NEW doubt2, doubt \subseteq doubt2, NEW str, NEW str2, str \subseteq str2,
         NEW n \in 1..Len(ss), CalmServed(n, ss[n], tt[n], Len(ss)),
         NEW l, ServedOK(n, l, ss, doubt, str)
  PROVE  ServedOK(n, l, tt, doubt2, str2)
<1> SUFFICES ASSUME Served(tt[n]), NEW r \in Records, r <= l.rec,
                    n = Len(tt) \/ r \in ToSet(tt[n].up)
             PROVE  \/ r <= tt[n].floor \/ r \in tt[n].seen \/ r \in doubt2
                    \/ (r < l.rec /\ r \in str2)
  BY DEF ServedOK
<1>1. /\ Served(ss[n]) /\ tt[n].floor = ss[n].floor /\ ss[n].seen \subseteq tt[n].seen
      /\ n = Len(ss) \/ ToSet(tt[n].up) \subseteq ToSet(ss[n].up)
  BY DEF CalmServed
<1>2. n = Len(tt) => n = Len(ss)
  OBVIOUS
<1>3. n = Len(ss) \/ r \in ToSet(ss[n].up)
  BY <1>1, <1>2
<1>4. r <= ss[n].floor \/ r \in ss[n].seen \/ r \in doubt \/ (r < l.rec /\ r \in str)
  BY <1>1, <1>3 DEF ServedOK
<1> QED
  BY <1>1, <1>4

LEMMA CalmPair ==
  ASSUME NEW ss, NEW tt, NEW doubt, NEW doubt2, doubt \subseteq doubt2,
         NEW str, NEW str2, str \subseteq str2, NEW ack,
         NEW n \in Nat, NEW h \in 1..(n - 1), NEW latest \in Nat, n <= latest,
         CalmServed(n, ss[n], tt[n], latest),
         CalmRest(h, ss[h], tt[h], latest, doubt2, ack),
         PairOK(n, h, ss, doubt, str)
  PROVE  PairOK(n, h, tt, doubt2, str2)
<1> SUFFICES ASSUME Served(tt[n]), tt[h].pc \in Handling, NEW e \in Pending(tt[h])
             PROVE  e \in doubt2 /\ \A r \in Records : r < e =>
                                      r <= tt[n].floor \/ r \in str2 \/ r \in doubt2
  BY DEF PairOK
<1>1. Served(ss[n]) /\ tt[n].floor = ss[n].floor
  BY DEF CalmServed
<1>2. h # latest
  OBVIOUS
<1>3. e \in Pending(ss[h]) /\ ss[h].pc \in Handling
  BY <1>2 DEF CalmRest
<1>4. e \in doubt /\ \A r \in Records : r < e => r <= ss[n].floor \/ r \in str \/ r \in doubt
  BY <1>1, <1>3 DEF PairOK
<1> QED
  BY <1>1, <1>4

\* No line is added, and every stream stays calm.
LogKept ==
  /\ asrun' = asrun /\ coreAck <= coreAck' /\ coreAck' \in Nat
  /\ doubtful \subseteq doubtful' /\ stranded \subseteq stranded'

LEMMA LineTypes ==
  ASSUME FlowTypes
  PROVE  Len(asrun) \in Nat /\ \A i \in 1..Len(asrun) : asrun[i].rec \in Records
<1> DEFINE Line == [rec : Records, index : {NoIndex} \cup Nat, via : Nat]
<1>1. asrun \in Seq(Line)
  BY DEF FlowTypes
<1>2. \A l \in Line : l.rec \in Records
  OBVIOUS
<1> HIDE DEF Line
<1> QED
  BY <1>1, <1>2

LEMMA FilesKept ==
  ASSUME LogKept, LogGrowsInOrder, EndEchoesStart
  PROVE  LogGrowsInOrder' /\ EndEchoesStart'
<1>1. LogGrowsInOrder'
  BY DEF LogKept, LogGrowsInOrder
<1>2. EndEchoesStart'
  BY DEF LogKept, EndEchoesStart
<1> QED
  BY <1>1, <1>2

LEMMA LinesKept ==
  ASSUME FlowTypes, FlowTypes', LogKept, LinesOK, Stream <= Stream',
         \A h \in 1..Stream : CalmRest(h, streams[h], streams'[h], Stream, doubtful', coreAck')
  PROVE  LinesOK'
<1>1. Len(streams) \in Nat /\ Len(streams') \in Nat /\ Len(streams) <= Len(streams')
      /\ coreAck \in Nat /\ coreAck' \in Nat
  BY DEF FlowTypes, Stream
<1>2. \A h \in 1..Len(streams) :
        CalmRest(h, streams[h], streams'[h], Len(streams), doubtful', coreAck')
  BY DEF Stream
<1> SUFFICES ASSUME NEW i \in 1..Len(asrun)
             PROVE  LineOK(asrun[i], streams', coreAck', doubtful', stranded')
  BY DEF LinesOK, LogKept
<1> DEFINE l == asrun[i]
<1>3. l.rec \in Records /\ LineOK(l, streams, coreAck, doubtful, stranded)
  BY LineTypes DEF LinesOK
<1> HIDE DEF l
<1>4. LineOK(l, streams', coreAck', doubtful', stranded')
  BY <1>1, <1>2, <1>3, CalmLine DEF LogKept
<1> QED
  BY <1>4 DEF l

\* What was known of a handler that goes on is still known.
LEMMA ServesKept ==
  ASSUME FlowTypes, FlowTypes', LogKept, AgainOK, Stream <= Stream',
         NEW n \in 1..Stream, CalmServed(n, streams[n], streams'[n], Stream)
  PROVE  \A i \in 1..Len(asrun) : ServedOK(n, asrun[i], streams', doubtful', stranded')
<1>1. Len(streams) \in Nat /\ Len(streams') \in Nat /\ Len(streams) <= Len(streams')
      /\ n \in 1..Len(streams) /\ CalmServed(n, streams[n], streams'[n], Len(streams))
  BY DEF FlowTypes, Stream
<1> SUFFICES ASSUME NEW i \in 1..Len(asrun)
             PROVE  ServedOK(n, asrun[i], streams', doubtful', stranded')
  OBVIOUS
<1> DEFINE l == asrun[i]
<1>2. ServedOK(n, l, streams, doubtful, stranded)
  BY DEF AgainOK
<1> HIDE DEF l
<1>3. ServedOK(n, l, streams', doubtful', stranded')
  BY <1>1, <1>2, CalmServes DEF LogKept
<1> QED
  BY <1>3 DEF l

LEMMA PairsKept ==
  ASSUME FlowTypes, doubtful \subseteq doubtful', stranded \subseteq stranded', PairsOK,
         \A h \in 1..Stream : CalmRest(h, streams[h], streams'[h], Stream, doubtful', coreAck'),
         NEW n \in 1..Stream, CalmServed(n, streams[n], streams'[n], Stream)
  PROVE  \A h \in 1..(n - 1) : PairOK(n, h, streams', doubtful', stranded')
<1> SUFFICES ASSUME NEW h \in 1..(n - 1)  PROVE PairOK(n, h, streams', doubtful', stranded')
  OBVIOUS
<1> DEFINE latest == Stream
<1>1. n \in Nat /\ latest \in Nat /\ n <= latest /\ h \in 1..latest
  BY DEF FlowTypes
<1>2. PairOK(n, h, streams, doubtful, stranded)
  BY DEF PairsOK
<1>3. /\ CalmServed(n, streams[n], streams'[n], latest)
      /\ CalmRest(h, streams[h], streams'[h], latest, doubtful', coreAck')
  BY <1>1
<1> HIDE DEF latest
<1> QED
  BY <1>1, <1>2, <1>3, CalmPair

AllCalm == \A h \in 1..Stream : /\ CalmServed(h, streams[h], streams'[h], Stream)
                                /\ CalmRest(h, streams[h], streams'[h], Stream, doubtful', coreAck')

LEMMA CalmStep ==
  ASSUME FlowTypes, FlowTypes', LogInv, LogKept, Stream' = Stream, AllCalm
  PROVE  LogInv'
<1>1. Stream <= Stream'
  BY DEF FlowTypes
<1>2. LinesOK'
  BY <1>1, LinesKept DEF LogInv, AllCalm
<1>3. AgainOK'
  <2>1. \A n \in 1..Stream : \A i \in 1..Len(asrun) : ServedOK(n, asrun[i], streams', doubtful', stranded')
    BY <1>1, ServesKept DEF LogInv, AllCalm
  <2> QED   BY <2>1 DEF AgainOK, LogKept
<1>4. PairsOK'
  <2>1. \A n \in 1..Stream : \A h \in 1..(n - 1) : PairOK(n, h, streams', doubtful', stranded')
    BY PairsKept DEF LogInv, LogKept, AllCalm
  <2> QED   BY <2>1 DEF PairsOK
<1>5. LogGrowsInOrder' /\ EndEchoesStart'
  BY FilesKept DEF LogInv
<1> QED
  BY <1>2, <1>3, <1>4, <1>5 DEF LogInv

LEMMA SameCalm ==
  ASSUME NEW n, NEW s, NEW latest, NEW doubt, NEW ack
  PROVE  CalmServed(n, s, s, latest) /\ CalmRest(n, s, s, latest, doubt, ack)
BY DEF CalmServed, CalmRest

\* One stream changes.
LEMMA OneCalm ==
  ASSUME FlowTypes, FlowTypes', NEW n \in 1..Stream, NEW t, streams' = [streams EXCEPT ![n] = t],
         CalmRest(n, streams[n], t, Stream, doubtful', coreAck')
  PROVE  /\ \A h \in 1..Stream : CalmRest(h, streams[h], streams'[h], Stream, doubtful', coreAck')
         /\ \A h \in 1..Stream : h # n => CalmServed(h, streams[h], streams'[h], Stream)
         /\ CalmServed(n, streams[n], t, Stream) => AllCalm
<1>1. streams'[n] = t /\ \A h \in 1..Stream : h # n => streams'[h] = streams[h]
  BY OneStream
<1>2. \A h \in 1..Stream : CalmRest(h, streams[h], streams'[h], Stream, doubtful', coreAck')
  <2> SUFFICES ASSUME NEW h \in 1..Stream
               PROVE  CalmRest(h, streams[h], streams'[h], Stream, doubtful', coreAck')
    OBVIOUS
  <2>1. CASE h = n
    BY <1>1, <2>1
  <2>2. CASE h # n
    BY <1>1, <2>2, SameCalm
  <2> QED   BY <2>1, <2>2
<1>3. \A h \in 1..Stream : h # n => CalmServed(h, streams[h], streams'[h], Stream)
  BY <1>1, SameCalm
<1>4. CalmServed(n, streams[n], t, Stream) => AllCalm
  BY <1>1, <1>2, <1>3 DEF AllCalm
<1> QED
  BY <1>2, <1>3, <1>4

-----------------------------------------------------------------------------
(* The steps that leave every stream calm.                                 *)

LEMMA NoMessages ==
  ASSUME NEW u \in Messages, ToSet(u) = {}
  PROVE  u = <<>>
<1> SUFFICES ASSUME u # <<>>  PROVE FALSE
  OBVIOUS
<1> QED
  BY RestOfMessages

LEMMA StartsCalm ==
  ASSUME NEW n, NEW latest, NEW doubt, NEW ack, NEW s \in StreamFields, NEW t,
         Hello(s), s.pc = "waiting", s.msg = 0, t.up = s.up, t.live = s.live,
         t.pc = "reading", t.msg = s.msg, SameTake(s, t)
  PROVE  CalmServed(n, s, t, latest) /\ CalmRest(n, s, t, latest, doubt, ack)
<1>1. s.up \in Messages /\ ToSet(s.up) \subseteq {HELLO} /\ (s.live => s.up # <<>>)
  BY FieldTypes DEF Hello
<1>2. ~Served(t)
  <2> SUFFICES ASSUME Served(t)  PROVE FALSE
    OBVIOUS
  <2>1. HELLO \notin ToSet(s.up) /\ (s.up # <<>> \/ s.live)
    BY DEF Served
  <2>2. ToSet(s.up) = {}
    BY <1>1, <2>1
  <2> DEFINE u == s.up
  <2>3. u \in Messages /\ ToSet(u) = {}
    BY <1>1, <2>2
  <2> HIDE DEF u
  <2>4. u = <<>>
    BY <2>3, NoMessages
  <2> QED   BY <1>1, <2>1, <2>4 DEF u
<1>3. Pending(t) = {}
  BY <1>1 DEF Pending, HELLO
<1>4. CalmRest(n, s, t, latest, doubt, ack)
  BY <1>3 DEF CalmRest, SameTake, Writing
<1> QED
  BY <1>2, <1>4 DEF CalmServed

\* HELLO is taken: there is nothing else.
LEMMA GreetsCalm ==
  ASSUME NEW n, NEW latest, NEW doubt, NEW ack, NEW s \in StreamFields, NEW t,
         Hello(s), s.pc = "reading", s.up # <<>>, Head(s.up) = HELLO,
         t.up = Tail(s.up), t.pc = "reading", t.msg = 0, t.seen = s.seen
  PROVE  /\ CalmRest(n, s, t, latest, doubt, ack)
         /\ t.up = <<>> /\ t.seen = {} /\ Pending(t) = {}
<1> DEFINE u == s.up
<1>1. u \in Messages /\ u # <<>> /\ Head(u) = HELLO
  BY FieldTypes
<1> HIDE DEF u
<1>2. HELLO \in ToSet(u) /\ (Len(u) = 1 => Tail(u) = <<>>)
  BY <1>1, TakenMessages
<1>3. t.up = <<>> /\ t.seen = {}
  BY <1>2 DEF Hello, u
<1>4. Pending(t) = {}
  BY <1>3, EmptyMessages DEF Pending, HELLO
<1>5. CalmRest(n, s, t, latest, doubt, ack)
  BY <1>4 DEF CalmRest, Writing
<1> QED
  BY <1>3, <1>4, <1>5

\* A handler that has read is past HELLO.
LEMMA ReadsServed ==
  ASSUME NEW s \in StreamFields, Hello(s), s.pc = "reading", s.up # <<>>, Head(s.up) # HELLO
  PROVE  Served(s) /\ Head(s.up) \in Pending(s) /\ Head(s.up) \in ToSet(s.up) /\ Head(s.up) \in Records
<1> DEFINE u == s.up
<1>1. HELLO \notin ToSet(u) /\ Head(u) \in Records /\ u \in Messages /\ u # <<>>
  BY NoHelloBehind, FieldTypes
<1> HIDE DEF u
<1>2. Head(u) \in ToSet(u)
  BY <1>1, TakenMessages
<1> QED
  BY <1>1, <1>2 DEF Served, Pending, Handling, u

LEMMA ReadsCalm ==
  ASSUME NEW n, NEW latest, NEW doubt, NEW ack, NEW s \in StreamFields, NEW t,
         Hello(s), s.pc = "reading", s.up # <<>>, Head(s.up) # HELLO, Reads(s, t)
  PROVE  CalmServed(n, s, t, latest) /\ CalmRest(n, s, t, latest, doubt, ack)
<1> DEFINE u == s.up
           r == Head(u)
<1>1. u \in Messages /\ u # <<>> /\ Served(s)
  BY ReadsServed, FieldTypes
<1>2. /\ t.up = Tail(u) /\ t.floor = s.floor /\ s.seen \subseteq t.seen /\ t.msg \in {0, r}
      /\ t.pc \in {"reading", "half", "store"}
  BY DEF Reads, Writing
<1> HIDE DEF u
<1>3. ToSet(u) = {r} \cup ToSet(Tail(u))
  BY <1>1, TakenMessages
<1> HIDE DEF r
<1>4. CalmServed(n, s, t, latest)
  BY <1>1, <1>2, <1>3 DEF CalmServed, u
<1>5. \A e \in Pending(t) : e \in Pending(s)
  BY <1>2, <1>3 DEF Pending, HELLO, u
<1>6. CalmRest(n, s, t, latest, doubt, ack)
  BY <1>2, <1>5 DEF CalmRest, Handling, Writing
<1> QED
  BY <1>4, <1>6

LEMMA JsonlCalm ==
  ASSUME NEW n, NEW latest, NEW doubt, NEW ack, NEW s, NEW t, s.pc = "half", t.up = s.up,
         t.pc = "store", t.msg = s.msg, SameTake(s, t)
  PROVE  CalmServed(n, s, t, latest) /\ CalmRest(n, s, t, latest, doubt, ack)
BY DEF CalmServed, CalmRest, Served, Pending, SameTake, Handling, Writing

LEMMA StoresCalm ==
  ASSUME NEW n, NEW latest, NEW doubt, NEW ack, NEW s, NEW t, s.pc = "store", t.up = s.up,
         t.pc = "reading", t.msg = 0, SameTake(s, t), s.msg <= ack
  PROVE  CalmServed(n, s, t, latest) /\ CalmRest(n, s, t, latest, doubt, ack)
<1>1. Served(t) => Served(s)
  BY DEF Served, Handling
<1>2. \A e \in Pending(t) : e \in Pending(s)
  BY DEF Pending, HELLO
<1>3. CalmServed(n, s, t, latest)
  BY <1>1 DEF CalmServed, SameTake
<1>4. CalmRest(n, s, t, latest, doubt, ack)
  BY <1>2 DEF CalmRest, SameTake, Handling
<1> QED
  BY <1>3, <1>4

LEMMA LeavesCalm ==
  ASSUME NEW n, NEW latest, NEW doubt, NEW ack, NEW s, NEW t, t.pc = "done",
         s.pc \in Writing => s.msg \in doubt
  PROVE  CalmServed(n, s, t, latest) /\ CalmRest(n, s, t, latest, doubt, ack)
BY DEF CalmServed, CalmRest, Served, Handling

LEMMA BreaksCalm ==
  ASSUME NEW n, NEW latest, NEW doubt, NEW ack, NEW s \in StreamFields, Hello(s), NEW t \in Broken(s)
  PROVE  CalmServed(n, s, t, latest) /\ CalmRest(n, s, t, latest, doubt, ack)
<1>1. PICK k \in 0..Len(s.up), j \in 0..Len(s.down) : t = Cut(s, k, j)
  BY DEF Broken
<1> DEFINE u == s.up
           v == SubSeq(u, 1, k)
<1>2. t.up = v /\ t.live = FALSE /\ t.pc = s.pc /\ t.msg = s.msg /\ t.floor = s.floor /\ t.seen = s.seen
  <2> HIDE DEF u, v
  <2>1. t.up = SubSeq(s.up, 1, k) /\ t.live = FALSE
    BY <1>1 DEF StreamFields, Cut
  <2>2. t.pc = s.pc /\ t.msg = s.msg /\ t.floor = s.floor /\ t.seen = s.seen
    BY <1>1 DEF StreamFields, Cut
  <2> QED   BY <2>1, <2>2 DEF u, v
<1>3. u \in Messages /\ k \in 0..Len(u)
  BY <1>1, FieldTypes
<1> HIDE DEF u
<1>4. v \in Messages /\ ToSet(v) \subseteq ToSet(u)
  BY <1>3, PartOfMessages
<1>5. u = <<>> => v = <<>>
  <2> HIDE DEF v
  <2> SUFFICES ASSUME u = <<>>  PROVE v = <<>>
    OBVIOUS
  <2>1. ToSet(v) = {}
    BY <1>4, EmptyMessages
  <2> QED   BY <1>4, <2>1, NoMessages
<1>6. HELLO \in ToSet(u) => HELLO \in ToSet(v) \/ v = <<>>
  <2> SUFFICES ASSUME HELLO \in ToSet(u), HELLO \notin ToSet(v)  PROVE v = <<>>
    OBVIOUS
  <2>1. Len(u) = 1
    BY DEF Hello, u
  <2>2. ToSet(u) = {Head(u)} \cup ToSet(Tail(u)) /\ Tail(u) = <<>>
    <3>1. u # <<>>
      BY EmptyMessages
    <3> QED   BY <1>3, <2>1, <3>1, TakenMessages
  <2>3. ToSet(u) = {HELLO}
    BY <2>2, EmptyMessages
  <2> HIDE DEF v
  <2>4. ToSet(v) = {}
    BY <1>4, <2>3
  <2> QED   BY <1>4, <2>4, NoMessages
<1> HIDE DEF v
<1>7. Served(t) => Served(s)
  <2> SUFFICES ASSUME Served(t)  PROVE Served(s)
    OBVIOUS
  <2>1. s.pc \in Handling /\ HELLO \notin ToSet(v) /\ (v # <<>> \/ s.pc # "reading")
    BY <1>2 DEF Served
  <2>2. HELLO \notin ToSet(u)
    <3>1. CASE v # <<>>
      BY <1>6, <2>1, <3>1
    <3>2. CASE s.pc # "reading"
      <4>1. HELLO \in ToSet(u) => s.pc \in {"waiting", "reading"}
        BY DEF Hello, u
      <4> QED   BY <2>1, <3>2, <4>1 DEF Handling
    <3> QED   BY <2>1, <3>1, <3>2
  <2> QED   BY <1>5, <2>1, <2>2 DEF Served, u
<1>8. \A e \in Pending(t) : e \in Pending(s)
  BY <1>2, <1>4 DEF Pending, u
<1>9. CalmServed(n, s, t, latest)
  BY <1>2, <1>4, <1>7 DEF CalmServed, u
<1>10. CalmRest(n, s, t, latest, doubt, ack)
  BY <1>2, <1>8 DEF CalmRest
<1> QED
  BY <1>9, <1>10

\* The client's stream, of which only the client's side changes.
LEMMA ClientCalm ==
  ASSUME NEW latest, NEW doubt, NEW ack, NEW s, NEW t, t.pc = s.pc, t.msg = s.msg,
         t.live = s.live, SameTake(s, t),
         t.up = s.up \/ (HELLO \notin ToSet(s.up) /\ s.live)
  PROVE  CalmServed(latest, s, t, latest) /\ CalmRest(latest, s, t, latest, doubt, ack)
<1>1. Served(t) => Served(s)
  BY DEF Served
<1> QED
  BY <1>1 DEF CalmServed, CalmRest, SameTake

\* One stream changes and stays calm.
LEMMA OneStep ==
  ASSUME FlowTypes, FlowTypes', LogInv, LogKept, NEW n \in 1..Stream, NEW t,
         streams' = [streams EXCEPT ![n] = t],
         CalmServed(n, streams[n], t, Stream), CalmRest(n, streams[n], t, Stream, doubtful', coreAck')
  PROVE  LogInv'
<1>1. Stream' = Stream
  BY OneStream
<1>2. AllCalm
  BY OneCalm
<1> QED
  BY <1>1, <1>2, CalmStep

LEMMA SameLog ==
  ASSUME FlowTypes, FlowTypes', LogInv, LogKept, streams' = streams
  PROVE  LogInv'
<1>1. Stream' = Stream
  BY DEF Stream
<1>2. AllCalm
  BY SameCalm DEF AllCalm
<1> QED
  BY <1>1, <1>2, CalmStep

LEMMA StreamFacts ==
  ASSUME FlowTypes, FlowInv, NEW n \in 1..Stream
  PROVE  /\ streams[n] \in StreamFields
         /\ StreamInv(streams[n], asrun, jsonl, stranded, lastAppended)
         /\ Hello(streams[n]) /\ Covered(streams[n], coreAck)
         /\ streams[n].pc \notin Writing => streams[n].msg = 0
<1>1. /\ streams[n] \in StreamFields
      /\ StreamInv(streams[n], asrun, jsonl, stranded, lastAppended)
      /\ Covered(streams[n], coreAck)
  BY DEF FlowTypes, FlowInv, StreamsFlow
<1>2. Hello(streams[n])
  BY <1>1 DEF StreamInv
<1>3. streams[n].pc \notin Writing => streams[n].msg = 0
  BY <1>1 DEF Covered, Writing
<1> QED
  BY <1>1, <1>2, <1>3

LEMMA QuietLog ==
  ASSUME FlowTypes, FlowTypes', FlowInv, LogInv, NEW n \in 1..Stream,
         \/ HandlerStarts(n) \/ HandlerWritesJsonl(n) \/ HandlerStores(n)
         \/ HandlerFails(n) \/ HandlerEnds(n)
  PROVE  LogInv'
<1> DEFINE s == streams[n]
           latest == Stream
           doubt == doubtful'
           ack == coreAck'
<1>1. /\ s \in StreamFields /\ Hello(s) /\ (s.pc \notin Writing => s.msg = 0)
      /\ StreamsFlow /\ coreAck \in Nat /\ coreAck' \in Nat /\ s.msg \in Nat
  <2>1. s.msg \in Nat
    BY StreamFacts, EvidenceAssumption DEF StreamFields, Records
  <2> QED   BY <2>1, StreamFacts DEF FlowInv, FlowTypes
<1>2. LogKept
  <2>1. coreAck <= coreAck'
    BY <1>1 DEF HandlerStarts, HandlerWritesJsonl, HandlerStores, HandlerFails, HandlerEnds, coreVars
  <2>2. asrun' = asrun /\ doubtful \subseteq doubtful' /\ stranded' = stranded
    BY DEF HandlerStarts, HandlerWritesJsonl, HandlerStores, HandlerFails, HandlerEnds, coreVars,
           clientVars
  <2> QED   BY <1>1, <2>1, <2>2 DEF LogKept
<1>3. \E t : /\ streams' = [streams EXCEPT ![n] = t]
             /\ CalmServed(n, s, t, latest) /\ CalmRest(n, s, t, latest, doubt, ack)
  <2>1. CASE HandlerStarts(n)
    <3>1. PICK t : /\ HandlerTo(n, t) /\ t.up = s.up /\ t.live = s.live
                   /\ t.pc = "reading" /\ t.msg = s.msg /\ SameTake(s, t)
      BY <1>1, <2>1, StartsTo
    <3>2. s.pc = "waiting" /\ s.msg = 0
      BY <1>1, <2>1 DEF HandlerStarts, Writing
    <3> HIDE DEF s, latest, doubt, ack
    <3>3. CalmServed(n, s, t, latest) /\ CalmRest(n, s, t, latest, doubt, ack)
      BY <1>1, <3>1, <3>2, StartsCalm
    <3> QED   BY <3>1, <3>3 DEF HandlerTo
  <2>2. CASE HandlerWritesJsonl(n)
    <3>1. PICK t : /\ HandlerTo(n, t) /\ t.up = s.up /\ t.pc = "store"
                   /\ t.msg = s.msg /\ SameTake(s, t)
      BY <1>1, <2>2, JsonlTo
    <3>2. s.pc = "half"
      BY <2>2 DEF HandlerWritesJsonl
    <3> HIDE DEF s, latest, doubt, ack
    <3>3. CalmServed(n, s, t, latest) /\ CalmRest(n, s, t, latest, doubt, ack)
      BY <3>1, <3>2, JsonlCalm
    <3> QED   BY <3>1, <3>3 DEF HandlerTo
  <2>3. CASE HandlerStores(n)
    <3>1. PICK t : /\ HandlerTo(n, t) /\ t.up = s.up /\ t.pc = "reading" /\ t.msg = 0
                   /\ SameTake(s, t)
      BY <1>1, <2>3, StoresTo
    <3>2. s.pc = "store" /\ s.msg <= ack
      <4>1. s.pc = "store" /\ coreAck' = (IF s.msg > coreAck THEN s.msg ELSE coreAck)
        BY <2>3 DEF HandlerStores
      <4> HIDE DEF s
      <4> QED   BY <1>1, <4>1
    <3> HIDE DEF s, latest, doubt, ack
    <3>3. CalmServed(n, s, t, latest) /\ CalmRest(n, s, t, latest, doubt, ack)
      BY <3>1, <3>2, StoresCalm
    <3> QED   BY <3>1, <3>3 DEF HandlerTo
  <2>4. CASE HandlerFails(n) \/ HandlerEnds(n)
    <3>1. PICK t : HandlerTo(n, t) /\ t.pc = "done"
      BY <1>1, <2>4, LeavesTo
    <3>2. s.pc \in Writing => s.msg \in doubt
      BY <2>4 DEF HandlerFails, HandlerEnds, Writing
    <3> HIDE DEF s, latest, doubt, ack
    <3>3. CalmServed(n, s, t, latest) /\ CalmRest(n, s, t, latest, doubt, ack)
      BY <3>1, <3>2, LeavesCalm
    <3> QED   BY <3>1, <3>3 DEF HandlerTo
  <2> QED   BY <2>1, <2>2, <2>3, <2>4
<1>4. PICK t : /\ streams' = [streams EXCEPT ![n] = t]
               /\ CalmServed(n, s, t, latest) /\ CalmRest(n, s, t, latest, doubt, ack)
  BY <1>3
<1> QED
  BY <1>2, <1>4, OneStep

\* The client's stream breaks.
LEMMA BreaksLog ==
  ASSUME FlowTypes, FlowTypes', FlowInv, LogInv, LogKept, Stream > 0, NEW t \in Broken(Conn),
         streams' = [streams EXCEPT ![Stream] = t]
  PROVE  LogInv'
<1> DEFINE n == Stream
           s == streams[n]
           doubt == doubtful'
           ack == coreAck'
<1>1. n \in 1..Stream /\ streams' = [streams EXCEPT ![n] = t] /\ t \in Broken(s)
  BY DEF FlowTypes, Conn
<1>2. s \in StreamFields /\ Hello(s)
  BY <1>1, StreamFacts
<1> HIDE DEF s, doubt, ack, n
<1>3. CalmServed(n, s, t, n) /\ CalmRest(n, s, t, n, doubt, ack)
  BY <1>1, <1>2, BreaksCalm
<1>4. CalmServed(n, streams[n], t, Stream) /\ CalmRest(n, streams[n], t, Stream, doubtful', coreAck')
  BY <1>3 DEF s, n, doubt, ack
<1> QED
  BY <1>1, <1>4, OneStep

LEMMA AirGoneLog ==
  ASSUME FlowTypes, FlowTypes', FlowInv, LogInv, AirGone
  PROVE  LogInv'
<1>1. LogKept
  BY DEF AirGone, clientVars, coreVars, LogKept, FlowTypes
<1>2. CASE streams' = streams
  BY <1>1, <1>2, SameLog
<1>3. CASE streams' # streams
  <2>1. Stream # 0 /\ \E t \in Broken(Conn) : streams' = [streams EXCEPT ![Stream] = t]
    BY <1>3 DEF AirGone
  <2>2. Stream > 0
    BY <2>1 DEF FlowTypes
  <2> QED   BY <1>1, <2>1, <2>2, BreaksLog
<1> QED
  BY <1>2, <1>3

\* All handlers are gone, and what they had begun to write may be written again.
LEMMA CoreDiesLog ==
  ASSUME FlowTypes, FlowTypes', FlowInv, LogInv, CoreDies
  PROVE  LogInv'
<1>1. /\ asrun' = asrun /\ coreAck' = coreAck /\ stranded' = stranded
      /\ doubtful' = doubtful \cup {streams[n].msg : n \in {h \in Held : streams[h].pc \in {"half", "store"}}}
  BY DEF CoreDies, clientVars
<1>2. PICK j \in 0..Len(Conn.down) :
        streams' = [n \in 1..Stream |->
          Left([streams[n] EXCEPT !.live = FALSE,
                                  !.down = IF n = Stream THEN SubSeq(@, 1, j) ELSE <<>>])]
  BY DEF CoreDies
<1> DEFINE e(n) == Left([streams[n] EXCEPT !.live = FALSE,
                                  !.down = IF n = Stream THEN SubSeq(@, 1, j) ELSE <<>>])
<1>3. ASSUME NEW n \in 1..Stream  PROVE e(n).pc = "done"
  BY LeftFields
<1>4. streams' = [n \in 1..Stream |-> e(n)]
  BY <1>2
<1> HIDE DEF e
<1>5. DOMAIN streams' = 1..Stream /\ \A n \in 1..Stream : streams'[n] = e(n)
  BY <1>4
<1>6. Stream' = Stream
  <2>1. Len(streams') \in Nat /\ DOMAIN streams' = 1..Len(streams') /\ Stream \in Nat
    BY DEF FlowTypes
  <2>2. 1..Len(streams') = 1..Stream
    BY <1>5, <2>1
  <2> QED   BY <2>1, <2>2 DEF Stream
<1>7. \A n \in 1..Stream : streams[n].pc \in Writing => streams[n].msg \in doubtful'
  BY <1>1 DEF Held, Handling, Writing
<1>8. AllCalm
  <2> SUFFICES ASSUME NEW h \in 1..Stream
               PROVE  /\ CalmServed(h, streams[h], streams'[h], Stream)
                      /\ CalmRest(h, streams[h], streams'[h], Stream, doubtful', coreAck')
    BY DEF AllCalm
  <2>1. streams'[h].pc = "done" /\ (streams[h].pc \in Writing => streams[h].msg \in doubtful')
    BY <1>3, <1>5, <1>7
  <2> QED   BY <2>1, LeavesCalm
<1>9. LogKept
  BY <1>1 DEF LogKept, FlowTypes
<1> QED
  BY <1>6, <1>8, <1>9, CalmStep

\* The client's end of its stream changes.
LEMMA ClientLog ==
  ASSUME FlowTypes, FlowTypes', LogInv, LogKept, Stream > 0, NEW t,
         streams' = [streams EXCEPT ![Stream] = t],
         t.pc = Conn.pc, t.msg = Conn.msg, t.live = Conn.live, SameTake(Conn, t),
         t.up = Conn.up \/ (HELLO \notin ToSet(Conn.up) /\ Conn.live)
  PROVE  LogInv'
<1> DEFINE n == Stream
           s == streams[n]
           doubt == doubtful'
           ack == coreAck'
<1>1. n \in 1..Stream /\ streams' = [streams EXCEPT ![n] = t]
  BY DEF FlowTypes
<1>2. /\ t.pc = s.pc /\ t.msg = s.msg /\ t.live = s.live /\ SameTake(s, t)
      /\ t.up = s.up \/ (HELLO \notin ToSet(s.up) /\ s.live)
  BY DEF Conn
<1> HIDE DEF s, doubt, ack, n
<1>3. CalmServed(n, s, t, n) /\ CalmRest(n, s, t, n, doubt, ack)
  BY <1>2, ClientCalm
<1>4. CalmServed(n, streams[n], t, Stream) /\ CalmRest(n, streams[n], t, Stream, doubtful', coreAck')
  BY <1>3 DEF s, n, doubt, ack
<1> QED
  BY <1>1, <1>4, OneStep

\* The client writes to its stream: HELLO has been taken from it.
LEMMA WritesLog ==
  ASSUME FlowTypes, FlowTypes', FlowInv, LogInv, LogKept, NEW ms, Stream > 0, Writes(ms),
         HELLO \notin ToSet(Conn.up)
  PROVE  LogInv'
<1> DEFINE s == Conn
           t == [s EXCEPT !.up = @ \o ms]
<1>1. s \in StreamFields
  BY DEF FlowTypes, Conn
<1>2. CASE s.live
  <2>1. streams' = [streams EXCEPT ![Stream] = t]
    BY <1>2 DEF Writes, Conn
  <2> HIDE DEF s
  <2>2. t.pc = s.pc /\ t.msg = s.msg /\ t.live = s.live /\ SameTake(s, t)
    BY <1>1 DEF StreamFields, SameTake
  <2> HIDE DEF t
  <2> QED   BY <1>2, <2>1, <2>2, ClientLog DEF s
<1>3. CASE ~s.live
  BY <1>3, SameLog DEF Writes
<1> QED
  BY <1>2, <1>3

LEMMA ClientStepLog ==
  ASSUME FlowTypes, FlowTypes', FlowInv, LogInv,
         ClientReplays \/ ClientSends \/ NoAnswer \/ ClientCloses \/ AckReads
  PROVE  LogInv'
<1> DEFINE s == Conn
<1>1. LogKept
  BY DEF ClientReplays, ClientSends, NoAnswer, ClientCloses, AckReads, coreVars, clientVars,
         LogKept, FlowTypes
<1>2. Stream > 0
  BY DEF ClientReplays, ClientSends, NoAnswer, ClientCloses, AckReads, FlowTypes
<1>3. s \in StreamFields /\ Hello(s)
  <2>1. Stream \in 1..Stream
    BY <1>2 DEF FlowTypes
  <2> QED   BY <2>1, StreamFacts DEF Conn
<1>4. CASE ClientReplays
  <2>1. s.greeted /\ Writes(Replay)
    BY <1>4 DEF ClientReplays
  <2>2. HELLO \notin ToSet(Conn.up)
    BY <1>3, <2>1 DEF Hello
  <2> QED   BY <1>1, <1>2, <2>1, <2>2, WritesLog
<1>5. CASE ClientSends
  <2>1. Writes(sendQueue) /\ client = "live"
    BY <1>5 DEF ClientSends
  <2>2. CASE s.live
    <3>1. HELLO \notin ToSet(Conn.up)
      BY <2>1, <2>2 DEF FlowInv, ClientFlow, LiveIs
    <3> QED   BY <1>1, <1>2, <2>1, <3>1, WritesLog
  <2>3. CASE ~s.live
    BY <1>1, <2>1, <2>3, SameLog DEF Writes
  <2> QED   BY <2>2, <2>3
<1>6. CASE NoAnswer \/ ClientCloses
  <2> DEFINE t == [s EXCEPT !.eof = TRUE]
  <2>1. streams' = [streams EXCEPT ![Stream] = t]
    BY <1>6 DEF NoAnswer, ClientCloses, WritesDone, Conn
  <2> HIDE DEF s
  <2>2. t.up = s.up /\ t.pc = s.pc /\ t.msg = s.msg /\ t.live = s.live /\ SameTake(s, t)
    BY <1>3 DEF StreamFields, SameTake
  <2> HIDE DEF t
  <2> QED   BY <1>1, <1>2, <2>1, <2>2, ClientLog DEF s
<1>7. CASE AckReads
  <2> DEFINE t == [s EXCEPT !.down = Tail(@), !.greeted = TRUE]
  <2>1. streams' = [streams EXCEPT ![Stream] = t]
    BY <1>7 DEF AckReads, Conn
  <2> HIDE DEF s
  <2>2. t.up = s.up /\ t.pc = s.pc /\ t.msg = s.msg /\ t.live = s.live /\ SameTake(s, t)
    BY <1>3 DEF StreamFields, SameTake
  <2> HIDE DEF t
  <2> QED   BY <1>1, <1>2, <2>1, <2>2, ClientLog DEF s
<1> QED
  BY <1>4, <1>5, <1>6, <1>7

\* A new stream has no handler yet.
LEMMA ConnectsLog ==
  ASSUME FlowTypes, FlowTypes', LogInv, ClientConnects
  PROVE  LogInv'
<1>1. streams' = Append(streams, NewStream)
  BY DEF ClientConnects
<1>2. LogKept
  BY DEF ClientConnects, coreVars, LogKept, FlowTypes
<1>3. streams \in Seq(StreamFields) /\ NewStream \in StreamFields
  BY NewStreamOK DEF FlowTypes
<1>4. /\ Len(streams') = Len(streams) + 1 /\ streams'[Len(streams) + 1] = NewStream
      /\ \A n \in 1..Len(streams) : streams'[n] = streams[n]
      /\ Len(streams) \in Nat
  BY <1>1, <1>3, AppendProperties
<1>5. Stream' = Stream + 1 /\ streams'[Stream'] = NewStream /\ Stream \in Nat
      /\ \A n \in 1..Stream : streams'[n] = streams[n]
  BY <1>4 DEF Stream
<1>6. ~Served(streams'[Stream'])
  BY <1>5, NewFields DEF Served, Handling, NewStream
<1>7. \A n \in 1..Stream' : n \in 1..Stream \/ n = Stream'
  <2>1. ASSUME NEW a \in Nat, NEW b, b = a + 1, NEW n \in 1..b  PROVE n \in 1..a \/ n = b
    BY <2>1
  <2>2. Stream \in Nat /\ Stream' = Stream + 1
    BY <1>5
  <2> QED   BY <2>1, <2>2
<1>8. Stream <= Stream'
  BY <1>5
<1>9. \A h \in 1..Stream : /\ CalmServed(h, streams[h], streams'[h], Stream)
                           /\ CalmRest(h, streams[h], streams'[h], Stream, doubtful', coreAck')
  BY <1>5, SameCalm
<1>10. LinesOK'
  BY <1>2, <1>8, <1>9, LinesKept DEF LogInv
<1>11. AgainOK'
  <2> SUFFICES ASSUME NEW n \in 1..Stream', NEW i \in 1..Len(asrun)
               PROVE  ServedOK(n, asrun[i], streams', doubtful', stranded')
    BY <1>2 DEF AgainOK, LogKept
  <2>1. CASE n \in 1..Stream
    BY <1>2, <1>8, <1>9, <2>1, ServesKept DEF LogInv
  <2>2. CASE n = Stream'
    BY <1>6, <2>2 DEF ServedOK
  <2> QED   BY <1>7, <2>1, <2>2
<1>12. PairsOK'
  <2> SUFFICES ASSUME NEW n \in 1..Stream', NEW h \in 1..(n - 1)
               PROVE  PairOK(n, h, streams', doubtful', stranded')
    BY DEF PairsOK
  <2>1. CASE n \in 1..Stream
    BY <1>2, <1>9, <2>1, PairsKept DEF LogInv, LogKept
  <2>2. CASE n = Stream'
    BY <1>6, <2>2 DEF PairOK
  <2> QED   BY <1>7, <2>1, <2>2
<1>13. LogGrowsInOrder' /\ EndEchoesStart'
  BY <1>2, FilesKept DEF LogInv
<1> QED
  BY <1>10, <1>11, <1>12, <1>13 DEF LogInv

-----------------------------------------------------------------------------
(* A handler takes HELLO.                                                  *)

\* What comes before what a handler has yet to acknowledge.
LEMMA PendingBehind ==
  ASSUME NEW g \in StreamFields, NEW log, NEW js, NEW str, NEW top,
         StreamInv(g, log, js, str, top), NEW ack \in Nat, Covered(g, ack),
         NEW e \in Pending(g), NEW r \in Records, r < e
  PROVE  r <= ack \/ r \in str \/ r \in Pending(g)
<1> DEFINE u == g.up
           seen == g.seen
           floor == g.floor
<1>1. u \in Messages /\ seen \in SUBSET Records /\ floor \in Numbers
  BY FieldTypes
<1>2. Order(u, seen, floor, str, top) /\ InHand(g, log, js, str)
  BY DEF StreamInv
<1>3. floor <= ack /\ seen \subseteq 0..ack \cup {g.msg} /\ (g.pc \notin Writing => g.msg = 0)
  BY DEF Covered, Writing
<1>4. e \in ToSet(u) \/ (e = g.msg /\ g.msg # HELLO)
  BY DEF Pending
<1>5. r \in ToSet(u) \cup {g.msg} => r \in Pending(g)
  BY EvidenceAssumption DEF Pending, Records, HELLO
<1> HIDE DEF u, seen, floor
<1>6. r \in Nat /\ floor \in Nat
  BY <1>1, EvidenceAssumption DEF Records, Numbers, HELLO
<1>7. r <= floor => r <= ack
  BY <1>3, <1>6
<1>8. r \in seen => r <= ack \/ r \in Pending(g)
  BY <1>3, <1>5
<1>9. CASE e \in ToSet(u)
  <2>1. PICK i \in 1..Len(u) : u[i] = e
    BY <1>1, <1>9, MessageFacts
  <2>2. Known(u, seen, floor, i, r) \/ r \in str
    BY <1>2, <2>1 DEF Order
  <2>3. (\E j \in 1..(i - 1) : u[j] = r) => r \in ToSet(u)
    <3>1. Len(u) \in Nat /\ \A j \in 1..(i - 1) : j \in 1..Len(u)
      BY <1>1, MessageFacts
    <3> QED   BY <1>1, <3>1, MessageFacts
  <2> QED   BY <1>5, <1>7, <1>8, <2>2, <2>3 DEF Known
<1>10. CASE e = g.msg /\ g.msg # HELLO
  <2>1. e \in seen
    BY <1>2, <1>3, <1>10 DEF InHand, Writing, HELLO, seen
  <2>2. r <= floor \/ r \in seen \/ r \in str
    BY <1>2, <2>1 DEF Order
  <2> QED   BY <1>7, <1>8, <2>2
<1> QED
  BY <1>4, <1>9, <1>10

LEMMA DoubtIs ==
  ASSUME FlowTypes, FlowInv, NEW n, NEW h \in 1..Stream, h # n, streams[h].pc \in Handling
  PROVE  Pending(streams[h]) \subseteq Doubt(n)
<1> DEFINE g == streams[h]
<1>1. h \in Held \ {n}
  BY DEF Held
<1>2. g.pc \notin Writing => g.msg = 0
  BY StreamFacts
<1>3. g.pc # "reading" => g.pc \in Writing
  BY DEF Handling, Writing
<1>4. (ToSet(g.up) \cup (IF g.pc = "reading" THEN {} ELSE {g.msg})) \ {HELLO} \subseteq Doubt(n)
  BY <1>1 DEF Doubt
<1>5. Pending(g) \subseteq (ToSet(g.up) \cup (IF g.pc = "reading" THEN {} ELSE {g.msg})) \ {HELLO}
  <2> HIDE DEF g
  <2> QED   BY <1>2 DEF Pending, HELLO, Writing
<1> QED
  BY <1>4, <1>5

LEMMA GreetsLog ==
  ASSUME FlowTypes, FlowTypes', FlowInv, LogInv, NEW n \in 1..Stream, HandlerGreets(n)
  PROVE  LogInv'
<1> DEFINE s == streams[n]
<1>1. s \in StreamFields /\ Hello(s) /\ StreamsFlow
  BY StreamFacts DEF FlowInv
<1>2. /\ s.pc = "reading" /\ s.up # <<>> /\ Head(s.up) = HELLO
      /\ asrun' = asrun /\ stranded' = stranded /\ coreAck' = coreAck
      /\ doubtful' = doubtful \cup Doubt(n)
  BY DEF HandlerGreets, clientVars
<1>3. PICK t : /\ HandlerTo(n, t) /\ t.up = Tail(s.up) /\ t.live = s.live
               /\ t.pc = "reading" /\ t.msg = 0 /\ t.floor = coreAck /\ t.seen = s.seen
  BY <1>1, GreetsTo
<1>4. streams' = [streams EXCEPT ![n] = t]
  BY <1>3 DEF HandlerTo
<1>5. CalmRest(n, s, t, Stream, doubtful', coreAck') /\ t.up = <<>>
  <2> DEFINE latest == Stream
             doubt == doubtful'
             ack == coreAck'
  <2> HIDE DEF s, latest, doubt, ack
  <2>1. CalmRest(n, s, t, latest, doubt, ack) /\ t.up = <<>>
    BY <1>1, <1>2, <1>3, GreetsCalm
  <2> QED   BY <2>1 DEF latest, doubt, ack
<1>6. LogKept
  BY <1>2 DEF LogKept, FlowTypes
<1>7. /\ \A h \in 1..Stream : CalmRest(h, streams[h], streams'[h], Stream, doubtful', coreAck')
      /\ \A h \in 1..Stream : h # n => CalmServed(h, streams[h], streams'[h], Stream)
  BY <1>4, <1>5, OneCalm
<1>8. Stream' = Stream /\ Stream <= Stream' /\ streams'[n] = t
      /\ \A h \in 1..Stream : h # n => streams'[h] = streams[h]
  <2>1. Stream \in Nat
    BY DEF FlowTypes
  <2>2. Stream' = Stream /\ streams'[n] = t /\ \A h \in 1..Stream : h # n => streams'[h] = streams[h]
    BY <1>4, OneStream
  <2>3. Stream <= Stream'
    BY <2>1, <2>2
  <2> QED   BY <2>2, <2>3
<1>9. LinesOK'
  BY <1>6, <1>7, <1>8, LinesKept DEF LogInv
<1>10. AgainOK'
  <2> SUFFICES ASSUME NEW m \in 1..Stream, NEW i \in 1..Len(asrun)
               PROVE  ServedOK(m, asrun[i], streams', doubtful', stranded')
    BY <1>2, <1>8 DEF AgainOK
  <2>1. CASE m # n
    BY <1>6, <1>7, <1>8, <2>1, ServesKept DEF LogInv
  <2>2. CASE m = n
    <3> DEFINE l == asrun[i]
    <3>1. l.rec \in Records /\ LineOK(l, streams, coreAck, doubtful, stranded)
      BY LineTypes DEF LogInv, LinesOK
    <3> HIDE DEF l
    <3> SUFFICES ASSUME NEW r \in Records, r <= l.rec
                 PROVE  r <= coreAck \/ r \in doubtful' \/ (r < l.rec /\ r \in stranded)
      BY <1>2, <1>3, <1>8, <2>2 DEF ServedOK, l
    <3>2. CASE r < l.rec
      BY <3>1, <3>2 DEF LineOK
    <3>3. CASE r = l.rec
      <4>1. CASE l.rec <= coreAck \/ l.rec \in doubtful
        BY <1>2, <3>3, <4>1
      <4>2. CASE \E h \in 1..Len(streams) : streams[h].pc \in Writing /\ streams[h].msg = l.rec
        <5>1. PICK h \in 1..Stream : streams[h].pc \in Writing /\ streams[h].msg = l.rec
          BY <4>2 DEF Stream
        <5>2. h # n /\ streams[h].pc \in Handling
          BY <1>2, <5>1 DEF Writing, Handling
        <5>3. l.rec \in Pending(streams[h])
          BY <3>1, <5>1, EvidenceAssumption DEF Pending, Records, HELLO
        <5> QED   BY <1>2, <3>3, <5>2, <5>3, DoubtIs
      <4> QED   BY <3>1, <4>1, <4>2 DEF LineOK
    <3>4. r < l.rec \/ r = l.rec
      BY <3>1, EvidenceAssumption DEF Records
    <3> QED   BY <3>2, <3>3, <3>4
  <2> QED   BY <2>1, <2>2
<1>11. PairsOK'
  <2> SUFFICES ASSUME NEW m \in 1..Stream, NEW h \in 1..(m - 1)
               PROVE  PairOK(m, h, streams', doubtful', stranded')
    BY <1>8 DEF PairsOK
  <2>1. CASE m # n
    BY <1>6, <1>7, <2>1, PairsKept DEF LogInv, LogKept
  <2>2. CASE m = n
    <3> DEFINE g == streams[h]
    <3>1. h \in 1..Stream /\ h # n
      BY <2>2 DEF FlowTypes
    <3>2. streams'[h] = g
      BY <1>8, <3>1
    <3> SUFFICES ASSUME g.pc \in Handling, NEW e \in Pending(g)
                 PROVE  e \in doubtful' /\ \A r \in Records : r < e =>
                          r <= coreAck \/ r \in stranded \/ r \in doubtful'
      BY <1>2, <1>3, <1>8, <2>2, <3>2 DEF PairOK
    <3>3. Pending(g) \subseteq doubtful'
      BY <1>2, <3>1, DoubtIs
    <3>4. /\ g \in StreamFields /\ StreamInv(g, asrun, jsonl, stranded, lastAppended)
          /\ Covered(g, coreAck) /\ coreAck \in Nat
      BY <3>1, StreamFacts DEF FlowTypes
    <3> HIDE DEF g
    <3>5. \A r \in Records : r < e => r <= coreAck \/ r \in stranded \/ r \in Pending(g)
      BY <3>4, PendingBehind
    <3> QED   BY <3>3, <3>5
  <2> QED   BY <2>1, <2>2
<1>12. LogGrowsInOrder' /\ EndEchoesStart'
  BY <1>6, FilesKept DEF LogInv
<1> QED
  BY <1>9, <1>10, <1>11, <1>12 DEF LogInv

-----------------------------------------------------------------------------
(* A handler writes a line.                                                *)

\* What comes before a record that is new to its handler.
LEMMA HeadBehind ==
  ASSUME NEW u \in Messages, NEW seen, NEW floor, NEW str, NEW top,
         Order(u, seen, floor, str, top), u # <<>>, NEW q \in Records, q < Head(u)
  PROVE  q <= floor \/ q \in seen \/ q \in str
<1>1. 1 \in 1..Len(u) /\ Head(u) = u[1]
  BY HeadTailProperties DEF Messages
<1>2. Known(u, seen, floor, 1, q) \/ q \in str
  BY <1>1 DEF Order
<1>3. ~(\E j \in 1..(1 - 1) : u[j] = q)
  OBVIOUS
<1> QED
  BY <1>2, <1>3 DEF Known

\* The line handler n, with stream s, writes.
LineOf(n, s, line) ==
  /\ line.rec = Head(s.up) /\ line.via = n
  /\ line.index = IF Opens(Head(s.up)) THEN Segment(Head(s.up)) ELSE s.index

LEMMA ReadsLine ==
  ASSUME FlowTypes, NEW n \in 1..Stream, HandlerReads(n), asrun' # asrun
  PROVE  /\ ~Duplicate(streams[n], Head(streams[n].up))
         /\ \E line : LineOf(n, streams[n], line) /\ asrun' = Append(asrun, line)
<1> DEFINE s == streams[n]
           r == Head(s.up)
           v == [s EXCEPT !.up = Tail(@)]
           line == [rec |-> r, index |-> IndexOf(v, r), via |-> n]
<1>1. asrun' = IF Duplicate(s, r) \/ Suppressed(v, r) THEN asrun ELSE Append(asrun, line)
  BY DEF HandlerReads
<1>2. s \in StreamFields
  BY DEF FlowTypes
<1>3. v.index = s.index
  BY <1>2 DEF StreamFields
<1> HIDE DEF v
<1>4. IndexOf(v, r) = IF Opens(r) THEN Segment(r) ELSE s.index
  BY <1>3 DEF IndexOf
<1>5. line.rec = r /\ line.via = n /\ line.index = IndexOf(v, r)
  OBVIOUS
<1> HIDE DEF s, r, line
<1>6. LineOf(n, s, line)
  BY <1>4, <1>5 DEF LineOf, r
<1> QED
  BY <1>1, <1>6 DEF s, r

\* The file with its new line.
LEMMA NewLine ==
  ASSUME NEW S, NEW log \in Seq(S), NEW line, NEW log2, log2 = Append(log, line)
  PROVE  /\ Len(log) \in Nat /\ Len(log2) = Len(log) + 1 /\ log2[Len(log) + 1] = line
         /\ \A i \in 1..Len(log) : log2[i] = log[i]
         /\ \A i \in 1..Len(log2) : i \in 1..Len(log) \/ i = Len(log) + 1
<1> DEFINE T == S \cup {line}
<1>1. Len(log) \in Nat /\ DOMAIN log = 1..Len(log) /\ \A i \in 1..Len(log) : log[i] \in S
  OBVIOUS
<1>2. log \in Seq(T) /\ line \in T
  BY SeqMonotonic
<1> HIDE DEF T
<1>3. /\ Len(log2) = Len(log) + 1 /\ log2[Len(log) + 1] = line
      /\ \A i \in 1..Len(log) : log2[i] = log[i]
  BY <1>2, AppendProperties
<1>4. \A i \in 1..Len(log2) : i \in 1..Len(log) \/ i = Len(log) + 1
  BY <1>1, <1>3
<1> QED
  BY <1>1, <1>3, <1>4

\* What the steps of a handler that writes record r have in common.
WritesLine(n, t, line) ==
  /\ streams' = [streams EXCEPT ![n] = t] /\ asrun' = Append(asrun, line)
  /\ Reads(streams[n], t) /\ LineOf(n, streams[n], line)
  /\ ~Duplicate(streams[n], Head(streams[n].up))
  /\ streams[n].pc = "reading" /\ streams[n].up # <<>> /\ Head(streams[n].up) # HELLO
  /\ UNCHANGED <<coreAck, doubtful, stranded>>

\* The record comes after all its handler has seen, which is stored by now.
LEMMA LineFacts ==
  ASSUME FlowTypes, FlowTypes', FlowInv, NEW n \in 1..Stream, NEW t, NEW line, WritesLine(n, t, line)
  PROVE  /\ line.rec \in Records /\ line.rec \in Nat /\ line.via = n
         /\ Served(streams[n]) /\ streams[n].pc \in Handling
         /\ line.rec \in Pending(streams[n]) /\ line.rec \in ToSet(streams[n].up)
         /\ line.rec \notin streams[n].seen /\ ~(line.rec <= streams[n].floor)
         /\ \A q \in Records : q < line.rec =>
              q <= streams[n].floor \/ q \in streams[n].seen \/ q \in stranded
         /\ \A q \in Records : q < line.rec => q <= coreAck \/ q \in stranded
         /\ t.pc \in Writing /\ t.msg = line.rec /\ t.floor = streams[n].floor
         /\ t.seen = streams[n].seen \cup {line.rec}
<1> DEFINE s == streams[n]
           r == line.rec
<1>1. /\ s \in StreamFields /\ StreamInv(s, asrun, jsonl, stranded, lastAppended)
      /\ Hello(s) /\ Covered(s, coreAck) /\ coreAck \in Nat
  BY StreamFacts DEF FlowTypes
<1>2. /\ s.pc = "reading" /\ s.up # <<>> /\ Head(s.up) # HELLO /\ r = Head(s.up) /\ line.via = n
      /\ Reads(s, t) /\ ~Duplicate(s, Head(s.up))
  BY DEF WritesLine, LineOf
<1> HIDE DEF s, r
<1>3. Served(s) /\ r \in Pending(s) /\ r \in ToSet(s.up) /\ r \in Records
  BY <1>1, <1>2, ReadsServed
<1>4. r \in Nat
  BY <1>3, EvidenceAssumption DEF Records
<1>5. r \notin s.seen /\ ~(r <= s.floor)
  BY <1>2 DEF Duplicate
<1>6. \A q \in Records : q < r => q <= s.floor \/ q \in s.seen \/ q \in stranded
  <2> DEFINE u == s.up
             seen == s.seen
             floor == s.floor
  <2>1. u \in Messages /\ Order(u, seen, floor, stranded, lastAppended) /\ u # <<>> /\ r = Head(u)
    BY <1>1, <1>2, FieldTypes DEF StreamInv
  <2> HIDE DEF u, seen, floor
  <2>2. \A q \in Records : q < r => q <= floor \/ q \in seen \/ q \in stranded
    BY <2>1, HeadBehind
  <2> QED   BY <2>2 DEF floor, seen
<1>7. \A q \in Records : q < r => q <= coreAck \/ q \in stranded
  <2> SUFFICES ASSUME NEW q \in Records, q <= s.floor \/ q \in s.seen  PROVE q <= coreAck
    BY <1>6
  <2>1. /\ s.floor <= coreAck /\ s.seen \subseteq 0..coreAck \cup {0} /\ s.floor \in Nat /\ q \in Nat
    <3>1. s.floor <= coreAck /\ s.seen \subseteq 0..coreAck \cup {s.msg} /\ s.msg = 0
      BY <1>1, <1>2 DEF Covered
    <3>2. s.floor \in Numbers
      BY <1>1, FieldTypes
    <3> QED   BY <3>1, <3>2, EvidenceAssumption DEF Numbers, Records, HELLO
  <2> QED   BY <1>1, <2>1
<1>8. t.pc \in Writing /\ t.msg = r /\ t.floor = s.floor /\ t.seen = s.seen \cup {r}
  BY <1>2 DEF Reads
<1> QED
  BY <1>2, <1>3, <1>4, <1>5, <1>6, <1>7, <1>8 DEF s, r, Handling

LEMMA WritesCalm ==
  ASSUME FlowTypes, FlowTypes', FlowInv, NEW n \in 1..Stream, NEW t,
         streams' = [streams EXCEPT ![n] = t], Reads(streams[n], t),
         streams[n].pc = "reading", streams[n].up # <<>>, Head(streams[n].up) # HELLO
  PROVE  AllCalm /\ Stream' = Stream
<1> DEFINE s == streams[n]
           latest == Stream
           doubt == doubtful'
           ack == coreAck'
<1>1. /\ s \in StreamFields /\ Hello(s) /\ Reads(s, t)
      /\ s.pc = "reading" /\ s.up # <<>> /\ Head(s.up) # HELLO
  BY StreamFacts
<1> HIDE DEF s, latest, doubt, ack
<1>2. CalmServed(n, s, t, latest) /\ CalmRest(n, s, t, latest, doubt, ack)
  BY <1>1, ReadsCalm
<1>3. CalmServed(n, streams[n], t, Stream) /\ CalmRest(n, streams[n], t, Stream, doubtful', coreAck')
  BY <1>2 DEF s, latest, doubt, ack
<1>4. AllCalm
  BY <1>3, OneCalm
<1>5. Stream' = Stream
  BY OneStream
<1> QED
  BY <1>4, <1>5

\* Every handler that goes on knows of the new record, or it may be written again.
LEMMA LineServed ==
  ASSUME FlowTypes, FlowTypes', FlowInv, LogInv, NEW n \in 1..Stream, NEW t, NEW line,
         WritesLine(n, t, line), NEW m \in 1..Stream
  PROVE  ServedOK(m, line, streams', doubtful', stranded')
<1> DEFINE r == line.rec
           g == streams'[m]
<1>1. /\ streams' = [streams EXCEPT ![n] = t] /\ doubtful' = doubtful /\ stranded' = stranded
  BY DEF WritesLine
<1>2. streams'[n] = t /\ Stream' = Stream /\ \A h \in 1..Stream : h # n => streams'[h] = streams[h]
  BY <1>1, OneStream
<1>3. Stream \in Nat /\ Stream = Len(streams')
  BY <1>2 DEF FlowTypes, Stream
<1>4. r \in Nat /\ r \in Pending(streams[n]) /\ streams[n].pc \in Handling /\ Served(streams[n])
  BY LineFacts
<1> HIDE DEF r
<1> SUFFICES ASSUME Served(g), NEW q \in Records, q <= r, m = Stream \/ q \in ToSet(g.up)
             PROVE  q <= g.floor \/ q \in g.seen \/ q \in doubtful \/ (q < r /\ q \in stranded)
  BY <1>1, <1>3 DEF ServedOK, r
<1>5. q \in Nat /\ q # HELLO /\ (q < r \/ q = r)
  BY <1>4, EvidenceAssumption DEF Records, HELLO
<1>6. CASE m = n
  <2>1. /\ t.floor = streams[n].floor /\ t.seen = streams[n].seen \cup {r}
        /\ q < r => q <= streams[n].floor \/ q \in streams[n].seen \/ q \in stranded
    BY LineFacts DEF r
  <2> QED   BY <1>2, <1>5, <1>6, <2>1
<1>7. CASE n \in 1..(m - 1)
  <2>1. PairOK(m, n, streams, doubtful, stranded) /\ g = streams[m]
    BY <1>2, <1>3, <1>7 DEF LogInv, PairsOK
  <2>2. r \in doubtful /\ \A o \in Records : o < r => o <= g.floor \/ o \in stranded \/ o \in doubtful
    BY <1>4, <2>1 DEF PairOK
  <2> QED   BY <1>5, <2>2
<1>8. CASE m \in 1..(n - 1)
  <2>1. PairOK(n, m, streams, doubtful, stranded) /\ g = streams[m] /\ m # Stream
    BY <1>2, <1>3, <1>8 DEF LogInv, PairsOK
  <2>2. q \in Pending(g) /\ g.pc \in Handling
    BY <1>5, <2>1 DEF Pending, Served
  <2> QED   BY <1>4, <2>1, <2>2 DEF PairOK
<1>9. m = n \/ n \in 1..(m - 1) \/ m \in 1..(n - 1)
  BY <1>3
<1> QED
  BY <1>6, <1>7, <1>8, <1>9

LEMMA LineInOrder ==
  ASSUME FlowTypes, FlowTypes', FlowInv, LogInv, NEW n \in 1..Stream, NEW t, NEW line,
         WritesLine(n, t, line)
  PROVE  LogGrowsInOrder'
<1> DEFINE r == line.rec
           s == streams[n]
           Line == [rec : Records, index : {NoIndex} \cup Nat, via : Nat]
           last == Len(asrun)
<1>1. asrun' = Append(asrun, line) /\ doubtful' = doubtful /\ stranded' = stranded
      /\ asrun \in Seq(Line)
  BY DEF WritesLine, FlowTypes
<1> HIDE DEF Line
<1>2. /\ last \in Nat /\ Len(asrun') = last + 1 /\ asrun'[last + 1] = line
      /\ \A i \in 1..last : asrun'[i] = asrun[i]
      /\ \A i \in 1..Len(asrun') : i \in 1..last \/ i = last + 1
  BY <1>1, NewLine
<1>3. Served(s) /\ r \in ToSet(s.up) /\ r \notin s.seen /\ ~(r <= s.floor) /\ r \in Records /\ r \in Nat
  BY LineFacts
<1> HIDE DEF r, last
<1> SUFFICES ASSUME NEW i \in 1..Len(asrun'), NEW j \in 1..Len(asrun'), i < j
             PROVE  /\ asrun'[i].rec = asrun'[j].rec => asrun'[j].rec \in doubtful
                    /\ asrun'[i].rec > asrun'[j].rec => asrun'[j].rec \in doubtful \cup stranded
  BY <1>1 DEF LogGrowsInOrder
<1>4. i \in 1..last
  BY <1>2
<1>5. CASE j \in 1..last
  BY <1>2, <1>4, <1>5 DEF LogInv, LogGrowsInOrder, last
<1>6. CASE j = last + 1
  <2> DEFINE l == asrun[i]
  <2>1. l.rec \in Records /\ ServedOK(n, l, streams, doubtful, stranded)
    BY <1>4, LineTypes DEF LogInv, AgainOK, last
  <2>2. l.rec \in Nat /\ asrun'[i] = l /\ asrun'[j].rec = r
    BY <1>2, <1>4, <1>6, <2>1, EvidenceAssumption DEF Records, r
  <2> HIDE DEF l
  <2>3. r <= l.rec => r \in doubtful \/ (r < l.rec /\ r \in stranded)
    BY <1>3, <2>1 DEF ServedOK
  <2>4. l.rec = r => r \in doubtful
    BY <1>3, <2>2, <2>3
  <2>5. l.rec > r => r \in doubtful \cup stranded
    BY <1>3, <2>2, <2>3
  <2> QED   BY <2>2, <2>4, <2>5
<1> QED
  BY <1>2, <1>5, <1>6

LEMMA LineEchoes ==
  ASSUME FlowTypes, FlowTypes', FlowInv, LogInv, NEW n \in 1..Stream, NEW t, NEW line,
         WritesLine(n, t, line)
  PROVE  EndEchoesStart'
<1> DEFINE r == line.rec
           s == streams[n]
           Line == [rec : Records, index : {NoIndex} \cup Nat, via : Nat]
           last == Len(asrun)
<1>1. asrun' = Append(asrun, line) /\ stranded' = stranded /\ asrun \in Seq(Line)
  BY DEF WritesLine, FlowTypes
<1> HIDE DEF Line
<1>2. /\ last \in Nat /\ Len(asrun') = last + 1 /\ asrun'[last + 1] = line
      /\ \A i \in 1..last : asrun'[i] = asrun[i]
      /\ \A i \in 1..Len(asrun') : i \in 1..last \/ i = last + 1
  BY <1>1, NewLine
<1>3. r \in Records /\ line.via = n /\ r \notin s.seen /\ ~(r <= s.floor) /\ s.pc \in Handling
  BY LineFacts
<1>4. /\ s \in StreamFields /\ StreamInv(s, asrun, jsonl, stranded, lastAppended)
  BY StreamFacts
<1>5. /\ s.up # <<>> /\ r = Head(s.up) /\ (~Opens(r) => line.index = s.index)
  BY DEF WritesLine, LineOf
<1> HIDE DEF r, last, s
<1> SUFFICES ASSUME NEW i \in 1..Len(asrun'), ~Opens(asrun'[i].rec)
             PROVE  \/ asrun'[i].index = Segment(asrun'[i].rec)
                    \/ /\ asrun'[i].index = NoIndex
                       /\ \A j \in 1..i - 1 : asrun'[j].via = asrun'[i].via => ~Opens(asrun'[j].rec)
                    \/ asrun'[i].rec - 1 \in stranded
  BY <1>1 DEF EndEchoesStart
<1>6. CASE i \in 1..last
  <2>1. asrun'[i] = asrun[i] /\ \A j \in 1..i - 1 : asrun'[j] = asrun[j]
    BY <1>2, <1>6
  <2>2. \/ asrun[i].index = Segment(asrun[i].rec)
        \/ /\ asrun[i].index = NoIndex
           /\ \A j \in 1..i - 1 : asrun[j].via = asrun[i].via => ~Opens(asrun[j].rec)
        \/ asrun[i].rec - 1 \in stranded
    BY <1>6, <2>1 DEF LogInv, EndEchoesStart, last
  <2> QED   BY <2>1, <2>2
<1>7. CASE i = last + 1
  <2>1. asrun'[i] = line /\ \A j \in 1..i - 1 : j \in 1..last /\ asrun'[j] = asrun[j]
    BY <1>2, <1>7
  <2>2. ~Opens(r) /\ line.index = s.index
    BY <1>5, <2>1 DEF r
  <2>3. IndexOK(s.index, s.terminals, s.seen) /\ s.seen \in SUBSET Records
    BY <1>4, FieldTypes DEF StreamInv
  <2>4. CASE s.index = NoIndex /\ \A o \in s.seen : ~Opens(o)
    <3>1. ASSUME NEW j \in 1..last, asrun[j].via = n  PROVE ~Opens(asrun[j].rec)
      <4> DEFINE l == asrun[j]
      <4>1. LineOK(l, streams, coreAck, doubtful, stranded)
        BY DEF LogInv, LinesOK, last
      <4> HIDE DEF l
      <4>2. l.via = n
        BY <3>1 DEF l
      <4>3. l.rec \in s.seen
        BY <1>3, <4>1, <4>2 DEF LineOK, Handling, s
      <4> QED   BY <2>4, <4>3 DEF l
    <3> QED   BY <1>3, <2>1, <2>2, <2>4, <3>1
  <2>5. CASE \E o \in s.seen : Opens(o) /\ s.index = Segment(o) /\ \A q \in s.seen : Opens(q) => q <= o
    <3>1. PICK o \in s.seen : Opens(o) /\ s.index = Segment(o) /\ \A q \in s.seen : Opens(q) => q <= o
      BY <2>5
    <3> DEFINE u == s.up
               seen == s.seen
               floor == s.floor
    <3>2. /\ u \in Messages /\ Order(u, seen, floor, stranded, lastAppended) /\ u # <<>> /\ r = Head(u)
          /\ seen \in SUBSET Records /\ floor \in Numbers /\ r \notin seen /\ ~(r <= floor)
          /\ o \in seen /\ \A q \in seen : Opens(q) => q <= o
      BY <1>3, <1>4, <1>5, <3>1, FieldTypes DEF StreamInv
    <3> HIDE DEF u, seen, floor
    <3>3. o < r
      BY <3>2, NewIsNewest
    <3>4. o < r - 1 => r - 1 \in stranded
      BY <1>3, <2>2, <3>2, StartMissed
    <3>5. o < r - 1 \/ o = r - 1
      BY <1>3, <3>2, <3>3, EvidenceAssumption DEF Records
    <3>6. Segment(r - 1) = Segment(r)
      BY <1>3, <2>2, SegmentsDiffer
    <3>7. r - 1 \in stranded \/ line.index = Segment(r)
      BY <2>2, <3>1, <3>4, <3>5, <3>6
    <3> QED   BY <2>1, <3>7 DEF r
  <2> QED   BY <2>3, <2>4, <2>5 DEF IndexOK
<1> QED
  BY <1>2, <1>6, <1>7

LEMMA WritesLineLog ==
  ASSUME FlowTypes, FlowTypes', FlowInv, LogInv, NEW n \in 1..Stream, NEW t, NEW line,
         WritesLine(n, t, line)
  PROVE  LogInv'
<1> DEFINE Line == [rec : Records, index : {NoIndex} \cup Nat, via : Nat]
           last == Len(asrun)
<1>1. /\ asrun' = Append(asrun, line) /\ asrun \in Seq(Line) /\ coreAck' = coreAck
      /\ doubtful' = doubtful /\ stranded' = stranded
  BY DEF WritesLine, FlowTypes
<1> HIDE DEF Line
<1>2. /\ \A i \in 1..last : asrun'[i] = asrun[i]
      /\ \A i \in 1..Len(asrun') : i \in 1..last \/ asrun'[i] = line
  BY <1>1, NewLine
<1>3. AllCalm /\ Stream' = Stream
  BY WritesCalm DEF WritesLine
<1>4. /\ Len(streams) \in Nat /\ Len(streams') \in Nat /\ Len(streams) <= Len(streams')
      /\ coreAck \in Nat
  BY <1>3 DEF FlowTypes, Stream
<1>5. LinesOK'
  <2> SUFFICES ASSUME NEW i \in 1..Len(asrun')
               PROVE  LineOK(asrun'[i], streams', coreAck, doubtful, stranded)
    BY <1>1 DEF LinesOK
  <2>1. CASE i \in 1..last
    <3> DEFINE l == asrun[i]
               ss == streams
               tt == streams'
    <3>1. l.rec \in Records /\ LineOK(l, ss, coreAck, doubtful, stranded)
      BY <2>1, LineTypes DEF LogInv, LinesOK
    <3>2. \A h \in 1..Len(ss) : CalmRest(h, ss[h], tt[h], Len(ss), doubtful, coreAck)
      BY <1>1, <1>3 DEF AllCalm, Stream
    <3>3. Len(ss) \in Nat /\ Len(tt) \in Nat /\ Len(ss) <= Len(tt) /\ coreAck <= coreAck
      BY <1>4
    <3> HIDE DEF l, ss, tt
    <3>4. LineOK(l, tt, coreAck, doubtful, stranded)
      BY <1>4, <3>1, <3>2, <3>3, CalmLine
    <3> QED   BY <1>2, <2>1, <3>4 DEF l, tt
  <2>2. CASE asrun'[i] = line
    <3>1. streams'[n] = t /\ n \in 1..Len(streams')
      BY <1>3, OneStream DEF WritesLine, Stream
    <3>2. /\ line.via = n /\ t.pc \in Writing /\ t.msg = line.rec /\ line.rec \in t.seen
          /\ \A q \in Records : q < line.rec => q <= coreAck \/ q \in stranded
      BY LineFacts
    <3>3. LineOK(line, streams', coreAck, doubtful, stranded)
      BY <3>1, <3>2 DEF LineOK
    <3> QED   BY <2>2, <3>3
  <2> QED   BY <1>2, <2>1, <2>2
<1>6. AgainOK'
  <2> SUFFICES ASSUME NEW m \in 1..Stream, NEW i \in 1..Len(asrun')
               PROVE  ServedOK(m, asrun'[i], streams', doubtful', stranded')
    BY <1>3 DEF AgainOK
  <2>1. CASE i \in 1..last
    <3> DEFINE l == asrun[i]
               ss == streams
               tt == streams'
    <3>1. ServedOK(m, l, ss, doubtful, stranded) /\ m \in 1..Len(ss)
      BY <2>1 DEF LogInv, AgainOK, Stream
    <3>2. CalmServed(m, ss[m], tt[m], Len(ss))
      BY <1>3 DEF AllCalm, Stream
    <3>3. Len(ss) \in Nat /\ Len(tt) \in Nat /\ Len(ss) <= Len(tt)
      BY <1>4
    <3> HIDE DEF l, ss, tt
    <3>4. ServedOK(m, l, tt, doubtful, stranded)
      BY <3>1, <3>2, <3>3, CalmServes
    <3> QED   BY <1>1, <1>2, <2>1, <3>4 DEF l, tt
  <2>2. CASE asrun'[i] = line
    BY <2>2, LineServed
  <2> QED   BY <1>2, <2>1, <2>2
<1>7. PairsOK'
  <2>1. \A m \in 1..Stream : \A h \in 1..(m - 1) : PairOK(m, h, streams', doubtful', stranded')
    BY <1>1, <1>3, PairsKept DEF LogInv, AllCalm
  <2> QED   BY <1>3, <2>1 DEF PairsOK
<1>8. LogGrowsInOrder' /\ EndEchoesStart'
  BY LineInOrder, LineEchoes
<1> QED
  BY <1>5, <1>6, <1>7, <1>8 DEF LogInv

LEMMA ReadsLog ==
  ASSUME FlowTypes, FlowTypes', FlowInv, LogInv, NEW n \in 1..Stream, HandlerReads(n)
  PROVE  LogInv'
<1> DEFINE s == streams[n]
<1>1. PICK t : HandlerTo(n, t) /\ Reads(s, t)
  BY ReadsTo DEF FlowInv
<1>2. /\ streams' = [streams EXCEPT ![n] = t] /\ s.pc = "reading" /\ s.up # <<>> /\ Head(s.up) # HELLO
      /\ UNCHANGED <<coreAck, doubtful, stranded>>
  BY <1>1 DEF HandlerReads, HandlerTo, clientVars
<1>3. CASE asrun' = asrun
  <2>1. LogKept
    BY <1>2, <1>3 DEF LogKept, FlowTypes
  <2>2. AllCalm /\ Stream' = Stream
    BY <1>1, <1>2, WritesCalm
  <2> QED   BY <2>1, <2>2, CalmStep
<1>4. CASE asrun' # asrun
  <2>1. PICK line : LineOf(n, s, line) /\ asrun' = Append(asrun, line) /\ ~Duplicate(s, Head(s.up))
    BY <1>4, ReadsLine
  <2>2. WritesLine(n, t, line)
    BY <1>1, <1>2, <2>1 DEF WritesLine
  <2> QED   BY <2>2, WritesLineLog
<1> QED
  BY <1>3, <1>4

-----------------------------------------------------------------------------

LEMMA InitLog == Init => LogInv
<1> SUFFICES ASSUME Init  PROVE LogInv
  OBVIOUS
<1>1. Stream = 0 /\ Len(asrun) = 0
  BY DEF Init, Stream
<1> QED
  BY <1>1 DEF LogInv, LinesOK, AgainOK, PairsOK, LogGrowsInOrder, EndEchoesStart

LEMMA StepLog == IInv /\ IInv' /\ FlowInv /\ LogInv /\ [Next]_vars => LogInv'
<1> SUFFICES ASSUME IInv, IInv', FlowInv, LogInv, [Next]_vars  PROVE LogInv'
  OBVIOUS
<1>1. FlowTypes /\ FlowTypes'
  <2>1. FlowTypes
    BY IInvTypes
  <2>2. FlowTypes'
    BY IInvTypes, PTL
  <2> QED   BY <2>1, <2>2
<1>2. ASSUME NEW n \in 1..Stream, Handler(n) \/ HandlerFails(n)  PROVE LogInv'
  <2>1. CASE HandlerGreets(n)
    BY <1>1, <2>1, GreetsLog
  <2>2. CASE HandlerReads(n)
    BY <1>1, <2>2, ReadsLog
  <2>3. CASE HandlerStarts(n) \/ HandlerWritesJsonl(n) \/ HandlerStores(n)
             \/ HandlerFails(n) \/ HandlerEnds(n)
    BY <1>1, <2>3, QuietLog
  <2> QED   BY <1>2, <2>1, <2>2, <2>3 DEF Handler
<1>3. CASE NetworkBreaks
  <2>1. LogKept
    BY <1>1, <1>3 DEF NetworkBreaks, clientVars, coreVars, LogKept, FlowTypes
  <2>2. Stream > 0 /\ \E t \in Broken(Conn) : streams' = [streams EXCEPT ![Stream] = t]
    BY <1>3 DEF NetworkBreaks
  <2> QED   BY <1>1, <2>1, <2>2, BreaksLog
<1>4. CASE CoreDies
  BY <1>1, <1>4, CoreDiesLog
<1>5. CASE AirDies \/ EmitThrows
  BY <1>1, <1>5, AirGoneLog DEF AirDies, EmitThrows
<1>6. CASE ClientConnects
  BY <1>1, <1>6, ConnectsLog
<1>7. CASE ClientReplays \/ ClientSends \/ HelloLost \/ HelloTimesOut \/ ClientCloses \/ AckReads
  BY <1>1, <1>7, ClientStepLog DEF HelloLost, HelloTimesOut
<1>8. CASE EmitAppends \/ EmitRefused \/ Stop \/ WriterFlushes \/ Ends \/ ClientJoins \/ UNCHANGED vars
  <2>1. UNCHANGED <<streams, stranded, asrun, coreAck, doubtful>>
    BY <1>8 DEF EmitAppends, EmitRefused, Stop, WriterFlushes, Ends, ClientJoins, vars, clientVars,
                coreVars
  <2>2. LogKept
    BY <1>1, <2>1 DEF LogKept, FlowTypes
  <2> QED   BY <1>1, <2>1, <2>2, SameLog
<1> QED
  BY <1>2, <1>3, <1>4, <1>5, <1>6, <1>7, <1>8 DEF Next, Emit, Client

\* The as-run file has every record once and in the order in which AIR emitted them, but
\* for what was written without its ack being stored, what the handler of an older stream
\* still held and what a replay missed; and the end of a segment has the index of its start.
THEOREM LogIsFaithful == Spec => []AsRunFaithful
<1>1. Init => IInv /\ FlowInv /\ LogInv
  BY InitIInv, InitFlow, InitLog
<1>2. (IInv /\ FlowInv /\ LogInv) /\ [Next]_vars => (IInv /\ FlowInv /\ LogInv)'
  BY StepIInv, StepFlow, StepLog
<1>3. IInv /\ FlowInv /\ LogInv => AsRunFaithful
  BY DEF LogInv, AsRunFaithful
<1> QED
  BY <1>1, <1>2, <1>3, PTL DEF Spec

=============================================================================
