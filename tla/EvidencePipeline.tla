-------------------------- MODULE EvidencePipeline --------------------------
(***************************************************************************)
(* How a record of what was aired gets from AIR into Core's as-run log.    *)
(*                                                                         *)
(* The tick thread numbers a record (EvidenceEmitter), appends it to the   *)
(* spool and hands it to the gRPC client.  The spool's writer thread puts  *)
(* it into a file a little later.  The client's connection thread opens a  *)
(* stream, says HELLO, replays the spool file and then sends what it was   *)
(* handed; its ack thread notes Core's cumulative acks.  Each stream has a *)
(* handler thread in Core, which writes the two as-run files, then stores  *)
(* the ack, then sends it.  Streams break, Core and AIR die.               *)
(*                                                                         *)
(* A record is its sequence number, which its uuid never differs from; the *)
(* odd ones open a segment and the even ones close it.  The records of one *)
(* spool have the same size, one.                                          *)
(***************************************************************************)
EXTENDS Integers, Sequences, FiniteSets, SequencesExt

CONSTANTS
  SpoolCaps,     \* values of max_spool_bytes_ to look at, in records; 0 is unlimited
  Workers,       \* max_workers of Core's gRPC server
  BusyWorkers,   \* how many of them the streams of other channels may hold
  MaxSequence,   \* bound: records emitted
  MaxFaults      \* bound: streams broken by the network or a failed write, deaths of Core
                 \* or AIR, and HELLOs whose ack does not come within five seconds

ASSUME EvidenceAssumption ==
  /\ SpoolCaps \subseteq Nat /\ SpoolCaps # {}
  /\ Workers \in Nat /\ Workers > 0
  /\ BusyWorkers \subseteq 0..Workers /\ BusyWorkers # {}
  /\ MaxSequence \in Nat /\ MaxFaults \in Nat

Records == 1..MaxSequence
HELLO   == 0                       \* its sequence number
NoIndex == -1                      \* last_segment_index before any SEGMENT_START

Opens(r)   == r % 2 = 1            \* SEGMENT_START
Segment(r) == (r + 1) \div 2       \* the segment it is about

VARIABLES
  \* EvidenceEmitter, on the tick thread
  air,           \* "up", "stopping" (the client's destructor runs), "ended" or "dead"
  sequence,      \* sequence_: the last number taken
  refused,       \* history: records the full spool did not take
  \* EvidenceSpool
  cap,           \* max_spool_bytes_
  writeQueue,    \* write_queue_, and the batch the writer thread has swapped out of it
  spoolFile,     \* the .spool.jsonl file
  lastAppended,  \* last_appended_sequence_, and so the length of record_byte_sizes_
  ackCursor,     \* ack_cursor_, and so acked_byte_offset_
  ackFile,       \* the .ack file
  \* GrpcEvidenceClient
  client,        \* where the connection thread is
  sendQueue,     \* send_queue_
  lastAcked,     \* last_acked_
  stranded,      \* history: records that a replay did not find in the file and that
                 \* are not in send_queue_ any more
  \* the streams, in the order they were opened, with Core's handler of each
  streams,
  \* Core
  busy,          \* worker threads held by other channels' streams
  coreAck,       \* DurableAckStore
  asrun,         \* the .asrun file: lines of [rec, index, via]
  jsonl,         \* the records in the .asrun.jsonl file
  doubtful,      \* history: records that may be written again, see Doubt
  faults

emitterVars == <<air, sequence, refused>>
spoolVars   == <<cap, writeQueue, spoolFile, lastAppended>>
ackVars     == <<ackCursor, ackFile, lastAcked>>
clientVars  == <<client, sendQueue, stranded>>
coreVars    == <<busy, coreAck, asrun, jsonl, doubtful>>
vars == <<emitterVars, spoolVars, ackVars, clientVars, coreVars, streams, faults>>

\* A stream whose HELLO is on its way; no worker thread has it yet.
NewStream ==
  [ up    |-> <<HELLO>>,  \* from AIR to Core
    down  |-> <<>>,       \* acks from Core to AIR
    live  |-> TRUE,       \* the transport holds
    eof   |-> FALSE,      \* WritesDone
    greeted |-> FALSE,    \* the ack thread is past the first ack
    pc    |-> "waiting",  \* where the handler is
    msg   |-> 0,          \* the record it handles
    floor |-> 0,          \* durable_ack_seq
    seen  |-> {},         \* seen_uuids
    index |-> NoIndex,    \* last_segment_index
    terminals |-> {} ]    \* emitted_terminals; one block, so the index is the key

\* The same when its handler has returned: only the client's end is left.
Left(s) ==
  [NewStream EXCEPT !.up = <<>>, !.down = s.down, !.live = s.live, !.eof = s.eof,
                    !.greeted = s.greeted, !.pc = "done"]

Stream    == Len(streams)                 \* the client's, which is the last one
Conn      == streams[Stream]
Handling  == {"reading", "half", "store"}
Held      == {n \in 1..Stream : streams[n].pc \in Handling}
Logged(r) == r \in jsonl /\ \E i \in 1..Len(asrun) : asrun[i].rec = r

Init ==
  /\ air = "up" /\ sequence = 0 /\ refused = {}
  /\ cap \in SpoolCaps
  /\ writeQueue = <<>> /\ spoolFile = <<>> /\ lastAppended = 0
  /\ ackCursor = 0 /\ ackFile = 0 /\ lastAcked = 0
  /\ client = "idle" /\ sendQueue = <<>> /\ stranded = {}
  /\ streams = <<>>
  /\ busy \in BusyWorkers
  /\ coreAck = 0 /\ asrun = <<>> /\ jsonl = {} /\ doubtful = {}
  /\ faults = 0

(***************************************************************************)
(* The tick thread: an Emit function.                                      *)
(***************************************************************************)

\* Append() throws for a record that is not the one after the last appended.
Gap(r) == lastAppended # 0 /\ r # lastAppended + 1

\* Mutant of Full: the record to be appended is not counted.
FullByOne == cap > 0 /\ lastAppended - ackCursor > cap

\* The cap is on what Core has not acknowledged.
Full == cap > 0 /\ lastAppended - ackCursor + 1 > cap

\* Append(), then the client's Send(); the tick thread alone calls both.
EmitAppends ==
  LET r == sequence + 1 IN
  /\ air = "up" /\ r \in Records
  /\ ~Gap(r) /\ ~Full
  /\ sequence' = r /\ lastAppended' = r
  /\ writeQueue' = Append(writeQueue, r) /\ sendQueue' = Append(sendQueue, r)
  /\ UNCHANGED <<air, refused, cap, spoolFile, ackVars, client, stranded, coreVars,
                 streams, faults>>

\* A full spool drops the record, whose number is used up.
EmitRefused ==
  LET r == sequence + 1 IN
  /\ air = "up" /\ r \in Records
  /\ ~Gap(r) /\ Full
  /\ sequence' = r /\ refused' = refused \cup {r}
  /\ UNCHANGED <<air, spoolVars, ackVars, clientVars, coreVars, streams, faults>>

(***************************************************************************)
(* What breaks.                                                            *)
(***************************************************************************)

\* What a stream has left when its transport goes: of the messages on their
\* way, each end still gets the first ones.
Cut(s, k, j) == [s EXCEPT !.live = FALSE, !.up = SubSeq(@, 1, k), !.down = SubSeq(@, 1, j)]
Broken(s)    == {Cut(s, k, j) : k \in 0..Len(s.up), j \in 0..Len(s.down)}

Fault == faults < MaxFaults /\ faults' = faults + 1

NetworkBreaks ==
  /\ Fault /\ Stream > 0 /\ Conn.live
  /\ \E s \in Broken(Conn) : streams' = [streams EXCEPT ![Stream] = s]
  /\ UNCHANGED <<emitterVars, spoolVars, ackVars, clientVars, coreVars>>

\* Core dies and comes back: the handlers are gone, the files are not.
CoreDies ==
  /\ Fault /\ Stream > 0
  /\ \E j \in 0..Len(Conn.down) :
       streams' = [n \in 1..Stream |->
         Left([streams[n] EXCEPT !.live = FALSE,
                                 !.down = IF n = Stream THEN SubSeq(@, 1, j) ELSE <<>>])]
  /\ doubtful' = doubtful \cup {streams[n].msg : n \in {h \in Held : streams[h].pc \in {"half", "store"}}}
  /\ UNCHANGED <<emitterVars, spoolVars, ackVars, clientVars, busy, coreAck, asrun, jsonl>>

\* The AIR process is gone, with what its spool had not written; a process that
\* is started for the channel again has a new session and a new spool.
AirGone ==
  /\ air' = "dead"
  /\ streams' \in IF Stream = 0 THEN {streams} ELSE {[streams EXCEPT ![Stream] = s] : s \in Broken(Conn)}
  /\ UNCHANGED <<refused, spoolVars, ackVars, clientVars, coreVars>>

AirDies ==
  /\ air \in {"up", "stopping"} /\ Fault
  /\ AirGone /\ UNCHANGED sequence

\* Append() throws on the tick thread, where nothing catches it.
EmitThrows ==
  /\ air = "up" /\ sequence < MaxSequence
  /\ Gap(sequence + 1)
  /\ sequence' = sequence + 1 /\ AirGone /\ UNCHANGED faults

(***************************************************************************)
(* The spool's writer thread.                                              *)
(***************************************************************************)

WriterFlushes ==
  /\ air # "dead" /\ writeQueue # <<>>
  /\ spoolFile' = spoolFile \o writeQueue /\ writeQueue' = <<>>
  /\ UNCHANGED <<emitterVars, cap, lastAppended, ackVars, clientVars, coreVars, streams, faults>>

(***************************************************************************)
(* The client: ConnectionLoop and RunOneSession.                           *)
(***************************************************************************)

AirRuns == air \in {"up", "stopping"}

ClientConnects ==
  /\ air = "up" /\ client = "idle"
  /\ client' = "hello" /\ streams' = Append(streams, NewStream)
  /\ UNCHANGED <<emitterVars, spoolVars, ackVars, sendQueue, stranded, coreVars, faults>>

\* Write() of messages ms: on a broken stream they are lost, whether the client
\* is told so and closes the stream or not.
Writes(ms) ==
  IF Conn.live
  THEN client' = "live" /\ streams' = [streams EXCEPT ![Stream].up = @ \o ms]
  ELSE client' \in (IF ms = <<>> THEN {"live"} ELSE {"live", "closing"}) /\ UNCHANGED streams

\* What is in the spool file above record r: its last lines, for it is in order.
Above(r) ==
  LET below == {i \in DOMAIN spoolFile : spoolFile[i] <= r}
  IN  SubSeq(spoolFile, Cardinality(below) + 1, Len(spoolFile))

\* Mutant of Replay: starts one record too far.
ReplayAfterNext == Above(lastAcked + 1)

\* What is in the spool file above the ack.
Replay == Above(lastAcked)

\* Appended, not in the file yet, and not waiting to be sent either.
Missed == 1..lastAppended \ (ToSet(spoolFile) \cup ToSet(sendQueue))

ClientReplays ==
  /\ AirRuns /\ client = "hello" /\ Conn.greeted
  /\ Writes(Replay)
  /\ stranded' = stranded \cup Missed
  /\ UNCHANGED <<emitterVars, spoolVars, ackVars, sendQueue, coreVars, faults>>

ClientSends ==
  /\ AirRuns /\ client = "live" /\ sendQueue # <<>>
  /\ Writes(sendQueue) /\ sendQueue' = <<>>
  /\ UNCHANGED <<emitterVars, spoolVars, ackVars, stranded, coreVars, faults>>

WritesDone == streams' = [streams EXCEPT ![Stream].eof = TRUE]

\* No first ack within five seconds: the stream is gone, or its answer is late.
NoAnswer ==
  /\ AirRuns /\ client = "hello" /\ ~Conn.greeted
  /\ client' = "closing" /\ WritesDone
  /\ UNCHANGED <<emitterVars, spoolVars, ackVars, sendQueue, stranded, coreVars>>

HelloLost     == NoAnswer /\ ~Conn.live /\ UNCHANGED faults
HelloTimesOut == NoAnswer /\ Conn.live /\ Fault

\* The destructor has set shutdown_; what is still in send_queue_ is not sent.
ClientCloses ==
  /\ air = "stopping" /\ client \in {"hello", "live"}
  /\ client' = "closing" /\ WritesDone
  /\ UNCHANGED <<emitterVars, spoolVars, ackVars, sendQueue, stranded, coreVars, faults>>

\* The ack thread ends when Read() fails, and the session with it.
ClientJoins ==
  /\ AirRuns /\ client = "closing"
  /\ Conn.down = <<>> /\ (~Conn.live \/ Conn.pc = "done")
  /\ client' = "idle"
  /\ UNCHANGED <<emitterVars, spoolVars, ackVars, sendQueue, stranded, coreVars, streams, faults>>

\* StopBlockPlanSession, when the engine has been stopped.
Stop ==
  /\ air = "up"
  /\ air' = "stopping"
  /\ UNCHANGED <<sequence, refused, spoolVars, ackVars, clientVars, coreVars, streams, faults>>

Ends ==
  /\ air = "stopping" /\ client = "idle"
  /\ air' = "ended"
  /\ UNCHANGED <<sequence, refused, spoolVars, ackVars, clientVars, coreVars, streams, faults>>

(***************************************************************************)
(* The client's ack thread.                                                *)
(***************************************************************************)

\* EvidenceSpool::UpdateAck.
UpdateAck(seq) ==
  IF seq <= ackFile THEN UNCHANGED <<ackFile, ackCursor>>
  ELSE /\ ackFile' = seq
       /\ ackCursor' = IF seq > ackCursor THEN (IF seq < lastAppended THEN seq ELSE lastAppended)
                       ELSE ackCursor

\* The first ack is the answer to HELLO and replaces last_acked_ whatever it is.
AckReads ==
  LET seq == Head(Conn.down) IN
  /\ AirRuns /\ client # "idle" /\ Conn.down # <<>>
  /\ streams' = [streams EXCEPT ![Stream].down = Tail(@), ![Stream].greeted = TRUE]
  /\ IF ~Conn.greeted \/ seq > lastAcked
     THEN lastAcked' = seq /\ UpdateAck(seq)
     ELSE UNCHANGED ackVars
  /\ UNCHANGED <<emitterVars, spoolVars, clientVars, coreVars, faults>>

(***************************************************************************)
(* Core: EvidenceServicer.EvidenceStream, one handler for each stream.     *)
(***************************************************************************)

\* What the stream is after its handler has yielded an ack of seq.
Acked(s, seq) ==
  [s EXCEPT !.pc = "reading", !.msg = 0, !.down = IF s.live THEN Append(@, seq) ELSE @]

HandlerStarts(n) ==
  /\ streams[n].pc = "waiting" /\ busy + Cardinality(Held) < Workers
  /\ streams' = [streams EXCEPT ![n].pc = "reading"]
  /\ UNCHANGED <<emitterVars, spoolVars, ackVars, clientVars, coreVars, faults>>

\* Records that another handler has written and not stored, or has yet to
\* write, when handler n loads the ack that is stored.
Doubt(n) ==
  (UNION {ToSet(streams[h].up) \cup (IF streams[h].pc = "reading" THEN {} ELSE {streams[h].msg}) :
            h \in Held \ {n}}) \ {HELLO}

\* HELLO: the stored ack is loaded, and the answer is HELLO's own number.
HandlerGreets(n) ==
  LET s == streams[n] IN
  /\ s.pc = "reading" /\ s.up # <<>> /\ Head(s.up) = HELLO
  /\ streams' = [streams EXCEPT ![n] = Acked([s EXCEPT !.up = Tail(@), !.floor = coreAck], HELLO)]
  /\ doubtful' = doubtful \cup Doubt(n)
  /\ UNCHANGED <<emitterVars, spoolVars, ackVars, clientVars, busy, coreAck, asrun, jsonl, faults>>

\* Mutant of Duplicate: forgets what was acknowledged before this stream.
DuplicateInStream(s, r) == r \in s.seen

\* A duplicate is acknowledged and not written.
Duplicate(s, r) == r \in s.seen \/ r <= s.floor

\* _process_evidence: what stream t, with its message taken, is when the handler
\* has written the line of record r to the .asrun file.  A second terminal line
\* for the index last started is suppressed in both files.
IndexOf(t, r)    == IF Opens(r) THEN Segment(r) ELSE t.index
Suppressed(t, r) == ~Opens(r) /\ IndexOf(t, r) \in t.terminals
Written(t, r) ==
  IF Suppressed(t, r) THEN [t EXCEPT !.seen = @ \cup {r}, !.pc = "store", !.msg = r]
  ELSE [t EXCEPT !.seen = @ \cup {r}, !.pc = "half", !.msg = r, !.index = IndexOf(t, r),
                 !.terminals = IF Opens(r) THEN @ ELSE @ \cup {IndexOf(t, r)}]

HandlerReads(n) ==
  LET s == streams[n]
      r == Head(s.up)
      t == [s EXCEPT !.up = Tail(@)]
  IN
  /\ s.pc = "reading" /\ s.up # <<>> /\ r # HELLO
  /\ streams' = [streams EXCEPT ![n] = IF Duplicate(s, r) THEN Acked(t, r) ELSE Written(t, r)]
  /\ asrun' = IF Duplicate(s, r) \/ Suppressed(t, r) THEN asrun
              ELSE Append(asrun, [rec |-> r, index |-> IndexOf(t, r), via |-> n])
  /\ UNCHANGED <<emitterVars, spoolVars, ackVars, clientVars, busy, coreAck, jsonl, doubtful, faults>>

\* Mutant of HandlerWritesJsonl: the ack is sent before it is stored.
HandlerAcksEarly(n) ==
  /\ streams[n].pc = "half"
  /\ streams' = [streams EXCEPT ![n] = [Acked(@, @.msg) EXCEPT !.pc = "store", !.msg = streams[n].msg]]
  /\ jsonl' = jsonl \cup {streams[n].msg}
  /\ UNCHANGED <<emitterVars, spoolVars, ackVars, clientVars, busy, coreAck, asrun, doubtful, faults>>

\* The line in the .asrun.jsonl file.
HandlerWritesJsonl(n) ==
  /\ streams[n].pc = "half"
  /\ streams' = [streams EXCEPT ![n].pc = "store"]
  /\ jsonl' = jsonl \cup {streams[n].msg}
  /\ UNCHANGED <<emitterVars, spoolVars, ackVars, clientVars, busy, coreAck, asrun, doubtful, faults>>

\* DurableAckStore.update, and the ack.
HandlerStores(n) ==
  LET s == streams[n] IN
  /\ s.pc = "store"
  /\ coreAck' = IF s.msg > coreAck THEN s.msg ELSE coreAck
  /\ streams' = [streams EXCEPT ![n] = Acked(s, s.msg)]
  /\ UNCHANGED <<emitterVars, spoolVars, ackVars, clientVars, busy, asrun, jsonl, doubtful, faults>>

\* Mutant of HandlerFails: the exception is logged and the record goes on.
HandlerFailsQuietly(n) ==
  /\ Fault /\ streams[n].pc = "half"
  /\ streams' = [streams EXCEPT ![n].pc = "store"]
  /\ UNCHANGED <<emitterVars, spoolVars, ackVars, clientVars, busy, coreAck, asrun, jsonl, doubtful>>

\* A write fails: the exception ends the stream.
HandlerFails(n) ==
  LET s == streams[n] IN
  /\ Fault
  /\ \/ s.pc = "half" /\ doubtful' = doubtful \cup {s.msg}
     \/ /\ s.pc = "reading" /\ s.up # <<>> /\ Head(s.up) # HELLO
        /\ ~Duplicate(s, Head(s.up)) /\ UNCHANGED doubtful
  /\ streams' = [streams EXCEPT ![n] = Left([s EXCEPT !.live = FALSE])]
  /\ UNCHANGED <<emitterVars, spoolVars, ackVars, clientVars, busy, coreAck, asrun, jsonl>>

\* The client has closed the stream, or it is broken.
HandlerEnds(n) ==
  LET s == streams[n] IN
  /\ s.pc = "reading" /\ ((s.eof /\ s.up = <<>>) \/ ~s.live)
  /\ streams' = [streams EXCEPT ![n] = Left(s)]
  /\ UNCHANGED <<emitterVars, spoolVars, ackVars, clientVars, coreVars, faults>>

Handler(n) ==
  \/ HandlerStarts(n) \/ HandlerGreets(n) \/ HandlerReads(n) \/ HandlerWritesJsonl(n)
  \/ HandlerStores(n) \/ HandlerEnds(n)

Client == ClientConnects \/ HelloLost \/ ClientReplays \/ ClientSends \/ ClientCloses
          \/ ClientJoins \/ Ends
Emit   == EmitAppends \/ EmitRefused \/ EmitThrows

Next ==
  \/ Emit \/ Stop \/ WriterFlushes \/ Client \/ HelloTimesOut \/ AckReads
  \/ \E n \in 1..Stream : Handler(n) \/ HandlerFails(n)
  \/ NetworkBreaks \/ CoreDies \/ AirDies

Spec == Init /\ [][Next]_vars

\* Every thread goes on; what breaks need not.
FairSpec ==
  /\ Spec
  /\ WF_vars(WriterFlushes) /\ WF_vars(Client) /\ WF_vars(AckReads)
  /\ \A n \in 1..(1 + MaxFaults) : WF_vars(n <= Stream /\ Handler(n))

(***************************************************************************)
(* Properties.                                                             *)
(***************************************************************************)

StreamType ==
  [ up : Seq({HELLO} \cup Records), down : Seq({HELLO} \cup Records),
    live : BOOLEAN, eof : BOOLEAN, greeted : BOOLEAN,
    pc : {"waiting", "done"} \cup Handling, msg : {0} \cup Records,
    floor : {0} \cup Records, seen : SUBSET Records,
    index : {NoIndex} \cup Nat, terminals : SUBSET ({NoIndex} \cup Nat) ]

\* Every variable has its type; the spool holds every appended record once and in
\* order, and what the spool has not been told is acknowledged fits the cap.
TypeOK ==
  /\ air \in {"up", "stopping", "ended", "dead"}
  /\ sequence \in {0} \cup Records /\ refused \subseteq Records
  /\ cap \in SpoolCaps
  /\ spoolFile \o writeQueue = [i \in 1..lastAppended |-> i]
  /\ lastAppended <= sequence /\ ackCursor \in 0..lastAppended
  /\ cap > 0 => lastAppended - ackCursor <= cap
  /\ {ackFile, lastAcked, coreAck} \subseteq {0} \cup Records
  /\ client \in {"idle", "hello", "live", "closing"}
  /\ sendQueue \in Seq(Records) /\ stranded \subseteq Records
  /\ streams \in Seq(StreamType) /\ faults \in 0..MaxFaults
  /\ busy \in BusyWorkers /\ jsonl \subseteq Records /\ doubtful \subseteq Records
  /\ asrun \in Seq([rec : Records, index : {NoIndex} \cup Nat, via : Nat])

\* An ack means that the records up to it are in both as-run files (Core writes and
\* flushes before it stores and sends the ack), but for the records a replay missed
\* because the writer thread had not flushed them, and the end of a segment whose
\* start was missed.
AckedIsLogged ==
  \A r \in 1..coreAck : Logged(r) \/ r \in stranded \/ (~Opens(r) /\ r - 1 \in stranded)

\* AIR never takes a record for acknowledged that Core has not stored as
\* acknowledged, in memory, in its file or in an ack on its way.
AirBehindCore ==
  /\ {ackFile, lastAcked} \subseteq 0..coreAck
  /\ \A n \in 1..Stream : ToSet(streams[n].down) \subseteq 0..coreAck

\* The as-run file has every record once and in the order of emission: written
\* twice is only what was written without its ack being stored or what the handler
\* of an older stream still held, written late only what a replay missed.
LogGrowsInOrder ==
  \A i, j \in 1..Len(asrun) : i < j =>
    LET early == asrun[i].rec  late == asrun[j].rec IN
    /\ early = late => late \in doubtful
    /\ early > late => late \in doubtful \cup stranded

\* The end of a segment is logged with the index of that segment, or with none if
\* its start came through an older stream; with the index of another one only if
\* its start was missed.
EndEchoesStart ==
  \A i \in 1..Len(asrun) :
    LET line == asrun[i] IN
    ~Opens(line.rec) =>
      \/ line.index = Segment(line.rec)
      \/ /\ line.index = NoIndex
         /\ \A j \in 1..i - 1 : asrun[j].via = line.via => ~Opens(asrun[j].rec)
      \/ line.rec - 1 \in stranded

\* What is in the as-run file has happened so, in this order.
AsRunFaithful == LogGrowsInOrder /\ EndEchoesStart

\* A record on its way is logged in the end, unless the client has not noticed
\* that its stream broke, no worker thread is free, or AIR stops.
Unnoticed == client = "live" /\ ~Conn.live
EvidenceSettles ==
  <>[](\/ air # "up" \/ Unnoticed \/ busy = Workers
       \/ \A r \in 1..lastAppended :
            Logged(r) \/ r \in stranded \/ (~Opens(r) /\ r - 1 \in stranded))

=============================================================================
