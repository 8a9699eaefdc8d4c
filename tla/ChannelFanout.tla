--------------------------- MODULE ChannelFanout ---------------------------
(***************************************************************************)
(* How one channel's stream gets from AIR's socket to its viewers.         *)
(*                                                                         *)
(* ProgramDirector keeps one ChannelStream per channel.  Its reader thread *)
(* puts what it reads from the socket into a ring buffer, its fan-out      *)
(* thread takes it out and puts it into the queue of every subscriber, and *)
(* each viewer's response generator empties its own queue.  The request    *)
(* handlers run on one event loop.  A channel is torn down by another      *)
(* thread, which first stops the producer, then takes the ChannelStream    *)
(* from the registry and has it stopped in the background.                 *)
(*                                                                         *)
(* A chunk is its number; every chunk has the same size, one.  A ring or   *)
(* queue of n bytes is one of n chunks.  Viewers are requests: one that    *)
(* comes back is another one.                                              *)
(***************************************************************************)
EXTENDS Integers, Sequences, FiniteSets, SequencesExt

CONSTANTS
  Viewers,       \* the requests for the channel's stream
  RingChunks,    \* what the ring buffer holds
  ClientChunks,  \* what a client's queue holds
  MaxRuns,       \* bound: how often a producer is started
  MaxChunks      \* bound: chunks read from AIR

ASSUME FanoutAssumption ==
  /\ IsFiniteSet(Viewers) /\ Viewers # {}
  /\ RingChunks \in Nat \ {0} /\ ClientChunks \in Nat \ {0}
  /\ MaxRuns \in Nat /\ MaxChunks \in Nat

EOF == 0                             \* b"", which is no chunk

VARIABLES
  \* the manager and its producer (ChannelLifecycle has them in full)
  producer,   \* the run that is active_producer, 0 for None
  runs,       \* of each producer run: up, and whether its socket has been taken from
              \* reader_socket_queue
  tuned,      \* viewers that have tuned in
  \* ProgramDirector
  registry,   \* _fanout_buffers, 0 for none
  teardown,   \* where _stop_channel_internal is
  prewarm,    \* the prewarm timer is set
  \* ChannelStreams, in the order they were made
  fans,
  \* viewers
  pc,         \* where each one is
  ref,        \* the ChannelStream it got, 0 for none
  queue,      \* its BytesBoundedQueue
  last,       \* the last chunk it was sent
  \* history and bounds
  made,       \* chunks read from AIR
  mishaps     \* what went wrong: see the actions that add to it

managerVars == <<producer, runs, tuned>>
pdVars      == <<registry, teardown, prewarm>>
viewerVars  == <<pc, ref, queue, last>>
vars == <<managerVars, pdVars, fans, viewerVars, made, mishaps>>

NewRun == [up |-> TRUE, taken |-> FALSE]

NewFan(run) ==
  [ run     |-> run,
    source  |-> FALSE,     \* ts_source is set
    reader  |-> FALSE,     \* the reader thread is alive
    ring    |-> <<>>,
    closed  |-> FALSE,     \* the ring buffer's
    stop    |-> FALSE,     \* _stop_event
    stopped |-> FALSE,     \* _stopped
    threads |-> <<>>,      \* fan-out threads: "gone", "idle" or "busy" with a chunk
    hands   |-> <<>>,      \* the chunk each has in hand
    subs    |-> {},        \* subscribers
    newest  |-> 0,         \* history: the chunk last given to the subscribers
    stopper |-> "none" ]   \* the background thread that runs stop()

Fans      == 1..Len(fans)
\* Mutant of IsRunning: a stream without a subscriber counts as stopped.
IsWatched(f) == fans[f].reader /\ fans[f].subs # {}

IsRunning(f) == fans[f].reader /\ ~fans[f].stopped

Init ==
  /\ producer = 0 /\ runs = <<>> /\ tuned = {}
  /\ registry = 0 /\ teardown = "idle"
  /\ prewarm = TRUE                   \* one that never fires is as none
  /\ fans = <<>>
  /\ pc = [v \in Viewers |-> "out"] /\ ref = [v \in Viewers |-> 0]
  /\ queue = [v \in Viewers |-> <<>>] /\ last = [v \in Viewers |-> 0]
  /\ made = 0 /\ mishaps = {}

Set(f, fan) == fans' = [fans EXCEPT ![f] = fan]

-----------------------------------------------------------------------------
(* The producer, as far as the stream sees it.                             *)

StartRun == Len(runs) < MaxRuns /\ runs' = Append(runs, NewRun) /\ producer' = Len(runs) + 1

AirDies ==
  /\ producer # 0 /\ runs[producer].up
  /\ runs' = [runs EXCEPT ![producer].up = FALSE]
  /\ UNCHANGED <<producer, tuned, pdVars, fans, viewerVars, made, mishaps>>

\* The manager notices, and starts another one while viewers are tuned in.
ProducerRecovers ==
  /\ producer # 0 /\ ~runs[producer].up /\ teardown = "idle"
  /\ IF tuned # {} THEN StartRun ELSE producer' = 0 /\ UNCHANGED runs
  /\ UNCHANGED <<tuned, pdVars, fans, viewerVars, made, mishaps>>

-----------------------------------------------------------------------------
(* The reader thread.                                                      *)

\* What the reader leaves when its loop is over.
ReaderOver(fan) ==
  [fan EXCEPT !.reader = FALSE, !.source = FALSE, !.closed = TRUE, !.stopped = TRUE]

\* The factory takes the run's socket from its queue, where AIR's connection puts
\* it; once, and it waits until it is there.
ReaderConnects(f) ==
  LET fan == fans[f] IN
  /\ fan.reader /\ ~fan.source /\ ~fan.stop
  /\ runs[fan.run].up /\ ~runs[fan.run].taken
  /\ runs' = [runs EXCEPT ![fan.run].taken = TRUE]
  /\ Set(f, [fan EXCEPT !.source = TRUE])
  /\ UNCHANGED <<producer, tuned, pdVars, viewerVars, made, mishaps>>

\* No socket for twelve seconds, and the factory raises: no handler catches it, and
\* nothing after the loop is done.
ReaderCrashes(f) ==
  LET fan == fans[f] IN
  /\ fan.reader /\ ~fan.source /\ ~fan.stop
  /\ Set(f, [fan EXCEPT !.reader = FALSE])
  /\ UNCHANGED <<managerVars, pdVars, viewerVars, made, mishaps>>

\* Mutant of Newest: the oldest chunks are kept.
Oldest(s, n) == IF Len(s) <= n THEN s ELSE SubSeq(s, 1, n)

\* TsRingBuffer.put: the oldest chunks are dropped when it is over its size.
Newest(s, n) == IF Len(s) <= n THEN s ELSE SubSeq(s, Len(s) - n + 1, Len(s))
RingPut(fan, chunk) ==
  IF fan.closed THEN fan ELSE [fan EXCEPT !.ring = Newest(Append(@, chunk), RingChunks)]

ReaderReads(f) ==
  LET fan == fans[f] IN
  /\ fan.reader /\ fan.source /\ ~fan.stop /\ runs[fan.run].up
  /\ made < MaxChunks /\ made' = made + 1
  /\ Set(f, RingPut(fan, made + 1))
  /\ UNCHANGED <<managerVars, pdVars, viewerVars, mishaps>>

\* Mutant of ReaderEnds: an empty read is tried again.
ReaderEndsOnStop(f) ==
  /\ fans[f].reader /\ fans[f].stop
  /\ Set(f, ReaderOver(fans[f]))
  /\ UNCHANGED <<managerVars, pdVars, viewerVars, made, mishaps>>

\* End of file or a read error, or _stop_event.
ReaderEnds(f) ==
  LET fan == fans[f] IN
  /\ fan.reader
  /\ fan.stop \/ (fan.source /\ ~runs[fan.run].up)
  /\ Set(f, ReaderOver(fan))
  /\ UNCHANGED <<managerVars, pdVars, viewerVars, made, mishaps>>

-----------------------------------------------------------------------------
(* The fan-out thread.                                                     *)

\* A closed ring gives nothing, whatever it still holds.
FanGets(f, t) ==
  LET fan == fans[f] IN
  /\ fan.threads[t] = "idle" /\ ~fan.stop
  /\ ~fan.closed /\ fan.ring # <<>>
  /\ Set(f, [fan EXCEPT !.ring = Tail(@), !.threads[t] = "busy", !.hands[t] = Head(fan.ring)])
  /\ UNCHANGED <<managerVars, pdVars, viewerVars, made, mishaps>>

\* BytesBoundedQueue.put_nowait drops the oldest chunks when there is no room: the
\* policy is "drop_oldest", ProgramDirector never asks for "disconnect".
FanPuts(f, t) ==
  LET fan == fans[f] IN
  /\ fan.threads[t] = "busy"
  /\ queue' = [v \in Viewers |->
       IF v \in fan.subs THEN Newest(Append(queue[v], fan.hands[t]), ClientChunks) ELSE queue[v]]
  /\ Set(f, [fan EXCEPT !.threads[t] = "idle", !.hands[t] = 0, !.newest = fan.hands[t]])
  /\ UNCHANGED <<managerVars, pdVars, pc, ref, last, made, mishaps>>

\* Mutant of FanEnds: the ring is to be drained first.
FanEndsDrained(f, t) ==
  /\ fans[f].threads[t] = "idle" /\ fans[f].stop /\ fans[f].ring = <<>>
  /\ Set(f, [fans[f] EXCEPT !.threads[t] = "gone"])
  /\ UNCHANGED <<managerVars, pdVars, viewerVars, made, mishaps>>

FanEnds(f, t) ==
  /\ fans[f].threads[t] = "idle" /\ fans[f].stop
  /\ Set(f, [fans[f] EXCEPT !.threads[t] = "gone"])
  /\ UNCHANGED <<managerVars, pdVars, viewerVars, made, mishaps>>

-----------------------------------------------------------------------------
(* ChannelStream.start and stop.                                           *)

\* start() looks at the reader thread only; a ring that was closed stays closed.
Alive(fan) == \E t \in DOMAIN fan.threads : fan.threads[t] # "gone"
\* Mutant of Started: the ring buffer is opened again.
StartedReopened(fan) ==
  IF fan.reader THEN fan
  ELSE [fan EXCEPT !.stop = FALSE, !.stopped = FALSE, !.reader = TRUE, !.closed = FALSE,
                   !.threads = Append(@, "idle"), !.hands = Append(@, 0)]

Started(fan) ==
  IF fan.reader THEN fan
  ELSE [fan EXCEPT !.stop = FALSE, !.stopped = FALSE, !.reader = TRUE,
                   !.threads = Append(@, "idle"), !.hands = Append(@, 0)]

\* stop() does nothing to a stream whose reader has ended.
StopBegins(f) ==
  LET fan == fans[f] IN
  /\ fan.stopper = "called"
  /\ Set(f, IF fan.stopped THEN [fan EXCEPT !.stopper = "done"]
            ELSE [fan EXCEPT !.stop = TRUE, !.closed = TRUE, !.source = FALSE,
                             !.stopper = "joining"])
  /\ UNCHANGED <<managerVars, pdVars, viewerVars, made, mishaps>>

\* Both threads are joined, or five seconds each are over; the subscribers are
\* sent b"" and forgotten.
StopEnds(f) ==
  LET fan == fans[f] IN
  /\ fan.stopper = "joining"
  /\ Set(f, [fan EXCEPT !.stopper = "done", !.subs = {}, !.stopped = TRUE])
  /\ queue' = [v \in Viewers |-> IF v \in fan.subs THEN Append(queue[v], EOF) ELSE queue[v]]
  /\ UNCHANGED <<managerVars, pdVars, pc, ref, last, made, mishaps>>

-----------------------------------------------------------------------------
(* The request handler of a viewer.                                        *)

\* In an executor thread; the first viewer starts the producer.
TuneIn(v) ==
  /\ pc[v] = "out"
  /\ pc' = [pc EXCEPT ![v] = "tuned"] /\ tuned' = tuned \cup {v}
  /\ IF producer = 0 THEN StartRun ELSE UNCHANGED <<producer, runs>>
  /\ UNCHANGED <<pdVars, fans, ref, queue, last, made, mishaps>>

\* From _get_or_create_fanout_buffer to the end of subscribe() the event loop
\* does not run anything else.
LoopFree == \A v \in Viewers : pc[v] # "got"

\* _get_or_create_fanout_buffer: the one that runs, or a new one.
GetFanout(v) ==
  /\ pc[v] = "tuned" /\ LoopFree
  /\ IF registry # 0 /\ IsRunning(registry) /\ producer # 0
     THEN /\ ref' = [ref EXCEPT ![v] = registry] /\ pc' = [pc EXCEPT ![v] = "got"]
          /\ UNCHANGED <<registry, fans>>
     ELSE IF producer = 0
     THEN registry # 0 /\ registry' = 0 /\ UNCHANGED <<ref, pc, fans>>
     ELSE /\ fans' = Append(fans, NewFan(producer)) /\ registry' = Len(fans) + 1
          /\ ref' = [ref EXCEPT ![v] = registry'] /\ pc' = [pc EXCEPT ![v] = "got"]
  /\ UNCHANGED <<managerVars, teardown, prewarm, queue, last, made, mishaps>>

\* subscribe() starts the stream if its reader is not alive.
Subscribe(v) ==
  LET fan == fans[ref[v]] IN
  /\ pc[v] = "got" /\ pc' = [pc EXCEPT ![v] = "watching"]
  /\ Set(ref[v], Started([fan EXCEPT !.subs = @ \cup {v}]))
  /\ mishaps' = IF ~fan.reader /\ ~fan.closed /\ Alive(fan) THEN mishaps \cup {"two feeders"}
                ELSE mishaps
  /\ UNCHANGED <<managerVars, pdVars, ref, queue, last, made>>

\* _run_stream_cleanup.
Cleanup(v) ==
  /\ pc' = [pc EXCEPT ![v] = "gone"] /\ tuned' = tuned \ {v}
  /\ fans' = IF ref[v] = 0 THEN fans ELSE [fans EXCEPT ![ref[v]].subs = @ \ {v}]
  /\ ref' = [ref EXCEPT ![v] = 0]
  /\ queue' = [queue EXCEPT ![v] = <<>>] /\ last' = [last EXCEPT ![v] = 0]
  /\ UNCHANGED <<producer, runs, pdVars, made, mishaps>>

\* Ten tries, a second apart, have found no producer.
GivesUp(v) == pc[v] = "tuned" /\ producer = 0 /\ registry = 0 /\ Cleanup(v)

Receive(v) ==
  /\ pc[v] = "watching" /\ queue[v] # <<>> /\ Head(queue[v]) # EOF
  /\ last' = [last EXCEPT ![v] = Head(queue[v])] /\ queue' = [queue EXCEPT ![v] = Tail(@)]
  /\ UNCHANGED <<managerVars, pdVars, fans, pc, ref, made, mishaps>>

ReceiveEnd(v) == pc[v] = "watching" /\ queue[v] # <<>> /\ Head(queue[v]) = EOF /\ Cleanup(v)

\* Nothing has come for ten seconds.
Quiet(v) == ~fans[ref[v]].reader
TimesOut(v) == pc[v] = "watching" /\ queue[v] = <<>> /\ Quiet(v) /\ Cleanup(v)

\* The client closes the connection.
Disconnects(v) == pc[v] \in {"tuned", "watching"} /\ Cleanup(v)

-----------------------------------------------------------------------------
(* The end of a channel: _stop_channel_internal.                           *)

\* The linger timer after the last viewer.
LingerStops ==
  /\ teardown = "idle" /\ producer # 0 /\ tuned = {}
  /\ teardown' = "producer"
  /\ UNCHANGED <<managerVars, registry, prewarm, fans, viewerVars, made, mishaps>>

\* The prewarm timer looks at the subscribers of the stream.
Subscribers == IF registry = 0 THEN {} ELSE fans[registry].subs
PrewarmExpires ==
  /\ prewarm /\ teardown = "idle" /\ prewarm' = FALSE
  /\ teardown' = IF Subscribers = {} THEN "producer" ELSE teardown
  /\ mishaps' = IF Subscribers = {} /\ tuned # {} THEN mishaps \cup {"prewarm"} ELSE mishaps
  /\ UNCHANGED <<managerVars, registry, fans, viewerVars, made>>

StopProducer ==
  /\ teardown = "producer" /\ teardown' = "stream" /\ prewarm' = FALSE
  /\ producer' = 0
  /\ runs' = IF producer = 0 THEN runs ELSE [runs EXCEPT ![producer].up = FALSE]
  /\ mishaps' = IF tuned # {} THEN mishaps \cup {"stopped under a viewer"} ELSE mishaps
  /\ UNCHANGED <<tuned, registry, fans, viewerVars, made>>

\* Whatever stream is registered by now is the one that is stopped.
StopStream ==
  /\ teardown = "stream" /\ teardown' = "idle"
  /\ registry' = 0
  /\ fans' = IF registry = 0 THEN fans ELSE [fans EXCEPT ![registry].stopper = "called"]
  /\ mishaps' = IF registry # 0 /\ runs[fans[registry].run].up THEN mishaps \cup {"wrong stream"}
                ELSE mishaps
  /\ UNCHANGED <<managerVars, prewarm, viewerVars, made>>

-----------------------------------------------------------------------------

Reader(f)  == ReaderConnects(f) \/ ReaderReads(f) \/ ReaderEnds(f)
Fan(f, t)  == FanGets(f, t) \/ FanPuts(f, t) \/ FanEnds(f, t)
Stopper(f) == StopBegins(f) \/ StopEnds(f)
Viewer(v)  == GetFanout(v) \/ Subscribe(v) \/ GivesUp(v) \/ Receive(v)
                \/ ReceiveEnd(v) \/ TimesOut(v)
TearDown   == StopProducer \/ StopStream

Next ==
  \/ AirDies \/ ProducerRecovers
  \/ \E f \in Fans : \/ Reader(f) \/ ReaderCrashes(f) \/ Stopper(f)
                     \/ \E t \in DOMAIN fans[f].threads : Fan(f, t)
  \/ \E v \in Viewers : TuneIn(v) \/ Viewer(v) \/ Disconnects(v)
  \/ LingerStops \/ PrewarmExpires \/ TearDown

Spec == Init /\ [][Next]_vars

\* Every viewer makes at most one ChannelStream and starts at most one thread.
MaxFans == Cardinality(Viewers)

\* Threads go on and timers fire; nobody has to tune in or to disconnect, and AIR
\* need not die, nor connect.
FairSpec ==
  /\ Spec
  /\ \A f \in 1..MaxFans :
       /\ WF_vars(f \in Fans /\ Reader(f)) /\ WF_vars(f \in Fans /\ ReaderCrashes(f))
       /\ WF_vars(f \in Fans /\ Stopper(f))
       /\ \A t \in 1..MaxFans : WF_vars(f \in Fans /\ t \in DOMAIN fans[f].threads /\ Fan(f, t))
  /\ \A v \in Viewers : WF_vars(Viewer(v))
  /\ WF_vars(TearDown) /\ WF_vars(ProducerRecovers)

(***************************************************************************)
(* Properties.                                                             *)
(***************************************************************************)

FanType ==
  [ run : 1..MaxRuns, source : BOOLEAN, reader : BOOLEAN, ring : Seq(1..MaxChunks),
    closed : BOOLEAN, stop : BOOLEAN, stopped : BOOLEAN,
    threads : Seq({"gone", "idle", "busy"}), hands : Seq(0..MaxChunks),
    subs : SUBSET Viewers, newest : 0..MaxChunks,
    stopper : {"none", "called", "joining", "done"} ]

\* Every variable has its type; the ring buffer and the clients' queues never hold
\* more than their bytes, but for the end of the stream.
TypeOK ==
  /\ producer \in 0..Len(runs) /\ tuned \subseteq Viewers
  /\ runs \in Seq([up : BOOLEAN, taken : BOOLEAN]) /\ Len(runs) <= MaxRuns
  /\ registry \in {0} \cup Fans /\ teardown \in {"idle", "producer", "stream"}
  /\ prewarm \in BOOLEAN
  /\ fans \in Seq(FanType) /\ Len(fans) <= MaxFans
  /\ \A f \in Fans : /\ Len(fans[f].ring) <= RingChunks
                     /\ DOMAIN fans[f].hands = DOMAIN fans[f].threads
                     /\ \A v \in fans[f].subs : ref[v] = f
  /\ pc \in [Viewers -> {"out", "tuned", "got", "watching", "gone"}]
  /\ ref \in [Viewers -> {0} \cup Fans] /\ last \in [Viewers -> 0..MaxChunks]
  /\ queue \in [Viewers -> Seq(0..MaxChunks)]
  /\ \A v \in Viewers : Len(SelectSeq(queue[v], LAMBDA c : c # EOF)) <= ClientChunks
  /\ made \in 0..MaxChunks
  /\ mishaps \subseteq {"two feeders", "prewarm", "stopped under a viewer", "wrong stream"}

\* A slow viewer loses old chunks only: the one its stream gave out last is in its
\* queue or was sent to it.
LiveEdge ==
  \A f \in Fans : \A v \in fans[f].subs :
    (queue[v] # <<>> \/ last[v] # 0) => fans[f].newest \in ToSet(queue[v]) \cup {last[v]}

\* The stream that reads a live run is the registered one, so that every viewer
\* who comes joins it: unless a teardown that was overtaken by a viewer stopped the
\* new stream instead of the old.
LiveStreamRegistered ==
  \A f \in Fans :
    fans[f].source /\ runs[fans[f].run].up => registry = f \/ "wrong stream" \in mishaps

\* What a viewer is sent never goes back, although its stream may have been stopped
\* and started again under it: unless a stream whose socket never came was given a
\* second fan-out thread while its ring was open.
NeverBackward ==
  [][\A v \in Viewers : last'[v] \notin {0, last[v]} =>
        last'[v] > last[v] \/ "two feeders" \in mishaps]_vars

\* A request gets its stream or is answered with none; and the viewer of a run
\* that is over is not kept waiting for ever, although the reader that finds the
\* end of the run tells no subscriber.
StreamsEnd ==
  <>[](\A v \in Viewers :
         pc[v] \in {"out", "gone"} \/ (pc[v] = "watching" /\ runs[fans[ref[v]].run].up))

\* The threads of a stream end once _stop_event is set, unless a late subscriber
\* starts it again.
Over(f) == ~fans[f].reader /\ ~Alive(fans[f])
ThreadsEnd == <>[](\A f \in Fans : fans[f].stop => Over(f))
=============================================================================
