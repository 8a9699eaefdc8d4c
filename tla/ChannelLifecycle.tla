-------------------------- MODULE ChannelLifecycle --------------------------
(***************************************************************************)
(* When a channel is on air: viewers come and go, and ChannelManager       *)
(* starts and stops the channel's producer and its AIR process.            *)
(*                                                                         *)
(* Five threads change a channel:                                          *)
(*   - "viewer": the request threads in viewer_join and viewer_leave, one  *)
(*     at a time under _viewer_lock;                                       *)
(*   - "loop": the event loop, when the linger timer fires;                *)
(*   - "health": ProgramDirector's health loop, check_health() and tick(); *)
(*   - "event": the event thread of a playout session that ended;          *)
(*   - "recovery": the timer thread that restarts the producer.            *)
(* Only the first one takes _viewer_lock, so each is split into the steps  *)
(* between which the others can run; pc says where each one is.            *)
(***************************************************************************)
EXTENDS Integers, FiniteSets

CONSTANTS
  Viewers,           \* viewers that may tune in and out
  MaxRecovery,       \* _RECOVERY_MAX_ATTEMPTS
  MaxJoins,          \* bound: how often viewers tune in
  MaxEnds,           \* bound: how often AIR ends a session by itself
  MaxStartFailures   \* bound: how often a producer does not start

ASSUME LifecycleAssumption ==
  /\ IsFiniteSet(Viewers) /\ Viewers # {}
  /\ MaxRecovery \in Nat /\ MaxJoins \in Nat /\ MaxEnds \in Nat
  /\ MaxStartFailures \in Nat

Threads   == {"viewer", "loop", "health", "event", "recovery"}
Producers == 1..(MaxJoins + MaxEnds)

VARIABLES
  \* ChannelManager
  hasLoop,    \* _loop is set: the debug probe, which runs on the event loop, made the
              \* manager; a stream request makes it in an executor thread
  sessions,   \* viewer_sessions
  count,      \* runtime_state.viewer_count
  lock,       \* who holds _viewer_lock: a set of at most one viewer
  linger,     \* _linger_handle is set
  active,     \* active_producer, 0 for None
  teardown,   \* _teardown_started_station, as the producer asked to stop; 0 for None
  attempts,   \* _recovery_attempts
  timer,      \* _recovery_timer is set and has not fired
  \* BlockPlanProducer, and the AIR process it launched
  prods, built,
  \* the threads
  pc,         \* where each thread is
  mine,       \* the producer it has read a reference to, 0 for none
  seen,       \* what check_health() counted
  where,      \* where each viewer is
  \* history and bounds
  mishaps,    \* what has gone wrong: see the actions that add to it
  joins, ends, startFailures

managerVars == <<hasLoop, sessions, count, lock, linger, active, teardown, attempts, timer>>
prodVars    == <<prods, built>>
threadVars  == <<pc, mine, seen, where>>
boundVars   == <<joins, ends, startFailures>>
vars == <<managerVars, prodVars, threadVars, mishaps, boundVars>>

\* A producer that is built: status STOPPED, no session, no AIR process.
Fresh == [st |-> "new", status |-> "STOPPED", tearing |-> FALSE, session |-> FALSE,
          air |-> "off"]

Init ==
  /\ hasLoop \in BOOLEAN /\ sessions = {} /\ count = 0 /\ lock = {} /\ linger = FALSE
  /\ active = 0 /\ teardown = 0 /\ attempts = 0 /\ timer = FALSE
  /\ prods = [p \in Producers |-> Fresh] /\ built = 0
  /\ pc = [t \in Threads |-> "idle"] /\ mine = [t \in Threads |-> 0]
  /\ seen = 0 /\ where = [v \in Viewers |-> "away"]
  /\ mishaps = {} /\ joins = 0 /\ ends = 0 /\ startFailures = 0

-----------------------------------------------------------------------------
(* The producer.  start(), stop() and health() take its lock, and start()  *)
(* holds it until AIR is seeded; a thread reads active_producer first and  *)
(* waits for the lock of what it read.                                     *)

\* A thread goes on to a place: without a reference, with the one it reads now,
\* or with the one it has.
Move(t, place) == pc' = [pc EXCEPT ![t] = place]
Go(t, place)   == Move(t, place) /\ mine' = [mine EXCEPT ![t] = 0]
Bind(t, place) == Move(t, place) /\ mine' = [mine EXCEPT ![t] = active]
Keep(t, place) == Move(t, place) /\ UNCHANGED mine
Unlocked(p)    == prods[p].st # "starting"
Running(p)     == p # 0 /\ prods[p].st = "up" /\ prods[p].session   \* health() = "running"

\* A mutated form of Halted: stop() forgets AIR.
HaltedLeavingAir(p) ==
  IF prods[p].st # "up" THEN prods
  ELSE [prods EXCEPT ![p] = [st |-> "stopped", status |-> "STOPPED", tearing |-> FALSE,
                             session |-> FALSE, air |-> @.air]]

\* stop() does nothing to a producer that is not started.  PlayoutSession.stop()
\* terminates AIR only if its session is still running: an AIR process that ended
\* its session by itself is left running, and nobody refers to it any more.
Halted(p) ==
  IF prods[p].st # "up" THEN prods
  ELSE [prods EXCEPT ![p] = [st |-> "stopped", status |-> "STOPPED", tearing |-> FALSE,
                             session |-> FALSE, air |-> IF @.session THEN "off" ELSE "left"]]

Mishap(what, happened) == IF happened THEN {what} ELSE {}

\* active_producer is overwritten although it is not, any more, what the thread
\* stopped or failed to start.
WrongDrop(t) == Mishap("wrong drop", active \notin {0, mine[t]})

\* How the viewer at the lock, or another thread, is done.
Done(t, outcome) ==
  /\ Go(t, "idle")
  /\ lock' = IF t = "viewer" THEN {} ELSE lock
  /\ where' = IF t = "viewer" THEN [v \in Viewers |-> IF v \in lock THEN outcome ELSE where[v]]
              ELSE where

-----------------------------------------------------------------------------
(* _ensure_producer_running, by a join or by the recovery thread.          *)

Starters == {"viewer", "recovery"}
Ensuring == {t \in Starters : pc[t] \in {"ensure", "look", "replace", "quit", "build", "begin",
                                         "enter", "starting", "record"}}

\* If it raises, the join is refused, and the session stays in viewer_sessions;
\* a recovery is over.
Raise(t) ==
  /\ Done(t, "refused")
  /\ mishaps' = mishaps \cup WrongDrop(t)
                  \cup {IF t = "viewer" THEN "join refused" ELSE "recovery failed"}

\* The active producer is kept if it is running.
EnsureLook(t) ==
  \/ /\ pc[t] = "ensure"
     /\ IF active = 0 THEN Go(t, "build") ELSE Bind(t, "look")
     /\ mishaps' = mishaps \cup Mishap("two starts", Ensuring # {t})
     /\ UNCHANGED <<managerVars, prodVars, seen, where, boundVars>>
  \/ /\ pc[t] = "look" /\ Unlocked(mine[t])
     /\ IF Running(mine[t]) THEN Done(t, "watching")
                            ELSE Go(t, "replace") /\ UNCHANGED <<lock, where>>
     /\ UNCHANGED <<hasLoop, sessions, count, linger, active, teardown, attempts, timer,
                    prodVars, seen, mishaps, boundVars>>

\* Otherwise it is stopped and dropped ...
EnsureStop(t) ==
  \/ /\ pc[t] = "replace"
     /\ IF active = 0 THEN Go(t, "build") ELSE Bind(t, "quit")
     /\ UNCHANGED <<managerVars, prodVars, seen, where, mishaps, boundVars>>
  \/ /\ pc[t] = "quit" /\ Unlocked(mine[t]) /\ Go(t, "build")
     /\ prods' = Halted(mine[t]) /\ active' = 0
     /\ mishaps' = mishaps \cup WrongDrop(t)
     /\ UNCHANGED <<hasLoop, sessions, count, lock, linger, teardown, attempts, timer, built,
                    seen, where, boundVars>>

\* ... and a new one is built.
EnsureBuild(t) ==
  /\ pc[t] = "build" /\ Move(t, "begin")
  /\ built' = built + 1 /\ active' = built + 1 /\ mine' = [mine EXCEPT ![t] = built + 1]
  /\ mishaps' = mishaps \cup WrongDrop(t)
  /\ UNCHANGED <<hasLoop, sessions, count, lock, linger, teardown, attempts, timer, prods,
                 seen, where, boundVars>>

MayFail == startFailures < MaxStartFailures /\ startFailures' = startFailures + 1

\* Without a block for now the producer is dropped; otherwise whatever is active
\* by now is started.
EnsureBegin(t) ==
  /\ pc[t] = "begin"
  /\ \/ MayFail /\ active' = 0 /\ Raise(t)
     \/ active = 0 /\ Raise(t) /\ UNCHANGED <<active, startFailures>>
     \/ active # 0 /\ Bind(t, "enter") /\ UNCHANGED <<active, lock, where, mishaps, startFailures>>
  /\ UNCHANGED <<hasLoop, sessions, count, linger, teardown, attempts, timer, prodVars, seen,
                 joins, ends>>

\* start() of a producer that is started returns at once.
EnsureEnter(t) ==
  /\ pc[t] = "enter" /\ Unlocked(mine[t])
  /\ IF prods[mine[t]].st = "up" THEN Go(t, "record") /\ UNCHANGED prods
     ELSE Keep(t, "starting") /\ prods' = [prods EXCEPT ![mine[t]].st = "starting"]
  /\ UNCHANGED <<managerVars, built, seen, where, mishaps, boundVars>>

\* start() returns: AIR is up and seeded, or everything is cleaned up again.
EnsureStarted(t) ==
  /\ pc[t] = "starting"
  /\ \/ /\ prods' = [prods EXCEPT ![mine[t]] = [@ EXCEPT !.st = "up", !.status = "RUNNING",
                                                         !.session = TRUE, !.air = "up"]]
        /\ Go(t, "record") /\ UNCHANGED <<active, lock, where, mishaps, startFailures>>
     \/ /\ MayFail
        /\ prods' = [prods EXCEPT ![mine[t]] = [@ EXCEPT !.st = "failed", !.status = "ERROR"]]
        /\ active' = 0 /\ Raise(t)
  /\ UNCHANGED <<hasLoop, sessions, count, linger, teardown, attempts, timer, built,
                 seen, joins, ends>>

\* The endpoint is read from whatever is active by now; then the recovery budget
\* is reset.
EnsureRecord(t) ==
  /\ pc[t] = "record"
  /\ IF active = 0 THEN Raise(t) /\ UNCHANGED attempts
     ELSE attempts' = 0 /\ Done(t, "watching") /\ UNCHANGED mishaps
  /\ UNCHANGED <<hasLoop, sessions, count, linger, active, teardown, timer, prodVars,
                 seen, boundVars>>

Ensure(t) == \/ EnsureLook(t) \/ EnsureStop(t) \/ EnsureBuild(t)
             \/ EnsureBegin(t) \/ EnsureEnter(t) \/ EnsureStarted(t) \/ EnsureRecord(t)

-----------------------------------------------------------------------------
(* viewer_join and viewer_leave.                                           *)

JoinInsert(v) ==
  /\ lock = {} /\ where[v] = "away" /\ joins < MaxJoins
  /\ lock' = {v} /\ joins' = joins + 1 /\ sessions' = sessions \cup {v}
  /\ Go("viewer", "joining")
  /\ UNCHANGED <<hasLoop, count, linger, active, teardown, attempts, timer, prodVars,
                 seen, where, mishaps, ends, startFailures>>

\* 0 -> 1: a pending linger is cancelled.
JoinCount ==
  /\ pc["viewer"] = "joining"
  /\ count' = Cardinality(sessions)
  /\ IF count = 0 /\ count' = 1
     THEN linger' = FALSE /\ Go("viewer", "first") /\ UNCHANGED <<lock, where>>
     ELSE Done("viewer", "watching") /\ UNCHANGED linger
  /\ UNCHANGED <<hasLoop, sessions, active, teardown, attempts, timer, prodVars, seen,
                 mishaps, boundVars>>

\* on_first_viewer reads the count again.
JoinFirst ==
  /\ pc["viewer"] = "first"
  /\ IF count = 1 THEN Go("viewer", "ensure") /\ UNCHANGED <<lock, where>>
                  ELSE Done("viewer", "watching")
  /\ UNCHANGED <<hasLoop, sessions, count, linger, active, teardown, attempts, timer, prodVars,
                 seen, mishaps, boundVars>>

LeaveDelete(v) ==
  /\ lock = {} /\ where[v] = "watching"
  /\ lock' = {v} /\ sessions' = sessions \ {v}
  /\ Go("viewer", "leaving")
  /\ UNCHANGED <<hasLoop, count, linger, active, teardown, attempts, timer, prodVars,
                 seen, where, mishaps, boundVars>>

LeaveCount ==
  /\ pc["viewer"] = "leaving"
  /\ count' = Cardinality(sessions)
  /\ IF count = 1 /\ count' = 0 THEN Go("viewer", "last") /\ UNCHANGED <<lock, where>>
                                ELSE Done("viewer", "away")
  /\ UNCHANGED <<hasLoop, sessions, linger, active, teardown, attempts, timer, prodVars,
                 seen, mishaps, boundVars>>

\* on_last_viewer reads the count again and starts the linger; without an event
\* loop the channel is stopped at once, under the viewer lock.
LeaveLast ==
  /\ pc["viewer"] = "last"
  /\ IF count = 0 /\ ~linger /\ ~hasLoop
     THEN Go("viewer", "stop") /\ UNCHANGED <<lock, where, linger>>
     ELSE Done("viewer", "away") /\ linger' = (linger \/ count = 0)
  /\ UNCHANGED <<hasLoop, sessions, count, active, teardown, attempts, timer, prodVars,
                 seen, mishaps, boundVars>>

\* _linger_expire, without the viewer lock.
LingerExpires ==
  /\ linger /\ pc["loop"] = "idle"
  /\ linger' = FALSE
  /\ IF count = 0 THEN Go("loop", "stop") ELSE UNCHANGED <<pc, mine>>
  /\ UNCHANGED <<hasLoop, sessions, count, lock, active, teardown, attempts, timer, prodVars,
                 seen, where, mishaps, boundVars>>

-----------------------------------------------------------------------------
(* ProgramDirector.stop_channel, by the linger timer or by a leave.        *)

Stoppers == {"viewer", "loop"}

StopChannel(t) ==
  /\ pc[t] = "stop" /\ Go(t, "check")
  /\ linger' = FALSE /\ attempts' = 0 /\ timer' = FALSE
  /\ UNCHANGED <<hasLoop, sessions, count, lock, active, teardown, prodVars, seen, where,
                 mishaps, boundVars>>

\* _check_teardown_completion, by a stop or by the health loop: a teardown that
\* was asked for is over when the active producer is not tearing down.
AfterCheck(t) == IF t = "health" THEN "idle" ELSE "request"

TeardownCheck(t) ==
  /\ pc[t] = "check"
  /\ IF teardown = 0 \/ (active # 0 /\ prods[active].tearing)
     THEN Go(t, AfterCheck(t))
     ELSE Bind(t, IF active = 0 \/ prods[active].status = "STOPPED" THEN "finalize" ELSE "force")
  /\ mishaps' = mishaps \cup Mishap("late teardown", teardown # 0 /\ active \notin {0, teardown})
  /\ UNCHANGED <<managerVars, prodVars, seen, where, boundVars>>

\* _finalize_teardown: a producer that is not STOPPED is stopped now, and
\* whatever is active by now is dropped.
TeardownFinalize(t) ==
  /\ \/ pc[t] = "finalize" /\ UNCHANGED prods
     \/ pc[t] = "force" /\ Unlocked(mine[t]) /\ prods' = Halted(mine[t])
  /\ Go(t, AfterCheck(t)) /\ teardown' = 0 /\ active' = 0
  /\ mishaps' = mishaps \cup WrongDrop(t)
  /\ UNCHANGED <<hasLoop, sessions, count, lock, linger, attempts, timer, built, seen,
                 where, boundVars>>

\* The rest of _stop_producer_if_idle: the producer is asked to stop.
StopRequest(t) ==
  /\ pc[t] = "request" /\ Go(t, "halt")
  /\ IF count = 0 /\ active # 0 /\ ~prods[active].tearing
     THEN /\ teardown' = active
          /\ prods' = [prods EXCEPT ![active] = [@ EXCEPT !.tearing = TRUE, !.status = "STOPPING"]]
     ELSE UNCHANGED <<teardown, prods>>
  /\ UNCHANGED <<hasLoop, sessions, count, lock, linger, active, attempts, timer, built,
                 seen, where, mishaps, boundVars>>

\* A mutated form of StopHalt: the producer is only asked to stop.
AsksOnly(t) ==
  /\ pc[t] = "halt" /\ Done(t, "away")
  /\ UNCHANGED <<hasLoop, sessions, count, linger, active, teardown, attempts, timer,
                 prodVars, seen, mishaps, boundVars>>

\* ProgramDirector then stops the active producer itself, viewers or not, and
\* drops whatever is active by then.
StopHalt(t) ==
  \/ /\ pc[t] = "halt"
     /\ IF active = 0 THEN Done(t, "away")
                      ELSE Bind(t, "kill") /\ UNCHANGED <<lock, where>>
     /\ mishaps' = mishaps \cup Mishap("stop missed a start", active = 0 /\ Ensuring # {})
     /\ UNCHANGED <<hasLoop, sessions, count, linger, active, teardown, attempts, timer,
                    prodVars, seen, boundVars>>
  \/ /\ pc[t] = "kill" /\ Unlocked(mine[t])
     /\ prods' = Halted(mine[t]) /\ active' = 0 /\ Done(t, "away")
     /\ mishaps' = mishaps \cup WrongDrop(t)
                    \cup Mishap("stop missed a start", Ensuring # {})
                    \cup Mishap("stopped with viewers", sessions # {})
     /\ UNCHANGED <<hasLoop, sessions, count, linger, teardown, attempts, timer, built,
                    seen, boundVars>>

Stop(t)     == StopChannel(t) \/ StopRequest(t) \/ StopHalt(t)
Teardown(t) == TeardownCheck(t) \/ TeardownFinalize(t)

-----------------------------------------------------------------------------
(* The health loop: check_health() recounts the viewers without the lock;  *)
(* tick() looks after a teardown.                                          *)

HealthCount ==
  /\ pc["health"] = "idle" /\ Go("health", "publish")
  /\ seen' = Cardinality(sessions)
  /\ UNCHANGED <<managerVars, prodVars, where, mishaps, boundVars>>

HealthPublish ==
  /\ pc["health"] = "publish" /\ Go("health", "check")
  /\ count' = seen /\ seen' = 0
  /\ mishaps' = mishaps \cup Mishap("stale count", count # seen)
  /\ UNCHANGED <<hasLoop, sessions, lock, linger, active, teardown, attempts, timer, prodVars,
                 where, boundVars>>

-----------------------------------------------------------------------------
(* Failures of AIR and the recovery from them.                             *)

OnAir(p) == Running(p) /\ prods[p].air = "up"

\* AIR ends its session with a reason that can be recovered from; the event
\* thread marks the session before it tells the manager.
SessionEnds ==
  /\ ends < MaxEnds /\ ends' = ends + 1
  /\ pc["event"] = "idle" /\ Go("event", "failed")
  /\ \E p \in Producers : OnAir(p) /\ prods' = [prods EXCEPT ![p].session = FALSE]
  /\ UNCHANGED <<managerVars, built, seen, where, mishaps, joins, startFailures>>

\* A mutated form of Recoverable: one viewer is not enough.
RecoverableForMany == count > 1 /\ attempts < MaxRecovery

\* _on_producer_session_end: one timer, replaced if it is pending.
Recoverable == count # 0 /\ attempts < MaxRecovery

OnProducerSessionEnd ==
  /\ pc["event"] = "failed" /\ Go("event", "idle")
  /\ attempts' = IF count # 0 THEN attempts + 1 ELSE attempts
  /\ timer' = (timer \/ Recoverable)
  /\ mishaps' = mishaps \cup Mishap("gave up", attempts' > MaxRecovery)
  /\ UNCHANGED <<hasLoop, sessions, count, lock, linger, active, teardown, prodVars, seen,
                 where, boundVars>>

\* The timer fires: _attempt_recovery.
AttemptRecovery ==
  /\ timer /\ pc["recovery"] = "idle"
  /\ timer' = FALSE
  /\ IF count = 0 THEN attempts' = 0 /\ UNCHANGED <<pc, mine>>
                  ELSE Go("recovery", "ensure") /\ UNCHANGED attempts
  /\ UNCHANGED <<hasLoop, sessions, count, lock, linger, active, teardown, prodVars, seen,
                 where, mishaps, boundVars>>

-----------------------------------------------------------------------------
\* What each thread does once it has begun; beginning is for viewers, AIR and
\* the clock.
ViewerThread   == JoinCount \/ JoinFirst \/ LeaveCount \/ LeaveLast
                  \/ Ensure("viewer") \/ Stop("viewer") \/ Teardown("viewer")
LoopThread     == LingerExpires \/ Stop("loop") \/ Teardown("loop")
HealthThread   == HealthCount \/ HealthPublish \/ Teardown("health")
EventThread    == OnProducerSessionEnd
RecoveryThread == AttemptRecovery \/ Ensure("recovery")

Next == \/ ViewerThread \/ LoopThread \/ HealthThread \/ EventThread \/ RecoveryThread
        \/ SessionEnds
        \/ \E v \in Viewers : JoinInsert(v) \/ LeaveDelete(v)

Spec == Init /\ [][Next]_vars

-----------------------------------------------------------------------------
ProdType == [st : {"new", "starting", "up", "stopped", "failed"},
             status : {"STOPPED", "RUNNING", "STOPPING", "ERROR"},
             tearing : BOOLEAN, session : BOOLEAN, air : {"off", "up", "left"}]

Places == [viewer   |-> {"idle", "joining", "first", "leaving", "last", "ensure", "look",
                         "replace", "quit", "build", "begin", "enter", "starting", "record",
                         "stop", "check", "finalize", "force", "request", "halt", "kill"},
           loop     |-> {"idle", "stop", "check", "finalize", "force", "request", "halt", "kill"},
           health   |-> {"idle", "publish", "check", "finalize", "force"},
           event    |-> {"idle", "failed"},
           recovery |-> {"idle", "ensure", "look", "replace", "quit", "build", "begin", "enter",
                         "starting", "record"}]

\* Every variable has its type, the viewer lock is held exactly while a viewer is
\* at work, and a linger is pending only where there is an event loop.
TypeOK ==
  /\ hasLoop \in BOOLEAN /\ linger \in BOOLEAN /\ timer \in BOOLEAN /\ (linger => hasLoop)
  /\ sessions \subseteq Viewers /\ count \in 0..Cardinality(Viewers)
  /\ lock \subseteq Viewers /\ Cardinality(lock) <= 1 /\ (lock = {} <=> pc["viewer"] = "idle")
  /\ built \in 0..Cardinality(Producers) /\ active \in 0..built /\ teardown \in 0..built
  /\ attempts \in 0..MaxEnds
  /\ prods \in [Producers -> ProdType]
  /\ DOMAIN pc = Threads /\ \A t \in Threads : pc[t] \in Places[t]
  /\ mine \in [Threads -> 0..built] /\ seen \in 0..Cardinality(Viewers)
  /\ where \in [Viewers -> {"away", "watching", "refused"}]
  /\ joins \in 0..MaxJoins /\ ends \in 0..MaxEnds
  /\ startFailures \in 0..MaxStartFailures

Free(bad) == mishaps \cap bad = {}

\* Nothing is going on and no timer is pending; the health loop may be anywhere
\* but in a teardown.
Quiet == /\ \A t \in Threads \ {"health"} : pc[t] = "idle"
         /\ pc["health"] \notin {"finalize", "force"} /\ ~timer

\* A channel with viewers is on air once everything has settled, unless a start
\* failed, or the channel was stopped under its viewers.
ViewersServed ==
  Quiet /\ sessions # {}
  /\ Free({"join refused", "recovery failed", "gave up", "stale count", "late teardown",
           "stopped with viewers", "wrong drop"})
  => active # 0 /\ OnAir(active)

\* stop() leaves the process of a session that AIR ended by itself, and no other.
LeftPerEnd == Cardinality({p \in Producers : prods[p].air = "left"}) <= ends

\* The active producer is the only one whose AIR process is up, so whoever stops
\* the channel can stop it, unless a teardown came late, or a start overlapped a
\* stop or another start; and there is at most one process that a stop has left
\* per session that AIR has ended.
NoOrphanAir ==
  /\ Free({"late teardown", "wrong drop", "two starts", "stop missed a start"})
     => \A p \in Producers : prods[p].air = "up" => p = active
  /\ LeftPerEnd

\* A channel that everyone has left is off the air once everything has settled,
\* unless a start overlapped the stop or another start.
IdleStopped ==
  Quiet /\ sessions = {} /\ ~linger
  /\ Free({"stale count", "late teardown", "wrong drop", "two starts", "stop missed a start"})
  => \A p \in Producers : ~OnAir(p)
=============================================================================
