----------------------- MODULE ChannelLifecycleProofs -----------------------
(***************************************************************************)
(* What ChannelLifecycle guarantees for any number of viewers, joins,      *)
(* session ends and failed starts: a channel with viewers is served, the   *)
(* only AIR process is the active producer's, and an idle channel goes off *)
(* the air, but for the named mishaps; and stops leave no more processes   *)
(* than AIR has ended sessions.                                            *)
(***************************************************************************)
EXTENDS ChannelLifecycle, FiniteSetTheorems, TLAPS

(***************************************************************************)
(* The steps, by what they do.                                             *)
(***************************************************************************)

Starts == \E t \in Starters : Ensure(t)
Stops  == \E t \in Stoppers : Stop(t)
Tears  == \E t \in {"viewer", "loop", "health"} : Teardown(t)
Joins  == (\E v \in Viewers : JoinInsert(v)) \/ JoinCount \/ JoinFirst
Leaves == (\E v \in Viewers : LeaveDelete(v)) \/ LeaveCount \/ LeaveLast
Health == HealthCount \/ HealthPublish
Fails  == SessionEnds \/ OnProducerSessionEnd \/ AttemptRecovery

LEMMA Steps ==
  ASSUME [Next]_vars
  PROVE  Joins \/ Leaves \/ Starts \/ Stops \/ Tears \/ LingerExpires \/ Health \/ Fails
         \/ UNCHANGED vars
BY DEF Next, ViewerThread, LoopThread, HealthThread, EventThread, RecoveryThread, Starts, Stops, Tears,
       Joins, Leaves, Health, Fails, Starters, Stoppers

\* One thread moves on, with a reference to p; the others stay where they are.
Moved(t, place, p) ==
  /\ DOMAIN pc' = Threads /\ DOMAIN mine' = Threads
  /\ pc'[t] = place /\ mine'[t] = p
  /\ \A u \in Threads \ {t} : pc'[u] = pc[u] /\ mine'[u] = mine[u]

Placed == DOMAIN pc = Threads /\ mine \in [Threads -> 0..built]

LEMMA Moves ==
  ASSUME Placed, NEW t \in Threads, NEW place
  PROVE  /\ Go(t, place) => Moved(t, place, 0)
         /\ Bind(t, place) => Moved(t, place, active)
         /\ Keep(t, place) => Moved(t, place, mine[t])
BY DEF Placed, Go, Bind, Keep, Move, Moved

LEMMA Dones ==
  ASSUME Placed, NEW t \in Threads, NEW outcome, Done(t, outcome)
  PROVE  /\ Moved(t, "idle", 0)
         /\ t # "viewer" => UNCHANGED <<lock, where>>
         /\ t = "viewer" =>
              /\ lock' = {}
              /\ where' = [v \in Viewers |-> IF v \in lock THEN outcome ELSE where[v]]
BY Moves DEF Done

(***************************************************************************)
(* Types.                                                                  *)
(***************************************************************************)

FlagType  == hasLoop \in BOOLEAN /\ linger \in BOOLEAN /\ timer \in BOOLEAN /\ (linger => hasLoop)
CountType == /\ sessions \subseteq Viewers /\ count \in 0..Cardinality(Viewers)
             /\ seen \in 0..Cardinality(Viewers)
LockType  == /\ lock = {} \/ \E v \in Viewers : lock = {v}
             /\ lock = {} <=> pc["viewer"] = "idle"
             /\ where \in [Viewers -> {"away", "watching", "refused"}]
RefType   == built \in 0..(MaxJoins + MaxEnds) /\ active \in 0..built /\ teardown \in 0..built
BoundType == joins \in 0..MaxJoins /\ ends \in 0..MaxEnds /\ startFailures \in 0..MaxStartFailures
PcType    == DOMAIN pc = Threads /\ \A t \in Threads : pc[t] \in Places[t]
ProdsType == prods \in [Producers -> ProdType]
MineType  == mine \in [Threads -> 0..built]

\* The conjuncts of TypeOK, with what is needed of the lock.
Types == /\ FlagType /\ CountType /\ LockType /\ RefType /\ BoundType /\ PcType /\ ProdsType
         /\ MineType /\ attempts \in 0..MaxEnds

LEMMA PlacesOf ==
  /\ \A t \in Starters : {"idle", "ensure", "look", "replace", "quit", "build", "begin", "enter",
                          "starting", "record"} \subseteq Places[t]
  /\ \A t \in Stoppers : {"idle", "stop", "check", "finalize", "force", "request", "halt", "kill"}
                           \subseteq Places[t]
  /\ {"joining", "first", "leaving", "last"} \subseteq Places["viewer"]
  /\ Places["health"] = {"idle", "publish", "check", "finalize", "force"}
  /\ Places["event"] = {"idle", "failed"}
BY DEF Starters, Stoppers, Places

\* The five threads are different.
LEMMA ThreadNames ==
  /\ Starters \subseteq Threads /\ Stoppers \subseteq Threads
  /\ {"viewer", "loop", "health", "event", "recovery"} = Threads
BY DEF Starters, Stoppers, Threads

LEMMA PcMoved ==
  ASSUME PcType, NEW t \in Threads, NEW place \in Places[t], NEW p, Moved(t, place, p)
  PROVE  PcType'
BY DEF PcType, Moved

\* Which thread a step moves, and where to.
LEMMA PcStep ==
  ASSUME PcType, MineType, [Next]_vars
  PROVE  PcType'
<1>0. Placed
  BY DEF PcType, MineType, Placed
<1> DEFINE Goes(t, place) == \E p : Moved(t, place, p)
<1>1. ASSUME NEW t \in Threads, NEW place \in Places[t], Goes(t, place) PROVE PcType'
  BY <1>1, PcMoved
<1>2. ASSUME UNCHANGED <<pc, mine>> PROVE PcType'
  BY <1>2 DEF PcType
<1>3. ASSUME NEW t \in Threads, NEW place
      PROVE  Go(t, place) \/ Bind(t, place) \/ Keep(t, place) => Goes(t, place)
  BY <1>0, Moves
<1>4. ASSUME NEW t \in Threads, NEW outcome, Done(t, outcome) PROVE Goes(t, "idle")
  BY <1>0, <1>4, Dones
<1> HIDE DEF Goes
<1>5. CASE Joins
  <2>1. \E place \in Places["viewer"] : Goes("viewer", place)
    BY <1>3, <1>4, <1>5, PlacesOf, ThreadNames
       DEF Joins, JoinInsert, JoinCount, JoinFirst, Starters
  <2> QED BY <1>1, <2>1, ThreadNames
<1>6. CASE Leaves
  <2>1. \E place \in Places["viewer"] : Goes("viewer", place)
    BY <1>3, <1>4, <1>6, PlacesOf, ThreadNames
       DEF Leaves, LeaveDelete, LeaveCount, LeaveLast, Starters, Stoppers
  <2> QED BY <1>1, <2>1, ThreadNames
<1>7. CASE Starts
  <2>1. PICK t \in Starters : Ensure(t)
    BY <1>7 DEF Starts
  <2>2. t \in Threads
    BY ThreadNames
  <2>3. \E place \in Places[t] : Goes(t, place)
    <3>1. CASE EnsureLook(t) \/ EnsureStop(t)
      BY <1>3, <1>4, <2>2, <3>1, PlacesOf DEF EnsureLook, EnsureStop
    <3>2. CASE EnsureBuild(t)
      <4>1. Goes(t, "begin")
        BY <1>0, <2>2, <3>2 DEF EnsureBuild, Goes, Moved, Move, Placed
      <4> QED BY <4>1, PlacesOf
    <3>3. CASE EnsureBegin(t) \/ EnsureStarted(t) \/ EnsureRecord(t)
      BY <1>3, <1>4, <2>2, <3>3, PlacesOf DEF EnsureBegin, EnsureStarted, EnsureRecord, Raise
    <3>4. CASE EnsureEnter(t)
      BY <1>3, <2>2, <3>4, PlacesOf DEF EnsureEnter
    <3> QED BY <2>1, <3>1, <3>2, <3>3, <3>4 DEF Ensure
  <2> QED BY <1>1, <2>2, <2>3
<1>8. CASE Stops
  <2>1. PICK t \in Stoppers : Stop(t)
    BY <1>8 DEF Stops
  <2>2. t \in Threads
    BY ThreadNames
  <2>3. \E place \in Places[t] : Goes(t, place)
    BY <1>3, <1>4, <2>1, <2>2, PlacesOf DEF Stop, StopChannel, StopRequest, StopHalt
  <2> QED BY <1>1, <2>2, <2>3
<1>9. CASE Tears
  <2>1. PICK t \in {"viewer", "loop", "health"} : Teardown(t)
    BY <1>9 DEF Tears
  <2>2. t \in Threads
    BY ThreadNames
  <2>3. {AfterCheck(t), "finalize", "force"} \subseteq Places[t]
    BY PlacesOf DEF AfterCheck, Stoppers
  <2>4. \E place \in {AfterCheck(t), "finalize", "force"} : Goes(t, place)
    BY <1>3, <2>1, <2>2 DEF Teardown, TeardownCheck, TeardownFinalize
  <2> QED BY <1>1, <2>2, <2>3, <2>4
<1>10. CASE LingerExpires
  BY <1>1, <1>2, <1>3, <1>10, PlacesOf, ThreadNames DEF LingerExpires, Stoppers
<1>11. CASE Health
  BY <1>1, <1>3, <1>11, PlacesOf, ThreadNames DEF Health, HealthCount, HealthPublish
<1>12. CASE Fails
  BY <1>1, <1>2, <1>3, <1>12, PlacesOf, ThreadNames
     DEF Fails, SessionEnds, OnProducerSessionEnd, AttemptRecovery, Starters
<1>13. CASE UNCHANGED vars
  BY <1>2, <1>13 DEF vars, threadVars
<1> QED BY <1>5, <1>6, <1>7, <1>8, <1>9, <1>10, <1>11, <1>12, <1>13, Steps

(***************************************************************************)
(* A producer is built at most once per join and per end of a session, and *)
(* each end of a session is counted at most once as an attempt.            *)
(***************************************************************************)

PreBuild  == {"joining", "first", "ensure", "look", "replace", "quit", "build"}
Making(t) == IF pc[t] \in PreBuild THEN 1 ELSE 0
Timing    == IF timer THEN 1 ELSE 0
Telling   == IF pc["event"] = "failed" THEN 1 ELSE 0
BuildInv   == built + Making("viewer") + Making("recovery") + Timing + Telling <= joins + ends
AttemptInv == attempts <= ends /\ (pc["event"] = "failed" => attempts < ends)

\* Nothing new is under way after a step that is not one of the five below.
Onward == /\ UNCHANGED <<built, joins, ends>>
          /\ timer' => timer
          /\ pc'["event"] = "failed" => pc["event"] = "failed"
          /\ \A t \in Starters : pc'[t] \in PreBuild => pc[t] \in PreBuild

LEMMA OnwardStep ==
  ASSUME Placed, PcType, [Next]_vars
  PROVE  \/ Onward
         \/ \E v \in Viewers : JoinInsert(v)
         \/ \E t \in Starters : EnsureBuild(t)
         \/ SessionEnds \/ OnProducerSessionEnd \/ AttemptRecovery
<1>1. ASSUME NEW t \in Threads \ {"event"}, NEW place, NEW p, Moved(t, place, p),
             UNCHANGED <<built, joins, ends>>, timer' => timer,
             place \in PreBuild => pc[t] \in PreBuild
      PROVE  Onward
  BY <1>1, ThreadNames DEF Moved, Onward, Starters
<1>2. ASSUME NEW t \in Threads \ {"event"}, NEW place,
             Go(t, place) \/ Bind(t, place) \/ Keep(t, place),
             UNCHANGED <<built, joins, ends>>, timer' => timer,
             place \in PreBuild => pc[t] \in PreBuild
      PROVE  Onward
  BY <1>1, <1>2, Moves
<1>3. ASSUME NEW t \in Threads \ {"event"}, NEW outcome, Done(t, outcome),
             UNCHANGED <<built, joins, ends>>, timer' => timer
      PROVE  Onward
  BY <1>1, <1>3, Dones DEF PreBuild
<1>4. ASSUME UNCHANGED <<built, joins, ends, timer, pc>>
      PROVE  Onward
  BY <1>4 DEF Onward
<1>5. {"viewer", "loop", "health", "recovery"} = Threads \ {"event"}
  BY DEF Threads
<1>6. CASE Joins
  BY <1>2, <1>3, <1>5, <1>6 DEF Joins, JoinCount, JoinFirst, PreBuild, prodVars, boundVars
<1>7. CASE Leaves
  BY <1>2, <1>3, <1>5, <1>7 DEF Leaves, LeaveDelete, LeaveCount, LeaveLast, PreBuild, prodVars, boundVars
<1>8. CASE Starts
  <2>1. PICK t \in Starters : Ensure(t)
    BY <1>8 DEF Starts
  <2>2. t \in Threads \ {"event"}
    BY <1>5 DEF Starters
  <2>3. CASE EnsureLook(t)
    <3>1. UNCHANGED <<built, joins, ends, timer>>
      BY <2>3 DEF EnsureLook, prodVars, managerVars, boundVars
    <3>2. Go(t, "build") \/ Bind(t, "look") \/ Go(t, "replace") \/ Done(t, "watching")
      BY <2>3 DEF EnsureLook
    <3>3. pc[t] \in PreBuild
      BY <2>3 DEF EnsureLook, PreBuild
    <3> QED BY <1>2, <1>3, <2>2, <3>1, <3>2, <3>3
  <2>4. CASE EnsureStop(t)
    BY <1>2, <1>3, <2>2, <2>4 DEF EnsureStop, PreBuild, prodVars, managerVars, boundVars
  <2>5. CASE EnsureBegin(t)
    BY <1>2, <1>3, <2>2, <2>5 DEF EnsureBegin, Raise, PreBuild, prodVars, boundVars
  <2>6. CASE EnsureEnter(t)
    BY <1>2, <1>3, <2>2, <2>6 DEF EnsureEnter, PreBuild, managerVars, boundVars
  <2>7. CASE EnsureStarted(t)
    BY <1>2, <1>3, <2>2, <2>7 DEF EnsureStarted, Raise, PreBuild
  <2>8. CASE EnsureRecord(t)
    BY <1>2, <1>3, <2>2, <2>8 DEF EnsureRecord, Raise, PreBuild, prodVars, boundVars
  <2> QED BY <2>1, <2>3, <2>4, <2>5, <2>6, <2>7, <2>8 DEF Ensure
<1>9. CASE Stops
  <2>1. PICK t \in Stoppers : Stop(t)
    BY <1>9 DEF Stops
  <2>2. t \in Threads \ {"event"}
    BY <1>5 DEF Stoppers
  <2>3. CASE StopChannel(t)
    BY <1>2, <2>2, <2>3 DEF StopChannel, PreBuild, prodVars, boundVars
  <2>4. CASE StopRequest(t)
    BY <1>2, <2>2, <2>4 DEF StopRequest, PreBuild, boundVars
  <2>5. CASE StopHalt(t)
    <3>1. UNCHANGED <<built, joins, ends, timer>>
      BY <2>5 DEF StopHalt, prodVars, boundVars
    <3>2. Bind(t, "kill") \/ Done(t, "away")
      BY <2>5 DEF StopHalt
    <3> QED BY <1>2, <1>3, <2>2, <3>1, <3>2 DEF PreBuild
  <2> QED BY <2>1, <2>3, <2>4, <2>5 DEF Stop
<1>10. CASE Tears
  <2>1. PICK t \in {"viewer", "loop", "health"} : Teardown(t)
    BY <1>10 DEF Tears
  <2>2. t \in Threads \ {"event"} /\ {AfterCheck(t), "finalize", "force"} \cap PreBuild = {}
    BY <1>5 DEF AfterCheck, PreBuild
  <2>3. CASE TeardownCheck(t)
    BY <1>2, <2>2, <2>3 DEF TeardownCheck, Mishap, prodVars, managerVars, boundVars
  <2>4. CASE TeardownFinalize(t)
    BY <1>2, <2>2, <2>4 DEF TeardownFinalize, boundVars
  <2> QED BY <2>1, <2>3, <2>4 DEF Teardown
<1>11. CASE LingerExpires
  BY <1>2, <1>4, <1>5, <1>11 DEF LingerExpires, PreBuild, prodVars, boundVars
<1>12. CASE Health
  <2>1. CASE HealthCount
    BY <1>2, <1>5, <2>1 DEF HealthCount, PreBuild, prodVars, managerVars, boundVars
  <2>2. CASE HealthPublish
    BY <1>2, <1>5, <2>2 DEF HealthPublish, PreBuild, prodVars, boundVars
  <2> QED BY <1>12, <2>1, <2>2 DEF Health
<1>13. CASE Fails
  BY <1>13 DEF Fails
<1>14. CASE UNCHANGED vars
  BY <1>4, <1>14 DEF vars, prodVars, managerVars, threadVars, boundVars
<1> QED BY <1>6, <1>7, <1>8, <1>9, <1>10, <1>11, <1>12, <1>13, <1>14, Steps

Ledger == /\ built \in Nat /\ joins \in Nat /\ ends \in Nat /\ attempts \in Nat
          /\ timer \in BOOLEAN

LEMMA Terms ==
  /\ \A t \in Threads : Making(t) \in {0, 1} /\ Making(t)' \in {0, 1}
  /\ Timing \in {0, 1} /\ Timing' \in {0, 1} /\ Telling \in {0, 1} /\ Telling' \in {0, 1}
BY DEF Making, Timing, Telling

LEMMA BuildStep ==
  ASSUME Placed, PcType, Ledger, BuildInv, [Next]_vars
  PROVE  BuildInv'
<1>0. /\ Making("viewer") \in {0, 1} /\ Making("viewer")' \in {0, 1}
      /\ Making("recovery") \in {0, 1} /\ Making("recovery")' \in {0, 1}
      /\ Timing \in {0, 1} /\ Timing' \in {0, 1} /\ Telling \in {0, 1} /\ Telling' \in {0, 1}
  BY Terms, ThreadNames
<1>1. CASE Onward
  <2>1. Making("viewer")' <= Making("viewer") /\ Making("recovery")' <= Making("recovery")
    BY <1>1 DEF Onward, Making, Starters
  <2>2. Timing' <= Timing /\ Telling' <= Telling
    BY <1>1 DEF Onward, Timing, Telling
  <2> QED BY <1>0, <1>1, <2>1, <2>2 DEF BuildInv, Onward, Ledger
<1>2. ASSUME NEW v \in Viewers, JoinInsert(v) PROVE BuildInv'
  <2>1. Moved("viewer", "joining", 0) /\ UNCHANGED <<built, ends, timer>> /\ joins' = joins + 1
    BY <1>2, Moves, ThreadNames DEF JoinInsert, prodVars
  <2>2. Making("recovery")' = Making("recovery") /\ Telling' = Telling /\ Timing' = Timing
    BY <2>1, ThreadNames DEF Moved, Making, Telling, Timing
  <2> QED BY <1>0, <2>1, <2>2 DEF BuildInv, Ledger
<1>3. ASSUME NEW t \in Starters, EnsureBuild(t) PROVE BuildInv'
  <2>1. Moved(t, "begin", built + 1) /\ UNCHANGED <<joins, ends, timer>> /\ built' = built + 1
    BY <1>3, ThreadNames DEF EnsureBuild, Move, Moved, Placed, boundVars
  <2>2. Making(t) = 1 /\ Making(t)' = 0 /\ Telling' = Telling /\ Timing' = Timing
    BY <1>3, <2>1, ThreadNames DEF EnsureBuild, PreBuild, Moved, Making, Telling, Timing, Starters
  <2>3. \A u \in Starters \ {t} : Making(u)' = Making(u)
    BY <2>1, ThreadNames DEF Moved, Making
  <2>4. \/ t = "viewer" /\ Making("recovery")' = Making("recovery")
        \/ t = "recovery" /\ Making("viewer")' = Making("viewer")
    BY <2>3 DEF Starters
  <2> QED BY <1>0, <2>1, <2>2, <2>4 DEF BuildInv, Ledger
<1>4. CASE SessionEnds
  <2>1. Moved("event", "failed", 0) /\ UNCHANGED <<joins, built, timer>> /\ ends' = ends + 1
    BY <1>4, Moves, ThreadNames DEF SessionEnds, managerVars
  <2>2. /\ Making("recovery")' = Making("recovery") /\ Making("viewer")' = Making("viewer")
        /\ Timing' = Timing
    BY <2>1, ThreadNames DEF Moved, Making, Timing
  <2> QED BY <1>0, <2>1, <2>2 DEF BuildInv, Ledger
<1>5. CASE OnProducerSessionEnd
  <2>1. Moved("event", "idle", 0) /\ UNCHANGED <<joins, built, ends>>
    BY <1>5, Moves, ThreadNames DEF OnProducerSessionEnd, prodVars, boundVars
  <2>2. /\ Making("recovery")' = Making("recovery") /\ Making("viewer")' = Making("viewer")
        /\ Telling = 1 /\ Telling' = 0
    BY <1>5, <2>1, ThreadNames DEF OnProducerSessionEnd, Moved, Making, Telling
  <2> QED BY <1>0, <2>1, <2>2 DEF BuildInv, Ledger
<1>6. CASE AttemptRecovery
  <2>1. Timing = 1 /\ Timing' = 0 /\ UNCHANGED <<joins, built, ends>>
    BY <1>6 DEF AttemptRecovery, Timing, prodVars, boundVars
  <2>2. Moved("recovery", "ensure", 0) \/ UNCHANGED pc
    BY <1>6, Moves, ThreadNames DEF AttemptRecovery
  <2>3. Making("viewer")' = Making("viewer") /\ Telling' = Telling
    BY <2>2, ThreadNames DEF Moved, Making, Telling
  <2>4. Making("recovery") = 0
    BY <1>6 DEF AttemptRecovery, Making, PreBuild
  <2> QED BY <1>0, <2>1, <2>3, <2>4 DEF BuildInv, Ledger
<1> QED BY <1>1, <1>2, <1>3, <1>4, <1>5, <1>6, OnwardStep

\* Only the end of a session that has viewers is an attempt.
LEMMA AttemptFrame ==
  ASSUME [Next]_vars
  PROVE  attempts' \in {0, attempts} \/ OnProducerSessionEnd
BY DEF Next, ViewerThread, LoopThread, HealthThread, EventThread, RecoveryThread, Ensure, EnsureLook,
       EnsureStop, EnsureBuild, EnsureBegin, EnsureEnter, EnsureStarted, EnsureRecord, Stop, StopChannel,
       StopRequest, StopHalt, Teardown, TeardownCheck, TeardownFinalize, JoinInsert, JoinCount, JoinFirst,
       LeaveDelete, LeaveCount, LeaveLast, LingerExpires, HealthCount, HealthPublish, SessionEnds,
       AttemptRecovery, vars, managerVars

LEMMA AttemptStep ==
  ASSUME Placed, PcType, Ledger, AttemptInv, [Next]_vars
  PROVE  AttemptInv'
<1>1. CASE OnProducerSessionEnd
  <2>1. pc["event"] = "failed" /\ Go("event", "idle")
    BY <1>1 DEF OnProducerSessionEnd
  <2>2. pc'["event"] = "idle"
    BY <2>1, Moves, ThreadNames DEF Moved
  <2>3. attempts' \in {attempts, attempts + 1} /\ UNCHANGED ends
    BY <1>1 DEF OnProducerSessionEnd, boundVars
  <2> QED BY <2>1, <2>2, <2>3 DEF AttemptInv, Ledger
<1>2. CASE ~OnProducerSessionEnd
  <2>1. attempts' \in {0, attempts}
    BY <1>2, AttemptFrame
  <2>2. CASE SessionEnds
    <3>1. ends' = ends + 1
      BY <2>2 DEF SessionEnds
    <3> QED BY <2>1, <3>1 DEF AttemptInv, Ledger
  <2>3. CASE ~SessionEnds
    <3>1. UNCHANGED ends /\ (pc'["event"] = "failed" => pc["event"] = "failed")
      <4>1. CASE Onward
        BY <4>1 DEF Onward
      <4>2. CASE \E v \in Viewers : JoinInsert(v)
        BY <4>2, Moves, ThreadNames DEF JoinInsert, Moved
      <4>3. CASE \E t \in Starters : EnsureBuild(t)
        BY <4>3, ThreadNames DEF EnsureBuild, Move, Placed, Starters, boundVars
      <4>4. CASE AttemptRecovery
        BY <4>4, Moves, ThreadNames DEF AttemptRecovery, Moved, boundVars
      <4> QED BY <1>2, <2>3, <4>1, <4>2, <4>3, <4>4, OnwardStep
    <3> QED BY <2>1, <3>1 DEF AttemptInv, Ledger
  <2> QED BY <2>2, <2>3
<1> QED BY <1>1, <1>2

(***************************************************************************)
(* Who changes what.                                                       *)
(***************************************************************************)

LEMMA RefFrame ==
  ASSUME [Next]_vars
  PROVE  \/ \E t \in Starters : EnsureStop(t) \/ EnsureBuild(t) \/ EnsureBegin(t) \/ EnsureStarted(t)
         \/ \E t \in Stoppers : StopRequest(t) \/ StopHalt(t)
         \/ \E t \in {"viewer", "loop", "health"} : TeardownFinalize(t)
         \/ UNCHANGED <<built, active, teardown>>
BY DEF Next, ViewerThread, LoopThread, HealthThread, EventThread, RecoveryThread, Starters, Stoppers,
       Ensure, EnsureLook, EnsureEnter, EnsureRecord, Stop, StopChannel, Teardown, TeardownCheck,
       JoinInsert, JoinCount, JoinFirst, LeaveDelete, LeaveCount, LeaveLast, LingerExpires, HealthCount,
       HealthPublish, SessionEnds, OnProducerSessionEnd, AttemptRecovery, vars, managerVars, prodVars

LEMMA ProdFrame ==
  ASSUME [Next]_vars
  PROVE  \/ \E t \in Starters : EnsureStop(t) \/ EnsureEnter(t) \/ EnsureStarted(t)
         \/ \E t \in Stoppers : StopRequest(t) \/ StopHalt(t)
         \/ \E t \in {"viewer", "loop", "health"} : TeardownFinalize(t)
         \/ SessionEnds
         \/ UNCHANGED prods
BY DEF Next, ViewerThread, LoopThread, HealthThread, EventThread, RecoveryThread, Starters, Stoppers,
       Ensure, EnsureLook, EnsureBuild, EnsureBegin, EnsureRecord, Stop, StopChannel, Teardown,
       TeardownCheck, JoinInsert, JoinCount, JoinFirst, LeaveDelete, LeaveCount, LeaveLast,
       LingerExpires, HealthCount, HealthPublish, OnProducerSessionEnd, AttemptRecovery, vars, prodVars

LEMMA CountFrame ==
  ASSUME [Next]_vars
  PROVE  \/ JoinCount \/ LeaveCount \/ HealthCount \/ HealthPublish
         \/ UNCHANGED <<count, seen>>
BY DEF Next, ViewerThread, LoopThread, HealthThread, EventThread, RecoveryThread, Ensure, EnsureLook,
       EnsureStop, EnsureBuild, EnsureBegin, EnsureEnter, EnsureStarted, EnsureRecord, Stop, StopChannel,
       StopRequest, StopHalt, Teardown, TeardownCheck, TeardownFinalize, JoinInsert, JoinFirst,
       LeaveDelete, LeaveLast, LingerExpires, SessionEnds, OnProducerSessionEnd, AttemptRecovery, vars,
       managerVars, threadVars

LEMMA SessionFrame ==
  ASSUME [Next]_vars
  PROVE  (\E v \in Viewers : JoinInsert(v) \/ LeaveDelete(v)) \/ UNCHANGED sessions
BY DEF Next, ViewerThread, LoopThread, HealthThread, EventThread, RecoveryThread, Ensure, EnsureLook,
       EnsureStop, EnsureBuild, EnsureBegin, EnsureEnter, EnsureStarted, EnsureRecord, Stop, StopChannel,
       StopRequest, StopHalt, Teardown, TeardownCheck, TeardownFinalize, JoinCount, JoinFirst,
       LeaveCount, LeaveLast, LingerExpires, HealthCount, HealthPublish, SessionEnds,
       OnProducerSessionEnd, AttemptRecovery, vars, managerVars

LEMMA BoundFrame ==
  ASSUME [Next]_vars
  PROVE  /\ UNCHANGED joins \/ \E v \in Viewers : JoinInsert(v)
         /\ UNCHANGED ends \/ SessionEnds
         /\ UNCHANGED startFailures \/ MayFail
BY DEF Next, ViewerThread, LoopThread, HealthThread, EventThread, RecoveryThread, Ensure, EnsureLook,
       EnsureStop, EnsureBuild, EnsureBegin, EnsureEnter, EnsureStarted, EnsureRecord, Stop, StopChannel,
       StopRequest, StopHalt, Teardown, TeardownCheck, TeardownFinalize, JoinInsert, JoinCount,
       JoinFirst, LeaveDelete, LeaveCount, LeaveLast, LingerExpires, HealthCount, HealthPublish,
       SessionEnds, OnProducerSessionEnd, AttemptRecovery, vars, boundVars

LEMMA MineFrame ==
  ASSUME [Next]_vars
  PROVE  \/ \E t \in Starters : EnsureBuild(t)
         \/ /\ UNCHANGED built
            /\ \/ UNCHANGED mine
               \/ \E t \in Threads : mine' = [mine EXCEPT ![t] = 0] \/ mine' = [mine EXCEPT ![t] = active]
<1>0. ASSUME NEW t \in Threads, NEW place, UNCHANGED built,
             Go(t, place) \/ Bind(t, place) \/ Keep(t, place) \/ Done(t, place)
      PROVE  /\ UNCHANGED built
             /\ \/ UNCHANGED mine
                \/ \E u \in Threads : mine' = [mine EXCEPT ![u] = 0] \/ mine' = [mine EXCEPT ![u] = active]
  BY <1>0 DEF Go, Bind, Keep, Done
<1>1. CASE Joins \/ Leaves
  BY <1>0, <1>1, ThreadNames
     DEF Joins, JoinInsert, JoinCount, JoinFirst, Leaves, LeaveDelete, LeaveCount, LeaveLast, prodVars
<1>2. CASE Starts
  <2>1. PICK t \in Starters : Ensure(t)
    BY <1>2 DEF Starts
  <2>2. CASE EnsureBuild(t)
    BY <2>2
  <2>3. CASE ~EnsureBuild(t)
    BY <1>0, <2>1, <2>3, ThreadNames
       DEF Ensure, EnsureLook, EnsureStop, EnsureBegin, EnsureEnter, EnsureStarted, EnsureRecord, Raise,
           Mishap, prodVars
  <2> QED BY <2>2, <2>3
<1>3. CASE Stops
  BY <1>0, <1>3, ThreadNames DEF Stops, Stop, StopChannel, StopRequest, StopHalt, Mishap, prodVars
<1>4. CASE Tears
  BY <1>0, <1>4, ThreadNames DEF Tears, Teardown, TeardownCheck, TeardownFinalize, Mishap, prodVars
<1>5. CASE LingerExpires \/ Health \/ Fails
  BY <1>0, <1>5, ThreadNames
     DEF LingerExpires, Health, HealthCount, HealthPublish, Fails, SessionEnds, OnProducerSessionEnd,
         AttemptRecovery, Mishap, prodVars
<1>6. CASE UNCHANGED vars
  BY <1>6 DEF vars, prodVars, threadVars
<1> QED BY <1>1, <1>2, <1>3, <1>4, <1>5, <1>6, Steps

(***************************************************************************)
(* Types.                                                                  *)
(***************************************************************************)

LEMMA BoundStep ==
  ASSUME BoundType, [Next]_vars
  PROVE  BoundType'
<1>1. joins' \in 0..MaxJoins
  <2>1. CASE UNCHANGED joins
    BY <2>1 DEF BoundType
  <2>2. ASSUME NEW v \in Viewers, JoinInsert(v) PROVE joins' \in 0..MaxJoins
    BY <2>2, LifecycleAssumption DEF JoinInsert, BoundType
  <2> QED BY <2>1, <2>2, BoundFrame
<1>2. ends' \in 0..MaxEnds
  <2>1. CASE UNCHANGED ends
    BY <2>1 DEF BoundType
  <2>2. CASE SessionEnds
    BY <2>2, LifecycleAssumption DEF SessionEnds, BoundType
  <2> QED BY <2>1, <2>2, BoundFrame
<1>3. startFailures' \in 0..MaxStartFailures
  <2>1. CASE UNCHANGED startFailures
    BY <2>1 DEF BoundType
  <2>2. CASE MayFail
    BY <2>2, LifecycleAssumption DEF MayFail, BoundType
  <2> QED BY <2>1, <2>2, BoundFrame
<1> QED BY <1>1, <1>2, <1>3 DEF BoundType

LEMMA FlagStep ==
  ASSUME FlagType, [Next]_vars
  PROVE  FlagType'
<1>1. hasLoop' = hasLoop
  BY DEF Next, ViewerThread, LoopThread, HealthThread, EventThread, RecoveryThread, Ensure, EnsureLook,
         EnsureStop, EnsureBuild, EnsureBegin, EnsureEnter, EnsureStarted, EnsureRecord, Stop,
         StopChannel, StopRequest, StopHalt, Teardown, TeardownCheck, TeardownFinalize, JoinInsert,
         JoinCount, JoinFirst, LeaveDelete, LeaveCount, LeaveLast, LingerExpires, HealthCount,
         HealthPublish, SessionEnds, OnProducerSessionEnd, AttemptRecovery, vars, managerVars
<1>2. timer' \in {FALSE, timer} \/ OnProducerSessionEnd
  BY DEF Next, ViewerThread, LoopThread, HealthThread, EventThread, RecoveryThread, Ensure, EnsureLook,
         EnsureStop, EnsureBuild, EnsureBegin, EnsureEnter, EnsureStarted, EnsureRecord, Stop,
         StopChannel, StopRequest, StopHalt, Teardown, TeardownCheck, TeardownFinalize, JoinInsert,
         JoinCount, JoinFirst, LeaveDelete, LeaveCount, LeaveLast, LingerExpires, HealthCount,
         HealthPublish, SessionEnds, AttemptRecovery, vars, managerVars
<1>3. OnProducerSessionEnd => timer' \in BOOLEAN
  BY DEF OnProducerSessionEnd
<1>4. linger' \in {FALSE, linger} \/ LeaveLast
  BY DEF Next, ViewerThread, LoopThread, HealthThread, EventThread, RecoveryThread, Ensure, EnsureLook,
         EnsureStop, EnsureBuild, EnsureBegin, EnsureEnter, EnsureStarted, EnsureRecord, Stop,
         StopChannel, StopRequest, StopHalt, Teardown, TeardownCheck, TeardownFinalize, JoinInsert,
         JoinCount, JoinFirst, LeaveDelete, LeaveCount, LingerExpires, HealthCount,
         HealthPublish, SessionEnds, OnProducerSessionEnd, AttemptRecovery, vars, managerVars
<1>5. LeaveLast => linger' \in BOOLEAN /\ (linger' => hasLoop)
  <2>1. CASE count = 0 /\ ~linger /\ ~hasLoop
    BY <2>1 DEF LeaveLast, FlagType
  <2>2. CASE ~(count = 0 /\ ~linger /\ ~hasLoop)
    BY <2>2 DEF LeaveLast, FlagType
  <2> QED BY <2>1, <2>2
<1>6. linger' \in BOOLEAN /\ (linger' => hasLoop)
  <2>1. CASE linger' = FALSE
    BY <2>1
  <2>2. CASE linger' = linger
    BY <2>2 DEF FlagType
  <2> QED BY <1>4, <1>5, <2>1, <2>2
<1>7. timer' \in BOOLEAN
  BY <1>2, <1>3 DEF FlagType
<1> QED BY <1>1, <1>6, <1>7 DEF FlagType

LEMMA CountStep ==
  ASSUME CountType, [Next]_vars
  PROVE  CountType'
<1>1. sessions' \subseteq Viewers
  BY SessionFrame DEF CountType, JoinInsert, LeaveDelete
<1>2. Cardinality(sessions) \in 0..Cardinality(Viewers)
  BY FS_Subset, FS_CardinalityType, LifecycleAssumption DEF CountType
<1>3. {count', seen'} \subseteq {count, seen, 0, Cardinality(sessions)}
  BY CountFrame DEF JoinCount, LeaveCount, HealthCount, HealthPublish, managerVars
<1>4. 0 \in 0..Cardinality(Viewers)
  BY FS_CardinalityType, LifecycleAssumption
<1> QED BY <1>1, <1>2, <1>3, <1>4 DEF CountType

LEMMA MineStep ==
  ASSUME MineType, RefType, [Next]_vars
  PROVE  MineType'
<1>1. CASE \E t \in Starters : EnsureBuild(t)
  <2>1. PICK t \in Starters : EnsureBuild(t)
    BY <1>1
  <2>2. mine' = [mine EXCEPT ![t] = built + 1] /\ built' = built + 1
    BY <2>1 DEF EnsureBuild
  <2>3. 0..built \subseteq 0..(built + 1) /\ built + 1 \in 0..(built + 1)
    BY LifecycleAssumption DEF RefType
  <2> QED BY <2>2, <2>3 DEF MineType
<1>2. CASE UNCHANGED built /\ UNCHANGED mine
  BY <1>2 DEF MineType
<1>3. ASSUME NEW t \in Threads, UNCHANGED built,
             mine' = [mine EXCEPT ![t] = 0] \/ mine' = [mine EXCEPT ![t] = active]
      PROVE  MineType'
  <2>1. 0 \in 0..built /\ active \in 0..built
    BY LifecycleAssumption DEF RefType
  <2> QED BY <1>3, <2>1 DEF MineType
<1> QED BY <1>1, <1>2, <1>3, MineFrame

LEMMA RefStep ==
  ASSUME Placed, PcType, RefType, BoundType, Ledger, BuildInv, [Next]_vars
  PROVE  RefType'
<1>0. built \in Nat /\ 0 \in 0..built
  BY LifecycleAssumption DEF RefType
<1>1. CASE \E t \in Starters : EnsureBuild(t)
  <2>1. PICK t \in Starters : EnsureBuild(t)
    BY <1>1
  <2>2. built' = built + 1 /\ active' = built + 1 /\ teardown' = teardown
    BY <2>1 DEF EnsureBuild
  <2>3. Making(t) = 1
    BY <2>1 DEF EnsureBuild, Making, PreBuild
  <2>4. built + 1 <= joins + ends
    <3>1. t = "viewer" \/ t = "recovery"
      BY DEF Starters
    <3>2. /\ Making("viewer") \in {0, 1} /\ Making("recovery") \in {0, 1}
          /\ Timing \in {0, 1} /\ Telling \in {0, 1}
      BY Terms, ThreadNames
    <3> QED BY <2>3, <3>1, <3>2 DEF BuildInv, Ledger
  <2>5. built + 1 \in 0..(MaxJoins + MaxEnds)
    BY <1>0, <2>4, LifecycleAssumption DEF BoundType
  <2>6. built + 1 \in 0..(built + 1) /\ 0..built \subseteq 0..(built + 1)
    BY <1>0
  <2> QED BY <2>2, <2>5, <2>6 DEF RefType
<1>2. CASE ~\E t \in Starters : EnsureBuild(t)
  <2>1. UNCHANGED built
    BY <1>2, MineFrame
  <2>2. {active', teardown'} \subseteq {active, teardown, 0}
    BY <1>2, RefFrame
       DEF EnsureStop, EnsureBegin, EnsureStarted, StopRequest, StopHalt, TeardownFinalize, Mishap,
           managerVars
  <2> QED BY <1>0, <2>1, <2>2 DEF RefType
<1> QED BY <1>1, <1>2

(***************************************************************************)
(* What a step does to the producers.                                      *)
(***************************************************************************)

\* Only producer p changes.
Only(p) == DOMAIN prods' = Producers /\ \A q \in Producers \ {p} : prods'[q] = prods[q]

LEMMA Revised ==
  ASSUME ProdsType, NEW p, NEW r, r \in ProdType, prods' = [prods EXCEPT ![p] = r]
  PROVE  ProdsType' /\ Only(p) /\ (p \in Producers => prods'[p] = r)
<1>1. DOMAIN prods = Producers
  BY DEF ProdsType
<1>2. \A q \in Producers : prods'[q] = IF q = p THEN r ELSE prods[q]
  BY <1>1
<1>3. prods' = [q \in Producers |-> IF q = p THEN r ELSE prods[q]]
  BY <1>1
<1>4. \A q \in Producers : prods[q] \in ProdType
  BY DEF ProdsType
<1> HIDE DEF ProdType
<1>5. prods' \in [Producers -> ProdType]
  BY <1>3, <1>4
<1> QED BY <1>1, <1>2, <1>5 DEF ProdsType, Only

LEMMA HaltEffect ==
  ASSUME ProdsType, NEW p, prods' = Halted(p)
  PROVE  /\ ProdsType' /\ Only(p)
         /\ p \in Producers /\ prods[p].st # "up" => prods'[p] = prods[p]
         /\ p \in Producers /\ prods[p].st = "up" =>
              /\ prods'[p].st = "stopped" /\ ~prods'[p].tearing /\ ~prods'[p].session
              /\ prods'[p].air = IF prods[p].session THEN "off" ELSE "left"
<1>1. CASE prods[p].st # "up"
  BY <1>1 DEF Halted, ProdsType, Only
<1>2. CASE prods[p].st = "up"
  <2> DEFINE r == [st |-> "stopped", status |-> "STOPPED", tearing |-> FALSE, session |-> FALSE,
                   air |-> IF prods[p].session THEN "off" ELSE "left"]
  <2>1. prods' = [prods EXCEPT ![p] = r]
    BY <1>2 DEF Halted
  <2>2. /\ r \in ProdType
        /\ r.st = "stopped" /\ ~r.tearing /\ ~r.session
        /\ r.air = IF prods[p].session THEN "off" ELSE "left"
    BY DEF ProdType
  <2> HIDE DEF r
  <2> QED BY <1>2, <2>1, <2>2, Revised
<1> QED BY <1>1, <1>2

LEMMA EnterEffect ==
  ASSUME ProdsType, NEW p \in Producers, prods' = [prods EXCEPT ![p].st = "starting"]
  PROVE  /\ ProdsType' /\ Only(p) /\ prods'[p].st = "starting"
         /\ prods'[p].tearing = prods[p].tearing /\ prods'[p].session = prods[p].session
         /\ prods'[p].air = prods[p].air
<1> DEFINE r == [prods[p] EXCEPT !.st = "starting"]
<1>1. prods[p] \in ProdType
  BY DEF ProdsType
<1>2. /\ r \in ProdType
      /\ r.st = "starting" /\ r.tearing = prods[p].tearing /\ r.session = prods[p].session
      /\ r.air = prods[p].air
  BY <1>1 DEF ProdType
<1>3. prods' = [prods EXCEPT ![p] = r]
  OBVIOUS
<1> HIDE DEF r
<1> QED BY <1>2, <1>3, Revised

LEMMA StartedEffect ==
  ASSUME ProdsType, NEW p \in Producers,
         prods' = [prods EXCEPT ![p] = [@ EXCEPT !.st = "up", !.status = "RUNNING",
                                                 !.session = TRUE, !.air = "up"]]
  PROVE  /\ ProdsType' /\ Only(p) /\ prods'[p].st = "up" /\ prods'[p].session /\ prods'[p].air = "up"
         /\ prods'[p].tearing = prods[p].tearing
<1> DEFINE r == [prods[p] EXCEPT !.st = "up", !.status = "RUNNING", !.session = TRUE, !.air = "up"]
<1>1. prods[p] \in ProdType
  BY DEF ProdsType
<1>2. /\ r \in ProdType
      /\ r.st = "up" /\ r.session /\ r.air = "up" /\ r.tearing = prods[p].tearing
  BY <1>1 DEF ProdType
<1>3. prods' = [prods EXCEPT ![p] = r]
  OBVIOUS
<1> HIDE DEF r
<1> QED BY <1>2, <1>3, Revised

LEMMA FailedEffect ==
  ASSUME ProdsType, NEW p \in Producers,
         prods' = [prods EXCEPT ![p] = [@ EXCEPT !.st = "failed", !.status = "ERROR"]]
  PROVE  /\ ProdsType' /\ Only(p) /\ prods'[p].st = "failed"
         /\ prods'[p].tearing = prods[p].tearing /\ prods'[p].session = prods[p].session
         /\ prods'[p].air = prods[p].air
<1> DEFINE r == [prods[p] EXCEPT !.st = "failed", !.status = "ERROR"]
<1>1. prods[p] \in ProdType
  BY DEF ProdsType
<1>2. /\ r \in ProdType
      /\ r.st = "failed" /\ r.tearing = prods[p].tearing /\ r.session = prods[p].session
      /\ r.air = prods[p].air
  BY <1>1 DEF ProdType
<1>3. prods' = [prods EXCEPT ![p] = r]
  OBVIOUS
<1> HIDE DEF r
<1> QED BY <1>2, <1>3, Revised

LEMMA AskedEffect ==
  ASSUME ProdsType, NEW p \in Producers,
         prods' = [prods EXCEPT ![p] = [@ EXCEPT !.tearing = TRUE, !.status = "STOPPING"]]
  PROVE  /\ ProdsType' /\ Only(p) /\ prods'[p].tearing
         /\ prods'[p].st = prods[p].st /\ prods'[p].session = prods[p].session
         /\ prods'[p].air = prods[p].air
<1> DEFINE r == [prods[p] EXCEPT !.tearing = TRUE, !.status = "STOPPING"]
<1>1. prods[p] \in ProdType
  BY DEF ProdsType
<1>2. /\ r \in ProdType
      /\ r.tearing /\ r.st = prods[p].st /\ r.session = prods[p].session /\ r.air = prods[p].air
  BY <1>1 DEF ProdType
<1>3. prods' = [prods EXCEPT ![p] = r]
  OBVIOUS
<1> HIDE DEF r
<1> QED BY <1>2, <1>3, Revised

LEMMA EndedEffect ==
  ASSUME ProdsType, NEW p \in Producers, prods' = [prods EXCEPT ![p].session = FALSE]
  PROVE  /\ ProdsType' /\ Only(p) /\ ~prods'[p].session
         /\ prods'[p].tearing = prods[p].tearing /\ prods'[p].st = prods[p].st
         /\ prods'[p].air = prods[p].air
<1> DEFINE r == [prods[p] EXCEPT !.session = FALSE]
<1>1. prods[p] \in ProdType
  BY DEF ProdsType
<1>2. /\ r \in ProdType
      /\ ~r.session /\ r.tearing = prods[p].tearing /\ r.st = prods[p].st /\ r.air = prods[p].air
  BY <1>1 DEF ProdType
<1>3. prods' = [prods EXCEPT ![p] = r]
  OBVIOUS
<1> HIDE DEF r
<1> QED BY <1>2, <1>3, Revised

\* A thread that holds on to a producer has one.
HeldInv == \A t \in Threads : pc[t] \in {"look", "quit", "enter", "starting", "kill"} => mine[t] # 0

LEMMA HeldStep ==
  ASSUME Placed, HeldInv, [Next]_vars
  PROVE  HeldInv'
<1> DEFINE Holding == {"look", "quit", "enter", "starting", "kill"}
<1>1. ASSUME NEW t \in Threads, NEW place, NEW p, Moved(t, place, p), place \notin Holding \/ p # 0
      PROVE  HeldInv'
  BY <1>1 DEF HeldInv, Moved
<1>2. ASSUME NEW t \in Threads, NEW place, place \notin Holding,
             Go(t, place) \/ Bind(t, place) \/ Keep(t, place)
      PROVE  HeldInv'
  BY <1>1, <1>2, Moves
<1>3. ASSUME NEW t \in Threads, NEW outcome, Done(t, outcome)
      PROVE  HeldInv'
  BY <1>1, <1>3, Dones
<1>4. ASSUME NEW t \in Threads, NEW place, Bind(t, place), active # 0
      PROVE  HeldInv'
  BY <1>1, <1>4, Moves
<1>5. ASSUME NEW t \in Threads, NEW place, Keep(t, place), mine[t] # 0
      PROVE  HeldInv'
  BY <1>1, <1>5, Moves
<1>6. CASE UNCHANGED <<pc, mine>>
  BY <1>6 DEF HeldInv
<1>7. CASE Joins
  BY <1>2, <1>3, <1>7, ThreadNames DEF Joins, JoinInsert, JoinCount, JoinFirst
<1>8. CASE Leaves
  BY <1>2, <1>3, <1>8, ThreadNames DEF Leaves, LeaveDelete, LeaveCount, LeaveLast
<1>9. CASE Starts
  <2>1. PICK t \in Starters : Ensure(t)
    BY <1>9 DEF Starts
  <2>2. t \in Threads
    BY ThreadNames
  <2>3. CASE EnsureLook(t)
    <3>1. (active # 0 /\ Bind(t, "look")) \/ Go(t, "build") \/ Done(t, "watching") \/ Go(t, "replace")
      BY <2>3 DEF EnsureLook
    <3> QED BY <1>2, <1>3, <1>4, <2>2, <3>1
  <2>4. CASE EnsureStop(t)
    BY <1>2, <1>4, <2>2, <2>4 DEF EnsureStop
  <2>5. CASE EnsureBuild(t)
    <3>1. pc' = [pc EXCEPT ![t] = "begin"] /\ mine' = [mine EXCEPT ![t] = built + 1]
      BY <2>5 DEF EnsureBuild, Move
    <3>2. Moved(t, "begin", built + 1)
      BY <2>2, <3>1 DEF Moved, Placed
    <3> QED BY <1>1, <2>2, <3>2
  <2>6. CASE EnsureBegin(t)
    BY <1>3, <1>4, <2>2, <2>6 DEF EnsureBegin, Raise
  <2>7. CASE EnsureEnter(t)
    <3>1. mine[t] # 0
      BY <2>2, <2>7 DEF EnsureEnter, HeldInv
    <3> QED BY <1>2, <1>5, <2>2, <2>7, <3>1 DEF EnsureEnter
  <2>8. CASE EnsureStarted(t)
    BY <1>2, <1>3, <2>2, <2>8 DEF EnsureStarted, Raise
  <2>9. CASE EnsureRecord(t)
    BY <1>3, <2>2, <2>9 DEF EnsureRecord, Raise
  <2> QED BY <2>1, <2>3, <2>4, <2>5, <2>6, <2>7, <2>8, <2>9 DEF Ensure
<1>10. CASE Stops
  <2>1. PICK t \in Stoppers : Stop(t)
    BY <1>10 DEF Stops
  <2>2. t \in Threads
    BY ThreadNames
  <2>3. Go(t, "check") \/ Go(t, "halt") \/ Done(t, "away") \/ (active # 0 /\ Bind(t, "kill"))
    BY <2>1 DEF Stop, StopChannel, StopRequest, StopHalt
  <2> QED BY <1>2, <1>3, <1>4, <2>2, <2>3
<1>11. CASE Tears
  <2>1. PICK t \in {"viewer", "loop", "health"} : Teardown(t)
    BY <1>11 DEF Tears
  <2>2. t \in Threads
    BY ThreadNames
  <2>3. \/ Go(t, "idle") \/ Go(t, "request") \/ Bind(t, "finalize") \/ Bind(t, "force")
    BY <2>1 DEF Teardown, TeardownCheck, TeardownFinalize, AfterCheck
  <2> QED BY <1>2, <2>2, <2>3
<1>12. CASE LingerExpires
  BY <1>2, <1>6, <1>12, ThreadNames DEF LingerExpires
<1>13. CASE Health
  <2>1. Go("health", "publish") \/ Go("health", "check")
    BY <1>13 DEF Health, HealthCount, HealthPublish
  <2> QED BY <1>2, <2>1, ThreadNames
<1>14. CASE Fails
  <2>1. \/ Go("event", "failed") \/ Go("event", "idle") \/ Go("recovery", "ensure")
        \/ UNCHANGED <<pc, mine>>
    BY <1>14 DEF Fails, SessionEnds, OnProducerSessionEnd, AttemptRecovery
  <2> QED BY <1>2, <1>6, <2>1, ThreadNames
<1>15. CASE UNCHANGED vars
  BY <1>6, <1>15 DEF vars, threadVars
<1> QED BY <1>7, <1>8, <1>9, <1>10, <1>11, <1>12, <1>13, <1>14, <1>15, Steps

FreshInv == \A p \in Producers : p > built => prods[p] = Fresh

LEMMA Built ==
  ASSUME RefType
  PROVE  0..built \subseteq {0} \cup Producers
<1>1. Producers = 1..(MaxJoins + MaxEnds) /\ built <= MaxJoins + MaxEnds /\ built \in Nat
      /\ MaxJoins + MaxEnds \in Nat
  BY LifecycleAssumption DEF Producers, RefType
<1> QED BY <1>1

LEMMA ProdStep ==
  ASSUME ProdsType, MineType, RefType, HeldInv, FreshInv, [Next]_vars
  PROVE  ProdsType' /\ (UNCHANGED prods \/ \E p \in 0..built : Only(p))
<1>1. \A t \in Threads : mine[t] \in 0..built
  BY DEF MineType
<1>2. active \in 0..built
  BY DEF RefType
<1>3. ASSUME NEW t \in Starters, EnsureStop(t) \/ EnsureEnter(t) \/ EnsureStarted(t)
      PROVE  ProdsType' /\ (UNCHANGED prods \/ \E p \in 0..built : Only(p))
  <2>1. t \in Threads
    BY ThreadNames
  <2>2. pc[t] \in {"enter", "starting"} => mine[t] \in Producers
    BY <1>1, <2>1, Built DEF HeldInv
  <2>3. CASE EnsureStop(t)
    <3>1. UNCHANGED prods \/ prods' = Halted(mine[t])
      BY <2>3 DEF EnsureStop, prodVars
    <3> QED BY <1>1, <2>1, <3>1, HaltEffect DEF ProdsType
  <2>4. CASE EnsureEnter(t)
    <3>1. mine[t] \in Producers
      BY <2>2, <2>4 DEF EnsureEnter
    <3>2. UNCHANGED prods \/ prods' = [prods EXCEPT ![mine[t]].st = "starting"]
      BY <2>4 DEF EnsureEnter
    <3> QED BY <1>1, <2>1, <3>1, <3>2, EnterEffect DEF ProdsType
  <2>5. CASE EnsureStarted(t)
    <3>1. mine[t] \in Producers
      BY <2>2, <2>5 DEF EnsureStarted
    <3>2. \/ prods' = [prods EXCEPT ![mine[t]] = [@ EXCEPT !.st = "up", !.status = "RUNNING",
                                                           !.session = TRUE, !.air = "up"]]
          \/ prods' = [prods EXCEPT ![mine[t]] = [@ EXCEPT !.st = "failed", !.status = "ERROR"]]
      BY <2>5 DEF EnsureStarted
    <3> QED BY <1>1, <2>1, <3>1, <3>2, StartedEffect, FailedEffect
  <2> QED BY <1>3, <2>3, <2>4, <2>5
<1>4. ASSUME NEW t \in Stoppers, StopRequest(t) \/ StopHalt(t)
      PROVE  ProdsType' /\ (UNCHANGED prods \/ \E p \in 0..built : Only(p))
  <2>1. t \in Threads
    BY ThreadNames
  <2>2. CASE StopRequest(t)
    <3>1. CASE UNCHANGED prods
      BY <3>1 DEF ProdsType
    <3>2. CASE ~UNCHANGED prods
      <4>1. /\ active # 0
            /\ prods' = [prods EXCEPT ![active] = [@ EXCEPT !.tearing = TRUE, !.status = "STOPPING"]]
        BY <2>2, <3>2 DEF StopRequest
      <4>2. active \in Producers
        BY <1>2, <4>1, Built
      <4> QED BY <1>2, <4>1, <4>2, AskedEffect
    <3> QED BY <3>1, <3>2
  <2>3. CASE StopHalt(t)
    <3>1. UNCHANGED prods \/ prods' = Halted(mine[t])
      BY <2>3 DEF StopHalt, prodVars
    <3> QED BY <1>1, <2>1, <3>1, HaltEffect DEF ProdsType
  <2> QED BY <1>4, <2>2, <2>3
<1>5. ASSUME NEW t \in {"viewer", "loop", "health"}, TeardownFinalize(t)
      PROVE  ProdsType' /\ (UNCHANGED prods \/ \E p \in 0..built : Only(p))
  <2>1. t \in Threads
    BY ThreadNames
  <2>2. UNCHANGED prods \/ prods' = Halted(mine[t])
    BY <1>5 DEF TeardownFinalize
  <2> QED BY <1>1, <2>1, <2>2, HaltEffect DEF ProdsType
<1>6. CASE SessionEnds
  <2>1. PICK p \in Producers : OnAir(p) /\ prods' = [prods EXCEPT ![p].session = FALSE]
    BY <1>6 DEF SessionEnds
  <2>2. p \in 0..built
    <3>1. prods[p].session /\ ~Fresh.session
      BY <2>1 DEF OnAir, Running, Fresh
    <3>2. ~(p > built)
      BY <3>1 DEF FreshInv
    <3> QED BY <3>2, LifecycleAssumption DEF Producers, RefType
  <2> QED BY <2>1, <2>2, EndedEffect
<1>7. CASE UNCHANGED prods
  BY <1>7 DEF ProdsType
<1> QED BY <1>3, <1>4, <1>5, <1>6, <1>7, ProdFrame

LEMMA FreshStep ==
  ASSUME ProdsType, MineType, RefType, HeldInv, FreshInv, [Next]_vars
  PROVE  FreshInv'
<1>1. \A p \in Producers : p > built => prods'[p] = prods[p]
  BY ProdStep, LifecycleAssumption DEF Only, RefType
<1>2. built' = built \/ built' = built + 1
  BY MineFrame DEF EnsureBuild
<1>3. \A p \in Producers : p > built' => p > built
  BY <1>2, LifecycleAssumption DEF Producers, RefType
<1> QED BY <1>1, <1>3 DEF FreshInv

(***************************************************************************)
(* The viewer lock, and where the viewer that holds it is.                 *)
(***************************************************************************)

JoinPlaces  == {"joining", "first", "ensure", "look", "replace", "quit", "build", "begin", "enter",
                "starting", "record"}
LeavePlaces == {"leaving", "last", "stop", "check", "finalize", "force", "request", "halt", "kill"}

LockInv ==
  /\ lock = {} <=> pc["viewer"] = "idle"
  /\ \A v \in Viewers : v \notin lock => (v \in sessions <=> where[v] # "away")
  /\ \A v \in lock : /\ pc["viewer"] \in JoinPlaces => v \in sessions /\ where[v] = "away"
                     /\ pc["viewer"] \in LeavePlaces => v \notin sessions /\ where[v] = "watching"

\* The viewer goes on joining, or goes on leaving; then it is done.
Counting(t) == t = "viewer" /\ pc[t] \in {"joining", "leaving"} => JoinCount \/ LeaveCount
Within(t, place) ==
  /\ Counting(t)
  /\ t = "viewer" => /\ place = "first" => JoinCount
                     /\ \/ pc[t] \in JoinPlaces /\ place \in JoinPlaces \ {"joining"}
                        \/ pc[t] \in LeavePlaces /\ place \in LeavePlaces \ {"leaving"}
Ends(t, outcome) ==
  /\ Counting(t)
  /\ t = "viewer" => \/ pc[t] \in JoinPlaces /\ outcome \in {"watching", "refused"}
                     \/ pc[t] \in LeavePlaces /\ outcome = "away"

\* What a step is to the lock.
Inner == \E t \in Threads : \E place :
           /\ Go(t, place) \/ Bind(t, place) \/ Keep(t, place)
           /\ Within(t, place) /\ UNCHANGED <<lock, where, sessions>>
Outer == \E t \in Threads : \E outcome :
           Done(t, outcome) /\ Ends(t, outcome) /\ UNCHANGED sessions

LEMMA LockSteps ==
  ASSUME Placed, PcType, [Next]_vars
  PROVE  \/ Inner \/ Outer \/ UNCHANGED <<pc, lock, where, sessions>>
         \/ \E v \in Viewers : JoinInsert(v) \/ LeaveDelete(v)
         \/ \E t \in Starters : EnsureBuild(t)
<1>0. /\ "viewer" \in Threads /\ "loop" \in Threads /\ "health" \in Threads /\ "event" \in Threads
      /\ "recovery" \in Threads
      /\ \A t \in Starters \cup Stoppers : t \in Threads
  BY DEF Threads, Starters, Stoppers
<1>1. ASSUME NEW t \in Threads, NEW place, Go(t, place) \/ Bind(t, place) \/ Keep(t, place),
             Within(t, place), UNCHANGED <<lock, where, sessions>>
      PROVE  Inner
  BY <1>1 DEF Inner
<1>2. ASSUME NEW t \in Threads, NEW outcome, Done(t, outcome), Ends(t, outcome),
             UNCHANGED sessions
      PROVE  Outer
  BY <1>2 DEF Outer
<1> USE <1>0 DEF Counting, Within, Ends, JoinPlaces, LeavePlaces
<1>3. CASE Joins
  BY <1>1, <1>2, <1>3 DEF Joins, JoinCount, JoinFirst
<1>4. CASE Leaves
  BY <1>1, <1>2, <1>4 DEF Leaves, LeaveCount, LeaveLast
<1>5. CASE Starts
  <2>1. PICK t \in Starters : Ensure(t)
    BY <1>5 DEF Starts
  <2>2. t \in Threads
    BY <1>0
  <2>3. CASE EnsureLook(t)
    <3>1. \/ Go(t, "build") /\ pc[t] = "ensure" /\ UNCHANGED <<lock, where, sessions>>
          \/ Bind(t, "look") /\ pc[t] = "ensure" /\ UNCHANGED <<lock, where, sessions>>
          \/ Go(t, "replace") /\ pc[t] = "look" /\ UNCHANGED <<lock, where, sessions>>
          \/ Done(t, "watching") /\ pc[t] = "look" /\ UNCHANGED sessions
      BY <2>3 DEF EnsureLook, managerVars
    <3> QED BY <1>1, <1>2, <2>2, <3>1
  <2>4. CASE EnsureStop(t)
    <3>1. /\ Go(t, "build") \/ Bind(t, "quit")
          /\ pc[t] \in {"replace", "quit"} /\ UNCHANGED <<lock, where, sessions>>
      BY <2>4 DEF EnsureStop, managerVars
    <3> QED BY <1>1, <2>2, <3>1
  <2>5. CASE EnsureBegin(t)
    <3>1. \/ Bind(t, "enter") /\ pc[t] = "begin" /\ UNCHANGED <<lock, where, sessions>>
          \/ Done(t, "refused") /\ pc[t] = "begin" /\ UNCHANGED sessions
      BY <2>5 DEF EnsureBegin, Raise
    <3> QED BY <1>1, <1>2, <2>2, <3>1
  <2>6. CASE EnsureEnter(t)
    <3>1. /\ Go(t, "record") \/ Keep(t, "starting")
          /\ pc[t] = "enter" /\ UNCHANGED <<lock, where, sessions>>
      BY <2>6 DEF EnsureEnter, managerVars
    <3> QED BY <1>1, <2>2, <3>1
  <2>7. CASE EnsureStarted(t)
    <3>1. \/ Go(t, "record") /\ pc[t] = "starting" /\ UNCHANGED <<lock, where, sessions>>
          \/ Done(t, "refused") /\ pc[t] = "starting" /\ UNCHANGED sessions
      BY <2>7 DEF EnsureStarted, Raise
    <3> QED BY <1>1, <1>2, <2>2, <3>1
  <2>8. CASE EnsureRecord(t)
    <3>1. /\ Done(t, "refused") \/ Done(t, "watching")
          /\ pc[t] = "record" /\ UNCHANGED sessions
      BY <2>8 DEF EnsureRecord, Raise
    <3> QED BY <1>2, <2>2, <3>1
  <2> QED BY <2>1, <2>3, <2>4, <2>5, <2>6, <2>7, <2>8 DEF Ensure
<1>6. CASE Stops
  <2>1. PICK t \in Stoppers : Stop(t)
    BY <1>6 DEF Stops
  <2>2. CASE StopChannel(t)
    BY <1>1, <2>2 DEF StopChannel
  <2>3. CASE StopRequest(t)
    <3>1. Go(t, "halt") /\ pc[t] = "request" /\ UNCHANGED <<lock, where, sessions>>
      BY <2>3 DEF StopRequest
    <3> QED BY <1>1, <3>1
  <2>4. CASE StopHalt(t)
    <3>1. \/ Bind(t, "kill") /\ pc[t] = "halt" /\ UNCHANGED <<lock, where, sessions>>
          \/ Done(t, "away") /\ pc[t] \in {"halt", "kill"} /\ UNCHANGED sessions
      BY <2>4 DEF StopHalt
    <3> QED BY <1>1, <1>2, <3>1
  <2> QED BY <2>1, <2>2, <2>3, <2>4 DEF Stop
<1>7. CASE Tears
  <2>1. PICK t \in {"viewer", "loop", "health"} : Teardown(t)
    BY <1>7 DEF Tears
  <2>2. t \in Threads /\ (t = "viewer" => AfterCheck(t) = "request")
    BY DEF AfterCheck
  <2>3. /\ \/ Go(t, AfterCheck(t)) \/ Bind(t, "finalize") \/ Bind(t, "force")
        /\ pc[t] \in {"check", "finalize", "force"} /\ UNCHANGED <<lock, where, sessions>>
    BY <2>1 DEF Teardown, TeardownCheck, TeardownFinalize, managerVars
  <2> QED BY <1>1, <2>2, <2>3
<1>8. CASE LingerExpires
  BY <1>1, <1>8 DEF LingerExpires
<1>9. CASE Health
  <2>1. (Go("health", "publish") \/ Go("health", "check")) /\ UNCHANGED <<lock, where, sessions>>
    BY <1>9 DEF Health, HealthCount, HealthPublish, managerVars
  <2> QED BY <1>1, <2>1
<1>10. CASE Fails
  <2>1. /\ \/ Go("event", "failed") \/ Go("event", "idle") \/ Go("recovery", "ensure")
           \/ UNCHANGED pc
        /\ UNCHANGED <<lock, where, sessions>>
    BY <1>10 DEF Fails, SessionEnds, OnProducerSessionEnd, AttemptRecovery, managerVars
  <2> QED BY <1>1, <2>1
<1>11. CASE UNCHANGED vars
  BY <1>11 DEF vars, threadVars, managerVars
<1> QED BY <1>3, <1>4, <1>5, <1>6, <1>7, <1>8, <1>9, <1>10, <1>11, Steps

LEMMA LockStep ==
  ASSUME Placed, PcType, LockType, CountType, LockInv, [Next]_vars
  PROVE  LockInv' /\ LockType'
<1>0. "viewer" \in Threads
  BY ThreadNames
<1>1. CASE Inner
  <2>1. PICK t \in Threads : \E place :
           /\ Go(t, place) \/ Bind(t, place) \/ Keep(t, place)
           /\ Within(t, place) /\ UNCHANGED <<lock, where, sessions>>
    BY <1>1 DEF Inner
  <2>2. PICK place : /\ Go(t, place) \/ Bind(t, place) \/ Keep(t, place)
                     /\ Within(t, place) /\ UNCHANGED <<lock, where, sessions>>
    BY <2>1
  <2>3. \E p : Moved(t, place, p)
    BY <2>2, Moves
  <2>4. CASE t # "viewer"
    BY <1>0, <2>2, <2>3, <2>4 DEF Moved, LockInv, LockType
  <2>5. CASE t = "viewer"
    <3>1. pc'["viewer"] = place
      BY <2>3, <2>5 DEF Moved
    <3>2. \/ pc["viewer"] \in JoinPlaces /\ place \in JoinPlaces
          \/ pc["viewer"] \in LeavePlaces /\ place \in LeavePlaces
      BY <2>2, <2>5 DEF Within
    <3>3. "idle" \notin JoinPlaces \cup LeavePlaces /\ JoinPlaces \cap LeavePlaces = {}
      BY DEF JoinPlaces, LeavePlaces
    <3> QED BY <2>2, <3>1, <3>2, <3>3 DEF LockInv, LockType
  <2> QED BY <2>4, <2>5
<1>2. CASE Outer
  <2>1. PICK t \in Threads : \E outcome : Done(t, outcome) /\ Ends(t, outcome) /\ UNCHANGED sessions
    BY <1>2 DEF Outer
  <2>2. PICK outcome : Done(t, outcome) /\ Ends(t, outcome) /\ UNCHANGED sessions
    BY <2>1
  <2>3. Moved(t, "idle", 0)
    BY <2>2, Dones
  <2>4. CASE t # "viewer"
    <3>1. UNCHANGED <<lock, where>>
      BY <2>2, <2>4, Dones
    <3> QED BY <1>0, <2>2, <2>3, <2>4, <3>1 DEF Moved, LockInv, LockType
  <2>5. CASE t = "viewer"
    <3>1. lock' = {} /\ where' = [v \in Viewers |-> IF v \in lock THEN outcome ELSE where[v]]
      BY <2>2, <2>5, Dones
    <3>2. pc'["viewer"] = "idle"
      BY <2>3, <2>5 DEF Moved
    <3>3. outcome \in {"away", "watching", "refused"}
      BY <2>2, <2>5 DEF Ends
    <3>4. ASSUME NEW v \in Viewers PROVE v \in sessions' <=> where'[v] # "away"
      BY <2>2, <2>5, <3>1 DEF LockInv, Ends
    <3>5. where' \in [Viewers -> {"away", "watching", "refused"}]
      BY <3>1, <3>3 DEF LockType
    <3> QED BY <3>1, <3>2, <3>4, <3>5 DEF LockInv, LockType
  <2> QED BY <2>4, <2>5
<1>3. CASE UNCHANGED <<pc, lock, where, sessions>>
  BY <1>3 DEF LockInv, LockType
<1>4. ASSUME NEW v \in Viewers, JoinInsert(v) \/ LeaveDelete(v)
      PROVE  LockInv' /\ LockType'
  <2>1. lock = {} /\ lock' = {v} /\ UNCHANGED where
    BY <1>4 DEF JoinInsert, LeaveDelete
  <2>2. CASE JoinInsert(v)
    <3>1. pc'["viewer"] = "joining" /\ sessions' = sessions \cup {v} /\ where[v] = "away"
      BY <1>0, <2>2, Moves DEF JoinInsert, Moved
    <3> QED BY <2>1, <3>1 DEF LockInv, LockType, JoinPlaces, LeavePlaces
  <2>3. CASE LeaveDelete(v)
    <3>1. pc'["viewer"] = "leaving" /\ sessions' = sessions \ {v} /\ where[v] = "watching"
      BY <1>0, <2>3, Moves DEF LeaveDelete, Moved
    <3> QED BY <2>1, <3>1 DEF LockInv, LockType, JoinPlaces, LeavePlaces
  <2> QED BY <1>4, <2>2, <2>3
<1>5. ASSUME NEW t \in Starters, EnsureBuild(t)
      PROVE  LockInv' /\ LockType'
  <2>1. pc[t] = "build" /\ pc' = [pc EXCEPT ![t] = "begin"] /\ UNCHANGED <<lock, where, sessions>>
    BY <1>5 DEF EnsureBuild, Move
  <2>2. pc["viewer"] = pc'["viewer"] \/ (pc["viewer"] = "build" /\ pc'["viewer"] = "begin")
    BY <1>0, <2>1 DEF Placed
  <2> QED BY <2>1, <2>2 DEF LockInv, LockType, JoinPlaces, LeavePlaces
<1> QED BY <1>1, <1>2, <1>3, <1>4, <1>5, LockSteps

(***************************************************************************)
(* The type invariant.                                                     *)
(***************************************************************************)

TypeInv == Types /\ BuildInv /\ AttemptInv /\ FreshInv /\ HeldInv /\ LockInv

LEMMA TypeFacts ==
  ASSUME TypeInv
  PROVE  /\ Placed /\ PcType /\ Ledger
         /\ FlagType /\ CountType /\ LockType /\ RefType /\ BoundType /\ ProdsType /\ MineType
         /\ BuildInv /\ AttemptInv /\ FreshInv /\ HeldInv /\ LockInv
<1>1. Placed
  BY DEF TypeInv, Types, PcType, MineType, Placed
<1>2. built \in Nat /\ joins \in Nat /\ ends \in Nat
  BY LifecycleAssumption DEF TypeInv, Types, RefType, BoundType
<1>3. attempts \in Nat /\ timer \in BOOLEAN
  BY LifecycleAssumption DEF TypeInv, Types, FlagType
<1> QED BY <1>1, <1>2, <1>3 DEF TypeInv, Types, Ledger

LEMMA TypeInit ==
  ASSUME Init
  PROVE  TypeInv
<1> USE LifecycleAssumption
<1>1. Cardinality(Viewers) \in Nat /\ MaxJoins + MaxEnds \in Nat
  BY FS_CardinalityType
<1>2. FlagType /\ CountType /\ RefType /\ BoundType /\ attempts \in 0..MaxEnds
  <2>1. FlagType
    BY DEF Init, FlagType
  <2>2. sessions = {} /\ count = 0 /\ seen = 0 /\ 0 \in 0..Cardinality(Viewers)
    BY <1>1 DEF Init
  <2>3. built = 0 /\ active = 0 /\ teardown = 0 /\ 0 \in 0..(MaxJoins + MaxEnds) /\ 0 \in 0..0
    BY <1>1 DEF Init
  <2>4. BoundType /\ attempts \in 0..MaxEnds
    BY DEF Init, BoundType
  <2> QED BY <2>1, <2>2, <2>3, <2>4 DEF CountType, RefType
<1>3. pc = [t \in Threads |-> "idle"] /\ mine = [t \in Threads |-> 0] /\ built = 0
  BY DEF Init
<1>4. PcType /\ MineType /\ HeldInv
  BY <1>3 DEF PcType, MineType, HeldInv, Places, Threads
<1>5. pc["viewer"] = "idle" /\ pc["recovery"] = "idle" /\ pc["event"] = "idle"
  BY <1>3, ThreadNames
<1>6. LockType /\ LockInv
  BY <1>5 DEF Init, LockType, LockInv, JoinPlaces, LeavePlaces
<1>7. ProdsType /\ FreshInv
  <2>1. Fresh \in ProdType
    BY DEF Fresh, ProdType
  <2>2. prods = [p \in Producers |-> Fresh]
    BY DEF Init
  <2> HIDE DEF ProdType
  <2> QED BY <2>1, <2>2 DEF ProdsType, FreshInv
<1>8. Making("viewer") = 0 /\ Making("recovery") = 0 /\ Timing = 0 /\ Telling = 0
  BY <1>5 DEF Init, Making, Timing, Telling, PreBuild
<1>9. BuildInv /\ AttemptInv
  BY <1>5, <1>8 DEF Init, BuildInv, AttemptInv
<1> QED BY <1>2, <1>4, <1>6, <1>7, <1>9 DEF TypeInv, Types

LEMMA TypeStep ==
  ASSUME TypeInv, [Next]_vars
  PROVE  TypeInv'
<1>1. PcType' /\ MineType' /\ FlagType' /\ CountType' /\ BoundType' /\ RefType'
  BY TypeFacts, PcStep, MineStep, FlagStep, CountStep, BoundStep, RefStep
<1>2. ProdsType' /\ FreshInv' /\ HeldInv' /\ LockInv' /\ LockType' /\ BuildInv' /\ AttemptInv'
  BY TypeFacts, ProdStep, FreshStep, HeldStep, LockStep, BuildStep, AttemptStep
<1>3. attempts' \in 0..MaxEnds
  <2>1. attempts' \in {0, attempts, attempts + 1}
    BY AttemptFrame DEF OnProducerSessionEnd
  <2>2. attempts' \in Nat
    BY <2>1, TypeFacts DEF Ledger
  <2>3. attempts' <= ends' /\ ends' <= MaxEnds /\ ends' \in Nat
    BY <1>1, <1>2, LifecycleAssumption DEF AttemptInv, BoundType
  <2> QED BY <2>2, <2>3, LifecycleAssumption
<1> QED BY <1>1, <1>2, <1>3 DEF TypeInv, Types

\* The variables always have their types, and TypeInv always holds.
THEOREM TypeInvariant == Spec => []TypeInv
<1>1. Init => TypeInv
  BY TypeInit
<1>2. TypeInv /\ [Next]_vars => TypeInv'
  BY TypeStep
<1> QED BY <1>1, <1>2, PTL DEF Spec

LEMMA TypeOKs ==
  ASSUME TypeInv
  PROVE  TypeOK
<1>1. Cardinality(lock) <= 1
  <2>1. CASE lock = {}
    BY <2>1, FS_EmptySet
  <2>2. ASSUME NEW v \in Viewers, lock = {v} PROVE Cardinality(lock) <= 1
    <3>1. Cardinality({v}) = 1
      BY FS_Singleton
    <3> QED BY <2>2, <3>1
  <2> QED BY <2>1, <2>2, TypeFacts DEF LockType
<1>2. lock \subseteq Viewers
  BY TypeFacts DEF LockType
<1>3. Cardinality(Producers) = MaxJoins + MaxEnds
  <2>1. MaxJoins + MaxEnds \in Nat
    BY LifecycleAssumption
  <2> DEFINE n == MaxJoins + MaxEnds
  <2> HIDE DEF n
  <2>2. n \in Nat
    BY <2>1 DEF n
  <2>3. Cardinality(1..n) = n
    BY <2>2, FS_Interval
  <2> QED BY <2>3 DEF n, Producers
<1> QED BY <1>1, <1>2, <1>3
        DEF TypeInv, Types, TypeOK, FlagType, CountType, LockType, RefType, BoundType, PcType, ProdsType,
            MineType

\* Whatever the threads do, every variable keeps its type: among others, no more
\* producers are ever built than viewers joined and sessions ended.
THEOREM TypeCorrect == Spec => []TypeOK
BY TypeInvariant, TypeOKs, PTL

(***************************************************************************)
(* The published count of viewers.                                         *)
(***************************************************************************)

\* What has gone wrong stays on record.
LEMMA Grows ==
  ASSUME [Next]_vars
  PROVE  mishaps \subseteq mishaps' /\ \A bad : Free(bad)' => Free(bad)
<1>1. mishaps \subseteq mishaps'
  BY DEF Next, ViewerThread, LoopThread, HealthThread, EventThread, RecoveryThread, Ensure, EnsureLook,
         EnsureStop, EnsureBuild, EnsureBegin, EnsureEnter, EnsureStarted, EnsureRecord, Raise, Stop,
         StopChannel, StopRequest, StopHalt, Teardown, TeardownCheck, TeardownFinalize, JoinInsert,
         JoinCount, JoinFirst, LeaveDelete, LeaveCount, LeaveLast, LingerExpires, HealthCount,
         HealthPublish, SessionEnds, OnProducerSessionEnd, AttemptRecovery, Mishap, vars
<1> QED BY <1>1 DEF Free

\* No stale count was published.
Exact == Free({"stale count"})

LEMMA PublishesTrue ==
  ASSUME HealthPublish, Exact'
  PROVE  UNCHANGED count
<1>1. count' = seen /\ mishaps' = mishaps \cup (IF count # seen THEN {"stale count"} ELSE {})
  BY DEF HealthPublish, Mishap
<1>2. CASE count # seen
  BY <1>1, <1>2 DEF Exact, Free
<1>3. CASE count = seen
  BY <1>1, <1>3
<1> QED BY <1>2, <1>3

\* The count is that of the sessions, but for the viewer that is about to publish it.
Counted(place) ==
  /\ place = "joining" => Cardinality(sessions) = count + 1
  /\ place = "leaving" => count = Cardinality(sessions) + 1
  /\ place \notin {"joining", "leaving"} => count = Cardinality(sessions)
Staged(place) ==
  /\ place = "first" => count = 1
  /\ place \in LeavePlaces \ {"leaving"} => count = 0
CountInv == Exact => Counted(pc["viewer"]) /\ Staged(pc["viewer"])

LEMMA CountInvStep ==
  ASSUME Placed, PcType, CountType, LockType, LockInv, CountInv, [Next]_vars
  PROVE  CountInv'
<1> SUFFICES ASSUME Exact' PROVE Counted(pc["viewer"])' /\ Staged(pc["viewer"])'
  BY DEF CountInv
<1>0. "viewer" \in Threads
  BY ThreadNames
<1>1. Counted(pc["viewer"]) /\ Staged(pc["viewer"])
  BY Grows DEF CountInv, Exact
<1>2. Cardinality(sessions) \in Nat /\ count \in Nat
  <2>1. Cardinality(Viewers) \in Nat
    BY FS_CardinalityType, LifecycleAssumption
  <2>2. IsFiniteSet(sessions)
    BY FS_Subset, LifecycleAssumption DEF CountType
  <2>3. Cardinality(sessions) \in Nat
    BY <2>2, FS_CardinalityType
  <2>4. count \in Nat
    <3>1. \A n \in Nat : 0..n \subseteq Nat
      OBVIOUS
    <3>2. count \in 0..Cardinality(Viewers)
      BY DEF CountType
    <3> QED BY <2>1, <3>1, <3>2
  <2> QED BY <2>3, <2>4
<1>3. CASE JoinCount
  <2>1. pc["viewer"] = "joining" /\ UNCHANGED sessions /\ count' = Cardinality(sessions)
    BY <1>3 DEF JoinCount
  <2>2. CASE count = 0 /\ count' = 1
    <3>1. pc'["viewer"] = "first"
      BY <1>0, <1>3, <2>2, Moves DEF JoinCount, Moved
    <3> QED BY <2>1, <2>2, <3>1 DEF Counted, Staged, LeavePlaces
  <2>3. CASE ~(count = 0 /\ count' = 1)
    <3>1. pc'["viewer"] = "idle"
      BY <1>0, <1>3, <2>3, Dones DEF JoinCount, Moved
    <3> QED BY <2>1, <3>1 DEF Counted, Staged, LeavePlaces
  <2> QED BY <2>2, <2>3
<1>4. CASE LeaveCount
  <2>1. pc["viewer"] = "leaving" /\ UNCHANGED sessions /\ count' = Cardinality(sessions)
    BY <1>4 DEF LeaveCount
  <2>2. CASE count = 1 /\ count' = 0
    <3>1. pc'["viewer"] = "last"
      BY <1>0, <1>4, <2>2, Moves DEF LeaveCount, Moved
    <3> QED BY <2>1, <2>2, <3>1 DEF Counted, Staged, LeavePlaces
  <2>3. CASE ~(count = 1 /\ count' = 0)
    <3>1. pc'["viewer"] = "idle"
      BY <1>0, <1>4, <2>3, Dones DEF LeaveCount, Moved
    <3> QED BY <2>1, <3>1 DEF Counted, Staged, LeavePlaces
  <2> QED BY <2>2, <2>3
<1>5. ASSUME NEW v \in Viewers, JoinInsert(v) \/ LeaveDelete(v)
      PROVE  Counted(pc["viewer"])' /\ Staged(pc["viewer"])'
  <2>1. lock = {} /\ UNCHANGED count /\ IsFiniteSet(sessions)
    BY <1>5, FS_Subset, LifecycleAssumption DEF JoinInsert, LeaveDelete, CountType
  <2>2. count = Cardinality(sessions)
    BY <1>1, <2>1 DEF LockInv, Counted
  <2>3. CASE JoinInsert(v)
    <3>1. sessions' = sessions \cup {v} /\ v \notin sessions
      BY <2>1, <2>3 DEF JoinInsert, LockInv
    <3>2. Cardinality(sessions') = Cardinality(sessions) + 1
      BY <2>1, <3>1, FS_AddElement
    <3>3. pc'["viewer"] = "joining"
      BY <1>0, <2>3, Moves DEF JoinInsert, Moved
    <3> QED BY <1>2, <2>1, <2>2, <3>2, <3>3 DEF Counted, Staged, LeavePlaces
  <2>4. CASE LeaveDelete(v)
    <3>1. sessions' = sessions \ {v} /\ v \in sessions
      BY <2>1, <2>4 DEF LeaveDelete, LockInv
    <3>2. Cardinality(sessions') = Cardinality(sessions) - 1
      BY <2>1, <3>1, FS_RemoveElement
    <3>3. pc'["viewer"] = "leaving"
      BY <1>0, <2>4, Moves DEF LeaveDelete, Moved
    <3>4. Cardinality(sessions) = Cardinality(sessions') + 1
      <4>1. \A c \in Nat, d \in Int : d = c - 1 => c = d + 1
        OBVIOUS
      <4>2. \A c \in Nat : c - 1 \in Int
        OBVIOUS
      <4> QED BY <1>2, <3>2, <4>1, <4>2
    <3> QED BY <2>1, <2>2, <3>3, <3>4 DEF Counted, Staged, LeavePlaces
  <2> QED BY <1>5, <2>3, <2>4
<1>6. ASSUME UNCHANGED <<sessions, count>>,
             \/ pc'["viewer"] = pc["viewer"]
             \/ /\ pc["viewer"] \notin {"joining", "leaving"}
                /\ pc'["viewer"] \notin {"joining", "leaving", "first"}
                /\ pc'["viewer"] \in LeavePlaces => pc["viewer"] \in LeavePlaces
      PROVE  Counted(pc["viewer"])' /\ Staged(pc["viewer"])'
  BY <1>1, <1>6 DEF Counted, Staged
<1>7. CASE /\ ~JoinCount /\ ~LeaveCount
           /\ ~\E v \in Viewers : JoinInsert(v) \/ LeaveDelete(v)
  <2>1. UNCHANGED <<sessions, count>>
    <3>1. UNCHANGED sessions
      BY <1>7, SessionFrame
    <3>2. HealthPublish => UNCHANGED count
      BY PublishesTrue
    <3>3. HealthCount => UNCHANGED count
      BY DEF HealthCount, managerVars
    <3> QED BY <1>7, <3>1, <3>2, <3>3, CountFrame
  <2>2. CASE Inner
    <3>0. PICK t \in Threads : \E place : /\ Go(t, place) \/ Bind(t, place) \/ Keep(t, place)
                                         /\ Within(t, place)
      BY <2>2 DEF Inner
    <3>1. PICK place : (Go(t, place) \/ Bind(t, place) \/ Keep(t, place)) /\ Within(t, place)
      BY <3>0
    <3>2. \E p : Moved(t, place, p)
      BY <3>1, Moves
    <3>3. CASE t = "viewer"
      <4>1. pc'["viewer"] = place
        BY <3>2, <3>3 DEF Moved
      <4>2. /\ pc["viewer"] \notin {"joining", "leaving"} /\ place # "first"
            /\ \/ pc["viewer"] \in JoinPlaces /\ place \in JoinPlaces \ {"joining"}
               \/ pc["viewer"] \in LeavePlaces /\ place \in LeavePlaces \ {"leaving"}
        BY <1>7, <3>1, <3>3 DEF Within, Counting
      <4> QED BY <1>6, <2>1, <4>1, <4>2 DEF JoinPlaces, LeavePlaces
    <3>4. CASE t # "viewer"
      <4>1. pc'["viewer"] = pc["viewer"]
        BY <1>0, <3>2, <3>4 DEF Moved
      <4> QED BY <1>6, <2>1, <4>1
    <3> QED BY <3>3, <3>4
  <2>3. CASE Outer
    <3>0. PICK t \in Threads : \E outcome : Done(t, outcome) /\ Ends(t, outcome)
      BY <2>3 DEF Outer
    <3>1. PICK outcome : Done(t, outcome) /\ Ends(t, outcome)
      BY <3>0
    <3>2. Moved(t, "idle", 0)
      BY <3>1, Dones
    <3>3. CASE t = "viewer"
      <4>1. pc'["viewer"] = "idle"
        BY <3>2, <3>3 DEF Moved
      <4>2. pc["viewer"] \notin {"joining", "leaving"}
        BY <1>7, <3>1, <3>3 DEF Ends, Counting
      <4> QED BY <1>6, <2>1, <4>1, <4>2 DEF LeavePlaces
    <3>4. CASE t # "viewer"
      <4>1. pc'["viewer"] = pc["viewer"]
        BY <1>0, <3>2, <3>4 DEF Moved
      <4> QED BY <1>6, <2>1, <4>1
    <3> QED BY <3>3, <3>4
  <2>4. CASE UNCHANGED pc
    BY <1>6, <2>1, <2>4
  <2>5. ASSUME NEW t \in Starters, EnsureBuild(t)
        PROVE  Counted(pc["viewer"])' /\ Staged(pc["viewer"])'
    <3>1. pc[t] = "build" /\ pc' = [pc EXCEPT ![t] = "begin"]
      BY <2>5 DEF EnsureBuild, Move
    <3>2. pc["viewer"] = pc'["viewer"] \/ (pc["viewer"] = "build" /\ pc'["viewer"] = "begin")
      BY <1>0, <3>1 DEF Placed
    <3> QED BY <1>6, <2>1, <3>2 DEF LeavePlaces
  <2> QED BY <1>7, <2>2, <2>3, <2>4, <2>5, LockSteps
<1> QED BY <1>3, <1>4, <1>5, <1>7

(***************************************************************************)
(* The threads in _ensure_producer_running, and the producers.             *)
(***************************************************************************)

EnsurePlaces == {"ensure", "look", "replace", "quit", "build", "begin", "enter", "starting", "record"}

\* A starter stays where it is, or is not yet further than at the beginning.
Stays(u)  == pc'[u] = pc[u] /\ mine'[u] = mine[u]
Beside(u) == Stays(u) \/ (pc[u] \notin EnsurePlaces /\ pc'[u] \notin EnsurePlaces \ {"ensure"})

\* Outside _ensure_producer_running.
LEMMA Besides ==
  ASSUME Placed, LockInv, [Next]_vars, ~Starts
  PROVE  \A u \in Starters : Beside(u)
<1>0. /\ Starters \subseteq Threads /\ "viewer" \in Threads /\ "loop" \in Threads
      /\ "health" \in Threads /\ "event" \in Threads /\ "recovery" \in Threads
  BY ThreadNames
<1>1. ASSUME NEW t \in Threads, NEW place, NEW p, Moved(t, place, p),
             t \in Starters => pc[t] \notin EnsurePlaces /\ place \notin EnsurePlaces \ {"ensure"}
      PROVE  \A u \in Starters : Beside(u)
  BY <1>0, <1>1 DEF Moved, Beside, Stays
<1>2. ASSUME NEW t \in Threads, NEW place,
             Go(t, place) \/ Bind(t, place) \/ Keep(t, place),
             t \in Starters => pc[t] \notin EnsurePlaces /\ place \notin EnsurePlaces \ {"ensure"}
      PROVE  \A u \in Starters : Beside(u)
  BY <1>1, <1>2, Moves
<1>3. ASSUME NEW t \in Threads, NEW outcome, Done(t, outcome), t \in Starters => pc[t] \notin EnsurePlaces
      PROVE  \A u \in Starters : Beside(u)
  BY <1>1, <1>3, Dones DEF EnsurePlaces
<1>4. CASE UNCHANGED <<pc, mine>>
  BY <1>4 DEF Beside, Stays
<1> USE <1>0 DEF EnsurePlaces, Starters
<1>5. CASE Joins
  <2>1. \/ /\ Go("viewer", "joining") \/ Go("viewer", "first") \/ Go("viewer", "ensure")
              \/ Done("viewer", "watching")
           /\ pc["viewer"] \in {"joining", "first"}
        \/ Go("viewer", "joining") /\ lock = {}
    BY <1>5 DEF Joins, JoinInsert, JoinCount, JoinFirst
  <2> QED BY <1>2, <1>3, <2>1 DEF LockInv
<1>6. CASE Leaves
  <2>1. \/ /\ Go("viewer", "last") \/ Go("viewer", "stop") \/ Done("viewer", "away")
           /\ pc["viewer"] \in {"leaving", "last"}
        \/ Go("viewer", "leaving") /\ lock = {}
    BY <1>6 DEF Leaves, LeaveDelete, LeaveCount, LeaveLast
  <2> QED BY <1>2, <1>3, <2>1 DEF LockInv
<1>7. CASE Stops
  <2>1. PICK t \in Stoppers : Stop(t)
    BY <1>7 DEF Stops
  <2>2. t \in Threads
    BY ThreadNames
  <2>3. /\ Go(t, "check") \/ Go(t, "halt") \/ Done(t, "away") \/ Bind(t, "kill")
        /\ pc[t] \in {"stop", "request", "halt", "kill"}
    BY <2>1 DEF Stop, StopChannel, StopRequest, StopHalt
  <2> QED BY <1>2, <1>3, <2>2, <2>3
<1>8. CASE Tears
  <2>1. PICK t \in {"viewer", "loop", "health"} : Teardown(t)
    BY <1>8 DEF Tears
  <2>2. t \in Threads
    BY <1>0
  <2>3. /\ Go(t, "idle") \/ Go(t, "request") \/ Bind(t, "finalize") \/ Bind(t, "force")
        /\ pc[t] \in {"check", "finalize", "force"}
    BY <2>1 DEF Teardown, TeardownCheck, TeardownFinalize, AfterCheck
  <2> QED BY <1>2, <2>2, <2>3
<1>9. CASE LingerExpires
  BY <1>2, <1>4, <1>9 DEF LingerExpires
<1>10. CASE Health
  <2>1. Go("health", "publish") \/ Go("health", "check")
    BY <1>10 DEF Health, HealthCount, HealthPublish
  <2> QED BY <1>2, <2>1
<1>11. CASE Fails
  <2>1. \/ Go("event", "failed") \/ Go("event", "idle")
        \/ Go("recovery", "ensure") /\ pc["recovery"] = "idle"
        \/ UNCHANGED <<pc, mine>>
    BY <1>11 DEF Fails, SessionEnds, OnProducerSessionEnd, AttemptRecovery
  <2> QED BY <1>2, <1>4, <2>1
<1>12. CASE UNCHANGED vars
  BY <1>4, <1>12 DEF vars, threadVars
<1> QED BY <1>5, <1>6, <1>7, <1>8, <1>9, <1>10, <1>11, <1>12, Steps

\* Inside it, the other starter stays where it is.
LEMMA Others ==
  ASSUME Placed, NEW t \in Starters, Ensure(t)
  PROVE  \A u \in Starters \ {t} : Stays(u)
<1>0. t \in Threads /\ Starters \subseteq Threads
  BY ThreadNames
<1>1. ASSUME NEW place, NEW p, Moved(t, place, p) PROVE \A u \in Starters \ {t} : Stays(u)
  BY <1>0, <1>1 DEF Moved, Stays
<1>2. ASSUME NEW place, Go(t, place) \/ Bind(t, place) \/ Keep(t, place) \/ Done(t, place)
      PROVE  \A u \in Starters \ {t} : Stays(u)
  BY <1>0, <1>1, <1>2, Moves, Dones
<1>3. CASE EnsureBuild(t)
  BY <1>0, <1>3 DEF EnsureBuild, Move, Placed, Stays
<1>4. CASE ~EnsureBuild(t)
  <2>1. \/ Go(t, "build") \/ Bind(t, "look") \/ Go(t, "replace") \/ Done(t, "watching")
        \/ Bind(t, "quit") \/ Bind(t, "enter") \/ Done(t, "refused") \/ Go(t, "record")
        \/ Keep(t, "starting")
    BY <1>4 DEF Ensure, EnsureLook, EnsureStop, EnsureBegin, EnsureEnter, EnsureStarted, EnsureRecord,
                Raise
  <2> QED BY <1>2, <2>1
<1> QED BY <1>3, <1>4

(***************************************************************************)
(* What each step of a start and of a stop does.                           *)
(***************************************************************************)

Kept == UNCHANGED <<active, prods, built>>

\* What stop() and start() do to producer p.
Stopped(p) ==
  /\ Only(p)
  /\ p \in Producers /\ prods[p].st # "up" => prods'[p] = prods[p]
  /\ p \in Producers /\ prods[p].st = "up" =>
       prods'[p].st = "stopped" /\ ~prods'[p].tearing /\ ~prods'[p].session
       /\ prods'[p].air \in {"off", "left"}
Entered(p) ==
  /\ p \in Producers /\ Only(p) /\ prods'[p].st = "starting" /\ prods'[p].tearing = prods[p].tearing
  /\ prods'[p].session = prods[p].session /\ prods'[p].air = prods[p].air
Launched(p) ==
  /\ p \in Producers /\ Only(p) /\ prods'[p].st = "up" /\ prods'[p].tearing = prods[p].tearing
  /\ prods'[p].session /\ prods'[p].air = "up"
Failed(p) ==
  /\ p \in Producers /\ Only(p) /\ prods'[p].st = "failed" /\ prods'[p].tearing = prods[p].tearing
  /\ prods'[p].session = prods[p].session /\ prods'[p].air = prods[p].air
Asked(p) ==
  /\ p \in Producers /\ Only(p) /\ prods'[p].tearing /\ prods'[p].st = prods[p].st
  /\ prods'[p].session = prods[p].session /\ prods'[p].air = prods[p].air
Ended(p) ==
  /\ p \in Producers /\ Only(p) /\ ~prods'[p].session /\ prods'[p].tearing = prods[p].tearing
  /\ prods'[p].st = prods[p].st /\ prods'[p].air = prods[p].air
  /\ prods[p].st = "up"

\* What goes wrong on the way.
Dropped(t) == active \notin {0, mine[t]} => "wrong drop" \in mishaps'
Refused(t) == Moved(t, "idle", 0) /\ Dropped(t)
              /\ ("join refused" \in mishaps' \/ "recovery failed" \in mishaps')

\* A start, step by step.
Looks(t) == /\ pc[t] = "ensure" /\ Kept
            /\ IF active = 0 THEN Moved(t, "build", 0) ELSE Moved(t, "look", active)
            /\ Ensuring # {t} => "two starts" \in mishaps'
Finds(t) == /\ pc[t] = "look" /\ Unlocked(mine[t]) /\ Kept
            /\ IF Running(mine[t]) THEN Moved(t, "idle", 0) ELSE Moved(t, "replace", 0)
Sees(t)  == /\ pc[t] = "replace" /\ Kept
            /\ IF active = 0 THEN Moved(t, "build", 0) ELSE Moved(t, "quit", active)
Quits(t) == /\ pc[t] = "quit" /\ Unlocked(mine[t]) /\ Moved(t, "build", 0) /\ Stopped(mine[t])
            /\ active' = 0 /\ UNCHANGED built /\ Dropped(t)
Builds(t) == /\ pc[t] = "build" /\ Moved(t, "begin", built + 1) /\ active' = built + 1
             /\ built' = built + 1 /\ UNCHANGED prods /\ Dropped(t)
Begins(t) == /\ pc[t] = "begin" /\ UNCHANGED <<prods, built>>
             /\ \/ active' = 0 /\ Refused(t)
                \/ active # 0 /\ UNCHANGED active /\ Moved(t, "enter", active)
Enters(t) == /\ pc[t] = "enter" /\ Unlocked(mine[t]) /\ UNCHANGED <<active, built>>
             /\ \/ prods[mine[t]].st = "up" /\ UNCHANGED prods /\ Moved(t, "record", 0)
                \/ prods[mine[t]].st # "up" /\ Entered(mine[t]) /\ Moved(t, "starting", mine[t])
Starteds(t) == /\ pc[t] = "starting" /\ UNCHANGED built
               /\ \/ Launched(mine[t]) /\ UNCHANGED active /\ Moved(t, "record", 0)
                  \/ Failed(mine[t]) /\ active' = 0 /\ Refused(t)
Records(t) == /\ pc[t] = "record" /\ Kept
              /\ IF active = 0 THEN Refused(t) ELSE Moved(t, "idle", 0)

EnsureEdge(t) ==
  /\ \/ Looks(t) \/ Finds(t) \/ Sees(t) \/ Quits(t) \/ Builds(t) \/ Begins(t) \/ Enters(t)
     \/ Starteds(t) \/ Records(t)
  /\ UNCHANGED <<sessions, count, linger, timer, teardown>>

\* A stop, step by step.
Channels(t) == pc[t] = "stop" /\ Kept /\ Moved(t, "check", 0) /\ UNCHANGED teardown
Requests(t) == /\ pc[t] = "request" /\ UNCHANGED <<active, built, linger, timer>> /\ Moved(t, "halt", 0)
               /\ \/ UNCHANGED <<teardown, prods>>
                  \/ active # 0 /\ Asked(active) /\ teardown' = active
Misses(t) == /\ pc[t] = "halt" /\ Kept /\ UNCHANGED <<teardown, linger, timer>>
             /\ IF active = 0 THEN Moved(t, "idle", 0) ELSE Moved(t, "kill", active)
             /\ active = 0 /\ Ensuring # {} => "stop missed a start" \in mishaps'
Kills(t) == /\ pc[t] = "kill" /\ Unlocked(mine[t]) /\ UNCHANGED <<built, teardown, linger, timer>>
            /\ Moved(t, "idle", 0) /\ Stopped(mine[t]) /\ active' = 0 /\ Dropped(t)
            /\ Ensuring # {} => "stop missed a start" \in mishaps'
            /\ sessions # {} => "stopped with viewers" \in mishaps'

StopEdge(t) == /\ Channels(t) \/ Requests(t) \/ Misses(t) \/ Kills(t)
               /\ UNCHANGED <<sessions, count>>

\* A teardown, step by step.
Tearing == active # 0 /\ prods[active].tearing
Checks(t) == /\ pc[t] = "check" /\ Kept /\ UNCHANGED teardown
             /\ \/ (teardown = 0 \/ Tearing) /\ Moved(t, AfterCheck(t), 0)
                \/ teardown # 0 /\ ~Tearing /\ (active = 0 \/ prods[active].status = "STOPPED")
                   /\ Moved(t, "finalize", active)
                \/ teardown # 0 /\ ~Tearing /\ active # 0 /\ Moved(t, "force", active)
             /\ teardown # 0 /\ active \notin {0, teardown} => "late teardown" \in mishaps'
Drops(t) == /\ \/ pc[t] = "finalize" /\ UNCHANGED prods
               \/ pc[t] = "force" /\ Unlocked(mine[t]) /\ Stopped(mine[t])
            /\ Moved(t, AfterCheck(t), 0) /\ teardown' = 0 /\ active' = 0 /\ UNCHANGED built /\ Dropped(t)

TearEdge(t) == (Checks(t) \/ Drops(t)) /\ UNCHANGED <<sessions, count, linger, timer>>

LEMMA Drop ==
  ASSUME NEW t, mishaps \cup WrongDrop(t) \subseteq mishaps'
  PROVE  Dropped(t)
BY DEF WrongDrop, Mishap, Dropped

LEMMA Raised ==
  ASSUME Placed, NEW t \in Starters, Raise(t)
  PROVE  Refused(t)
<1>1. t \in Threads
  BY ThreadNames
<1>2. mishaps \cup WrongDrop(t) \subseteq mishaps'
  BY DEF Raise
<1>3. Moved(t, "idle", 0)
  BY <1>1, Dones DEF Raise
<1>4. "join refused" \in mishaps' \/ "recovery failed" \in mishaps'
  BY DEF Raise
<1> QED BY <1>2, <1>3, <1>4, Drop DEF Refused

LEMMA EnsureEdges ==
  ASSUME TypeInv, NEW t \in Starters, Ensure(t)
  PROVE  EnsureEdge(t)
<1>0. t \in Threads /\ Placed /\ ProdsType
  BY TypeFacts, ThreadNames
<1>1. pc[t] \in {"look", "quit", "enter", "starting"} => mine[t] \in Producers
  BY <1>0, TypeFacts, Built DEF HeldInv, MineType
<1>2. UNCHANGED <<sessions, count, linger, timer, teardown>>
  BY DEF Ensure, EnsureLook, EnsureStop, EnsureBuild, EnsureBegin, EnsureEnter, EnsureStarted,
         EnsureRecord, managerVars
<1>3. CASE EnsureLook(t)
  <2>1. CASE pc[t] = "ensure"
    <3>1. Kept
      BY <1>3, <2>1 DEF EnsureLook, Kept, managerVars, prodVars
    <3>2. IF active = 0 THEN Moved(t, "build", 0) ELSE Moved(t, "look", active)
      BY <1>0, <1>3, <2>1, Moves DEF EnsureLook
    <3>3. mishaps' = mishaps \cup (IF Ensuring # {t} THEN {"two starts"} ELSE {})
      BY <1>3, <2>1 DEF EnsureLook, Mishap
    <3> QED BY <1>2, <2>1, <3>1, <3>2, <3>3 DEF Looks, EnsureEdge
  <2>2. CASE pc[t] = "look"
    <3>1. Kept /\ Unlocked(mine[t])
      BY <1>3, <2>2 DEF EnsureLook, Kept, prodVars
    <3>2. IF Running(mine[t]) THEN Moved(t, "idle", 0) ELSE Moved(t, "replace", 0)
      BY <1>0, <1>3, <2>2, Moves, Dones DEF EnsureLook
    <3> QED BY <1>2, <2>2, <3>1, <3>2 DEF Finds, EnsureEdge
  <2> QED BY <1>3, <2>1, <2>2 DEF EnsureLook
<1>4. CASE EnsureStop(t)
  <2>1. CASE pc[t] = "replace"
    <3>1. Kept
      BY <1>4, <2>1 DEF EnsureStop, Kept, managerVars, prodVars
    <3>2. IF active = 0 THEN Moved(t, "build", 0) ELSE Moved(t, "quit", active)
      BY <1>0, <1>4, <2>1, Moves DEF EnsureStop
    <3> QED BY <1>2, <2>1, <3>1, <3>2 DEF Sees, EnsureEdge
  <2>2. CASE pc[t] = "quit"
    <3>1. /\ Unlocked(mine[t]) /\ Go(t, "build") /\ prods' = Halted(mine[t]) /\ active' = 0
          /\ UNCHANGED built /\ mishaps \cup WrongDrop(t) \subseteq mishaps'
      BY <1>4, <2>2 DEF EnsureStop
    <3>2. Stopped(mine[t])
      BY <1>0, <3>1, HaltEffect DEF Stopped
    <3>3. Moved(t, "build", 0)
      BY <1>0, <3>1, Moves
    <3> QED BY <1>2, <2>2, <3>1, <3>2, <3>3, Drop DEF Quits, EnsureEdge
  <2> QED BY <1>4, <2>1, <2>2 DEF EnsureStop
<1>5. CASE EnsureBuild(t)
  <2>1. /\ pc[t] = "build" /\ pc' = [pc EXCEPT ![t] = "begin"] /\ mine' = [mine EXCEPT ![t] = built + 1]
        /\ active' = built + 1 /\ built' = built + 1 /\ UNCHANGED prods
        /\ mishaps \cup WrongDrop(t) \subseteq mishaps'
    BY <1>5 DEF EnsureBuild, Move
  <2>2. Moved(t, "begin", built + 1)
    BY <1>0, <2>1 DEF Moved, Placed
  <2> QED BY <1>2, <2>1, <2>2, Drop DEF Builds, EnsureEdge
<1>6. CASE EnsureBegin(t)
  <2>1. pc[t] = "begin" /\ UNCHANGED <<prods, built>>
    BY <1>6 DEF EnsureBegin, prodVars
  <2>2. \/ active' = 0 /\ Raise(t)
        \/ active # 0 /\ UNCHANGED active /\ Bind(t, "enter")
    BY <1>6 DEF EnsureBegin
  <2>3. Bind(t, "enter") => Moved(t, "enter", active)
    BY <1>0, Moves
  <2> QED BY <1>0, <1>2, <2>1, <2>2, <2>3, Raised DEF Begins, EnsureEdge
<1>7. CASE EnsureEnter(t)
  <2>1. pc[t] = "enter" /\ Unlocked(mine[t]) /\ UNCHANGED <<active, built>> /\ mine[t] \in Producers
    BY <1>1, <1>7 DEF EnsureEnter, managerVars
  <2>2. CASE prods[mine[t]].st = "up"
    <3>1. UNCHANGED prods /\ Moved(t, "record", 0)
      BY <1>0, <1>7, <2>2, Moves DEF EnsureEnter
    <3> QED BY <1>2, <2>1, <2>2, <3>1 DEF Enters, EnsureEdge
  <2>3. CASE prods[mine[t]].st # "up"
    <3>1. prods' = [prods EXCEPT ![mine[t]].st = "starting"]
      BY <1>7, <2>3 DEF EnsureEnter
    <3>2. Moved(t, "starting", mine[t])
      BY <1>0, <1>7, <2>3, Moves DEF EnsureEnter
    <3>3. Entered(mine[t])
      BY <1>0, <2>1, <3>1, EnterEffect DEF Entered
    <3> QED BY <1>2, <2>1, <2>3, <3>2, <3>3 DEF Enters, EnsureEdge
  <2> QED BY <2>2, <2>3
<1>8. CASE EnsureStarted(t)
  <2>1. pc[t] = "starting" /\ UNCHANGED built /\ mine[t] \in Producers
    BY <1>1, <1>8 DEF EnsureStarted
  <2>2. CASE /\ prods' = [prods EXCEPT ![mine[t]] = [@ EXCEPT !.st = "up", !.status = "RUNNING",
                                                              !.session = TRUE, !.air = "up"]]
             /\ Go(t, "record") /\ UNCHANGED active
    <3>1. Launched(mine[t])
      BY <1>0, <2>1, <2>2, StartedEffect DEF Launched
    <3>2. Moved(t, "record", 0)
      BY <1>0, <2>2, Moves
    <3> QED BY <1>2, <2>1, <2>2, <3>1, <3>2 DEF Starteds, EnsureEdge
  <2>3. CASE /\ prods' = [prods EXCEPT ![mine[t]] = [@ EXCEPT !.st = "failed", !.status = "ERROR"]]
             /\ active' = 0 /\ Raise(t)
    <3>1. Failed(mine[t])
      BY <1>0, <2>1, <2>3, FailedEffect DEF Failed
    <3> QED BY <1>0, <1>2, <2>1, <2>3, <3>1, Raised DEF Starteds, EnsureEdge
  <2> QED BY <1>8, <2>2, <2>3 DEF EnsureStarted
<1>9. CASE EnsureRecord(t)
  <2>1. pc[t] = "record" /\ Kept
    BY <1>9 DEF EnsureRecord, Kept, prodVars
  <2>2. IF active = 0 THEN Raise(t) ELSE Done(t, "watching")
    BY <1>9 DEF EnsureRecord
  <2> QED BY <1>0, <1>2, <2>1, <2>2, Raised, Dones DEF Records, EnsureEdge
<1> QED BY <1>3, <1>4, <1>5, <1>6, <1>7, <1>8, <1>9 DEF Ensure

LEMMA StopEdges ==
  ASSUME TypeInv, NEW t \in Stoppers, Stop(t)
  PROVE  StopEdge(t)
<1>0. t \in Threads /\ Placed /\ ProdsType
  BY TypeFacts, ThreadNames
<1>1. UNCHANGED <<sessions, count>>
  BY DEF Stop, StopChannel, StopRequest, StopHalt
<1>2. CASE StopChannel(t)
  BY <1>0, <1>1, <1>2, Moves DEF StopChannel, Channels, Kept, StopEdge, prodVars
<1>3. CASE StopRequest(t)
  <2>1. pc[t] = "request" /\ UNCHANGED <<active, built, linger, timer>> /\ Moved(t, "halt", 0)
    BY <1>0, <1>3, Moves DEF StopRequest
  <2>2. CASE UNCHANGED <<teardown, prods>>
    BY <1>1, <2>1, <2>2 DEF Requests, StopEdge
  <2>3. CASE /\ active # 0 /\ teardown' = active
             /\ prods' = [prods EXCEPT ![active] = [@ EXCEPT !.tearing = TRUE, !.status = "STOPPING"]]
    <3>1. active \in Producers
      BY <2>3, TypeFacts, Built DEF RefType
    <3>2. Asked(active)
      BY <1>0, <2>3, <3>1, AskedEffect DEF Asked
    <3> QED BY <1>1, <2>1, <2>3, <3>2 DEF Requests, StopEdge
  <2> QED BY <1>3, <2>2, <2>3 DEF StopRequest
<1>4. CASE StopHalt(t)
  <2>1. CASE pc[t] = "halt"
    <3>1. Kept /\ UNCHANGED <<teardown, linger, timer>>
      BY <1>4, <2>1 DEF StopHalt, Kept, prodVars
    <3>2. IF active = 0 THEN Moved(t, "idle", 0) ELSE Moved(t, "kill", active)
      BY <1>0, <1>4, <2>1, Moves, Dones DEF StopHalt
    <3>3. mishaps' = mishaps \cup (IF active = 0 /\ Ensuring # {} THEN {"stop missed a start"} ELSE {})
      BY <1>4, <2>1 DEF StopHalt, Mishap
    <3> QED BY <1>1, <2>1, <3>1, <3>2, <3>3 DEF Misses, StopEdge
  <2>2. CASE pc[t] = "kill"
    <3>1. /\ Unlocked(mine[t]) /\ prods' = Halted(mine[t]) /\ active' = 0 /\ Done(t, "away")
          /\ UNCHANGED <<built, teardown, linger, timer>>
      BY <1>4, <2>2 DEF StopHalt
    <3>2. /\ mishaps' = mishaps \cup WrongDrop(t)
                 \cup (IF Ensuring # {} THEN {"stop missed a start"} ELSE {})
                 \cup (IF sessions # {} THEN {"stopped with viewers"} ELSE {})
      BY <1>4, <2>2 DEF StopHalt, Mishap
    <3>3. Stopped(mine[t])
      BY <1>0, <3>1, HaltEffect DEF Stopped
    <3>4. Moved(t, "idle", 0)
      BY <1>0, <3>1, Dones
    <3>5. Dropped(t)
      BY <3>2, Drop
    <3>6. /\ Ensuring # {} => "stop missed a start" \in mishaps'
          /\ sessions # {} => "stopped with viewers" \in mishaps'
      BY <3>2
    <3> QED BY <1>1, <2>2, <3>1, <3>3, <3>4, <3>5, <3>6 DEF Kills, StopEdge
  <2> QED BY <1>4, <2>1, <2>2 DEF StopHalt
<1> QED BY <1>2, <1>3, <1>4 DEF Stop

LEMMA TearEdges ==
  ASSUME TypeInv, NEW t \in {"viewer", "loop", "health"}, Teardown(t)
  PROVE  TearEdge(t)
<1>0. t \in Threads /\ Placed /\ ProdsType
  BY TypeFacts, ThreadNames
<1>1. UNCHANGED <<sessions, count, linger, timer>>
  BY DEF Teardown, TeardownCheck, TeardownFinalize, managerVars
<1>2. CASE TeardownCheck(t)
  <2>1. pc[t] = "check" /\ Kept /\ UNCHANGED teardown
    BY <1>2 DEF TeardownCheck, Kept, managerVars, prodVars
  <2>2. mishaps' = mishaps \cup (IF teardown # 0 /\ active \notin {0, teardown} THEN {"late teardown"}
                                                                                ELSE {})
    BY <1>2 DEF TeardownCheck, Mishap
  <2>3. CASE teardown = 0 \/ Tearing
    <3>1. Moved(t, AfterCheck(t), 0)
      BY <1>0, <1>2, <2>3, Moves DEF TeardownCheck, Tearing
    <3> QED BY <1>1, <2>1, <2>2, <2>3, <3>1 DEF Checks, TearEdge
  <2>4. CASE ~(teardown = 0 \/ Tearing)
    <3>1. \/ (active = 0 \/ prods[active].status = "STOPPED") /\ Bind(t, "finalize")
          \/ active # 0 /\ Bind(t, "force")
      BY <1>2, <2>4 DEF TeardownCheck, Tearing
    <3>2. \/ (active = 0 \/ prods[active].status = "STOPPED") /\ Moved(t, "finalize", active)
          \/ active # 0 /\ Moved(t, "force", active)
      BY <1>0, <3>1, Moves
    <3> QED BY <1>1, <2>1, <2>2, <2>4, <3>2 DEF Checks, TearEdge
  <2> QED BY <2>3, <2>4
<1>3. CASE TeardownFinalize(t)
  <2>1. /\ Go(t, AfterCheck(t)) /\ teardown' = 0 /\ active' = 0 /\ UNCHANGED built
        /\ mishaps \cup WrongDrop(t) \subseteq mishaps'
    BY <1>3 DEF TeardownFinalize
  <2>2. \/ pc[t] = "finalize" /\ UNCHANGED prods
        \/ pc[t] = "force" /\ Unlocked(mine[t]) /\ prods' = Halted(mine[t])
    BY <1>3 DEF TeardownFinalize
  <2>3. prods' = Halted(mine[t]) => Stopped(mine[t])
    BY <1>0, HaltEffect DEF Stopped
  <2>4. Moved(t, AfterCheck(t), 0)
    BY <1>0, <2>1, Moves
  <2> QED BY <1>1, <2>1, <2>2, <2>3, <2>4, Drop DEF Drops, TearEdge
<1> QED BY <1>2, <1>3 DEF Teardown

\* Every other step leaves the active producer alone, and no thread comes to drop it.
Elsewhere ==
  /\ UNCHANGED <<active, built, teardown>>
  /\ UNCHANGED prods \/ \E p \in Producers : Ended(p)
  /\ \A u \in Threads : \/ pc'[u] = pc[u] /\ mine'[u] = mine[u]
                        \/ pc'[u] \notin {"finalize", "force"}

LEMMA Elsewheres ==
  ASSUME TypeInv, [Next]_vars, ~Starts, ~Stops, ~Tears
  PROVE  Elsewhere
<1>0. Placed /\ ProdsType
  BY TypeFacts
<1>1. UNCHANGED <<active, built, teardown>>
  BY RefFrame DEF Starts, Stops, Tears, Ensure, Stop, Teardown
<1>2. UNCHANGED prods \/ \E p \in Producers : Ended(p)
  <2>1. UNCHANGED prods \/ SessionEnds
    BY ProdFrame DEF Starts, Stops, Tears, Ensure, Stop, Teardown
  <2>2. CASE SessionEnds
    <3>1. PICK p \in Producers : OnAir(p) /\ prods' = [prods EXCEPT ![p].session = FALSE]
      BY <2>2 DEF SessionEnds
    <3>2. Ended(p)
      BY <1>0, <3>1, EndedEffect DEF Ended, OnAir, Running
    <3> QED BY <3>2
  <2> QED BY <2>1, <2>2
<1>3. \A u \in Threads : \/ pc'[u] = pc[u] /\ mine'[u] = mine[u]
                         \/ pc'[u] \notin {"finalize", "force"}
  <2>1. ASSUME NEW t \in Threads, NEW place, place \notin {"finalize", "force"},
               Go(t, place) \/ Bind(t, place) \/ Keep(t, place) \/ Done(t, place)
        PROVE  \A u \in Threads : \/ pc'[u] = pc[u] /\ mine'[u] = mine[u]
                                  \/ pc'[u] \notin {"finalize", "force"}
    BY <1>0, <2>1, Moves, Dones DEF Moved
  <2>2. CASE Joins \/ Leaves
    <3>1. \/ Go("viewer", "joining") \/ Go("viewer", "first") \/ Go("viewer", "ensure")
          \/ Done("viewer", "watching") \/ Go("viewer", "leaving") \/ Go("viewer", "last")
          \/ Go("viewer", "stop") \/ Done("viewer", "away")
      BY <2>2 DEF Joins, JoinInsert, JoinCount, JoinFirst, Leaves, LeaveDelete, LeaveCount, LeaveLast
    <3> QED BY <2>1, <3>1, ThreadNames
  <2>3. CASE LingerExpires \/ Health \/ Fails
    <3>1. \/ Go("loop", "stop") \/ Go("health", "publish") \/ Go("health", "check")
          \/ Go("event", "failed") \/ Go("event", "idle") \/ Go("recovery", "ensure")
          \/ UNCHANGED <<pc, mine>>
      BY <2>3 DEF LingerExpires, Health, HealthCount, HealthPublish, Fails, SessionEnds,
                  OnProducerSessionEnd, AttemptRecovery
    <3> QED BY <2>1, <3>1, ThreadNames
  <2>4. CASE UNCHANGED vars
    BY <2>4 DEF vars, threadVars
  <2> QED BY <2>2, <2>3, <2>4, Steps
<1> QED BY <1>1, <1>2, <1>3 DEF Elsewhere

\* All the steps.
LEMMA StepCases ==
  ASSUME TypeInv, [Next]_vars
  PROVE  \/ \E t \in Starters : EnsureEdge(t) /\ \A u \in Starters \ {t} : Stays(u)
         \/ /\ \A u \in Starters : Beside(u)
            /\ \/ \E t \in Stoppers : StopEdge(t)
               \/ \E t \in {"viewer", "loop", "health"} : TearEdge(t)
               \/ Elsewhere
<1>1. CASE Starts
  <2>1. PICK t \in Starters : Ensure(t)
    BY <1>1 DEF Starts
  <2> QED BY <2>1, EnsureEdges, Others, TypeFacts
<1>2. CASE ~Starts
  <2>1. \A u \in Starters : Beside(u)
    BY <1>2, Besides, TypeFacts
  <2> QED BY <1>2, <2>1, StopEdges, TearEdges, Elsewheres DEF Stops, Tears
<1> QED BY <1>1, <1>2

(***************************************************************************)
(* Producers: AIR is up exactly while a producer is, and start() runs for  *)
(* at most one thread at a time.                                           *)
(***************************************************************************)

Starting(t, p) == pc[t] = "starting" /\ mine[t] = p

ProdOK(p) ==
  /\ prods[p].st = "up" <=> prods[p].air = "up"
  /\ prods[p].session => prods[p].st = "up"
  /\ prods[p].st = "starting" <=> \E t \in Starters : Starting(t, p)
  /\ \A t, u \in Starters : Starting(t, p) /\ Starting(u, p) => t = u

ProdInv == \A p \in Producers : ProdOK(p)

\* The threads that start p are the same.
SameStarts(p) == \A t \in Starters : Starting(t, p) <=> Starting(t, p)'

LEMMA SameProd ==
  ASSUME NEW p, ProdOK(p), SameStarts(p), prods'[p].air = prods[p].air, prods'[p].st = prods[p].st,
         prods'[p].session => prods[p].session
  PROVE  ProdOK(p)'
BY DEF ProdOK, SameStarts

LEMMA StoppedProd ==
  ASSUME NEW p \in Producers, ProdOK(p), SameStarts(p), NEW q, Stopped(q)
  PROVE  ProdOK(p)'
<1>1. CASE prods'[p] = prods[p]
  BY <1>1, SameProd
<1>2. CASE prods'[p] # prods[p]
  <2>1. /\ prods[p].st = "up" /\ prods'[p].st = "stopped" /\ ~prods'[p].session
        /\ prods'[p].air \in {"off", "left"}
    BY <1>2 DEF Stopped, Only
  <2> QED BY <2>1 DEF ProdOK, SameStarts
<1> QED BY <1>1, <1>2

LEMMA BesideStarts ==
  ASSUME \A u \in Starters : Beside(u)
  PROVE  \A p \in Producers : SameStarts(p)
BY DEF Beside, Stays, SameStarts, Starting, EnsurePlaces

LEMMA MovedStarts ==
  ASSUME NEW t \in Starters, NEW place, NEW q, Moved(t, place, q), \A u \in Starters \ {t} : Stays(u),
         pc[t] # "starting" /\ place # "starting"
  PROVE  \A p \in Producers : SameStarts(p)
BY DEF Moved, Stays, SameStarts, Starting

LEMMA ProdInvStep ==
  ASSUME TypeInv, ProdInv, [Next]_vars
  PROVE  ProdInv'
<1> SUFFICES ASSUME NEW p \in Producers PROVE ProdOK(p)'
  BY DEF ProdInv
<1>0. ProdOK(p)
  BY DEF ProdInv
<1>1. ASSUME SameStarts(p), prods'[p] = prods[p] PROVE ProdOK(p)'
  BY <1>0, <1>1, SameProd
<1>2. ASSUME NEW t \in Starters, EnsureEdge(t), \A u \in Starters \ {t} : Stays(u) PROVE ProdOK(p)'
  <2>1. CASE Looks(t) \/ Finds(t) \/ Sees(t) \/ Builds(t) \/ Begins(t) \/ Records(t)
    <3>1. SameStarts(p)
      BY <1>2, <2>1, MovedStarts DEF Looks, Finds, Sees, Builds, Begins, Records, Refused
    <3>2. UNCHANGED prods
      BY <2>1 DEF Looks, Finds, Sees, Builds, Begins, Records, Kept
    <3> QED BY <1>1, <3>1, <3>2
  <2>2. CASE Quits(t)
    <3>1. SameStarts(p)
      BY <1>2, <2>2, MovedStarts DEF Quits
    <3> QED BY <1>0, <2>2, <3>1, StoppedProd DEF Quits
  <2>3. CASE Enters(t) /\ prods[mine[t]].st = "up" /\ UNCHANGED prods /\ Moved(t, "record", 0)
    <3>1. SameStarts(p)
      BY <1>2, <2>3, MovedStarts DEF Enters
    <3> QED BY <1>1, <2>3, <3>1
  <2>4. CASE Enters(t) /\ prods[mine[t]].st # "up" /\ Entered(mine[t]) /\ Moved(t, "starting", mine[t])
    <3>1. /\ \A u \in Starters \ {t} : Starting(u, p)' <=> Starting(u, p)
          /\ ~Starting(t, p) /\ (Starting(t, p)' <=> mine[t] = p)
      BY <1>2, <2>4 DEF Stays, Moved, Starting, Enters
    <3>2. CASE mine[t] = p
      <4>1. \A u \in Starters : ~Starting(u, p)
        BY <1>0, <2>4, <3>2 DEF ProdOK, Enters, Unlocked
      <4>2. prods'[p].st = "starting" /\ prods'[p].air = prods[p].air /\ prods'[p].session = prods[p].session
            /\ prods[p].st # "up"
        BY <2>4, <3>2 DEF Entered
      <4> QED BY <1>0, <3>1, <3>2, <4>1, <4>2 DEF ProdOK
    <3>3. CASE mine[t] # p
      <4>1. SameStarts(p)
        BY <3>1, <3>3 DEF SameStarts
      <4> QED BY <1>1, <2>4, <3>3, <4>1 DEF Entered, Only
    <3> QED BY <3>2, <3>3
  <2>5. CASE Starteds(t)
    <3>1. /\ \A u \in Starters \ {t} : Starting(u, p)' <=> Starting(u, p)
          /\ ~Starting(t, p)' /\ (Starting(t, p) <=> mine[t] = p)
      BY <1>2, <2>5 DEF Stays, Moved, Starting, Starteds, Refused
    <3>2. CASE mine[t] = p
      <4>1. \A u \in Starters : ~Starting(u, p)'
        BY <1>0, <3>1, <3>2 DEF ProdOK
      <4>2. \/ prods'[p].st = "up" /\ prods'[p].air = "up"
            \/ prods'[p].st = "failed" /\ prods'[p].air = prods[p].air /\ prods'[p].session = prods[p].session
        BY <2>5, <3>2 DEF Starteds, Launched, Failed
      <4>3. prods[p].st = "starting"
        BY <1>0, <3>1, <3>2 DEF ProdOK
      <4> QED BY <1>0, <4>1, <4>2, <4>3 DEF ProdOK
    <3>3. CASE mine[t] # p
      <4>1. SameStarts(p)
        BY <3>1, <3>3 DEF SameStarts
      <4> QED BY <1>1, <2>5, <3>3, <4>1 DEF Starteds, Launched, Failed, Only
    <3> QED BY <3>2, <3>3
  <2> QED BY <1>2, <2>1, <2>2, <2>3, <2>4, <2>5 DEF EnsureEdge, Enters
<1>3. ASSUME \A u \in Starters : Beside(u), NEW t \in Stoppers, StopEdge(t) PROVE ProdOK(p)'
  <2>1. SameStarts(p)
    BY <1>3, BesideStarts
  <2>2. CASE Channels(t) \/ Misses(t)
    BY <1>1, <2>1, <2>2 DEF Channels, Misses, Kept
  <2>3. CASE Requests(t)
    <3>1. prods'[p].air = prods[p].air /\ prods'[p].st = prods[p].st /\ prods'[p].session = prods[p].session
      BY <2>3 DEF Requests, Asked, Only
    <3> QED BY <1>0, <2>1, <3>1, SameProd
  <2>4. CASE Kills(t)
    BY <1>0, <2>1, <2>4, StoppedProd DEF Kills
  <2> QED BY <1>3, <2>2, <2>3, <2>4 DEF StopEdge
<1>4. ASSUME \A u \in Starters : Beside(u), NEW t \in {"viewer", "loop", "health"}, TearEdge(t)
      PROVE  ProdOK(p)'
  <2>1. SameStarts(p)
    BY <1>4, BesideStarts
  <2>2. UNCHANGED prods \/ Stopped(mine[t])
    BY <1>4 DEF TearEdge, Checks, Drops, Kept
  <2> QED BY <1>0, <1>1, <2>1, <2>2, StoppedProd
<1>5. ASSUME \A u \in Starters : Beside(u), Elsewhere PROVE ProdOK(p)'
  <2>1. SameStarts(p)
    BY <1>5, BesideStarts
  <2>2. prods'[p].air = prods[p].air /\ prods'[p].st = prods[p].st /\ (prods'[p].session => prods[p].session)
    BY <1>5 DEF Elsewhere, Ended, Only
  <2> QED BY <1>0, <2>1, <2>2, SameProd
<1> QED BY <1>2, <1>3, <1>4, <1>5, StepCases

(***************************************************************************)
(* A teardown drops only what was asked to stop.                           *)
(***************************************************************************)

TearInv == teardown # 0 /\ active = teardown => prods[active].tearing

LEMMA TearInvStep ==
  ASSUME TypeInv, TearInv, [Next]_vars
  PROVE  TearInv'
<1>0. built \in Nat /\ teardown \in 0..built /\ active \in 0..built
  BY TypeFacts, LifecycleAssumption DEF RefType
<1>a. active # 0 => active \in Producers
  BY <1>0, TypeFacts, Built
<1>1. ASSUME active' = 0 PROVE TearInv'
  BY <1>1 DEF TearInv
<1>2. ASSUME UNCHANGED <<active, teardown>>, active # 0 => prods'[active].tearing = prods[active].tearing
      PROVE  TearInv'
  BY <1>2 DEF TearInv
<1>3. ASSUME NEW t \in Starters, EnsureEdge(t) PROVE TearInv'
  <2>1. UNCHANGED teardown
    BY <1>3 DEF EnsureEdge
  <2>2. CASE Looks(t) \/ Finds(t) \/ Sees(t) \/ Records(t)
    BY <1>2, <2>1, <2>2 DEF Looks, Finds, Sees, Records, Kept
  <2>3. CASE Quits(t)
    BY <1>1, <2>3 DEF Quits
  <2>4. CASE Builds(t)
    <3>1. active' = built + 1 /\ teardown' # built + 1
      BY <1>0, <2>1, <2>4 DEF Builds
    <3> QED BY <3>1 DEF TearInv
  <2>5. CASE Begins(t)
    BY <1>1, <1>2, <2>1, <2>5 DEF Begins
  <2>6. CASE Enters(t)
    BY <1>a, <1>2, <2>1, <2>6 DEF Enters, Entered, Only
  <2>7. CASE Starteds(t)
    BY <1>a, <1>1, <1>2, <2>1, <2>7 DEF Starteds, Launched, Only
  <2> QED BY <1>3, <2>2, <2>3, <2>4, <2>5, <2>6, <2>7 DEF EnsureEdge
<1>4. ASSUME NEW t \in Stoppers, StopEdge(t) PROVE TearInv'
  <2>1. CASE Channels(t) \/ Misses(t)
    BY <1>2, <2>1 DEF Channels, Misses, Kept
  <2>2. CASE Requests(t)
    <3>1. CASE UNCHANGED <<teardown, prods>>
      BY <1>2, <2>2, <3>1 DEF Requests
    <3>2. CASE active # 0 /\ Asked(active)
      BY <2>2, <3>2 DEF Requests, Asked, TearInv
    <3> QED BY <2>2, <3>1, <3>2 DEF Requests
  <2>3. CASE Kills(t)
    BY <1>1, <2>3 DEF Kills
  <2> QED BY <1>4, <2>1, <2>2, <2>3 DEF StopEdge
<1>5. ASSUME NEW t \in {"viewer", "loop", "health"}, TearEdge(t) PROVE TearInv'
  BY <1>1, <1>2, <1>5 DEF TearEdge, Checks, Drops, Kept
<1>6. ASSUME Elsewhere PROVE TearInv'
  BY <1>a, <1>2, <1>6 DEF Elsewhere, Ended, Only
<1> QED BY <1>3, <1>4, <1>5, <1>6, StepCases

\* No producer that is not tearing down is torn down.
OnTime  == Free({"late teardown"})
DropInv == OnTime => \A t \in Threads : pc[t] # "force" /\ (pc[t] = "finalize" => mine[t] = 0)

LEMMA DropInvStep ==
  ASSUME TypeInv, TearInv, DropInv, [Next]_vars
  PROVE  DropInv'
<1> SUFFICES ASSUME OnTime', NEW u \in Threads
             PROVE  pc'[u] # "force" /\ (pc'[u] = "finalize" => mine'[u] = 0)
  BY DEF DropInv
<1>1. OnTime
  BY Grows DEF OnTime
<1>2. pc[u] # "force" /\ (pc[u] = "finalize" => mine[u] = 0)
  BY <1>1 DEF DropInv
<1>3. ASSUME (pc'[u] = pc[u] /\ mine'[u] = mine[u]) \/ pc'[u] \notin {"finalize", "force"}
      PROVE  pc'[u] # "force" /\ (pc'[u] = "finalize" => mine'[u] = 0)
  BY <1>2, <1>3
<1>4. ASSUME NEW t \in Threads, NEW place, NEW p, Moved(t, place, p), place \notin {"finalize", "force"}
      PROVE  pc'[u] # "force" /\ (pc'[u] = "finalize" => mine'[u] = 0)
  BY <1>3, <1>4 DEF Moved
<1>5. ASSUME NEW t \in Starters, EnsureEdge(t)
      PROVE  pc'[u] # "force" /\ (pc'[u] = "finalize" => mine'[u] = 0)
  <2>1. t \in Threads
    BY ThreadNames
  <2>2. \/ Moved(t, "build", 0) \/ Moved(t, "look", active) \/ Moved(t, "idle", 0)
        \/ Moved(t, "replace", 0) \/ Moved(t, "quit", active) \/ Moved(t, "begin", built + 1)
        \/ Moved(t, "enter", active) \/ Moved(t, "record", 0) \/ Moved(t, "starting", mine[t])
    BY <1>5 DEF EnsureEdge, Looks, Finds, Sees, Quits, Builds, Begins, Enters, Starteds, Records, Refused
  <2> QED BY <1>4, <2>1, <2>2
<1>6. ASSUME NEW t \in Stoppers, StopEdge(t)
      PROVE  pc'[u] # "force" /\ (pc'[u] = "finalize" => mine'[u] = 0)
  <2>1. t \in Threads
    BY ThreadNames
  <2>2. Moved(t, "check", 0) \/ Moved(t, "halt", 0) \/ Moved(t, "idle", 0) \/ Moved(t, "kill", active)
    BY <1>6 DEF StopEdge, Channels, Requests, Misses, Kills
  <2> QED BY <1>4, <2>1, <2>2
<1>7. ASSUME NEW t \in {"viewer", "loop", "health"}, TearEdge(t)
      PROVE  pc'[u] # "force" /\ (pc'[u] = "finalize" => mine'[u] = 0)
  <2>1. t \in Threads
    BY ThreadNames
  <2>2. AfterCheck(t) \notin {"finalize", "force"}
    BY DEF AfterCheck
  <2>3. CASE Moved(t, AfterCheck(t), 0)
    BY <1>4, <2>1, <2>2, <2>3
  <2>4. CASE ~Moved(t, AfterCheck(t), 0)
    <3>1. /\ teardown # 0 /\ ~Tearing
          /\ Moved(t, "finalize", active) \/ (active # 0 /\ Moved(t, "force", active))
          /\ active \notin {0, teardown} => "late teardown" \in mishaps'
      BY <1>7, <2>4 DEF TearEdge, Checks, Drops
    <3>2. active = 0
      <4>1. "late teardown" \notin mishaps'
        BY DEF OnTime, Free
      <4>2. active # teardown \/ active = 0
        BY <3>1 DEF TearInv, Tearing
      <4> QED BY <3>1, <4>1, <4>2
    <3>3. Moved(t, "finalize", 0)
      BY <3>1, <3>2
    <3> QED BY <1>2, <2>1, <3>3 DEF Moved
  <2> QED BY <2>3, <2>4
<1>8. ASSUME Elsewhere
      PROVE  pc'[u] # "force" /\ (pc'[u] = "finalize" => mine'[u] = 0)
  BY <1>3, <1>8 DEF Elsewhere
<1> QED BY <1>5, <1>6, <1>7, <1>8, StepCases

(***************************************************************************)
(* The only AIR process is the active producer's, but for the mishaps that *)
(* NoOrphanAir names.                                                      *)
(***************************************************************************)

Clear == Free({"late teardown", "wrong drop", "two starts", "stop missed a start"})

LEMMA Clears ==
  ASSUME [Next]_vars, Clear'
  PROVE  /\ Clear
         /\ "wrong drop" \notin mishaps' /\ "two starts" \notin mishaps'
         /\ "stop missed a start" \notin mishaps' /\ "late teardown" \notin mishaps'
<1>1. Clear
  BY Grows DEF Clear
<1> QED BY <1>1 DEF Clear, Free

\* One starter at a time has got past the beginning.
PastPlaces == EnsurePlaces \ {"ensure"}
Past(t)    == pc[t] \in PastPlaces
AloneInv   == Clear => \A t, u \in Starters : Past(t) /\ Past(u) => t = u

\* What a starter has in hand is the active producer.
InHold(t) ==
  /\ pc[t] \in {"look", "quit", "begin", "enter", "starting"} => mine[t] = active /\ active # 0
  /\ pc[t] = "build" => active = 0
  /\ pc[t] \in {"begin", "enter"} => prods[active].st = "new"
  /\ pc[t] = "record" => active # 0
HoldInv == Clear => \A t \in Starters : InHold(t)

\* No other producer is up.
UpInv == Clear => \A p \in Producers : prods[p].st = "up" => p = active

LEMMA NotPast ==
  ASSUME NEW u, Beside(u), ~Past(u)
  PROVE  ~Past(u)'
BY DEF Beside, Stays, Past, PastPlaces

LEMMA Holdless ==
  ASSUME NEW u, ~Past(u)
  PROVE  InHold(u)
BY DEF Past, PastPlaces, EnsurePlaces, InHold

LEMMA AloneStep ==
  ASSUME TypeInv, AloneInv, [Next]_vars
  PROVE  AloneInv'
<1> SUFFICES ASSUME Clear', NEW t \in Starters, NEW u \in Starters, Past(t)', Past(u)' PROVE t = u
  BY DEF AloneInv
<1>1. \A s, r \in Starters : Past(s) /\ Past(r) => s = r
  BY Clears DEF AloneInv
<1>2. ASSUME NEW s \in Starters, EnsureEdge(s), \A r \in Starters \ {s} : Stays(r) PROVE t = u
  <2>1. \A r \in Starters \ {s} : Past(r)' => Past(r)
    BY <1>2 DEF Stays, Past
  <2>2. CASE Past(s)
    BY <1>1, <2>1, <2>2
  <2>3. CASE ~Past(s)
    <3>1. Looks(s)
      BY <1>2, <2>3 DEF EnsureEdge, Finds, Sees, Quits, Builds, Begins, Enters, Starteds, Records, Past,
                        PastPlaces, EnsurePlaces
    <3>2. Ensuring = {s}
      BY <3>1, Clears DEF Looks
    <3>3. \A r \in Starters \ {s} : ~Past(r)
      BY <3>2 DEF Ensuring, Past, PastPlaces, EnsurePlaces
    <3> QED BY <2>1, <3>3
  <2> QED BY <2>2, <2>3
<1>3. CASE \A r \in Starters : Beside(r)
  <2>1. Past(t) /\ Past(u)
    BY <1>3, NotPast
  <2> QED BY <1>1, <2>1
<1> QED BY <1>2, <1>3, StepCases

\* A producer is dropped outside a start only if there is no start, or none is active.
LEMMA Dropping ==
  ASSUME TypeInv, DropInv, [Next]_vars, Clear', NEW t
  PROVE  /\ Kills(t) => Ensuring = {} /\ active \in {0, mine[t]}
         /\ t \in {"viewer", "loop", "health"} /\ Drops(t) => active = 0 /\ UNCHANGED prods
<1>1. Kills(t) => Ensuring = {} /\ active \in {0, mine[t]}
  BY Clears DEF Kills, Dropped
<1>2. ASSUME t \in {"viewer", "loop", "health"}, Drops(t) PROVE active = 0 /\ UNCHANGED prods
  <2>1. OnTime
    BY Clears DEF OnTime, Clear, Free
  <2>2. pc[t] # "force" /\ (pc[t] = "finalize" => mine[t] = 0)
    BY <1>2, <2>1, ThreadNames DEF DropInv
  <2>3. active \in {0, mine[t]}
    BY <1>2, Clears DEF Drops, Dropped
  <2> QED BY <1>2, <2>2, <2>3 DEF Drops
<1> QED BY <1>1, <1>2

LEMMA HoldStep ==
  ASSUME TypeInv, TearInv, DropInv, AloneInv, HoldInv, UpInv, [Next]_vars
  PROVE  HoldInv'
<1> SUFFICES ASSUME Clear', NEW u \in Starters PROVE InHold(u)'
  BY DEF HoldInv
<1>0. InHold(u) /\ (active # 0 => active \in Producers)
  BY Clears, TypeFacts, Built DEF HoldInv, RefType
<1>1. ASSUME UNCHANGED active, active # 0 => prods'[active].st = prods[active].st, Beside(u)
      PROVE  InHold(u)'
  <2>1. CASE Stays(u)
    BY <1>0, <1>1, <2>1 DEF Stays, InHold
  <2>2. CASE ~Stays(u)
    <3>1. ~Past(u)'
      BY <1>1, <2>2 DEF Beside, Past, PastPlaces
    <3> QED BY <3>1 DEF Past, PastPlaces, EnsurePlaces, InHold
  <2> QED BY <2>1, <2>2
<1>2. ASSUME NEW t \in Starters, EnsureEdge(t), \A r \in Starters \ {t} : Stays(r)
      PROVE  InHold(u)'
  <2>1. CASE t # u
    <3>1. ~Past(u)
      <4>1. CASE Past(t)
        BY <2>1, <4>1, Clears DEF AloneInv
      <4>2. CASE ~Past(t)
        <5>1. Looks(t)
          BY <1>2, <4>2 DEF EnsureEdge, Finds, Sees, Quits, Builds, Begins, Enters, Starteds, Records,
                            Past, PastPlaces, EnsurePlaces
        <5>2. Ensuring = {t}
          BY <5>1, Clears DEF Looks
        <5> QED BY <2>1, <5>2 DEF Ensuring, Past, PastPlaces, EnsurePlaces
      <4> QED BY <4>1, <4>2
    <3>2. pc'[u] = pc[u]
      BY <1>2, <2>1 DEF Stays
    <3> QED BY <3>1, <3>2 DEF Past, PastPlaces, EnsurePlaces, InHold
  <2>2. CASE t = u
    <3>1. CASE Looks(u) \/ Sees(u) \/ Finds(u) \/ Records(u)
      BY <3>1 DEF Looks, Sees, Finds, Records, Refused, Kept, Moved, InHold
    <3>2. CASE Quits(u)
      BY <3>2 DEF Quits, Moved, InHold
    <3>3. CASE Builds(u)
      <4>1. built' = built + 1 /\ active' = built + 1 /\ UNCHANGED prods
            /\ pc'[u] = "begin" /\ mine'[u] = built + 1
        BY <3>3 DEF Builds, Moved
      <4>2. built \in Nat /\ built' \in 0..(MaxJoins + MaxEnds)
        BY TypeFacts, TypeStep, LifecycleAssumption DEF TypeInv, Types, RefType, Ledger
      <4>3. built + 1 \in Producers /\ built + 1 > built /\ built + 1 # 0
        BY <4>1, <4>2, LifecycleAssumption DEF Producers
      <4>4. prods[built + 1].st = "new"
        BY <4>3, TypeFacts DEF FreshInv, Fresh
      <4> QED BY <4>1, <4>3, <4>4 DEF InHold
    <3>4. CASE Begins(u)
      BY <1>0, <3>4 DEF Begins, Refused, Moved, InHold
    <3>5. CASE Enters(u)
      BY <1>0, <3>5 DEF Enters, Moved, InHold
    <3>6. CASE Starteds(u)
      BY <1>0, <3>6 DEF Starteds, Refused, Moved, InHold
    <3> QED BY <1>2, <2>2, <3>1, <3>2, <3>3, <3>4, <3>5, <3>6 DEF EnsureEdge
  <2> QED BY <2>1, <2>2
<1>3. ASSUME \A r \in Starters : Beside(r), NEW t \in Stoppers, StopEdge(t)
      PROVE  InHold(u)'
  <2>1. CASE Channels(t) \/ Misses(t)
    BY <1>1, <1>3, <2>1 DEF Channels, Misses, Kept
  <2>2. CASE Requests(t)
    BY <1>0, <1>1, <1>3, <2>2 DEF Requests, Asked
  <2>3. CASE Kills(t)
    <3>1. ~Past(u)
      BY <2>3, Dropping DEF Ensuring, Past, PastPlaces, EnsurePlaces
    <3>2. ~Past(u)'
      BY <1>3, <3>1, NotPast
    <3> QED BY <3>2 DEF Past, PastPlaces, EnsurePlaces, InHold
  <2> QED BY <1>3, <2>1, <2>2, <2>3 DEF StopEdge
<1>4. ASSUME \A r \in Starters : Beside(r), NEW t \in {"viewer", "loop", "health"}, TearEdge(t)
      PROVE  InHold(u)'
  <2>1. UNCHANGED <<active, prods>>
    BY <1>4, Dropping DEF TearEdge, Checks, Drops, Kept
  <2> QED BY <1>1, <1>4, <2>1
<1>5. ASSUME \A r \in Starters : Beside(r), Elsewhere
      PROVE  InHold(u)'
  BY <1>0, <1>1, <1>5 DEF Elsewhere, Ended, Only
<1> QED BY <1>2, <1>3, <1>4, <1>5, StepCases

LEMMA UpStep ==
  ASSUME TypeInv, TearInv, DropInv, HoldInv, UpInv, [Next]_vars
  PROVE  UpInv'
<1> SUFFICES ASSUME Clear', NEW p \in Producers, prods'[p].st = "up" PROVE p = active'
  BY DEF UpInv
<1>0. /\ prods[p].st = "up" => p = active
      /\ \A t \in Starters : InHold(t)
      /\ active # 0 => active \in Producers
      /\ p # 0
  <2>1. p # 0
    BY DEF Producers
  <2>2. active # 0 => active \in Producers
    BY TypeFacts, Built DEF RefType
  <2> QED BY <2>1, <2>2, Clears DEF UpInv, HoldInv
<1>1. ASSUME UNCHANGED active, prods'[p].st = prods[p].st PROVE p = active'
  BY <1>0, <1>1
<1>2. ASSUME NEW t \in Starters, EnsureEdge(t) PROVE p = active'
  <2>0. InHold(t)
    BY <1>0
  <2>1. CASE Looks(t) \/ Finds(t) \/ Sees(t) \/ Records(t)
    BY <1>1, <2>1 DEF Looks, Finds, Sees, Records, Kept
  <2>2. CASE Quits(t)
    <3>1. mine[t] = active /\ Stopped(mine[t])
      BY <2>0, <2>2 DEF Quits, InHold
    <3> QED BY <1>0, <3>1 DEF Stopped, Only
  <2>3. CASE Builds(t)
    BY <1>0, <2>0, <2>3 DEF Builds, InHold
  <2>4. CASE Begins(t)
    BY <1>0, <1>1, <2>0, <2>4 DEF Begins, InHold
  <2>5. CASE Enters(t)
    <3>1. UNCHANGED active /\ (UNCHANGED prods \/ Entered(mine[t]))
      BY <2>5 DEF Enters
    <3> QED BY <1>0, <3>1 DEF Entered, Only
  <2>6. CASE Starteds(t)
    <3>1. mine[t] = active
      BY <2>0, <2>6 DEF Starteds, InHold
    <3>2. CASE Launched(mine[t]) /\ UNCHANGED active
      BY <1>0, <3>1, <3>2 DEF Launched, Only
    <3>3. CASE Failed(mine[t])
      BY <1>0, <3>1, <3>3 DEF Failed, Only
    <3> QED BY <2>6, <3>2, <3>3 DEF Starteds
  <2> QED BY <1>2, <2>1, <2>2, <2>3, <2>4, <2>5, <2>6 DEF EnsureEdge
<1>3. ASSUME NEW t \in Stoppers, StopEdge(t) PROVE p = active'
  <2>1. CASE Channels(t) \/ Misses(t)
    BY <1>1, <2>1 DEF Channels, Misses, Kept
  <2>2. CASE Requests(t)
    BY <1>1, <2>2 DEF Requests, Asked, Only
  <2>3. CASE Kills(t)
    <3>1. Stopped(mine[t]) /\ active \in {0, mine[t]}
      BY <2>3, Dropping DEF Kills
    <3> QED BY <1>0, <3>1 DEF Stopped, Only
  <2> QED BY <1>3, <2>1, <2>2, <2>3 DEF StopEdge
<1>4. ASSUME NEW t \in {"viewer", "loop", "health"}, TearEdge(t) PROVE p = active'
  <2>1. UNCHANGED <<active, prods>>
    BY <1>4, Dropping DEF TearEdge, Checks, Drops, Kept
  <2> QED BY <1>1, <2>1
<1>5. ASSUME Elsewhere PROVE p = active'
  BY <1>1, <1>5 DEF Elsewhere, Ended, Only
<1> QED BY <1>2, <1>3, <1>4, <1>5, StepCases

(***************************************************************************)
(* A channel that everyone has left goes off the air.                      *)
(***************************************************************************)

AfterLeave == LeavePlaces \ {"leaving"}
Pending == linger \/ pc["viewer"] \in AfterLeave \/ pc["loop"] # "idle"
PendInv == Clear /\ Exact /\ count = 0 /\ (active # 0 \/ pc["recovery"] # "idle") => Pending

LEMMA StartersCount ==
  ASSUME TypeInv, CountInv, Exact, pc["viewer"] \in EnsurePlaces
  PROVE  count # 0
<1>1. PICK v \in Viewers : lock = {v}
  BY TypeFacts DEF LockType, EnsurePlaces
<1>2. v \in sessions
  BY <1>1, TypeFacts DEF LockInv, JoinPlaces, EnsurePlaces
<1>3. IsFiniteSet(sessions)
  BY TypeFacts, FS_Subset, LifecycleAssumption DEF CountType
<1>4. Cardinality(sessions) # 0
  BY <1>2, <1>3, FS_EmptySet
<1>5. count = Cardinality(sessions)
  BY DEF CountInv, Counted, EnsurePlaces
<1> QED BY <1>4, <1>5

LEMMA PendStep ==
  ASSUME TypeInv, TearInv, DropInv, CountInv, CountInv', AloneInv, HoldInv, PendInv, [Next]_vars
  PROVE  PendInv'
<1> SUFFICES ASSUME Clear', Exact', count' = 0, active' # 0 \/ pc'["recovery"] # "idle"
             PROVE  Pending'
  BY DEF PendInv
<1>0. Clear /\ Exact /\ Placed /\ PcType
  BY Clears, Grows, TypeFacts DEF Exact
<1>t. /\ "viewer" \in Threads /\ "loop" \in Threads /\ "recovery" \in Threads
      /\ Starters = {"viewer", "recovery"} /\ Stoppers = {"viewer", "loop"}
  BY ThreadNames DEF Starters, Stoppers
<1>1. ASSUME UNCHANGED <<linger, active, count>>, NEW t \in {"viewer", "health", "event"}, NEW place,
             Moved(t, place, 0), t = "viewer" => pc["viewer"] \notin AfterLeave
      PROVE  Pending'
  <2>1. pc'["loop"] = pc["loop"] /\ pc'["recovery"] = pc["recovery"]
    BY <1>1, <1>t DEF Moved
  <2>2. pc["viewer"] \in AfterLeave => pc'["viewer"] = pc["viewer"]
    BY <1>1, <1>t DEF Moved
  <2> QED BY <1>0, <1>1, <2>1, <2>2 DEF PendInv, Pending
<1>2. ASSUME NEW t \in Starters, EnsureEdge(t) PROVE Pending'
  <2>1. UNCHANGED <<count, linger>>
    BY <1>2 DEF EnsureEdge
  <2>2. pc[t] \in EnsurePlaces
    BY <1>2 DEF EnsureEdge, Looks, Finds, Sees, Quits, Builds, Begins, Enters, Starteds, Records,
                EnsurePlaces
  <2>3. t = "recovery"
    BY <1>0, <1>t, <2>1, <2>2, StartersCount
  <2>4. pc'["viewer"] = pc["viewer"] /\ pc'["loop"] = pc["loop"]
    BY <1>2, <1>t, <2>3 DEF EnsureEdge, Looks, Finds, Sees, Quits, Builds, Begins, Enters, Starteds,
                            Records, Refused, Moved
  <2>5. Pending
    BY <1>0, <2>1, <2>2, <2>3 DEF PendInv, EnsurePlaces
  <2> QED BY <2>1, <2>4, <2>5 DEF Pending
\* A stop goes on, unless it was the last step, which leaves nothing to wait for.
<1>3. ASSUME NEW t \in Stoppers, NEW place, NEW p, Moved(t, place, p), place \in AfterLeave
      PROVE  Pending'
  BY <1>3, <1>t DEF Moved, Pending, AfterLeave, LeavePlaces
<1>4. ASSUME NEW t \in Stoppers, NEW p, Moved(t, "idle", p), active' = 0, Ensuring = {}
      PROVE  FALSE
  <2>1. pc'["recovery"] = pc["recovery"]
    BY <1>4, <1>t DEF Moved
  <2>2. pc["recovery"] \in Places["recovery"] /\ pc["recovery"] \notin EnsurePlaces
    BY <1>0, <1>4, <1>t DEF PcType, Ensuring, EnsurePlaces
  <2> QED BY <1>4, <2>1, <2>2 DEF Places, EnsurePlaces
<1>5. ASSUME NEW t \in Stoppers, StopEdge(t) PROVE Pending'
  <2>0. "stop missed a start" \notin mishaps'
    BY Clears
  <2>1. \/ Moved(t, "check", 0) \/ Moved(t, "halt", 0) \/ Moved(t, "kill", active)
        \/ Moved(t, "idle", 0) /\ active' = 0 /\ Ensuring = {}
    BY <1>5, <2>0 DEF StopEdge, Channels, Requests, Misses, Kills, Kept
  <2> QED BY <1>3, <1>4, <2>1 DEF AfterLeave, LeavePlaces
<1>6. ASSUME NEW t \in {"viewer", "loop", "health"}, TearEdge(t) PROVE Pending'
  <2>1. \/ Moved(t, AfterCheck(t), 0) \/ Moved(t, "finalize", active) \/ Moved(t, "force", active)
    BY <1>6 DEF TearEdge, Checks, Drops
  <2>2. CASE t # "health"
    <3>1. t \in Stoppers /\ AfterCheck(t) = "request"
      BY <1>t, <2>2 DEF AfterCheck
    <3> QED BY <1>3, <2>1, <3>1 DEF AfterLeave, LeavePlaces
  <2>3. CASE t = "health"
    <3>1. UNCHANGED <<active, count, linger>>
      BY <1>6, Dropping DEF TearEdge, Checks, Kept, Drops
    <3>2. /\ pc'["viewer"] = pc["viewer"] /\ pc'["loop"] = pc["loop"]
          /\ pc'["recovery"] = pc["recovery"]
      BY <1>t, <2>1, <2>3 DEF Moved
    <3> QED BY <1>0, <3>1, <3>2 DEF PendInv, Pending
  <2> QED BY <2>2, <2>3
<1>7. /\ LockInv /\ LockType /\ Counted(pc["viewer"]) /\ Staged(pc["viewer"])
      /\ count \in Nat
  <2>1. Cardinality(Viewers) \in Nat /\ count \in 0..Cardinality(Viewers)
    BY TypeFacts, FS_CardinalityType, LifecycleAssumption DEF CountType
  <2> QED BY <1>0, <2>1, TypeFacts DEF CountInv
<1>8. CASE Joins
  <2>1. UNCHANGED <<active, linger>> \/ JoinCount
    BY <1>8 DEF Joins, JoinInsert, JoinFirst
  <2>2. ~JoinCount
    <3>1. JoinCount => pc["viewer"] = "joining" /\ count' = Cardinality(sessions)
      BY DEF JoinCount
    <3> QED BY <1>7, <3>1 DEF Counted
  <2>3. ~JoinFirst
    BY <1>7 DEF JoinFirst, Staged
  <2>4. PICK v \in Viewers : JoinInsert(v)
    BY <1>8, <2>2, <2>3 DEF Joins
  <2>5. Moved("viewer", "joining", 0) /\ UNCHANGED <<active, linger, count>> /\ pc["viewer"] = "idle"
    BY <1>0, <1>7, <1>t, <2>4, Moves DEF JoinInsert, LockType
  <2> QED BY <1>1, <2>5 DEF AfterLeave, LeavePlaces
<1>9. CASE Leaves
  <2>1. CASE \E v \in Viewers : LeaveDelete(v)
    <3>1. Moved("viewer", "leaving", 0) /\ UNCHANGED <<active, linger, count>> /\ pc["viewer"] = "idle"
      BY <1>0, <1>7, <1>t, <2>1, Moves DEF LeaveDelete, LockType
    <3> QED BY <1>1, <3>1 DEF AfterLeave, LeavePlaces
  <2>2. CASE LeaveCount
    <3>1. count = Cardinality(sessions) + 1 /\ count' = Cardinality(sessions)
      BY <1>7, <2>2 DEF LeaveCount, Counted
    <3>2. count = 1
      BY <3>1
    <3>3. Moved("viewer", "last", 0)
      BY <1>0, <1>t, <2>2, <3>2, Moves DEF LeaveCount
    <3> QED BY <1>3, <1>t, <3>3 DEF AfterLeave, LeavePlaces
  <2>3. CASE LeaveLast
    <3>1. count = 0
      BY <1>7, <2>3 DEF LeaveLast, Staged, LeavePlaces
    <3>2. linger' \/ Moved("viewer", "stop", 0)
      BY <1>0, <1>t, <2>3, <3>1, Moves DEF LeaveLast
    <3> QED BY <1>3, <1>t, <3>2 DEF AfterLeave, LeavePlaces, Pending
  <2> QED BY <1>9, <2>1, <2>2, <2>3 DEF Leaves
<1>10. CASE LingerExpires
  <2>1. Moved("loop", "stop", 0)
    BY <1>0, <1>10, <1>t, Moves DEF LingerExpires
  <2> QED BY <1>3, <1>t, <2>1 DEF AfterLeave, LeavePlaces
<1>11. CASE Health
  <2>1. UNCHANGED <<active, linger, count>>
    BY <1>11, PublishesTrue DEF Health, HealthCount, HealthPublish, managerVars
  <2>2. Moved("health", "publish", 0) \/ Moved("health", "check", 0)
    BY <1>0, <1>11, Moves, ThreadNames DEF Health, HealthCount, HealthPublish
  <2> QED BY <1>1, <2>1, <2>2
<1>12. CASE Fails
  <2>1. UNCHANGED <<active, linger, count>>
    BY <1>12 DEF Fails, SessionEnds, OnProducerSessionEnd, AttemptRecovery, managerVars
  <2>2. CASE SessionEnds \/ OnProducerSessionEnd
    <3>1. Moved("event", "failed", 0) \/ Moved("event", "idle", 0)
      BY <1>0, <2>2, Moves, ThreadNames DEF SessionEnds, OnProducerSessionEnd
    <3> QED BY <1>1, <2>1, <3>1
  <2>3. CASE AttemptRecovery
    <3>1. UNCHANGED pc
      BY <2>1, <2>3 DEF AttemptRecovery
    <3> QED BY <1>0, <2>1, <3>1 DEF PendInv, Pending
  <2> QED BY <1>12, <2>2, <2>3 DEF Fails
<1>13. CASE UNCHANGED vars
  BY <1>0, <1>13 DEF PendInv, Pending, vars, managerVars, threadVars
<1>14. /\ Starts => \E t \in Starters : EnsureEdge(t)
       /\ Stops => \E t \in Stoppers : StopEdge(t)
       /\ Tears => \E t \in {"viewer", "loop", "health"} : TearEdge(t)
  BY EnsureEdges, StopEdges, TearEdges DEF Starts, Stops, Tears
<1> QED BY <1>2, <1>5, <1>6, <1>8, <1>9, <1>10, <1>11, <1>12, <1>13, <1>14, Steps

(***************************************************************************)
(* A channel with viewers is served, but for the mishaps that              *)
(* ViewersServed names.                                                    *)
(***************************************************************************)

Fair == Free({"join refused", "recovery failed", "gave up", "stale count", "late teardown",
              "stopped with viewers", "wrong drop"})

LEMMA Fairs ==
  ASSUME [Next]_vars, Fair'
  PROVE  /\ Fair /\ OnTime /\ Exact /\ Exact'
         /\ "join refused" \notin mishaps' /\ "recovery failed" \notin mishaps'
         /\ "gave up" \notin mishaps' /\ "stopped with viewers" \notin mishaps'
         /\ "wrong drop" \notin mishaps'
<1>1. Fair
  BY Grows DEF Fair
<1> QED BY <1>1 DEF Fair, OnTime, Exact, Free

\* Before it builds a producer a starter has none in hand.
BareInv == \A t \in Starters : pc[t] = "build" => mine[t] = 0

LEMMA BareStep ==
  ASSUME TypeInv, BareInv, [Next]_vars
  PROVE  BareInv'
<1>1. ASSUME NEW t \in Starters, EnsureEdge(t), \A u \in Starters \ {t} : Stays(u)
      PROVE  BareInv'
  <2>1. pc'[t] = "build" => mine'[t] = 0
    BY <1>1 DEF EnsureEdge, Looks, Finds, Sees, Quits, Builds, Begins, Enters, Starteds, Records,
                Refused, Moved
  <2> QED BY <1>1, <2>1 DEF Stays, BareInv
<1>2. CASE \A u \in Starters : Beside(u)
  BY <1>2 DEF Beside, Stays, BareInv, EnsurePlaces
<1> QED BY <1>1, <1>2, StepCases

\* What is left of a start, a stop and a teardown without those mishaps.
LEMMA FairSteps ==
  ASSUME TypeInv, DropInv, BareInv, [Next]_vars, Fair'
  PROVE  /\ \A t \in Starters :
              /\ Quits(t) => active \in {0, mine[t]}
              /\ Builds(t) => active = 0
              /\ Begins(t) => active # 0 /\ UNCHANGED active /\ Moved(t, "enter", active)
              /\ Starteds(t) => Launched(mine[t]) /\ UNCHANGED active /\ Moved(t, "record", 0)
              /\ Records(t) => active # 0 /\ Moved(t, "idle", 0)
         /\ \A t \in Stoppers : Kills(t) => sessions = {} /\ active \in {0, mine[t]}
         /\ \A t \in {"viewer", "loop", "health"} : Drops(t) => active = 0 /\ UNCHANGED prods
<1>1. /\ "join refused" \notin mishaps' /\ "recovery failed" \notin mishaps' /\ OnTime
      /\ "stopped with viewers" \notin mishaps' /\ "wrong drop" \notin mishaps'
  BY Fairs
<1>2. ASSUME NEW t PROVE ~Refused(t) /\ (Dropped(t) => active \in {0, mine[t]})
  BY <1>1 DEF Refused, Dropped
<1>3. ASSUME NEW t \in Starters
      PROVE  /\ Quits(t) => active \in {0, mine[t]}
             /\ Builds(t) => active = 0
             /\ Begins(t) => active # 0 /\ UNCHANGED active /\ Moved(t, "enter", active)
             /\ Starteds(t) => Launched(mine[t]) /\ UNCHANGED active /\ Moved(t, "record", 0)
             /\ Records(t) => active # 0 /\ Moved(t, "idle", 0)
  BY <1>2 DEF Quits, Builds, Begins, Starteds, Records, BareInv
<1>4. ASSUME NEW t \in Stoppers, Kills(t) PROVE sessions = {} /\ active \in {0, mine[t]}
  BY <1>1, <1>2, <1>4 DEF Kills
<1>5. ASSUME NEW t \in {"viewer", "loop", "health"}, Drops(t) PROVE active = 0 /\ UNCHANGED prods
  <2>1. pc[t] # "force" /\ (pc[t] = "finalize" => mine[t] = 0)
    BY <1>1, ThreadNames DEF DropInv
  <2> QED BY <1>2, <1>5, <2>1 DEF Drops
<1> QED BY <1>3, <1>4, <1>5

\* The active producer is in some starter's hands until it is up.
Handed(p) == \E t \in Starters : pc[t] = "begin" \/ (pc[t] = "enter" /\ mine[t] = p)
HandInv ==
  Fair /\ active # 0 => /\ prods[active].st \in {"new", "starting", "up"}
                        /\ prods[active].st = "new" => Handed(active)

LEMMA HandStep ==
  ASSUME TypeInv, DropInv, BareInv, HandInv, [Next]_vars
  PROVE  HandInv'
<1> SUFFICES ASSUME Fair', active' # 0
             PROVE  /\ prods'[active'].st \in {"new", "starting", "up"}
                    /\ prods'[active'].st = "new" => Handed(active)'
  BY DEF HandInv
<1>0. /\ active # 0 => active \in Producers /\ prods[active].st \in {"new", "starting", "up"}
      /\ active # 0 /\ prods[active].st = "new" => Handed(active)
  BY Fairs, TypeFacts, Built DEF RefType, HandInv
<1>1. ASSUME UNCHANGED active, prods'[active].st = prods[active].st, Handed(active) => Handed(active)'
      PROVE  /\ prods'[active'].st \in {"new", "starting", "up"}
             /\ prods'[active'].st = "new" => Handed(active)'
  BY <1>0, <1>1
<1>2. ASSUME NEW t \in Starters, EnsureEdge(t), \A u \in Starters \ {t} : Stays(u)
      PROVE  /\ prods'[active'].st \in {"new", "starting", "up"}
             /\ prods'[active'].st = "new" => Handed(active)'
  <2>1. CASE Looks(t) \/ Finds(t) \/ Sees(t) \/ Records(t)
    <3>1. Kept /\ pc[t] \notin {"begin", "enter"}
      BY <2>1 DEF Looks, Finds, Sees, Records
    <3>2. Handed(active) => Handed(active)'
      BY <1>2, <3>1 DEF Handed, Stays, Kept
    <3> QED BY <1>1, <3>1, <3>2 DEF Kept
  <2>2. CASE Quits(t)
    BY <2>2 DEF Quits
  <2>3. CASE Builds(t)
    <3>1. active' = built + 1 /\ built' = built + 1 /\ UNCHANGED prods /\ pc'[t] = "begin"
      BY <2>3 DEF Builds, Moved
    <3>2. built \in Nat /\ built' \in 0..(MaxJoins + MaxEnds)
      BY TypeFacts, TypeStep, LifecycleAssumption DEF TypeInv, Types, RefType, Ledger
    <3>3. built + 1 \in Producers /\ built + 1 > built
      BY <3>1, <3>2, LifecycleAssumption DEF Producers
    <3>4. prods[built + 1].st = "new"
      BY <3>3, TypeFacts DEF FreshInv, Fresh
    <3> QED BY <3>1, <3>4 DEF Handed
  <2>4. CASE Begins(t)
    <3>1. UNCHANGED <<active, prods>> /\ pc'[t] = "enter" /\ mine'[t] = active
      BY <2>4, FairSteps DEF Begins, Moved
    <3> QED BY <1>1, <3>1 DEF Handed
  <2>5. CASE Enters(t)
    <3>1. UNCHANGED active /\ pc[t] = "enter"
      BY <2>5 DEF Enters
    <3>2. CASE mine[t] = active /\ prods[active].st # "up"
      BY <2>5, <3>1, <3>2 DEF Enters, Entered
    <3>3. CASE mine[t] = active /\ prods[active].st = "up"
      BY <2>5, <3>1, <3>3 DEF Enters
    <3>4. CASE mine[t] # active
      <4>1. Handed(active) => Handed(active)'
        BY <1>2, <3>1, <3>4 DEF Handed, Stays
      <4>2. prods'[active].st = prods[active].st
        BY <1>0, <2>5, <3>1, <3>4 DEF Enters, Entered, Only
      <4> QED BY <1>1, <3>1, <4>1, <4>2
    <3> QED BY <3>2, <3>3, <3>4
  <2>6. CASE Starteds(t)
    <3>1. UNCHANGED active /\ pc[t] = "starting" /\ Launched(mine[t])
      BY <2>6, FairSteps DEF Starteds
    <3>2. CASE mine[t] = active
      BY <3>1, <3>2 DEF Launched
    <3>3. CASE mine[t] # active
      <4>1. Handed(active) => Handed(active)'
        BY <1>2, <3>1 DEF Handed, Stays
      <4>2. prods'[active].st = prods[active].st
        BY <1>0, <3>1, <3>3 DEF Launched, Only
      <4> QED BY <1>1, <3>1, <4>1, <4>2
    <3> QED BY <3>2, <3>3
  <2> QED BY <1>2, <2>1, <2>2, <2>3, <2>4, <2>5, <2>6 DEF EnsureEdge
<1>3. ASSUME \A u \in Starters : Beside(u),
             NEW t \in Stoppers, StopEdge(t)
      PROVE  /\ prods'[active'].st \in {"new", "starting", "up"}
             /\ prods'[active'].st = "new" => Handed(active)'
  <2>1. UNCHANGED active
    BY <1>3 DEF StopEdge, Channels, Requests, Misses, Kills, Kept
  <2>2. prods'[active].st = prods[active].st
    BY <1>0, <1>3, <2>1 DEF StopEdge, Channels, Requests, Misses, Kills, Kept, Asked
  <2>3. Handed(active) => Handed(active)'
    BY <1>3, <2>1 DEF Beside, Stays, Handed, EnsurePlaces
  <2> QED BY <1>1, <2>1, <2>2, <2>3
<1>4. ASSUME \A u \in Starters : Beside(u),
             NEW t \in {"viewer", "loop", "health"}, TearEdge(t)
      PROVE  /\ prods'[active'].st \in {"new", "starting", "up"}
             /\ prods'[active'].st = "new" => Handed(active)'
  <2>1. UNCHANGED <<active, prods>>
    BY <1>4 DEF TearEdge, Checks, Drops, Kept
  <2>2. Handed(active) => Handed(active)'
    BY <1>4, <2>1 DEF Beside, Stays, Handed, EnsurePlaces
  <2> QED BY <1>1, <2>1, <2>2
<1>5. ASSUME \A u \in Starters : Beside(u), Elsewhere
      PROVE  /\ prods'[active'].st \in {"new", "starting", "up"}
             /\ prods'[active'].st = "new" => Handed(active)'
  <2>1. UNCHANGED active /\ prods'[active].st = prods[active].st
    BY <1>0, <1>5 DEF Elsewhere, Ended, Only
  <2>2. Handed(active) => Handed(active)'
    BY <1>5, <2>1 DEF Beside, Stays, Handed, EnsurePlaces
  <2> QED BY <1>1, <2>1, <2>2
<1> QED BY <1>2, <1>3, <1>4, <1>5, StepCases

\* A starter that looks at a producer that is not active any more looks at one
\* that was stopped.
Behind(u) ==
  /\ prods[mine[u]].st = "stopped"
  /\ \A t \in Starters : pc[t] \in {"enter", "starting"} => mine[t] # mine[u]
LookInv == Fair => \A u \in Starters : pc[u] = "look" /\ mine[u] # active => Behind(u)

LEMMA StaysStopped ==
  ASSUME NEW p \in Producers, prods[p].st = "stopped", NEW q, Stopped(q)
  PROVE  prods'[p].st = "stopped"
BY DEF Stopped, Only

\* The active producer that is stopped was up, unless another starter has it in hand.
LEMMA StopsActive ==
  ASSUME TypeInv, HandInv, Fair, active # 0, Unlocked(active), ~Handed(active), Stopped(active)
  PROVE  prods'[active].st = "stopped"
<1>1. active \in Producers
  BY TypeFacts, Built DEF RefType
<1>2. prods[active].st = "up"
  BY DEF HandInv, Unlocked
<1> QED BY <1>1, <1>2 DEF Stopped

\* Whoever starts the channel for a viewer has its session.
LEMMA StartersSession ==
  ASSUME TypeInv, pc["viewer"] \in EnsurePlaces
  PROVE  sessions # {}
<1>1. PICK v \in Viewers : lock = {v}
  BY TypeFacts DEF LockType, EnsurePlaces
<1> QED BY <1>1, TypeFacts DEF LockInv, JoinPlaces, EnsurePlaces

LEMMA LookStep ==
  ASSUME TypeInv, DropInv, BareInv, HandInv, LookInv, [Next]_vars
  PROVE  LookInv'
<1> SUFFICES ASSUME Fair', NEW u \in Starters, pc'[u] = "look", mine'[u] # active'
             PROVE  Behind(u)'
  BY DEF LookInv
<1>0. /\ Fair
      /\ pc[u] = "look" /\ mine[u] # active => Behind(u)
      /\ pc[u] = "look" => mine[u] # 0 /\ mine[u] \in Producers
  <2>1. pc[u] = "look" => mine[u] # 0 /\ mine[u] \in 0..built
    BY TypeFacts, ThreadNames DEF HeldInv, MineType
  <2> QED BY <2>1, Fairs, TypeFacts, Built DEF LookInv
<1>1. ASSUME Stays(u), mine[u] # active, prods'[mine[u]].st = prods[mine[u]].st,
             \A r \in Starters : pc'[r] \in {"enter", "starting"} =>
                pc[r] \in {"enter", "starting"} /\ mine'[r] = mine[r]
      PROVE  Behind(u)'
  BY <1>0, <1>1 DEF Stays, Behind
<1>2. ASSUME NEW t \in Starters, EnsureEdge(t), \A r \in Starters \ {t} : Stays(r)
      PROVE  Behind(u)'
  <2>0. CASE t = u
    <3>1. Looks(t)
      BY <1>2, <2>0 DEF EnsureEdge, Finds, Sees, Quits, Builds, Begins, Enters, Starteds, Records,
                        Refused, Moved
    <3> QED BY <2>0, <3>1 DEF Looks, Kept, Moved
  <2>1. CASE t # u
    <3>0. Stays(u) /\ pc[u] = "look" /\ Starters = {t, u} /\ mine'[u] = mine[u]
      BY <1>2, <2>1 DEF Stays, Starters
    <3>1. CASE Looks(t) \/ Finds(t) \/ Sees(t) \/ Records(t)
      <4>1. Kept /\ pc'[t] \notin {"enter", "starting"}
        BY <3>1 DEF Looks, Finds, Sees, Records, Refused, Moved
      <4> QED BY <1>1, <3>0, <4>1 DEF Kept, Stays
    <3>2. CASE Quits(t)
      <4>1. /\ pc[t] = "quit" /\ pc'[t] = "build" /\ Stopped(mine[t]) /\ Unlocked(mine[t])
            /\ active \in {0, mine[t]}
        BY <3>2, FairSteps DEF Quits, Moved
      <4>2. prods'[mine[u]].st = "stopped"
        <5>1. CASE mine[u] = active
          <6>1. ~Handed(active)
            BY <3>0, <4>1 DEF Handed
          <6> QED BY <1>0, <3>0, <4>1, <5>1, <6>1, StopsActive
        <5>2. CASE mine[u] # active
          BY <1>0, <3>0, <4>1, <5>2, StaysStopped DEF Behind
        <5> QED BY <5>1, <5>2
      <4> QED BY <3>0, <4>1, <4>2 DEF Behind, Stays
    <3>3. CASE Builds(t)
      <4>1. active = 0 /\ UNCHANGED prods /\ pc'[t] = "begin"
        BY <3>3, FairSteps DEF Builds, Moved
      <4> QED BY <1>0, <1>1, <3>0, <4>1 DEF Stays
    <3>4. CASE Begins(t)
      <4>1. UNCHANGED <<active, prods>> /\ pc'[t] = "enter" /\ mine'[t] = active
        BY <3>4, FairSteps DEF Begins, Moved
      <4> QED BY <1>0, <3>0, <4>1 DEF Stays, Behind
    <3>5. CASE Enters(t)
      <4>1. /\ UNCHANGED active /\ pc[t] = "enter"
            /\ UNCHANGED prods \/ Entered(mine[t])
            /\ pc'[t] = "record" \/ mine'[t] = mine[t]
        BY <3>5 DEF Enters, Moved
      <4>2. Behind(u) /\ mine[u] \in Producers
        BY <1>0, <3>0, <4>1
      <4>3. mine[t] # mine[u]
        BY <4>1, <4>2 DEF Behind
      <4>4. prods'[mine[u]].st = prods[mine[u]].st
        BY <4>1, <4>2, <4>3 DEF Entered, Only
      <4> QED BY <1>1, <3>0, <4>1, <4>4 DEF Stays
    <3>6. CASE Starteds(t)
      <4>1. UNCHANGED active /\ pc[t] = "starting" /\ Launched(mine[t]) /\ pc'[t] = "record"
        BY <3>6, FairSteps DEF Starteds, Moved
      <4>2. Behind(u) /\ mine[u] \in Producers
        BY <1>0, <3>0, <4>1
      <4>3. mine[t] # mine[u]
        BY <4>1, <4>2 DEF Behind
      <4>4. prods'[mine[u]].st = prods[mine[u]].st
        BY <4>1, <4>2, <4>3 DEF Launched, Only
      <4> QED BY <1>1, <3>0, <4>1, <4>4 DEF Stays
    <3> QED BY <1>2, <3>1, <3>2, <3>3, <3>4, <3>5, <3>6 DEF EnsureEdge
  <2> QED BY <2>0, <2>1
<1>3. ASSUME \A r \in Starters : Beside(r)
      PROVE  /\ Stays(u) /\ pc[u] = "look" /\ mine'[u] = mine[u]
             /\ \A r \in Starters : pc'[r] \in {"enter", "starting"} =>
                  pc[r] \in {"enter", "starting"} /\ mine'[r] = mine[r]
  BY <1>3 DEF Beside, Stays, EnsurePlaces
<1>4. ASSUME \A r \in Starters : Beside(r), NEW t \in Stoppers, StopEdge(t) PROVE Behind(u)'
  <2>1. CASE Channels(t) \/ Misses(t)
    BY <1>1, <1>3, <1>4, <2>1 DEF Channels, Misses, Kept
  <2>2. CASE Requests(t)
    <3>1. UNCHANGED active /\ prods'[mine[u]].st = prods[mine[u]].st
      BY <1>0, <1>3, <1>4, <2>2 DEF Requests, Asked, Only
    <3> QED BY <1>1, <1>3, <1>4, <3>1
  <2>3. CASE Kills(t)
    <3>1. sessions = {} /\ active \in {0, mine[t]} /\ Stopped(mine[t]) /\ Unlocked(mine[t])
      BY <2>3, FairSteps DEF Kills
    <3>2. pc["viewer"] \notin EnsurePlaces
      BY <3>1, StartersSession
    <3>3. pc[u] = "look" /\ u = "recovery" /\ Starters = {"viewer", u} /\ mine'[u] = mine[u]
      BY <1>3, <1>4, <3>2 DEF Starters, EnsurePlaces
    <3>4. prods'[mine[u]].st = "stopped"
      <4>1. CASE mine[u] = active
        <5>1. ~Handed(active)
          BY <3>2, <3>3 DEF Handed, EnsurePlaces
        <5> QED BY <1>0, <3>1, <3>3, <4>1, <5>1, StopsActive
      <4>2. CASE mine[u] # active
        BY <1>0, <3>1, <3>3, <4>2, StaysStopped DEF Behind
      <4> QED BY <4>1, <4>2
    <3>5. \A r \in Starters : pc'[r] \notin {"enter", "starting"}
      <4>1. \A r \in Starters : pc[r] \notin {"enter", "starting"}
        BY <3>2, <3>3 DEF EnsurePlaces
      <4> QED BY <1>3, <1>4, <4>1
    <3> QED BY <3>3, <3>4, <3>5 DEF Behind
  <2> QED BY <1>4, <2>1, <2>2, <2>3 DEF StopEdge
<1>5. ASSUME \A r \in Starters : Beside(r), NEW t \in {"viewer", "loop", "health"}, TearEdge(t)
      PROVE  Behind(u)'
  <2>1. UNCHANGED <<active, prods>>
    BY <1>5, FairSteps DEF TearEdge, Checks, Drops, Kept
  <2> QED BY <1>1, <1>3, <1>5, <2>1
<1>6. ASSUME \A r \in Starters : Beside(r), Elsewhere PROVE Behind(u)'
  <2>1. UNCHANGED active /\ prods'[mine[u]].st = prods[mine[u]].st
    BY <1>0, <1>3, <1>6 DEF Elsewhere, Ended, Only
  <2> QED BY <1>1, <1>3, <1>6, <2>1
<1> QED BY <1>2, <1>4, <1>5, <1>6, StepCases

\* There are viewers to serve, besides the one that has only begun to tune in.
Due == /\ sessions # {} /\ pc["viewer"] # "first"
       /\ ~(pc["viewer"] = "joining" /\ count = 0)

LEMMA Counts ==
  ASSUME TypeInv, CountInv, Exact
  PROVE  /\ Counted(pc["viewer"]) /\ Staged(pc["viewer"])
         /\ count \in Nat /\ Cardinality(sessions) \in Nat
         /\ sessions = {} <=> Cardinality(sessions) = 0
<1>1. Cardinality(Viewers) \in Nat /\ count \in 0..Cardinality(Viewers) /\ IsFiniteSet(sessions)
  BY TypeFacts, FS_CardinalityType, FS_Subset, LifecycleAssumption DEF CountType
<1>2. count \in Nat
  <2>1. \A n \in Nat : 0..n \subseteq Nat
    OBVIOUS
  <2> QED BY <1>1, <2>1
<1> QED BY <1>1, <1>2, FS_CardinalityType, FS_EmptySet DEF CountInv

\* Viewers are due only while the count is not 0, and not while the last one leaves.
LEMMA DueCount ==
  ASSUME TypeInv, CountInv, Exact, Due
  PROVE  count # 0 /\ pc["viewer"] \notin AfterLeave
<1>1. count # 0
  <2>1. CASE pc["viewer"] = "joining"
    BY <2>1 DEF Due
  <2>2. CASE pc["viewer"] # "joining"
    BY <2>2, Counts DEF Due, Counted
  <2> QED BY <2>1, <2>2
<1>2. pc["viewer"] \in AfterLeave => count = 0
  BY Counts DEF Staged, AfterLeave
<1> QED BY <1>1, <1>2

\* A viewer that becomes due is served by its own thread.
LEMMA DueStep ==
  ASSUME TypeInv, CountInv, Exact, Exact', [Next]_vars, Due'
  PROVE  Due \/ (JoinFirst /\ pc'["viewer"] = "ensure" /\ UNCHANGED <<active, prods>>)
<1>0. "viewer" \in Threads /\ Placed /\ LockInv
  BY TypeFacts, ThreadNames
<1>1. ASSUME UNCHANGED <<sessions, count>>,
             pc'["viewer"] = pc["viewer"] \/ pc["viewer"] \notin {"joining", "first"}
      PROVE  Due
  BY <1>1 DEF Due
<1>2. ASSUME UNCHANGED <<sessions, count>>, NEW t \in Threads, NEW place, NEW p, Moved(t, place, p),
             pc[t] \notin {"joining", "first"} \/ t # "viewer"
      PROVE  Due
  BY <1>0, <1>1, <1>2 DEF Moved
<1>3. CASE Joins
  <2>1. ASSUME NEW v \in Viewers, JoinInsert(v) PROVE Due
    <3>1. UNCHANGED count /\ pc["viewer"] = "idle" /\ pc'["viewer"] = "joining"
      BY <1>0, <2>1, Moves DEF JoinInsert, LockInv, Moved
    <3> QED BY <3>1, Counts DEF Due, Counted
  <2>2. CASE JoinCount
    <3>1. UNCHANGED sessions /\ pc["viewer"] = "joining" /\ count' = Cardinality(sessions)
      BY <2>2 DEF JoinCount
    <3>2. Cardinality(sessions) = count + 1
      BY <3>1, Counts DEF Counted
    <3>3. count # 0
      <4>1. count = 0 => Moved("viewer", "first", 0)
        BY <1>0, <2>2, <3>1, <3>2, Moves DEF JoinCount
      <4> QED BY <4>1 DEF Moved, Due
    <3> QED BY <3>1, <3>3 DEF Due
  <2>3. CASE JoinFirst
    <3>1. count = 1 /\ UNCHANGED <<active, prods>>
      BY <2>3, Counts DEF JoinFirst, Staged, prodVars
    <3>2. Moved("viewer", "ensure", 0)
      BY <1>0, <2>3, <3>1, Moves DEF JoinFirst
    <3> QED BY <2>3, <3>1, <3>2 DEF Moved
  <2> QED BY <1>3, <2>1, <2>2, <2>3 DEF Joins
<1>4. CASE Leaves
  <2>1. pc["viewer"] \in {"idle", "leaving", "last"}
    BY <1>0, <1>4 DEF Leaves, LeaveDelete, LeaveCount, LeaveLast, LockInv
  <2>2. sessions' \subseteq sessions
    BY <1>4 DEF Leaves, LeaveDelete, LeaveCount, LeaveLast
  <2> QED BY <2>1, <2>2 DEF Due
<1>5. ASSUME NEW t \in Starters, EnsureEdge(t) PROVE Due
  <2>1. pc[t] \notin {"joining", "first"} /\ UNCHANGED <<sessions, count>> /\ t \in Threads
    BY <1>5, ThreadNames
       DEF EnsureEdge, Looks, Finds, Sees, Quits, Builds, Begins, Enters, Starteds, Records
  <2>2. \E place, p : Moved(t, place, p)
    BY <1>5 DEF EnsureEdge, Looks, Finds, Sees, Quits, Builds, Begins, Enters, Starteds, Records, Refused
  <2> QED BY <1>2, <2>1, <2>2
<1>6. ASSUME NEW t \in Stoppers, StopEdge(t) PROVE Due
  <2>1. pc[t] \notin {"joining", "first"} /\ UNCHANGED <<sessions, count>> /\ t \in Threads
    BY <1>6, ThreadNames DEF StopEdge, Channels, Requests, Misses, Kills
  <2>2. \E place, p : Moved(t, place, p)
    BY <1>6 DEF StopEdge, Channels, Requests, Misses, Kills
  <2> QED BY <1>2, <2>1, <2>2
<1>7. ASSUME NEW t \in {"viewer", "loop", "health"}, TearEdge(t) PROVE Due
  <2>1. pc[t] \notin {"joining", "first"} /\ UNCHANGED <<sessions, count>> /\ t \in Threads
    BY <1>7, ThreadNames DEF TearEdge, Checks, Drops
  <2>2. \E place, p : Moved(t, place, p)
    BY <1>7 DEF TearEdge, Checks, Drops
  <2> QED BY <1>2, <2>1, <2>2
<1>8. CASE LingerExpires \/ Health \/ Fails
  <2>1. UNCHANGED <<sessions, count>>
    BY <1>8, PublishesTrue DEF LingerExpires, Health, HealthCount, HealthPublish, Fails, SessionEnds,
                               OnProducerSessionEnd, AttemptRecovery, managerVars
  <2>2. \/ Go("loop", "stop") \/ Go("health", "publish") \/ Go("health", "check")
        \/ Go("event", "failed") \/ Go("event", "idle") \/ Go("recovery", "ensure") \/ UNCHANGED pc
    BY <1>8 DEF LingerExpires, Health, HealthCount, HealthPublish, Fails, SessionEnds,
                OnProducerSessionEnd, AttemptRecovery
  <2>3. pc'["viewer"] = pc["viewer"]
    BY <1>0, <2>2, Moves, ThreadNames DEF Moved
  <2> QED BY <1>1, <2>1, <2>3
<1>9. CASE UNCHANGED vars
  BY <1>1, <1>9 DEF vars, managerVars, threadVars
<1>10. /\ Starts => \E t \in Starters : EnsureEdge(t)
       /\ Stops => \E t \in Stoppers : StopEdge(t)
       /\ Tears => \E t \in {"viewer", "loop", "health"} : TearEdge(t)
  BY EnsureEdges, StopEdges, TearEdges DEF Starts, Stops, Tears
<1> QED BY <1>3, <1>4, <1>5, <1>6, <1>7, <1>8, <1>9, <1>10, Steps

\* With viewers and without a producer a start is under way.
Ensures == \E t \in Starters : pc[t] \in EnsurePlaces
NoneInv == Fair /\ Due /\ active = 0 => Ensures

LEMMA NoneStep ==
  ASSUME TypeInv, DropInv, CountInv, BareInv, LookInv, NoneInv, [Next]_vars
  PROVE  NoneInv'
<1> SUFFICES ASSUME Fair', Due', active' = 0 PROVE Ensures'
  BY DEF NoneInv
<1>0. Fair /\ Exact /\ Exact'
  BY Fairs
<1>1. ASSUME NEW t \in Starters, EnsureEdge(t) PROVE Ensures'
  <2>1. CASE Looks(t) \/ Sees(t) \/ Quits(t) \/ Builds(t) \/ Enters(t)
    BY <2>1 DEF Looks, Sees, Quits, Builds, Enters, Moved, Ensures, EnsurePlaces
  <2>2. CASE Finds(t)
    <3>1. UNCHANGED active /\ mine[t] # 0
      BY <2>2, TypeFacts, ThreadNames DEF Finds, Kept, HeldInv
    <3>2. ~Running(mine[t])
      BY <1>0, <2>2, <3>1 DEF LookInv, Behind, Finds, Running
    <3> QED BY <2>2, <3>2 DEF Finds, Moved, Ensures, EnsurePlaces
  <2>3. CASE Begins(t) \/ Starteds(t) \/ Records(t)
    <3>1. Begins(t) \/ Starteds(t)
      BY <2>3, FairSteps DEF Records, Kept
    <3>2. pc'[t] \in {"enter", "record"}
      BY <3>1, FairSteps DEF Moved
    <3> QED BY <3>2 DEF Ensures, EnsurePlaces
  <2> QED BY <1>1, <2>1, <2>2, <2>3 DEF EnsureEdge
<1>2. ASSUME \A u \in Starters : Beside(u), active = 0 PROVE Ensures'
  <2>1. CASE Due
    <3>1. Ensures
      BY <1>0, <1>2, <2>1 DEF NoneInv
    <3> QED BY <1>2, <3>1 DEF Ensures, Beside, Stays
  <2>2. CASE pc'["viewer"] = "ensure"
    BY <2>2 DEF Ensures, EnsurePlaces, Starters
  <2> QED BY <1>0, <2>1, <2>2, DueStep
<1>3. ASSUME NEW t \in Stoppers, StopEdge(t) PROVE active = 0
  <2>1. ~Kills(t)
    BY <1>3, FairSteps DEF StopEdge, Due
  <2> QED BY <1>3, <2>1 DEF StopEdge, Channels, Requests, Misses, Kept
<1>4. ASSUME NEW t \in {"viewer", "loop", "health"}, TearEdge(t) PROVE active = 0
  BY <1>4, FairSteps DEF TearEdge, Checks, Kept
<1>5. Elsewhere => active = 0
  BY DEF Elsewhere
<1> QED BY <1>1, <1>2, <1>3, <1>4, <1>5, StepCases

\* When the session of the active producer has ended, something is still to come
\* that starts the channel anew or stops it.
Down(p)    == prods[p].st = "up" /\ ~prods[p].session
Seeing(t)  == pc[t] \in {"ensure", "replace", "quit"} \/ (pc[t] = "look" /\ mine[t] = active)
StopPlaces == {"check", "finalize", "force", "request", "halt", "kill"}
Awaited    == \/ pc["event"] = "failed" \/ timer \/ pc["loop"] \in StopPlaces
              \/ \E t \in Starters : Seeing(t)
EndedInv   == Fair /\ Due /\ active # 0 /\ Down(active) => Awaited

LEMMA EndedStep ==
  ASSUME TypeInv, DropInv, CountInv, BareInv, LookInv, EndedInv, [Next]_vars
  PROVE  EndedInv'
<1> SUFFICES ASSUME Fair', Due', active' # 0, prods'[active'].st = "up", ~prods'[active'].session
             PROVE  Awaited'
  BY DEF EndedInv, Down
<1>0. /\ Fair /\ Exact /\ Exact' /\ Placed /\ "gave up" \notin mishaps'
      /\ active # 0 => active \in Producers
  BY Fairs, TypeFacts, Built DEF RefType
<1>t. /\ "viewer" \in Threads /\ "loop" \in Threads /\ "recovery" \in Threads /\ "event" \in Threads
      /\ "health" \in Threads
      /\ Starters = {"viewer", "recovery"} /\ Stoppers = {"viewer", "loop"}
  BY ThreadNames DEF Starters, Stoppers
<1>1. CASE pc'["viewer"] = "ensure"
  BY <1>t, <1>1 DEF Awaited, Seeing
<1>2. CASE Due
  <2>0. count # 0 /\ pc["viewer"] \notin AfterLeave
    BY <1>0, <1>2, DueCount
  <2>1. ASSUME UNCHANGED active, Down(active) PROVE Awaited
    BY <1>0, <1>2, <2>1 DEF EndedInv
  <2>2. ASSUME NEW t \in Starters, EnsureEdge(t), \A u \in Starters \ {t} : Stays(u)
        PROVE  Awaited'
    <3>1. CASE Looks(t) \/ Sees(t)
      <4>1. \/ pc'[t] = "quit"
            \/ pc'[t] = "look" /\ mine'[t] = active'
        BY <3>1 DEF Looks, Sees, Kept, Moved
      <4> QED BY <4>1 DEF Awaited, Seeing
    <3>2. CASE Finds(t)
      <4>1. UNCHANGED <<active, prods>>
        BY <3>2 DEF Finds, Kept
      <4>2. ~Running(mine[t])
        BY <1>0, <3>2, <4>1 DEF LookInv, Behind, Finds, Running
      <4>3. pc'[t] = "replace"
        BY <3>2, <4>2 DEF Finds, Moved
      <4> QED BY <4>3 DEF Awaited, Seeing
    <3>3. CASE Quits(t)
      BY <3>3 DEF Quits
    <3>4. CASE Builds(t)
      <4>1. active' = built + 1 /\ built' = built + 1 /\ UNCHANGED prods
        BY <3>4 DEF Builds
      <4>2. built \in Nat /\ built' \in 0..(MaxJoins + MaxEnds)
        BY TypeFacts, TypeStep, LifecycleAssumption DEF TypeInv, Types, RefType, Ledger
      <4>3. built + 1 \in Producers /\ built + 1 > built
        BY <4>1, <4>2, LifecycleAssumption DEF Producers
      <4>4. prods[built + 1].st = "new"
        BY <4>3, TypeFacts DEF FreshInv, Fresh
      <4> QED BY <4>1, <4>4
    <3>5. CASE Begins(t) \/ Enters(t) \/ Starteds(t) \/ Records(t)
      <4>1. UNCHANGED active
        BY <3>5, FairSteps DEF Enters, Records, Kept
      <4>2. Down(active)
        <5>1. CASE UNCHANGED prods
          BY <4>1, <5>1 DEF Down
        <5>2. CASE Entered(mine[t]) \/ Launched(mine[t])
          BY <1>0, <4>1, <5>2 DEF Entered, Launched, Only, Down
        <5> QED BY <3>5, <5>1, <5>2, FairSteps DEF Begins, Enters, Records, Kept
      <4>3. ~Seeing(t)
        BY <3>5 DEF Begins, Enters, Starteds, Records, Seeing
      <4>4. (\E u \in Starters : Seeing(u)) => \E u \in Starters : Seeing(u)'
        BY <2>2, <4>1, <4>3 DEF Seeing, Stays
      <4>5. \E place, p : Moved(t, place, p)
        BY <3>5 DEF Begins, Enters, Starteds, Records, Refused
      <4>6. pc'["event"] = pc["event"] /\ pc'["loop"] = pc["loop"]
        BY <1>t, <4>5 DEF Moved
      <4>7. UNCHANGED timer
        BY <2>2 DEF EnsureEdge
      <4> QED BY <2>1, <4>1, <4>2, <4>4, <4>6, <4>7 DEF Awaited
    <3> QED BY <2>2, <3>1, <3>2, <3>3, <3>4, <3>5 DEF EnsureEdge
  <2>3. ASSUME \A u \in Starters : Beside(u), UNCHANGED active, Down(active), timer => timer',
               pc["event"] = "failed" => pc'["event"] = "failed",
               pc["loop"] \in StopPlaces => pc'["loop"] \in StopPlaces
        PROVE  Awaited'
    <3>1. (\E u \in Starters : Seeing(u)) => \E u \in Starters : Seeing(u)'
      BY <2>3 DEF Seeing, Beside, Stays, EnsurePlaces
    <3> QED BY <2>1, <2>3, <3>1 DEF Awaited
  <2>4. ASSUME NEW t \in Stoppers, StopEdge(t) PROVE Awaited'
    <3>1. /\ pc[t] \in AfterLeave
          /\ Moved(t, "check", 0) \/ Moved(t, "halt", 0) \/ Moved(t, "kill", active)
      BY <2>4 DEF StopEdge, Channels, Requests, Misses, Kills, Kept, AfterLeave, LeavePlaces
    <3>2. t = "loop"
      BY <1>t, <2>0, <3>1
    <3> QED BY <3>1, <3>2 DEF Moved, Awaited, StopPlaces
  <2>5. ASSUME \A u \in Starters : Beside(u), NEW t \in {"viewer", "loop", "health"}, TearEdge(t)
        PROVE  Awaited'
    <3>1. pc[t] \in AfterLeave /\ UNCHANGED <<active, prods, timer>>
      BY <2>5 DEF TearEdge, Checks, Drops, Kept, AfterLeave, LeavePlaces
    <3>2. \/ Moved(t, AfterCheck(t), 0) \/ Moved(t, "finalize", active) \/ Moved(t, "force", active)
      BY <2>5 DEF TearEdge, Checks, Drops
    <3>3. CASE t = "loop"
      <4>1. AfterCheck(t) = "request"
        BY <3>3 DEF AfterCheck
      <4> QED BY <3>2, <3>3, <4>1 DEF Moved, Awaited, StopPlaces
    <3>4. CASE t = "health"
      <4>1. pc'["event"] = pc["event"] /\ pc'["loop"] = pc["loop"]
        BY <1>t, <3>2, <3>4 DEF Moved
      <4> QED BY <2>3, <2>5, <3>1, <4>1 DEF Down
    <3> QED BY <2>0, <3>1, <3>3, <3>4
  <2>6. ASSUME NEW t \in {"viewer", "loop", "health"}, NEW place, NEW p, Moved(t, place, p),
               pc[t] \notin StopPlaces, \A u \in Starters : Beside(u), UNCHANGED <<active, prods, timer>>
        PROVE  Awaited'
    <3>1. pc'["event"] = pc["event"] /\ (pc["loop"] \in StopPlaces => pc'["loop"] = pc["loop"])
      BY <1>t, <2>6 DEF Moved
    <3> QED BY <2>3, <2>6, <3>1 DEF Down
  <2>7. CASE ~Starts
    <3>0. /\ \A u \in Starters : Beside(u)
          /\ LockInv
      BY <1>0, <2>7, Besides, TypeFacts
    <3>1. CASE Joins \/ Leaves
      <4>1. UNCHANGED <<active, prods, timer>>
        BY <3>1 DEF Joins, JoinInsert, JoinCount, JoinFirst, Leaves, LeaveDelete, LeaveCount, LeaveLast,
                    prodVars
      <4>2. pc["viewer"] \notin StopPlaces
        BY <2>0 DEF AfterLeave, LeavePlaces, StopPlaces
      <4>3. \/ Go("viewer", "joining") \/ Go("viewer", "first") \/ Go("viewer", "ensure")
            \/ Done("viewer", "watching") \/ Go("viewer", "leaving") \/ Go("viewer", "last")
            \/ Go("viewer", "stop") \/ Done("viewer", "away")
        BY <3>1 DEF Joins, JoinInsert, JoinCount, JoinFirst, Leaves, LeaveDelete, LeaveCount, LeaveLast
      <4>4. \E place, p : Moved("viewer", place, p)
        BY <1>0, <1>t, <4>3, Moves, Dones
      <4> QED BY <2>6, <3>0, <4>1, <4>2, <4>4
    <3>2. CASE LingerExpires \/ Health
      <4>1. UNCHANGED <<active, prods, timer>>
        BY <3>2 DEF LingerExpires, Health, HealthCount, HealthPublish, managerVars, prodVars
      <4>2. \/ pc["loop"] = "idle" /\ Go("loop", "stop")
            \/ pc["health"] \in {"idle", "publish"} /\ (Go("health", "publish") \/ Go("health", "check"))
            \/ UNCHANGED pc
        BY <3>2 DEF LingerExpires, Health, HealthCount, HealthPublish
      <4>3. CASE UNCHANGED pc
        BY <2>3, <3>0, <4>1, <4>3 DEF Down
      <4>4. CASE ~UNCHANGED pc
        <5>1. \/ pc["loop"] = "idle" /\ Moved("loop", "stop", 0)
              \/ /\ pc["health"] \in {"idle", "publish"}
                 /\ Moved("health", "publish", 0) \/ Moved("health", "check", 0)
          BY <1>0, <1>t, <4>2, <4>4, Moves
        <5> QED BY <2>6, <3>0, <4>1, <5>1 DEF StopPlaces
      <4> QED BY <4>3, <4>4
    <3>3. CASE SessionEnds
      <4>1. pc'["event"] = "failed"
        BY <1>0, <1>t, <3>3, Moves DEF SessionEnds, Moved
      <4> QED BY <4>1 DEF Awaited
    <3>4. CASE OnProducerSessionEnd
      <4>1. /\ attempts' = attempts + 1 /\ attempts \in Nat
            /\ mishaps' = mishaps \cup (IF attempts' > MaxRecovery THEN {"gave up"} ELSE {})
            /\ timer' = (timer \/ (count # 0 /\ attempts < MaxRecovery))
        BY <2>0, <3>4, TypeFacts DEF OnProducerSessionEnd, Recoverable, Mishap, Ledger
      <4>2. ~(attempts' > MaxRecovery)
        BY <1>0, <4>1
      <4>3. attempts < MaxRecovery
        BY <4>1, <4>2, LifecycleAssumption
      <4>4. timer'
        BY <2>0, <4>1, <4>3
      <4> QED BY <4>4 DEF Awaited
    <3>5. CASE AttemptRecovery
      <4>1. pc'["recovery"] = "ensure"
        BY <1>0, <1>t, <2>0, <3>5, Moves DEF AttemptRecovery, Moved
      <4> QED BY <1>t, <4>1 DEF Awaited, Seeing
    <3>6. CASE UNCHANGED vars
      <4>1. UNCHANGED <<active, prods, timer, pc>>
        BY <3>6 DEF vars, managerVars, prodVars, threadVars
      <4> QED BY <2>3, <3>0, <4>1 DEF Down
    <3>7. CASE Stops
      <4>1. \E t \in Stoppers : StopEdge(t)
        BY <3>7, StopEdges DEF Stops
      <4> QED BY <2>4, <4>1
    <3>8. CASE Tears
      <4>1. \E t \in {"viewer", "loop", "health"} : TearEdge(t)
        BY <3>8, TearEdges DEF Tears
      <4> QED BY <2>5, <3>0, <4>1
    <3> QED BY <2>7, <3>1, <3>2, <3>3, <3>4, <3>5, <3>6, <3>7, <3>8, Steps DEF Fails
  <2>8. CASE Starts
    <3>1. \E t \in Starters : EnsureEdge(t) /\ \A u \in Starters \ {t} : Stays(u)
      BY <1>0, <2>8, EnsureEdges, Others DEF Starts
    <3> QED BY <2>2, <3>1
  <2> QED BY <2>7, <2>8
<1> QED BY <1>0, <1>1, <1>2, DueStep

(***************************************************************************)
(* All of it.                                                              *)
(***************************************************************************)

IInv == /\ TypeInv /\ CountInv /\ ProdInv /\ TearInv /\ DropInv /\ AloneInv /\ HoldInv /\ UpInv
        /\ PendInv /\ BareInv /\ HandInv /\ LookInv /\ NoneInv /\ EndedInv

LEMMA InvInit ==
  ASSUME Init
  PROVE  IInv
<1>0. /\ pc = [t \in Threads |-> "idle"] /\ sessions = {} /\ count = 0 /\ active = 0 /\ teardown = 0
      /\ prods = [p \in Producers |-> Fresh]
  BY DEF Init
<1>1. \A t \in Threads : pc[t] = "idle"
  BY <1>0
<1>2. TypeInv
  BY TypeInit
<1>3. CountInv
  BY <1>0, <1>1, ThreadNames, FS_EmptySet DEF CountInv, Counted, Staged, LeavePlaces
<1>4. \A p \in Producers : prods[p].st = "new" /\ prods[p].air = "off" /\ ~prods[p].session
  BY <1>0 DEF Fresh
<1>5. ProdInv
  BY <1>1, <1>4, ThreadNames DEF ProdInv, ProdOK, Starting
<1>6. TearInv /\ DropInv
  BY <1>0, <1>1 DEF TearInv, DropInv
<1>7. AloneInv /\ HoldInv
  BY <1>1, ThreadNames DEF AloneInv, HoldInv, Past, PastPlaces, EnsurePlaces, InHold
<1>8. UpInv
  BY <1>4 DEF UpInv
<1>9. PendInv
  BY <1>0, <1>1, ThreadNames DEF PendInv
<1>10. BareInv /\ HandInv /\ LookInv /\ NoneInv /\ EndedInv
  BY <1>0, <1>1, ThreadNames DEF BareInv, HandInv, LookInv, NoneInv, EndedInv, Due
<1> QED BY <1>2, <1>3, <1>5, <1>6, <1>7, <1>8, <1>9, <1>10 DEF IInv

LEMMA InvStep ==
  ASSUME IInv, [Next]_vars
  PROVE  IInv'
<1>1. /\ TypeInv /\ CountInv /\ ProdInv /\ TearInv /\ DropInv /\ AloneInv /\ HoldInv /\ UpInv
      /\ PendInv /\ BareInv /\ HandInv /\ LookInv /\ NoneInv /\ EndedInv
  BY DEF IInv
<1>2. TypeInv' /\ ProdInv' /\ TearInv' /\ DropInv' /\ AloneInv' /\ HoldInv' /\ UpInv'
  BY <1>1, TypeStep, ProdInvStep, TearInvStep, DropInvStep, AloneStep, HoldStep, UpStep
<1>3. CountInv'
  BY <1>1, CountInvStep, TypeFacts
<1>4. PendInv'
  BY <1>1, <1>3, PendStep
<1>5. BareInv' /\ HandInv' /\ LookInv' /\ NoneInv' /\ EndedInv'
  BY <1>1, BareStep, HandStep, LookStep, NoneStep, EndedStep
<1> QED BY <1>2, <1>3, <1>4, <1>5 DEF IInv

\* The invariant of all the threads together.
THEOREM Invariant == Spec => []IInv
<1>1. Init => IInv
  BY InvInit
<1>2. IInv /\ [Next]_vars => IInv'
  BY InvStep
<1> QED BY <1>1, <1>2, PTL DEF Spec

LEMMA Stopping ==
  ASSUME IInv
  PROVE  IdleStopped
<1> SUFFICES ASSUME Quiet, sessions = {}, ~linger,
                    Free({"stale count", "late teardown", "wrong drop", "two starts",
                          "stop missed a start"}),
                    NEW p \in Producers, OnAir(p)
             PROVE  FALSE
  BY DEF IdleStopped
<1>1. Clear /\ Exact
  BY DEF Free, Clear, Exact
<1>2. active # 0
  BY <1>1 DEF IInv, UpInv, OnAir, Running, Producers
<1>3. pc["viewer"] = "idle" /\ pc["loop"] = "idle"
  BY ThreadNames DEF Quiet
<1>4. count = 0
  <2>1. count = Cardinality(sessions)
    BY <1>1, <1>3 DEF IInv, CountInv, Counted
  <2> QED BY <2>1, FS_EmptySet
<1>5. Pending
  BY <1>1, <1>2, <1>4 DEF IInv, PendInv
<1> QED BY <1>3, <1>5 DEF Pending, AfterLeave, LeavePlaces

\* Once a channel that everyone has left has settled, nothing of it is on air,
\* but for the mishaps that the property names.
THEOREM IdleStops == Spec => []IdleStopped
BY Invariant, Stopping, PTL

LEMMA Serving ==
  ASSUME IInv
  PROVE  ViewersServed
<1> SUFFICES ASSUME Quiet, sessions # {}, Fair
             PROVE  active # 0 /\ OnAir(active)
  BY DEF ViewersServed, Fair
<1>1. /\ pc["viewer"] = "idle" /\ pc["loop"] = "idle" /\ pc["recovery"] = "idle"
      /\ pc["event"] = "idle" /\ ~timer
  BY ThreadNames DEF Quiet
<1>2. Due
  BY <1>1 DEF Due
<1>3. \A t \in Starters : pc[t] = "idle"
  BY <1>1 DEF Starters
<1>4. active # 0
  BY <1>2, <1>3 DEF IInv, NoneInv, Ensures, EnsurePlaces
<1>5. active \in Producers
  BY <1>4, TypeFacts, Built DEF IInv, RefType
<1>6. prods[active].st = "up"
  <2>1. prods[active].st \in {"new", "starting", "up"} /\ prods[active].st # "new"
    BY <1>3, <1>4 DEF IInv, HandInv, Handed
  <2>2. prods[active].st # "starting"
    BY <1>3, <1>5 DEF IInv, ProdInv, ProdOK, Starting
  <2> QED BY <2>1, <2>2
<1>7. prods[active].session
  BY <1>1, <1>2, <1>3, <1>4, <1>6 DEF IInv, EndedInv, Down, Awaited, Seeing, StopPlaces
<1>8. prods[active].air = "up"
  BY <1>5, <1>6 DEF IInv, ProdInv, ProdOK
<1> QED BY <1>4, <1>6, <1>7, <1>8 DEF OnAir, Running

\* Once a channel with viewers has settled it is on air, whatever starts, stops,
\* failures and recoveries came before, but for the mishaps that the property
\* names.
THEOREM ViewersAreServed == Spec => []ViewersServed
BY Invariant, Serving, PTL

(***************************************************************************)
(* Processes that a stop leaves: each is of a session that AIR has ended,  *)
(* which is counted once.                                                  *)
(***************************************************************************)

\* The process of p has been left, or will be when p is stopped.
Astray(p) == prods[p].air = "left" \/ (prods[p].st = "up" /\ ~prods[p].session)

LeftInv == Cardinality({p \in Producers : Astray(p)}) <= ends

LEMMA StoppedAstray ==
  ASSUME TypeInv, NEW p, prods' = Halted(p)
  PROVE  \A q \in Producers : Astray(q)' => Astray(q)
<1>1. /\ \A q \in Producers \ {p} : prods'[q] = prods[q]
      /\ p \in Producers /\ prods[p].st # "up" => prods'[p] = prods[p]
      /\ p \in Producers /\ prods[p].st = "up" =>
           /\ prods'[p].st = "stopped"
           /\ prods'[p].air = IF prods[p].session THEN "off" ELSE "left"
  BY HaltEffect, TypeFacts DEF Only
<1> QED BY <1>1 DEF Astray

\* Nothing but the end of a session makes a process one that will be left.
LEMMA NoneAstray ==
  ASSUME TypeInv, [Next]_vars, ~SessionEnds
  PROVE  \A q \in Producers : Astray(q)' => Astray(q)
<1>0. /\ ProdsType /\ \A t \in Threads : mine[t] \in 0..built
      /\ active \in 0..built
  BY TypeFacts DEF MineType, RefType
<1>1. ASSUME UNCHANGED prods PROVE \A q \in Producers : Astray(q)' => Astray(q)
  BY <1>1 DEF Astray
<1>2. ASSUME NEW t \in Starters, EnsureEnter(t) \/ EnsureStarted(t)
      PROVE  \A q \in Producers : Astray(q)' => Astray(q)
  <2>1. mine[t] \in Producers
    <3>1. t \in Threads /\ pc[t] \in {"enter", "starting"}
      BY <1>2, ThreadNames DEF EnsureEnter, EnsureStarted
    <3> QED BY <1>0, <3>1, Built, TypeFacts DEF HeldInv
  <2>2. \/ UNCHANGED prods
        \/ prods' = [prods EXCEPT ![mine[t]].st = "starting"]
        \/ prods' = [prods EXCEPT ![mine[t]] = [@ EXCEPT !.st = "up", !.status = "RUNNING",
                                                         !.session = TRUE, !.air = "up"]]
        \/ prods' = [prods EXCEPT ![mine[t]] = [@ EXCEPT !.st = "failed", !.status = "ERROR"]]
    BY <1>2 DEF EnsureEnter, EnsureStarted
  <2>3. CASE prods' = [prods EXCEPT ![mine[t]].st = "starting"]
    <3>1. /\ Only(mine[t]) /\ prods'[mine[t]].st = "starting"
          /\ prods'[mine[t]].air = prods[mine[t]].air
      BY <1>0, <2>1, <2>3, EnterEffect
    <3> QED BY <3>1 DEF Astray, Only
  <2>4. CASE prods' = [prods EXCEPT ![mine[t]] = [@ EXCEPT !.st = "up", !.status = "RUNNING",
                                                           !.session = TRUE, !.air = "up"]]
    <3>1. Only(mine[t]) /\ prods'[mine[t]].session /\ prods'[mine[t]].air = "up"
      BY <1>0, <2>1, <2>4, StartedEffect
    <3> QED BY <3>1 DEF Astray, Only
  <2>5. CASE prods' = [prods EXCEPT ![mine[t]] = [@ EXCEPT !.st = "failed", !.status = "ERROR"]]
    <3>1. /\ Only(mine[t]) /\ prods'[mine[t]].st = "failed"
          /\ prods'[mine[t]].air = prods[mine[t]].air
      BY <1>0, <2>1, <2>5, FailedEffect
    <3> QED BY <3>1 DEF Astray, Only
  <2> QED BY <1>1, <2>2, <2>3, <2>4, <2>5
<1>3. ASSUME NEW t \in Stoppers, StopRequest(t)
      PROVE  \A q \in Producers : Astray(q)' => Astray(q)
  <2>1. CASE UNCHANGED prods
    BY <1>1, <2>1
  <2>2. CASE ~UNCHANGED prods
    <3>1. /\ active # 0
          /\ prods' = [prods EXCEPT ![active] = [@ EXCEPT !.tearing = TRUE, !.status = "STOPPING"]]
      BY <1>3, <2>2 DEF StopRequest
    <3>2. active \in Producers
      BY <1>0, <3>1, Built, TypeFacts
    <3>3. /\ Only(active) /\ prods'[active].st = prods[active].st
          /\ prods'[active].session = prods[active].session
          /\ prods'[active].air = prods[active].air
      BY <1>0, <3>1, <3>2, AskedEffect
    <3> QED BY <3>3 DEF Astray, Only
  <2> QED BY <2>1, <2>2
<1>4. ASSUME NEW t, EnsureStop(t) \/ StopHalt(t) \/ TeardownFinalize(t)
      PROVE  \A q \in Producers : Astray(q)' => Astray(q)
  <2>1. UNCHANGED prods \/ prods' = Halted(mine[t])
    BY <1>4 DEF EnsureStop, StopHalt, TeardownFinalize, prodVars
  <2> QED BY <1>1, <2>1, StoppedAstray
<1> QED BY <1>1, <1>2, <1>3, <1>4, ProdFrame

LEMMA ProducersFinite ==
  IsFiniteSet(Producers)
BY FS_Interval, LifecycleAssumption DEF Producers

LEMMA LeftStep ==
  ASSUME TypeInv, LeftInv, [Next]_vars
  PROVE  LeftInv'
<1> DEFINE S == {p \in Producers : Astray(p)}
           T == {p \in Producers : Astray(p)'}
<1>0. IsFiniteSet(S) /\ Cardinality(S) \in Nat /\ Cardinality(S) <= ends /\ ends \in Nat
  BY ProducersFinite, FS_Subset, FS_CardinalityType, TypeFacts DEF LeftInv, Ledger
<1>1. CASE SessionEnds
  <2>1. PICK p \in Producers : OnAir(p) /\ prods' = [prods EXCEPT ![p].session = FALSE]
    BY <1>1 DEF SessionEnds
  <2>2. T \subseteq S \cup {p}
    BY <2>1, EndedEffect, TypeFacts DEF Astray, Only
  <2>3. /\ IsFiniteSet(S \cup {p})
        /\ Cardinality(S \cup {p}) = IF p \in S THEN Cardinality(S) ELSE Cardinality(S) + 1
    <3> HIDE DEF S
    <3> QED BY <1>0, FS_AddElement
  <2>4. Cardinality(T) <= Cardinality(S \cup {p}) /\ Cardinality(T) \in Nat
    <3> HIDE DEF S, T
    <3> QED BY <2>2, <2>3, FS_Subset, FS_CardinalityType
  <2>5. ends' = ends + 1
    BY <1>1 DEF SessionEnds
  <2>6. Cardinality(T) <= ends'
    <3> HIDE DEF S, T
    <3> QED BY <1>0, <2>3, <2>4, <2>5
  <2> QED BY <2>6 DEF LeftInv
<1>2. CASE ~SessionEnds
  <2>1. T \subseteq S
    BY <1>2, NoneAstray
  <2>2. Cardinality(T) <= Cardinality(S) /\ Cardinality(T) \in Nat
    <3> HIDE DEF S, T
    <3> QED BY <1>0, <2>1, FS_Subset, FS_CardinalityType
  <2>3. ends' = ends
    BY <1>2, BoundFrame
  <2>4. Cardinality(T) <= ends'
    <3> HIDE DEF S, T
    <3> QED BY <1>0, <2>2, <2>3
  <2> QED BY <2>4 DEF LeftInv
<1> QED BY <1>1, <1>2

LEMMA LeftInit ==
  ASSUME Init
  PROVE  LeftInv
<1>1. \A p \in Producers : ~Astray(p)
  BY DEF Init, Fresh, Astray
<1>2. {p \in Producers : Astray(p)} = {}
  BY <1>1
<1>3. ends = 0
  BY DEF Init
<1> QED BY <1>2, <1>3, FS_EmptySet DEF LeftInv

LEMMA LeftFew ==
  ASSUME TypeInv, LeftInv
  PROVE  LeftPerEnd
<1> DEFINE L == {p \in Producers : prods[p].air = "left"}
           S == {p \in Producers : Astray(p)}
<1>1. L \subseteq S
  BY DEF Astray
<1>2. IsFiniteSet(S)
  BY ProducersFinite, FS_Subset
<1>3. Cardinality(L) <= Cardinality(S) /\ Cardinality(S) \in Nat /\ Cardinality(L) \in Nat
  <2> HIDE DEF L, S
  <2> QED BY <1>1, <1>2, FS_Subset, FS_CardinalityType
<1>4. Cardinality(S) <= ends /\ ends \in Nat
  BY TypeFacts DEF LeftInv, Ledger
<1>5. Cardinality(L) <= ends
  <2> HIDE DEF L, S
  <2> QED BY <1>3, <1>4
<1> QED BY <1>5 DEF LeftPerEnd

LEMMA Left == Spec => []LeftPerEnd
<1>1. Init => TypeInv /\ LeftInv
  BY TypeInit, LeftInit
<1>2. TypeInv /\ LeftInv /\ [Next]_vars => (TypeInv /\ LeftInv)'
  BY TypeStep, LeftStep
<1>3. TypeInv /\ LeftInv => LeftPerEnd
  BY LeftFew
<1> QED BY <1>1, <1>2, <1>3, PTL DEF Spec

LEMMA Orphanless ==
  ASSUME IInv
  PROVE  Clear => \A p \in Producers : prods[p].air = "up" => p = active
<1>1. ASSUME Clear, NEW p \in Producers, prods[p].air = "up" PROVE p = active
  BY <1>1 DEF IInv, ProdInv, ProdOK, UpInv
<1> QED BY <1>1

\* Whatever starts, stops and recoveries overlap, the AIR process that is up is
\* the active producer's, but for the mishaps that the property names, and the
\* processes that stops have left are no more than the sessions AIR has ended.
THEOREM NoOrphan == Spec => []NoOrphanAir
<1>1. IInv /\ LeftPerEnd => NoOrphanAir
  BY Orphanless DEF NoOrphanAir, Clear
<1> QED BY <1>1, Invariant, Left, PTL

=============================================================================
