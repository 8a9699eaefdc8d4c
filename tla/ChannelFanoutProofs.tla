------------------------ MODULE ChannelFanoutProofs -------------------------
(***************************************************************************)
(* Whatever viewers, teardowns and crashes do to a channel, for any number *)
(* of viewers, runs and chunks and any size of buffers: the stream that    *)
(* reads a live run of AIR is the one ProgramDirector has registered, a    *)
(* slow viewer loses old chunks only, and what a viewer is sent never goes *)
(* back.                                                                   *)
(***************************************************************************)
EXTENDS ChannelFanout, SequenceTheorems, TLAPS

Wrong == "wrong stream" \in mishaps

-----------------------------------------------------------------------------
(* One stream.                                                             *)

FanFields ==
  {"run", "source", "reader", "ring", "closed", "stop", "stopped", "threads", "hands",
   "subs", "newest", "stopper"}

\* What is known of stream f, which is fan, when rs are the runs, reg is the
\* registered stream and wrong says that a teardown has stopped the wrong one.  A
\* stream is stopped once its run is over, and nobody reads a live run behind
\* ProgramDirector's back.
FanOK(fan, f, rs, reg, wrong) ==
  /\ DOMAIN fan = FanFields
  /\ fan.run \in 1..Len(rs)
  /\ fan.source => fan.reader
  /\ fan.reader /\ fan.stopped => fan.stopper # "none"
  /\ rs[fan.run].up => /\ fan.stopper # "none" => wrong
                       /\ fan.reader => reg = f \/ wrong

-----------------------------------------------------------------------------
(* The inductive invariant: a run that is up is the active producer, what  *)
(* is known of each stream, and a viewer between _get_or_create and        *)
(* subscribe() holds the registered stream or one that is being stopped.   *)

Runs == [up : BOOLEAN, taken : BOOLEAN]

Sequence(s) == \E S : s \in Seq(S)

RunsOK ==
  /\ runs \in Seq(Runs) /\ producer \in 0..Len(runs)
  /\ \A r \in 1..Len(runs) : runs[r].up => r = producer

FansOK ==
  /\ Sequence(fans)
  /\ \A f \in Fans : FanOK(fans[f], f, runs, registry, Wrong)

ViewersOK ==
  /\ registry \in {0} \cup Fans
  /\ DOMAIN ref = Viewers /\ DOMAIN pc = Viewers
  /\ \A v \in Viewers : ref[v] \in {0} \cup Fans
  /\ \A v \in Viewers : pc[v] \in {"got", "watching"} => ref[v] # 0
  /\ \A v \in Viewers : pc[v] = "got" => ref[v] = registry \/ fans[ref[v]].stopper # "none"

IInv == RunsOK /\ FansOK /\ ViewersOK

LEMMA SetFan ==
  ASSUME Sequence(fans), NEW f \in Fans, NEW t, fans' = [fans EXCEPT ![f] = t]
  PROVE  /\ Sequence(fans') /\ Len(fans') = Len(fans)
         /\ \A g \in Fans : fans'[g] = IF g = f THEN t ELSE fans[g]
<1>1. PICK S : fans \in Seq(S)
  BY DEF Sequence
<1> DEFINE T == S \cup {t}
<1>2. fans \in Seq(T) /\ t \in T
  BY <1>1, SeqMonotonic
<1> HIDE DEF T
<1>3. [fans EXCEPT ![f] = t] \in Seq(T) /\ Len([fans EXCEPT ![f] = t]) = Len(fans)
      /\ \A g \in 1..Len(fans) : [fans EXCEPT ![f] = t][g] = IF g = f THEN t ELSE fans[g]
  BY <1>2, ExceptSeq DEF Fans
<1> QED
  BY <1>3 DEF Sequence, Fans

LEMMA AddFan ==
  ASSUME Sequence(fans), NEW t, fans' = Append(fans, t)
  PROVE  /\ Sequence(fans') /\ Len(fans') = Len(fans) + 1 /\ Len(fans) \in Nat
         /\ fans'[Len(fans) + 1] = t /\ \A g \in Fans : fans'[g] = fans[g]
<1>1. PICK S : fans \in Seq(S)
  BY DEF Sequence
<1> DEFINE T == S \cup {t}
<1>2. fans \in Seq(T) /\ t \in T
  BY <1>1, SeqMonotonic
<1> HIDE DEF T
<1>3. Append(fans, t) \in Seq(T) /\ Len(Append(fans, t)) = Len(fans) + 1
      /\ (\A g \in 1..Len(fans) : Append(fans, t)[g] = fans[g]) /\ Append(fans, t)[Len(fans) + 1] = t
  BY <1>2, AppendProperties
<1> QED
  BY <1>2, <1>3 DEF Sequence, Fans

\* A new run, and one that ends.
LEMMA StartRunOK ==
  ASSUME RunsOK, StartRun, \A r \in 1..Len(runs) : ~runs[r].up
  PROVE  RunsOK' /\ Len(runs') = Len(runs) + 1 /\ Len(runs) \in Nat
         /\ \A r \in 1..Len(runs) : runs'[r] = runs[r]
<1>1. runs' = Append(runs, NewRun) /\ producer' = Len(runs) + 1 /\ runs \in Seq(Runs)
      /\ NewRun \in Runs
  BY DEF StartRun, RunsOK, NewRun, Runs
<1>2. /\ runs' \in Seq(Runs) /\ Len(runs') = Len(runs) + 1 /\ Len(runs) \in Nat
      /\ \A r \in 1..Len(runs) : runs'[r] = runs[r]
  BY <1>1, AppendProperties
<1> QED
  BY <1>1, <1>2 DEF RunsOK

\* One run is changed, and not started.
LEMMA SetRunOK ==
  ASSUME RunsOK, NEW r \in 1..Len(runs), NEW t \in Runs, t.up => runs[r].up,
         runs' = [runs EXCEPT ![r] = t]
  PROVE  /\ runs' \in Seq(Runs) /\ Len(runs') = Len(runs)
         /\ \A q \in 1..Len(runs) : /\ runs'[q].up => runs[q].up
                                    /\ runs'[q] = IF q = r THEN t ELSE runs[q]
BY ExceptSeq DEF RunsOK

\* What a step leaves alone stays as it is known.
LEMMA RunsStay ==
  ASSUME RunsOK, UNCHANGED <<runs, producer>>
  PROVE  RunsOK'
BY DEF RunsOK

\* A step of one stream.
LEMMA OneFan ==
  ASSUME IInv, NEW f \in Fans, NEW t, Set(f, t), FanOK(t, f, runs, registry, Wrong),
         fans[f].stopper # "none" => t.stopper # "none",
         UNCHANGED <<producer, runs, registry, pc, ref, mishaps>>
  PROVE  IInv'
<1>1. Sequence(fans) /\ fans' = [fans EXCEPT ![f] = t]
  BY DEF IInv, FansOK, Set
<1>2. Sequence(fans') /\ Len(fans') = Len(fans)
      /\ \A g \in Fans : fans'[g] = IF g = f THEN t ELSE fans[g]
  BY <1>1, SetFan
<1>3. FansOK'
  BY <1>2 DEF IInv, FansOK, Fans, Wrong
<1>4. ViewersOK'
  BY <1>2 DEF IInv, ViewersOK, Fans
<1> QED
  BY <1>3, <1>4, RunsStay DEF IInv

\* A step of the runs, that starts none a stream reads, and of the history.
LEMMA OtherStep ==
  ASSUME IInv, RunsOK', Len(runs) <= Len(runs'), Len(runs) \in Nat, Len(runs') \in Nat,
         \A r \in 1..Len(runs) : runs'[r].up => runs[r].up,
         mishaps \subseteq mishaps', UNCHANGED <<fans, registry, ref>>,
         DOMAIN pc' = Viewers,
         \A v \in Viewers : pc'[v] \in {"got", "watching"} => pc[v] = pc'[v]
  PROVE  IInv'
<1>1. ASSUME NEW f \in Fans  PROVE FanOK(fans[f], f, runs', registry, Wrong')
  <2>1. FanOK(fans[f], f, runs, registry, Wrong)
    BY DEF IInv, FansOK
  <2>2. Wrong => Wrong'
    BY DEF Wrong
  <2>3. fans[f].run \in 1..Len(runs') /\ (runs'[fans[f].run].up => runs[fans[f].run].up)
    BY <2>1 DEF FanOK
  <2> QED   BY <2>1, <2>2, <2>3 DEF FanOK, Wrong
<1>2. FansOK'
  BY <1>1 DEF IInv, FansOK, Fans
<1>3. ViewersOK'
  BY DEF IInv, ViewersOK, Fans
<1> QED
  BY <1>2, <1>3 DEF IInv

-----------------------------------------------------------------------------
(* The steps.                                                              *)

LEMMA InitIInv == Init => IInv
<1> SUFFICES ASSUME Init  PROVE IInv
  OBVIOUS
<1>1. runs \in Seq(Runs) /\ Len(runs) = 0 /\ Len(fans) = 0 /\ Sequence(fans)
  <2>1. runs = <<>> /\ fans = <<>>
    BY DEF Init
  <2>2. fans \in Seq({})
    BY <2>1
  <2> QED   BY <2>1, <2>2 DEF Sequence
<1>2. RunsOK /\ FansOK
  BY <1>1 DEF Init, RunsOK, FansOK, Fans
<1>3. ViewersOK
  BY DEF Init, ViewersOK
<1> QED
  BY <1>2, <1>3 DEF IInv

\* The reader thread.
LEMMA ReaderStep ==
  ASSUME IInv, NEW f \in Fans, Reader(f) \/ ReaderCrashes(f)
  PROVE  IInv'
<1> DEFINE fan == fans[f]
<1>0. FanOK(fan, f, runs, registry, Wrong) /\ RunsOK
  BY DEF IInv, FansOK
<1>1. CASE ReaderConnects(f)
  <2> DEFINE r == fan.run
             u == [runs[r] EXCEPT !.taken = TRUE]
             t == [fan EXCEPT !.source = TRUE]
  <2>1. /\ fan.reader /\ runs' = [runs EXCEPT ![r].taken = TRUE] /\ Set(f, t)
        /\ UNCHANGED <<producer, registry, pc, ref, mishaps>>
    BY <1>1 DEF ReaderConnects, pdVars, viewerVars
  <2>2. r \in 1..Len(runs)
    BY <1>0 DEF FanOK
  <2>3. u \in Runs /\ u.up = runs[r].up /\ runs' = [runs EXCEPT ![r] = u]
    <3>1. runs[r] \in Runs
      BY <1>0, <2>2 DEF RunsOK
    <3>2. u \in Runs /\ u.up = runs[r].up
      BY <3>1 DEF Runs
    <3> QED   BY <2>1, <3>2
  <2> HIDE DEF r, u
  <2>4. /\ runs' \in Seq(Runs) /\ Len(runs') = Len(runs)
        /\ \A q \in 1..Len(runs) : runs'[q].up => runs[q].up
    BY <1>0, <2>2, <2>3, SetRunOK
  <2>5. RunsOK'
    BY <1>0, <2>1, <2>4 DEF RunsOK
  <2>6. FanOK(t, f, runs', registry, Wrong)
    <3>1. t.run = r /\ t.reader = fan.reader /\ t.stopped = fan.stopped /\ t.stopper = fan.stopper
          /\ DOMAIN t = FanFields
      BY <1>0 DEF FanOK, FanFields, r
    <3> HIDE DEF t
    <3> QED   BY <1>0, <2>1, <2>2, <2>4, <3>1 DEF FanOK, r
  <2>7. ASSUME NEW g \in Fans, g # f  PROVE FanOK(fans[g], g, runs', registry, Wrong)
    <3>1. FanOK(fans[g], g, runs, registry, Wrong)
      BY DEF IInv, FansOK
    <3> QED   BY <2>4, <3>1 DEF FanOK
  <2>8. Sequence(fans') /\ Len(fans') = Len(fans)
        /\ \A g \in Fans : fans'[g] = IF g = f THEN t ELSE fans[g]
    BY <2>1, SetFan DEF IInv, FansOK, Set
  <2>9. FansOK'
    BY <2>1, <2>6, <2>7, <2>8 DEF FansOK, Fans, Wrong
  <2>10. ViewersOK'
    <3>1. t.stopper = fan.stopper
      BY <1>0 DEF FanOK, FanFields
    <3> HIDE DEF t
    <3> QED   BY <2>1, <2>8, <3>1 DEF IInv, ViewersOK, Fans
  <2> QED   BY <2>5, <2>9, <2>10 DEF IInv
<1>2. CASE ReaderCrashes(f)
  <2> DEFINE t == [fan EXCEPT !.reader = FALSE]
  <2>1. ~fan.source /\ Set(f, t) /\ UNCHANGED <<producer, runs, registry, pc, ref, mishaps>>
    BY <1>2 DEF ReaderCrashes, managerVars, pdVars, viewerVars
  <2>2. FanOK(t, f, runs, registry, Wrong) /\ t.stopper = fan.stopper
    BY <1>0, <2>1 DEF FanOK, FanFields
  <2> HIDE DEF t
  <2> QED   BY <2>1, <2>2, OneFan
<1>3. CASE ReaderReads(f)
  <2> DEFINE t == RingPut(fan, made + 1)
  <2>1. Set(f, t) /\ UNCHANGED <<producer, runs, registry, pc, ref, mishaps>>
    BY <1>3 DEF ReaderReads, managerVars, pdVars, viewerVars
  <2>2. FanOK(t, f, runs, registry, Wrong) /\ t.stopper = fan.stopper
    BY <1>0 DEF FanOK, FanFields, RingPut
  <2> HIDE DEF t
  <2> QED   BY <2>1, <2>2, OneFan
<1>4. CASE ReaderEnds(f)
  <2> DEFINE t == ReaderOver(fan)
  <2>1. Set(f, t) /\ UNCHANGED <<producer, runs, registry, pc, ref, mishaps>>
    BY <1>4 DEF ReaderEnds, managerVars, pdVars, viewerVars
  <2>2. FanOK(t, f, runs, registry, Wrong) /\ t.stopper = fan.stopper
    BY <1>0 DEF FanOK, FanFields, ReaderOver
  <2> HIDE DEF t
  <2> QED   BY <2>1, <2>2, OneFan
<1> QED
  BY <1>1, <1>2, <1>3, <1>4 DEF Reader

\* The fan-out thread and the background thread of stop().
LEMMA FanStep ==
  ASSUME IInv, NEW f \in Fans, NEW n, Fan(f, n) \/ Stopper(f)
  PROVE  IInv'
<1> DEFINE fan == fans[f]
<1>0. FanOK(fan, f, runs, registry, Wrong)
  BY DEF IInv, FansOK
<1>1. ASSUME NEW t, Set(f, t), UNCHANGED <<producer, runs, registry, pc, ref, mishaps>>,
             FanOK(t, f, runs, registry, Wrong), fan.stopper # "none" => t.stopper # "none"
      PROVE  IInv'
  BY <1>1, OneFan
<1>2. CASE FanGets(f, n)
  <2> DEFINE t == [fan EXCEPT !.ring = Tail(@), !.threads[n] = "busy", !.hands[n] = Head(fan.ring)]
  <2>1. Set(f, t) /\ UNCHANGED <<producer, runs, registry, pc, ref, mishaps>>
    BY <1>2 DEF FanGets, managerVars, pdVars, viewerVars
  <2>2. FanOK(t, f, runs, registry, Wrong) /\ t.stopper = fan.stopper
    BY <1>0 DEF FanOK, FanFields
  <2> HIDE DEF t
  <2> QED   BY <1>1, <2>1, <2>2
<1>3. CASE FanPuts(f, n)
  <2> DEFINE t == [fan EXCEPT !.threads[n] = "idle", !.hands[n] = 0, !.newest = fan.hands[n]]
  <2>1. Set(f, t) /\ UNCHANGED <<producer, runs, registry, pc, ref, mishaps>>
    BY <1>3 DEF FanPuts, managerVars, pdVars
  <2>2. FanOK(t, f, runs, registry, Wrong) /\ t.stopper = fan.stopper
    BY <1>0 DEF FanOK, FanFields
  <2> HIDE DEF t
  <2> QED   BY <1>1, <2>1, <2>2
<1>4. CASE FanEnds(f, n)
  <2> DEFINE t == [fan EXCEPT !.threads[n] = "gone"]
  <2>1. Set(f, t) /\ UNCHANGED <<producer, runs, registry, pc, ref, mishaps>>
    BY <1>4 DEF FanEnds, managerVars, pdVars, viewerVars
  <2>2. FanOK(t, f, runs, registry, Wrong) /\ t.stopper = fan.stopper
    BY <1>0 DEF FanOK, FanFields
  <2> HIDE DEF t
  <2> QED   BY <1>1, <2>1, <2>2
<1>5. CASE StopBegins(f)
  <2> DEFINE t == IF fan.stopped THEN [fan EXCEPT !.stopper = "done"]
                  ELSE [fan EXCEPT !.stop = TRUE, !.closed = TRUE, !.source = FALSE,
                                   !.stopper = "joining"]
  <2>1. fan.stopper = "called" /\ Set(f, t)
        /\ UNCHANGED <<producer, runs, registry, pc, ref, mishaps>>
    BY <1>5 DEF StopBegins, managerVars, pdVars, viewerVars
  <2>2. FanOK(t, f, runs, registry, Wrong) /\ t.stopper # "none"
    BY <1>0, <2>1 DEF FanOK, FanFields
  <2> HIDE DEF t
  <2> QED   BY <1>1, <2>1, <2>2
<1>6. CASE StopEnds(f)
  <2> DEFINE t == [fan EXCEPT !.stopper = "done", !.subs = {}, !.stopped = TRUE]
  <2>1. fan.stopper = "joining" /\ Set(f, t)
        /\ UNCHANGED <<producer, runs, registry, pc, ref, mishaps>>
    BY <1>6 DEF StopEnds, managerVars, pdVars
  <2>2. FanOK(t, f, runs, registry, Wrong) /\ t.stopper # "none"
    BY <1>0, <2>1 DEF FanOK, FanFields
  <2> HIDE DEF t
  <2> QED   BY <1>1, <2>1, <2>2
<1> QED
  BY <1>2, <1>3, <1>4, <1>5, <1>6 DEF Fan, Stopper

\* A viewer who tunes in, and one who leaves.
LEMMA TuneInStep ==
  ASSUME IInv, NEW v \in Viewers, TuneIn(v)
  PROVE  IInv'
<1>0. RunsOK /\ DOMAIN pc = Viewers /\ pc' = [pc EXCEPT ![v] = "tuned"]
      /\ UNCHANGED <<fans, registry, ref, mishaps>>
  BY DEF IInv, ViewersOK, TuneIn, pdVars
<1>1. DOMAIN pc' = Viewers /\ \A w \in Viewers : pc'[w] \in {"got", "watching"} => pc[w] = pc'[w]
  BY <1>0
<1>2. CASE producer = 0
  <2>1. StartRun /\ \A r \in 1..Len(runs) : ~runs[r].up
    BY <1>0, <1>2 DEF TuneIn, RunsOK
  <2>2. RunsOK' /\ Len(runs') = Len(runs) + 1 /\ Len(runs) \in Nat
        /\ \A r \in 1..Len(runs) : runs'[r] = runs[r]
    BY <1>0, <2>1, StartRunOK
  <2> QED   BY <1>0, <1>1, <2>2, OtherStep
<1>3. CASE producer # 0
  <2>1. UNCHANGED <<runs, producer>>
    BY <1>3 DEF TuneIn
  <2>2. RunsOK' /\ Len(runs) \in Nat
    BY <1>0, <2>1, RunsStay DEF RunsOK
  <2> QED   BY <1>0, <1>1, <2>1, <2>2, OtherStep
<1> QED
  BY <1>2, <1>3

LEMMA CleanupStep ==
  ASSUME IInv, NEW v \in Viewers, Cleanup(v)
  PROVE  IInv'
<1> DEFINE f == ref[v]
           t == [fans[f] EXCEPT !.subs = @ \ {v}]
<1>0. /\ pc' = [pc EXCEPT ![v] = "gone"] /\ ref' = [ref EXCEPT ![v] = 0]
      /\ UNCHANGED <<producer, runs, registry, mishaps>>
      /\ fans' = IF f = 0 THEN fans ELSE [fans EXCEPT ![f] = t]
  BY DEF Cleanup, pdVars
<1>1. f \in {0} \cup Fans /\ RunsOK'
  BY <1>0, RunsStay DEF IInv, ViewersOK
<1>2. /\ Sequence(fans') /\ Len(fans') = Len(fans)
      /\ \A g \in Fans : /\ FanOK(fans'[g], g, runs, registry, Wrong)
                         /\ fans'[g].stopper = fans[g].stopper
  <2>1. CASE f = 0
    BY <1>0, <2>1 DEF IInv, FansOK
  <2>2. CASE f # 0
    <3>1. f \in Fans /\ FanOK(fans[f], f, runs, registry, Wrong) /\ Sequence(fans)
      BY <1>1, <2>2 DEF IInv, FansOK
    <3>2. FanOK(t, f, runs, registry, Wrong) /\ t.stopper = fans[f].stopper
      BY <3>1 DEF FanOK, FanFields
    <3> HIDE DEF f, t
    <3>3. Sequence(fans') /\ Len(fans') = Len(fans)
          /\ \A g \in Fans : fans'[g] = IF g = f THEN t ELSE fans[g]
      BY <1>0, <2>2, <3>1, SetFan
    <3> QED   BY <3>1, <3>2, <3>3 DEF IInv, FansOK
  <2> QED   BY <2>1, <2>2
<1>3. FansOK'
  BY <1>0, <1>2 DEF FansOK, Fans, Wrong
<1>4. ViewersOK'
  <2>1. Fans' = Fans
    BY <1>2 DEF Fans
  <2>2. DOMAIN ref' = Viewers /\ DOMAIN pc' = Viewers
        /\ \A w \in Viewers : /\ ref'[w] = IF w = v THEN 0 ELSE ref[w]
                              /\ pc'[w] = IF w = v THEN "gone" ELSE pc[w]
    BY <1>0 DEF IInv, ViewersOK
  <2> QED   BY <1>0, <1>2, <2>1, <2>2 DEF IInv, ViewersOK
<1> QED
  BY <1>1, <1>3, <1>4 DEF IInv

\* _get_or_create_fanout_buffer leaves a stream that reads a live run registered.
LEMMA GetFanoutStep ==
  ASSUME IInv, NEW v \in Viewers, GetFanout(v)
  PROVE  IInv'
<1>0. /\ RunsOK /\ RunsOK' /\ FansOK /\ ViewersOK /\ Sequence(fans)
      /\ UNCHANGED <<producer, runs, mishaps>> /\ pc[v] = "tuned" /\ LoopFree
  BY RunsStay DEF IInv, FansOK, GetFanout, managerVars
<1>1. CASE registry # 0 /\ IsRunning(registry) /\ producer # 0
  <2>1. ref' = [ref EXCEPT ![v] = registry] /\ pc' = [pc EXCEPT ![v] = "got"]
        /\ UNCHANGED <<registry, fans>>
    BY <1>1 DEF GetFanout
  <2>2. FansOK'
    BY <1>0, <2>1 DEF FansOK, Fans, Wrong
  <2>3. ViewersOK'
    BY <1>0, <1>1, <2>1 DEF ViewersOK, Fans
  <2> QED   BY <1>0, <2>2, <2>3 DEF IInv
<1>2. CASE ~(registry # 0 /\ IsRunning(registry) /\ producer # 0) /\ producer = 0
  <2>1. registry' = 0 /\ UNCHANGED <<ref, pc, fans>>
    BY <1>2 DEF GetFanout
  <2>2. \A r \in 1..Len(runs) : ~runs[r].up
    BY <1>0, <1>2 DEF RunsOK
  <2>3. FansOK'
    BY <1>0, <2>1, <2>2 DEF FansOK, FanOK, Fans, Wrong
  <2>4. ViewersOK'
    BY <1>0, <2>1 DEF ViewersOK, Fans, LoopFree
  <2> QED   BY <1>0, <2>3, <2>4 DEF IInv
<1>3. CASE ~(registry # 0 /\ IsRunning(registry) /\ producer # 0) /\ producer # 0
  <2> DEFINE k == Len(fans) + 1
  <2>1. /\ fans' = Append(fans, NewFan(producer)) /\ registry' = k
        /\ ref' = [ref EXCEPT ![v] = k] /\ pc' = [pc EXCEPT ![v] = "got"]
    BY <1>3 DEF GetFanout
  <2>2. /\ Sequence(fans') /\ Len(fans') = k /\ Len(fans) \in Nat
        /\ fans'[k] = NewFan(producer) /\ \A g \in Fans : fans'[g] = fans[g]
    <3> DEFINE t == NewFan(producer)
    <3>1. fans' = Append(fans, t)
      BY <2>1
    <3> HIDE DEF t
    <3>2. /\ Sequence(fans') /\ Len(fans') = Len(fans) + 1 /\ Len(fans) \in Nat
          /\ fans'[Len(fans) + 1] = t /\ \A g \in Fans : fans'[g] = fans[g]
      BY <1>0, <3>1, AddFan
    <3> QED   BY <3>2 DEF t
  <2>3. producer \in 1..Len(runs)
    BY <1>0, <1>3 DEF RunsOK
  <2>4. ASSUME NEW g \in Fans
        PROVE  FanOK(fans[g], g, runs, k, Wrong)
    <3>1. FanOK(fans[g], g, runs, registry, Wrong)
      BY <1>0 DEF FansOK
    <3>2. fans[g].reader /\ runs[fans[g].run].up => Wrong
      <4>1. CASE g # registry
        BY <3>1, <4>1 DEF FanOK
      <4>2. CASE g = registry
        <5>1. ~IsRunning(g)
          BY <1>3, <2>2, <4>2 DEF Fans
        <5>2. ~fans[g].reader \/ fans[g].stopped
          BY <5>1 DEF IsRunning
        <5> QED   BY <3>1, <5>2 DEF FanOK
      <4> QED   BY <4>1, <4>2
    <3> QED   BY <3>1, <3>2 DEF FanOK
  <2>5. FanOK(NewFan(producer), k, runs, k, Wrong)
    BY <2>3 DEF FanOK, NewFan, FanFields
  <2>6. FansOK'
    <3> HIDE DEF k
    <3>1. ASSUME NEW g \in Fans'  PROVE FanOK(fans'[g], g, runs, k, Wrong)
      <4>1. g \in Fans \/ g = k
        BY <2>2, <3>1 DEF Fans, k
      <4> QED   BY <2>2, <2>4, <2>5, <4>1
    <3> QED   BY <1>0, <2>1, <2>2, <3>1 DEF FansOK, Wrong
  <2>7. ViewersOK'
    <3>1. Fans \subseteq Fans' /\ k \in Fans'
      BY <2>2 DEF Fans
    <3> HIDE DEF k
    <3> QED   BY <1>0, <2>1, <2>2, <3>1 DEF ViewersOK, LoopFree
  <2> QED   BY <1>0, <2>6, <2>7 DEF IInv
<1> QED
  BY <1>1, <1>2, <1>3

\* subscribe() starts the reader of a registered stream, or of one that is being
\* stopped.
LEMMA SubscribeStep ==
  ASSUME IInv, NEW v \in Viewers, Subscribe(v)
  PROVE  IInv'
<1> DEFINE f == ref[v]
           u == [fans[f] EXCEPT !.subs = @ \cup {v}]
           t == Started(u)
<1>0. /\ pc[v] = "got" /\ pc' = [pc EXCEPT ![v] = "watching"] /\ fans' = [fans EXCEPT ![f] = t]
      /\ mishaps \subseteq mishaps' /\ mishaps' \subseteq mishaps \cup {"two feeders"}
      /\ UNCHANGED <<producer, runs, registry, ref>>
  BY DEF Subscribe, Set, managerVars, pdVars
<1>1. /\ f \in Fans /\ FanOK(fans[f], f, runs, registry, Wrong) /\ Sequence(fans) /\ RunsOK'
      /\ f = registry \/ fans[f].stopper # "none"
  BY <1>0, RunsStay DEF IInv, FansOK, ViewersOK
<1>2. FanOK(u, f, runs, registry, Wrong) /\ u.stopper = fans[f].stopper
  BY <1>1 DEF FanOK, FanFields
<1> HIDE DEF u
<1>3. FanOK(t, f, runs, registry, Wrong) /\ t.stopper = fans[f].stopper
  BY <1>1, <1>2 DEF FanOK, FanFields, Started
<1> HIDE DEF f, t
<1>4. Sequence(fans') /\ Len(fans') = Len(fans)
      /\ \A g \in Fans : fans'[g] = IF g = f THEN t ELSE fans[g]
  BY <1>0, <1>1, SetFan
<1>5. Wrong => Wrong'
  BY <1>0 DEF Wrong
<1>6. FansOK'
  <2>1. ASSUME NEW g \in Fans  PROVE FanOK(fans'[g], g, runs, registry, Wrong')
    <3>1. FanOK(fans'[g], g, runs, registry, Wrong)
      BY <1>3, <1>4 DEF IInv, FansOK
    <3> QED   BY <1>5, <3>1 DEF FanOK
  <2> QED   BY <1>0, <1>4, <2>1 DEF FansOK, Fans
<1>7. ViewersOK'
  <2>1. /\ registry \in {0} \cup Fans /\ Fans' = Fans /\ UNCHANGED <<registry, ref>>
        /\ \A w \in Viewers : pc'[w] = (IF w = v THEN "watching" ELSE pc[w])
        /\ DOMAIN pc' = Viewers /\ DOMAIN ref = Viewers
    BY <1>0, <1>4 DEF IInv, ViewersOK, Fans
  <2>2. \A g \in Fans : fans'[g].stopper = fans[g].stopper
    BY <1>3, <1>4
  <2>3. \A w \in Viewers : /\ ref'[w] \in {0} \cup Fans'
                           /\ pc'[w] \in {"got", "watching"} => ref'[w] # 0
    BY <1>0, <2>1 DEF IInv, ViewersOK
  <2>4. ASSUME NEW w \in Viewers, pc'[w] = "got"
        PROVE  ref'[w] = registry' \/ fans'[ref'[w]].stopper # "none"
    <3>1. pc[w] = "got" /\ ref'[w] = ref[w] /\ ref[w] \in Fans
      BY <2>1, <2>4 DEF IInv, ViewersOK
    <3> QED   BY <2>1, <2>2, <3>1 DEF IInv, ViewersOK
  <2> QED   BY <2>1, <2>3, <2>4 DEF ViewersOK
<1> QED
  BY <1>1, <1>6, <1>7 DEF IInv

\* _stop_channel_internal: the producer first, then whatever is registered.
LEMMA StopProducerStep ==
  ASSUME IInv, StopProducer
  PROVE  IInv'
<1>0. /\ producer' = 0 /\ mishaps \subseteq mishaps' /\ UNCHANGED <<fans, registry, pc, ref>>
      /\ runs' = IF producer = 0 THEN runs ELSE [runs EXCEPT ![producer].up = FALSE]
      /\ RunsOK /\ Len(runs) \in Nat /\ DOMAIN pc = Viewers
  <2>1. RunsOK /\ Len(runs) \in Nat /\ DOMAIN pc = Viewers
    BY DEF IInv, RunsOK, ViewersOK
  <2>2. mishaps \subseteq mishaps'
    BY DEF StopProducer
  <2> QED   BY <2>1, <2>2 DEF StopProducer, viewerVars
<1>1. CASE producer = 0
  <2>1. RunsOK' /\ runs' = runs
    BY <1>0, <1>1 DEF RunsOK
  <2> QED   BY <1>0, <2>1, OtherStep
<1>2. CASE producer # 0
  <2> DEFINE t == [runs[producer] EXCEPT !.up = FALSE]
  <2>1. producer \in 1..Len(runs) /\ runs[producer] \in Runs
    BY <1>0, <1>2 DEF RunsOK
  <2>2. t \in Runs /\ ~t.up /\ runs' = [runs EXCEPT ![producer] = t]
    BY <1>0, <1>2, <2>1 DEF Runs
  <2> HIDE DEF t
  <2>3. /\ runs' \in Seq(Runs) /\ Len(runs') = Len(runs)
        /\ \A q \in 1..Len(runs) : /\ runs'[q].up => runs[q].up
                                   /\ runs'[q] = IF q = producer THEN t ELSE runs[q]
    BY <1>0, <2>1, <2>2, SetRunOK
  <2>4. RunsOK'
    BY <1>0, <2>2, <2>3 DEF RunsOK
  <2> QED   BY <1>0, <2>3, <2>4, OtherStep
<1> QED
  BY <1>1, <1>2

LEMMA StopStreamStep ==
  ASSUME IInv, StopStream
  PROVE  IInv'
<1>0. /\ registry' = 0 /\ mishaps \subseteq mishaps' /\ UNCHANGED <<producer, runs, pc, ref>>
      /\ registry \in {0} \cup Fans /\ Sequence(fans) /\ RunsOK'
  BY RunsStay DEF StopStream, managerVars, viewerVars, IInv, ViewersOK, FansOK
<1>1. Wrong => Wrong'
  BY <1>0 DEF Wrong
<1>2. CASE registry = 0
  <2>1. fans' = fans
    BY <1>2 DEF StopStream
  <2>2. FansOK'
    BY <1>0, <1>1, <1>2, <2>1 DEF IInv, FansOK, FanOK, Fans
  <2>3. ViewersOK'
    BY <1>0, <1>2, <2>1 DEF IInv, ViewersOK, Fans
  <2> QED   BY <1>0, <2>2, <2>3 DEF IInv
<1>3. CASE registry # 0
  <2> DEFINE f == registry
             t == [fans[f] EXCEPT !.stopper = "called"]
  <2>1. f \in Fans /\ fans' = [fans EXCEPT ![f] = t]
        /\ (runs[fans[f].run].up => Wrong')
    BY <1>0, <1>3 DEF StopStream, Wrong
  <2>2. FanOK(fans[f], f, runs, registry, Wrong)
    BY <2>1 DEF IInv, FansOK
  <2>3. FanOK(t, f, runs, 0, Wrong') /\ t.stopper = "called"
    BY <2>1, <2>2 DEF FanOK, FanFields
  <2> HIDE DEF f, t
  <2>4. Sequence(fans') /\ Len(fans') = Len(fans)
        /\ \A g \in Fans : fans'[g] = IF g = f THEN t ELSE fans[g]
    BY <1>0, <2>1, SetFan
  <2>5. ASSUME NEW g \in Fans, g # f  PROVE FanOK(fans[g], g, runs, 0, Wrong')
    <3>1. FanOK(fans[g], g, runs, registry, Wrong)
      BY DEF IInv, FansOK
    <3> QED   BY <1>1, <2>5, <3>1 DEF FanOK, f
  <2>6. FansOK'
    BY <1>0, <2>3, <2>4, <2>5 DEF FansOK, Fans
  <2>7. ViewersOK'
    BY <1>0, <2>3, <2>4 DEF IInv, ViewersOK, Fans, f
  <2> QED   BY <1>0, <2>6, <2>7 DEF IInv
<1> QED
  BY <1>2, <1>3

\* AIR dies, and the manager finds out.
LEMMA AirStep ==
  ASSUME IInv, AirDies \/ ProducerRecovers
  PROVE  IInv'
<1>0. /\ UNCHANGED <<fans, registry, pc, ref, mishaps>> /\ RunsOK /\ Len(runs) \in Nat
      /\ DOMAIN pc = Viewers /\ producer # 0 /\ producer \in 1..Len(runs)
      /\ runs[producer] \in Runs
  BY DEF AirDies, ProducerRecovers, pdVars, viewerVars, IInv, RunsOK, ViewersOK
<1>1. CASE AirDies
  <2> DEFINE t == [runs[producer] EXCEPT !.up = FALSE]
  <2>1. t \in Runs /\ ~t.up /\ runs' = [runs EXCEPT ![producer] = t] /\ producer' = producer
    BY <1>0, <1>1 DEF AirDies, Runs
  <2> HIDE DEF t
  <2>2. /\ runs' \in Seq(Runs) /\ Len(runs') = Len(runs)
        /\ \A q \in 1..Len(runs) : runs'[q].up => runs[q].up
    BY <1>0, <2>1, SetRunOK
  <2>3. RunsOK'
    BY <1>0, <2>1, <2>2 DEF RunsOK
  <2> QED   BY <1>0, <2>2, <2>3, OtherStep
<1>2. CASE ProducerRecovers
  <2>1. \A r \in 1..Len(runs) : ~runs[r].up
    BY <1>0, <1>2 DEF ProducerRecovers, RunsOK
  <2>2. CASE StartRun
    <3>1. RunsOK' /\ Len(runs') = Len(runs) + 1 /\ \A r \in 1..Len(runs) : runs'[r] = runs[r]
      BY <1>0, <2>1, <2>2, StartRunOK
    <3> QED   BY <1>0, <3>1, OtherStep
  <2>3. CASE producer' = 0 /\ UNCHANGED runs
    <3>1. RunsOK'
      BY <1>0, <2>1, <2>3 DEF RunsOK
    <3> QED   BY <1>0, <2>3, <3>1, OtherStep
  <2> QED   BY <1>2, <2>2, <2>3 DEF ProducerRecovers
<1> QED
  BY <1>1, <1>2

\* The timers look, and a viewer takes a chunk.
LEMMA QuietStep ==
  ASSUME IInv, UNCHANGED <<runs, producer, fans, registry, pc, ref>>, mishaps \subseteq mishaps'
  PROVE  IInv'
<1>1. RunsOK' /\ Len(runs) \in Nat /\ DOMAIN pc = Viewers
  BY RunsStay DEF IInv, RunsOK, ViewersOK
<1> QED
  BY <1>1, OtherStep

LEMMA StepIInv == IInv /\ [Next]_vars => IInv'
<1> SUFFICES ASSUME IInv, [Next]_vars  PROVE IInv'
  OBVIOUS
<1>1. CASE AirDies \/ ProducerRecovers
  BY <1>1, AirStep
<1>2. ASSUME NEW f \in Fans,
             \/ Reader(f) \/ ReaderCrashes(f) \/ Stopper(f)
             \/ \E n \in DOMAIN fans[f].threads : Fan(f, n)
      PROVE  IInv'
  BY <1>2, ReaderStep, FanStep
<1>3. ASSUME NEW v \in Viewers, TuneIn(v)
      PROVE  IInv'
  BY <1>3, TuneInStep
<1>4. ASSUME NEW v \in Viewers, GetFanout(v) \/ Subscribe(v)
      PROVE  IInv'
  BY <1>4, GetFanoutStep, SubscribeStep
<1>5. ASSUME NEW v \in Viewers, GivesUp(v) \/ ReceiveEnd(v) \/ TimesOut(v) \/ Disconnects(v)
      PROVE  IInv'
  BY <1>5, CleanupStep DEF GivesUp, ReceiveEnd, TimesOut, Disconnects
<1>6. ASSUME NEW v \in Viewers, Receive(v)
      PROVE  IInv'
  BY <1>6, QuietStep DEF Receive, managerVars, pdVars
<1>7. CASE LingerStops \/ PrewarmExpires
  BY <1>7, QuietStep DEF LingerStops, PrewarmExpires, managerVars, viewerVars
<1>8. CASE TearDown
  BY <1>8, StopProducerStep, StopStreamStep DEF TearDown
<1>9. CASE UNCHANGED vars
  BY <1>9, QuietStep DEF vars, managerVars, pdVars, viewerVars
<1> QED
  BY <1>1, <1>2, <1>3, <1>4, <1>5, <1>6, <1>7, <1>8, <1>9 DEF Next, Viewer

LEMMA Invariance == Spec => []IInv
BY InitIInv, StepIInv, PTL DEF Spec

-----------------------------------------------------------------------------
(* The queues: what a subscriber was given last is the last it will be     *)
(* sent, or what it was sent last.                                         *)

Edge(q, l, c) == IF q = <<>> THEN l # 0 => l = c ELSE q[Len(q)] = c

QueuesOK ==
  /\ DOMAIN queue = Viewers /\ DOMAIN last = Viewers
  /\ \A v \in Viewers : /\ Sequence(queue[v])
                        /\ pc[v] # "watching" => queue[v] = <<>> /\ last[v] = 0

SubscribersOK ==
  \A f \in Fans : /\ fans[f].subs \subseteq Viewers
                  /\ \A v \in fans[f].subs : /\ ref[v] = f /\ pc[v] = "watching"
                                             /\ Edge(queue[v], last[v], fans[f].newest)

EdgeInv == QueuesOK /\ SubscribersOK

\* Dropping the oldest keeps the newest.
LEMMA PutEdge ==
  ASSUME NEW q, Sequence(q), NEW c
  PROVE  LET n == Newest(Append(q, c), ClientChunks)
         IN  Sequence(n) /\ n # <<>> /\ n[Len(n)] = c
<1>1. PICK S : q \in Seq(S)
  BY DEF Sequence
<1> DEFINE T == S \cup {c}
           s == Append(q, c)
           k == ClientChunks
           m == Len(s)
           lo == m - k + 1
<1>2. q \in Seq(T) /\ c \in T
  BY <1>1, SeqMonotonic
<1> HIDE DEF T
<1>3. s \in Seq(T) /\ Len(s) = Len(q) + 1 /\ s[Len(q) + 1] = c
  BY <1>2, AppendProperties
<1>4. Len(q) \in Nat /\ k \in Nat \ {0}
  BY <1>2, FanoutAssumption
<1> HIDE DEF s, k
<1>5. m \in Nat /\ m >= 1 /\ s[m] = c /\ s # <<>>
  BY <1>3, <1>4
<1>6. CASE m <= k
  <2>1. Newest(s, k) = s
    BY <1>6 DEF Newest
  <2>2. Sequence(s)
    BY <1>3 DEF Sequence
  <2> QED   BY <1>5, <2>1, <2>2 DEF s, k
<1>7. CASE m > k
  <2> DEFINE r == SubSeq(s, lo, m)
  <2>1. Newest(s, k) = r
    BY <1>4, <1>5, <1>7 DEF Newest
  <2>2. lo \in 1..m /\ \A i \in lo..m : s[i] \in T
    BY <1>3, <1>4, <1>5, <1>7
  <2> HIDE DEF lo, m
  <2>3. r \in Seq(T) /\ Len(r) = (IF lo <= m THEN m - lo + 1 ELSE 0)
        /\ \A i \in 1..(m - lo + 1) : r[i] = s[lo + i - 1]
    BY <1>5, <2>2, SubSeqProperties
  <2>4. Len(r) = m - lo + 1 /\ m - lo + 1 >= 1
    BY <1>5, <2>2, <2>3
  <2>5. r[Len(r)] = c
    <3> DEFINE i == m - lo + 1
    <3>1. i \in 1..i /\ lo + i - 1 = m
      BY <1>5, <2>2, <2>4
    <3> HIDE DEF i
    <3>2. r[i] = s[lo + i - 1]
      BY <2>3, <3>1 DEF i
    <3> QED   BY <1>5, <2>4, <3>1, <3>2 DEF i
  <2>6. Sequence(r) /\ r # <<>>
    <3> HIDE DEF r
    <3>1. Sequence(r)
      BY <2>3 DEF Sequence
    <3>2. r # <<>>
      <4>1. Len(r) >= 1   BY <2>4
      <4>2. Len(<<>>) = 0   OBVIOUS
      <4> QED   BY <4>1, <4>2
    <3> QED   BY <3>1, <3>2
  <2> QED   BY <2>1, <2>5, <2>6 DEF s, k
<1> QED
  BY <1>4, <1>5, <1>6, <1>7

LEMMA TakeEdge ==
  ASSUME NEW q, Sequence(q), q # <<>>, NEW l, NEW c
  PROVE  Sequence(Tail(q)) /\ (Edge(q, l, c) => Edge(Tail(q), Head(q), c))
<1>1. PICK S : q \in Seq(S)
  BY DEF Sequence
<1>2. /\ Tail(q) \in Seq(S) /\ Head(q) = q[1] /\ Len(q) \in Nat /\ Len(q) >= 1
      /\ Len(Tail(q)) = Len(q) - 1 /\ \A i \in 1..(Len(q) - 1) : Tail(q)[i] = q[i + 1]
  BY <1>1, HeadTailProperties
<1>3. CASE Tail(q) = <<>>
  <2>1. Len(q) = 1
    <3> DEFINE m == Len(q)
               n == Len(Tail(q))
    <3>1. n = 0
      BY <1>3
    <3>2. m \in Nat /\ n = m - 1
      BY <1>2
    <3> HIDE DEF m, n
    <3>3. m = 1
      BY <3>1, <3>2
    <3> QED   BY <3>3 DEF m
  <2> QED   BY <1>2, <1>3, <2>1 DEF Edge, Sequence
<1>4. CASE Tail(q) # <<>>
  <2>1. Len(Tail(q)) # 0
    BY <1>2, <1>4
  <2>2. Tail(q)[Len(Tail(q))] = q[Len(q)]
    BY <1>2, <2>1
  <2> QED   BY <1>2, <1>4, <2>2 DEF Edge, Sequence
<1> QED
  BY <1>3, <1>4

LEMMA EndSequence ==
  ASSUME NEW q, Sequence(q), NEW e
  PROVE  Sequence(Append(q, e))
<1>1. PICK S : q \in Seq(S)
  BY DEF Sequence
<1> DEFINE T == S \cup {e}
<1>2. q \in Seq(T) /\ e \in T
  BY <1>1, SeqMonotonic
<1> HIDE DEF T
<1> QED
  BY <1>2, AppendProperties DEF Sequence

\* A step that leaves the viewers and gives the subscribers nothing.
LEMMA SameEdge ==
  ASSUME EdgeInv, Fans' = Fans, UNCHANGED <<pc, ref, queue, last>>,
         \A f \in Fans : fans'[f].subs = fans[f].subs /\ fans'[f].newest = fans[f].newest
  PROVE  EdgeInv'
BY DEF EdgeInv, QueuesOK, SubscribersOK

LEMMA SetSame ==
  ASSUME IInv, EdgeInv, NEW f \in Fans, NEW t, fans' = [fans EXCEPT ![f] = t],
         t.subs = fans[f].subs, t.newest = fans[f].newest, UNCHANGED <<pc, ref, queue, last>>
  PROVE  EdgeInv'
<1>1. Len(fans') = Len(fans) /\ \A g \in Fans : fans'[g] = IF g = f THEN t ELSE fans[g]
  BY SetFan DEF IInv, FansOK
<1> QED
  BY <1>1, SameEdge DEF Fans

LEMMA EdgeReader ==
  ASSUME IInv, EdgeInv, NEW f \in Fans, NEW n,
         Reader(f) \/ ReaderCrashes(f) \/ StopBegins(f) \/ FanGets(f, n) \/ FanEnds(f, n)
  PROVE  EdgeInv'
<1> DEFINE fan == fans[f]
<1>0. DOMAIN fan = FanFields
  BY DEF IInv, FansOK, FanOK
<1>1. UNCHANGED <<pc, ref, queue, last>>
  BY DEF Reader, ReaderConnects, ReaderReads, ReaderEnds, ReaderCrashes, StopBegins, FanGets,
         FanEnds, viewerVars
<1>2. PICK t : Set(f, t) /\ t.subs = fan.subs /\ t.newest = fan.newest
  <2>1. CASE ReaderConnects(f)
    BY <1>0, <2>1 DEF ReaderConnects, FanFields
  <2>2. CASE ReaderReads(f)
    <3> DEFINE t == RingPut(fan, made + 1)
    <3>1. Set(f, t)
      BY <2>2 DEF ReaderReads
    <3>2. t.subs = fan.subs /\ t.newest = fan.newest
      <4> DEFINE r == Newest(Append(fan.ring, made + 1), RingChunks)
                 u == [fan EXCEPT !.ring = r]
      <4>1. t = fan \/ t = u
        BY DEF RingPut
      <4>2. u.subs = fan.subs /\ u.newest = fan.newest
        <5> HIDE DEF r
        <5> QED   BY <1>0 DEF FanFields
      <4> HIDE DEF t, u
      <4> QED   BY <4>1, <4>2
    <3> HIDE DEF t
    <3> QED   BY <3>1, <3>2
  <2>3. CASE ReaderEnds(f)
    <3> DEFINE t == ReaderOver(fan)
    <3>1. Set(f, t)
      BY <2>3 DEF ReaderEnds
    <3>2. t.subs = fan.subs /\ t.newest = fan.newest
      BY <1>0 DEF FanFields, ReaderOver
    <3> HIDE DEF t
    <3> QED   BY <3>1, <3>2
  <2>4. CASE ReaderCrashes(f)
    <3> DEFINE t == [fan EXCEPT !.reader = FALSE]
    <3>1. Set(f, t)
      BY <2>4 DEF ReaderCrashes
    <3>2. t.subs = fan.subs /\ t.newest = fan.newest
      BY <1>0 DEF FanFields
    <3> HIDE DEF t
    <3> QED   BY <3>1, <3>2
  <2>5. CASE StopBegins(f)
    <3> DEFINE t == IF fan.stopped THEN [fan EXCEPT !.stopper = "done"]
                ELSE [fan EXCEPT !.stop = TRUE, !.closed = TRUE, !.source = FALSE,
                                 !.stopper = "joining"]
    <3>1. Set(f, t)
      BY <2>5 DEF StopBegins
    <3>2. t.subs = fan.subs /\ t.newest = fan.newest
      <4>1. CASE fan.stopped
        BY <1>0, <4>1 DEF FanFields
      <4>2. CASE ~fan.stopped
        BY <1>0, <4>2 DEF FanFields
      <4> QED   BY <4>1, <4>2
    <3> HIDE DEF t
    <3> QED   BY <3>1, <3>2
  <2>6. CASE FanGets(f, n)
    <3> DEFINE t == [fan EXCEPT !.ring = Tail(@), !.threads[n] = "busy",
                           !.hands[n] = Head(fan.ring)]
    <3>1. Set(f, t)
      BY <2>6 DEF FanGets
    <3>2. t.subs = fan.subs /\ t.newest = fan.newest
      BY <1>0 DEF FanFields
    <3> HIDE DEF t
    <3> QED   BY <3>1, <3>2
  <2>7. CASE FanEnds(f, n)
    BY <1>0, <2>7 DEF FanEnds, FanFields
  <2> QED   BY <2>1, <2>2, <2>3, <2>4, <2>5, <2>6, <2>7 DEF Reader
<1> QED
  BY <1>1, <1>2, SetSame DEF Set

\* A chunk for every subscriber, and the end of the stream.
LEMMA EdgePuts ==
  ASSUME IInv, EdgeInv, NEW f \in Fans, NEW n, FanPuts(f, n)
  PROVE  EdgeInv'
<1> DEFINE fan == fans[f]
           c == fan.hands[n]
           t == [fan EXCEPT !.threads[n] = "idle", !.hands[n] = 0, !.newest = c]
           put(v) == Newest(Append(queue[v], c), ClientChunks)
<1>0. /\ DOMAIN fan = FanFields /\ Sequence(fans)
      /\ \A v \in Viewers : Sequence(queue[v])
      /\ fan.subs \subseteq Viewers
      /\ \A v \in fan.subs : ref[v] = f /\ pc[v] = "watching"
      /\ QueuesOK /\ SubscribersOK
  BY DEF IInv, FansOK, FanOK, EdgeInv, QueuesOK, SubscribersOK
<1>1. /\ fans' = [fans EXCEPT ![f] = t] /\ UNCHANGED <<pc, ref, last>>
      /\ queue' = [v \in Viewers |-> IF v \in fan.subs THEN put(v) ELSE queue[v]]
  BY DEF FanPuts, Set
<1>2. t.subs = fan.subs /\ t.newest = c
  BY <1>0 DEF FanFields
<1>3. \A v \in Viewers : Sequence(put(v)) /\ put(v) # <<>> /\ put(v)[Len(put(v))] = c
  <2> TAKE v \in Viewers
  <2> DEFINE q == queue[v]
  <2>1. Sequence(q)
    BY <1>0
  <2> HIDE DEF q, c
  <2> QED   BY <2>1, PutEdge DEF q
<1> HIDE DEF t, put
<1>4. Fans' = Fans /\ \A g \in Fans : fans'[g] = IF g = f THEN t ELSE fans[g]
  BY <1>0, <1>1, SetFan DEF Fans
<1>5. DOMAIN queue' = Viewers
      /\ \A v \in Viewers : queue'[v] = IF v \in fan.subs THEN put(v) ELSE queue[v]
  BY <1>1
<1>6. QueuesOK'
  BY <1>0, <1>1, <1>3, <1>5 DEF QueuesOK
<1>7. SubscribersOK'
  <2>1. ASSUME NEW g \in Fans
        PROVE  /\ fans'[g].subs \subseteq Viewers
               /\ \A v \in fans'[g].subs : /\ ref[v] = g /\ pc[v] = "watching"
                                           /\ Edge(queue'[v], last[v], fans'[g].newest)
    <3>1. CASE g = f
      BY <1>0, <1>2, <1>3, <1>4, <1>5, <3>1 DEF Edge
    <3>2. CASE g # f
      <4>1. fans'[g] = fans[g] /\ \A v \in fans[g].subs : v \in Viewers /\ ref[v] = g
        BY <1>0, <1>4, <3>2 DEF SubscribersOK
      <4>2. \A v \in fans[g].subs : queue'[v] = queue[v]
        BY <1>0, <1>5, <3>2, <4>1
      <4> QED   BY <1>0, <4>1, <4>2 DEF SubscribersOK
    <3> QED   BY <3>1, <3>2
  <2> QED   BY <1>1, <1>4, <2>1 DEF SubscribersOK
<1> QED
  BY <1>6, <1>7 DEF EdgeInv

LEMMA EdgeStop ==
  ASSUME IInv, EdgeInv, NEW f \in Fans, StopEnds(f)
  PROVE  EdgeInv'
<1> DEFINE fan == fans[f]
           t == [fan EXCEPT !.stopper = "done", !.subs = {}, !.stopped = TRUE]
<1>0. /\ DOMAIN fan = FanFields /\ Sequence(fans)
      /\ fan.subs \subseteq Viewers
      /\ \A v \in fan.subs : ref[v] = f /\ pc[v] = "watching"
      /\ QueuesOK /\ SubscribersOK
  BY DEF IInv, FansOK, FanOK, EdgeInv, SubscribersOK
<1>1. /\ fans' = [fans EXCEPT ![f] = t] /\ UNCHANGED <<pc, ref, last>>
      /\ queue' = [v \in Viewers |-> IF v \in fan.subs THEN Append(queue[v], EOF) ELSE queue[v]]
  BY DEF StopEnds, Set
<1>2. t.subs = {}
  BY <1>0 DEF FanFields
<1> HIDE DEF t
<1>3. Fans' = Fans /\ \A g \in Fans : fans'[g] = IF g = f THEN t ELSE fans[g]
  BY <1>0, <1>1, SetFan DEF Fans
<1>4. DOMAIN queue' = Viewers
      /\ \A v \in Viewers : queue'[v] = IF v \in fan.subs THEN Append(queue[v], EOF) ELSE queue[v]
  BY <1>1
<1>5. \A v \in Viewers : Sequence(Append(queue[v], EOF))
  BY <1>0, EndSequence DEF QueuesOK
<1>6. QueuesOK'
  BY <1>0, <1>1, <1>4, <1>5 DEF QueuesOK
<1>7. SubscribersOK'
  <2>1. ASSUME NEW g \in Fans
        PROVE  /\ fans'[g].subs \subseteq Viewers
               /\ \A v \in fans'[g].subs : /\ ref[v] = g /\ pc[v] = "watching"
                                           /\ Edge(queue'[v], last[v], fans'[g].newest)
    <3>1. CASE g = f
      BY <1>2, <1>3, <3>1
    <3>2. CASE g # f
      <4>1. fans'[g] = fans[g] /\ \A v \in fans[g].subs : v \in Viewers /\ ref[v] = g
        BY <1>0, <1>3, <3>2 DEF SubscribersOK
      <4>2. \A v \in fans[g].subs : queue'[v] = queue[v]
        BY <1>0, <1>4, <3>2, <4>1
      <4> QED   BY <1>0, <4>1, <4>2 DEF SubscribersOK
    <3> QED   BY <3>1, <3>2
  <2> QED   BY <1>1, <1>3, <2>1 DEF SubscribersOK
<1> QED
  BY <1>6, <1>7 DEF EdgeInv

\* The viewers.
LEMMA EdgeTunes ==
  ASSUME IInv, EdgeInv, NEW v \in Viewers, TuneIn(v) \/ GetFanout(v)
  PROVE  EdgeInv'
<1>0. /\ Sequence(fans) /\ pc[v] \in {"out", "tuned"} /\ QueuesOK /\ SubscribersOK
      /\ DOMAIN pc = Viewers /\ DOMAIN ref = Viewers
      /\ UNCHANGED <<queue, last>>
  BY DEF IInv, FansOK, EdgeInv, TuneIn, GetFanout, ViewersOK
<1>1. pc' = pc \/ pc' = [pc EXCEPT ![v] = "tuned"] \/ pc' = [pc EXCEPT ![v] = "got"]
  BY DEF TuneIn, GetFanout
<1>2. ref' = ref \/ \E k : ref' = [ref EXCEPT ![v] = k]
  BY DEF TuneIn, GetFanout
<1>3. QueuesOK'
  BY <1>0, <1>1 DEF QueuesOK
<1>4. \A f \in Fans : v \notin fans[f].subs
  BY <1>0 DEF SubscribersOK
<1>5. \A w \in Viewers : w # v => pc'[w] = pc[w] /\ ref'[w] = ref[w]
  BY <1>0, <1>1, <1>2
<1>6. \A g \in Fans : /\ fans[g].subs \subseteq Viewers
                      /\ \A w \in fans[g].subs : /\ ref'[w] = g /\ pc'[w] = "watching"
                                                 /\ Edge(queue[w], last[w], fans[g].newest)
  BY <1>0, <1>4, <1>5 DEF SubscribersOK
<1>7. CASE fans' = fans
  BY <1>0, <1>3, <1>6, <1>7 DEF EdgeInv, SubscribersOK, Fans
<1>8. CASE fans' = Append(fans, NewFan(producer))
  <2> DEFINE t == NewFan(producer)
  <2>1. t.subs = {}
    BY DEF NewFan
  <2>2. fans' = Append(fans, t)
    BY <1>8
  <2> HIDE DEF t
  <2>3. /\ Len(fans') = Len(fans) + 1 /\ Len(fans) \in Nat
        /\ fans'[Len(fans) + 1] = t /\ \A g \in Fans : fans'[g] = fans[g]
    BY <1>0, <2>2, AddFan
  <2>4. ASSUME NEW g \in Fans'
        PROVE  /\ fans'[g].subs \subseteq Viewers
               /\ \A w \in fans'[g].subs : /\ ref'[w] = g /\ pc'[w] = "watching"
                                           /\ Edge(queue[w], last[w], fans'[g].newest)
    <3>1. g \in Fans \/ g = Len(fans) + 1
      BY <2>3 DEF Fans
    <3> QED   BY <1>6, <2>1, <2>3, <3>1
  <2> QED   BY <1>0, <1>3, <2>4 DEF EdgeInv, SubscribersOK
<1> QED
  BY <1>7, <1>8 DEF TuneIn, GetFanout

LEMMA EdgeSubscribes ==
  ASSUME IInv, EdgeInv, NEW v \in Viewers, Subscribe(v)
  PROVE  EdgeInv'
<1> DEFINE f == ref[v]
           u == [fans[f] EXCEPT !.subs = @ \cup {v}]
           t == Started(u)
<1>0. /\ pc[v] = "got" /\ pc' = [pc EXCEPT ![v] = "watching"] /\ fans' = [fans EXCEPT ![f] = t]
      /\ UNCHANGED <<ref, queue, last>> /\ DOMAIN pc = Viewers
      /\ QueuesOK /\ SubscribersOK
  BY DEF Subscribe, Set, IInv, ViewersOK, EdgeInv
<1>1. f \in Fans /\ DOMAIN fans[f] = FanFields /\ Sequence(fans)
  BY <1>0 DEF IInv, FansOK, FanOK, ViewersOK
<1>2. DOMAIN u = FanFields /\ u.subs = fans[f].subs \cup {v} /\ u.newest = fans[f].newest
  BY <1>1 DEF FanFields
<1> HIDE DEF u
<1>3. t.subs = fans[f].subs \cup {v} /\ t.newest = fans[f].newest
  BY <1>2 DEF FanFields, Started
<1>4. ref[v] = f
  OBVIOUS
<1> HIDE DEF f, t
<1>5. Fans' = Fans /\ \A g \in Fans : fans'[g] = IF g = f THEN t ELSE fans[g]
  BY <1>0, <1>1, SetFan DEF Fans
<1>6. \A w \in Viewers : pc'[w] = IF w = v THEN "watching" ELSE pc[w]
  BY <1>0
<1>7. QueuesOK'
  BY <1>0, <1>6 DEF QueuesOK
<1>8. Edge(queue[v], last[v], t.newest)
  BY <1>0 DEF QueuesOK, Edge
<1>9. ASSUME NEW g \in Fans
      PROVE  /\ fans'[g].subs \subseteq Viewers
             /\ \A w \in fans'[g].subs : /\ ref[w] = g /\ pc'[w] = "watching"
                                         /\ Edge(queue[w], last[w], fans'[g].newest)
  BY <1>0, <1>3, <1>4, <1>5, <1>6, <1>8 DEF SubscribersOK
<1>10. SubscribersOK'
  BY <1>0, <1>5, <1>9 DEF SubscribersOK
<1> QED
  BY <1>7, <1>10 DEF EdgeInv

LEMMA EdgeReceives ==
  ASSUME IInv, EdgeInv, NEW v \in Viewers, Receive(v)
  PROVE  EdgeInv'
<1> DEFINE q == queue[v]
<1>0. /\ q # <<>> /\ pc[v] = "watching"
      /\ last' = [last EXCEPT ![v] = Head(q)] /\ queue' = [queue EXCEPT ![v] = Tail(q)]
      /\ UNCHANGED <<fans, pc, ref>> /\ QueuesOK /\ SubscribersOK /\ Sequence(q)
  BY DEF Receive, EdgeInv, QueuesOK
<1> HIDE DEF q
<1>1. Sequence(Tail(q)) /\ \A l, c : Edge(q, l, c) => Edge(Tail(q), Head(q), c)
  BY <1>0, TakeEdge
<1>2. /\ DOMAIN queue' = Viewers /\ DOMAIN last' = Viewers
      /\ \A w \in Viewers : /\ queue'[w] = IF w = v THEN Tail(q) ELSE queue[w]
                            /\ last'[w] = IF w = v THEN Head(q) ELSE last[w]
  BY <1>0 DEF QueuesOK
<1>3. QueuesOK'
  BY <1>0, <1>1, <1>2 DEF QueuesOK
<1>4. SubscribersOK'
  BY <1>0, <1>1, <1>2 DEF SubscribersOK, Fans, q
<1> QED
  BY <1>3, <1>4 DEF EdgeInv

LEMMA EdgeCleans ==
  ASSUME IInv, EdgeInv, NEW v \in Viewers, Cleanup(v)
  PROVE  EdgeInv'
<1> DEFINE f == ref[v]
           t == [fans[f] EXCEPT !.subs = @ \ {v}]
<1>0. /\ pc' = [pc EXCEPT ![v] = "gone"] /\ ref' = [ref EXCEPT ![v] = 0]
      /\ queue' = [queue EXCEPT ![v] = <<>>] /\ last' = [last EXCEPT ![v] = 0]
      /\ fans' = IF f = 0 THEN fans ELSE [fans EXCEPT ![f] = t]
      /\ QueuesOK /\ SubscribersOK /\ Sequence(fans)
      /\ DOMAIN pc = Viewers /\ DOMAIN ref = Viewers /\ f \in {0} \cup Fans
  BY DEF Cleanup, EdgeInv, IInv, FansOK, ViewersOK
<1>1. \A w \in Viewers :
        /\ pc'[w] = IF w = v THEN "gone" ELSE pc[w]
        /\ ref'[w] = IF w = v THEN 0 ELSE ref[w]
        /\ queue'[w] = IF w = v THEN <<>> ELSE queue[w]
        /\ last'[w] = IF w = v THEN 0 ELSE last[w]
  BY <1>0 DEF QueuesOK
<1>2. QueuesOK'
  <2>1. Sequence(<<>>)
    <3>1. <<>> \in Seq({})   OBVIOUS
    <3> QED   BY <3>1 DEF Sequence
  <2> QED   BY <1>0, <1>1, <2>1 DEF QueuesOK
<1>3. /\ Fans' = Fans
      /\ \A g \in Fans : /\ fans'[g].newest = fans[g].newest
                         /\ fans'[g].subs = IF g = f THEN fans[g].subs \ {v} ELSE fans[g].subs
  <2>1. CASE f = 0
    BY <1>0, <2>1 DEF Fans, IInv, FansOK, Sequence
  <2>2. CASE f # 0
    <3>1. f \in Fans /\ DOMAIN fans[f] = FanFields
      BY <1>0, <2>2 DEF IInv, FansOK, FanOK
    <3>2. t.subs = fans[f].subs \ {v} /\ t.newest = fans[f].newest
      BY <3>1 DEF FanFields
    <3> HIDE DEF f, t
    <3>3. Len(fans') = Len(fans) /\ \A g \in Fans : fans'[g] = IF g = f THEN t ELSE fans[g]
      BY <1>0, <2>2, <3>1, SetFan
    <3> QED   BY <3>2, <3>3 DEF Fans
  <2> QED   BY <2>1, <2>2
<1>4. ASSUME NEW g \in Fans
      PROVE  /\ fans'[g].subs \subseteq Viewers
             /\ \A w \in fans'[g].subs : /\ ref'[w] = g /\ pc'[w] = "watching"
                                         /\ Edge(queue'[w], last'[w], fans'[g].newest)
  <2>1. fans[g].subs \subseteq Viewers /\ \A w \in fans[g].subs : ref[w] = g
    BY <1>0 DEF SubscribersOK
  <2>2. \A w \in fans'[g].subs : w \in fans[g].subs /\ w # v
    BY <1>3, <2>1
  <2> HIDE DEF f
  <2> QED   BY <1>0, <1>1, <1>3, <2>1, <2>2 DEF SubscribersOK
<1>5. SubscribersOK'
  BY <1>3, <1>4 DEF SubscribersOK
<1> QED
  BY <1>2, <1>5 DEF EdgeInv

LEMMA StepEdge == IInv /\ EdgeInv /\ [Next]_vars => EdgeInv'
<1> SUFFICES ASSUME IInv, EdgeInv, [Next]_vars  PROVE EdgeInv'
  OBVIOUS
<1>1. ASSUME UNCHANGED <<fans, pc, ref, queue, last>>
      PROVE  EdgeInv'
  BY <1>1 DEF EdgeInv, QueuesOK, SubscribersOK, Fans
<1>2. CASE AirDies \/ ProducerRecovers \/ LingerStops \/ PrewarmExpires \/ StopProducer
           \/ UNCHANGED vars
  BY <1>1, <1>2 DEF AirDies, ProducerRecovers, LingerStops, PrewarmExpires, StopProducer,
                    viewerVars, vars
<1>3. ASSUME NEW f \in Fans,
             \/ Reader(f) \/ ReaderCrashes(f) \/ Stopper(f)
             \/ \E n \in DOMAIN fans[f].threads : Fan(f, n)
      PROVE  EdgeInv'
  BY <1>3, EdgeReader, EdgePuts, EdgeStop DEF Fan, Stopper
<1>4. ASSUME NEW v \in Viewers, TuneIn(v) \/ GetFanout(v)
      PROVE  EdgeInv'
  BY <1>4, EdgeTunes
<1>5. ASSUME NEW v \in Viewers, Subscribe(v) \/ Receive(v)
      PROVE  EdgeInv'
  BY <1>5, EdgeSubscribes, EdgeReceives
<1>6. ASSUME NEW v \in Viewers, GivesUp(v) \/ ReceiveEnd(v) \/ TimesOut(v) \/ Disconnects(v)
      PROVE  EdgeInv'
  BY <1>6, EdgeCleans DEF GivesUp, ReceiveEnd, TimesOut, Disconnects
<1>7. CASE StopStream
  <2>1. UNCHANGED <<pc, ref, queue, last>>
    BY <1>7 DEF StopStream, viewerVars
  <2>2. CASE registry = 0
    BY <1>1, <1>7, <2>1, <2>2 DEF StopStream
  <2>3. CASE registry # 0
    <3> DEFINE f == registry
               t == [fans[f] EXCEPT !.stopper = "called"]
    <3>1. f \in Fans /\ fans' = [fans EXCEPT ![f] = t]
      BY <1>7, <2>3 DEF StopStream, IInv, ViewersOK
    <3>2. DOMAIN fans[f] = FanFields
      BY <3>1 DEF IInv, FansOK, FanOK
    <3>3. t.subs = fans[f].subs /\ t.newest = fans[f].newest
      BY <3>2 DEF FanFields
    <3> HIDE DEF f, t
    <3> QED   BY <2>1, <3>1, <3>3, SetSame
  <2> QED   BY <2>2, <2>3
<1> QED
  BY <1>2, <1>3, <1>4, <1>5, <1>6, <1>7 DEF Next, Viewer, TearDown

LEMMA InitEdge == Init => EdgeInv
<1> SUFFICES ASSUME Init  PROVE EdgeInv
  OBVIOUS
<1>1. Sequence(<<>>)
  <2>1. <<>> \in Seq({})   OBVIOUS
  <2> QED   BY <2>1 DEF Sequence
<1>2. QueuesOK
  BY <1>1 DEF Init, QueuesOK
<1>3. Fans = {}
  BY DEF Init, Fans
<1> QED
  BY <1>2, <1>3 DEF EdgeInv, SubscribersOK

LEMMA EdgeInvariance == Spec => []EdgeInv
BY InitEdge, StepEdge, Invariance, PTL DEF Spec

-----------------------------------------------------------------------------
(* What a viewer is sent never goes back.                                  *)

\* The chunks of s rise from beyond lo up to hi; the end of the stream may stand
\* between them.
Rising(s, lo, hi) ==
  /\ s \in Seq(Nat)
  /\ \A i \in 1..Len(s) : s[i] # EOF => lo < s[i] /\ s[i] <= hi
  /\ \A i, j \in 1..Len(s) : i < j /\ s[j] # EOF => s[i] < s[j]

NoEnd(s) == \A i \in 1..Len(s) : s[i] # EOF

LEMMA RisingEmpty ==
  ASSUME NEW lo, NEW hi
  PROVE  Rising(<<>>, lo, hi) /\ NoEnd(<<>>)
BY DEF Rising, NoEnd

LEMMA RisingWide ==
  ASSUME NEW lo \in Nat, NEW hi \in Nat, NEW lo2 \in Nat, NEW hi2 \in Nat, lo2 <= lo, hi <= hi2,
         NEW s, Rising(s, lo, hi)
  PROVE  Rising(s, lo2, hi2)
<1>1. \A i \in 1..Len(s) : s[i] \in Nat
  BY DEF Rising
<1> QED
  BY <1>1 DEF Rising

\* A larger chunk, or the end of the stream, comes last.
LEMMA RisingAppend ==
  ASSUME NEW lo \in Nat, NEW hi \in Nat, NEW c \in Nat, NEW hi2 \in Nat,
         c # EOF => lo < c /\ hi < c /\ c <= hi2, hi <= hi2,
         NEW s, Rising(s, lo, hi)
  PROVE  Rising(Append(s, c), lo, hi2) /\ (NoEnd(s) /\ c # EOF => NoEnd(Append(s, c)))
<1> DEFINE a == Append(s, c)
           n == Len(s)
<1>1. s \in Seq(Nat) /\ \A i \in 1..n : s[i] \in Nat
  BY DEF Rising
<1>2. /\ a \in Seq(Nat) /\ Len(a) = n + 1 /\ n \in Nat
      /\ (\A i \in 1..n : a[i] = s[i]) /\ a[n + 1] = c
  BY <1>1, AppendProperties
<1> HIDE DEF a
<1>3. \A i \in 1..Len(a) : i \in 1..n \/ i = n + 1
  BY <1>2
<1>4. \A i \in 1..Len(a) : a[i] # EOF => lo < a[i] /\ a[i] <= hi2
  BY <1>1, <1>2, <1>3 DEF Rising
<1>5. ASSUME NEW i \in 1..Len(a), NEW j \in 1..Len(a), i < j, a[j] # EOF
      PROVE  a[i] < a[j]
  <2>1. i \in 1..n
    BY <1>2, <1>5
  <2>2. CASE j \in 1..n
    BY <1>2, <1>5, <2>1, <2>2 DEF Rising
  <2>3. CASE j = n + 1
    <3>1. a[j] = c /\ a[i] = s[i] /\ s[i] \in Nat /\ (s[i] = EOF \/ s[i] <= hi)
      BY <1>1, <1>2, <2>1, <2>3 DEF Rising
    <3> QED   BY <1>5, <3>1 DEF EOF
  <2> QED   BY <1>3, <2>2, <2>3
<1>6. NoEnd(s) /\ c # EOF => NoEnd(a)
  BY <1>2, <1>3 DEF NoEnd
<1> QED
  BY <1>2, <1>4, <1>5, <1>6 DEF Rising, a

\* Dropping the oldest.
LEMMA RisingNewest ==
  ASSUME NEW lo, NEW hi, NEW k \in Nat \ {0}, NEW s, Rising(s, lo, hi)
  PROVE  Rising(Newest(s, k), lo, hi) /\ (NoEnd(s) => NoEnd(Newest(s, k)))
<1> DEFINE m == Len(s)
           b == m - k + 1
           r == SubSeq(s, b, m)
<1>1. s \in Seq(Nat) /\ m \in Nat
  BY DEF Rising
<1>2. CASE m <= k
  BY <1>2 DEF Newest
<1>3. CASE ~(m <= k)
  <2>1. Newest(s, k) = r
    BY <1>3 DEF Newest
  <2>2. b \in 1..m /\ \A i \in b..m : s[i] \in Nat
    BY <1>1, <1>3
  <2>3. /\ r \in Seq(Nat) /\ Len(r) = (IF b <= m THEN m - b + 1 ELSE 0)
        /\ \A i \in 1..(m - b + 1) : r[i] = s[b + i - 1]
    <3> HIDE DEF b, m
    <3> QED   BY <1>1, <2>2, SubSeqProperties DEF m
  <2>4. Len(r) = k
    <3> HIDE DEF r
    <3> QED   BY <1>1, <1>3, <2>2, <2>3
  <2>5. \A i \in 1..k : b + i - 1 \in 1..m /\ i \in 1..(m - b + 1)
    BY <1>1, <1>3
  <2>6. r \in Seq(Nat) /\ \A i \in 1..Len(r) : r[i] = s[b + i - 1] /\ b + i - 1 \in 1..m
    BY <2>3, <2>4, <2>5
  <2>7. \A i, j \in 1..Len(r) : i < j => b + i - 1 < b + j - 1
    BY <1>1, <2>4
  <2> HIDE DEF r, b
  <2>8. \A i \in 1..Len(r) : r[i] # EOF => lo < r[i] /\ r[i] <= hi
    BY <2>6 DEF Rising
  <2>9. \A i, j \in 1..Len(r) : i < j /\ r[j] # EOF => r[i] < r[j]
    BY <2>6, <2>7 DEF Rising
  <2>10. NoEnd(s) => NoEnd(r)
    BY <2>6 DEF NoEnd
  <2> QED   BY <2>1, <2>6, <2>8, <2>9, <2>10 DEF Rising
<1> QED
  BY <1>2, <1>3

\* Taking the oldest, which is a chunk.
LEMMA RisingTail ==
  ASSUME NEW lo \in Nat, NEW hi \in Nat, NEW s, Rising(s, lo, hi), s # <<>>, Head(s) # EOF
  PROVE  /\ Head(s) \in Nat /\ lo < Head(s) /\ Head(s) <= hi
         /\ Rising(Tail(s), Head(s), hi) /\ (NoEnd(s) => NoEnd(Tail(s)))
<1> DEFINE n == Len(s)
           r == Tail(s)
<1>1. s \in Seq(Nat) /\ \A i \in 1..n : s[i] \in Nat
  BY DEF Rising
<1>2. /\ r \in Seq(Nat) /\ Head(s) = s[1] /\ n \in Nat /\ n >= 1
      /\ Len(r) = n - 1 /\ \A i \in 1..(n - 1) : r[i] = s[i + 1]
  BY <1>1, HeadTailProperties
<1>3. \A i \in 1..Len(r) : r[i] = s[i + 1] /\ i + 1 \in 1..n /\ 1 < i + 1
  <2> HIDE DEF r
  <2> QED   BY <1>2
<1>4. 1 \in 1..n /\ \A i, j \in 1..Len(r) : i < j => i + 1 < j + 1
  <2> HIDE DEF r
  <2> QED   BY <1>2
<1> HIDE DEF r, n
<1>5. Head(s) \in Nat /\ lo < Head(s) /\ Head(s) <= hi
  BY <1>1, <1>2, <1>4 DEF Rising, n
<1>6. \A i \in 1..Len(r) : r[i] # EOF => Head(s) < r[i] /\ r[i] <= hi
  BY <1>2, <1>3, <1>4 DEF Rising, n
<1>7. \A i, j \in 1..Len(r) : i < j /\ r[j] # EOF => r[i] < r[j]
  BY <1>3, <1>4 DEF Rising, n
<1>8. NoEnd(s) => NoEnd(r)
  BY <1>3 DEF NoEnd, n
<1> QED
  BY <1>2, <1>5, <1>6, <1>7, <1>8 DEF Rising, r

\* What a stream has still to give out, m chunks having been read: its ring buffer and
\* the chunk in a thread's hand rise from the chunk its subscribers were given last.  A
\* ring that is open is emptied by one thread, and that one lives.
BusyOK(fan, t, m) ==
  /\ fan.hands[t] \in Nat /\ fan.newest < fan.hands[t] /\ fan.hands[t] <= m
  /\ Rising(fan.ring, fan.hands[t], m)
  /\ \A u \in 1..Len(fan.threads) : fan.threads[u] = "busy" => u = t

FeedOK(fan, m) ==
  /\ fan.newest \in Nat /\ fan.newest <= m
  /\ Rising(fan.ring, fan.newest, m) /\ NoEnd(fan.ring)
  /\ Sequence(fan.threads) /\ Sequence(fan.hands) /\ Len(fan.hands) = Len(fan.threads)
  /\ \A t \in 1..Len(fan.threads) : fan.threads[t] = "busy" => BusyOK(fan, t, m)
  /\ ~fan.closed => /\ ~fan.stop /\ Len(fan.threads) <= 1
                    /\ \A t \in 1..Len(fan.threads) : fan.threads[t] # "gone"

\* A stream that keeps what it has to give out, and does not open its ring.
LEMMA FeedSame ==
  ASSUME NEW m \in Nat, NEW n \in Nat, m <= n, NEW fan, NEW t, FeedOK(fan, m),
         t.newest = fan.newest, t.ring = fan.ring, t.threads = fan.threads, t.hands = fan.hands,
         ~t.closed => ~fan.closed, t.stop => fan.stop \/ t.closed
  PROVE  FeedOK(t, n)
<1>1. t.newest \in Nat /\ t.newest <= n
  BY DEF FeedOK
<1>2. Rising(t.ring, t.newest, n) /\ NoEnd(t.ring)
  BY RisingWide DEF FeedOK
<1>3. ASSUME NEW u \in 1..Len(t.threads), t.threads[u] = "busy"
      PROVE  BusyOK(t, u, n)
  <2>1. BusyOK(fan, u, m)
    BY <1>3 DEF FeedOK
  <2>2. Rising(t.ring, t.hands[u], n)
    BY <2>1, RisingWide DEF BusyOK
  <2> QED   BY <2>1, <2>2 DEF BusyOK
<1> QED
  BY <1>1, <1>2, <1>3 DEF FeedOK

\* One place of a sequence is changed.
LEMMA SetPlace ==
  ASSUME NEW s, Sequence(s), NEW i \in 1..Len(s), NEW e, NEW r, r = [s EXCEPT ![i] = e]
  PROVE  /\ Sequence(r) /\ Len(r) = Len(s)
         /\ \A j \in 1..Len(s) : r[j] = IF j = i THEN e ELSE s[j]
<1>1. PICK S : s \in Seq(S)
  BY DEF Sequence
<1> DEFINE T == S \cup {e}
<1>2. s \in Seq(T) /\ e \in T
  BY <1>1, SeqMonotonic
<1> HIDE DEF T
<1>3. [s EXCEPT ![i] = e] \in Seq(T) /\ Len([s EXCEPT ![i] = e]) = Len(s)
      /\ \A j \in 1..Len(s) : [s EXCEPT ![i] = e][j] = IF j = i THEN e ELSE s[j]
  BY <1>2, ExceptSeq
<1> QED
  BY <1>3 DEF Sequence

LEMMA AddPlace ==
  ASSUME NEW s, Sequence(s), NEW e
  PROVE  LET r == Append(s, e)
         IN  /\ Sequence(r) /\ Len(r) = Len(s) + 1 /\ Len(s) \in Nat
             /\ r[Len(s) + 1] = e /\ \A j \in 1..Len(s) : r[j] = s[j]
<1>1. PICK S : s \in Seq(S)
  BY DEF Sequence
<1> DEFINE T == S \cup {e}
<1>2. s \in Seq(T) /\ e \in T
  BY <1>1, SeqMonotonic
<1> HIDE DEF T
<1>3. Append(s, e) \in Seq(T) /\ Len(Append(s, e)) = Len(s) + 1
      /\ (\A j \in 1..Len(s) : Append(s, e)[j] = s[j]) /\ Append(s, e)[Len(s) + 1] = e
  BY <1>2, AppendProperties
<1> QED
  BY <1>2, <1>3 DEF Sequence

\* The reader puts a chunk into the ring, a thread takes one out, gives it to the
\* subscribers and ends; and start() adds a thread.
LEMMA FeedReads ==
  ASSUME NEW m \in Nat, NEW fan, DOMAIN fan = FanFields, FeedOK(fan, m)
  PROVE  FeedOK(RingPut(fan, m + 1), m + 1)
<1>1. CASE fan.closed
  <2>1. FeedOK(fan, m + 1)
    BY FeedSame
  <2> QED   BY <1>1, <2>1 DEF RingPut
<1>2. CASE ~fan.closed
  <2> DEFINE r == Newest(Append(fan.ring, m + 1), RingChunks)
             t == [fan EXCEPT !.ring = r]
  <2>1. RingPut(fan, m + 1) = t
    BY <1>2 DEF RingPut
  <2>2. ASSUME NEW lo \in Nat, lo <= m, Rising(fan.ring, lo, m)
        PROVE  Rising(r, lo, m + 1)
    <3>1. Rising(Append(fan.ring, m + 1), lo, m + 1)
      <4> DEFINE c == m + 1
      <4>1. c \in Nat /\ lo < c /\ m < c
        BY <2>2
      <4> HIDE DEF c
      <4>2. Rising(Append(fan.ring, c), lo, c)
        BY <2>2, <4>1, RisingAppend
      <4> QED   BY <4>2 DEF c
    <3> QED   BY <3>1, RisingNewest, FanoutAssumption
  <2>3. NoEnd(r)
    <3> DEFINE c == m + 1
               lo == fan.newest
    <3>1. c \in Nat /\ lo < c /\ m < c /\ c # EOF /\ lo \in Nat /\ NoEnd(fan.ring)
          /\ Rising(fan.ring, lo, m)
      BY DEF FeedOK, EOF
    <3> HIDE DEF c, lo
    <3>2. Rising(Append(fan.ring, c), lo, c) /\ NoEnd(Append(fan.ring, c))
      BY <3>1, RisingAppend
    <3> QED   BY <3>2, RisingNewest, FanoutAssumption DEF c
  <2> HIDE DEF r
  <2>4. /\ t.newest = fan.newest /\ t.ring = r /\ t.threads = fan.threads /\ t.hands = fan.hands
        /\ t.closed = fan.closed /\ t.stop = fan.stop
    BY DEF FanFields
  <2> HIDE DEF t
  <2>5. ASSUME NEW u \in 1..Len(t.threads), t.threads[u] = "busy"
        PROVE  BusyOK(t, u, m + 1)
    <3>1. BusyOK(fan, u, m)
      BY <2>4, <2>5 DEF FeedOK
    <3> QED   BY <2>2, <2>4, <3>1 DEF BusyOK
  <2>6. Rising(t.ring, t.newest, m + 1) /\ t.newest \in Nat /\ t.newest <= m + 1
    BY <2>2, <2>4 DEF FeedOK
  <2>7. FeedOK(t, m + 1)
    BY <2>3, <2>4, <2>5, <2>6 DEF FeedOK
  <2> QED   BY <2>1, <2>7
<1> QED
  BY <1>1, <1>2

LEMMA FeedGets ==
  ASSUME NEW m \in Nat, NEW fan, DOMAIN fan = FanFields, FeedOK(fan, m),
         NEW n \in 1..Len(fan.threads), ~fan.closed, fan.ring # <<>>
  PROVE  FeedOK([fan EXCEPT !.ring = Tail(@), !.threads[n] = "busy", !.hands[n] = Head(fan.ring)],
                m)
<1> DEFINE c == Head(fan.ring)
           r == Tail(fan.ring)
           ts == [fan.threads EXCEPT ![n] = "busy"]
           hs == [fan.hands EXCEPT ![n] = c]
           t == [fan EXCEPT !.ring = r, !.threads = ts, !.hands = hs]
<1>1. /\ fan.newest \in Nat /\ fan.newest <= m
      /\ Rising(fan.ring, fan.newest, m) /\ NoEnd(fan.ring)
      /\ Sequence(fan.threads) /\ Sequence(fan.hands) /\ Len(fan.hands) = Len(fan.threads)
      /\ ~fan.stop /\ Len(fan.threads) <= 1
  BY DEF FeedOK
<1>2. c # EOF
  BY <1>1 DEF NoEnd, Rising
<1>3. /\ c \in Nat /\ fan.newest < c /\ c <= m
      /\ Rising(r, c, m) /\ NoEnd(r)
  BY <1>1, <1>2, RisingTail
<1>4. Rising(r, fan.newest, m)
  <2> HIDE DEF r, c
  <2>1. fan.newest <= c
    BY <1>1, <1>3
  <2> QED   BY <1>1, <1>3, <2>1, RisingWide
<1>5. /\ Sequence(ts) /\ Len(ts) = Len(fan.threads)
      /\ ts[n] = "busy"
  BY <1>1, SetPlace
<1>6. Sequence(hs) /\ Len(hs) = Len(fan.hands) /\ hs[n] = c
  <2> HIDE DEF c
  <2> QED   BY <1>1, SetPlace
<1> HIDE DEF c, r, ts, hs
<1>7. /\ t.newest = fan.newest /\ t.ring = r /\ t.threads = ts /\ t.hands = hs
      /\ t.closed = fan.closed /\ t.stop = fan.stop
  BY DEF FanFields
<1>8. \A u \in 1..Len(fan.threads) : u = n
  <2>1. Len(fan.threads) \in Nat
    BY <1>1 DEF Sequence
  <2> QED   BY <1>1, <2>1
<1>9. t = [fan EXCEPT !.ring = Tail(@), !.threads[n] = "busy", !.hands[n] = Head(fan.ring)]
  BY DEF c, r, ts, hs
<1> HIDE DEF t
<1>10. FeedOK(t, m)
  <2>1. BusyOK(t, n, m)
    BY <1>3, <1>5, <1>6, <1>7, <1>8 DEF BusyOK
  <2> QED   BY <1>1, <1>3, <1>4, <1>5, <1>6, <1>7, <1>8, <2>1 DEF FeedOK
<1> QED
  BY <1>9, <1>10

LEMMA FeedPuts ==
  ASSUME NEW m \in Nat, NEW fan, DOMAIN fan = FanFields, FeedOK(fan, m),
         NEW n \in 1..Len(fan.threads), fan.threads[n] = "busy"
  PROVE  FeedOK([fan EXCEPT !.threads[n] = "idle", !.hands[n] = 0, !.newest = fan.hands[n]], m)
<1> DEFINE c == fan.hands[n]
           ts == [fan.threads EXCEPT ![n] = "idle"]
           hs == [fan.hands EXCEPT ![n] = 0]
           t == [fan EXCEPT !.threads = ts, !.hands = hs, !.newest = c]
<1>1. /\ NoEnd(fan.ring)
      /\ Sequence(fan.threads) /\ Sequence(fan.hands) /\ Len(fan.hands) = Len(fan.threads)
      /\ BusyOK(fan, n, m)
  BY DEF FeedOK
<1>2. /\ Sequence(ts) /\ Len(ts) = Len(fan.threads)
      /\ \A u \in 1..Len(fan.threads) : ts[u] = IF u = n THEN "idle" ELSE fan.threads[u]
  <2>1. ts = [fan.threads EXCEPT ![n] = "idle"]
    OBVIOUS
  <2> HIDE DEF ts
  <2> QED   BY <1>1, <2>1, SetPlace
<1>3. Sequence(hs) /\ Len(hs) = Len(fan.hands)
  <2>1. hs = [fan.hands EXCEPT ![n] = 0] /\ n \in 1..Len(fan.hands)
    BY <1>1
  <2> HIDE DEF hs
  <2> QED   BY <1>1, <2>1, SetPlace
<1>4. c \in Nat /\ c <= m /\ Rising(fan.ring, c, m)
      /\ \A u \in 1..Len(fan.threads) : fan.threads[u] = "busy" => u = n
  BY <1>1 DEF BusyOK
<1>5. t = [fan EXCEPT !.threads[n] = "idle", !.hands[n] = 0, !.newest = fan.hands[n]]
  OBVIOUS
<1> HIDE DEF c, ts, hs
<1>6. /\ t.newest = c /\ t.ring = fan.ring /\ t.threads = ts /\ t.hands = hs
      /\ t.closed = fan.closed /\ t.stop = fan.stop
  BY DEF FanFields
<1> HIDE DEF t
<1>7. \A u \in 1..Len(ts) : ts[u] # "busy" /\ (fan.threads[u] # "gone" => ts[u] # "gone")
  BY <1>2, <1>4
<1>8. FeedOK(t, m)
  BY <1>1, <1>2, <1>3, <1>4, <1>6, <1>7 DEF FeedOK
<1> QED
  BY <1>5, <1>8

LEMMA FeedEnds ==
  ASSUME NEW m \in Nat, NEW fan, DOMAIN fan = FanFields, FeedOK(fan, m),
         NEW n \in 1..Len(fan.threads), fan.threads[n] = "idle", fan.stop
  PROVE  FeedOK([fan EXCEPT !.threads[n] = "gone"], m)
<1> DEFINE ts == [fan.threads EXCEPT ![n] = "gone"]
           t == [fan EXCEPT !.threads = ts]
<1>1. /\ Sequence(fan.threads) /\ fan.closed
  BY DEF FeedOK
<1>2. /\ Sequence(ts) /\ Len(ts) = Len(fan.threads)
      /\ \A u \in 1..Len(fan.threads) : ts[u] = IF u = n THEN "gone" ELSE fan.threads[u]
  <2>1. ts = [fan.threads EXCEPT ![n] = "gone"]
    OBVIOUS
  <2> HIDE DEF ts
  <2> QED   BY <1>1, <2>1, SetPlace
<1>3. t = [fan EXCEPT !.threads[n] = "gone"]
  OBVIOUS
<1> HIDE DEF ts
<1>4. /\ t.newest = fan.newest /\ t.ring = fan.ring /\ t.threads = ts /\ t.hands = fan.hands
      /\ t.closed = fan.closed /\ t.stop = fan.stop
  BY DEF FanFields
<1> HIDE DEF t
<1>5. ASSUME NEW u \in 1..Len(ts), ts[u] = "busy"
      PROVE  BusyOK(t, u, m)
  <2>1. \A w \in 1..Len(ts) : ts[w] = "busy" => fan.threads[w] = "busy"
    BY <1>2
  <2>2. BusyOK(fan, u, m)
    BY <1>2, <1>5, <2>1 DEF FeedOK
  <2> QED   BY <1>2, <1>4, <2>1, <2>2 DEF BusyOK
<1>6. FeedOK(t, m)
  BY <1>1, <1>2, <1>4, <1>5 DEF FeedOK
<1> QED
  BY <1>3, <1>6

LEMMA FeedStarts ==
  ASSUME NEW m \in Nat, NEW fan, DOMAIN fan = FanFields, FeedOK(fan, m),
         fan.reader \/ fan.closed \/ ~Alive(fan)
  PROVE  FeedOK(Started(fan), m)
<1>1. CASE fan.reader
  BY <1>1 DEF Started
<1>2. CASE ~fan.reader
  <2> DEFINE ts == Append(fan.threads, "idle")
             hs == Append(fan.hands, 0)
             t == [fan EXCEPT !.stop = FALSE, !.stopped = FALSE, !.reader = TRUE,
                              !.threads = ts, !.hands = hs]
  <2>1. Started(fan) = t
    BY <1>2 DEF Started
  <2>2. /\ Sequence(fan.threads) /\ Sequence(fan.hands) /\ Len(fan.hands) = Len(fan.threads)
    BY DEF FeedOK
  <2>3. /\ Sequence(ts) /\ Len(ts) = Len(fan.threads) + 1 /\ Len(fan.threads) \in Nat
        /\ ts[Len(fan.threads) + 1] = "idle" /\ \A u \in 1..Len(fan.threads) : ts[u] = fan.threads[u]
    BY <2>2, AddPlace
  <2>4. /\ Sequence(hs) /\ Len(hs) = Len(fan.hands) + 1
        /\ \A u \in 1..Len(fan.hands) : hs[u] = fan.hands[u]
    BY <2>2, AddPlace
  <2> HIDE DEF ts, hs
  <2>5. /\ t.newest = fan.newest /\ t.ring = fan.ring /\ t.threads = ts /\ t.hands = hs
        /\ t.closed = fan.closed /\ t.stop = FALSE
    BY DEF FanFields
  <2> HIDE DEF t
  <2>6. \A u \in 1..Len(ts) : u \in 1..Len(fan.threads) \/ ts[u] = "idle"
    BY <2>3
  <2>7. ASSUME NEW u \in 1..Len(ts), ts[u] = "busy"
        PROVE  BusyOK(t, u, m)
    <3>1. \A w \in 1..Len(ts) : ts[w] = "busy" => w \in 1..Len(fan.threads)
                                                  /\ fan.threads[w] = "busy"
      BY <2>3, <2>6
    <3>2. BusyOK(fan, u, m)
      BY <2>7, <3>1 DEF FeedOK
    <3> QED   BY <2>2, <2>4, <2>5, <2>7, <3>1, <3>2 DEF BusyOK
  <2>8. ASSUME ~t.closed
        PROVE  Len(ts) <= 1 /\ \A u \in 1..Len(ts) : ts[u] # "gone"
    <3>1. \A u \in 1..Len(fan.threads) : fan.threads[u] # "gone"
      BY <2>5, <2>8 DEF FeedOK
    <3>2. \A u \in 1..Len(fan.threads) : u \in DOMAIN fan.threads
      BY <2>2 DEF Sequence
    <3>3. ~Alive(fan)
      BY <1>2, <2>5, <2>8
    <3>4. Len(fan.threads) = 0
      <4>1. ~(1 \in 1..Len(fan.threads))
        BY <3>1, <3>2, <3>3 DEF Alive
      <4> QED   BY <2>3, <4>1
    <3> QED   BY <2>3, <3>4
  <2>9. FeedOK(t, m)
    BY <2>2, <2>3, <2>4, <2>5, <2>7, <2>8 DEF FeedOK
  <2> QED   BY <2>1, <2>9
<1> QED
  BY <1>1, <1>2

LEMMA FeedNew ==
  ASSUME NEW m \in Nat, NEW r
  PROVE  FeedOK(NewFan(r), m)
<1>1. Sequence(<<>>)
  <2>1. <<>> \in Seq({})   OBVIOUS
  <2> QED   BY <2>1 DEF Sequence
<1> DEFINE t == NewFan(r)
<1>2. /\ t.newest = 0 /\ t.ring = <<>> /\ t.threads = <<>> /\ t.hands = <<>>
      /\ t.closed = FALSE /\ t.stop = FALSE
  BY DEF NewFan
<1> HIDE DEF t
<1>3. FeedOK(t, m)
  BY <1>1, <1>2, RisingEmpty DEF FeedOK
<1> QED
  BY <1>3 DEF t

\* Unless a stream was given two threads for an open ring: every stream has chunks to
\* give out that rise from the last one, and every viewer's queue holds chunks that
\* rise from the last it was sent, up to the one its stream gave out last.
Feeds == made \in Nat /\ \A f \in Fans : FeedOK(fans[f], made)

Fed ==
  /\ \A v \in Viewers : last[v] \in Nat /\ Rising(queue[v], last[v], made)
  /\ \A f \in Fans : \A v \in fans[f].subs :
        last[v] <= fans[f].newest /\ Rising(queue[v], last[v], fans[f].newest)

Calm == "two feeders" \notin mishaps

BackInv == Calm => Feeds /\ Fed

LEMMA InitBack == Init => BackInv
<1> SUFFICES ASSUME Init  PROVE BackInv
  OBVIOUS
<1>1. Fans = {}
  BY DEF Init, Fans
<1>2. \A v \in Viewers : last[v] = 0 /\ queue[v] = <<>>
  BY DEF Init
<1>3. Fed
  BY <1>1, <1>2, RisingEmpty DEF Fed
<1> QED
  BY <1>1, <1>3 DEF Init, BackInv, Feeds

\* One stream is changed.
LEMMA OneFeed ==
  ASSUME IInv, Feeds, NEW f \in Fans, NEW t, fans' = [fans EXCEPT ![f] = t],
         made' \in Nat, made <= made', FeedOK(t, made')
  PROVE  Feeds'
<1>1. Len(fans') = Len(fans) /\ \A g \in Fans : fans'[g] = IF g = f THEN t ELSE fans[g]
  BY SetFan DEF IInv, FansOK
<1>2. ASSUME NEW g \in Fans, g # f
      PROVE  FeedOK(fans[g], made')
  BY FeedSame DEF Feeds
<1> QED
  BY <1>1, <1>2 DEF Feeds, Fans

\* No stream, and at most the number of chunks.
LEMMA NoFeed ==
  ASSUME Feeds, Fed, UNCHANGED <<fans, queue, last, made>>
  PROVE  Feeds' /\ Fed'
<1>1. Fans' = Fans
  BY DEF Fans
<1> QED
  BY <1>1 DEF Feeds, Fed

\* Nothing is given to the subscribers, some may be dropped.
LEMMA QuietFed ==
  ASSUME Feeds, Fed, EdgeInv, UNCHANGED <<queue, last>>, made' \in Nat, made <= made',
         Fans' = Fans,
         \A g \in Fans : fans'[g].newest = fans[g].newest /\ fans'[g].subs \subseteq fans[g].subs
  PROVE  Fed'
<1>1. ASSUME NEW v \in Viewers
      PROVE  last[v] \in Nat /\ Rising(queue[v], last[v], made')
  <2>1. last[v] \in Nat /\ made \in Nat /\ Rising(queue[v], last[v], made)
    BY DEF Fed, Feeds
  <2> QED   BY <2>1, RisingWide
<1> QED
  BY <1>1 DEF Fed

\* A step of one stream that gives its subscribers nothing.
LEMMA QuietFeed ==
  ASSUME IInv, EdgeInv, Feeds, Fed, NEW f \in Fans, NEW t, fans' = [fans EXCEPT ![f] = t],
         made' \in Nat, made <= made', FeedOK(t, made'),
         t.newest = fans[f].newest, t.subs \subseteq fans[f].subs, UNCHANGED <<queue, last>>
  PROVE  Feeds' /\ Fed'
<1>1. Len(fans') = Len(fans) /\ \A g \in Fans : fans'[g] = IF g = f THEN t ELSE fans[g]
  BY SetFan DEF IInv, FansOK
<1>2. Fans' = Fans
  BY <1>1 DEF Fans
<1>3. \A g \in Fans : fans'[g].newest = fans[g].newest /\ fans'[g].subs \subseteq fans[g].subs
  BY <1>1
<1> QED
  BY <1>2, <1>3, QuietFed, OneFeed

LEMMA BackReader ==
  ASSUME IInv, EdgeInv, Feeds, Fed, NEW f \in Fans, Reader(f) \/ ReaderCrashes(f) \/ StopBegins(f)
  PROVE  Feeds' /\ Fed'
<1> DEFINE fan == fans[f]
<1>0. /\ DOMAIN fan = FanFields /\ FeedOK(fan, made) /\ made \in Nat
      /\ UNCHANGED <<queue, last>>
  BY DEF IInv, FansOK, FanOK, Feeds, Reader, ReaderConnects, ReaderReads, ReaderEnds,
         ReaderCrashes, StopBegins, viewerVars
<1>1. ASSUME NEW t, Set(f, t), made' = made, t.subs = fan.subs, t.newest = fan.newest,
             t.ring = fan.ring, t.threads = fan.threads, t.hands = fan.hands,
             ~t.closed => ~fan.closed, t.stop => fan.stop \/ t.closed
      PROVE  Feeds' /\ Fed'
  <2>1. made' \in Nat /\ made <= made' /\ FeedOK(t, made')
    BY <1>0, <1>1, FeedSame
  <2>2. fans' = [fans EXCEPT ![f] = t]
    BY <1>1 DEF Set
  <2> QED   BY <1>0, <1>1, <2>1, <2>2, QuietFeed
<1>2. CASE ReaderConnects(f)
  <2> DEFINE t == [fan EXCEPT !.source = TRUE]
  <2>1. Set(f, t) /\ made' = made
    BY <1>2 DEF ReaderConnects
  <2>2. /\ t.subs = fan.subs /\ t.newest = fan.newest /\ t.ring = fan.ring
        /\ t.threads = fan.threads /\ t.hands = fan.hands
        /\ t.closed = fan.closed /\ t.stop = fan.stop
    BY <1>0 DEF FanFields
  <2> HIDE DEF t
  <2> QED   BY <1>1, <2>1, <2>2
<1>3. CASE ReaderReads(f)
  <2> DEFINE t == RingPut(fan, made + 1)
  <2>1. Set(f, t) /\ made' = made + 1
    BY <1>3 DEF ReaderReads
  <2>2. t.subs = fan.subs /\ t.newest = fan.newest
    <3> DEFINE r == Newest(Append(fan.ring, made + 1), RingChunks)
               u == [fan EXCEPT !.ring = r]
    <3>1. t = fan \/ t = u
      BY DEF RingPut
    <3>2. u.subs = fan.subs /\ u.newest = fan.newest
      <4> HIDE DEF r
      <4> QED   BY <1>0 DEF FanFields
    <3> HIDE DEF t, u
    <3> QED   BY <3>1, <3>2
  <2>3. FeedOK(t, made + 1)
    BY <1>0, FeedReads
  <2> HIDE DEF t
  <2>4. made' \in Nat /\ made <= made' /\ FeedOK(t, made')
    BY <1>0, <2>1, <2>3
  <2>5. fans' = [fans EXCEPT ![f] = t]
    BY <2>1 DEF Set
  <2> QED   BY <1>0, <2>2, <2>4, <2>5, QuietFeed
<1>4. CASE ReaderEnds(f)
  <2> DEFINE t == ReaderOver(fan)
  <2>1. Set(f, t) /\ made' = made
    BY <1>4 DEF ReaderEnds
  <2>2. /\ t.subs = fan.subs /\ t.newest = fan.newest /\ t.ring = fan.ring
        /\ t.threads = fan.threads /\ t.hands = fan.hands
        /\ t.closed = TRUE /\ t.stop = fan.stop
    BY <1>0 DEF FanFields, ReaderOver
  <2> HIDE DEF t
  <2> QED   BY <1>1, <2>1, <2>2
<1>5. CASE ReaderCrashes(f)
  <2> DEFINE t == [fan EXCEPT !.reader = FALSE]
  <2>1. Set(f, t) /\ made' = made
    BY <1>5 DEF ReaderCrashes
  <2>2. /\ t.subs = fan.subs /\ t.newest = fan.newest /\ t.ring = fan.ring
        /\ t.threads = fan.threads /\ t.hands = fan.hands
        /\ t.closed = fan.closed /\ t.stop = fan.stop
    BY <1>0 DEF FanFields
  <2> HIDE DEF t
  <2> QED   BY <1>1, <2>1, <2>2
<1>6. CASE StopBegins(f) /\ fan.stopped
  <2> DEFINE t == [fan EXCEPT !.stopper = "done"]
  <2>1. Set(f, t) /\ made' = made
    BY <1>6 DEF StopBegins
  <2>2. /\ t.subs = fan.subs /\ t.newest = fan.newest /\ t.ring = fan.ring
        /\ t.threads = fan.threads /\ t.hands = fan.hands
        /\ t.closed = fan.closed /\ t.stop = fan.stop
    BY <1>0 DEF FanFields
  <2> HIDE DEF t
  <2> QED   BY <1>1, <2>1, <2>2
<1>7. CASE StopBegins(f) /\ ~fan.stopped
  <2> DEFINE t == [fan EXCEPT !.stop = TRUE, !.closed = TRUE, !.source = FALSE,
                              !.stopper = "joining"]
  <2>1. Set(f, t) /\ made' = made
    BY <1>7 DEF StopBegins
  <2>2. /\ t.subs = fan.subs /\ t.newest = fan.newest /\ t.ring = fan.ring
        /\ t.threads = fan.threads /\ t.hands = fan.hands
        /\ t.closed = TRUE
    BY <1>0 DEF FanFields
  <2> HIDE DEF t
  <2> QED   BY <1>1, <2>1, <2>2
<1> QED
  BY <1>2, <1>3, <1>4, <1>5, <1>6, <1>7 DEF Reader

LEMMA BackGets ==
  ASSUME IInv, EdgeInv, Feeds, Fed, NEW f \in Fans, NEW n \in DOMAIN fans[f].threads,
         FanGets(f, n) \/ FanEnds(f, n)
  PROVE  Feeds' /\ Fed'
<1> DEFINE fan == fans[f]
<1>0. /\ DOMAIN fan = FanFields /\ FeedOK(fan, made) /\ made \in Nat
      /\ UNCHANGED <<queue, last, made>>
  BY DEF IInv, FansOK, FanOK, Feeds, FanGets, FanEnds, viewerVars
<1>1. n \in 1..Len(fan.threads)
  BY <1>0 DEF FeedOK, Sequence
<1>2. CASE FanGets(f, n)
  <2> DEFINE t == [fan EXCEPT !.ring = Tail(@), !.threads[n] = "busy",
                              !.hands[n] = Head(fan.ring)]
  <2>1. Set(f, t) /\ ~fan.closed /\ fan.ring # <<>>
    BY <1>2 DEF FanGets
  <2>2. t.subs = fan.subs /\ t.newest = fan.newest
    BY <1>0 DEF FanFields
  <2>3. FeedOK(t, made)
    BY <1>0, <1>1, <2>1, FeedGets
  <2> HIDE DEF t
  <2>4. made' \in Nat /\ made <= made' /\ FeedOK(t, made')
    BY <1>0, <2>3
  <2>5. fans' = [fans EXCEPT ![f] = t]
    BY <2>1 DEF Set
  <2> QED   BY <1>0, <2>2, <2>4, <2>5, QuietFeed
<1>3. CASE FanEnds(f, n)
  <2> DEFINE t == [fan EXCEPT !.threads[n] = "gone"]
  <2>1. Set(f, t) /\ fan.stop /\ fan.threads[n] = "idle"
    BY <1>3 DEF FanEnds
  <2>2. t.subs = fan.subs /\ t.newest = fan.newest
    BY <1>0 DEF FanFields
  <2>3. FeedOK(t, made)
    BY <1>0, <1>1, <2>1, FeedEnds
  <2> HIDE DEF t
  <2>4. made' \in Nat /\ made <= made' /\ FeedOK(t, made')
    BY <1>0, <2>3
  <2>5. fans' = [fans EXCEPT ![f] = t]
    BY <2>1 DEF Set
  <2> QED   BY <1>0, <2>2, <2>4, <2>5, QuietFeed
<1> QED
  BY <1>2, <1>3

LEMMA BackPuts ==
  ASSUME IInv, EdgeInv, Feeds, Fed, NEW f \in Fans, NEW n \in DOMAIN fans[f].threads,
         FanPuts(f, n)
  PROVE  Feeds' /\ Fed'
<1> DEFINE fan == fans[f]
           c == fan.hands[n]
           t == [fan EXCEPT !.threads[n] = "idle", !.hands[n] = 0, !.newest = c]
           put(v) == Newest(Append(queue[v], c), ClientChunks)
<1>0. /\ DOMAIN fan = FanFields /\ FeedOK(fan, made) /\ made \in Nat
      /\ SubscribersOK /\ Sequence(fans)
  BY DEF IInv, FansOK, FanOK, Feeds, EdgeInv
<1>1. /\ fans' = [fans EXCEPT ![f] = t] /\ UNCHANGED <<last, made>> /\ fan.threads[n] = "busy"
      /\ queue' = [v \in Viewers |-> IF v \in fan.subs THEN put(v) ELSE queue[v]]
  BY DEF FanPuts, Set
<1>2. n \in 1..Len(fan.threads)
  BY <1>0 DEF FeedOK, Sequence
<1>3. FeedOK(t, made)
  BY <1>0, <1>1, <1>2, FeedPuts
<1>4. c \in Nat /\ fan.newest \in Nat /\ fan.newest < c /\ c <= made
  BY <1>0, <1>1, <1>2 DEF FeedOK, BusyOK
<1>5. t.subs = fan.subs /\ t.newest = c
  BY <1>0 DEF FanFields
<1>6. ASSUME NEW v \in fan.subs
      PROVE  /\ v \in Viewers /\ last[v] <= c /\ Rising(put(v), last[v], c)
             /\ Rising(put(v), last[v], made)
  <2> DEFINE q == queue[v]
             l == last[v]
             h == fan.newest
             r == Newest(Append(q, c), ClientChunks)
  <2>1. v \in Viewers /\ l \in Nat /\ l <= h /\ Rising(q, l, h) /\ h \in Nat /\ h < c
    BY <1>0, <1>4 DEF Fed, SubscribersOK
  <2> HIDE DEF q, l, h, c
  <2>2. l < c /\ h <= c
    BY <1>4, <2>1
  <2>3. Rising(Append(q, c), l, c)
    BY <1>4, <2>1, <2>2, RisingAppend
  <2>4. Rising(r, l, c)
    BY <2>3, RisingNewest, FanoutAssumption
  <2> HIDE DEF r
  <2>5. Rising(r, l, made)
    BY <1>0, <1>4, <2>1, <2>4, RisingWide
  <2> QED   BY <1>4, <2>1, <2>2, <2>4, <2>5 DEF q, l, r
<1> HIDE DEF t, put, c
<1>7. Feeds'
  <2>1. made' \in Nat /\ made <= made' /\ FeedOK(t, made')
    BY <1>0, <1>1, <1>3
  <2> QED   BY <1>1, <2>1, OneFeed
<1>8. Fans' = Fans /\ \A g \in Fans : fans'[g] = IF g = f THEN t ELSE fans[g]
  BY <1>0, <1>1, SetFan DEF Fans
<1>9. \A v \in Viewers : queue'[v] = IF v \in fan.subs THEN put(v) ELSE queue[v]
  BY <1>1
<1>10. \A v \in Viewers : last'[v] \in Nat /\ Rising(queue'[v], last'[v], made')
  BY <1>1, <1>6, <1>9 DEF Fed
<1>11. ASSUME NEW g \in Fans, NEW v \in fans'[g].subs
       PROVE  last[v] <= fans'[g].newest /\ Rising(queue'[v], last[v], fans'[g].newest)
  <2>1. CASE g = f
    BY <1>5, <1>6, <1>8, <1>9, <2>1
  <2>2. CASE g # f
    <3>1. fans'[g] = fans[g] /\ v \in Viewers /\ ref[v] = g
      BY <1>0, <1>8, <1>11, <2>2 DEF SubscribersOK
    <3>2. v \notin fan.subs
      BY <1>0, <2>2, <3>1 DEF SubscribersOK
    <3> QED   BY <1>9, <1>11, <3>1, <3>2 DEF Fed
  <2> QED   BY <2>1, <2>2
<1>12. Fed'
  BY <1>1, <1>8, <1>10, <1>11 DEF Fed
<1> QED
  BY <1>7, <1>12

LEMMA BackStop ==
  ASSUME IInv, EdgeInv, Feeds, Fed, NEW f \in Fans, StopEnds(f)
  PROVE  Feeds' /\ Fed'
<1> DEFINE fan == fans[f]
           t == [fan EXCEPT !.stopper = "done", !.subs = {}, !.stopped = TRUE]
<1>0. /\ DOMAIN fan = FanFields /\ FeedOK(fan, made) /\ made \in Nat
      /\ SubscribersOK /\ Sequence(fans)
  BY DEF IInv, FansOK, FanOK, Feeds, EdgeInv
<1>1. /\ fans' = [fans EXCEPT ![f] = t] /\ UNCHANGED <<last, made>>
      /\ queue' = [v \in Viewers |-> IF v \in fan.subs THEN Append(queue[v], EOF) ELSE queue[v]]
  BY DEF StopEnds, Set
<1>2. /\ t.subs = {} /\ t.newest = fan.newest /\ t.ring = fan.ring
      /\ t.threads = fan.threads /\ t.hands = fan.hands
      /\ t.closed = fan.closed /\ t.stop = fan.stop
  BY <1>0 DEF FanFields
<1> HIDE DEF t
<1>3. made' \in Nat /\ made <= made' /\ FeedOK(t, made')
  BY <1>0, <1>1, <1>2, FeedSame
<1>4. Feeds'
  BY <1>1, <1>3, OneFeed
<1>5. Fans' = Fans /\ \A g \in Fans : fans'[g] = IF g = f THEN t ELSE fans[g]
  BY <1>0, <1>1, SetFan DEF Fans
<1>6. \A v \in Viewers : queue'[v] = IF v \in fan.subs THEN Append(queue[v], EOF) ELSE queue[v]
  BY <1>1
<1>7. ASSUME NEW v \in Viewers
      PROVE  last'[v] \in Nat /\ Rising(queue'[v], last'[v], made')
  <2>1. last[v] \in Nat /\ Rising(queue[v], last[v], made)
    BY DEF Fed
  <2>2. Rising(Append(queue[v], EOF), last[v], made)
    BY <1>0, <2>1, RisingAppend DEF EOF
  <2> QED   BY <1>1, <1>6, <2>1, <2>2
<1>8. ASSUME NEW g \in Fans, NEW v \in fans'[g].subs
      PROVE  last[v] <= fans'[g].newest /\ Rising(queue'[v], last[v], fans'[g].newest)
  <2>1. g # f
    BY <1>2, <1>5, <1>8
  <2>2. fans'[g] = fans[g] /\ v \in Viewers /\ ref[v] = g
    BY <1>0, <1>5, <1>8, <2>1 DEF SubscribersOK
  <2>3. v \notin fan.subs
    BY <1>0, <2>1, <2>2 DEF SubscribersOK
  <2> QED   BY <1>6, <1>8, <2>2, <2>3 DEF Fed
<1>9. Fed'
  BY <1>1, <1>5, <1>7, <1>8 DEF Fed
<1> QED
  BY <1>4, <1>9

\* The viewers.
LEMMA BackGetFanout ==
  ASSUME IInv, EdgeInv, Feeds, Fed, NEW v \in Viewers, GetFanout(v)
  PROVE  Feeds' /\ Fed'
<1>0. UNCHANGED <<queue, last, made>> /\ Sequence(fans) /\ made \in Nat
  BY DEF GetFanout, IInv, FansOK, Feeds
<1>1. CASE fans' = fans
  BY <1>0, <1>1, NoFeed
<1>2. CASE fans' = Append(fans, NewFan(producer))
  <2> DEFINE t == NewFan(producer)
  <2>1. t.subs = {} /\ FeedOK(t, made) /\ fans' = Append(fans, t)
    BY <1>0, <1>2, FeedNew DEF NewFan
  <2> HIDE DEF t
  <2>2. /\ Len(fans') = Len(fans) + 1 /\ Len(fans) \in Nat
        /\ fans'[Len(fans) + 1] = t /\ \A g \in Fans : fans'[g] = fans[g]
    BY <1>0, <2>1, AddFan
  <2>3. \A g \in Fans' : g \in Fans \/ g = Len(fans) + 1
    BY <2>2 DEF Fans
  <2>4. ASSUME NEW g \in Fans'
        PROVE  FeedOK(fans'[g], made)
    BY <2>1, <2>2, <2>3 DEF Feeds
  <2>5. ASSUME NEW g \in Fans', NEW w \in fans'[g].subs
        PROVE  last[w] <= fans'[g].newest /\ Rising(queue[w], last[w], fans'[g].newest)
    <3>1. g \in Fans /\ fans'[g] = fans[g]
      BY <2>1, <2>2, <2>3, <2>5
    <3> QED   BY <2>5, <3>1 DEF Fed
  <2> QED   BY <1>0, <2>4, <2>5 DEF Feeds, Fed
<1> QED
  BY <1>1, <1>2 DEF GetFanout

LEMMA BackSubscribes ==
  ASSUME IInv, EdgeInv, Feeds, Fed, NEW v \in Viewers, Subscribe(v), Calm'
  PROVE  Feeds' /\ Fed'
<1> DEFINE f == ref[v]
           fan == fans[f]
           u == [fan EXCEPT !.subs = @ \cup {v}]
           t == Started(u)
<1>0. /\ pc[v] = "got" /\ fans' = [fans EXCEPT ![f] = t]
      /\ UNCHANGED <<queue, last, made>>
      /\ ~(~fan.reader /\ ~fan.closed /\ Alive(fan))
      /\ QueuesOK /\ SubscribersOK /\ made \in Nat
  BY DEF Subscribe, Set, EdgeInv, Feeds, Calm
<1>1. f \in Fans /\ DOMAIN fan = FanFields /\ Sequence(fans)
  BY <1>0 DEF IInv, FansOK, FanOK, ViewersOK
<1>2. FeedOK(fan, made)
  BY <1>1 DEF Feeds
<1>3. /\ DOMAIN u = FanFields /\ u.subs = fan.subs \cup {v} /\ u.newest = fan.newest
      /\ u.ring = fan.ring /\ u.threads = fan.threads /\ u.hands = fan.hands
      /\ u.closed = fan.closed /\ u.stop = fan.stop /\ u.reader = fan.reader
  BY <1>1 DEF FanFields
<1> HIDE DEF u
<1>4. FeedOK(u, made)
  <2>1. made <= made /\ made \in Nat
    BY <1>0
  <2> HIDE DEF fan
  <2> QED   BY <1>2, <1>3, <2>1, FeedSame
<1>5. u.reader \/ u.closed \/ ~Alive(u)
  BY <1>0, <1>3 DEF Alive
<1>6. made' \in Nat /\ made <= made' /\ FeedOK(t, made')
  <2>1. FeedOK(t, made)
    BY <1>0, <1>3, <1>4, <1>5, FeedStarts
  <2>2. made \in Nat /\ made' = made
    BY DEF Feeds, Subscribe
  <2> HIDE DEF t
  <2> QED   BY <2>1, <2>2
<1>7. t.subs = fan.subs \cup {v} /\ t.newest = fan.newest
  BY <1>3 DEF FanFields, Started
<1> HIDE DEF f, t
<1>8. Feeds'
  BY <1>0, <1>1, <1>6, OneFeed
<1>9. Fans' = Fans /\ \A g \in Fans : fans'[g] = IF g = f THEN t ELSE fans[g]
  BY <1>0, <1>1, SetFan DEF Fans
<1>10. queue[v] = <<>> /\ last[v] = 0 /\ fan.newest \in Nat
  BY <1>0, <1>2 DEF QueuesOK, FeedOK
<1>11. ASSUME NEW g \in Fans, NEW w \in fans'[g].subs
       PROVE  last[w] <= fans'[g].newest /\ Rising(queue[w], last[w], fans'[g].newest)
  <2>1. CASE g = f /\ w = v
    <3>1. fans'[g].newest = fan.newest /\ last[w] = 0 /\ queue[w] = <<>>
      BY <1>7, <1>9, <1>10, <2>1
    <3>2. Rising(<<>>, 0, fan.newest)
      BY RisingEmpty
    <3> QED   BY <1>10, <3>1, <3>2
  <2>2. CASE ~(g = f /\ w = v)
    <3>1. w \in fans[g].subs /\ fans'[g].newest = fans[g].newest
      BY <1>7, <1>9, <1>11, <2>2
    <3> QED   BY <3>1 DEF Fed
  <2> QED   BY <2>1, <2>2
<1>12. Fed'
  BY <1>0, <1>9, <1>11 DEF Fed
<1> QED
  BY <1>8, <1>12

LEMMA BackReceives ==
  ASSUME IInv, EdgeInv, Feeds, Fed, NEW v \in Viewers, Receive(v)
  PROVE  Feeds' /\ Fed' /\ last'[v] > last[v] /\ \A w \in Viewers : w # v => last'[w] = last[w]
<1> DEFINE q == queue[v]
           c == Head(q)
           l == last[v]
<1>0. /\ q # <<>> /\ c # EOF /\ UNCHANGED <<fans, made>> /\ made \in Nat
      /\ last' = [last EXCEPT ![v] = c] /\ queue' = [queue EXCEPT ![v] = Tail(q)]
      /\ DOMAIN last = Viewers /\ DOMAIN queue = Viewers
      /\ l \in Nat /\ Rising(q, l, made)
  BY DEF Receive, EdgeInv, QueuesOK, Fed, Feeds
<1>1. c \in Nat /\ l < c /\ Rising(Tail(q), c, made)
  BY <1>0, RisingTail
<1>2. ASSUME NEW f \in Fans, v \in fans[f].subs
      PROVE  c <= fans[f].newest /\ Rising(Tail(q), c, fans[f].newest)
  <2>1. Rising(q, l, fans[f].newest) /\ fans[f].newest \in Nat
    BY <1>2 DEF Fed, Feeds, FeedOK
  <2> QED   BY <1>0, <2>1, RisingTail
<1> HIDE DEF q, c
<1>3. \A w \in Viewers : /\ last'[w] = IF w = v THEN c ELSE last[w]
                         /\ queue'[w] = IF w = v THEN Tail(q) ELSE queue[w]
  BY <1>0
<1>4. Feeds' /\ Fans' = Fans
  BY <1>0 DEF Feeds, Fans
<1>5. ASSUME NEW f \in Fans, NEW w \in fans[f].subs
      PROVE  last'[w] <= fans[f].newest /\ Rising(queue'[w], last'[w], fans[f].newest)
  <2>1. w \in Viewers
    BY <1>5 DEF EdgeInv, SubscribersOK
  <2> QED   BY <1>2, <1>3, <1>5, <2>1 DEF Fed
<1>6. \A w \in Viewers : last'[w] \in Nat /\ Rising(queue'[w], last'[w], made)
  BY <1>1, <1>3 DEF Fed
<1>7. Fed'
  BY <1>0, <1>4, <1>5, <1>6 DEF Fed
<1> QED
  BY <1>0, <1>1, <1>3, <1>4, <1>7

LEMMA BackCleans ==
  ASSUME IInv, EdgeInv, Feeds, Fed, NEW v \in Viewers, Cleanup(v)
  PROVE  Feeds' /\ Fed' /\ \A w \in Viewers : last'[w] \in {0, last[w]}
<1> DEFINE f == ref[v]
           t == [fans[f] EXCEPT !.subs = @ \ {v}]
<1>0. /\ queue' = [queue EXCEPT ![v] = <<>>] /\ last' = [last EXCEPT ![v] = 0] /\ made' = made
      /\ fans' = IF f = 0 THEN fans ELSE [fans EXCEPT ![f] = t]
      /\ QueuesOK /\ SubscribersOK /\ Sequence(fans) /\ made \in Nat
      /\ f \in {0} \cup Fans
  BY DEF Cleanup, EdgeInv, IInv, FansOK, ViewersOK, Feeds
<1>1. \A w \in Viewers : /\ queue'[w] = IF w = v THEN <<>> ELSE queue[w]
                         /\ last'[w] = IF w = v THEN 0 ELSE last[w]
  BY <1>0 DEF QueuesOK
<1>2. /\ Feeds' /\ Fans' = Fans
      /\ \A g \in Fans : /\ fans'[g].newest = fans[g].newest
                         /\ fans'[g].subs = IF g = f THEN fans[g].subs \ {v} ELSE fans[g].subs
  <2>1. CASE f = 0
    BY <1>0, <2>1 DEF Fans, IInv, FansOK, Sequence, Feeds
  <2>2. CASE f # 0
    <3>1. f \in Fans /\ DOMAIN fans[f] = FanFields /\ FeedOK(fans[f], made)
      BY <1>0, <2>2 DEF IInv, FansOK, FanOK, Feeds
    <3>2. /\ t.subs = fans[f].subs \ {v} /\ t.newest = fans[f].newest /\ t.ring = fans[f].ring
          /\ t.threads = fans[f].threads /\ t.hands = fans[f].hands
          /\ t.closed = fans[f].closed /\ t.stop = fans[f].stop
      BY <3>1 DEF FanFields
    <3> HIDE DEF f, t
    <3>3. Len(fans') = Len(fans) /\ \A g \in Fans : fans'[g] = IF g = f THEN t ELSE fans[g]
      BY <1>0, <2>2, <3>1, SetFan
    <3>4. made' \in Nat /\ made <= made' /\ FeedOK(t, made')
      BY <1>0, <3>1, <3>2, FeedSame
    <3>5. fans' = [fans EXCEPT ![f] = t]
      BY <1>0, <2>2
    <3>6. Feeds'
      BY <3>1, <3>4, <3>5, OneFeed
    <3> QED   BY <3>2, <3>3, <3>6 DEF Fans
  <2> QED   BY <2>1, <2>2
<1>3. ASSUME NEW g \in Fans, NEW w \in fans'[g].subs
      PROVE  last'[w] <= fans'[g].newest /\ Rising(queue'[w], last'[w], fans'[g].newest)
  <2>1. w \in fans[g].subs /\ w \in Viewers /\ (g = f => w # v) /\ ref[w] = g
    <3>1. w \in fans[g].subs /\ (g = f => w # v)
      BY <1>2, <1>3
    <3> QED   BY <1>0, <3>1 DEF SubscribersOK
  <2>2. w # v
    BY <2>1
  <2> HIDE DEF f
  <2> QED   BY <1>1, <1>2, <2>1, <2>2 DEF Fed
<1>4. \A w \in Viewers : last'[w] \in Nat /\ Rising(queue'[w], last'[w], made)
  BY <1>1, RisingEmpty DEF Fed
<1> HIDE DEF f
<1>5. Fed'
  BY <1>0, <1>2, <1>3, <1>4 DEF Fed
<1> QED
  BY <1>1, <1>2, <1>5

LEMMA BackStopStream ==
  ASSUME IInv, EdgeInv, Feeds, Fed, StopStream
  PROVE  Feeds' /\ Fed'
<1>0. UNCHANGED <<queue, last, made>> /\ made \in Nat
  BY DEF StopStream, viewerVars, Feeds
<1>1. CASE registry = 0
  BY <1>0, <1>1, NoFeed DEF StopStream
<1>2. CASE registry # 0
  <2> DEFINE f == registry
             t == [fans[f] EXCEPT !.stopper = "called"]
  <2>1. f \in Fans /\ fans' = [fans EXCEPT ![f] = t]
    BY <1>2 DEF StopStream, IInv, ViewersOK
  <2>2. DOMAIN fans[f] = FanFields /\ FeedOK(fans[f], made)
    BY <2>1 DEF IInv, FansOK, FanOK, Feeds
  <2>3. /\ t.subs = fans[f].subs /\ t.newest = fans[f].newest /\ t.ring = fans[f].ring
        /\ t.threads = fans[f].threads /\ t.hands = fans[f].hands
        /\ t.closed = fans[f].closed /\ t.stop = fans[f].stop
    BY <2>2 DEF FanFields
  <2> HIDE DEF f, t
  <2>4. made' \in Nat /\ made <= made' /\ FeedOK(t, made')
    BY <1>0, <2>2, <2>3, FeedSame
  <2> QED   BY <1>0, <2>1, <2>3, <2>4, QuietFeed
<1> QED
  BY <1>1, <1>2

\* A step keeps the invariant, and every viewer's last chunk.
LEMMA BackStep ==
  ASSUME IInv, EdgeInv, Feeds, Fed, [Next]_vars, Calm'
  PROVE  /\ Feeds' /\ Fed'
         /\ \A v \in Viewers : last'[v] \notin {0, last[v]} => last'[v] > last[v]
<1>1. CASE AirDies \/ ProducerRecovers \/ LingerStops \/ PrewarmExpires \/ StopProducer
           \/ (\E v \in Viewers : TuneIn(v)) \/ UNCHANGED vars
  <2>1. UNCHANGED <<fans, queue, last, made>>
    BY <1>1 DEF AirDies, ProducerRecovers, LingerStops, PrewarmExpires, StopProducer, TuneIn,
                viewerVars, vars
  <2> QED   BY <2>1, NoFeed
<1>2. ASSUME NEW f \in Fans,
             \/ Reader(f) \/ ReaderCrashes(f) \/ Stopper(f)
             \/ \E n \in DOMAIN fans[f].threads : Fan(f, n)
      PROVE  Feeds' /\ Fed' /\ last' = last
  <2>1. CASE Reader(f) \/ ReaderCrashes(f) \/ StopBegins(f)
    <3>1. last' = last
      BY <2>1 DEF Reader, ReaderConnects, ReaderReads, ReaderEnds, ReaderCrashes, StopBegins,
                  viewerVars
    <3> QED   BY <2>1, <3>1, BackReader
  <2>2. CASE StopEnds(f)
    BY <2>2, BackStop DEF StopEnds
  <2>3. ASSUME NEW n \in DOMAIN fans[f].threads, Fan(f, n)
        PROVE  Feeds' /\ Fed' /\ last' = last
    <3>1. last' = last
      BY <2>3 DEF Fan, FanGets, FanPuts, FanEnds, viewerVars
    <3> QED   BY <2>3, <3>1, BackGets, BackPuts DEF Fan
  <2> QED   BY <1>2, <2>1, <2>2, <2>3 DEF Stopper
<1>3. ASSUME NEW v \in Viewers, GetFanout(v) \/ Subscribe(v)
      PROVE  Feeds' /\ Fed' /\ last' = last
  BY <1>3, BackGetFanout, BackSubscribes DEF GetFanout, Subscribe
<1>4. ASSUME NEW v \in Viewers, Receive(v)
      PROVE  /\ Feeds' /\ Fed'
             /\ \A w \in Viewers : last'[w] \notin {0, last[w]} => last'[w] > last[w]
  BY <1>4, BackReceives
<1>5. ASSUME NEW v \in Viewers, GivesUp(v) \/ ReceiveEnd(v) \/ TimesOut(v) \/ Disconnects(v)
      PROVE  Feeds' /\ Fed' /\ \A w \in Viewers : last'[w] \in {0, last[w]}
  BY <1>5, BackCleans DEF GivesUp, ReceiveEnd, TimesOut, Disconnects
<1>6. CASE StopStream
  <2>1. last' = last
    BY <1>6 DEF StopStream, viewerVars
  <2> QED   BY <1>6, <2>1, BackStopStream
<1> QED
  BY <1>1, <1>2, <1>3, <1>4, <1>5, <1>6 DEF Next, Viewer, TearDown

\* What went wrong is not forgotten.
LEMMA MishapsKept ==
  ASSUME [Next]_vars, "two feeders" \in mishaps
  PROVE  "two feeders" \in mishaps'
<1>1. CASE mishaps' = mishaps
  BY <1>1
<1>2. CASE mishaps' # mishaps
  BY <1>2 DEF Next, vars, AirDies, ProducerRecovers, Reader, ReaderConnects, ReaderReads,
              ReaderEnds, ReaderCrashes, Stopper, StopBegins, StopEnds, Fan, FanGets, FanPuts,
              FanEnds, TuneIn, Viewer, GetFanout, Subscribe, GivesUp, Receive, ReceiveEnd,
              TimesOut, Disconnects, Cleanup, LingerStops, PrewarmExpires, TearDown,
              StopProducer, StopStream
<1> QED
  BY <1>1, <1>2

LEMMA StepBack == IInv /\ EdgeInv /\ BackInv /\ [Next]_vars => BackInv'
BY BackStep, MishapsKept DEF BackInv, Calm

LEMMA BackInvariance == Spec => []BackInv
BY InitBack, StepBack, Invariance, EdgeInvariance, PTL DEF Spec

-----------------------------------------------------------------------------
(* What follows.                                                           *)

\* The stream that reads a live run is the one _get_or_create_fanout_buffer will
\* hand to the next viewer, so no viewer is ever left on a stream beside it; unless
\* _stop_channel_internal took the new stream from the registry for the old one.
THEOREM StreamRegistered == Spec => []LiveStreamRegistered
<1>1. IInv => LiveStreamRegistered
  BY DEF IInv, FansOK, FanOK, LiveStreamRegistered, Wrong
<1> QED
  BY <1>1, Invariance, PTL

\* BytesBoundedQueue drops the oldest chunks of a slow viewer and never the newest:
\* the chunk its stream gave out last is in the viewer's queue or was sent to it,
\* however the streams are stopped and started under it.
THEOREM SlowViewersStayLive == Spec => []LiveEdge
<1>1. EdgeInv => LiveEdge
  <2> SUFFICES ASSUME EdgeInv, NEW f \in Fans, NEW v \in fans[f].subs,
                      queue[v] # <<>> \/ last[v] # 0
               PROVE  fans[f].newest \in ToSet(queue[v]) \cup {last[v]}
    BY DEF LiveEdge
  <2>1. v \in Viewers /\ Edge(queue[v], last[v], fans[f].newest) /\ Sequence(queue[v])
    BY DEF EdgeInv, SubscribersOK, QueuesOK
  <2>2. CASE queue[v] = <<>>
    BY <2>1, <2>2 DEF Edge
  <2>3. CASE queue[v] # <<>>
    <3> DEFINE q == queue[v]
    <3>1. PICK S : q \in Seq(S)
      BY <2>1 DEF Sequence
    <3>2. q # <<>> /\ q[Len(q)] = fans[f].newest
      BY <2>1, <2>3 DEF Edge
    <3> HIDE DEF q
    <3>3. Len(q) \in DOMAIN q
      BY <3>1, <3>2
    <3>4. fans[f].newest \in ToSet(q)
      BY <3>2, <3>3 DEF ToSet
    <3> QED   BY <3>4 DEF q
  <2> QED   BY <2>2, <2>3
<1> QED
  BY <1>1, EdgeInvariance, PTL

\* A viewer that is slow, dropped chunks or whose stream was stopped and started again
\* under it never sees the channel go back: TsRingBuffer, the fan-out thread and
\* BytesBoundedQueue keep the order of what the socket gave, and a ring that was closed
\* gives nothing more; unless start() made a second fan-out thread for a stream whose
\* reader had died with its ring open.
THEOREM NeverBack == Spec => NeverBackward
<1> DEFINE A == \A v \in Viewers : last'[v] \notin {0, last[v]} =>
                   last'[v] > last[v] \/ "two feeders" \in mishaps
<1>1. IInv /\ EdgeInv /\ BackInv /\ [Next]_vars => [A]_vars
  <2> SUFFICES ASSUME IInv, EdgeInv, BackInv, [Next]_vars  PROVE A
    OBVIOUS
  <2>1. CASE "two feeders" \in mishaps
    BY <2>1
  <2>2. CASE "two feeders" \notin mishaps' /\ "two feeders" \notin mishaps
    BY <2>2, BackStep DEF BackInv, Calm
  <2>3. CASE "two feeders" \in mishaps' /\ "two feeders" \notin mishaps
    <3>1. last' = last
      BY <2>3 DEF Next, vars, AirDies, ProducerRecovers, Reader, ReaderConnects, ReaderReads,
              ReaderEnds, ReaderCrashes, Stopper, StopBegins, StopEnds, Fan, FanGets, FanPuts,
              FanEnds, TuneIn, Viewer, GetFanout, Subscribe, GivesUp, Receive, ReceiveEnd,
              TimesOut, Disconnects, Cleanup, LingerStops, PrewarmExpires, TearDown,
              StopProducer, StopStream, viewerVars
    <3> QED   BY <3>1
  <2> QED   BY <2>1, <2>2, <2>3
<1> QED
  BY <1>1, Invariance, EdgeInvariance, BackInvariance, PTL DEF Spec, NeverBackward
=============================================================================
