----------------------- MODULE ExecutionHorizonProofs -----------------------
(***************************************************************************)
(* What a reader of the execution window store is promised, for any length *)
(* of day, locked window, watermark and number of failures and publishes:  *)
(* the locked window changes only by an override, and the generation it    *)
(* sees at a block never goes back.                                        *)
(***************************************************************************)
EXTENDS ExecutionHorizon, FiniteSetTheorems, TLAPS

(***************************************************************************)
(* The inductive invariant: what the store holds is not newer than the     *)
(* highest generation it has accepted, and a block has at most one entry   *)
(* of the plan and one of the operator.                                    *)
(***************************************************************************)

Steps == {"idle", "epg", "execution", "ready", "fill", "seams", "proactive"}

Numbers ==
  /\ now \in Nat /\ locked \in Nat /\ maxGen \in Nat /\ nextGen \in Nat /\ records \in Nat
  /\ windowEnd \in Int /\ eval \in [pc : Steps, at : Int, ok : BOOLEAN]

NotNewer(es, gen) ==
  \A e \in es : /\ e.by \in {"plan", "operator"} /\ e.block \in Int
                /\ e.gen \in Nat /\ e.gen <= gen

OnePerBlock(es) == \A e, f \in es : e.block = f.block /\ e.by = f.by => e = f

IInv == Numbers /\ NotNewer(entries, maxGen) /\ OnePerBlock(entries)

-----------------------------------------------------------------------------
(* What the store's two operations do to what a reader finds.              *)

\* An interval of integers.
LEMMA Interval ==
  ASSUME NEW a \in Int, NEW b \in Int, NEW i
  PROVE  i \in a..b <=> i \in Int /\ a <= i /\ i <= b
OBVIOUS

\* The blocks of a day lie between its start and its end.
LEMMA BlocksOfDay ==
  ASSUME NEW d, NEW b \in BlocksOf(d)
  PROVE  b \in Int /\ b \in (d * DayBlocks)..(DayEnd(d) - 1)
<1>1. DayBlocks \in Nat \ {0} /\ b \in Blocks /\ DayOf(b) = d
  BY HorizonAssumption DEF BlocksOf
<1>2. b \in Nat
  BY <1>1 DEF Blocks
<1>3. d \in Nat
  BY <1>1, <1>2 DEF DayOf
<1>4. d * DayBlocks <= b /\ b < (d + 1) * DayBlocks
  BY <1>1, <1>2, <1>3 DEF DayOf
<1>5. d * DayBlocks \in Int /\ (d + 1) * DayBlocks \in Int
  BY <1>1, <1>3
<1> QED
  BY <1>2, <1>4, <1>5 DEF DayEnd

LEMMA PlannedAre ==
  ASSUME NEW d, NEW gen, NEW e \in Planned(d, gen)
  PROVE  /\ e.by = "plan" /\ e.gen = gen
         /\ e.block \in BlocksOf(d) /\ e.block \in Int
<1>1. PICK b \in BlocksOf(d) :
        e = [block |-> b, by |-> "plan", gen |-> gen, override |-> FALSE]
  BY DEF Planned
<1>2. b \in Int
  BY BlocksOfDay
<1> QED
  BY <1>1, <1>2

LEMMA PlannedOnce ==
  ASSUME NEW d, NEW gen
  PROVE  OnePerBlock(Planned(d, gen))
<1> SUFFICES ASSUME NEW e \in Planned(d, gen), NEW f \in Planned(d, gen), e.block = f.block
             PROVE  e = f
  BY DEF OnePerBlock
<1>1. PICK b \in BlocksOf(d) :
        e = [block |-> b, by |-> "plan", gen |-> gen, override |-> FALSE]
  BY DEF Planned
<1>2. PICK c \in BlocksOf(d) :
        f = [block |-> c, by |-> "plan", gen |-> gen, override |-> FALSE]
  BY DEF Planned
<1> QED
  BY <1>1, <1>2

LEMMA NextDayIs ==
  ASSUME Numbers
  PROVE  NextDay \in Int
<1>1. ASSUME NEW n \in Int  PROVE n \div DayBlocks \in Int
  BY HorizonAssumption
<1>2. windowEnd \in Int /\ eval.at \in Int
  BY DEF Numbers
<1> QED
  BY <1>1, <1>2 DEF NextDay, DayOf

\* What there is for a block, and what of it is the operator's.
Here(es, b) == {e \in es : e.block = b}
Mine(es, b) == {e \in es : e.block = b /\ e.by = "operator"}

LEMMA Finds ==
  ASSUME NEW es, NEW b
  PROVE  EntryAt(es, b) = IF Mine(es, b) # {} THEN Mine(es, b) ELSE Here(es, b)
<1> DEFINE m == {e \in Here(es, b) : e.by = "operator"}
<1>1. m = Mine(es, b)
  BY DEF Here, Mine
<1>2. EntryAt(es, b) = IF m # {} THEN m ELSE Here(es, b)
  BY DEF EntryAt, Here
<1> HIDE DEF m
<1> QED
  BY <1>1, <1>2

\* AddEntries leaves what a reader finds.
LEMMA AddKeeps ==
  ASSUME NotNewer(entries, maxGen), NEW d, AddEntries(Planned(d, 0)), NEW b,
         EntryAt(entries, b) # {}
  PROVE  EntryAt(entries', b) = EntryAt(entries, b)
<1> DEFINE gen == 0
<1>1. ASSUME NEW e \in Planned(d, gen)  PROVE e.by = "plan"
  <2> HIDE DEF gen
  <2> QED   BY PlannedAre
<1>2. Mine(entries', b) = Mine(entries, b)
  BY <1>1 DEF AddEntries, Mine
<1>3. CASE Mine(entries, b) # {}
  BY <1>2, <1>3, Finds
<1>4. CASE Mine(entries, b) = {}
  <2>1. PICK e \in entries : e.block = b /\ e.by = "plan"
    <3>1. Here(entries, b) # {}
      BY <1>4, Finds
    <3> QED   BY <3>1, <1>4 DEF NotNewer, Here, Mine
  <2>2. Here(entries', b) = Here(entries, b)
    BY <2>1 DEF AddEntries, Here
  <2> QED   BY <1>2, <1>4, <2>2, Finds
<1> QED
  BY <1>3, <1>4

\* A replacement leaves what is outside its range, and inside it is all new.
LEMMA ReplaceKeeps ==
  ASSUME NEW from, NEW to, NEW new, NEW b,
         \A e \in new : e.block \in from..(to - 1),
         b \notin from..(to - 1)
  PROVE  EntryAt(Replaced(from, to, new), b) = EntryAt(entries, b)
<1>1. {e \in Replaced(from, to, new) : e.block = b} = {e \in entries : e.block = b}
  BY DEF Replaced
<1> QED
  BY <1>1 DEF EntryAt

LEMMA ReplaceRenews ==
  ASSUME NEW from, NEW to, NEW new, NEW b, b \in from..(to - 1),
         NEW f \in EntryAt(Replaced(from, to, new), b)
  PROVE  f \in new
BY DEF Replaced, EntryAt

-----------------------------------------------------------------------------
(* What a step does to the store.                                          *)

Adds == maxGen' = maxGen /\ \E d : AddEntries(Planned(d, 0))

Replaces ==
  /\ maxGen' \in Nat /\ maxGen' > maxGen
  /\ \E from, to, new :
       /\ from \in Int /\ to \in Int
       /\ entries' = Replaced(from, to, new)
       /\ \A e \in new : e.block \in from..(to - 1) /\ e.gen = maxGen' /\ e.by \in {"plan", "operator"}
       /\ OnePerBlock(new)
       /\ ~LockedOut(from, to) \/ records' > records

\* A publish of the operator.
Published(from, to, gen, override, given) ==
  LET refused == LockedOut(from, to) /\ ~override
      new == {[block |-> b, by |-> "operator", gen |-> gen,
               override |-> override] : b \in given}
  IN
  /\ publishes < MaxPublishes
  /\ given \subseteq from..(to - 1)
  /\ to - 1 \in now..(now + MinDepth)
  /\ publishes' = publishes + 1
  /\ records' = IF override THEN records + 1 ELSE records
  /\ IF refused \/ Stale(gen)
     THEN UNCHANGED <<entries, maxGen, removed>>
     ELSE /\ entries' = Replaced(from, to, new)
          /\ maxGen' = gen
          /\ removed' = (removed \ given) \union (from..(to - 1) \ given)
  /\ UNCHANGED <<now, config, epgEnd, windowEnd, nextGen, eval, nextOk, seamsOk,
                 failures>>

LEMMA StoreStep ==
  ASSUME IInv, [Next]_vars
  PROVE  (UNCHANGED <<entries, maxGen>>) \/ Adds \/ Replaces
<1>1. CASE Publishes
  <2>1. PICK from \in Blocks, gen \in 1..MaxGeneration, override \in BOOLEAN :
        \E to \in {from + 1, from + 2}, given \in SUBSET {from, from + 1} :
          Published(from, to, gen, override, given)
    BY <1>1 DEF Publishes, Published
  <2>2. PICK to \in {from + 1, from + 2}, given \in SUBSET {from, from + 1} :
          Published(from, to, gen, override, given)
    BY <2>1
  <2> DEFINE new == {[block |-> b, by |-> "operator", gen |-> gen,
                      override |-> override] : b \in given}
  <2>3. CASE (LockedOut(from, to) /\ ~override) \/ Stale(gen)
    BY <2>2, <2>3 DEF Published
  <2>4. CASE ~((LockedOut(from, to) /\ ~override) \/ Stale(gen))
    <3>1. entries' = Replaced(from, to, new) /\ maxGen' = gen /\ given \subseteq from..(to - 1)
          /\ (~LockedOut(from, to) \/ records' = records + 1)
      BY <2>2, <2>4 DEF Published
    <3>2. from \in Int /\ to \in Int
      BY DEF Blocks
    <3>3. gen \in Nat /\ gen > maxGen /\ records + 1 > records
      BY <2>4, HorizonAssumption DEF Stale, IInv, Numbers
    <3>4. \A e \in new : e.block \in from..(to - 1) /\ e.gen = maxGen' /\ e.by \in {"plan", "operator"}
      BY <3>1
    <3>5. OnePerBlock(new)
      BY DEF OnePerBlock
    <3> HIDE DEF new
    <3> QED   BY <3>1, <3>2, <3>3, <3>4, <3>5 DEF Replaces
  <2> QED   BY <2>3, <2>4
<1>2. CASE ExtendsExecution
  BY <1>2 DEF ExtendsExecution, Adds
<1>3. CASE FillsNext
  BY <1>3 DEF FillsNext, Adds
<1>4. CASE ExtendsAhead
  <2> DEFINE d    == NextDay
             from == d * DayBlocks
             to   == DayEnd(d)
             gen  == nextGen + 1
             new  == Planned(d, gen)
  <2>1. \/ UNCHANGED <<entries, maxGen>>
        \/ /\ ~LockedOut(from, to) /\ ~Stale(gen)
           /\ entries' = Replaced(from, to, new) /\ maxGen' = gen
    BY <1>4 DEF ExtendsAhead
  <2>2. gen \in Nat /\ (~Stale(gen) => gen > maxGen)
    BY DEF IInv, Numbers, Stale
  <2> HIDE DEF gen, d
  <2>3. ASSUME NEW e \in new
        PROVE  e.block \in from..(to - 1) /\ e.gen = gen /\ e.by \in {"plan", "operator"}
    <3>1. e.by = "plan" /\ e.gen = gen /\ e.block \in BlocksOf(d)
      BY PlannedAre
    <3>2. e.block \in from..(to - 1)
      BY <3>1, BlocksOfDay
    <3> QED   BY <3>1, <3>2
  <2>4. OnePerBlock(new)
    BY PlannedOnce
  <2>6. from \in Int /\ to \in Int
    BY NextDayIs, HorizonAssumption DEF IInv, DayEnd, d
  <2> QED   BY <2>1, <2>2, <2>3, <2>4, <2>6 DEF Replaces
<1>5. CASE UNCHANGED <<entries, maxGen>>
  BY <1>5
<1>6. Publishes \/ ExtendsExecution \/ FillsNext \/ ExtendsAhead \/ UNCHANGED <<entries, maxGen>>
  BY DEF Next, Manager, Tick, Starts, ExtendsEpg, ChecksNext, ChecksSeams, vars, store
<1> QED
  BY <1>1, <1>2, <1>3, <1>4, <1>5, <1>6

-----------------------------------------------------------------------------
(* The invariant.                                                          *)

LEMMA InitIInv == Init => IInv
<1> SUFFICES ASSUME Init  PROVE IInv
  OBVIOUS
<1>1. Numbers
  BY HorizonAssumption DEF Init, Numbers, Steps
<1> QED
  BY <1>1 DEF Init, IInv, NotNewer, OnePerBlock

LEMMA NumbersStep ==
  ASSUME IInv, [Next]_vars
  PROVE  Numbers'
<1>1. maxGen' \in Nat
  BY StoreStep DEF IInv, Numbers, Adds, Replaces
<1>2. \A n \in Int : DayOf(n) \in Int /\ DayEnd(n) \in Int
  BY HorizonAssumption DEF DayOf, DayEnd
<1>3. now' \in Nat /\ locked' \in Nat /\ nextGen' \in Nat /\ records' \in Nat
  <2> USE DEF IInv, Numbers, config, store
  <2>1. CASE Publishes
    BY <2>1 DEF Publishes
  <2>2. CASE Tick
    BY <2>2 DEF Tick
  <2>3. CASE ExtendsAhead
    BY <2>3 DEF ExtendsAhead
  <2>4. CASE UNCHANGED <<now, locked, nextGen, records>>
    BY <2>4
  <2> QED
    BY <2>1, <2>2, <2>3, <2>4
       DEF Next, Manager, Starts, ExtendsEpg, ExtendsExecution, ChecksNext, FillsNext, ChecksSeams,
           vars
<1>4. windowEnd' \in Int
  <2>1. windowEnd \in Int /\ eval.at \in Int /\ NextDay \in Int
    BY NextDayIs DEF IInv, Numbers
  <2>2. windowEnd' = windowEnd \/ \E d \in Int : Grows(DayEnd(d))
    <3>1. DayOf(eval.at) \in Int
      BY <1>2, <2>1
    <3>2. CASE ExtendsExecution
      BY <2>1, <3>2 DEF ExtendsExecution
    <3>3. CASE FillsNext
      BY <3>1, <3>3 DEF FillsNext
    <3>4. CASE ExtendsAhead
      BY <2>1, <3>4 DEF ExtendsAhead
    <3>5. CASE UNCHANGED windowEnd
      BY <3>5
    <3>6. Publishes => UNCHANGED windowEnd
      BY DEF Publishes
    <3>7. Tick \/ Starts \/ ExtendsEpg \/ ChecksNext \/ ChecksSeams => UNCHANGED windowEnd
      BY DEF Tick, Starts, ExtendsEpg, ChecksNext, ChecksSeams
    <3> QED
      BY <3>2, <3>3, <3>4, <3>5, <3>6, <3>7 DEF Next, Manager, vars
  <2> QED   BY <1>2, <2>1, <2>2 DEF Grows
<1>5. eval' \in [pc : Steps, at : Int, ok : BOOLEAN]
  <2> USE DEF IInv, Numbers, Goto, Failed, Steps
  <2>1. CASE Starts
    BY <2>1 DEF Starts
  <2>2. CASE Tick \/ UNCHANGED vars
    BY <2>2 DEF Tick, vars
  <2>7. CASE Publishes
    <3>1. eval' = eval
      BY <2>7 DEF Publishes
    <3> QED   BY <3>1
  <2>3. CASE ExtendsEpg
    BY <2>3 DEF ExtendsEpg
  <2>6. CASE ExtendsExecution
    BY <2>6 DEF ExtendsExecution
  <2>4. CASE ChecksNext \/ FillsNext \/ ChecksSeams
    BY <2>4 DEF ChecksNext, FillsNext, ChecksSeams
  <2>5. CASE ExtendsAhead
    BY <2>5 DEF ExtendsAhead
  <2> QED   BY <2>1, <2>2, <2>3, <2>4, <2>5, <2>6, <2>7 DEF Next, Manager
<1> QED
  BY <1>1, <1>3, <1>4, <1>5 DEF Numbers

LEMMA StepIInv == IInv /\ [Next]_vars => IInv'
<1> SUFFICES ASSUME IInv, [Next]_vars  PROVE IInv'
  OBVIOUS
<1>0. NotNewer(entries, maxGen) /\ OnePerBlock(entries) /\ maxGen \in Nat
  BY DEF IInv, Numbers
<1>1. CASE UNCHANGED <<entries, maxGen>>
  BY <1>1, NumbersStep DEF IInv
<1>2. CASE Adds
  <2>1. PICK d : AddEntries(Planned(d, 0))
    BY <1>2 DEF Adds
  <2>2. \A e \in entries' : e \in entries \/
          (e \in Planned(d, 0) /\ \A o \in entries : o.by = "plan" => o.block # e.block)
    BY <2>1 DEF AddEntries
  <2>3. \A e \in Planned(d, 0) : e.by = "plan" /\ e.gen = 0 /\ e.block \in Int
    <3> DEFINE gen == 0
    <3>1. ASSUME NEW e \in Planned(d, gen)  PROVE e.by = "plan" /\ e.gen = gen /\ e.block \in Int
      <4> HIDE DEF gen
      <4> QED   BY PlannedAre
    <3> QED   BY <3>1
  <2>4. NotNewer(entries', maxGen)
    BY <1>0, <2>2, <2>3 DEF NotNewer
  <2>5. OnePerBlock(Planned(d, 0))
    BY PlannedOnce
  <2>6. OnePerBlock(entries')
    BY <1>0, <2>2, <2>3, <2>5 DEF OnePerBlock
  <2> QED   BY <1>2, <2>4, <2>6, NumbersStep DEF IInv, Adds
<1>3. CASE Replaces
  <2>1. PICK from, to, new :
          /\ from \in Int /\ to \in Int
          /\ entries' = Replaced(from, to, new)
          /\ \A e \in new : e.block \in from..(to - 1) /\ e.gen = maxGen'
                            /\ e.by \in {"plan", "operator"}
          /\ OnePerBlock(new)
    BY <1>3 DEF Replaces
  <2>2. maxGen' \in Nat /\ maxGen' > maxGen
    BY <1>3 DEF Replaces
  <2>3. \A e \in entries' : (e \in entries /\ e.block \notin from..(to - 1)) \/ e \in new
    BY <2>1 DEF Replaced
  <2>4. NotNewer(entries', maxGen')
    BY <1>0, <2>1, <2>2, <2>3 DEF NotNewer
  <2>5. OnePerBlock(entries')
    BY <1>0, <2>1, <2>3 DEF OnePerBlock
  <2> QED   BY <2>4, <2>5, NumbersStep DEF IInv
<1> QED
  BY <1>1, <1>2, <1>3, StoreStep

LEMMA Invariance == Spec => []IInv
BY InitIInv, StepIInv, PTL DEF Spec

-----------------------------------------------------------------------------
(* What a step may not do.                                                 *)

LockedStandsStep ==
  \A b \in Blocks :
    b \in now..(now + locked - 1) /\ EntryAt(entries, b) # {} =>
      \/ EntryAt(entries', b) = EntryAt(entries, b)
      \/ records' > records

GenerationsAdvanceStep ==
  \A b \in Blocks :
    \A e \in EntryAt(entries, b), f \in EntryAt(entries', b) :
      e.gen <= f.gen

\* A block inside the locked window is outside a range the lock lets through.
LEMMA LockKeepsOut ==
  ASSUME Numbers, NEW from \in Int, NEW to \in Int, ~LockedOut(from, to),
         NEW b \in now..(now + locked - 1)
  PROVE  b \notin from..(to - 1)
BY DEF LockedOut, Numbers

LEMMA LockedStandsNext == IInv /\ [Next]_vars => LockedStandsStep
<1> SUFFICES ASSUME IInv, [Next]_vars,
                    NEW b \in Blocks, b \in now..(now + locked - 1), EntryAt(entries, b) # {}
             PROVE  EntryAt(entries', b) = EntryAt(entries, b) \/ records' > records
  BY DEF LockedStandsStep
<1>1. CASE UNCHANGED <<entries, maxGen>>
  BY <1>1
<1>2. CASE Adds
  BY <1>2, AddKeeps DEF Adds, IInv
<1>3. CASE Replaces
  <2>1. PICK from, to, new :
          /\ from \in Int /\ to \in Int
          /\ entries' = Replaced(from, to, new)
          /\ \A e \in new : e.block \in from..(to - 1)
          /\ ~LockedOut(from, to) \/ records' > records
    BY <1>3 DEF Replaces
  <2>2. CASE ~LockedOut(from, to)
    <3>1. b \notin from..(to - 1)
      BY <2>1, <2>2, LockKeepsOut DEF IInv
    <3> QED   BY <2>1, <3>1, ReplaceKeeps
  <2> QED   BY <2>1, <2>2
<1> QED
  BY <1>1, <1>2, <1>3, StoreStep

\* A block has at most one entry that a reader finds.
LEMMA FindsOne ==
  ASSUME NotNewer(entries, maxGen), OnePerBlock(entries), NEW b,
         NEW e \in EntryAt(entries, b), NEW f \in EntryAt(entries, b)
  PROVE  e = f
<1>1. CASE Mine(entries, b) # {}
  <2>1. e \in Mine(entries, b) /\ f \in Mine(entries, b)
    BY <1>1, Finds
  <2> QED   BY <2>1 DEF Mine, OnePerBlock
<1>2. CASE Mine(entries, b) = {}
  <2>1. e \in Here(entries, b) /\ f \in Here(entries, b)
    BY <1>2, Finds
  <2> QED   BY <1>2, <2>1 DEF Here, Mine, OnePerBlock, NotNewer
<1> QED
  BY <1>1, <1>2

LEMMA GenerationsAdvanceNext == IInv /\ [Next]_vars => GenerationsAdvanceStep
<1> SUFFICES ASSUME IInv, [Next]_vars,
                    NEW b \in Blocks, NEW e \in EntryAt(entries, b), NEW f \in EntryAt(entries', b)
             PROVE  e.gen <= f.gen
  BY DEF GenerationsAdvanceStep
<1>0. NotNewer(entries, maxGen) /\ OnePerBlock(entries) /\ maxGen \in Nat
  BY DEF IInv, Numbers
<1>1. e \in entries
  BY DEF EntryAt
<1>2. e.gen \in Nat /\ e.gen <= maxGen
  BY <1>0, <1>1 DEF NotNewer
<1>3. CASE EntryAt(entries', b) = EntryAt(entries, b)
  <2>1. e = f
    BY <1>0, <1>3, FindsOne
  <2> QED   BY <1>2, <2>1
<1>4. CASE UNCHANGED <<entries, maxGen>>
  BY <1>3, <1>4
<1>5. CASE Adds
  <2>1. EntryAt(entries', b) = EntryAt(entries, b)
    BY <1>0, <1>5, AddKeeps DEF Adds
  <2> QED   BY <1>3, <2>1
<1>6. CASE Replaces
  <2>1. PICK from, to, new :
          /\ from \in Int /\ to \in Int
          /\ entries' = Replaced(from, to, new)
          /\ \A n \in new : n.block \in from..(to - 1) /\ n.gen = maxGen'
    BY <1>6 DEF Replaces
  <2>2. CASE b \notin from..(to - 1)
    <3>1. EntryAt(entries', b) = EntryAt(entries, b)
      BY <2>1, <2>2, ReplaceKeeps
    <3> QED   BY <1>3, <3>1
  <2>3. CASE b \in from..(to - 1)
    <3>1. f \in new
      BY <2>1, <2>3, ReplaceRenews
    <3>2. f.gen = maxGen' /\ maxGen' \in Nat /\ maxGen' > maxGen
      BY <1>6, <2>1, <3>1 DEF Replaces
    <3> QED   BY <1>0, <1>2, <3>2
  <2> QED   BY <2>2, <2>3
<1> QED
  BY <1>4, <1>5, <1>6, StoreStep

\* INV-HORIZON-LOCKED-IMMUTABLE-001: whatever the manager's thread and operators
\* do, ExecutionWindowStore changes what a reader finds inside the locked window
\* only with an override record.
THEOREM LockHolds == Spec => LockedStands
<1>1. IInv /\ [Next]_vars => [LockedStandsStep]_vars
  BY LockedStandsNext
<1> QED
  BY <1>1, Invariance, PTL DEF Spec, LockedStands, LockedStandsStep

\* INV-HORIZON-ATOMIC-PUBLISH-001: the generation a reader finds at a block never
\* goes back, although the manager's planning, its proactive publishes and the
\* operator's number their generations without knowing of one another.
THEOREM GenerationsGrow == Spec => GenerationsAdvance
<1>1. IInv /\ [Next]_vars => [GenerationsAdvanceStep]_vars
  BY GenerationsAdvanceNext
<1> QED
  BY <1>1, Invariance, PTL DEF Spec, GenerationsAdvance, GenerationsAdvanceStep

-----------------------------------------------------------------------------
(***************************************************************************)
(* The window.  windowEnd is the end of a day; from the clock to there     *)
(* every block is covered or was taken out by an operator.  An evaluation  *)
(* in which nothing has failed is MinDepth deep once it is past the        *)
(* execution window.  The window's lag behind the clock is paid for, a     *)
(* failed evaluation for each block: so, while less than a day has failed  *)
(* and no operator has acted, the fill of the block on air cannot jump     *)
(* over a day, and the store is one run of days that ends at windowEnd.    *)
(***************************************************************************)

Clock ==
  /\ now \in 0..LastBlock /\ eval.at \in -1..now
  /\ eval.pc # "idle" => eval.at = now

Counts == failures \in Nat /\ publishes \in Nat

Aligned == \E k \in Nat : windowEnd = k * DayBlocks

Filled ==
  \A b \in Blocks : now <= b /\ b < windowEnd => b \in Covered(entries) \/ b \in removed

Deep ==
  eval.ok /\ eval.pc \notin {"epg", "execution"} /\ eval.at >= 0 =>
    windowEnd >= eval.at + MinDepth

Untouched ==
  publishes = 0 => /\ removed = {}
                   /\ \A e \in entries : e.by = "plan" /\ e.block \in Blocks

Excused ==
  /\ ~nextOk => publishes > 0 \/ failures > 0
  /\ ~seamsOk => publishes > 0 \/ failures > DayBlocks
  /\ ~eval.ok /\ eval.pc # "idle" => failures > 0

Lag ==
  windowEnd > 0 => /\ now - windowEnd <= failures
                   /\ eval.at = now /\ ~eval.ok => now - windowEnd < failures

\* The store is the days from k on.
From(k, es, end) ==
  \A b \in Blocks : b \in Covered(es) <=> k * DayBlocks <= b /\ b < end

OneRun ==
  publishes = 0 /\ failures <= DayBlocks =>
    \E k \in Nat : /\ k * DayBlocks <= now
                   /\ windowEnd > 0 => k * DayBlocks <= windowEnd
                   /\ From(k, entries, windowEnd)

WindowInv ==
  /\ Clock /\ Counts /\ Aligned /\ Filled /\ Deep
  /\ Untouched /\ Excused /\ Lag /\ OneRun

\* Blocks is an interval from 0 on that reaches MinDepth beyond the last clock.
LEMMA Reaches ==
  \E top \in Nat : Blocks = 0..top /\ LastBlock + MinDepth <= top
<1> DEFINE last == DayOf(LastBlock + MinDepth) + MinEpgDays + 1
           n    == LastBlock + MinDepth
<1>1. DayBlocks \in Nat \ {0} /\ n \in Nat /\ LastBlock \in Nat /\ MinDepth \in Nat
      /\ MinEpgDays \in Nat
  BY HorizonAssumption
<1>2. DayOf(n) \in Nat /\ n < (DayOf(n) + 1) * DayBlocks
  <2> HIDE DEF n
  <2> QED   BY <1>1 DEF DayOf
<1>3. last \in Nat /\ Cardinality(Days) = last + 1
  <2>1. last \in Nat /\ Days = 0..last
    BY <1>1, <1>2 DEF Days
  <2> HIDE DEF last
  <2>2. Cardinality(0..last) = last + 1
    BY <2>1, FS_Interval
  <2> QED   BY <2>1, <2>2
<1>4. DayOf(n) + 1 <= last + 1
  BY <1>1, <1>2
<1>5. \A a, c \in Nat : a <= c => a * DayBlocks <= c * DayBlocks
  BY <1>1
<1>6. (DayOf(n) + 1) * DayBlocks <= (last + 1) * DayBlocks
  <2> DEFINE a == DayOf(n) + 1
             c == last + 1
  <2>1. a \in Nat /\ c \in Nat /\ a <= c
    BY <1>2, <1>3, <1>4
  <2> HIDE DEF a, c
  <2>2. a * DayBlocks <= c * DayBlocks
    BY <1>5, <2>1
  <2> QED   BY <2>2 DEF a, c
<1> DEFINE top == (last + 1) * DayBlocks - 1
<1>7. Blocks = 0..top
  BY <1>3 DEF Blocks
<1>8. (last + 1) * DayBlocks \in Nat /\ (DayOf(n) + 1) * DayBlocks \in Nat
  <2> HIDE DEF last, n
  <2> QED   BY <1>1, <1>2, <1>3
<1> HIDE DEF last
<1>9. top \in Nat /\ n <= top
  <2> HIDE DEF n
  <2> QED   BY <1>1, <1>2, <1>6, <1>8
<1> HIDE DEF top
<1> QED
  BY <1>7, <1>9

\* It holds the clock.
LEMMA BlocksAre ==
  /\ \E top \in Nat : Blocks = 0..top
  /\ 0..LastBlock \subseteq Blocks
BY Reaches, HorizonAssumption

\* A block is of the day it lies in.
LEMMA DayBounds ==
  ASSUME NEW d \in Int, NEW b \in Blocks
  PROVE  b \in BlocksOf(d) <=> d * DayBlocks <= b /\ b < DayEnd(d)
<1>1. DayBlocks \in Nat \ {0} /\ b \in Nat
  BY HorizonAssumption, BlocksAre
<1>2. ASSUME b \in BlocksOf(d)
      PROVE  d * DayBlocks <= b /\ b < DayEnd(d)
  <2>1. b \in (d * DayBlocks)..(DayEnd(d) - 1)
    BY <1>2, BlocksOfDay
  <2>2. d * DayBlocks \in Int /\ DayEnd(d) \in Int
    BY <1>1 DEF DayEnd
  <2> QED   BY <1>1, <2>1, <2>2
<1>3. ASSUME d * DayBlocks <= b, b < DayEnd(d)
      PROVE  b \in BlocksOf(d)
  <2> DEFINE q == DayOf(b)
  <2>1. q \in Nat /\ q * DayBlocks <= b /\ b < (q + 1) * DayBlocks
    BY <1>1 DEF DayOf
  <2> HIDE DEF q
  <2>2. \A x, y \in Int : x < y => (x + 1) * DayBlocks <= y * DayBlocks
    BY <1>1
  <2>3. \A x \in Int : x * DayBlocks \in Int /\ (x + 1) * DayBlocks \in Int
    BY <1>1
  <2>4. ~(q < d) /\ ~(d < q)
    BY <1>1, <1>3, <2>1, <2>2, <2>3 DEF DayEnd
  <2>5. q = d
    BY <2>1, <2>4
  <2> QED   BY <2>5 DEF BlocksOf, q
<1> QED
  BY <1>2, <1>3

\* The day that is planned: it starts where the window ends, and before there
\* is one at the start of the day the evaluation is in.
LEMMA NextDayStarts ==
  ASSUME Clock, Aligned, eval.pc # "idle"
  PROVE  /\ NextDay \in Nat /\ NextDay * DayBlocks \in Nat /\ DayEnd(NextDay) = NextDay * DayBlocks + DayBlocks
         /\ windowEnd # 0 => NextDay * DayBlocks = windowEnd
         /\ windowEnd = 0 => NextDay = DayOf(now)
<1>1. DayBlocks \in Nat \ {0} /\ LastBlock \in Nat
  BY HorizonAssumption
<1>2. PICK k \in Nat : windowEnd = k * DayBlocks
  BY DEF Aligned
<1>3. eval.at = now /\ now \in Nat
  BY <1>1 DEF Clock
<1>4. \A n \in Nat : n \div DayBlocks \in Nat
  BY <1>1
<1>5. (k * DayBlocks) \div DayBlocks = k
  BY <1>1
<1>6. \A d \in Nat : d * DayBlocks \in Nat /\ DayEnd(d) = d * DayBlocks + DayBlocks
  BY <1>1 DEF DayEnd
<1>7. CASE windowEnd = 0
  <2>1. NextDay = DayOf(now)
    BY <1>3, <1>7 DEF NextDay
  <2>2. DayOf(now) \in Nat
    BY <1>3, <1>4 DEF DayOf
  <2> QED   BY <1>6, <1>7, <2>1, <2>2
<1>8. CASE windowEnd # 0
  <2>1. NextDay = k
    BY <1>2, <1>5, <1>8 DEF NextDay
  <2> QED   BY <1>2, <1>6, <1>8, <2>1
<1> QED
  BY <1>7, <1>8

\* The day the clock is in.
LEMMA Today ==
  ASSUME Clock
  PROVE  /\ DayOf(now) \in Nat /\ DayOf(now) * DayBlocks \in Nat
         /\ DayOf(now) * DayBlocks <= now /\ now < DayEnd(DayOf(now))
         /\ DayEnd(DayOf(now)) = DayOf(now) * DayBlocks + DayBlocks
<1>1. DayBlocks \in Nat \ {0} /\ now \in Nat
  BY HorizonAssumption DEF Clock
<1> DEFINE q == DayOf(now)
<1>2. q \in Nat /\ q * DayBlocks <= now /\ now < (q + 1) * DayBlocks
  BY <1>1 DEF DayOf
<1> HIDE DEF q
<1>3. q * DayBlocks \in Nat /\ DayEnd(q) = q * DayBlocks + DayBlocks
      /\ DayEnd(q) = (q + 1) * DayBlocks
  BY <1>1, <1>2 DEF DayEnd
<1>4. now < DayEnd(q)
  BY <1>2, <1>3
<1> QED
  BY <1>2, <1>3, <1>4 DEF q

\* What is planned for a day is its blocks.
LEMMA PlannedCover ==
  ASSUME NEW d, NEW gen
  PROVE  /\ Covered(Planned(d, gen)) = BlocksOf(d)
         /\ \A e \in Planned(d, gen) : e.by = "plan" /\ e.block \in Blocks
<1>1. \A b \in BlocksOf(d) :
        /\ [block |-> b, by |-> "plan", gen |-> gen, override |-> FALSE] \in Planned(d, gen)
        /\ [block |-> b, by |-> "plan", gen |-> gen, override |-> FALSE].block = b
  BY DEF Planned
<1>2. \A e \in Planned(d, gen) : e.by = "plan" /\ e.block \in BlocksOf(d)
  BY PlannedAre
<1>3. BlocksOf(d) \subseteq Blocks
  BY DEF BlocksOf
<1> QED
  BY <1>1, <1>2, <1>3 DEF Covered

\* Either way of publishing a day makes the store cover it too, and leaves the
\* rest as covered as it was.
LEMMA AddCovers ==
  ASSUME NEW d, AddEntries(Planned(d, 0))
  PROVE  /\ Covered(entries') = Covered(entries) \cup BlocksOf(d)
         /\ \A e \in entries' : e \in entries \/ (e.by = "plan" /\ e.block \in Blocks)
<1> DEFINE gen == 0
           new == Planned(d, gen)
<1>1. /\ Covered(new) = BlocksOf(d) /\ \A e \in new : e.by = "plan" /\ e.block \in Blocks
  <2> HIDE DEF gen
  <2> QED   BY PlannedCover
<1>2. entries' = entries \cup {e \in new : e.block \notin {o.block : o \in {x \in entries : x.by = "plan"}}}
  BY DEF AddEntries
<1> HIDE DEF new
<1>3. \A e \in entries' : e \in entries \/ e \in new
  BY <1>2
<1>4. \A e \in new : e \in entries' \/ \E o \in entries : o.block = e.block
  BY <1>2
<1>5. entries \subseteq entries'
  BY <1>2
<1>6. ASSUME NEW b \in Covered(entries')  PROVE b \in Covered(entries) \cup Covered(new)
  BY <1>3 DEF Covered
<1>7. ASSUME NEW b \in Covered(entries) \cup Covered(new)  PROVE b \in Covered(entries')
  BY <1>4, <1>5 DEF Covered
<1> QED
  BY <1>1, <1>3, <1>6, <1>7

LEMMA ReplaceCovers ==
  ASSUME NEW d \in Int, NEW gen,
         entries' = Replaced(d * DayBlocks, DayEnd(d), Planned(d, gen)),
         NEW b \in Blocks
  PROVE  b \in Covered(entries') <=> b \in Covered(entries) \/ b \in BlocksOf(d)
<1> DEFINE new   == Planned(d, gen)
           range == (d * DayBlocks)..(DayEnd(d) - 1)
<1>1. Covered(new) = BlocksOf(d)
  BY PlannedCover
<1>2. entries' = {e \in entries : e.block \notin range} \cup new
  BY DEF Replaced
<1>3. b \in range <=> b \in BlocksOf(d)
  <2>1. d * DayBlocks \in Int /\ DayEnd(d) \in Int /\ b \in Int
    BY HorizonAssumption, BlocksAre DEF DayEnd
  <2>2. b \in BlocksOf(d) <=> d * DayBlocks <= b /\ b < DayEnd(d)
    BY DayBounds
  <2> QED   BY <2>1, <2>2
<1> HIDE DEF new, range
<1>4. b \in Covered(entries') <=> (b \in Covered(entries) /\ b \notin range) \/ b \in Covered(new)
  BY <1>2 DEF Covered
<1> QED
  BY <1>1, <1>3, <1>4

\* The least and the greatest of a set of integers.
LEMMA Extremes ==
  ASSUME NEW S, S \subseteq Int, NEW lo \in S, NEW hi \in S,
         \A x \in S : lo <= x /\ x <= hi
  PROVE  Min(S) = lo /\ Max(S) = hi
<1> DEFINE Least(x)    == \A y \in S : x =< y
           Greatest(x) == \A y \in S : x >= y
<1>1. lo \in S /\ Least(lo) /\ hi \in S /\ Greatest(hi)
  OBVIOUS
<1>2. \A x \in S : (Least(x) => x = lo) /\ (Greatest(x) => x = hi)
  OBVIOUS
<1>3. Min(S) = (CHOOSE x \in S : Least(x)) /\ Max(S) = (CHOOSE x \in S : Greatest(x))
  BY DEF Min, Max
<1> HIDE DEF Least, Greatest
<1>4. (CHOOSE x \in S : Least(x)) \in S /\ Least(CHOOSE x \in S : Least(x))
  BY <1>1
<1>5. (CHOOSE x \in S : Greatest(x)) \in S /\ Greatest(CHOOSE x \in S : Greatest(x))
  BY <1>1
<1> QED
  BY <1>2, <1>3, <1>4, <1>5

\* A store that is one run of days, with one entry a block, has no seam gap.
LEMMA RunIsContiguous ==
  ASSUME NEW es, OnePerBlock(es), \A e \in es : e.by = "plan" /\ e.block \in Blocks,
         NEW k \in Nat, NEW end \in Int, From(k, es, end)
  PROVE  Contiguous(es)
<1>1. DayBlocks \in Nat \ {0} /\ k * DayBlocks \in Nat
  BY HorizonAssumption
<1>2. PICK top \in Nat : Blocks = 0..top
  BY BlocksAre
<1> DEFINE lo == k * DayBlocks
           hi == IF end - 1 < top THEN end - 1 ELSE top
           C  == Covered(es)
<1>3. lo \in Nat /\ hi \in Int
  BY <1>1, <1>2
<1>4. C = lo..hi
  <2>1. \A b \in C : b \in Blocks
    BY DEF Covered
  <2>2. \A b \in Blocks : b \in C <=> lo <= b /\ b < end
    BY DEF From
  <2>3. \A b : b \in lo..hi <=> b \in Blocks /\ lo <= b /\ b < end
    <3> HIDE DEF lo
    <3> QED   BY <1>2, <1>3
  <2> HIDE DEF C, lo, hi
  <2> QED   BY <2>1, <2>2, <2>3
<1>5. IsFiniteSet(C)
  <2> HIDE DEF lo, hi, C
  <2> QED   BY <1>3, <1>4, FS_Interval
<1>6. Cardinality(es) = Cardinality(C)
  <2> DEFINE f == [e \in es |-> e.block]
  <2>1. f \in [es -> C]
    BY DEF Covered
  <2>2. \A e, g \in es : f[e] = f[g] => e = g
    BY DEF OnePerBlock
  <2>3. \A b \in C : \E e \in es : f[e] = b
    BY DEF Covered
  <2> HIDE DEF f, C
  <2>4. f \in Injection(es, C) /\ f \in Surjection(es, C)
    BY <2>1, <2>2, <2>3 DEF Injection, Surjection, IsInjective
  <2>5. IsFiniteSet(es) /\ (Cardinality(es) = Cardinality(C) <=> f \in Surjection(es, C))
    BY <1>5, <2>4, FS_Injection
  <2> QED   BY <2>4, <2>5
<1>7. ASSUME es # {}  PROVE C = Min(C)..Max(C)
  <2>1. C # {}
    BY <1>7 DEF Covered
  <2> HIDE DEF lo, hi, C
  <2>2. lo \in C /\ hi \in C /\ \A b \in C : lo <= b /\ b <= hi
    BY <1>3, <1>4, <2>1
  <2>3. C \subseteq Int
    BY <1>3, <1>4
  <2>4. Min(C) = lo /\ Max(C) = hi
    BY <2>2, <2>3, Extremes
  <2> QED   BY <1>4, <2>4
<1> QED
  BY <1>6, <1>7 DEF Contiguous

-----------------------------------------------------------------------------
(* What publishing a day does to the window.                               *)

GainsDay(d) ==
  /\ \A b \in Blocks : b \in Covered(entries') <=> b \in Covered(entries) \/ b \in BlocksOf(d)
  /\ \A e \in entries' : e \in entries \/ (e.by = "plan" /\ e.block \in Blocks)
  /\ removed' = removed \/ removed' = removed \ BlocksOf(d)
  /\ Grows(DayEnd(d))
  /\ UNCHANGED <<now, publishes, failures>>

\* The day starts where the window ends, or it is the clock's; if it is ahead of
\* the window's end, a day's worth of planning has failed.
WellPlaced(d) ==
  /\ d \in Nat
  /\ d = DayOf(now) \/ (windowEnd > 0 /\ d * DayBlocks = windowEnd)
  /\ windowEnd > 0 /\ failures <= DayBlocks => d * DayBlocks <= windowEnd

LEMMA GainStep ==
  ASSUME WindowInv, NEW d, WellPlaced(d), GainsDay(d)
  PROVE  /\ Aligned' /\ Filled' /\ Untouched' /\ OneRun'
         /\ windowEnd' >= windowEnd /\ windowEnd' >= DayEnd(d)
         /\ windowEnd \in Nat /\ windowEnd' \in Nat /\ DayEnd(d) \in Nat
<1>0. /\ Clock /\ Aligned /\ Filled /\ Untouched /\ OneRun /\ Counts
      /\ DayBlocks \in Nat \ {0} /\ d \in Nat /\ now \in Nat
  BY HorizonAssumption DEF WindowInv, WellPlaced, Clock
<1>1. d * DayBlocks \in Nat /\ DayEnd(d) = d * DayBlocks + DayBlocks /\ DayEnd(d) = (d + 1) * DayBlocks
  BY <1>0 DEF DayEnd
<1>2. PICK w \in Nat : windowEnd = w * DayBlocks
  BY <1>0 DEF Aligned
<1>3. windowEnd \in Nat
  BY <1>0, <1>2
<1>4. windowEnd' = (IF DayEnd(d) > windowEnd THEN DayEnd(d) ELSE windowEnd)
  BY DEF GainsDay, Grows
<1>5. windowEnd' \in Nat /\ windowEnd' >= windowEnd /\ windowEnd' >= DayEnd(d) /\ DayEnd(d) \in Nat
  BY <1>0, <1>1, <1>3, <1>4
<1>6. Aligned'
  <2>1. windowEnd' = (d + 1) * DayBlocks \/ windowEnd' = w * DayBlocks
    BY <1>1, <1>2, <1>4
  <2>2. d + 1 \in Nat
    BY <1>0
  <2> QED   BY <1>2, <2>1, <2>2 DEF Aligned
<1>7. d * DayBlocks <= now \/ (windowEnd > 0 /\ d * DayBlocks = windowEnd)
  BY <1>0, Today DEF WellPlaced
<1>8. \A b \in Blocks : b \in Nat /\ (b \in BlocksOf(d) <=> d * DayBlocks <= b /\ b < DayEnd(d))
  BY <1>0, DayBounds, BlocksAre
<1>9. Filled'
  <2> SUFFICES ASSUME NEW b \in Blocks, now <= b, b < windowEnd'
               PROVE  b \in Covered(entries') \/ b \in removed'
    BY DEF Filled, GainsDay
  <2>1. CASE b < windowEnd
    <3>1. b \in Covered(entries) \/ b \in removed
      BY <1>0, <2>1 DEF Filled
    <3> QED   BY <3>1 DEF GainsDay
  <2>2. CASE ~(b < windowEnd)
    <3>1. b < DayEnd(d) /\ d * DayBlocks <= b
      BY <1>0, <1>1, <1>3, <1>4, <1>7, <1>8, <2>2
    <3>2. b \in BlocksOf(d)
      BY <1>8, <3>1
    <3> QED   BY <3>2 DEF GainsDay
  <2> QED   BY <2>1, <2>2
<1>10. Untouched'
  BY <1>0 DEF Untouched, GainsDay
<1>11. OneRun'
  <2> SUFFICES ASSUME publishes = 0, failures <= DayBlocks
               PROVE  \E k \in Nat : /\ k * DayBlocks <= now
                                     /\ k * DayBlocks <= windowEnd'
                                     /\ From(k, entries', windowEnd')
    BY DEF OneRun, GainsDay
  <2>1. PICK k \in Nat : /\ k * DayBlocks <= now
                         /\ windowEnd > 0 => k * DayBlocks <= windowEnd
                         /\ From(k, entries, windowEnd)
    BY <1>0 DEF OneRun
  <2>2. k * DayBlocks \in Nat
    BY <1>0
  <2>3. \A b \in Blocks : b \in Covered(entries) <=> k * DayBlocks <= b /\ b < windowEnd
    BY <2>1 DEF From
  <2>4. \A b \in Blocks : b \in Covered(entries') <=>
          (k * DayBlocks <= b /\ b < windowEnd) \/ (d * DayBlocks <= b /\ b < DayEnd(d))
    BY <1>8, <2>3 DEF GainsDay
  <2>5. CASE windowEnd = 0
    <3>1. windowEnd' = DayEnd(d) /\ d * DayBlocks <= now
      BY <1>0, <1>1, <1>4, <1>7, <2>5
    <3>2. d * DayBlocks <= windowEnd'
      BY <1>0, <1>1, <3>1
    <3>3. From(d, entries', windowEnd')
      BY <1>1, <1>8, <2>2, <2>4, <2>5, <3>1 DEF From
    <3> QED   BY <1>0, <3>1, <3>2, <3>3
  <2>6. CASE windowEnd > 0
    <3>1. d * DayBlocks <= windowEnd
      BY <2>6 DEF WellPlaced
    <3>2. k * DayBlocks <= d * DayBlocks
      <4>1. CASE d * DayBlocks = windowEnd
        BY <2>1, <2>6, <4>1
      <4>2. CASE d = DayOf(now)
        <5>1. k * DayBlocks < (d + 1) * DayBlocks
          BY <1>0, <1>1, <2>1, <2>2, <4>2, Today
        <5>2. \A x, y \in Nat : x < y => (x + 1) * DayBlocks <= y * DayBlocks
          BY <1>0
        <5>3. ~(d < k)
          BY <1>0, <1>1, <2>2, <5>1, <5>2
        <5>4. \A x, y \in Nat : x <= y => x * DayBlocks <= y * DayBlocks
          BY <1>0
        <5> QED   BY <1>0, <5>3, <5>4
      <4> QED   BY <4>1, <4>2 DEF WellPlaced
    <3>3. k * DayBlocks <= windowEnd'
      BY <1>3, <1>5, <2>1, <2>2, <2>6
    <3>4. From(k, entries', windowEnd')
      <4> SUFFICES ASSUME NEW b \in Blocks
                   PROVE  b \in Covered(entries') <=> k * DayBlocks <= b /\ b < windowEnd'
        BY DEF From
      <4> DEFINE kd == k * DayBlocks
                 dd == d * DayBlocks
      <4>1. b \in Covered(entries') <=> (kd <= b /\ b < windowEnd) \/ (dd <= b /\ b < DayEnd(d))
        BY <2>4
      <4>2. b \in Nat /\ kd \in Nat /\ dd \in Nat /\ DayEnd(d) = dd + DayBlocks
            /\ dd <= windowEnd /\ kd <= dd
        BY <1>1, <1>8, <2>2, <3>1, <3>2
      <4> HIDE DEF kd, dd
      <4>3. b \in Covered(entries') <=> kd <= b /\ b < windowEnd'
        BY <1>0, <1>3, <1>4, <4>1, <4>2
      <4> QED   BY <4>3 DEF kd
    <3> QED   BY <2>1, <3>3, <3>4
  <2> QED   BY <1>3, <2>5, <2>6
<1> QED
  BY <1>3, <1>5, <1>6, <1>9, <1>10, <1>11

\* The two days the manager publishes.
LEMMA NextIsWellPlaced ==
  ASSUME WindowInv, eval.pc # "idle"
  PROVE  WellPlaced(NextDay)
<1>1. /\ NextDay \in Nat /\ NextDay * DayBlocks \in Nat
      /\ windowEnd # 0 => NextDay * DayBlocks = windowEnd
      /\ windowEnd = 0 => NextDay = DayOf(now)
  BY NextDayStarts DEF WindowInv
<1>2. windowEnd \in Nat
  <2>1. PICK w \in Nat : windowEnd = w * DayBlocks
    BY DEF WindowInv, Aligned
  <2> QED   BY <2>1, HorizonAssumption
<1> HIDE DEF NextDay
<1> QED
  BY <1>1, <1>2 DEF WellPlaced

LEMMA TodayIsWellPlaced ==
  ASSUME WindowInv, eval.pc = "fill", eval.ok \in BOOLEAN
  PROVE  WellPlaced(DayOf(eval.at))
<1>0. /\ Clock /\ Aligned /\ Deep /\ Lag /\ Counts
      /\ DayBlocks \in Nat \ {0} /\ now \in Nat /\ MinDepth \in Nat /\ MinDepth > 0
  BY HorizonAssumption, DepthAssumption DEF WindowInv, Clock
<1>1. eval.at = now
  BY <1>0 DEF Clock
<1> DEFINE d == DayOf(now)
<1>2. d \in Nat /\ d * DayBlocks \in Nat /\ d * DayBlocks <= now
  BY <1>0, Today
<1> HIDE DEF d
<1>3. ASSUME windowEnd > 0, failures <= DayBlocks
      PROVE  d * DayBlocks <= windowEnd
  <2>1. PICK w \in Nat : windowEnd = w * DayBlocks
    BY <1>0 DEF Aligned
  <2>2. windowEnd \in Nat
    BY <1>0, <2>1
  <2>3. CASE eval.ok
    <3>1. windowEnd >= now + MinDepth
      BY <1>0, <1>1, <2>3 DEF Deep
    <3> QED   BY <1>0, <1>2, <2>2, <3>1
  <2>4. CASE ~eval.ok
    <3>1. now - windowEnd < failures
      BY <1>0, <1>1, <1>3, <2>4 DEF Lag
    <3>2. now - windowEnd < DayBlocks
      BY <1>0, <1>3, <2>2, <3>1 DEF Counts
    <3>3. d * DayBlocks < windowEnd + DayBlocks
      BY <1>0, <1>2, <2>2, <3>2
    <3>4. w < d => w * DayBlocks + DayBlocks <= d * DayBlocks
      <4>1. w < d => (w + 1) * DayBlocks <= d * DayBlocks
        BY <1>0, <1>2, <2>1
      <4>2. (w + 1) * DayBlocks = w * DayBlocks + DayBlocks
        BY <1>0, <2>1
      <4> QED   BY <4>1, <4>2
    <3>5. ~(w < d)
      BY <1>0, <1>2, <2>1, <2>2, <3>3, <3>4
    <3>6. \A x, y \in Nat : x <= y => x * DayBlocks <= y * DayBlocks
      BY <1>0
    <3> QED   BY <1>2, <2>1, <3>5, <3>6
  <2> QED   BY <2>3, <2>4
<1> QED
  BY <1>1, <1>2, <1>3 DEF WellPlaced, d

-----------------------------------------------------------------------------
(* The steps, one lemma for each kind.                                     *)

LEMMA InitWindow == Init => WindowInv
<1> SUFFICES ASSUME Init  PROVE WindowInv
  OBVIOUS
<1>1. /\ now = 0 /\ entries = {} /\ removed = {} /\ windowEnd = 0 /\ failures = 0 /\ publishes = 0
      /\ eval = [pc |-> "idle", at |-> -1, ok |-> TRUE] /\ nextOk /\ seamsOk
  BY DEF Init
<1>2. DayBlocks \in Nat \ {0} /\ LastBlock \in Nat
  BY HorizonAssumption
<1>3. 0 * DayBlocks = 0
  BY <1>2
<1>4. Clock /\ Counts /\ Deep /\ Untouched /\ Excused /\ Lag
  BY <1>1, <1>2 DEF Clock, Counts, Deep, Untouched, Excused, Lag
<1>5. Aligned
  BY <1>1, <1>3 DEF Aligned
<1>6. \A b \in Blocks : b \in Nat /\ b \notin Covered(entries)
  BY <1>1, BlocksAre DEF Covered
<1>7. Filled /\ From(0, entries, windowEnd)
  BY <1>1, <1>3, <1>6 DEF Filled, From
<1>8. OneRun
  BY <1>1, <1>3, <1>7 DEF OneRun
<1> QED
  BY <1>4, <1>5, <1>7, <1>8 DEF WindowInv

\* What the steps have in common: the types, and what the clock and the window
\* are measured in.
LEMMA WindowTypes ==
  ASSUME IInv, WindowInv
  PROVE  /\ windowEnd \in Nat /\ now \in Nat /\ now \in Blocks /\ failures \in Nat
         /\ publishes \in Nat /\ eval.at \in Int /\ eval.at <= now /\ eval.ok \in BOOLEAN
         /\ eval.pc \in Steps /\ MinDepth \in Nat /\ MinDepth > 0 /\ DayBlocks \in Nat
         /\ LastBlock \in Nat
<1>1. PICK w \in Nat : windowEnd = w * DayBlocks
  BY DEF WindowInv, Aligned
<1>2. windowEnd \in Nat
  BY <1>1, HorizonAssumption
<1>3. now \in 0..LastBlock /\ eval.at \in -1..now /\ LastBlock \in Nat
  BY HorizonAssumption DEF WindowInv, Clock
<1>4. now \in Blocks
  BY <1>3, BlocksAre
<1>5. failures \in Nat /\ publishes \in Nat
  BY DEF WindowInv, Counts
<1> QED
  BY <1>2, <1>3, <1>4, <1>5, HorizonAssumption, DepthAssumption DEF IInv, Numbers

\* A step that leaves the store and the window alone.
LEMMA SameStore ==
  ASSUME WindowInv, UNCHANGED <<now, entries, removed, windowEnd, publishes>>,
         failures' \in Nat, failures' >= failures
  PROVE  Aligned' /\ Filled' /\ Untouched' /\ OneRun' /\ Counts'
<1>1. Aligned /\ Filled /\ Untouched /\ OneRun /\ Counts /\ DayBlocks \in Nat
  BY HorizonAssumption DEF WindowInv
<1>2. Aligned' /\ Filled' /\ Untouched' /\ Counts'
  BY <1>1 DEF Aligned, Filled, Untouched, Counts
<1>3. OneRun'
  <2>1. failures' <= DayBlocks => failures <= DayBlocks
    BY <1>1 DEF Counts
  <2> QED   BY <1>1, <2>1 DEF OneRun
<1> QED
  BY <1>2, <1>3

LEMMA StartsWindow ==
  ASSUME IInv, WindowInv, Starts
  PROVE  WindowInv'
<1>1. /\ eval' = [pc |-> "epg", at |-> now, ok |-> TRUE]
      /\ UNCHANGED <<now, entries, removed, windowEnd, publishes, failures, nextOk, seamsOk>>
  BY DEF Starts, store
<1>2. Aligned' /\ Filled' /\ Untouched' /\ OneRun' /\ Counts'
  BY <1>1, WindowTypes, SameStore
<1>3. Clock'
  BY <1>1, WindowTypes DEF Clock, WindowInv
<1>4. Deep' /\ Excused' /\ Lag'
  BY <1>1 DEF WindowInv, Deep, Excused, Lag
<1> QED
  BY <1>2, <1>3, <1>4 DEF WindowInv

\* A planning step that throws: one more failure, and the evaluation is not ok.
LEMMA ThrowsWindow ==
  ASSUME IInv, WindowInv, NEW pc \in {"idle", "ready", "seams"}, eval.pc # "idle",
         Failed(pc), failures' = failures + 1,
         nextOk' = nextOk \/ failures' > 0, seamsOk' = seamsOk,
         UNCHANGED <<now, entries, removed, windowEnd, publishes>>
  PROVE  WindowInv'
<1>0. eval \in [pc : Steps, at : Int, ok : BOOLEAN]
  BY DEF IInv, Numbers
<1>1. eval'.pc = pc /\ eval'.at = eval.at /\ eval'.ok = FALSE /\ eval.at = now
  BY <1>0 DEF Failed, WindowInv, Clock
<1>2. failures' \in Nat /\ failures' > 0 /\ failures' > failures
  BY WindowTypes
<1>3. Aligned' /\ Filled' /\ Untouched' /\ OneRun' /\ Counts'
  BY <1>2, SameStore, WindowTypes
<1>4. Clock' /\ Deep'
  BY <1>1 DEF WindowInv, Clock, Deep
<1>5. Excused'
  BY <1>1, <1>2, WindowTypes, HorizonAssumption DEF WindowInv, Excused
<1>6. Lag'
  BY <1>1, <1>2, WindowTypes DEF WindowInv, Lag
<1> QED
  BY <1>3, <1>4, <1>5, <1>6 DEF WindowInv

\* A step that goes on from one point of the evaluation to the next.
LEMMA GoesOnWindow ==
  ASSUME IInv, WindowInv, NEW pc \in Steps, eval.pc # "idle", Goto(pc),
         UNCHANGED <<now, entries, removed, windowEnd, publishes, failures>>,
         eval.ok /\ pc \notin {"epg", "execution"} => windowEnd >= now + MinDepth,
         ~nextOk' => publishes > 0 \/ failures > 0,
         ~seamsOk' => publishes > 0 \/ failures > DayBlocks,
         ~eval.ok /\ pc # "idle" => failures > 0
  PROVE  WindowInv'
<1>0. eval \in [pc : Steps, at : Int, ok : BOOLEAN]
  BY DEF IInv, Numbers
<1>1. eval'.pc = pc /\ eval'.at = eval.at /\ eval'.ok = eval.ok /\ eval.at = now
  BY <1>0 DEF Goto, WindowInv, Clock
<1>2. Aligned' /\ Filled' /\ Untouched' /\ OneRun' /\ Counts'
  BY SameStore, WindowTypes
<1>3. Clock' /\ Deep'
  BY <1>1 DEF WindowInv, Clock, Deep
<1>4. Excused'
  BY <1>1 DEF WindowInv, Excused
<1>5. Lag'
  BY <1>1 DEF WindowInv, Lag
<1> QED
  BY <1>2, <1>3, <1>4, <1>5 DEF WindowInv

\* A step that publishes a day.
LEMMA GainWindow ==
  ASSUME IInv, WindowInv, eval.pc # "idle", NEW d, WellPlaced(d), GainsDay(d),
         NEW pc \in Steps, eval'.pc = pc, eval'.at = eval.at, eval'.ok = eval.ok,
         eval.ok /\ pc \notin {"epg", "execution"} => windowEnd >= now + MinDepth,
         ~nextOk' => publishes > 0 \/ failures > 0, seamsOk' = seamsOk
  PROVE  WindowInv'
<1>1. /\ Aligned' /\ Filled' /\ Untouched' /\ OneRun'
      /\ windowEnd' >= windowEnd /\ windowEnd' >= DayEnd(d)
      /\ windowEnd' \in Nat /\ DayEnd(d) \in Nat
  BY GainStep
<1>2. eval.at = now /\ UNCHANGED <<now, publishes, failures>>
  BY DEF WindowInv, Clock, GainsDay
<1>3. Clock' /\ Counts'
  BY <1>2 DEF WindowInv, Clock, Counts
<1>4. Deep' /\ Excused'
  BY <1>1, <1>2, WindowTypes DEF WindowInv, Deep, Excused
<1>5. Lag'
  <2>1. CASE windowEnd > 0
    BY <1>1, <1>2, <2>1, WindowTypes DEF WindowInv, Lag
  <2>2. CASE ~(windowEnd > 0)
    <3>1. d = DayOf(now)
      BY <2>2 DEF WellPlaced
    <3>2. now < DayEnd(d)
      BY <3>1, Today DEF WindowInv
    <3> QED   BY <1>1, <1>2, <3>2, WindowTypes DEF Lag
  <2> QED   BY <2>1, <2>2
<1> QED
  BY <1>1, <1>3, <1>4, <1>5 DEF WindowInv

LEMMA AddsGain ==
  ASSUME NEW d, AddEntries(Planned(d, 0)), Grows(DayEnd(d)),
         UNCHANGED <<now, removed, publishes, failures>>
  PROVE  GainsDay(d)
<1>1. /\ Covered(entries') = Covered(entries) \cup BlocksOf(d)
      /\ \A e \in entries' : e \in entries \/ (e.by = "plan" /\ e.block \in Blocks)
  BY AddCovers
<1> QED
  BY <1>1 DEF GainsDay

LEMMA ExtendsEpgWindow ==
  ASSUME IInv, WindowInv, ExtendsEpg
  PROVE  WindowInv'
<1>1. /\ eval.pc = "epg"
      /\ UNCHANGED <<now, entries, removed, windowEnd, publishes, nextOk, seamsOk>>
  BY DEF ExtendsEpg, store
<1>2. \/ Goto("execution") /\ UNCHANGED failures
      \/ UNCHANGED <<eval, failures>>
      \/ Throws /\ Failed("idle")
  BY DEF ExtendsEpg
<1>3. CASE Goto("execution") /\ UNCHANGED failures
  <2>1. "execution" \in Steps
    BY DEF Steps
  <2> QED   BY <1>1, <1>3, <2>1, GoesOnWindow DEF WindowInv, Excused
<1>4. CASE UNCHANGED <<eval, failures>>
  <2>1. Aligned' /\ Filled' /\ Untouched' /\ OneRun' /\ Counts'
    BY <1>1, <1>4, SameStore, WindowTypes
  <2> QED   BY <1>1, <1>4, <2>1 DEF WindowInv, Clock, Deep, Excused, Lag
<1>5. CASE Throws /\ Failed("idle")
  BY <1>1, <1>5, ThrowsWindow DEF Throws
<1> QED
  BY <1>2, <1>3, <1>4, <1>5

LEMMA ExtendsExecutionWindow ==
  ASSUME IInv, WindowInv, ExtendsExecution
  PROVE  WindowInv'
<1>1. /\ eval.pc = "execution" /\ eval.at = now
      /\ UNCHANGED <<now, removed, publishes, nextOk, seamsOk>>
  BY DEF ExtendsExecution, WindowInv, Clock
<1>2. \/ ~Shallow(eval.at) /\ Goto("ready") /\ UNCHANGED <<entries, windowEnd, failures>>
      \/ AddEntries(Planned(NextDay, 0)) /\ Grows(DayEnd(NextDay)) /\ UNCHANGED <<eval, failures>>
      \/ Throws /\ Failed("ready") /\ UNCHANGED <<entries, windowEnd>>
  BY DEF ExtendsExecution
<1>3. CASE ~Shallow(eval.at) /\ Goto("ready") /\ UNCHANGED <<entries, windowEnd, failures>>
  <2>1. windowEnd >= now + MinDepth
    BY <1>1, <1>3, WindowTypes DEF Shallow
  <2>2. "ready" \in Steps /\ (~nextOk => publishes > 0 \/ failures > 0)
        /\ (~seamsOk => publishes > 0 \/ failures > DayBlocks)
    BY DEF Steps, WindowInv, Excused
  <2>3. CASE eval.ok
    BY <1>1, <1>3, <2>1, <2>2, <2>3, GoesOnWindow
  <2>4. CASE ~eval.ok
    <3>1. failures > 0
      BY <1>1, <2>4 DEF WindowInv, Excused
    <3> QED   BY <1>1, <1>3, <2>1, <2>2, <3>1, GoesOnWindow
  <2> QED   BY <2>3, <2>4
<1>4. CASE AddEntries(Planned(NextDay, 0)) /\ Grows(DayEnd(NextDay)) /\ UNCHANGED <<eval, failures>>
  <2>1. GainsDay(NextDay)
    BY <1>1, <1>4, AddsGain
  <2>2. WellPlaced(NextDay) /\ "execution" \in Steps
    BY <1>1, NextIsWellPlaced DEF Steps
  <2> DEFINE d == NextDay
  <2>3. GainsDay(d) /\ WellPlaced(d)
    BY <2>1, <2>2
  <2> HIDE DEF d
  <2> QED   BY <1>1, <1>4, <2>2, <2>3, GainWindow DEF WindowInv, Excused
<1>5. CASE Throws /\ Failed("ready") /\ UNCHANGED <<entries, windowEnd>>
  BY <1>1, <1>5, ThrowsWindow DEF Throws
<1> QED
  BY <1>2, <1>3, <1>4, <1>5

\* A block with an entry is one a reader finds an entry at.
LEMMA FindsCovered ==
  ASSUME NEW es, NEW b
  PROVE  EntryAt(es, b) # {} <=> b \in Covered(es)
<1>1. Here(es, b) # {} <=> b \in Covered(es)
  BY DEF Here, Covered
<1>2. Mine(es, b) \subseteq Here(es, b)
  BY DEF Here, Mine
<1> QED
  BY <1>1, <1>2, Finds

\* At the block on air there is an entry, once the window is deep enough, unless
\* an operator took it out.
LEMMA OnAirCovered ==
  ASSUME IInv, WindowInv, windowEnd >= now + MinDepth
  PROVE  now \in Covered(entries) \/ (now \in removed /\ publishes > 0)
<1>1. now \in Blocks /\ now < windowEnd
  BY WindowTypes
<1>2. now \in Covered(entries) \/ now \in removed
  BY <1>1, WindowTypes DEF WindowInv, Filled
<1>3. publishes > 0 \/ removed = {}
  BY WindowTypes DEF WindowInv, Untouched
<1> QED
  BY <1>2, <1>3

LEMMA ChecksNextWindow ==
  ASSUME IInv, WindowInv, ChecksNext
  PROVE  WindowInv'
<1>1. /\ eval.pc = "ready" /\ eval.at = now
      /\ UNCHANGED <<now, entries, removed, windowEnd, publishes, failures, seamsOk>>
  BY DEF ChecksNext, WindowInv, Clock, store
<1>2. \/ nextOk' = (EntryAt(entries, eval.at) # {}) /\ Goto("seams")
      \/ Goto("fill") /\ UNCHANGED nextOk
  BY DEF ChecksNext
<1>3. /\ eval.ok => windowEnd >= now + MinDepth
      /\ ~eval.ok => failures > 0
      /\ ~nextOk => publishes > 0 \/ failures > 0
      /\ ~seamsOk' => publishes > 0 \/ failures > DayBlocks
  BY <1>1, WindowTypes DEF WindowInv, Deep, Excused
<1>4. "seams" \in Steps /\ "fill" \in Steps
  BY DEF Steps
<1>5. CASE nextOk' = (EntryAt(entries, eval.at) # {}) /\ Goto("seams")
  <2>1. ~nextOk' => publishes > 0 \/ failures > 0
    <3>1. nextOk' <=> now \in Covered(entries)
      BY <1>1, <1>5, FindsCovered
    <3>2. eval.ok => now \in Covered(entries) \/ publishes > 0
      BY <1>3, OnAirCovered
    <3> QED   BY <1>3, <3>1, <3>2
  <2> QED   BY <1>1, <1>3, <1>4, <1>5, <2>1, GoesOnWindow
<1>6. CASE Goto("fill") /\ UNCHANGED nextOk
  <2>1. ~nextOk' => publishes > 0 \/ failures > 0
    BY <1>3, <1>6
  <2> QED   BY <1>1, <1>3, <1>4, <1>6, <2>1, GoesOnWindow
<1> QED
  BY <1>2, <1>5, <1>6

LEMMA FillsNextWindow ==
  ASSUME IInv, WindowInv, FillsNext
  PROVE  WindowInv'
<1>1. /\ eval.pc = "fill" /\ eval.at = now
      /\ UNCHANGED <<now, removed, publishes, seamsOk>>
  BY DEF FillsNext, WindowInv, Clock
<1>2. \/ /\ AddEntries(Planned(DayOf(eval.at), 0)) /\ Grows(DayEnd(DayOf(eval.at)))
         /\ nextOk' = (EntryAt(entries', eval.at) # {}) /\ Goto("seams") /\ UNCHANGED failures
      \/ Throws /\ Failed("seams") /\ nextOk' = FALSE /\ UNCHANGED <<entries, windowEnd>>
  BY DEF FillsNext
<1>3. CASE /\ AddEntries(Planned(DayOf(eval.at), 0)) /\ Grows(DayEnd(DayOf(eval.at)))
           /\ nextOk' = (EntryAt(entries', eval.at) # {}) /\ Goto("seams") /\ UNCHANGED failures
  <2> DEFINE d == DayOf(eval.at)
  <2>1. GainsDay(d)
    BY <1>1, <1>3, AddsGain
  <2>2. WellPlaced(d) /\ "seams" \in Steps
    BY <1>1, TodayIsWellPlaced, WindowTypes DEF Steps
  <2>3. nextOk'
    <3>1. d * DayBlocks <= now /\ now < DayEnd(d) /\ d \in Int /\ now \in Blocks
      BY <1>1, Today, WindowTypes DEF WindowInv
    <3> HIDE DEF d
    <3>2. now \in BlocksOf(d)
      BY <3>1, DayBounds
    <3>3. now \in Covered(entries')
      BY <2>1, <3>1, <3>2 DEF GainsDay
    <3> QED   BY <1>1, <1>3, <3>3, FindsCovered
  <2>4. eval'.pc = "seams" /\ eval'.at = eval.at /\ eval'.ok = eval.ok
    BY <1>3 DEF Goto, IInv, Numbers
  <2>5. eval.ok => windowEnd >= now + MinDepth
    BY <1>1, WindowTypes DEF WindowInv, Deep
  <2> HIDE DEF d
  <2> QED   BY <1>1, <2>1, <2>2, <2>3, <2>4, <2>5, GainWindow
<1>4. CASE Throws /\ Failed("seams") /\ nextOk' = FALSE /\ UNCHANGED <<entries, windowEnd>>
  <2>1. failures' = failures + 1 /\ failures' > 0
    BY <1>4, WindowTypes DEF Throws
  <2> QED   BY <1>1, <1>4, <2>1, ThrowsWindow
<1> QED
  BY <1>2, <1>3, <1>4

LEMMA ChecksSeamsWindow ==
  ASSUME IInv, WindowInv, ChecksSeams
  PROVE  WindowInv'
<1>1. /\ eval.pc = "seams" /\ eval.at = now /\ Goto("proactive") /\ seamsOk' = Contiguous(entries)
      /\ UNCHANGED <<now, entries, removed, windowEnd, publishes, failures, nextOk>>
  BY DEF ChecksSeams, WindowInv, Clock, store
<1>2. /\ eval.ok => windowEnd >= now + MinDepth
      /\ ~eval.ok => failures > 0
      /\ ~nextOk' => publishes > 0 \/ failures > 0
  BY <1>1, WindowTypes DEF WindowInv, Deep, Excused
<1>3. ASSUME ~(publishes > 0), ~(failures > DayBlocks)
      PROVE  Contiguous(entries)
  <2>1. publishes = 0 /\ failures <= DayBlocks
    BY <1>3, WindowTypes
  <2>2. PICK k \in Nat : From(k, entries, windowEnd)
    BY <2>1 DEF WindowInv, OneRun
  <2>3. \A e \in entries : e.by = "plan" /\ e.block \in Blocks
    BY <2>1 DEF WindowInv, Untouched
  <2> QED   BY <2>2, <2>3, RunIsContiguous, WindowTypes DEF IInv
<1>4. "proactive" \in Steps
  BY DEF Steps
<1> QED
  BY <1>1, <1>2, <1>3, <1>4, GoesOnWindow

LEMMA ExtendsAheadWindow ==
  ASSUME IInv, WindowInv, ExtendsAhead
  PROVE  WindowInv'
<1> DEFINE d   == NextDay
           gen == nextGen + 1
<1>1. /\ eval.pc = "proactive" /\ eval.at = now
      /\ UNCHANGED <<now, publishes, nextOk, seamsOk>>
  BY DEF ExtendsAhead, WindowInv, Clock
<1>2. \/ Goto("idle") /\ UNCHANGED <<entries, removed, windowEnd, failures>>
      \/ Failed("idle") /\ UNCHANGED <<entries, removed, windowEnd, failures>>
      \/ /\ entries' = Replaced(d * DayBlocks, DayEnd(d), Planned(d, gen))
         /\ removed' = removed \ BlocksOf(d)
         /\ Grows(DayEnd(d)) /\ Goto("idle") /\ UNCHANGED failures
      \/ Throws /\ Failed("idle") /\ UNCHANGED <<entries, removed, windowEnd>>
  BY DEF ExtendsAhead
<1>3. /\ eval.ok => windowEnd >= now + MinDepth
      /\ ~eval.ok => failures > 0
      /\ ~nextOk' => publishes > 0 \/ failures > 0
      /\ ~seamsOk' => publishes > 0 \/ failures > DayBlocks
      /\ "idle" \in Steps
  BY <1>1, WindowTypes DEF WindowInv, Deep, Excused, Steps
<1>4. CASE Goto("idle") /\ UNCHANGED <<entries, removed, windowEnd, failures>>
  BY <1>1, <1>3, <1>4, GoesOnWindow
<1>5. CASE Failed("idle") /\ UNCHANGED <<entries, removed, windowEnd, failures>>
  <2>1. eval'.pc = "idle" /\ eval'.at = eval.at /\ eval'.ok = FALSE
    BY <1>5 DEF Failed, IInv, Numbers
  <2>2. Aligned' /\ Filled' /\ Untouched' /\ OneRun' /\ Counts'
    BY <1>1, <1>5, SameStore, WindowTypes
  <2>3. Clock' /\ Deep' /\ Excused'
    BY <1>1, <1>3, <1>5, <2>1 DEF WindowInv, Clock, Deep, Excused
  <2>4. Lag'
    <3>1. CASE eval.ok
      BY <1>1, <1>3, <1>5, <3>1, WindowTypes DEF Lag
    <3>2. CASE ~eval.ok
      BY <1>1, <1>5, <3>2 DEF WindowInv, Lag
    <3> QED   BY <3>1, <3>2
  <2> QED   BY <2>2, <2>3, <2>4 DEF WindowInv
<1>6. CASE /\ entries' = Replaced(d * DayBlocks, DayEnd(d), Planned(d, gen))
           /\ removed' = removed \ BlocksOf(d)
           /\ Grows(DayEnd(d)) /\ Goto("idle") /\ UNCHANGED failures
  <2>1. WellPlaced(d) /\ d \in Int
    <3>1. WellPlaced(d)
      BY <1>1, NextIsWellPlaced
    <3> QED   BY <3>1 DEF WellPlaced
  <2>2. eval'.pc = "idle" /\ eval'.at = eval.at /\ eval'.ok = eval.ok
    BY <1>6 DEF Goto, IInv, Numbers
  <2> HIDE DEF d, gen
  <2>3. \A b \in Blocks : b \in Covered(entries') <=> b \in Covered(entries) \/ b \in BlocksOf(d)
    BY <1>6, <2>1, ReplaceCovers
  <2>4. \A e \in entries' : e \in entries \/ (e.by = "plan" /\ e.block \in Blocks)
    <3>1. \A e \in Planned(d, gen) : e.by = "plan" /\ e.block \in Blocks
      BY PlannedCover
    <3> QED   BY <1>6, <3>1 DEF Replaced
  <2>5. GainsDay(d)
    BY <1>1, <1>6, <2>3, <2>4 DEF GainsDay
  <2> QED   BY <1>1, <1>3, <2>1, <2>2, <2>5, GainWindow
<1>7. CASE Throws /\ Failed("idle") /\ UNCHANGED <<entries, removed, windowEnd>>
  BY <1>1, <1>7, ThrowsWindow DEF Throws
<1> QED
  BY <1>2, <1>4, <1>5, <1>6, <1>7

LEMMA PublishesWindow ==
  ASSUME IInv, WindowInv, Publishes
  PROVE  WindowInv'
<1>1. PICK from \in Blocks, gen \in 1..MaxGeneration, override \in BOOLEAN :
      \E to \in {from + 1, from + 2}, given \in SUBSET {from, from + 1} :
        Published(from, to, gen, override, given)
  BY DEF Publishes, Published
<1>2. PICK to \in {from + 1, from + 2}, given \in SUBSET {from, from + 1} :
        Published(from, to, gen, override, given)
  BY <1>1
<1> DEFINE new == {[block |-> b, by |-> "operator", gen |-> gen,
                    override |-> override] : b \in given}
<1>3. /\ UNCHANGED <<now, windowEnd, eval, nextOk, seamsOk, failures>>
      /\ publishes' = publishes + 1
  BY <1>2 DEF Published
<1>4. \/ UNCHANGED <<entries, removed>>
      \/ /\ entries' = Replaced(from, to, new)
         /\ removed' = (removed \ given) \union (from..(to - 1) \ given)
  BY <1>2 DEF Published
<1>5. publishes' \in Nat /\ publishes' > 0
  BY <1>3, WindowTypes
<1>6. Clock' /\ Counts' /\ Aligned' /\ Deep' /\ Lag'
  BY <1>3, <1>5 DEF WindowInv, Clock, Counts, Aligned, Deep, Lag
<1>7. Untouched' /\ Excused' /\ OneRun'
  BY <1>3, <1>5 DEF WindowInv, Untouched, Excused, OneRun
<1>8. \A b \in Blocks : b \in Covered(entries) \/ b \in removed =>
                        b \in Covered(entries') \/ b \in removed'
  <2>1. CASE UNCHANGED <<entries, removed>>
    BY <2>1
  <2>2. CASE /\ entries' = Replaced(from, to, new)
             /\ removed' = (removed \ given) \union (from..(to - 1) \ given)
    <3> DEFINE range == from..(to - 1)
    <3>1. ASSUME NEW b \in given  PROVE \E e \in new : e.block = b
      <4> DEFINE e == [block |-> b, by |-> "operator", gen |-> gen, override |-> override]
      <4>1. e \in new /\ e.block = b
        OBVIOUS
      <4> QED   BY <4>1
    <3> HIDE DEF new, range
    <3>2. entries' = {e \in entries : e.block \notin range} \cup new
      BY <2>2 DEF Replaced, range
    <3>3. removed' = (removed \ given) \cup (range \ given)
      BY <2>2 DEF range
    <3>4. \A b : b \in Covered(entries) /\ b \notin range => b \in Covered(entries')
      BY <3>2 DEF Covered
    <3>5. \A b \in given : b \in Covered(entries')
      BY <3>1, <3>2 DEF Covered
    <3> QED   BY <3>3, <3>4, <3>5
  <2> QED   BY <1>4, <2>1, <2>2
<1>9. Filled'
  BY <1>3, <1>8 DEF WindowInv, Filled
<1> QED
  BY <1>6, <1>7, <1>9 DEF WindowInv

LEMMA TickWindow ==
  ASSUME IInv, WindowInv, Tick
  PROVE  WindowInv'
<1>1. /\ eval.pc = "idle" /\ eval.at = now /\ now' = now + 1 /\ now < LastBlock
      /\ UNCHANGED <<entries, removed, windowEnd, eval, nextOk, seamsOk, failures, publishes>>
  BY DEF Tick, store
<1>2. Clock' /\ Counts'
  BY <1>1, WindowTypes DEF WindowInv, Clock, Counts
<1>3. Aligned' /\ Deep' /\ Untouched' /\ Excused'
  BY <1>1 DEF WindowInv, Aligned, Deep, Untouched, Excused
<1>4. Filled'
  BY <1>1, WindowTypes, BlocksAre DEF WindowInv, Filled
<1>5. Lag'
  <2>1. eval.ok => windowEnd >= now + MinDepth
    BY <1>1, WindowTypes DEF WindowInv, Deep
  <2>2. windowEnd > 0 /\ ~eval.ok => now - windowEnd < failures
    BY <1>1 DEF WindowInv, Lag
  <2> QED   BY <1>1, <2>1, <2>2, WindowTypes DEF Lag
<1>6. OneRun'
  <2>1. \A k \in Nat : k * DayBlocks \in Nat
    BY WindowTypes
  <2> QED   BY <1>1, <2>1, WindowTypes DEF WindowInv, OneRun
<1> QED
  BY <1>2, <1>3, <1>4, <1>5, <1>6 DEF WindowInv

LEMMA StepWindow == IInv /\ WindowInv /\ [Next]_vars => WindowInv'
<1> SUFFICES ASSUME IInv, WindowInv, [Next]_vars  PROVE WindowInv'
  OBVIOUS
<1>1. CASE Manager
  BY <1>1, StartsWindow, ExtendsEpgWindow, ExtendsExecutionWindow, ChecksNextWindow,
     FillsNextWindow, ChecksSeamsWindow, ExtendsAheadWindow DEF Manager
<1>2. CASE Publishes
  BY <1>2, PublishesWindow
<1>3. CASE Tick
  BY <1>3, TickWindow
<1>4. CASE UNCHANGED vars
  <2>1. UNCHANGED <<now, entries, removed, windowEnd, eval, nextOk, seamsOk, failures, publishes>>
    BY <1>4 DEF vars
  <2>2. Aligned' /\ Filled' /\ Untouched' /\ OneRun' /\ Counts'
    BY <2>1, SameStore, WindowTypes
  <2>3. Clock' /\ Deep' /\ Excused' /\ Lag'
    BY <2>1 DEF WindowInv, Clock, Deep, Excused, Lag
  <2> QED   BY <2>2, <2>3 DEF WindowInv
<1> QED
  BY <1>1, <1>2, <1>3, <1>4 DEF Next

\* INV-HORIZON-CONTINUOUS-COVERAGE-001: whatever an operator publishes and however
\* often planning throws, HorizonManager's window end is honest, its two
\* compliance flags fall only for a reason, and an evaluation in which nothing
\* failed leaves the window as deep as min_execution_hours with the block on air
\* in it.
THEOREM WindowStands == Spec => []WindowKept
<1>1. Spec => []WindowInv
  BY InitWindow, StepWindow, Invariance, PTL DEF Spec
<1>2. ASSUME IInv, WindowInv  PROVE WindowKept
  <2>1. \A b \in Blocks : b \in now..(windowEnd - 1) => b \in Covered(entries) \union removed
    BY <1>2, WindowTypes DEF WindowInv, Filled
  <2>2. \A e, f \in entries : e.block = f.block => e = f \/ e.by # f.by
    BY <1>2 DEF IInv, OnePerBlock
  <2>3. WindowHonest
    BY <1>2, <2>1, <2>2 DEF WindowHonest, WindowInv, Excused
  <2>4. DepthKept
    <3> SUFFICES ASSUME eval.pc = "idle", eval.ok, eval.at = now
                 PROVE  windowEnd >= now + MinDepth /\ (now \in Covered(entries) \/ now \in removed)
      BY DEF DepthKept
    <3>1. windowEnd >= now + MinDepth
      BY <1>2, WindowTypes DEF WindowInv, Deep
    <3> QED   BY <1>2, <3>1, OnAirCovered
  <2> QED   BY <2>3, <2>4 DEF WindowKept
<1> QED
  BY <1>1, <1>2, Invariance, PTL

-----------------------------------------------------------------------------
(***************************************************************************)
(* The types, and the bounds of what the store and the manager count.  Of  *)
(* each publish of an operator at most one record is persisted; the        *)
(* horizon that was resolved, like the window, ends with a day.            *)
(***************************************************************************)

Bounds ==
  /\ locked \in LockedWindows /\ watermark \in Watermarks
  /\ entries \subseteq Entry /\ removed \subseteq Blocks
  /\ maxGen \in 0..MaxGeneration /\ nextGen \in 0..MaxGeneration
  /\ records \in Nat /\ publishes \in 0..MaxPublishes /\ records <= publishes
  /\ failures \in 0..MaxFailures
  /\ \E k \in Int : epgEnd = k * DayBlocks
  /\ nextOk \in BOOLEAN /\ seamsOk \in BOOLEAN

\* A whole number of days leaves no remainder.
LEMMA WholeDays ==
  ASSUME NEW k \in Int
  PROVE  (k * DayBlocks) % DayBlocks = 0
BY HorizonAssumption

\* What is planned for a day is entries.
LEMMA PlannedEntries ==
  ASSUME NEW d, NEW gen \in 0..MaxGeneration
  PROVE  Planned(d, gen) \subseteq Entry
<1> SUFFICES ASSUME NEW e \in Planned(d, gen)  PROVE e \in Entry
  OBVIOUS
<1>1. PICK b \in BlocksOf(d) : e = [block |-> b, by |-> "plan", gen |-> gen, override |-> FALSE]
  BY DEF Planned
<1> QED   BY <1>1 DEF Entry, BlocksOf

LEMMA InitBounds == Init => Bounds
<1> SUFFICES ASSUME Init  PROVE Bounds
  OBVIOUS
<1>1. epgEnd = 0 * DayBlocks
  BY HorizonAssumption DEF Init
<1> QED   BY <1>1, HorizonAssumption DEF Init, Bounds

\* A step of the manager that adds what is planned for some day, or nothing.
LEMMA AddsBounds ==
  ASSUME Bounds, UNCHANGED <<config, maxGen, records, removed, epgEnd, nextGen, publishes>>,
         entries' = entries \/ \E d : AddEntries(Planned(d, 0)),
         failures' = failures \/ Throws,
         nextOk' \in BOOLEAN, seamsOk' \in BOOLEAN
  PROVE  Bounds'
<1>1. entries' \subseteq Entry
  <2>1. ASSUME NEW d, AddEntries(Planned(d, 0))  PROVE entries' \subseteq Entry
    <3>1. 0 \in 0..MaxGeneration
      BY HorizonAssumption
    <3>2. Planned(d, 0) \subseteq Entry
      BY <3>1, PlannedEntries
    <3> QED   BY <2>1, <3>2 DEF AddEntries, Bounds
  <2> QED   BY <2>1 DEF Bounds
<1>2. failures' \in 0..MaxFailures
  BY HorizonAssumption DEF Throws, Bounds
<1> QED   BY <1>1, <1>2 DEF Bounds, config

LEMMA EpgBounds ==
  ASSUME Bounds, eval.at \in Int, ExtendsEpg
  PROVE  Bounds'
<1>1. failures' \in 0..MaxFailures
  BY HorizonAssumption DEF ExtendsEpg, Throws, Bounds
<1>2. \E k \in Int : epgEnd' = k * DayBlocks
  <2>1. CASE epgEnd' = epgEnd
    BY <2>1 DEF Bounds
  <2>2. CASE epgEnd' = DayEnd(NextEpgDay)
    <3>1. epgEnd \in Int /\ \A n \in Int : n \div DayBlocks \in Int
      BY HorizonAssumption DEF Bounds
    <3>2. NextEpgDay \in Int
      BY <3>1 DEF NextEpgDay, DayOf
    <3> QED   BY <2>2, <3>2 DEF DayEnd
  <2> QED   BY <2>1, <2>2 DEF ExtendsEpg
<1> QED   BY <1>1, <1>2 DEF Bounds, ExtendsEpg, config, store

LEMMA AheadBounds ==
  ASSUME Bounds, ExtendsAhead
  PROVE  Bounds'
<1>1. failures' \in 0..MaxFailures
  BY HorizonAssumption DEF ExtendsAhead, Throws, Bounds
<1>2. nextGen' \in 0..MaxGeneration
  BY HorizonAssumption DEF ExtendsAhead, Bounds
<1>3. maxGen' \in 0..MaxGeneration
  BY HorizonAssumption DEF ExtendsAhead, Bounds
<1>4. entries' \subseteq Entry
  <2>1. CASE entries' = entries
    BY <2>1 DEF Bounds
  <2>2. CASE /\ nextGen < MaxGeneration
             /\ entries' = Replaced(NextDay * DayBlocks, DayEnd(NextDay), Planned(NextDay, nextGen + 1))
    <3>1. nextGen + 1 \in 0..MaxGeneration
      BY <2>2, HorizonAssumption DEF Bounds
    <3>2. Planned(NextDay, nextGen + 1) \subseteq Entry
      BY <3>1, PlannedEntries
    <3> QED   BY <2>2, <3>2 DEF Replaced, Bounds
  <2> QED   BY <2>1, <2>2 DEF ExtendsAhead
<1>5. removed' \subseteq Blocks
  BY DEF ExtendsAhead, Bounds
<1> QED   BY <1>1, <1>2, <1>3, <1>4, <1>5 DEF Bounds, ExtendsAhead, config

\* An operator's range begins with a block and ends at most MinDepth after the
\* clock.
LEMMA PublishBounds ==
  ASSUME Bounds, Clock, Publishes
  PROVE  Bounds'
<1>1. PICK from \in Blocks, gen \in 1..MaxGeneration, override \in BOOLEAN :
      \E to \in {from + 1, from + 2}, given \in SUBSET {from, from + 1} :
        Published(from, to, gen, override, given)
  BY DEF Publishes, Published
<1>2. PICK to \in {from + 1, from + 2}, given \in SUBSET {from, from + 1} :
        Published(from, to, gen, override, given)
  BY <1>1
<1>3. from..(to - 1) \subseteq Blocks
  <2>1. now \in 0..LastBlock /\ LastBlock \in Nat /\ MinDepth \in Nat
    BY HorizonAssumption DEF Clock
  <2>2. PICK top \in Nat : Blocks = 0..top /\ LastBlock + MinDepth <= top
    BY Reaches
  <2>3. to - 1 \in Int /\ to - 1 <= top /\ from \in Nat
    BY <1>2, <2>1, <2>2 DEF Published
  <2> QED   BY <2>2, <2>3
<1>4. entries' \subseteq Entry
  <2> DEFINE new == {[block |-> b, by |-> "operator", gen |-> gen,
                      override |-> override] : b \in given}
  <2>1. \A b \in given : b \in Blocks
    BY <1>2, <1>3 DEF Published
  <2>2. gen \in 0..MaxGeneration
    BY HorizonAssumption
  <2>3. new \subseteq Entry
    BY <2>1, <2>2 DEF Entry
  <2>4. entries' = entries \/ entries' = Replaced(from, to, new)
    BY <1>2 DEF Published
  <2> HIDE DEF new
  <2> QED   BY <2>3, <2>4 DEF Replaced, Bounds
<1>5. removed' \subseteq Blocks
  BY <1>2, <1>3 DEF Bounds, Published
<1>6. maxGen' \in 0..MaxGeneration
  BY <1>2, HorizonAssumption DEF Bounds, Published
<1>7. publishes' \in 0..MaxPublishes /\ records' \in Nat /\ records' <= publishes'
  BY <1>2, HorizonAssumption DEF Bounds, Published
<1>8. UNCHANGED <<config, epgEnd, nextGen, nextOk, seamsOk, failures>>
  BY <1>2 DEF Published
<1> QED   BY <1>4, <1>5, <1>6, <1>7, <1>8 DEF Bounds, config

LEMMA StepBounds == IInv /\ Clock /\ Bounds /\ [Next]_vars => Bounds'
<1> SUFFICES ASSUME IInv, Clock, Bounds, [Next]_vars  PROVE Bounds'
  OBVIOUS
<1>1. CASE ExtendsEpg
  BY <1>1, EpgBounds DEF IInv, Numbers
<1>2. CASE ExtendsAhead
  BY <1>2, AheadBounds
<1>3. CASE Publishes
  BY <1>3, PublishBounds
<1>4. CASE ExtendsExecution
  BY <1>4, AddsBounds DEF ExtendsExecution, Bounds
<1>5. CASE FillsNext
  <2>1. nextOk' \in BOOLEAN
    BY <1>5 DEF FillsNext
  <2> QED   BY <1>5, <2>1, AddsBounds DEF FillsNext, Bounds
<1>6. CASE Starts
  BY <1>6, AddsBounds DEF Starts, Bounds, store
<1>7. CASE ChecksNext
  <2>1. nextOk' \in BOOLEAN
    BY <1>7 DEF ChecksNext, Bounds
  <2> QED   BY <1>7, <2>1, AddsBounds DEF ChecksNext, Bounds, store
<1>8. CASE ChecksSeams
  <2>1. seamsOk' \in BOOLEAN
    BY <1>8 DEF ChecksSeams, Contiguous
  <2> QED   BY <1>8, <2>1, AddsBounds DEF ChecksSeams, Bounds, store
<1>9. CASE Tick
  BY <1>9, AddsBounds DEF Tick, Bounds, store
<1>10. CASE UNCHANGED vars
  BY <1>10 DEF vars, Bounds
<1> QED
  BY <1>1, <1>2, <1>3, <1>4, <1>5, <1>6, <1>7, <1>8, <1>9, <1>10 DEF Next, Manager

\* ExecutionWindowStore and HorizonManager keep their types: every entry is of a
\* block the horizon has, generations and counts keep their bounds, and
\* epg_window_end_utc_ms and the window's end fall on the end of a day.
THEOREM TypeCorrect == Spec => []TypeOK
<1>1. WindowInv => Clock
  BY DEF WindowInv
<1>2. Spec => [](IInv /\ WindowInv /\ Bounds)
  BY <1>1, InitBounds, StepBounds, InitWindow, StepWindow, Invariance, PTL DEF Spec
<1>3. ASSUME IInv, WindowInv, Bounds  PROVE TypeOK
  <2>1. epgEnd % DayBlocks = 0 /\ windowEnd % DayBlocks = 0
    BY <1>3, WholeDays DEF Bounds, WindowInv, Aligned
  <2>2. records \in 0..MaxPublishes
    BY <1>3, HorizonAssumption DEF Bounds
  <2>3. now \in 0..LastBlock /\ eval.at \in -1..LastBlock
    BY <1>3, HorizonAssumption DEF WindowInv, Clock
  <2>4. eval.pc \in Steps /\ eval.ok \in BOOLEAN
    BY <1>3 DEF IInv, Numbers
  <2> QED   BY <1>3, <2>1, <2>2, <2>3, <2>4 DEF Bounds, TypeOK, Steps
<1> QED   BY <1>2, <1>3, PTL
=============================================================================
