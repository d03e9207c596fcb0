------------------------- MODULE ControlPointProofs -------------------------
(***************************************************************************)
(* Proof that no module is skipped, through any number of stops of the     *)
(* server and resumes: PointInv is inductive.  One process is considered,  *)
(* whose control points have a directory of their own.                     *)
(***************************************************************************)
EXTENDS ControlPoint, DiscompProcessProofs, SequenceTheorems, FiniteSetTheorems

---------------------------------------------------------------------------
(* Covered slots.                                                          *)

\* More slots that ran cover more, and so do fewer stages.
LEMMA BehindMonotone ==
    ASSUME NEW C, NEW D, C \subseteq D, NEW s, NEW k \in Nat, NEW j \in 1..k,
           BehindBy(C, s, k)
    PROVE  BehindBy(D, s, j)
  <1>1. 1..(j - 1) \subseteq 1..(k - 1)
    OBVIOUS
  <1> QED
    BY <1>1 DEF BehindBy, CoveredBy

\* What is safe stays so when more slots have run.
LEMMA SafeMonotone ==
    ASSUME NEW C, NEW D, C \subseteq D
    PROVE  /\ \A pr : ProcessSafe(C, pr) => ProcessSafe(D, pr)
           /\ \A s, f : FileSafe(C, s, f) => FileSafe(D, s, f)
           /\ \A s, q : WritesSafe(C, s, q) => WritesSafe(D, s, q)
  <1>1. \A s, k, x : CoveredBy(C, s, k, x) => CoveredBy(D, s, k, x)
    BY DEF CoveredBy
  <1>2. \A s, k : BehindBy(C, s, k) => BehindBy(D, s, k)
    BY <1>1 DEF BehindBy
  <1>3. \A pr : ProcessSafe(C, pr) => ProcessSafe(D, pr)
    BY <1>1, <1>2 DEF ProcessSafe
  <1>4. \A s, f : FileSafe(C, s, f) => FileSafe(D, s, f)
    BY <1>1, <1>2 DEF FileSafe
  <1>5. \A s, q : WritesSafe(C, s, q) => WritesSafe(D, s, q)
    BY <1>4 DEF WritesSafe
  <1> QED
    BY <1>3, <1>4, <1>5

\* Entering a stage takes no module for done, but those of an empty list.
LEMMA EnterStageSafe ==
    ASSUME NEW C, NEW s \in Scheme, NEW k \in 1..Len(Plan[s]), BehindBy(C, s, k)
    PROVE  ProcessSafe(C, EnterStage(s, k))
  <1>1. IsProcess(EnterStage(s, k))
    BY EnterStageIsProcess
  <1>2. EnterStage(s, k).name = s /\ EnterStage(s, k).stage = k
    BY DEF EnterStage
  <1>3. ASSUME NEW x \in DOMAIN EnterStage(s, k).slots,
               EnterStage(s, k).slots[x].status \in {"done", "stoped", "stopping"}
        PROVE  CoveredBy(C, s, k, x)
    BY <1>3 DEF EnterStage, FreshSlot, CoveredBy
  <1> QED
    BY <1>1, <1>2, <1>3 DEF ProcessSafe

\* A process that settles has left a stage only if it is behind.
LEMMA SettleSafe ==
    ASSUME NEW C, NEW pr, ProcessSafe(C, pr)
    PROVE  ProcessSafe(C, Settle(pr))
  <1>1. CASE StageDone(pr) /\ ~LastStage(pr)
    <2>1. /\ pr.name \in Scheme
          /\ pr.stage \in 1..Len(Plan[pr.name])
          /\ pr.stage + 1 \in 1..Len(Plan[pr.name])
      BY <1>1, PlanAssumption DEF LastStage, IsProcess, ProcessSafe
    <2>2. \A x \in SlotIds(Plan[pr.name][pr.stage]) : CoveredBy(C, pr.name, pr.stage, x)
      BY <1>1 DEF StageDone, Ended, ProcessSafe, IsProcess, StageOf
    <2>3. BehindBy(C, pr.name, pr.stage + 1)
      BY <2>1, <2>2 DEF BehindBy, ProcessSafe
    <2> QED
      BY <1>1, <2>1, <2>3, EnterStageSafe DEF Settle
  <1>2. CASE ~(StageDone(pr) /\ ~LastStage(pr))
    BY <1>2 DEF Settle
  <1> QED
    BY <1>1, <1>2

\* Slots may be replaced by others that are covered or not done.
LEMMA WithSlotsSafe ==
    ASSUME NEW C, NEW pr, ProcessSafe(C, pr), NEW new,
           \A x \in DOMAIN new : new[x] \in Slot,
           \A x \in DOMAIN new \intersect DOMAIN pr.slots :
              new[x].status \in {"done", "stoped", "stopping"} =>
                 CoveredBy(C, pr.name, pr.stage, x)
    PROVE  ProcessSafe(C, WithSlots(pr, new))
  <1>1. /\ IsProcess(WithSlots(pr, new))
        /\ WithSlots(pr, new).name = pr.name
        /\ WithSlots(pr, new).stage = pr.stage
        /\ DOMAIN WithSlots(pr, new).slots = DOMAIN pr.slots
    BY WithSlotsIsProcess DEF ProcessSafe
  <1>2. \A x \in DOMAIN pr.slots :
           WithSlots(pr, new).slots[x] = IF x \in DOMAIN new THEN new[x] ELSE pr.slots[x]
    BY DEF WithSlots
  <1> QED
    BY <1>1, <1>2 DEF ProcessSafe

\* An empty list counts as done.
LEMMA RebuiltSafe ==
    ASSUME NEW C, NEW pr, ProcessSafe(C, pr)
    PROVE  ProcessSafe(C, Rebuilt(pr))
  <1> DEFINE empty == { x \in DOMAIN pr.slots : FirstEmpty(StageOf(pr), x[1]) }
             new == [x \in empty |-> [status |-> "done", node |-> NoNode]]
  <1>1. \A x \in DOMAIN new : new[x] \in Slot
    BY DEF Slot, Status, NoNode
  <1>2. \A x \in DOMAIN new : CoveredBy(C, pr.name, pr.stage, x)
    BY DEF CoveredBy, StageOf
  <1>3. ProcessSafe(C, WithSlots(pr, new))
    BY <1>1, <1>2, WithSlotsSafe
  <1> QED
    BY <1>3 DEF Rebuilt

---------------------------------------------------------------------------
(* Points.                                                                 *)

\* The order of the modules depends on the stage alone.
LEMMA OrderedByStage ==
    ASSUME NEW pr
    PROVE  Ordered(pr) = Ordered(EnterStage(pr.name, pr.stage))
  <1>1. StageOf(EnterStage(pr.name, pr.stage)) = StageOf(pr)
    BY DEF StageOf, EnterStage
  <1> QED
    BY <1>1 DEF Ordered

\* The point of a safe process is safe.
LEMMA PointSafe ==
    ASSUME NEW C, NEW pr, ProcessSafe(C, pr)
    PROVE  FileSafe(C, pr.name, Point(pr))
  <1>1. /\ Point(pr).kind = "point"
        /\ Point(pr).stage = pr.stage
        /\ DOMAIN Point(pr).entries = DOMAIN Ordered(pr)
        /\ \A i \in DOMAIN Ordered(pr) :
              Point(pr).entries[i].done <=> Ordered(pr)[i] \in DoneSlots(pr)
    BY DEF Point
  <1>2. ASSUME NEW i \in DOMAIN Ordered(pr), Point(pr).entries[i].done
        PROVE  CoveredBy(C, pr.name, pr.stage, Ordered(pr)[i])
    BY <1>1, <1>2 DEF DoneSlots, ProcessSafe
  <1>3. pr.stage \in 1..Len(Plan[pr.name]) /\ BehindBy(C, pr.name, pr.stage)
    BY DEF ProcessSafe, IsProcess
  <1> QED
    BY <1>1, <1>2, <1>3, OrderedByStage DEF FileSafe

\* A process that resumes from a safe file is safe.
LEMMA ResumedSafe ==
    ASSUME NEW C, NEW s \in Scheme, NEW f, FileSafe(C, s, f)
    PROVE  ProcessSafe(C, Resumed(s, f))
  <1>1. 1 \in 1..Len(Plan[s]) /\ BehindBy(C, s, 1)
    BY PlanAssumption DEF BehindBy
  <1>2. ProcessSafe(C, EnterStage(s, 1))
    BY <1>1, EnterStageSafe
  <1>3. CASE f.kind = "point"
    <2> DEFINE pr == EnterStage(s, f.stage)
               at == { i \in DOMAIN Ordered(pr) : i \in DOMAIN f.entries }
               new == [x \in { Ordered(pr)[i] : i \in at } |->
                         LET i == CHOOSE i \in at : Ordered(pr)[i] = x
                         IN  [status |-> IF f.entries[i].done THEN "done" ELSE "wait",
                              node |-> NoNode]]
    <2>1. /\ f.stage \in 1..Len(Plan[s])
          /\ BehindBy(C, s, f.stage)
          /\ \A i \in at : f.entries[i].done => CoveredBy(C, s, f.stage, Ordered(pr)[i])
      BY <1>3 DEF FileSafe, Absent, Torn
    <2>2. ProcessSafe(C, pr)
      BY <2>1, EnterStageSafe
    <2>3. pr.name = s /\ pr.stage = f.stage
      BY DEF EnterStage
    <2>4. ASSUME NEW x \in DOMAIN new
          PROVE  /\ new[x] \in Slot
                 /\ new[x].status \in {"done", "stoped", "stopping"} =>
                       CoveredBy(C, s, f.stage, x)
      <3> DEFINE i == CHOOSE i \in at : Ordered(pr)[i] = x
      <3>1. i \in at /\ Ordered(pr)[i] = x
        BY <2>4
      <3>2. new[x] = [status |-> IF f.entries[i].done THEN "done" ELSE "wait",
                      node |-> NoNode]
        BY <2>4
      <3> HIDE DEF i
      <3> QED
        BY <2>1, <3>1, <3>2 DEF Slot, Status, NoNode
    <2> HIDE DEF new
    <2>5. ProcessSafe(C, WithSlots(pr, new))
      BY <2>2, <2>3, <2>4, WithSlotsSafe
    <2>6. Restored(pr, f) = WithSlots(pr, new)
      BY DEF Restored, new
    <2> QED
      BY <1>2, <1>3, <2>5, <2>6 DEF Resumed
  <1>4. CASE f.kind # "point"
    BY <1>2, <1>4 DEF Resumed
  <1> QED
    BY <1>3, <1>4

---------------------------------------------------------------------------
(* Sequences of changes of the file.                                       *)

\* Safe files make safe sequences.
LEMMA WritesOf ==
    ASSUME NEW C, NEW s, NEW S, \A f \in S : FileSafe(C, s, f), NEW q \in Seq(S)
    PROVE  WritesSafe(C, s, q)
  BY DEF WritesSafe, Elements

\* One safe sequence after another is safe.
LEMMA ConcatSafe ==
    ASSUME NEW C, NEW s, NEW q, NEW r, WritesSafe(C, s, q), WritesSafe(C, s, r)
    PROVE  WritesSafe(C, s, q \o r)
  <1> DEFINE S == Elements(q) \union Elements(r)
  <1>1. q \in Seq(S) /\ r \in Seq(S)
    BY DEF WritesSafe, Elements
  <1>2. q \o r \in Seq(S)
    BY <1>1, ConcatProperties
  <1>3. \A f \in S : FileSafe(C, s, f)
    BY DEF WritesSafe
  <1> QED
    BY <1>2, <1>3, WritesOf

\* Saving a safe process, or nothing.
LEMMA SaveSafe ==
    ASSUME NEW C, NEW pr, ProcessSafe(C, pr)
    PROVE  /\ WritesSafe(C, pr.name, <<>>)
           /\ WritesSafe(C, pr.name, Save(pr))
  <1> DEFINE S == {Torn, Point(pr)}
  <1>1. \A f \in S : FileSafe(C, pr.name, f)
    BY PointSafe DEF FileSafe
  <1>2. <<>> \in Seq(S) /\ Save(pr) \in Seq(S)
    BY DEF Save
  <1> QED
    BY <1>1, <1>2, WritesOf

\* What is written when a stage is rebuilt, and when it is finished.
LEMMA StageWritesSafe ==
    ASSUME NEW C, NEW pr, ProcessSafe(C, pr)
    PROVE  /\ WritesSafe(C, pr.name, RebuildWrites(pr))
           /\ WritesSafe(C, pr.name, SettleWrites(pr))
  <1>1. ASSUME NEW qr, ProcessSafe(C, qr)
        PROVE  WritesSafe(C, qr.name, RebuildWrites(qr))
    <2>1. ProcessSafe(C, Rebuilt(qr)) /\ Rebuilt(qr).name = qr.name
      BY <1>1, RebuiltSafe DEF Rebuilt, WithSlots
    <2> QED
      BY <1>1, <2>1, SaveSafe DEF RebuildWrites
  <1>2. ProcessSafe(C, Settle(pr)) /\ Settle(pr).name = pr.name
    BY SettleSafe DEF Settle, EnterStage
  <1>3. WritesSafe(C, pr.name, Save(pr) \o RebuildWrites(Settle(pr)))
    BY <1>1, <1>2, SaveSafe, ConcatSafe
  <1>4. WritesSafe(C, pr.name, SettleWrites(pr))
    BY <1>3, SaveSafe DEF SettleWrites
  <1> QED
    BY <1>1, <1>4

---------------------------------------------------------------------------
(* The steps of the process.                                               *)

Covered == outputs \union stopped

\* DiscompProcess::Init resumes a safe process from a safe file.
LEMMA InitWithSafe ==
    ASSUME NEW s \in Scheme, NEW f, FileSafe(Covered, s, f), InitWith(s, f)
    PROVE  /\ process' = NoProcess \/ ProcessSafe(Covered', process')
           /\ FileSafe(Covered', s, f)
           /\ WritesSafe(Covered', s, todo')
  <1> DEFINE pr == Resumed(s, f)
             first == IF f.kind = "point" THEN Save(pr) ELSE <<Torn, Unexpanded(s)>>
  <1>1. FileSafe(Covered', s, f)
    BY DEF InitWith, Covered, FileSafe
  <1>2. ProcessSafe(Covered', pr) /\ pr.name = s
    BY <1>1, ResumedSafe DEF Resumed, Restored, EnterStage, WithSlots
  <1>3. ProcessSafe(Covered', Rebuilt(pr)) /\ Rebuilt(pr).name = s
    BY <1>2, RebuiltSafe DEF Rebuilt, WithSlots
  <1>4. process' = NoProcess \/ ProcessSafe(Covered', process')
    BY <1>3, SettleSafe DEF InitWith, Becomes
  <1>5. WritesSafe(Covered', s, <<Absent>>)
    <2>1. \A g \in {Absent} : FileSafe(Covered', s, g)
      BY DEF FileSafe
    <2>2. <<Absent>> \in Seq({Absent})
      OBVIOUS
    <2> QED
      BY <2>1, <2>2, WritesOf
  <1>6. WritesSafe(Covered', s, <<Torn, Unexpanded(s)>>)
    <2>1. /\ Unexpanded(s).kind = "point"
          /\ Unexpanded(s).stage = 1
          /\ \A i \in DOMAIN Unexpanded(s).entries : ~Unexpanded(s).entries[i].done
      BY DEF Unexpanded
    <2>2. 1 \in 1..Len(Plan[s]) /\ BehindBy(Covered', s, 1)
      BY PlanAssumption DEF BehindBy
    <2>3. \A g \in {Torn, Unexpanded(s)} : FileSafe(Covered', s, g)
      BY <2>1, <2>2 DEF FileSafe
    <2>4. <<Torn, Unexpanded(s)>> \in Seq({Torn, Unexpanded(s)})
      OBVIOUS
    <2> QED
      BY <2>3, <2>4, WritesOf
  <1>7. WritesSafe(Covered', s, first)
    BY <1>2, <1>6, SaveSafe
  <1>8. WritesSafe(Covered', s, RebuildWrites(pr))
    BY <1>2, StageWritesSafe
  <1>9. WritesSafe(Covered', s, SettleWrites(Rebuilt(pr)))
    BY <1>3, StageWritesSafe
  <1>10. todo' = <<Absent>> \o first \o RebuildWrites(pr) \o SettleWrites(Rebuilt(pr))
    BY DEF InitWith
  <1> HIDE DEF first, pr
  <1>11. WritesSafe(Covered', s, <<Absent>> \o first)
    BY <1>5, <1>7, ConcatSafe
  <1>12. WritesSafe(Covered', s, <<Absent>> \o first \o RebuildWrites(pr))
    BY <1>8, <1>11, ConcatSafe
  <1> QED
    BY <1>1, <1>4, <1>9, <1>10, <1>12, ConcatSafe

\* A module that ends is covered then, and what its handler does keeps the
\* process safe.
LEMMA EndSlotSafe ==
    ASSUME process # NoProcess, ProcessSafe(Covered, process),
           NEW x \in DOMAIN process.slots, NEW st \in Ended,
           Covered \subseteq Covered',
           st = "done" => CoveredBy(Covered', process.name, process.stage, x),
           stopped \subseteq stopped',
           EndSlot(x, st)
    PROVE  /\ process' = NoProcess \/ ProcessSafe(Covered', process')
           /\ WritesSafe(Covered', process.name, todo')
  <1>1. PICK X \in PluginStops(process), k \in PluginGotos(process) :
           LET asked == StopSlots(Ending(x, st), X)
               next == WentTo(asked, k)
               entered == EnterStage(process.name, k)
           IN  /\ Becomes(next)
               /\ todo' = (IF k = 0 THEN <<>>
                                    ELSE RebuildWrites(entered) \o SettleWrites(entered))
                          \o Save(next) \o SettleWrites(next)
               /\ stopped' = stopped \union
                      Here((X \intersect Slots({"wait", "started"})) \ {x})
                      \union IF st = "stoped" THEN Here({x}) ELSE {}
    BY DEF EndSlot
  <1> DEFINE ending == Ending(x, st)
             asked == StopSlots(ending, X)
             entered == EnterStage(process.name, k)
             next == WentTo(asked, k)
  <1>2. ProcessSafe(Covered', process)
    BY SafeMonotone
  <1>3. /\ process.name \in Scheme
        /\ process.stage \in 1..Len(Plan[process.name])
        /\ BehindBy(Covered', process.name, process.stage)
    BY <1>2 DEF ProcessSafe, IsProcess
  <1>4. CoveredBy(Covered', process.name, process.stage, x)
    BY <1>1 DEF CoveredBy, Covered, Here, Ended
  <1>5. /\ ending.name = process.name
        /\ ending.stage = process.stage
        /\ DOMAIN ending.slots = DOMAIN process.slots
        /\ ending.slots[x].status = st
        /\ \A y \in DOMAIN process.slots \ {x} : ending.slots[y] = process.slots[y]
    BY DEF Ending, WithSlots
  <1>6. ProcessSafe(Covered', ending)
    <2> DEFINE new == [y \in {x} |-> [status |-> st, node |-> 1]]
    <2>1. \A y \in DOMAIN new : new[y] \in Slot
      BY DEF Slot, Status, Ended
    <2>2. \A y \in DOMAIN new : CoveredBy(Covered', process.name, process.stage, y)
      BY <1>4
    <2>3. ProcessSafe(Covered', WithSlots(process, new))
      BY <1>2, <2>1, <2>2, WithSlotsSafe
    <2> QED
      BY <2>3 DEF Ending
  <1>7. \A y \in X \ {x} : /\ y \in DOMAIN process.slots
                           /\ ending.slots[y].status \in {"wait", "started"} =>
                                 CoveredBy(Covered', process.name, process.stage, y)
    <2>1. X \subseteq DOMAIN process.slots
      BY PluginStopsSlots
    <2>2. \A y \in (X \intersect Slots({"wait", "started"})) \ {x} :
             CoveredBy(Covered', process.name, process.stage, y)
      BY <1>1 DEF Here, CoveredBy, Covered
    <2> QED
      BY <1>5, <2>1, <2>2 DEF Slots
  <1>8. ProcessSafe(Covered', asked) /\ asked.name = process.name /\ asked.stage = process.stage
    <2> DEFINE stoppable == { y \in X : ending.slots[y].status \in {"wait", "started"} }
               new == [y \in stoppable |->
                         [status |-> IF ending.slots[y].status = "wait" THEN "stoped"
                                                                        ELSE "stopping",
                          node |-> ending.slots[y].node]]
    <2>1. \A y \in DOMAIN new : y \in DOMAIN ending.slots /\ y # x
      BY <1>5, <1>7 DEF Ended
    <2>2. \A y \in DOMAIN ending.slots : ending.slots[y].node \in Nat
      BY <1>6 DEF ProcessSafe, IsProcess, Slot
    <2>3. \A y \in DOMAIN new : new[y] \in Slot
      BY <2>1, <2>2 DEF Slot, Status
    <2>4. \A y \in DOMAIN new : CoveredBy(Covered', ending.name, ending.stage, y)
      BY <1>5, <1>7, <2>1
    <2>5. asked = WithSlots(ending, new)
      BY DEF StopSlots
    <2> HIDE DEF new
    <2>6. ProcessSafe(Covered', WithSlots(ending, new))
      BY <1>6, <2>3, <2>4, WithSlotsSafe
    <2> QED
      BY <1>5, <2>5, <2>6 DEF WithSlots
  <1>9. CASE k = 0
    <2>1. next = asked
      BY <1>9 DEF WentTo
    <2>2. todo' = <<>> \o Save(next) \o SettleWrites(next) /\ Becomes(next)
      BY <1>1, <1>9
    <2> HIDE DEF next, asked
    <2>3. /\ WritesSafe(Covered', process.name, <<>>)
          /\ WritesSafe(Covered', process.name, Save(next))
          /\ WritesSafe(Covered', process.name, SettleWrites(next))
      BY <1>8, <2>1, SaveSafe, StageWritesSafe
    <2>4. WritesSafe(Covered', process.name, todo')
      BY <2>2, <2>3, ConcatSafe
    <2>5. process' = NoProcess \/ ProcessSafe(Covered', process')
      BY <1>8, <2>1, <2>2, SettleSafe DEF Becomes
    <2> QED
      BY <2>4, <2>5
  <1>10. CASE k # 0
    <2>1. k \in 1..process.stage
      BY <1>10 DEF PluginGotos
    <2>2. ProcessSafe(Covered', entered)
      <3>1. k \in 1..Len(Plan[process.name]) /\ BehindBy(Covered', process.name, k)
        BY <1>3, <2>1, BehindMonotone
      <3> QED
        BY <1>3, <3>1, EnterStageSafe
    <2>3. next = Settle(entered)
      BY <1>8, <1>10 DEF WentTo
    <2>4. ProcessSafe(Covered', next) /\ entered.name = process.name /\ next.name = process.name
      BY <2>2, <2>3, SettleSafe DEF Settle, EnterStage
    <2>5. /\ todo' = RebuildWrites(entered) \o SettleWrites(entered) \o Save(next) \o SettleWrites(next)
          /\ Becomes(next)
      BY <1>1, <1>10
    <2> HIDE DEF next, entered
    <2>6. /\ WritesSafe(Covered', process.name, RebuildWrites(entered))
          /\ WritesSafe(Covered', process.name, SettleWrites(entered))
          /\ WritesSafe(Covered', process.name, Save(next))
          /\ WritesSafe(Covered', process.name, SettleWrites(next))
      BY <2>2, <2>4, SaveSafe, StageWritesSafe
    <2>7. WritesSafe(Covered', process.name, RebuildWrites(entered) \o SettleWrites(entered))
      BY <2>6, ConcatSafe
    <2>8. WritesSafe(Covered', process.name,
                     RebuildWrites(entered) \o SettleWrites(entered) \o Save(next))
      BY <2>6, <2>7, ConcatSafe
    <2>9. WritesSafe(Covered', process.name, todo')
      BY <2>5, <2>6, <2>8, ConcatSafe
    <2>10. process' = NoProcess \/ ProcessSafe(Covered', process')
      BY <2>4, <2>5, SettleSafe DEF Becomes
    <2> QED
      BY <2>9, <2>10
  <1> QED
    BY <1>9, <1>10

\* Every step keeps PointInv, if there is one process only.
LEMMA PointStep ==
    ASSUME NEW only, Scheme = {only}, PointInv, [PointNext]_pointVars
    PROVE  PointInv'
  <1> USE DEF Covered
  <1>0. /\ crashes \in 0..MaxCrashes /\ MaxCrashes \in Nat
        /\ process = NoProcess \/ ProcessSafe(Covered, process)
        /\ FileSafe(Covered, only, file)
        /\ WritesSafe(Covered, only, todo)
    BY CrashAssumption DEF PointInv
  <1>1. ASSUME process # NoProcess PROVE process.name = only
    BY <1>0, <1>1 DEF ProcessSafe, IsProcess
  <1>2. ASSUME /\ crashes' \in 0..MaxCrashes
               /\ process' = NoProcess \/ ProcessSafe(Covered', process')
               /\ FileSafe(Covered', only, file')
               /\ WritesSafe(Covered', only, todo')
        PROVE  PointInv'
    BY <1>2 DEF PointInv
  <1>3. ASSUME UNCHANGED <<file, todo, outputs, stopped, crashes>>,
               process' = NoProcess \/ ProcessSafe(Covered, process')
        PROVE  PointInv'
    BY <1>0, <1>2, <1>3
  <1>4. ASSUME NEW s \in Scheme, StartProcess(s)
        PROVE  PointInv'
    <2>1. FileSafe(Covered, s, file) /\ s = only
      BY <1>0
    <2> QED
      BY <1>0, <1>2, <1>4, <2>1, InitWithSafe DEF StartProcess
  <1>5. ASSUME NEW s \in Scheme, StartAnew(s)
        PROVE  PointInv'
    <2>1. FileSafe(Covered, s, Absent) /\ s = only
      BY DEF FileSafe
    <2> QED
      BY <1>0, <1>2, <1>5, <2>1, InitWithSafe DEF StartAnew
  <1>6. CASE StopProcess
    BY <1>3, <1>6 DEF StopProcess
  <1>7. ASSUME NEW S, NEW x \in Slots(S)
        PROVE  /\ process # NoProcess
               /\ ProcessSafe(Covered, process)
               /\ x \in DOMAIN process.slots
               /\ process.slots[x].status \in S
    BY <1>0, <1>7 DEF Slots
  <1>8. CASE GiveJob
    <2> DEFINE next == Settle(process)
    <2>1. ProcessSafe(Covered, process) /\ process.name = only
      BY <1>0, <1>1, <1>8 DEF GiveJob
    <2>2. ProcessSafe(Covered, next) /\ WritesSafe(Covered, only, SettleWrites(process))
      BY <2>1, SettleSafe, StageWritesSafe
    <2> HIDE DEF next
    <2>3. ASSUME NEW x PROVE ProcessSafe(Covered, StartSlot(next, x, 1))
      <3> DEFINE new == [y \in {x} |-> [status |-> "started", node |-> 1]]
      <3>1. \A y \in DOMAIN new : new[y] \in Slot
        BY DEF Slot, Status
      <3>2. ProcessSafe(Covered, WithSlots(next, new))
        BY <2>2, <3>1, WithSlotsSafe
      <3> QED
        BY <3>2 DEF StartSlot
    <2>4. process' = NoProcess \/ ProcessSafe(Covered, process')
      BY <1>8, <2>2, <2>3 DEF GiveJob, Becomes, next
    <2>5. todo' = SettleWrites(process) /\ UNCHANGED <<file, outputs, stopped, crashes>>
      BY <1>8 DEF GiveJob
    <2> QED
      BY <1>0, <1>2, <2>2, <2>4, <2>5
  <1>9. ASSUME NEW x, LoseJob(x)
        PROVE  PointInv'
    <2> DEFINE new == [y \in {x} |-> [status |-> "wait", node |-> NoNode]]
    <2>1. \A y \in DOMAIN new : new[y] \in Slot
      BY DEF Slot, Status, NoNode
    <2>2. ProcessSafe(Covered, WithSlots(process, new))
      BY <1>7, <1>9, <2>1, WithSlotsSafe DEF LoseJob
    <2> QED
      BY <1>3, <1>9, <2>2 DEF LoseJob
  <1>10. ASSUME NEW x, NEW st, EndSlot(x, st)
         PROVE  stopped \subseteq stopped'
    BY <1>10 DEF EndSlot
  <1>11. ASSUME NEW x, ModuleFinished(x)
         PROVE  PointInv'
    <2>1. x \in Slots({"started"}) /\ EndSlot(x, "done")
          /\ outputs' = outputs \union Here({x}) /\ UNCHANGED <<file, crashes>>
      BY <1>11 DEF ModuleFinished
    <2>2. Covered \subseteq Covered' /\ stopped \subseteq stopped'
      BY <1>10, <2>1
    <2>3. CoveredBy(Covered', process.name, process.stage, x)
      BY <2>1 DEF CoveredBy, Here
    <2> QED
      BY <1>0, <1>1, <1>2, <1>7, <2>1, <2>2, <2>3, EndSlotSafe, SafeMonotone DEF Ended
  <1>12. ASSUME NEW x, StoppedModuleFinished(x)
         PROVE  PointInv'
    <2>1. x \in Slots({"stopping"}) /\ EndSlot(x, "done") /\ UNCHANGED <<file, outputs, crashes>>
      BY <1>12 DEF StoppedModuleFinished
    <2>2. Covered \subseteq Covered' /\ stopped \subseteq stopped'
      BY <1>10, <2>1
    <2>3. CoveredBy(Covered, process.name, process.stage, x)
      BY <1>7, <2>1 DEF ProcessSafe
    <2>4. CoveredBy(Covered', process.name, process.stage, x)
      BY <2>2, <2>3 DEF CoveredBy
    <2> QED
      BY <1>0, <1>1, <1>2, <1>7, <2>1, <2>2, <2>4, EndSlotSafe, SafeMonotone DEF Ended
  <1>13. ASSUME NEW x, MaxTimeReached(x)
         PROVE  PointInv'
    <2>1. x \in Slots({"started"}) /\ EndSlot(x, "stoped") /\ UNCHANGED <<file, outputs, crashes>>
      BY <1>13 DEF MaxTimeReached
    <2>2. Covered \subseteq Covered' /\ stopped \subseteq stopped'
      BY <1>10, <2>1
    <2> QED
      BY <1>0, <1>1, <1>2, <1>7, <2>1, <2>2, EndSlotSafe, SafeMonotone DEF Ended
  <1>14. CASE Write
    <2>1. todo # <<>> /\ file' = Head(todo) /\ todo' = Tail(todo)
          /\ UNCHANGED <<process, outputs, stopped, crashes>>
      BY <1>14 DEF Write
    <2>2. todo \in Seq(Elements(todo)) /\ \A f \in Elements(todo) : FileSafe(Covered, only, f)
      BY <1>0 DEF WritesSafe
    <2>3. Head(todo) \in Elements(todo) /\ Tail(todo) \in Seq(Elements(todo))
      BY <2>1, <2>2
    <2>4. WritesSafe(Covered, only, Tail(todo)) /\ FileSafe(Covered, only, Head(todo))
      BY <2>2, <2>3, WritesOf
    <2> QED
      BY <1>0, <1>2, <2>1, <2>4
  <1>15. CASE Crash
    <2>1. /\ crashes' \in 0..MaxCrashes
          /\ process' = NoProcess
          /\ todo' = <<>>
          /\ UNCHANGED <<file, outputs, stopped>>
      BY <1>0, <1>15 DEF Crash
    <2>2. WritesSafe(Covered, only, <<>>)
      <3>1. <<>> \in Seq({})
        OBVIOUS
      <3> QED
        BY <3>1, WritesOf
    <2> QED
      BY <1>0, <1>2, <2>1, <2>2
  <1>16. CASE UNCHANGED pointVars
    BY <1>0, <1>2, <1>16 DEF pointVars
  <1> QED
    BY <1>4, <1>5, <1>6, <1>8, <1>9, <1>11, <1>12, <1>13, <1>14, <1>15, <1>16 DEF PointNext

\* What the invariant says of the process is NothingSkipped; with the type of
\* the file it is PointTypeOK.
LEMMA PointInvImplies ==
    ASSUME NEW only, Scheme = {only}, PointInv
    PROVE  NothingSkipped /\ PointTypeOK
  <1>1. /\ crashes \in 0..MaxCrashes
        /\ process = NoProcess \/ ProcessSafe(Covered, process)
        /\ FileSafe(Covered, only, file)
        /\ \A f \in Elements(todo) : FileSafe(Covered, only, f)
    BY DEF PointInv, Covered, WritesSafe
  <1>2. NothingSkipped
    <2> SUFFICES ASSUME process # NoProcess PROVE NothingSkipped
      BY DEF NothingSkipped
    <2> DEFINE s == process.name
               behind == UNION { { <<k, x>> : x \in SlotIds(Plan[s][k]) } :
                                   k \in 1..(process.stage - 1) }
               here == Here(DOMAIN process.slots)
               empty == { t \in behind \union here : FirstEmpty(Plan[s][t[1]], t[2][1]) }
    <2>1. ProcessSafe(Covered, process)
      BY <1>1
    <2>2. ASSUME NEW t \in behind
          PROVE  t \in Covered \union empty
      <3>1. PICK k \in 1..(process.stage - 1) : \E x \in SlotIds(Plan[s][k]) : t = <<k, x>>
        OBVIOUS
      <3>2. PICK x \in SlotIds(Plan[s][k]) : t = <<k, x>>
        BY <3>1
      <3>3. CoveredBy(Covered, s, k, x)
        BY <2>1 DEF ProcessSafe, BehindBy
      <3> QED
        BY <2>2, <3>2, <3>3 DEF CoveredBy
    <2>3. ASSUME NEW t \in Here(DoneSlots(process))
          PROVE  t \in Covered \union empty
      <3>1. PICK x \in DoneSlots(process) : t = <<process.stage, x>>
        BY DEF Here
      <3>2. x \in DOMAIN process.slots /\ CoveredBy(Covered, s, process.stage, x)
        BY <2>1 DEF ProcessSafe, DoneSlots
      <3>3. t \in here
        BY <3>1, <3>2 DEF Here
      <3> QED
        BY <3>1, <3>2, <3>3 DEF CoveredBy
    <2> HIDE DEF empty
    <2>4. behind \union Here(DoneSlots(process)) \subseteq Covered \union empty
      BY <2>2, <2>3
    <2> QED
      BY <2>4 DEF NothingSkipped, Covered, empty
  <1>3. PointTypeOK
    <2>1. process = NoProcess \/ IsProcess(process)
      BY <1>1 DEF ProcessSafe
    <2>2. ASSUME NEW f, FileSafe(Covered, only, f)
          PROVE  \/ f \in {Absent, Torn}
                 \/ f.kind = "point" /\ \E s \in Scheme : f.stage \in DOMAIN Plan[s]
      <3>1. DOMAIN Plan[only] = 1..Len(Plan[only])
        BY PlanAssumption
      <3> QED
        BY <2>2, <3>1 DEF FileSafe
    <2> QED
      BY <1>1, <2>1, <2>2 DEF PointTypeOK, Elements
  <1> QED
    BY <1>2, <1>3

\* Nothing has run when the server starts for the first time.
LEMMA PointInitSafe == PointInit => PointInv
  <1> SUFFICES ASSUME PointInit PROVE PointInv
    OBVIOUS
  <1>1. crashes \in 0..MaxCrashes /\ process = NoProcess
    BY CrashAssumption DEF PointInit
  <1>2. \A s : FileSafe(outputs \union stopped, s, file)
    BY DEF PointInit, FileSafe
  <1>3. \A s : WritesSafe(outputs \union stopped, s, todo)
    <2>1. todo \in Seq({})
      BY DEF PointInit
    <2> QED
      BY <2>1, WritesOf
  <1> QED
    BY <1>1, <1>2, <1>3 DEF PointInv

\* The file, what will be written and the live process never count a module
\* as done that neither ran nor was stopped (DiscompProcessControlPoint).
THEOREM PointsStaySafe ==
    ASSUME NEW only, Scheme = {only}
    PROVE  PointSpec => []PointInv
  <1>1. PointInit => PointInv
    BY PointInitSafe
  <1>2. PointInv /\ [PointNext]_pointVars => PointInv'
    BY PointStep
  <1> QED
    BY <1>1, <1>2, PTL DEF PointSpec

\* A process that is resumed any number of times, from a file the server may
\* have left at any step of writing it, skips no module: what lies behind it
\* ran, was stopped on purpose, or is an empty list.
THEOREM ResumeSkipsNothing ==
    ASSUME NEW only, Scheme = {only}
    PROVE  PointSpec => []NothingSkipped
  <1>1. PointInv => NothingSkipped
    BY PointInvImplies
  <1> QED
    BY <1>1, PointsStaySafe, PTL

\* Process, file and bound keep their types (process_controlpoint.cpp).
THEOREM PointTypesCorrect ==
    ASSUME NEW only, Scheme = {only}
    PROVE  PointSpec => []PointTypeOK
  <1>1. PointInv => PointTypeOK
    BY PointInvImplies
  <1> QED
    BY <1>1, PointsStaySafe, PTL

---------------------------------------------------------------------------
(* A readable point is left, or on its way, whenever there are results.    *)

\* What the file is once the running handler has written.
LastWrite == IF todo = <<>> THEN file ELSE todo[Len(todo)]

\* Changes of the file that leave f, and that leave a point.
EndsWith(q, f) ==
    /\ q \in Seq(Elements(q))
    /\ q # <<>>
    /\ q[Len(q)] = f

EndsInPoint(q) == EndsWith(q, q[Len(q)]) /\ q[Len(q)].kind = "point"

\* The handlers that write leave a point, and a live process, or results of one
\* whose writes were not cut off, have one.
ResumeInv ==
    /\ todo = <<>> \/ EndsInPoint(todo)
    /\ process # NoProcess \/ (intact /\ outputs # {}) => LastWrite.kind = "point"

\* A sequence is one of its elements.
LEMMA SeqOfElements ==
    ASSUME NEW S, NEW q \in Seq(S)
    PROVE  q \in Seq(Elements(q))
  <1>1. q \in [1..Len(q) -> Elements(q)] /\ Len(q) \in Nat
    BY DEF Elements
  <1> QED
    BY <1>1, SeqDef

\* More changes after others.
LEMMA ConcatEndsWith ==
    ASSUME NEW q, NEW r, NEW f, EndsWith(r, f), q = <<>> \/ q \in Seq(Elements(q))
    PROVE  EndsWith(q \o r, f)
  <1> DEFINE S == Elements(q) \union Elements(r)
  <1>1. q \in Seq(S) /\ r \in Seq(S)
    <2>1. Elements(q) \subseteq S /\ Elements(r) \subseteq S
      OBVIOUS
    <2>2. r \in Seq(Elements(r)) /\ (q = <<>> \/ q \in Seq(Elements(q)))
      BY DEF EndsWith
    <2> HIDE DEF S
    <2>3. r \in Seq(S)
      BY <2>1, <2>2, SeqMonotonic
    <2>4. q = <<>> => q \in Seq(S)
      BY EmptySeq
    <2>5. q \in Seq(Elements(q)) => q \in Seq(S)
      BY <2>1, SeqMonotonic
    <2> QED
      BY <2>2, <2>3, <2>4, <2>5
  <1>2. /\ q \o r \in Seq(S)
        /\ Len(q \o r) = Len(q) + Len(r)
        /\ \A i \in 1..Len(q) + Len(r) :
              (q \o r)[i] = IF i <= Len(q) THEN q[i] ELSE r[i - Len(q)]
    BY <1>1, ConcatProperties
  <1>3. Len(q) \in Nat /\ Len(r) \in Nat /\ Len(r) > 0
    BY <1>1, EmptySeq DEF EndsWith
  <1>4. (q \o r)[Len(q) + Len(r)] = r[Len(r)]
    BY <1>2, <1>3
  <1>5. q \o r \in Seq(Elements(q \o r))
    BY <1>2, SeqOfElements
  <1> QED
    BY <1>2, <1>3, <1>4, <1>5, EmptySeq DEF EndsWith

\* Changes that leave a point after others, or followed by none.
LEMMA ConcatEndsInPoint ==
    ASSUME NEW q, NEW r, EndsInPoint(r), q = <<>> \/ q \in Seq(Elements(q))
    PROVE  EndsInPoint(q \o r)
  BY ConcatEndsWith DEF EndsInPoint, EndsWith

\* A list that ends in a point, followed by nothing or by another such list.
LEMMA ConcatNothing ==
    ASSUME NEW q, EndsInPoint(q), NEW r, r = <<>> \/ EndsInPoint(r)
    PROVE  EndsInPoint(q \o r)
  <1>1. CASE r = <<>>
    <2>1. q \o r = q
      BY <1>1, ConcatEmptySeq DEF EndsInPoint, EndsWith
    <2> QED
      BY <2>1
  <1>2. CASE EndsInPoint(r)
    BY <1>2, ConcatEndsInPoint DEF EndsInPoint, EndsWith
  <1> QED
    BY <1>1, <1>2

\* File::save, and what Create writes of a fresh process, leave a point.
LEMMA SaveEndsWith ==
    /\ \A pr : EndsWith(Save(pr), Point(pr))
    /\ \A s : EndsWith(<<Torn, Unexpanded(s)>>, Unexpanded(s))
  <1>1. ASSUME NEW f
        PROVE  EndsWith(<<Torn, f>>, f)
    <2>1. <<Torn, f>> \in Seq({Torn, f}) /\ Len(<<Torn, f>>) = 2 /\ <<Torn, f>>[2] = f
      OBVIOUS
    <2>2. <<Torn, f>> \in Seq(Elements(<<Torn, f>>)) /\ <<Torn, f>> # <<>>
      BY <2>1, SeqOfElements
    <2> QED
      BY <2>1, <2>2 DEF EndsWith
  <1> QED
    BY <1>1 DEF Save

\* What a save writes ends in a point.
LEMMA SaveEndsInPoint ==
    /\ \A pr : EndsInPoint(Save(pr))
    /\ \A s : EndsInPoint(<<Torn, Unexpanded(s)>>)
  <1>1. \A q, f : EndsWith(q, f) /\ f.kind = "point" => EndsInPoint(q)
    BY DEF EndsInPoint, EndsWith
  <1>2. /\ \A pr : Point(pr).kind = "point"
        /\ \A s : Unexpanded(s).kind = "point"
    BY DEF Point, Unexpanded
  <1> QED
    BY <1>1, <1>2, SaveEndsWith

\* Rebuilding or finishing a stage writes nothing, or leaves a point.
LEMMA StageWritesEndInPoint ==
    ASSUME NEW pr
    PROVE  /\ RebuildWrites(pr) = <<>> \/ EndsInPoint(RebuildWrites(pr))
           /\ SettleWrites(pr) = <<>> \/ EndsInPoint(SettleWrites(pr))
  <1>1. \A qr : RebuildWrites(qr) = <<>> \/ EndsInPoint(RebuildWrites(qr))
    BY SaveEndsInPoint DEF RebuildWrites
  <1>2. EndsInPoint(Save(pr) \o RebuildWrites(Settle(pr)))
    BY <1>1, SaveEndsInPoint, ConcatNothing
  <1> QED
    BY <1>1, <1>2 DEF SettleWrites

\* DiscompProcess::Init leaves a point.
LEMMA InitEndsInPoint ==
    ASSUME NEW s, NEW f, InitWith(s, f)
    PROVE  EndsInPoint(todo')
  <1> DEFINE pr == Resumed(s, f)
             first == IF f.kind = "point" THEN Save(pr) ELSE <<Torn, Unexpanded(s)>>
  <1>1. EndsInPoint(first)
    BY SaveEndsInPoint
  <1>2. todo' = <<Absent>> \o first \o RebuildWrites(pr) \o SettleWrites(Rebuilt(pr))
    BY DEF InitWith
  <1> HIDE DEF first, pr
  <1>3. <<Absent>> \in Seq(Elements(<<Absent>>))
    BY DEF Elements
  <1>4. EndsInPoint(<<Absent>> \o first)
    BY <1>1, <1>3, ConcatEndsInPoint
  <1>5. EndsInPoint(<<Absent>> \o first \o RebuildWrites(pr))
    BY <1>4, StageWritesEndInPoint, ConcatNothing
  <1> QED
    BY <1>2, <1>5, StageWritesEndInPoint, ConcatNothing

\* So does the end of a module, at the stage it was in or back at another.
LEMMA EndSlotEndsInPoint ==
    ASSUME NEW x, NEW st, EndSlot(x, st)
    PROVE  EndsInPoint(todo')
  <1>1. PICK k, next, entered :
           todo' = (IF k = 0 THEN <<>> ELSE RebuildWrites(entered) \o SettleWrites(entered))
                   \o Save(next) \o SettleWrites(next)
    BY DEF EndSlot
  <1> DEFINE first == IF k = 0 THEN <<>> ELSE RebuildWrites(entered) \o SettleWrites(entered)
  <1>2. first = <<>> \/ EndsInPoint(first)
    <2>1. CASE RebuildWrites(entered) = <<>>
      <3>1. SettleWrites(entered) = <<>> =>
               RebuildWrites(entered) \o SettleWrites(entered) = <<>>
        BY <2>1
      <3>2. EndsInPoint(SettleWrites(entered)) =>
               EndsInPoint(RebuildWrites(entered) \o SettleWrites(entered))
        BY <2>1, ConcatEndsInPoint
      <3> QED
        BY <3>1, <3>2, StageWritesEndInPoint
    <2>2. CASE EndsInPoint(RebuildWrites(entered))
      BY <2>2, StageWritesEndInPoint, ConcatNothing
    <2> QED
      BY <2>1, <2>2, StageWritesEndInPoint
  <1> HIDE DEF first
  <1>3. EndsInPoint(first \o Save(next))
    BY <1>2, SaveEndsInPoint, ConcatEndsInPoint DEF EndsInPoint, EndsWith
  <1>4. EndsInPoint(first \o Save(next) \o SettleWrites(next))
    BY <1>3, StageWritesEndInPoint, ConcatNothing
  <1> QED
    BY <1>1, <1>4 DEF first

\* A change that is made leaves the last one to come.
LEMMA WriteLast ==
    ASSUME NEW f, EndsWith(todo, f), file' = Head(todo), todo' = Tail(todo)
    PROVE  LastWrite' = f /\ (todo' = <<>> \/ EndsWith(todo', f))
  <1>1. todo \in Seq(Elements(todo)) /\ todo # <<>> /\ todo[Len(todo)] = f
    BY DEF EndsWith
  <1>2. /\ Tail(todo) \in Seq(Elements(todo))
        /\ Len(Tail(todo)) = Len(todo) - 1
        /\ Len(todo) \in Nat
        /\ \A i \in 1..(Len(todo) - 1) : Tail(todo)[i] = todo[i + 1]
    BY <1>1, HeadTailProperties
  <1>3. CASE Tail(todo) = <<>>
    <2>1. Len(Tail(todo)) = 0
      BY <1>3, EmptySeq
    <2>2. Len(todo) = 1
      BY <1>2, <2>1
    <2>3. Head(todo) = f
      BY <1>1, <2>2
    <2> QED
      BY <1>3, <2>3 DEF LastWrite
  <1>4. CASE Tail(todo) # <<>>
    <2>1. Len(todo) > 1
      BY <1>2, <1>4, EmptySeq
    <2>2. Tail(todo)[Len(todo) - 1] = f
      BY <1>1, <1>2, <2>1
    <2>3. EndsWith(Tail(todo), f)
      BY <1>2, <1>4, <2>2, SeqOfElements DEF EndsWith
    <2> QED
      BY <1>4, <2>3 DEF LastWrite, EndsWith
  <1> QED
    BY <1>3, <1>4

\* Every step keeps ResumeInv.
LEMMA ResumeStep ==
    ASSUME ResumeInv, [PointNext]_pointVars
    PROVE  ResumeInv'
  <1>1. ASSUME EndsInPoint(todo') PROVE ResumeInv'
    BY <1>1 DEF ResumeInv, LastWrite, EndsInPoint, EndsWith
  <1>2. ASSUME NEW s, StartProcess(s) \/ StartAnew(s) PROVE ResumeInv'
    BY <1>1, <1>2, InitEndsInPoint DEF StartProcess, StartAnew
  <1>3. ASSUME NEW x, ModuleFinished(x) \/ StoppedModuleFinished(x) \/ MaxTimeReached(x)
        PROVE  ResumeInv'
    BY <1>1, <1>3, EndSlotEndsInPoint
       DEF ModuleFinished, StoppedModuleFinished, MaxTimeReached
  <1>4. ASSUME process # NoProcess, UNCHANGED <<file, todo>>
        PROVE  ResumeInv'
    <2>1. LastWrite' = LastWrite /\ LastWrite.kind = "point"
      BY <1>4 DEF ResumeInv, LastWrite
    <2>2. todo' = <<>> \/ EndsInPoint(todo')
      BY <1>4 DEF ResumeInv
    <2> QED
      BY <2>1, <2>2 DEF ResumeInv
  <1>5. ASSUME NEW x, LoseJob(x) \/ StopProcess
        PROVE  ResumeInv'
    BY <1>4, <1>5 DEF LoseJob, StopProcess, Slots
  <1>9. CASE GiveJob
    <2>1. process # NoProcess /\ todo = <<>> /\ UNCHANGED file
          /\ (todo' = <<>> \/ EndsInPoint(todo'))
      BY <1>9, StageWritesEndInPoint DEF GiveJob, Ready
    <2> QED
      BY <1>1, <1>4, <2>1
  <1>6. CASE Write
    <2>1. EndsInPoint(todo) /\ EndsWith(todo, LastWrite)
          /\ file' = Head(todo) /\ todo' = Tail(todo)
      BY <1>6 DEF Write, ResumeInv, LastWrite, EndsInPoint, EndsWith
    <2>2. LastWrite.kind = "point"
      BY <2>1 DEF EndsInPoint, EndsWith
    <2>3. LastWrite' = LastWrite /\ (todo' = <<>> \/ EndsWith(todo', LastWrite))
      BY <2>1, WriteLast
    <2> QED
      BY <2>2, <2>3 DEF ResumeInv, EndsInPoint, EndsWith
  <1>7. CASE Crash
    BY <1>7 DEF Crash, ResumeInv, LastWrite
  <1>8. CASE UNCHANGED pointVars
    BY <1>8 DEF pointVars, ResumeInv, LastWrite
  <1> QED
    BY <1>2, <1>3, <1>5, <1>6, <1>7, <1>8, <1>9 DEF PointNext

\* A process with results can be resumed, unless the server stopped while the
\* file was being rewritten: every handler that changes the file leaves a
\* point in it (DiscompProcessControlPoint::Create), for any plans and stops.
THEOREM ResultsCanBeResumed == PointSpec => []ResumePossible
  <1>1. PointInit => ResumeInv
    BY DEF PointInit, ResumeInv
  <1>2. ResumeInv /\ [PointNext]_pointVars => ResumeInv'
    BY ResumeStep
  <1>3. ResumeInv => ResumePossible
    BY DEF ResumeInv, ResumePossible, LastWrite, Ready
  <1> QED
    BY <1>1, <1>2, <1>3, PTL DEF PointSpec

---------------------------------------------------------------------------
(* The order of the modules of a stage.                                    *)

\* The vector modules holds every slot of the stage.
LEMMA InOrderHolds ==
    ASSUME NEW s \in Scheme, NEW k \in 1..Len(Plan[s]), NEW x \in SlotIds(Plan[s][k])
    PROVE  \E i \in DOMAIN InOrder(Plan[s][k]) : InOrder(Plan[s][k])[i] = x
  <1>1. IsFiniteSet(SlotIds(Plan[s][k]))
    BY SlotIdsFinite
  <1>2. SlotIds(Plan[s][k]) \subseteq Nat \X Nat
    BY SlotIdShape
  <1> QED
    BY <1>1, <1>2, InSlotOrderHolds DEF InOrder

---------------------------------------------------------------------------
(* The last point written is up to date.                                   *)

\* What a resume from f would bring back.
CurrentFor(pr, f) ==
    LET new == Settle(Rebuilt(Resumed(pr.name, f)))
    IN  new.stage = pr.stage /\ DoneSlots(new) = DoneSlots(pr)

EmptySlots(pr) == { x \in DOMAIN pr.slots : FirstEmpty(StageOf(pr), x[1]) }

\* PointIsCurrent, with what the running handler has still to write.
CurrentInv ==
    process # NoProcess => /\ EmptySlots(process) \subseteq DoneSlots(process)
                           /\ StageDone(process) \/ CurrentFor(process, LastWrite)

\* Every stage behind the first has no empty list, unless it has no work at all.
LaterStagesFilled(s) ==
    \A k \in 2..Len(Plan[s]) :
        \/ StageDone(EnterStage(s, k))
        \/ \A i \in DOMAIN Plan[s][k] : ~FirstEmpty(Plan[s][k], i)

\* What replacing slots does to the done ones.
LEMMA RebuiltSlots ==
    ASSUME NEW pr, IsProcess(pr)
    PROVE  /\ IsProcess(Rebuilt(pr))
           /\ Rebuilt(pr).name = pr.name
           /\ Rebuilt(pr).stage = pr.stage
           /\ DOMAIN Rebuilt(pr).slots = DOMAIN pr.slots
           /\ EmptySlots(Rebuilt(pr)) = EmptySlots(pr)
           /\ DoneSlots(Rebuilt(pr)) = DoneSlots(pr) \union EmptySlots(pr)
           /\ \A x \in DOMAIN pr.slots : \/ Rebuilt(pr).slots[x].status = "done"
                                         \/ Rebuilt(pr).slots[x] = pr.slots[x]
  <1> DEFINE new == [x \in EmptySlots(pr) |-> [status |-> "done", node |-> NoNode]]
  <1>1. Rebuilt(pr) = WithSlots(pr, new)
    BY DEF Rebuilt, EmptySlots
  <1>2. \A x \in DOMAIN new : new[x] \in Slot
    BY DEF Slot, Status, NoNode
  <1>3. /\ IsProcess(WithSlots(pr, new))
        /\ WithSlots(pr, new).name = pr.name
        /\ WithSlots(pr, new).stage = pr.stage
        /\ DOMAIN WithSlots(pr, new).slots = DOMAIN pr.slots
    BY <1>2, WithSlotsIsProcess
  <1>4. \A x \in DOMAIN pr.slots :
           WithSlots(pr, new).slots[x] =
              IF x \in EmptySlots(pr) THEN [status |-> "done", node |-> NoNode] ELSE pr.slots[x]
    BY DEF WithSlots
  <1> HIDE DEF new
  <1>5. EmptySlots(Rebuilt(pr)) = EmptySlots(pr)
    BY <1>1, <1>3 DEF EmptySlots, StageOf
  <1>6. DoneSlots(Rebuilt(pr)) = DoneSlots(pr) \union EmptySlots(pr)
    <2>1. EmptySlots(pr) \subseteq DOMAIN pr.slots
      BY DEF EmptySlots
    <2> QED
      BY <1>1, <1>3, <1>4, <2>1 DEF DoneSlots
  <1> QED
    BY <1>1, <1>3, <1>4, <1>5, <1>6

\* A file is up to date for a process if a resume gives its stage, and no
\* module another status than to wait or done.
LEMMA CurrentIf ==
    ASSUME NEW pr, IsProcess(pr), ~StageDone(pr),
           NEW new, IsProcess(new), NEW f, new = Resumed(pr.name, f),
           new.name = pr.name, new.stage = pr.stage,
           \A x \in DOMAIN new.slots : new.slots[x].status \in {"wait", "done"},
           DoneSlots(new) \union EmptySlots(new) = DoneSlots(pr)
    PROVE  CurrentFor(pr, f)
  <1>1. /\ Rebuilt(new).name = pr.name
        /\ Rebuilt(new).stage = pr.stage
        /\ DOMAIN Rebuilt(new).slots = DOMAIN pr.slots
        /\ DoneSlots(Rebuilt(new)) = DoneSlots(pr)
        /\ \A x \in DOMAIN pr.slots : Rebuilt(new).slots[x].status \in {"wait", "done"}
    <2>1. DOMAIN new.slots = DOMAIN pr.slots
      BY DEF IsProcess, StageOf
    <2>2. /\ Rebuilt(new).name = pr.name
          /\ Rebuilt(new).stage = pr.stage
          /\ DOMAIN Rebuilt(new).slots = DOMAIN new.slots
          /\ DoneSlots(Rebuilt(new)) = DoneSlots(pr)
      BY RebuiltSlots
    <2>3. \A x \in DOMAIN new.slots : Rebuilt(new).slots[x].status \in {"wait", "done"}
      BY RebuiltSlots
    <2> QED
      BY <2>1, <2>2, <2>3
  <1>2. ~StageDone(Rebuilt(new))
    <2>1. PICK x \in DOMAIN pr.slots : pr.slots[x].status \notin Ended
      BY DEF StageDone
    <2>2. x \notin DoneSlots(Rebuilt(new))
      BY <1>1, <2>1 DEF DoneSlots, Ended
    <2> QED
      BY <1>1, <2>2 DEF StageDone, DoneSlots, Ended
  <1> QED
    BY <1>1, <1>2 DEF CurrentFor, Settle

\* A resume from a point of a process gives its stage and its done modules.
LEMMA ResumedPoint ==
    ASSUME NEW pr, IsProcess(pr)
    PROVE  LET new == Resumed(pr.name, Point(pr))
           IN  /\ IsProcess(new)
               /\ new.name = pr.name
               /\ new.stage = pr.stage
               /\ DoneSlots(new) = DoneSlots(pr)
               /\ \A x \in DOMAIN new.slots : new.slots[x].status \in {"wait", "done"}
  <1> DEFINE old == EnterStage(pr.name, pr.stage)
             f == Point(pr)
             at == { i \in DOMAIN Ordered(old) : i \in DOMAIN f.entries }
             cell(i) == [status |-> IF f.entries[i].done THEN "done" ELSE "wait", node |-> NoNode]
             new == [x \in { Ordered(old)[i] : i \in at } |->
                         LET i == CHOOSE i \in at : Ordered(old)[i] = x
                         IN  [status |-> IF f.entries[i].done THEN "done" ELSE "wait",
                              node |-> NoNode]]
  <1>1. pr.name \in Scheme /\ pr.stage \in 1..Len(Plan[pr.name])
        /\ DOMAIN pr.slots = SlotIds(Plan[pr.name][pr.stage])
    BY DEF IsProcess, StageOf
  <1>2. /\ old.name = pr.name
        /\ old.stage = pr.stage
        /\ DOMAIN old.slots = DOMAIN pr.slots
        /\ StageOf(old) = StageOf(pr)
        /\ Ordered(old) = Ordered(pr)
        /\ Ordered(old) = InOrder(Plan[pr.name][pr.stage])
    BY <1>1 DEF EnterStage, StageOf, Ordered
  <1>3. /\ f.kind = "point"
        /\ f.stage = pr.stage
        /\ DOMAIN f.entries = DOMAIN Ordered(pr)
        /\ \A i \in DOMAIN Ordered(pr) :
              /\ f.entries[i].name = SlotName(pr, Ordered(pr)[i])
              /\ f.entries[i].num = ListNum(pr, Ordered(pr)[i])
              /\ f.entries[i].done <=> Ordered(pr)[i] \in DoneSlots(pr)
    BY DEF Point
  <1>4. Agrees(old, f)
    BY <1>2, <1>3 DEF Agrees, SlotName, ListNum, LostElement
  <1>5. Resumed(pr.name, f) = WithSlots(old, new)
    BY <1>3, <1>4 DEF Resumed, Restored
  <1>6. at = DOMAIN Ordered(old)
    BY <1>2, <1>3
  <1>7. ASSUME NEW x \in DOMAIN pr.slots
        PROVE  /\ x \in DOMAIN new
               /\ new[x].status = IF x \in DoneSlots(pr) THEN "done" ELSE "wait"
               /\ new[x].node = NoNode
               /\ new[x] = [status |-> new[x].status, node |-> NoNode]
    <2>1. \E i \in at : Ordered(old)[i] = x
      <3>1. \E i \in DOMAIN InOrder(Plan[pr.name][pr.stage]) :
               InOrder(Plan[pr.name][pr.stage])[i] = x
        <4>1. PICK s \in Scheme : \E k \in 1..Len(Plan[s]) : s = pr.name /\ k = pr.stage
          BY <1>1
        <4>2. PICK k \in 1..Len(Plan[s]) : s = pr.name /\ k = pr.stage
          BY <4>1
        <4>3. x \in SlotIds(Plan[s][k])
          BY <1>1, <4>2
        <4>4. \E i \in DOMAIN InOrder(Plan[s][k]) : InOrder(Plan[s][k])[i] = x
          BY <4>3, InOrderHolds
        <4> QED
          BY <4>2, <4>4
      <3>2. Ordered(old) = InOrder(Plan[pr.name][pr.stage])
        BY <1>2
      <3> HIDE DEF at, old
      <3> QED
        BY <1>6, <3>1, <3>2
    <2> DEFINE i == CHOOSE i \in at : Ordered(old)[i] = x
    <2>2. i \in at /\ Ordered(old)[i] = x
      BY <2>1
    <2>3. x \in DOMAIN new /\ new[x] = cell(i)
      BY <2>1
    <2> HIDE DEF i, at, new, old, f
    <2>4. f.entries[i].done <=> x \in DoneSlots(pr)
      BY <1>2, <1>3, <1>6, <2>2
    <2> QED
      BY <2>3, <2>4
  <1>8. IsProcess(old)
    BY <1>1, EnterStageIsProcess
  <1> HIDE DEF new, old, f
  <1>9. \A x \in DOMAIN pr.slots :
           WithSlots(old, new).slots[x] =
             [status |-> IF x \in DoneSlots(pr) THEN "done" ELSE "wait", node |-> NoNode]
    BY <1>2, <1>7 DEF WithSlots
  <1>10. /\ WithSlots(old, new).name = pr.name
         /\ WithSlots(old, new).stage = pr.stage
         /\ DOMAIN WithSlots(old, new).slots = DOMAIN pr.slots
         /\ WithSlots(old, new) = [name |-> pr.name, stage |-> pr.stage,
                                   slots |-> WithSlots(old, new).slots]
         /\ WithSlots(old, new).slots = [x \in DOMAIN pr.slots |-> WithSlots(old, new).slots[x]]
    BY <1>2 DEF WithSlots
  <1>11. IsProcess(WithSlots(old, new))
    <2>1. \A x : [status |-> IF x \in DoneSlots(pr) THEN "done" ELSE "wait",
                  node |-> NoNode] \in Slot
      BY DEF Slot, Status, NoNode
    <2>2. \A x \in DOMAIN pr.slots : WithSlots(old, new).slots[x] \in Slot
      BY <1>9, <2>1
    <2> QED
      BY <1>1, <1>10, <2>2 DEF IsProcess, StageOf
  <1>12. \A x \in DOMAIN pr.slots :
            WithSlots(old, new).slots[x].status = IF x \in DoneSlots(pr) THEN "done" ELSE "wait"
    <2> TAKE x \in DOMAIN pr.slots
    <2> DEFINE w == WithSlots(old, new).slots[x]
               st == IF x \in DoneSlots(pr) THEN "done" ELSE "wait"
    <2>1. w = [status |-> st, node |-> NoNode]
      BY <1>9
    <2> HIDE DEF w, st
    <2>2. w.status = st
      BY <2>1
    <2> QED
      BY <2>2 DEF w, st
  <1>13. DoneSlots(WithSlots(old, new)) = DoneSlots(pr)
    <2>1. DoneSlots(pr) \subseteq DOMAIN pr.slots
      BY DEF DoneSlots
    <2>2. \A x \in DOMAIN pr.slots :
             x \in DoneSlots(WithSlots(old, new)) <=> x \in DoneSlots(pr)
      BY <1>10, <1>12 DEF DoneSlots
    <2>3. DoneSlots(WithSlots(old, new)) \subseteq DOMAIN pr.slots
      BY <1>10 DEF DoneSlots
    <2> QED
      BY <2>1, <2>2, <2>3
  <1> QED
    BY <1>5, <1>10, <1>11, <1>12, <1>13 DEF f

\* So that point is up to date for a process that differs by its empty lists.
LEMMA PointCurrent ==
    ASSUME NEW pr, IsProcess(pr), ~StageDone(pr), NEW qr, IsProcess(qr),
           qr.name = pr.name, qr.stage = pr.stage,
           DoneSlots(qr) \union EmptySlots(qr) = DoneSlots(pr)
    PROVE  CurrentFor(pr, Point(qr))
  <1> DEFINE new == Resumed(pr.name, Point(qr))
  <1>1. /\ IsProcess(new)
        /\ new.name = pr.name
        /\ new.stage = pr.stage
        /\ DoneSlots(new) = DoneSlots(qr)
        /\ \A x \in DOMAIN new.slots : new.slots[x].status \in {"wait", "done"}
    BY ResumedPoint
  <1>2. EmptySlots(new) = EmptySlots(qr)
    <2> HIDE DEF new
    <2>1. DOMAIN new.slots = DOMAIN qr.slots /\ StageOf(new) = StageOf(qr)
      BY <1>1 DEF IsProcess, StageOf
    <2> QED
      BY <2>1 DEF EmptySlots
  <1> QED
    BY <1>1, <1>2, CurrentIf

\* The point of a fresh process, written before its lists are expanded, is up
\* to date whether its entries agree with the expanded lists or not.
LEMMA UnexpandedCurrent ==
    ASSUME NEW s \in Scheme, NEW pr, IsProcess(pr), ~StageDone(pr),
           pr.name = s, pr.stage = 1, DoneSlots(pr) = EmptySlots(pr)
    PROVE  CurrentFor(pr, Unexpanded(s))
  <1> DEFINE old == EnterStage(s, 1)
             f == Unexpanded(s)
             at == { i \in DOMAIN Ordered(old) : i \in DOMAIN f.entries }
             new == [x \in { Ordered(old)[i] : i \in at } |->
                         LET i == CHOOSE i \in at : Ordered(old)[i] = x
                         IN  [status |-> IF f.entries[i].done THEN "done" ELSE "wait",
                              node |-> NoNode]]
  <1>1. 1 \in 1..Len(Plan[s])
    BY PlanAssumption
  <1>2. IsProcess(old) /\ old.name = s /\ old.stage = 1
    BY <1>1, EnterStageIsProcess DEF EnterStage
  <1>3. \A x \in DOMAIN old.slots :
           old.slots[x].status = IF x \in EmptySlots(old) THEN "done" ELSE "wait"
    BY DEF EnterStage, FreshSlot, EmptySlots, StageOf
  <1>4. DOMAIN old.slots = DOMAIN pr.slots /\ EmptySlots(old) = EmptySlots(pr)
    BY <1>2 DEF IsProcess, StageOf, EmptySlots
  <1>5. CurrentFor(pr, f) \/ Resumed(s, f) # old
    <2>1. DoneSlots(old) \union EmptySlots(old) = DoneSlots(pr)
      BY <1>3, <1>4 DEF DoneSlots, EmptySlots
    <2>2. \A x \in DOMAIN old.slots : old.slots[x].status \in {"wait", "done"}
      BY <1>3
    <2> HIDE DEF old, f
    <2> QED
      BY <1>2, <2>1, <2>2, CurrentIf
  <1>6. \A i \in DOMAIN f.entries : ~f.entries[i].done
    BY DEF Unexpanded
  <1>7. ASSUME NEW x \in DOMAIN new
        PROVE  new[x] = [status |-> "wait", node |-> NoNode]
    <2> DEFINE i == CHOOSE i \in at : Ordered(old)[i] = x
    <2>1. i \in at /\ Ordered(old)[i] = x
      BY <1>7
    <2>2. new[x] = [status |-> IF f.entries[i].done THEN "done" ELSE "wait", node |-> NoNode]
      BY <1>7
    <2> HIDE DEF i
    <2> QED
      BY <1>6, <2>1, <2>2
  <1>8. Restored(old, f) = WithSlots(old, new)
    BY DEF Restored
  <1>9. Resumed(s, f) \in {old, Restored(old, f)}
    BY DEF Resumed, Unexpanded
  <1> HIDE DEF new
  <1>10. CASE Resumed(s, f) = WithSlots(old, new)
    <2>1. \A x \in DOMAIN new : new[x] \in Slot
      BY <1>7 DEF Slot, Status, NoNode
    <2>2. /\ IsProcess(WithSlots(old, new))
          /\ WithSlots(old, new).name = s
          /\ WithSlots(old, new).stage = 1
          /\ DOMAIN WithSlots(old, new).slots = DOMAIN old.slots
      BY <1>2, <2>1, WithSlotsIsProcess
    <2>3. \A x \in DOMAIN old.slots :
             WithSlots(old, new).slots[x].status =
               IF x \in DOMAIN new THEN "wait" ELSE old.slots[x].status
      BY <1>7 DEF WithSlots
    <2>4. EmptySlots(WithSlots(old, new)) = EmptySlots(pr)
      BY <1>2, <1>4, <2>2 DEF EmptySlots, StageOf
    <2> HIDE DEF old, f
    <2>5. DoneSlots(WithSlots(old, new)) \subseteq EmptySlots(pr)
      BY <1>3, <1>4, <2>2, <2>3 DEF DoneSlots
    <2>6. \A x \in DOMAIN old.slots : WithSlots(old, new).slots[x].status \in {"wait", "done"}
      BY <1>3, <2>3
    <2> QED
      BY <1>10, <2>2, <2>4, <2>5, <2>6, CurrentIf DEF f
  <1> QED
    BY <1>5, <1>8, <1>9, <1>10

\* Entering a stage with work in it leaves a point that is up to date, whatever
\* slots wait or have been given to a node since.
LEMMA EnteredCurrent ==
    ASSUME NEW pr, IsProcess(pr), LaterStagesFilled(pr.name),
           StageDone(pr), ~LastStage(pr), ~StageDone(Settle(pr))
    PROVE  /\ EndsWith(SettleWrites(pr), Point(Rebuilt(Settle(pr))))
           /\ CurrentFor(Settle(pr), Point(Rebuilt(Settle(pr))))
  <1> DEFINE k == pr.stage + 1
             next == EnterStage(pr.name, k)
  <1>1. Settle(pr) = next
    BY DEF Settle
  <1>2. /\ pr.name \in Scheme
        /\ k \in 2..Len(Plan[pr.name])
        /\ k \in 1..Len(Plan[pr.name])
    BY PlanAssumption DEF LastStage, IsProcess
  <1>3. \A i \in DOMAIN Plan[pr.name][k] : ~FirstEmpty(Plan[pr.name][k], i)
    BY <1>1, <1>2 DEF LaterStagesFilled
  <1>4. IsProcess(next) /\ next.name = pr.name /\ next.stage = k
    BY <1>2, EnterStageIsProcess DEF EnterStage
  <1>5. StageOf(next) = Plan[pr.name][k] /\ DOMAIN next.slots = SlotIds(Plan[pr.name][k])
    BY DEF StageOf, EnterStage
  <1>6. EmptySlots(next) = {}
    BY <1>2, <1>3, <1>5, SlotIdShape DEF EmptySlots
  <1>7. RebuildWrites(next) = Save(Rebuilt(next))
    BY <1>3, <1>5 DEF RebuildWrites
  <1>8. SettleWrites(pr) = Save(pr) \o Save(Rebuilt(next))
    BY <1>1, <1>7 DEF SettleWrites
  <1> HIDE DEF next
  <1>9. EndsWith(SettleWrites(pr), Point(Rebuilt(next)))
    BY <1>8, SaveEndsWith, ConcatEndsWith DEF EndsWith
  <1>10. CurrentFor(next, Point(Rebuilt(next)))
    <2> DEFINE qr == Rebuilt(next)
    <2>1. /\ IsProcess(qr) /\ qr.name = next.name /\ qr.stage = next.stage
          /\ DoneSlots(qr) \union EmptySlots(qr) = DoneSlots(next)
      BY <1>4, <1>6, RebuiltSlots
    <2> HIDE DEF qr
    <2>2. CurrentFor(next, Point(qr))
      BY <1>1, <1>4, <2>1, PointCurrent
    <2> QED
      BY <2>2 DEF qr
  <1> QED
    BY <1>1, <1>9, <1>10

\* An empty list is done from the start.
LEMMA EnteredEmptyDone ==
    ASSUME NEW s, NEW k
    PROVE  EmptySlots(EnterStage(s, k)) \subseteq DoneSlots(EnterStage(s, k))
  BY DEF EnterStage, FreshSlot, EmptySlots, DoneSlots, StageOf

\* Changes followed by those of checkCurrentStageIsDone leave a point that is
\* up to date for what the process becomes.
LEMMA SettleCurrent ==
    ASSUME NEW pr, IsProcess(pr), LaterStagesFilled(pr.name),
           EmptySlots(pr) \subseteq DoneSlots(pr),
           NEW q, NEW f, q = <<>> \/ EndsWith(q, f),
           ~StageDone(pr) => EndsWith(q, f) /\ CurrentFor(pr, f),
           Becomes(pr), todo' = q \o SettleWrites(pr)
    PROVE  CurrentInv'
  <1>1. ASSUME NEW g, EndsWith(todo', g) PROVE LastWrite' = g
    BY <1>1 DEF LastWrite, EndsWith
  <1>2. CASE Completes(pr)
    BY <1>2 DEF Becomes, CurrentInv
  <1>3. CASE ~StageDone(pr)
    <2>1. process' = pr /\ todo' = q \o <<>>
      BY <1>3 DEF Becomes, Completes, Settle, SettleWrites
    <2>2. q \o <<>> = q
      BY <1>3, ConcatEmptySeq DEF EndsWith
    <2>3. LastWrite' = f
      BY <1>1, <1>3, <2>1, <2>2
    <2> QED
      BY <1>3, <2>1, <2>3 DEF CurrentInv
  <1>4. CASE StageDone(pr) /\ ~LastStage(pr)
    <2> DEFINE next == Settle(pr)
    <2>1. process' = next
      BY <1>4 DEF Becomes, Completes
    <2>2. EmptySlots(next) \subseteq DoneSlots(next)
      BY <1>4, EnteredEmptyDone DEF Settle
    <2>3. ASSUME ~StageDone(next)
          PROVE  CurrentFor(next, LastWrite')
      <3>1. /\ EndsWith(SettleWrites(pr), Point(Rebuilt(next)))
            /\ CurrentFor(next, Point(Rebuilt(next)))
        BY <1>4, <2>3, EnteredCurrent
      <3>2. q = <<>> \/ q \in Seq(Elements(q))
        BY DEF EndsWith
      <3> HIDE DEF next
      <3>3. EndsWith(todo', Point(Rebuilt(next)))
        BY <3>1, <3>2, ConcatEndsWith
      <3> QED
        BY <1>1, <3>1, <3>3
    <2> HIDE DEF next
    <2> QED
      BY <2>1, <2>2, <2>3 DEF CurrentInv
  <1> QED
    BY <1>2, <1>3, <1>4 DEF Completes

\* DiscompProcess::Init leaves a point that is up to date.
LEMMA InitCurrent ==
    ASSUME NEW s \in Scheme, NEW f, NEW C, FileSafe(C, s, f), InitWith(s, f),
           LaterStagesFilled(s)
    PROVE  CurrentInv'
  <1> DEFINE pr == Resumed(s, f)
             first == IF f.kind = "point" THEN Save(pr) ELSE <<Torn, Unexpanded(s)>>
             q == <<Absent>> \o first \o RebuildWrites(pr)
  <1>1. IsProcess(pr) /\ pr.name = s
    BY ResumedSafe DEF ProcessSafe, Resumed, Restored, EnterStage, WithSlots
  <1>2. todo' = q \o SettleWrites(Rebuilt(pr)) /\ Becomes(Rebuilt(pr))
    BY DEF InitWith
  <1>3. f.kind # "point" => pr = EnterStage(s, 1)
    BY DEF Resumed
  <1>4. f.kind = "point" => EndsWith(first, Point(pr))
    BY SaveEndsWith
  <1>5. f.kind # "point" => EndsWith(first, Unexpanded(s))
    BY SaveEndsWith
  <1>6. ASSUME ~StageDone(Rebuilt(pr))
        PROVE  /\ CurrentFor(Rebuilt(pr), Point(pr))
               /\ CurrentFor(Rebuilt(pr), Point(Rebuilt(pr)))
               /\ f.kind # "point" => CurrentFor(Rebuilt(pr), Unexpanded(s))
    <2> HIDE DEF pr
    <2>1. /\ IsProcess(Rebuilt(pr))
          /\ Rebuilt(pr).name = s
          /\ Rebuilt(pr).stage = pr.stage
          /\ EmptySlots(Rebuilt(pr)) = EmptySlots(pr)
          /\ DoneSlots(Rebuilt(pr)) = DoneSlots(pr) \union EmptySlots(pr)
      BY <1>1, RebuiltSlots
    <2>2. CurrentFor(Rebuilt(pr), Point(pr))
      BY <1>1, <1>6, <2>1, PointCurrent
    <2>3. CurrentFor(Rebuilt(pr), Point(Rebuilt(pr)))
      BY <1>6, <2>1, PointCurrent
    <2>4. ASSUME f.kind # "point"
          PROVE  CurrentFor(Rebuilt(pr), Unexpanded(s))
      <3>1. pr = EnterStage(s, 1) /\ pr.stage = 1
        BY <1>3, <2>4 DEF EnterStage
      <3>2. DoneSlots(pr) \subseteq EmptySlots(pr)
        BY <3>1 DEF EnterStage, FreshSlot, DoneSlots, EmptySlots, StageOf
      <3>3. DoneSlots(Rebuilt(pr)) = EmptySlots(Rebuilt(pr))
        BY <2>1, <3>2
      <3> QED
        BY <1>6, <2>1, <3>1, <3>3, UnexpandedCurrent
    <2> QED
      BY <2>2, <2>3, <2>4
  <1>7. EmptySlots(Rebuilt(pr)) \subseteq DoneSlots(Rebuilt(pr)) /\ IsProcess(Rebuilt(pr))
        /\ Rebuilt(pr).name = s
    BY <1>1, RebuiltSlots
  <1>8. <<Absent>> \in Seq(Elements(<<Absent>>))
    BY DEF Elements
  <1>9. \A g : EndsWith(first, g) => EndsWith(<<Absent>> \o first, g)
    BY <1>8, ConcatEndsWith
  <1>10. \/ RebuildWrites(pr) = <<>>
         \/ EndsWith(RebuildWrites(pr), Point(Rebuilt(pr)))
    BY SaveEndsWith DEF RebuildWrites
  <1> HIDE DEF first, pr
  <1>11. \E g : EndsWith(q, g) /\ (~StageDone(Rebuilt(pr)) => CurrentFor(Rebuilt(pr), g))
    <2>1. PICK g : /\ EndsWith(first, g)
                   /\ ~StageDone(Rebuilt(pr)) => CurrentFor(Rebuilt(pr), g)
      BY <1>4, <1>5, <1>6
    <2>2. EndsWith(<<Absent>> \o first, g)
      BY <1>9, <2>1
    <2>3. CASE RebuildWrites(pr) = <<>>
      <3>1. q = <<Absent>> \o first
        BY <2>2, <2>3, ConcatEmptySeq DEF EndsWith
      <3> QED
        BY <2>1, <2>2, <3>1
    <2>4. CASE EndsWith(RebuildWrites(pr), Point(Rebuilt(pr)))
      <3>1. EndsWith(q, Point(Rebuilt(pr)))
        BY <2>2, <2>4, ConcatEndsWith DEF EndsWith
      <3> QED
        BY <1>6, <3>1
    <2> QED
      BY <1>10, <2>3, <2>4
  <1>12. PICK g : EndsWith(q, g) /\ (~StageDone(Rebuilt(pr)) => CurrentFor(Rebuilt(pr), g))
    BY <1>11
  <1> HIDE DEF q
  <1> QED
    BY <1>2, <1>7, <1>12, SettleCurrent

\* So does the end of a module: only unfinished slots change.
LEMMA EndSlotCurrent ==
    ASSUME process # NoProcess, IsProcess(process), LaterStagesFilled(process.name), CurrentInv,
           NEW x \in DOMAIN process.slots, NEW st \in Ended,
           process.slots[x].status # "done", EndSlot(x, st)
    PROVE  CurrentInv'
  <1>1. PICK X \in PluginStops(process), k \in PluginGotos(process) :
           LET asked == StopSlots(Ending(x, st), X)
               next == WentTo(asked, k)
               entered == EnterStage(process.name, k)
           IN  /\ Becomes(next)
               /\ todo' = (IF k = 0 THEN <<>>
                                    ELSE RebuildWrites(entered) \o SettleWrites(entered))
                          \o Save(next) \o SettleWrites(next)
    BY DEF EndSlot
  <1> DEFINE ending == Ending(x, st)
             asked == StopSlots(ending, X)
             entered == EnterStage(process.name, k)
             next == WentTo(asked, k)
             first == IF k = 0 THEN <<>> ELSE RebuildWrites(entered) \o SettleWrites(entered)
  <1>2. /\ IsProcess(ending) /\ ending.name = process.name /\ ending.stage = process.stage
        /\ DOMAIN ending.slots = DOMAIN process.slots
        /\ \A y \in DOMAIN process.slots : process.slots[y].status = "done" =>
              ending.slots[y].status = "done"
    <2> DEFINE new == [y \in {x} |-> [status |-> st, node |-> 1]]
    <2>1. \A y \in DOMAIN new : new[y] \in Slot
      BY DEF Slot, Status, Ended
    <2>2. /\ IsProcess(WithSlots(process, new))
          /\ WithSlots(process, new).name = process.name
          /\ WithSlots(process, new).stage = process.stage
          /\ DOMAIN WithSlots(process, new).slots = DOMAIN process.slots
      BY <2>1, WithSlotsIsProcess
    <2>3. \A y \in DOMAIN process.slots \ {x} :
             WithSlots(process, new).slots[y] = process.slots[y]
      BY DEF WithSlots
    <2> QED
      BY <2>2, <2>3 DEF Ending
  <1>3. X \subseteq DOMAIN ending.slots
    BY <1>2, PluginStopsSlots
  <1> HIDE DEF ending
  <1>4. /\ IsProcess(asked) /\ asked.name = process.name /\ asked.stage = process.stage
        /\ DOMAIN asked.slots = DOMAIN process.slots
        /\ \A y \in DOMAIN process.slots : process.slots[y].status = "done" =>
              asked.slots[y].status = "done"
    <2>1. IsProcess(asked)
      BY <1>2, <1>3, SlotOpsAreProcesses DEF NoNode
    <2>2. \A y \in DOMAIN ending.slots : ending.slots[y].status = "done" =>
             asked.slots[y] = ending.slots[y]
      BY DEF StopSlots, WithSlots
    <2>3. asked.name = ending.name /\ asked.stage = ending.stage
          /\ DOMAIN asked.slots = DOMAIN ending.slots
      BY DEF StopSlots, WithSlots
    <2> QED
      BY <1>2, <2>1, <2>2, <2>3
  <1>5. EmptySlots(asked) \subseteq DoneSlots(asked)
    <2>1. StageOf(asked) = StageOf(process)
      BY <1>4 DEF StageOf
    <2>2. \A y \in EmptySlots(process) : process.slots[y].status = "done"
      BY DEF CurrentInv, DoneSlots
    <2> HIDE DEF asked
    <2> QED
      BY <1>4, <2>1, <2>2 DEF EmptySlots, DoneSlots
  <1> HIDE DEF asked
  <1>6. IsProcess(next) /\ next.name = process.name /\ EmptySlots(next) \subseteq DoneSlots(next)
    <2>1. CASE k = 0
      BY <1>4, <1>5, <2>1 DEF WentTo
    <2>2. CASE k # 0
      <3>1. k \in 1..process.stage /\ process.name \in Scheme
            /\ process.stage \in 1..Len(Plan[process.name])
        BY <2>2 DEF PluginGotos, IsProcess
      <3>2. k \in 1..Len(Plan[process.name])
        BY <3>1
      <3>3. IsProcess(entered) /\ entered.name = process.name
        BY <3>1, <3>2, EnterStageIsProcess DEF EnterStage
      <3>4. next = Settle(entered)
        BY <1>4, <2>2 DEF WentTo
      <3>5. IsProcess(Settle(entered)) /\ Settle(entered).name = process.name
        BY <3>3, SettleIsProcess DEF Settle, EnterStage
      <3>6. \A j : EmptySlots(EnterStage(process.name, j)) \subseteq
                   DoneSlots(EnterStage(process.name, j))
        BY EnteredEmptyDone
      <3>7. \E j : Settle(entered) = EnterStage(process.name, j)
        BY <3>3 DEF Settle
      <3> QED
        BY <3>4, <3>5, <3>6, <3>7
    <2> QED
      BY <2>1, <2>2
  <1>7. todo' = first \o Save(next) \o SettleWrites(next) /\ Becomes(next)
    BY <1>1 DEF asked, ending
  <1>8. first = <<>> \/ first \in Seq(Elements(first))
    <2>1. RebuildWrites(entered) = <<>> \/ EndsInPoint(RebuildWrites(entered))
      BY StageWritesEndInPoint
    <2>2. SettleWrites(entered) = <<>> \/ EndsInPoint(SettleWrites(entered))
      BY StageWritesEndInPoint
    <2>3. \A q, r : (q = <<>> \/ EndsInPoint(q)) /\ (r = <<>> \/ EndsInPoint(r)) =>
             q \o r = <<>> \/ EndsInPoint(q \o r)
      <3>1. ASSUME NEW q, NEW r, q = <<>> \/ EndsInPoint(q), EndsInPoint(r)
            PROVE  EndsInPoint(q \o r)
        BY <3>1, ConcatEndsInPoint DEF EndsInPoint, EndsWith
      <3>2. ASSUME NEW q, EndsInPoint(q)
            PROVE  EndsInPoint(q \o <<>>)
        BY <3>2, ConcatNothing
      <3>3. <<>> \o <<>> = <<>>
        OBVIOUS
      <3> QED
        BY <3>1, <3>2, <3>3
    <2>4. first = <<>> \/ EndsInPoint(first)
      BY <2>1, <2>2, <2>3
    <2> QED
      BY <2>4 DEF EndsInPoint, EndsWith
  <1> HIDE DEF first, next
  <1>9. EndsWith(first \o Save(next), Point(next))
    BY <1>8, SaveEndsWith, ConcatEndsWith
  <1>10. ASSUME ~StageDone(next) PROVE CurrentFor(next, Point(next))
    <2>1. DoneSlots(next) \union EmptySlots(next) = DoneSlots(next)
      BY <1>6
    <2> QED
      BY <1>6, <1>10, <2>1, PointCurrent
  <1> QED
    BY <1>6, <1>7, <1>9, <1>10, SettleCurrent

\* Steps that leave stage and done modules of the process alone, and what the
\* file will be, leave the point up to date.
LEMMA SameCurrent ==
    ASSUME CurrentInv, process # NoProcess, ~StageDone(process), LastWrite' = LastWrite,
           process'.name = process.name, process'.stage = process.stage,
           DOMAIN process'.slots = DOMAIN process.slots,
           DoneSlots(process') = DoneSlots(process)
    PROVE  CurrentInv'
  <1>1. EmptySlots(process') = EmptySlots(process)
    BY DEF EmptySlots, StageOf
  <1>2. \A f : CurrentFor(process', f) <=> CurrentFor(process, f)
    BY DEF CurrentFor
  <1> QED
    BY <1>1, <1>2 DEF CurrentInv

\* Every step keeps CurrentInv.
LEMMA CurrentStep ==
    ASSUME NEW only, Scheme = {only}, LaterStagesFilled(only),
           PointInv, ResumeInv, CurrentInv, [PointNext]_pointVars
    PROVE  CurrentInv'
  <1>1. /\ FileSafe(Covered, only, file)
        /\ process # NoProcess => IsProcess(process) /\ process.name = only
    BY DEF PointInv, Covered, ProcessSafe, IsProcess
  <1>2. ASSUME NEW s \in Scheme, StartProcess(s) \/ StartAnew(s) PROVE CurrentInv'
    <2>1. FileSafe(Covered, s, file) /\ FileSafe(Covered, s, Absent) /\ LaterStagesFilled(s)
      BY <1>1 DEF FileSafe
    <2>2. InitWith(s, file) \/ InitWith(s, Absent)
      BY <1>2 DEF StartProcess, StartAnew
    <2> QED
      BY <2>1, <2>2, InitCurrent
  <1>3. ASSUME NEW x, NEW st \in {"started", "wait"}, NEW n, Ready,
               x \in Slots({"wait", "started"}), UNCHANGED <<file, todo>>,
               process' = WithSlots(process, [y \in {x} |-> [status |-> st, node |-> n]])
        PROVE  CurrentInv'
    <2>1. process # NoProcess /\ x \in DOMAIN process.slots
          /\ process.slots[x].status # "done" /\ ~StageDone(process)
      BY <1>3 DEF Slots, StageDone, Ended
    <2>2. /\ process'.name = process.name
          /\ process'.stage = process.stage
          /\ DOMAIN process'.slots = DOMAIN process.slots
          /\ process'.slots[x].status # "done"
          /\ \A y \in DOMAIN process.slots \ {x} : process'.slots[y] = process.slots[y]
      BY <1>3, <2>1 DEF WithSlots
    <2>3. DoneSlots(process') = DoneSlots(process)
      BY <2>1, <2>2 DEF DoneSlots
    <2>4. LastWrite' = LastWrite
      BY <1>3 DEF LastWrite
    <2> QED
      BY <2>1, <2>2, <2>3, <2>4, SameCurrent
  <1>4. CASE GiveJob
    <2> DEFINE next == Settle(process)
    <2>1. /\ process # NoProcess /\ IsProcess(process) /\ process.name = only
          /\ EmptySlots(process) \subseteq DoneSlots(process)
          /\ Ready /\ todo' = SettleWrites(process) /\ UNCHANGED file
      BY <1>1, <1>4 DEF GiveJob, CurrentInv
    <2>2. CASE StageDone(process) /\ Becomes(process)
      <3>1. <<>> \o SettleWrites(process) = SettleWrites(process)
        <4>1. SettleWrites(process) = <<>> \/ EndsInPoint(SettleWrites(process))
          BY StageWritesEndInPoint
        <4>2. ASSUME NEW r, r = <<>> \/ r \in Seq(Elements(r)) PROVE <<>> \o r = r
          BY <4>2, ConcatEmptySeq, EmptySeq
        <4> QED
          BY <4>1, <4>2 DEF EndsInPoint, EndsWith
      <3>2. todo' = <<>> \o SettleWrites(process)
        BY <2>1, <3>1
      <3> QED
        BY <2>1, <2>2, <3>2, SettleCurrent
    <2>3. ASSUME NEW x \in Waiting(next), ~Completes(process), process' = StartSlot(next, x, 1)
          PROVE  CurrentInv'
      <3>1. CASE ~StageDone(process)
        <4>1. next = process /\ todo' = <<>>
          BY <2>1, <3>1 DEF Settle, SettleWrites
        <4>2. x \in Slots({"wait", "started"}) /\ UNCHANGED <<file, todo>>
          BY <2>1, <2>3, <4>1 DEF Waiting, Slots, Ready
        <4> QED
          BY <1>3, <2>1, <2>3, <4>1, <4>2 DEF StartSlot
      <3>2. CASE StageDone(process)
        <4>1. ~StageDone(next) /\ x \in DOMAIN next.slots /\ next.slots[x].status = "wait"
          BY <2>3 DEF Waiting, StageDone, Ended
        <4>2. EmptySlots(next) \subseteq DoneSlots(next)
          BY <2>3, <3>2, EnteredEmptyDone DEF Settle, Completes
        <4> DEFINE f == Point(Rebuilt(next))
        <4>3. EndsWith(SettleWrites(process), f) /\ CurrentFor(next, f)
          BY <2>1, <2>3, <3>2, <4>1, EnteredCurrent DEF Completes
        <4> HIDE DEF next, f
        <4>4. LastWrite' = f
          BY <2>1, <4>3 DEF LastWrite, EndsWith
        <4>5. /\ process'.name = next.name
              /\ process'.stage = next.stage
              /\ DOMAIN process'.slots = DOMAIN next.slots
              /\ process'.slots[x].status = "started"
              /\ \A y \in DOMAIN next.slots \ {x} : process'.slots[y] = next.slots[y]
          BY <2>3, <4>1 DEF StartSlot, WithSlots
        <4>6. DoneSlots(process') = DoneSlots(next)
          BY <4>1, <4>5 DEF DoneSlots
        <4>7. EmptySlots(process') = EmptySlots(next)
          BY <4>5 DEF EmptySlots, StageOf
        <4>8. CurrentFor(process', f)
          BY <4>3, <4>5, <4>6 DEF CurrentFor
        <4> QED
          BY <4>2, <4>4, <4>6, <4>7, <4>8 DEF CurrentInv
      <3> QED
        BY <3>1, <3>2
    <2> QED
      BY <1>4, <2>2, <2>3 DEF GiveJob
  <1>5. ASSUME NEW x, LoseJob(x) PROVE CurrentInv'
    <2>1. x \in Slots({"wait", "started"})
      BY <1>5 DEF LoseJob, Slots
    <2> QED
      BY <1>3, <1>5, <2>1 DEF LoseJob
  <1>6. ASSUME NEW x, ModuleFinished(x) \/ StoppedModuleFinished(x) \/ MaxTimeReached(x)
        PROVE  CurrentInv'
    <2>1. /\ x \in Slots({"started", "stopping"})
          /\ \E st \in Ended : EndSlot(x, st)
      BY <1>6 DEF ModuleFinished, StoppedModuleFinished, MaxTimeReached, Slots, Ended
    <2>2. process # NoProcess /\ x \in DOMAIN process.slots /\ process.slots[x].status # "done"
      BY <2>1 DEF Slots
    <2> QED
      BY <1>1, <2>1, <2>2, EndSlotCurrent
  <1>7. CASE StopProcess \/ Crash
    BY <1>7 DEF StopProcess, Crash, CurrentInv
  <1>8. CASE Write
    <2>1. LastWrite' = LastWrite
      <3>1. EndsWith(todo, LastWrite) /\ todo # <<>>
        BY <1>8 DEF Write, ResumeInv, EndsInPoint, EndsWith, LastWrite
      <3>2. file' = Head(todo) /\ todo' = Tail(todo)
        BY <1>8 DEF Write
      <3> QED
        BY <3>1, <3>2, WriteLast
    <2> QED
      BY <1>8, <2>1 DEF Write, CurrentInv
  <1>9. CASE UNCHANGED pointVars
    BY <1>9 DEF pointVars, CurrentInv, LastWrite
  <1> QED
    BY <1>2, <1>4, <1>5, <1>6, <1>7, <1>8, <1>9 DEF PointNext

\* Between two handlers a resume would bring back the stage of the process and
\* its done modules, if no stage behind the first has an empty list and work,
\* too (DiscompProcessControlPoint::Create and Resume, with
\* rebuildStageModulesForParallelList, which writes nothing for such a list).
THEOREM PointsAreCurrent ==
    ASSUME NEW only, Scheme = {only}, LaterStagesFilled(only)
    PROVE  PointSpec => []PointIsCurrent
  <1> DEFINE Inv == PointInv /\ ResumeInv /\ CurrentInv
  <1>1. PointInit => Inv
    BY PointInitSafe DEF PointInit, ResumeInv, CurrentInv
  <1>2. Inv /\ [PointNext]_pointVars => Inv'
    BY PointStep, ResumeStep, CurrentStep
  <1>3. Inv => PointIsCurrent
    BY DEF CurrentInv, CurrentFor, PointIsCurrent, LastWrite, Ready
  <1> QED
    BY <1>1, <1>2, <1>3, PTL DEF PointSpec
=============================================================================
