------------------------ MODULE DiscompProcessProofs ------------------------
(***************************************************************************)
(* Lemmas about DiscompProcess, for the components built on it: its        *)
(* operators lead from processes to processes.                             *)
(***************************************************************************)
EXTENDS DiscompProcess, FiniteSetTheorems, TLAPS

\* A stage of a plan is a sequence of entries.
LEMMA StageIsSeq ==
    ASSUME NEW s \in Scheme, NEW k \in 1..Len(Plan[s])
    PROVE  /\ Plan[s] \in Seq(Seq(Entry))
           /\ Plan[s][k] \in Seq(Entry)
  BY PlanAssumption

\* Replacing slots by slots leaves a process a process.
LEMMA WithSlotsIsProcess ==
    ASSUME NEW pr, IsProcess(pr), NEW new,
           \A x \in DOMAIN new : new[x] \in Slot
    PROVE  /\ IsProcess(WithSlots(pr, new))
           /\ WithSlots(pr, new).name = pr.name
           /\ WithSlots(pr, new).stage = pr.stage
           /\ DOMAIN WithSlots(pr, new).slots = DOMAIN pr.slots
  BY DEF IsProcess, WithSlots, StageOf

\* A process that enters a stage of its plan has the slots of that stage.
LEMMA EnterStageIsProcess ==
    ASSUME NEW s \in Scheme, NEW k \in 1..Len(Plan[s])
    PROVE  IsProcess(EnterStage(s, k))
  BY DEF EnterStage, IsProcess, StageOf, FreshSlot, Slot, Status, NoNode

\* Settling a process leaves it a process.
LEMMA SettleIsProcess ==
    ASSUME NEW pr, IsProcess(pr)
    PROVE  IsProcess(Settle(pr))
  <1>1. CASE StageDone(pr) /\ ~LastStage(pr)
    <2>1. pr.stage + 1 \in 1..Len(Plan[pr.name])
      BY <1>1, PlanAssumption DEF LastStage, IsProcess
    <2>2. pr.name \in Scheme
      BY DEF IsProcess
    <2> QED
      BY <1>1, <2>1, <2>2, EnterStageIsProcess DEF Settle
  <1>2. CASE ~(StageDone(pr) /\ ~LastStage(pr))
    BY <1>2 DEF Settle
  <1> QED
    BY <1>1, <1>2

\* Starting, clearing, ending and stopping slots leave a process a process.
LEMMA SlotOpsAreProcesses ==
    ASSUME NEW pr, IsProcess(pr), NEW n \in Nat, NEW m, NEW X
    PROVE  /\ \A x : IsProcess(StartSlot(pr, x, n))
           /\ IsProcess(ClearJob(pr, n))
           /\ \A st \in Ended : IsProcess(FinishJob(pr, n, m, st))
           /\ X \subseteq DOMAIN pr.slots => IsProcess(StopSlots(pr, X))
  <1>1. \A x : IsProcess(StartSlot(pr, x, n))
    BY WithSlotsIsProcess DEF StartSlot, Slot, Status
  <1>2. IsProcess(ClearJob(pr, n))
    BY WithSlotsIsProcess DEF ClearJob, Slot, Status, NoNode
  <1>3. \A st \in Ended : IsProcess(FinishJob(pr, n, m, st))
    BY WithSlotsIsProcess DEF FinishJob, Slot, Status, Ended
  <1>4. ASSUME X \subseteq DOMAIN pr.slots PROVE IsProcess(StopSlots(pr, X))
    <2>1. \A x \in DOMAIN pr.slots : pr.slots[x].node \in Nat
      BY DEF IsProcess, Slot
    <2> QED
      BY <1>4, <2>1, WithSlotsIsProcess DEF StopSlots, Slot, Status
  <1> QED
    BY <1>1, <1>2, <1>3, <1>4

\* The plan's handlers stop slots of the process.
LEMMA PluginStopsSlots ==
    ASSUME NEW pr, NEW X \in PluginStops(pr)
    PROVE  X \subseteq DOMAIN pr.slots
  BY DEF PluginStops, Named, ListElement

\* A slot names a module of the system.
LEMMA SlotNameIsModule ==
    ASSUME NEW pr, IsProcess(pr), NEW x \in DOMAIN pr.slots
    PROVE  SlotName(pr, x) \in Module
  <1>1. /\ StageOf(pr) \in Seq(Entry)
        /\ x \in SlotIds(StageOf(pr))
    BY StageIsSeq DEF IsProcess, StageOf
  <1>2. x[1] \in DOMAIN StageOf(pr)
    BY <1>1 DEF SlotIds
  <1>3. StageOf(pr)[x[1]] \in Entry
    BY <1>1, <1>2
  <1> QED
    BY <1>3 DEF SlotName, Entry

---------------------------------------------------------------------------
(* The order of the modules of a stage.                                    *)

\* The entries of a stage.
LEMMA StageEntries ==
    ASSUME NEW s \in Scheme, NEW k \in 1..Len(Plan[s]), NEW j \in DOMAIN Plan[s][k]
    PROVE  j \in Nat /\ Plan[s][k][j] \in Entry /\ Plan[s][k][j].size \in Nat
  <1> DEFINE stage == Plan[s][k]
  <1>1. stage \in Seq(Entry)
    BY StageIsSeq
  <1> HIDE DEF stage
  <1>2. DOMAIN stage = 1..Len(stage) /\ Len(stage) \in Nat
    BY <1>1
  <1>3. \A i \in 1..Len(stage) : i \in Nat /\ stage[i] \in Entry
    BY <1>1, <1>2
  <1> QED
    BY <1>2, <1>3 DEF stage, Entry

\* A slot is an entry of the plan with the number of an element.
LEMMA SlotIdShape ==
    ASSUME NEW s \in Scheme, NEW k \in 1..Len(Plan[s]), NEW x \in SlotIds(Plan[s][k])
    PROVE  /\ x = <<x[1], x[2]>>
           /\ x[1] \in DOMAIN Plan[s][k]
           /\ x[1] \in Nat
           /\ x[2] \in Nat
  BY StageEntries DEF SlotIds

\* A stage has finitely many slots.
LEMMA SlotIdsFinite ==
    ASSUME NEW s \in Scheme, NEW k \in 1..Len(Plan[s])
    PROVE  IsFiniteSet(SlotIds(Plan[s][k]))
  <1> DEFINE stage == Plan[s][k]
             Clones(i) == { <<i, e>> : e \in 1..(stage[i].size - 1) }
             lists == { j \in DOMAIN stage : Expanded(stage, j) }
             firsts == { <<i, 0>> : i \in DOMAIN stage }
  <1>1. stage \in Seq(Entry)
    BY StageIsSeq
  <1>2. \A j \in DOMAIN stage : j \in Nat /\ stage[j].size \in Nat
    BY StageEntries
  <1>3. IsFiniteSet(DOMAIN stage) /\ IsFiniteSet(lists)
    <2>1. DOMAIN stage = 1..Len(stage) /\ Len(stage) \in Nat
      BY <1>1
    <2>2. IsFiniteSet(1..Len(stage))
      BY <2>1, FS_Interval
    <2> QED
      BY <2>1, <2>2, FS_Subset
  <1>4. IsFiniteSet(firsts)
    <2>1. IsFiniteSet({0}) /\ IsFiniteSet((DOMAIN stage) \X {0})
      BY <1>3, FS_Singleton, FS_Product
    <2>2. firsts \subseteq (DOMAIN stage) \X {0}
      OBVIOUS
    <2> HIDE DEF firsts, stage
    <2> QED
      BY <2>1, <2>2, FS_Subset
  <1>5. ASSUME NEW i \in lists
        PROVE  IsFiniteSet(Clones(i))
    <2> DEFINE elements == 1..(stage[i].size - 1)
    <2>1. IsFiniteSet(elements) /\ IsFiniteSet({i})
      <3>1. i \in DOMAIN stage
        OBVIOUS
      <3>2. 1 \in Int /\ stage[i].size - 1 \in Int
        BY <1>2, <3>1
      <3> HIDE DEF stage, lists
      <3> QED
        BY <3>2, FS_Interval, FS_Singleton
    <2>2. Clones(i) \subseteq {i} \X elements
      OBVIOUS
    <2> HIDE DEF Clones, elements
    <2>3. IsFiniteSet({i} \X elements)
      BY <2>1, FS_Product
    <2> QED
      BY <2>2, <2>3, FS_Subset
  <1>6. IsFiniteSet({ Clones(i) : i \in lists })
    <2> HIDE DEF Clones, lists
    <2> DEFINE f == [i \in lists |-> Clones(i)]
    <2>1. f \in Surjection(lists, { Clones(i) : i \in lists })
      BY DEF Surjection
    <2> HIDE DEF f
    <2> QED
      BY <1>3, <2>1, FS_Surjection
  <1>7. IsFiniteSet(UNION { Clones(i) : i \in lists })
    <2> HIDE DEF Clones, lists
    <2> DEFINE all == { Clones(i) : i \in lists }
    <2>1. \A T \in all : IsFiniteSet(T)
      BY <1>5
    <2> HIDE DEF all
    <2>2. IsFiniteSet(UNION all)
      BY <1>6, <2>1, FS_UNION DEF all
    <2> QED
      BY <2>2 DEF all
  <1>8. SlotIds(stage) = firsts \union UNION { Clones(i) : i \in lists }
    BY DEF SlotIds
  <1> HIDE DEF firsts, lists, Clones
  <1> QED
    BY <1>4, <1>7, <1>8, FS_Union

\* Entries first, then the elements of the lists: a total order.
LEMMA BeforeIsOrder ==
    ASSUME NEW X, X \subseteq Nat \X Nat
    PROVE  /\ \A x \in X : ~Before(x, x)
           /\ \A x, y, z \in X : Before(x, y) /\ Before(y, z) => Before(x, z)
           /\ \A x, y \in X : x = y \/ Before(x, y) \/ Before(y, x)
  BY DEF Before

\* In that order every slot has a place of its own, and no place is empty.
LEMMA SlotRanks ==
    ASSUME NEW X, IsFiniteSet(X), X \subseteq Nat \X Nat
    PROVE  [x \in X |-> Cardinality({ y \in X : Before(y, x) }) + 1]
              \in Bijection(X, 1..Cardinality(X))
  <1> DEFINE Less(x) == { y \in X : Before(y, x) }
             rank == [x \in X |-> Cardinality(Less(x)) + 1]
  <1>1. Cardinality(X) \in Nat
    BY FS_CardinalityType
  <1>2. \A x \in X : IsFiniteSet(Less(x)) /\ Cardinality(Less(x)) \in Nat
    BY FS_Subset, FS_CardinalityType
  <1>3. ASSUME NEW y \in X, NEW z \in X, Before(y, z)
        PROVE  Cardinality(Less(y)) # Cardinality(Less(z))
    <2>1. Less(y) \subseteq Less(z)
      BY <1>3, BeforeIsOrder
    <2>2. y \in Less(z) /\ y \notin Less(y)
      BY <1>3, BeforeIsOrder
    <2> HIDE DEF Less
    <2> QED
      BY <1>2, <2>1, <2>2, FS_Subset
  <1>4. \A x, y \in X : Cardinality(Less(x)) = Cardinality(Less(y)) => x = y
    <2> HIDE DEF Less
    <2> QED
      BY <1>3, BeforeIsOrder
  <1>5. ASSUME NEW x \in X PROVE Cardinality(Less(x)) < Cardinality(X)
    <2>1. Less(x) \subseteq X /\ x \in X /\ x \notin Less(x)
      BY BeforeIsOrder
    <2> HIDE DEF Less
    <2>2. Cardinality(Less(x)) <= Cardinality(X) /\ Cardinality(X) # Cardinality(Less(x))
      BY <2>1, FS_Subset
    <2> QED
      BY <1>1, <1>2, <2>1, <2>2
  <1> DEFINE c == Cardinality(X)
             Size(x) == Cardinality(Less(x))
  <1>6. /\ c \in Nat
        /\ \A x \in X : Size(x) \in Nat /\ Size(x) < c
        /\ \A x, y \in X : Size(x) = Size(y) => x = y
    BY <1>1, <1>2, <1>4, <1>5
  <1>7. rank = [x \in X |-> Size(x) + 1]
    OBVIOUS
  <1> HIDE DEF Less, Size, rank, c
  <1>8. rank \in Injection(X, 1..c)
    <2>1. ASSUME NEW x \in X PROVE Size(x) + 1 \in 1..c
      <3> DEFINE k == Size(x)
      <3>1. k \in Nat /\ k < c
        BY <1>6
      <3> HIDE DEF k
      <3>2. k + 1 \in 1..c
        BY <1>6, <3>1
      <3> QED
        BY <3>2 DEF k
    <2>2. rank \in [X -> 1..c]
      BY <1>7, <2>1
    <2>3. \A x, y \in X : rank[x] = rank[y] => x = y
      BY <1>6, <1>7
    <2> QED
      BY <2>2, <2>3 DEF Injection, IsInjective
  <1>9. IsFiniteSet(1..c) /\ Cardinality(1..c) = c
    <2>1. 1 \in Int /\ c \in Int
      BY <1>6
    <2> QED
      BY <1>6, <2>1, FS_Interval
  <1>10. rank \in Surjection(X, 1..c)
    BY <1>8, <1>9, FS_Injection DEF c
  <1> QED
    BY <1>8, <1>10 DEF Bijection, rank, Less, c

\* A set of slots in that order is a sequence of its slots that leaves none out.
LEMMA InSlotOrderHolds ==
    ASSUME NEW X, IsFiniteSet(X), X \subseteq Nat \X Nat
    PROVE  /\ InSlotOrder(X) \in Seq(X)
           /\ \A x \in X : \E i \in DOMAIN InSlotOrder(X) : InSlotOrder(X)[i] = x
  <1> DEFINE c == Cardinality(X)
             Less(x) == { y \in X : Before(y, x) }
             Size(x) == Cardinality(Less(x))
             rank == [x \in X |-> Size(x) + 1]
  <1>1. c \in Nat /\ \A x \in X : Size(x) \in Nat
    BY FS_Subset, FS_CardinalityType
  <1>2. rank \in Bijection(X, 1..c)
    BY SlotRanks
  <1>3. InSlotOrder(X) = [i \in 1..c |-> CHOOSE x \in X : Size(x) = i - 1]
    BY DEF InSlotOrder
  <1> HIDE DEF Less, Size, c
  <1>4. /\ \A i \in 1..c : \E x \in X : Size(x) + 1 = i
        /\ \A x, y \in X : Size(x) + 1 = Size(y) + 1 => x = y
        /\ \A x \in X : Size(x) + 1 \in 1..c
    BY <1>2 DEF Bijection, Injection, Surjection, IsInjective
  <1>5. ASSUME NEW i \in 1..c PROVE InSlotOrder(X)[i] \in X
    <2>1. \E x \in X : Size(x) = i - 1
      <3>1. PICK x \in X : Size(x) + 1 = i
        BY <1>4
      <3> QED
        BY <1>1, <3>1
    <2> QED
      BY <1>3, <2>1
  <1>6. ASSUME NEW x \in X
        PROVE  \E i \in 1..c : InSlotOrder(X)[i] = x
    <2> DEFINE k == Size(x)
               i == k + 1
    <2>1. k \in Nat /\ i \in 1..c /\ \A y \in X : Size(y) = k => y = x
      BY <1>1, <1>4
    <2> HIDE DEF k
    <2>2. i - 1 = k
      BY <2>1
    <2> HIDE DEF i
    <2>3. InSlotOrder(X)[i] = CHOOSE y \in X : Size(y) = i - 1
      BY <1>3, <2>1
    <2>4. InSlotOrder(X)[i] = CHOOSE y \in X : Size(y) = k
      BY <2>2, <2>3
    <2>5. InSlotOrder(X)[i] = x
      BY <2>1, <2>4 DEF k
    <2> QED
      BY <2>1, <2>5
  <1>7. InSlotOrder(X) \in [1..c -> X] /\ DOMAIN InSlotOrder(X) = 1..c
    BY <1>3, <1>5
  <1>8. InSlotOrder(X) \in Seq(X)
    BY <1>1, <1>7
  <1> QED
    BY <1>6, <1>7, <1>8

\* The slots of a process can be put in order.
LEMMA SlotsAreFinite ==
    ASSUME NEW pr, IsProcess(pr)
    PROVE  IsFiniteSet(DOMAIN pr.slots) /\ DOMAIN pr.slots \subseteq Nat \X Nat
  <1> DEFINE s == pr.name
             k == pr.stage
  <1>1. /\ s \in Scheme /\ k \in 1..Len(Plan[s])
        /\ DOMAIN pr.slots = SlotIds(Plan[s][k])
    BY DEF IsProcess, StageOf
  <1> HIDE DEF s, k
  <1>2. IsFiniteSet(SlotIds(Plan[s][k]))
    BY <1>1, SlotIdsFinite
  <1>3. ASSUME NEW x \in SlotIds(Plan[s][k])
        PROVE  x \in Nat \X Nat
    <2>1. x = <<x[1], x[2]>> /\ x[1] \in Nat /\ x[2] \in Nat
      BY <1>1, <1>3, SlotIdShape
    <2> HIDE DEF SlotIds
    <2>2. <<x[1], x[2]>> \in Nat \X Nat
      BY <2>1
    <2> QED
      BY <2>1, <2>2
  <1> QED
    BY <1>1, <1>2, <1>3

\* One slot is in order.
LEMMA InSlotOrderOne ==
    ASSUME NEW x \in Nat \X Nat
    PROVE  InSlotOrder({x}) = <<x>>
  <1>1. IsFiniteSet({x}) /\ Cardinality({x}) = 1
    BY FS_Singleton
  <1> DEFINE q == InSlotOrder({x})
  <1>2. q \in Seq({x})
    BY <1>1, InSlotOrderHolds
  <1>3. DOMAIN q = 1..1
    BY <1>1 DEF InSlotOrder
  <1> HIDE DEF q
  <1>4. Len(q) = 1 /\ q[1] = x
    <2>1. DOMAIN q = 1..Len(q) /\ Len(q) \in Nat
      BY <1>2
    <2>2. Len(q) = 1
      <3>1. 1 \in 1..Len(q) /\ Len(q) \in 1..1
        <4>1. 1 \in 1..Len(q)
          BY <1>3, <2>1
        <4> QED
          BY <1>3, <2>1, <4>1
      <3> QED
        BY <3>1
    <2>3. q \in [1..Len(q) -> {x}]
      BY <1>2
    <2>4. 1 \in 1..Len(q)
      BY <2>2
    <2> QED
      BY <2>2, <2>3, <2>4
  <1>5. q = <<x>>
    BY <1>2, <1>4
  <1> QED
    BY <1>5 DEF q
=============================================================================
