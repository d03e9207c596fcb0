--------------------------- MODULE DiscompProcess ---------------------------
(***************************************************************************)
(* One calculating process described by a process.xml plan: class          *)
(* DiscompProcess of src/server/process.cpp.  The module has no state of   *)
(* its own.  A process is a record [name, stage, slots] and every method   *)
(* of the class that changes it is an operator from a record to a record;  *)
(* DiscompServer keeps the live processes and applies these operators.     *)
(*                                                                         *)
(* A slot is a DiscompProcessStageModule of the current stage.  Slots of   *)
(* other stages are not kept: stages before the current one are finished   *)
(* and entering a later stage starts from fresh slots.                     *)
(***************************************************************************)
EXTENDS DiscompModules, Naturals, Sequences, FiniteSets

CONSTANTS Scheme,       \* process names a user can start
          Plan          \* Plan[s]: the stages of s, each a sequence of entries

\* An entry is a <module> or <listmodule> element of a stage.  size is the
\* number of files of the list parameter (1 and ignored for a plain module).
Entry == [name : Module, list : BOOLEAN, size : Nat]

ASSUME PlanAssumption ==
    /\ Plan \in [Scheme -> Seq(Seq(Entry))]
    /\ \A s \in Scheme : Len(Plan[s]) > 0

Status == {"wait", "started", "done", "stopping", "stoped"}

Ended == {"done", "stoped"}

NoNode == 0             \* executed_on_node = -1

---------------------------------------------------------------------------
(* The slots of a stage.  <<i, 0>> is the i-th entry of the plan; a list   *)
(* entry of size k is expanded by rebuildStageModulesForParallelList into  *)
(* <<i, 0>>, ..., <<i, k-1>>.  The expansion stops at the first empty      *)
(* list, which is marked done; a list entry behind it keeps element -1.    *)

Expanded(stage, i) ==
    /\ stage[i].list
    /\ \A j \in 1..i : stage[j].list => stage[j].size > 0

FirstEmpty(stage, i) ==
    /\ stage[i].list
    /\ stage[i].size = 0
    /\ \A j \in 1..(i - 1) : stage[j].list => stage[j].size > 0

SlotIds(stage) ==
    { <<i, 0>> : i \in DOMAIN stage } \union
    UNION { { <<i, e>> : e \in 1..(stage[i].size - 1) } :
              i \in { j \in DOMAIN stage : Expanded(stage, j) } }

\* The clones are pushed behind all entries of the plan.
Before(a, b) ==
    \/ a[2] = 0 /\ b[2] = 0 /\ a[1] < b[1]
    \/ a[2] = 0 /\ b[2] > 0
    \/ a[2] > 0 /\ b[2] > 0 /\ a[1] < b[1]
    \/ a[2] > 0 /\ b[2] > 0 /\ a[1] = b[1] /\ a[2] < b[2]

\* A set of slots in that order.
InSlotOrder(X) ==
    [i \in 1..Cardinality(X) |->
        CHOOSE x \in X : Cardinality({ y \in X : Before(y, x) }) = i - 1]

StageOf(pr) == Plan[pr.name][pr.stage]

SlotName(pr, x) == StageOf(pr)[x[1]].name

\* list_element_num stays -1: the element's file does not exist.
LostElement(pr, x) ==
    StageOf(pr)[x[1]].list /\ ~Expanded(StageOf(pr), x[1])

Slot == [status : Status, node : Nat]

FreshSlot(stage, x) ==
    [status |-> IF FirstEmpty(stage, x[1]) THEN "done" ELSE "wait",
     node |-> NoNode]

\* Mutant: the list modules are not expanded.
EnterStageUnexpanded(name, k) ==
    [name |-> name, stage |-> k,
     slots |-> [x \in { <<i, 0>> : i \in DOMAIN Plan[name][k] } |->
                  FreshSlot(Plan[name][k], x)]]

\* jumpToTheStage and the head of a stage advance: every slot waits.
EnterStage(name, k) ==
    [name |-> name, stage |-> k,
     slots |-> [x \in SlotIds(Plan[name][k]) |-> FreshSlot(Plan[name][k], x)]]

IsProcess(pr) ==
    /\ pr = [name |-> pr.name, stage |-> pr.stage, slots |-> pr.slots]
    /\ pr.name \in Scheme
    /\ pr.stage \in 1..Len(Plan[pr.name])
    /\ pr.slots \in [SlotIds(StageOf(pr)) -> Slot]

---------------------------------------------------------------------------
(* checkCurrentStageIsDone: nothing while a slot is unfinished; otherwise  *)
(* the next stage is entered, or, after the last one, the process is       *)
(* completed and the server destroys it.                                   *)

\* Mutant: one finished module finishes the stage.
StageDoneEarly(pr) == \E x \in DOMAIN pr.slots : pr.slots[x].status \in Ended

StageDone(pr) == \A x \in DOMAIN pr.slots : pr.slots[x].status \in Ended

LastStage(pr) == pr.stage = Len(Plan[pr.name])

Completes(pr) == StageDone(pr) /\ LastStage(pr)

\* Mutant: the next stage is not entered.
SettleNever(pr) == pr

Settle(pr) ==
    IF StageDone(pr) /\ ~LastStage(pr) THEN EnterStage(pr.name, pr.stage + 1)
                                       ELSE pr

---------------------------------------------------------------------------
(* Slots of a process by the node they run on.                             *)

StartedOn(pr, n) ==
    { x \in DOMAIN pr.slots : /\ pr.slots[x].status = "started"
                              /\ pr.slots[x].node = n }

UnfinishedOn(pr, n) ==
    { x \in DOMAIN pr.slots : /\ pr.slots[x].status \notin Ended
                              /\ pr.slots[x].node = n }

Started(pr) == { x \in DOMAIN pr.slots : pr.slots[x].status = "started" }

\* pr with the slots in the domain of new replaced.
WithSlots(pr, new) ==
    [name |-> pr.name, stage |-> pr.stage,
     slots |-> [x \in DOMAIN pr.slots |->
                  IF x \in DOMAIN new THEN new[x] ELSE pr.slots[x]]]

\* giveJobToNode: the waiting slots whose module the node offers, and the
\* first of them in the order of the vector modules.
Offered(pr, mods) ==
    { x \in DOMAIN pr.slots : /\ pr.slots[x].status = "wait"
                              /\ SlotName(pr, x) \in mods }

IsFirst(x, X) == \A y \in X \ {x} : Before(x, y)

StartSlot(pr, x, n) ==
    WithSlots(pr, [y \in {x} |-> [status |-> "started", node |-> n]])

\* Mutant: the slot stays started.
ClearJobForgotten(pr, n) == pr

\* clearJobOnNode: the node's started slots wait for another node.
ClearJob(pr, n) ==
    WithSlots(pr, [x \in StartedOn(pr, n) |->
                      [status |-> "wait", node |-> NoNode]])

\* Mutant: the node that reports is not compared.
EndedSlotsAnywhere(pr, n, m) ==
    { x \in DOMAIN pr.slots : /\ pr.slots[x].status \notin Ended
                              /\ SlotName(pr, x) = m }

\* finishModuleExecutionOnNode (st = "done") and moduleMaxTimeReached
\* (st = "stoped") up to the event handlers.
EndedSlots(pr, n, m) == { x \in UnfinishedOn(pr, n) : SlotName(pr, x) = m }

FinishJob(pr, n, m, st) ==
    WithSlots(pr, [x \in EndedSlots(pr, n, m) |-> [status |-> st, node |-> n]])

\* Mutant: a started module stays started while it is being stopped.
StopSlotsWaiting(pr, X) ==
    WithSlots(pr, [x \in { y \in X : pr.slots[y].status = "wait" } |->
                      [status |-> "stoped", node |-> pr.slots[x].node]])

\* The switch of stopModuleByName and stopListModuleByListNum.
StopSlots(pr, X) ==
    LET stoppable == { x \in X : pr.slots[x].status \in {"wait", "started"} }
    IN  WithSlots(pr, [x \in stoppable |->
            [status |-> IF pr.slots[x].status = "wait" THEN "stoped"
                                                       ELSE "stopping",
             node |-> pr.slots[x].node]])

Named(pr, m) == { x \in DOMAIN pr.slots : SlotName(pr, x) = m }

ListElement(pr, m, e) ==
    { x \in Named(pr, m) : /\ StageOf(pr)[x[1]].list
                           /\ ~LostElement(pr, x)
                           /\ x[2] = e }

\* What the plugin's handler of a slot's onFinish or onStop event may call:
\* stopModule and stopListModule any number of times, then gotoStage once.
PluginStops(pr) ==
    { UNION calls : calls \in SUBSET
        IF "pluginStop" \in May
        THEN { Named(pr, m) : m \in Module } \union
             { ListElement(pr, m, x[2]) : m \in Module, x \in DOMAIN pr.slots }
        ELSE {} }

PluginGotos(pr) == {0} \union IF "gotoStage" \in May THEN 1..pr.stage ELSE {}

\* gotoStage for k # 0.  It settles the stage it enters.
WentTo(pr, k) == IF k = 0 THEN pr ELSE Settle(EnterStage(pr.name, k))
=============================================================================
