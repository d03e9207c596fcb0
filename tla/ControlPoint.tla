----------------------------- MODULE ControlPoint -----------------------------
(***************************************************************************)
(* Control points of one process (src/server/process_controlpoint.cpp and  *)
(* its callers in process.cpp): the file controlpoints.xml is rewritten    *)
(* after every change of a module to an ended state, and a process whose   *)
(* file exists resumes from it.  The server may stop at any time, also     *)
(* between the steps of writing the file.                                  *)
(*                                                                         *)
(* A handler changes the process in memory and leaves the changes of the   *)
(* file in todo; they are made before anything else happens.               *)
(***************************************************************************)
EXTENDS DiscompProcess

CONSTANTS MaxCrashes    \* bound: how often the server stops

ASSUME CrashAssumption == MaxCrashes \in Nat

VARIABLES process,      \* the live process, or NoProcess
          file,         \* controlpoints.xml
          todo,         \* what the running handler will write, in order
          outputs,      \* slots of any stage whose module ran (output directory)
          stopped,      \* slots that a handler or the maximal time ended (history)
          crashes,      \* how often the server stopped
          intact        \* it did not stop while the file was written (history)

pointVars == <<process, file, todo, outputs, stopped, crashes, intact>>

NoProcess == [name |-> "none"]

\* What is at the path of the file.  A file that was opened for writing and
\* not closed is empty or cut off: no XML document.
Absent == [kind |-> "absent"]
Torn == [kind |-> "torn"]

---------------------------------------------------------------------------
(* Writing.                                                                *)

\* The vector modules of a stage.
InOrder(stage) == InSlotOrder(SlotIds(stage))

Ordered(pr) == InOrder(StageOf(pr))

\* list_element_num + 1 of a list's slot; 0 stands for -1 and a plain module.
ListNum(pr, x) ==
    IF StageOf(pr)[x[1]].list /\ ~LostElement(pr, x) THEN x[2] + 1 ELSE 0

DoneSlots(pr) == { x \in DOMAIN pr.slots : pr.slots[x].status = "done" }

\* Mutant: a module that has been given to a node is written as done.
PointStarted(pr) ==
    [kind |-> "point", stage |-> pr.stage,
     entries |-> [i \in DOMAIN Ordered(pr) |->
                    LET x == Ordered(pr)[i]
                    IN  [name |-> SlotName(pr, x), num |-> ListNum(pr, x),
                         done |-> pr.slots[x].status # "wait"]]]

\* DiscompProcessControlPoint::Create: every status but 2 is written as 0.
Point(pr) ==
    [kind |-> "point", stage |-> pr.stage,
     entries |-> [i \in DOMAIN Ordered(pr) |->
                    LET x == Ordered(pr)[i]
                    IN  [name |-> SlotName(pr, x), num |-> ListNum(pr, x),
                         done |-> x \in DoneSlots(pr)]]]

\* Mutant: the document is not written before the file is left.
SaveUnwritten(pr) == <<Torn>>

\* File::save truncates, then writes.
Save(pr) == <<Torn, Point(pr)>>

\* What Create writes of the first stage before its lists are expanded.
Unexpanded(s) ==
    [kind |-> "point", stage |-> 1,
     entries |-> [i \in DOMAIN Plan[s][1] |->
                    [name |-> Plan[s][1][i].name, num |-> 0, done |-> FALSE]]]

\* Mutant: an empty list ends its whole stage.
RebuiltWhole(pr) ==
    IF \E i \in DOMAIN StageOf(pr) : FirstEmpty(StageOf(pr), i)
    THEN WithSlots(pr, [x \in DOMAIN pr.slots |-> [status |-> "done", node |-> NoNode]])
    ELSE pr

\* rebuildStageModulesForParallelList: an empty list is done, and the file is
\* not written.
Rebuilt(pr) ==
    LET empty == { x \in DOMAIN pr.slots : FirstEmpty(StageOf(pr), x[1]) }
    IN  WithSlots(pr, [x \in empty |-> [status |-> "done", node |-> NoNode]])

RebuildWrites(pr) ==
    IF \E i \in DOMAIN StageOf(pr) : FirstEmpty(StageOf(pr), i)
    THEN <<>> ELSE Save(Rebuilt(pr))

\* Mutant: no point is created when a stage ends.
SettleWritesForgotten(pr) == <<>>

\* checkCurrentStageIsDone
SettleWrites(pr) ==
    IF StageDone(pr) /\ ~LastStage(pr) THEN Save(pr) \o RebuildWrites(Settle(pr)) ELSE <<>>

---------------------------------------------------------------------------
(* Resuming.                                                               *)

Agrees(pr, point) ==
    \A i \in DOMAIN Ordered(pr) \intersect DOMAIN point.entries :
        LET x == Ordered(pr)[i]
        IN  /\ point.entries[i].name = SlotName(pr, x)
            /\ StageOf(pr)[x[1]].list => point.entries[i].num = ListNum(pr, x)

Restored(pr, point) ==
    LET at == { i \in DOMAIN Ordered(pr) : i \in DOMAIN point.entries }
    IN  WithSlots(pr, [x \in { Ordered(pr)[i] : i \in at } |->
            LET i == CHOOSE i \in at : Ordered(pr)[i] = x
            IN  [status |-> IF point.entries[i].done THEN "done" ELSE "wait",
                 node |-> NoNode]])

\* DiscompProcessControlPoint::Resume.  The MD5 sum of the plan is not compared.
Resumed(s, f) ==
    IF f.kind # "point" THEN EnterStage(s, 1)
    ELSE LET pr == EnterStage(s, f.stage)
         IN  IF Agrees(pr, f) THEN Restored(pr, f) ELSE EnterStage(s, 1)

---------------------------------------------------------------------------

PointInit ==
    /\ process = NoProcess
    /\ file = Absent
    /\ todo = <<>>
    /\ outputs = {}
    /\ stopped = {}
    /\ crashes = 0
    /\ intact = TRUE

\* The process goes on as pr, or is destroyed if that was its last stage.
Becomes(pr) == process' = IF Completes(pr) THEN NoProcess ELSE Settle(pr)

\* DiscompProcess::Init with what is found at the path.  A process that is
\* complete already cannot be started: Init fails and the file stays.
InitWith(s, found) ==
    LET pr == Resumed(s, found)
        first == IF found.kind = "point" THEN Save(pr) ELSE <<Torn, Unexpanded(s)>>
    IN  /\ Becomes(Rebuilt(pr))
        /\ todo' = <<Absent>> \o first \o RebuildWrites(pr) \o SettleWrites(Rebuilt(pr))
        /\ IF found = Absent
           THEN outputs' = {} /\ stopped' = {}
           ELSE UNCHANGED <<outputs, stopped>>

Ready == todo = <<>>

StartProcess(s) ==
    /\ Ready
    /\ process = NoProcess
    /\ InitWith(s, file)
    /\ UNCHANGED <<file, crashes, intact>>

\* The start scripts of the packages remove the file first.
StartAnew(s) ==
    /\ Ready
    /\ process = NoProcess
    /\ file # Absent
    /\ file' = Absent
    /\ InitWith(s, Absent)
    /\ UNCHANGED <<crashes, intact>>

\* stopProcess deletes the process; the file stays.
StopProcess ==
    /\ "stopProcess" \in May
    /\ Ready
    /\ process # NoProcess
    /\ process' = NoProcess
    /\ UNCHANGED <<file, todo, outputs, stopped, crashes, intact>>

Slots(S) ==
    IF process = NoProcess THEN {}
    ELSE { x \in DOMAIN process.slots : process.slots[x].status \in S }

Waiting(pr) == { x \in DOMAIN pr.slots : pr.slots[x].status = "wait" }

Here(X) == { <<process.stage, x>> : x \in X }

\* giveJobToNode: it calls checkCurrentStageIsDone first, and may then find
\* no module that the node offers.
GiveJob ==
    /\ Ready
    /\ process # NoProcess
    /\ \/ StageDone(process) /\ Becomes(process)
       \/ /\ ~Completes(process)
          /\ \E x \in Waiting(Settle(process)) :
                process' = StartSlot(Settle(process), x, 1)
    /\ todo' = SettleWrites(process)
    /\ UNCHANGED <<file, outputs, stopped, crashes, intact>>

\* clearJobOnNode of the node x runs on
LoseJob(x) ==
    /\ "break" \in May
    /\ Ready
    /\ x \in Slots({"started"})
    /\ process' = WithSlots(process, [y \in {x} |-> [status |-> "wait", node |-> NoNode]])
    /\ UNCHANGED <<file, todo, outputs, stopped, crashes, intact>>

Ending(x, st) == WithSlots(process, [y \in {x} |-> [status |-> st, node |-> 1]])

\* finishModuleExecutionOnNode or moduleMaxTimeReached: a module ends, its
\* handler may stop others or go back to stage k, and the file is written.
EndSlot(x, st) ==
    \E X \in PluginStops(process), k \in PluginGotos(process) :
        LET asked == StopSlots(Ending(x, st), X)
            next == WentTo(asked, k)
            entered == EnterStage(process.name, k)
        IN  /\ Becomes(next)
            /\ todo' = (IF k = 0 THEN <<>>
                                 ELSE RebuildWrites(entered) \o SettleWrites(entered))
                       \o Save(next) \o SettleWrites(next)
            /\ stopped' = stopped \union
                   Here((X \intersect Slots({"wait", "started"})) \ {x})
                   \union IF st = "stoped" THEN Here({x}) ELSE {}

ModuleFinished(x) ==
    /\ Ready
    /\ x \in Slots({"started"})
    /\ EndSlot(x, "done")
    /\ outputs' = outputs \union Here({x})
    /\ UNCHANGED <<file, crashes, intact>>

\* The answer to a stop: no outputs, but the module is marked as done.
StoppedModuleFinished(x) ==
    /\ Ready
    /\ x \in Slots({"stopping"})
    /\ EndSlot(x, "done")
    /\ UNCHANGED <<file, outputs, crashes, intact>>

MaxTimeReached(x) ==
    /\ "timeout" \in May
    /\ Ready
    /\ x \in Slots({"started"})
    /\ EndSlot(x, "stoped")
    /\ UNCHANGED <<file, outputs, crashes, intact>>

\* The next change of the file.
Write ==
    /\ todo # <<>>
    /\ file' = Head(todo)
    /\ todo' = Tail(todo)
    /\ intact' = (intact \/ todo' = <<>>)
    /\ UNCHANGED <<process, outputs, stopped, crashes>>

Crash ==
    /\ crashes < MaxCrashes
    /\ process # NoProcess \/ todo # <<>>
    /\ crashes' = crashes + 1
    /\ process' = NoProcess
    /\ todo' = <<>>
    /\ intact' = (intact /\ todo = <<>>)
    /\ UNCHANGED <<file, outputs, stopped>>

SlotId == UNION { UNION { SlotIds(Plan[s][k]) : k \in DOMAIN Plan[s] } : s \in Scheme }

PointNext ==
    \/ \E s \in Scheme : StartProcess(s) \/ StartAnew(s)
    \/ GiveJob
    \/ \E x \in SlotId : LoseJob(x) \/ ModuleFinished(x)
                             \/ StoppedModuleFinished(x) \/ MaxTimeReached(x)
    \/ StopProcess
    \/ Write
    \/ Crash

PointSpec == PointInit /\ [][PointNext]_pointVars

---------------------------------------------------------------------------
(* Properties.                                                             *)

PointTypeOK ==
    /\ process = NoProcess \/ IsProcess(process)
    /\ \A f \in {file} \union { todo[i] : i \in DOMAIN todo } :
          \/ f \in {Absent, Torn}
          \/ f.kind = "point" /\ \E s \in Scheme : f.stage \in DOMAIN Plan[s]
    /\ crashes \in 0..MaxCrashes

\* Nothing is skipped: every module of the stages behind the current one and
\* every module taken as done was executed, its outputs are still in the
\* directory of the process, or it was stopped on purpose.  It holds through
\* any number of crashes and resumes (Init clears that directory only when it
\* finds no file).
NothingSkipped ==
    process # NoProcess =>
        LET s == process.name
            behind == UNION { { <<k, x>> : x \in SlotIds(Plan[s][k]) } : k \in 1..(process.stage - 1) }
            empty == { t \in behind \union Here(DOMAIN process.slots) :
                         FirstEmpty(Plan[s][t[1]], t[2][1]) }
        IN  behind \union Here(DoneSlots(process)) \subseteq outputs \union stopped \union empty

\* A control point is up to date: between two handlers, starting again from
\* the file would bring back the stage the process is at and the modules
\* that are done (Create is called at every change a resume would miss).
\* Nothing is said of a process that was left in a stage without any work:
\* Create does not save it before the next call of giveJobToNode moves it on.
PointIsCurrent ==
    Ready /\ process # NoProcess =>
        LET pr == Settle(Rebuilt(Resumed(process.name, file)))
        IN  \/ StageDone(process)
            \/ pr.stage = process.stage /\ DoneSlots(pr) = DoneSlots(process)

\* A process that has results can be resumed: no end of the process, and no
\* stop of the server except while the file is being rewritten, leaves it
\* without a readable control point.
ResumePossible ==
    Ready /\ process = NoProcess /\ outputs # {} /\ intact => file.kind = "point"

---------------------------------------------------------------------------
(* The inductive invariant behind NothingSkipped: what it says of the      *)
(* process holds of every point in the file and of every point that is     *)
(* about to be written, too.  C are the slots that ran or were stopped.    *)

CoveredBy(C, s, k, x) == <<k, x>> \in C \/ FirstEmpty(Plan[s][k], x[1])

BehindBy(C, s, k) ==
    \A j \in 1..(k - 1) : \A x \in SlotIds(Plan[s][j]) : CoveredBy(C, s, j, x)

ProcessSafe(C, pr) ==
    /\ IsProcess(pr)
    /\ BehindBy(C, pr.name, pr.stage)
    /\ \A x \in DOMAIN pr.slots : pr.slots[x].status \in {"done", "stoped", "stopping"} =>
          CoveredBy(C, pr.name, pr.stage, x)

FileSafe(C, s, f) ==
    \/ f = Absent
    \/ f = Torn
    \/ /\ f.kind = "point"
       /\ f.stage \in 1..Len(Plan[s])
       /\ BehindBy(C, s, f.stage)
       /\ \A i \in DOMAIN f.entries :
             i \in DOMAIN Ordered(EnterStage(s, f.stage)) /\ f.entries[i].done =>
                CoveredBy(C, s, f.stage, Ordered(EnterStage(s, f.stage))[i])

Elements(q) == { q[i] : i \in DOMAIN q }

WritesSafe(C, s, q) ==
    /\ q \in Seq(Elements(q))
    /\ \A f \in Elements(q) : FileSafe(C, s, f)

\* No point, in the file or on its way there, and no process counts a module
\* as done that neither ran nor was stopped.
PointInv ==
    /\ crashes \in 0..MaxCrashes
    /\ process = NoProcess \/ ProcessSafe(outputs \union stopped, process)
    /\ \A s \in Scheme : /\ FileSafe(outputs \union stopped, s, file)
                         /\ WritesSafe(outputs \union stopped, s, todo)
=============================================================================
