------------------------------- MODULE ProcessJS -------------------------------
(***************************************************************************)
(* A calculating process whose schedule is a script: DiscompProcessJS and  *)
(* DiscompModuleJS (src/server/process_js.cpp, module_js.cpp), with what   *)
(* the server does for such a process (src/server/server.cpp).             *)
(*                                                                         *)
(* The script runs in a thread of its own and starts, stops and waits for  *)
(* module objects; the main thread serves its signals and the reports of   *)
(* the nodes, and in EDP mode runs the script's event handlers.  Preparing *)
(* and starting a module on a node are one step here; DiscompServer and    *)
(* DiscompClient have the messages in between.                             *)
(***************************************************************************)
EXTENDS Naturals, FiniteSets, Sequences, SequencesExt

CONSTANTS Object,       \* the module objects a script makes
          NameOf,       \* the name of the module an object stands for
          Offers,       \* Offers[n]: the names installed on node n
          Scripts,      \* the scripts a run may be given
          Company,      \* whether another process is in the server's queue
          Troubles      \* which of the events below happen

(* A script is [edp, commands, onFinish]: a command names an object, and   *)
(* onFinish[o] are the objects that o's onFinish handler starts.  An       *)
(* object is made once, before any other command can name it.              *)
Ops == {"new", "start", "startElement", "stop", "wait"}

(* fail     a node cannot run its module, or the program takes too long    *)
(* break    a node is lost                                                 *)
(* kill     the user stops the process                                     *)
ASSUME ScriptAssumption ==
    /\ Company \in BOOLEAN
    /\ Troubles \subseteq {"fail", "break", "kill"}
    /\ \A s \in Scripts :
          /\ s.edp \in BOOLEAN
          /\ s.commands \in Seq([op : Ops, obj : Object])
          /\ \A i, j \in DOMAIN s.commands :
                s.commands[i].op = "new" /\ s.commands[j].obj = s.commands[i].obj => i <= j
          /\ s.onFinish \in [Object -> SUBSET Object]

Node == 1..Len(Offers)

VARIABLES script,       \* the script that runs
          pc,           \* its next command; then it returns; then it is over
          object,       \* status and executed_on_node of every object
          modules,      \* the vector modules
          posted,       \* signals of the script thread to the main thread
          alive,        \* the process is in the server's queue
          nodes,        \* the server's view of every node
          allFree,      \* all_nodes_free
          running,      \* running[n]: the objects whose programs run on n
          toNode,       \* toNode[n]: modules n is asked to stop
          toServer,     \* toServer[n]: reports of n
          fault,        \* whether undefined behaviour was reached
          ran,          \* objects whose program ended by itself (history)
          lost,         \* objects that failed or lost their node (history)
          refused       \* objects whose handler was refused (history)

processVars == <<object, modules, alive>>
serverVars == <<nodes, allFree, fault>>
wireVars == <<running, toNode, toServer>>
historyVars == <<ran, lost, refused>>
vars == <<script, pc, posted, processVars, serverVars, wireVars, historyVars>>

Status == {"new", "wait", "started", "done", "stopping", "stoped"}

NoNode == 0

NewNode(state) == [state |-> state, busy |-> FALSE, stoping |-> FALSE, exec |-> "none"]

NewSignal == [id |-> "new"]

\* stopModuleOnNode_signal, for the node the object is on
StopSignal(o) == [id |-> "stop", node |-> object[o].node, name |-> NameOf[o]]

ScriptInit ==
    /\ script \in Scripts
    /\ pc = 1
    /\ object = [o \in Object |-> [status |-> "new", node |-> NoNode]]
    /\ modules = <<>>
    /\ posted = <<NewSignal>>   \* startProcess runs the loop, too
    /\ alive = TRUE
    /\ \E there \in SUBSET Node :
          nodes = [n \in Node |-> NewNode(IF n \in there THEN "up" ELSE "none")]
    /\ allFree = TRUE
    /\ running = [n \in Node |-> {}]
    /\ toNode = [n \in Node |-> <<>>]
    /\ toServer = [n \in Node |-> <<>>]
    /\ fault = FALSE
    /\ ran = {}
    /\ lost = {}
    /\ refused = {}

---------------------------------------------------------------------------
(* The script thread.                                                      *)

\* Mutant: the thread runs again when its code has returned.
ReturningAgain == pc > Len(script.commands)

Returning == pc = Len(script.commands) + 1

Over == pc > Len(script.commands) + 1

Waiting(obj, X) ==
    [o \in Object |-> IF o \in X THEN [obj[o] EXCEPT !.status = "wait"] ELSE obj[o]]

With(status) == { o \in ToSet(modules) : object[o].status = status }

\* The next command is op of object o.
Command(op, o) ==
    /\ alive /\ ~fault
    /\ pc \in DOMAIN script.commands
    /\ script.commands[pc] = [op |-> op, obj |-> o]
    /\ pc' = pc + 1
    /\ UNCHANGED <<script, alive, serverVars, wireVars, lost, refused>>

\* new DiscompModule(name)
New(o) ==
    /\ Command("new", o)
    /\ modules' = Append(modules, o)
    /\ UNCHANGED <<object, posted, ran>>

\* start(): the signal to the main thread is queued.
Start(o) ==
    /\ Command("start", o)
    /\ object' = Waiting(object, {o})
    /\ posted' = Append(posted, NewSignal)
    /\ ran' = ran \ {o}
    /\ UNCHANGED modules

\* startElement(k): the object of the element joins the vector.
StartElement(o) ==
    /\ Command("startElement", o)
    /\ object' = Waiting(object, {o})
    /\ modules' = Append(modules, o)
    /\ posted' = Append(posted, NewSignal)
    /\ ran' = ran \ {o}

\* waitForFinished and waitForElementFinished
WaitForFinished(o) ==
    /\ Command("wait", o)
    /\ object[o].status = "done"
    /\ UNCHANGED <<object, modules, posted, ran>>

\* stop() and stopModuleByName: one signal for every started object of the
\* name, at its first place in the vector
Stop(o) ==
    /\ Command("stop", o)
    /\ LET same == { x \in Object : NameOf[x] = NameOf[o] }
           told == { i \in DOMAIN modules :
                       /\ modules[i] \in same \intersect With("started")
                       /\ \A k \in 1..(i - 1) : modules[k] # modules[i] }
       IN  /\ object' = [x \in Object |->
                CASE x \in same \intersect With("wait") -> [object[x] EXCEPT !.status = "stoped"]
                  [] x \in same \intersect With("started") -> [object[x] EXCEPT !.status = "stopping"]
                  [] OTHER -> object[x]]
           /\ \E order \in [1..Cardinality(told) -> told] :
                 /\ \A i, j \in DOMAIN order : i < j => order[i] < order[j]
                 /\ posted' = posted \o
                       [i \in DOMAIN order |-> StopSignal(modules[order[i]])]
    /\ UNCHANGED <<modules, ran>>

Return ==
    /\ alive /\ ~fault
    /\ Returning
    /\ pc' = pc + 1
    /\ UNCHANGED <<script, posted, processVars, serverVars, wireVars, historyVars>>

---------------------------------------------------------------------------
(* checkProcessQueue.                                                      *)

IsFree(nds, n) == nds[n].state = "up" /\ ~nds[n].busy

\* isProcessCompleted
Completed(obj) ==
    Over /\ \A i \in DOMAIN modules : obj[modules[i]].status \notin {"wait", "started"}

\* Every free node in turn is given the first waiting module it offers
\* (giveJobToNode), if the process lives: the index of its object, or 0.
Gives(give, obj, nds, lives) ==
    \A n \in Node :
        LET fits == { i \in DOMAIN modules :
                        /\ lives /\ obj[modules[i]].status = "wait"
                        /\ NameOf[modules[i]] \in Offers[n]
                        /\ \A k \in Node : k < n /\ give[k] # 0 =>
                                           modules[give[k]] # modules[i] }
        IN  IF IsFree(nds, n) /\ fits # {}
            THEN give[n] \in fits /\ \A i \in fits : give[n] <= i
            ELSE give[n] = 0

AllFree(nds) == \A n \in Node : nds[n].state = "up" => ~nds[n].busy

\* The loop, when the objects are obj, the nodes nds and the process lives or
\* not.  A process found complete is destroyed and the loop goes on with the
\* first process, which need not exist: its log is written to in any case.
CheckProcessQueue(obj, nds, lives) ==
    IF lives /\ Completed(obj)
    THEN /\ alive' = FALSE
         /\ fault' = ~Company
         /\ object' = obj
         /\ nodes' = nds
         /\ allFree' = AllFree(nds)
         /\ UNCHANGED running
    ELSE \E give \in [Node -> 0..Len(modules)] :
            LET takers(o) == { n \in Node : give[n] # 0 /\ modules[give[n]] = o }
            IN  /\ Gives(give, obj, nds, lives)
                /\ alive' = lives
                /\ object' = [o \in Object |->
                       IF takers(o) = {} THEN obj[o]
                       ELSE [status |-> "started", node |-> CHOOSE n \in takers(o) : TRUE]]
                /\ nodes' = [n \in Node |->
                       IF give[n] = 0 THEN nds[n]
                       ELSE [nds[n] EXCEPT !.busy = TRUE, !.exec = NameOf[modules[give[n]]]]]
                /\ running' = [n \in Node |->
                       IF give[n] = 0 THEN running[n]
                       ELSE running[n] \union {modules[give[n]]}]
                /\ allFree' = AllFree(nodes')
                /\ UNCHANGED fault

---------------------------------------------------------------------------
(* The main thread: signals of the script.                                 *)

Posted(id) ==
    /\ ~fault
    /\ posted # <<>>
    /\ Head(posted).id = id
    /\ posted' = Tail(posted)

\* Mutant: the queue is never looked at for the sake of a script.
NewModulesAvailableIgnored ==
    /\ Posted("new")
    /\ UNCHANGED <<script, pc, modules, processVars, serverVars, wireVars, historyVars>>

\* newModulesAvailable_slot
NewModulesAvailable ==
    /\ Posted("new")
    /\ IF alive /\ allFree
       THEN CheckProcessQueue(object, nodes, TRUE)
       ELSE UNCHANGED <<object, alive, serverVars, running>>
    /\ UNCHANGED <<script, pc, modules, toNode, toServer, historyVars>>

\* stopModuleOnNode_slot, for whatever the node is working on by now
StopModuleOnNode ==
    /\ Posted("stop")
    /\ LET n == Head(posted).node
       IN  IF alive /\ nodes[n].state = "up" /\ nodes[n].busy
           THEN /\ nodes' = [nodes EXCEPT ![n].stoping = TRUE]
                /\ toNode' = [toNode EXCEPT ![n] = Append(@, Head(posted).name)]
           ELSE UNCHANGED <<nodes, toNode>>
    /\ UNCHANGED <<script, pc, processVars, allFree, fault, running, toServer, historyVars>>

---------------------------------------------------------------------------
(* The main thread: reports of the nodes.                                  *)

Hears(n, kinds) ==
    /\ ~fault
    /\ toServer[n] # <<>>
    /\ Head(toServer[n]).kind \in kinds
    /\ toServer' = [toServer EXCEPT ![n] = Tail(@)]
    /\ UNCHANGED <<script, pc, modules, posted, toNode>>

Dropped == UNCHANGED <<object, alive, serverVars, running, historyVars>>

\* Mutant: the objects of other nodes end, too.
EndedOnAny(n, name) ==
    { o \in ToSet(modules) : NameOf[o] = name /\ object[o].status \notin {"done", "stoped", "new"} }

\* The objects that a report of module name from n ends.
EndedOn(n, name) ==
    { o \in ToSet(modules) : /\ object[o].node = n
                             /\ NameOf[o] = name
                             /\ object[o].status \notin {"done", "stoped"} }

\* Mutant: the node stays busy.
ClearedNot(n) == [nodes EXCEPT ![n].stoping = FALSE, ![n].exec = "none"]

Cleared(n) == [nodes EXCEPT ![n].busy = FALSE, ![n].stoping = FALSE, ![n].exec = "none"]

\* finishModuleExecutionOnNode, which may complete the process,
\* clearNodeState and checkProcessQueue.  No handler runs while the script
\* does, and none on the answer to a stop.
FinishModule(n, name) ==
    LET X == EndedOn(n, name)
        fires == { o \in X : script.edp /\ ~nodes[n].stoping /\ script.onFinish[o] # {} }
        handled == IF Over THEN fires ELSE {}
        begun == UNION { script.onFinish[o] : o \in handled }
        done == [o \in Object |-> IF o \in X THEN [object[o] EXCEPT !.status = "done"]
                                             ELSE object[o]]
        next == Waiting(done, begun)
    IN  /\ CheckProcessQueue(next, Cleared(n), ~Completed(next))
        /\ ran' = ran \ begun
        /\ refused' = refused \union (fires \ handled)
        /\ UNCHANGED lost

\* endModuleSuccess_slot.  Of a process that is gone nothing is done.
EndModuleSuccess(n) ==
    /\ Hears(n, {"ok"})
    /\ IF ~alive \/ nodes[n].stoping \/ Head(toServer[n]).name # nodes[n].exec
       THEN Dropped
       ELSE FinishModule(n, Head(toServer[n]).name)

\* endModuleFailed_slot and the like: clearJobOnNode and moduleMaxTimeReached
\* are empty, the object stays started.
EndModuleFailed(n) ==
    /\ Hears(n, {"bad"})
    /\ IF ~alive \/ nodes[n].stoping \/ Head(toServer[n]).name # nodes[n].exec
       THEN Dropped
       ELSE /\ CheckProcessQueue(object, Cleared(n), TRUE)
            /\ lost' = lost \union EndedOn(n, nodes[n].exec)
            /\ UNCHANGED <<ran, refused>>

\* stopModuleSuccess_slot
StopModuleSuccess(n) ==
    /\ Hears(n, {"stopped"})
    /\ IF alive THEN FinishModule(n, Head(toServer[n]).name)
       ELSE /\ CheckProcessQueue(object, Cleared(n), FALSE)
            /\ UNCHANGED historyVars

\* nodeConnected_slot
NodeConnected(n) ==
    /\ ~fault /\ nodes[n].state = "none"
    /\ CheckProcessQueue(object, [nodes EXCEPT ![n].state = "up"], alive)
    /\ UNCHANGED <<script, pc, modules, posted, toNode, toServer, historyVars>>

\* nodeDisconnected_slot: clearJobOnNode is empty, and no checkProcessQueue.
NodeDisconnected(n) ==
    /\ "break" \in Troubles
    /\ ~fault /\ nodes[n].state = "up"
    /\ nodes' = [nodes EXCEPT ![n] = NewNode("gone")]
    /\ running' = [running EXCEPT ![n] = {}]
    /\ toNode' = [toNode EXCEPT ![n] = <<>>]
    /\ toServer' = [toServer EXCEPT ![n] = <<>>]
    /\ lost' = lost \union { o \in With("started") : object[o].node = n }
    /\ UNCHANGED <<script, pc, posted, processVars, allFree, fault, ran, refused>>

\* stopProcess: the destructor frees no node, and takes the engine away from
\* a script that still runs.
StopProcess ==
    /\ "kill" \in Troubles
    /\ alive /\ ~fault
    /\ IF Over
       THEN CheckProcessQueue(object, nodes, FALSE)
       ELSE /\ alive' = FALSE
            /\ fault' = TRUE
            /\ UNCHANGED <<object, nodes, allFree, running>>
    /\ UNCHANGED <<script, pc, modules, posted, toNode, toServer, historyVars>>

---------------------------------------------------------------------------
(* The nodes.                                                              *)

Reports(n, kind, name) ==
    toServer' = [toServer EXCEPT ![n] = Append(@, [kind |-> kind, name |-> name])]

\* A program on n ends: status 1, or 0 or 2 of message 123.
ProgramEnds(n, o, kind) ==
    /\ o \in running[n]
    /\ kind = "ok" \/ "fail" \in Troubles
    /\ running' = [running EXCEPT ![n] = @ \ {o}]
    /\ Reports(n, kind, NameOf[o])
    /\ ran' = IF kind = "ok" THEN ran \union {o} ELSE ran
    /\ UNCHANGED <<script, pc, posted, processVars, serverVars, toNode, lost, refused>>

\* receivedRequestOnStopModule
StopProgram(n) ==
    /\ toNode[n] # <<>>
    /\ toNode' = [toNode EXCEPT ![n] = Tail(@)]
    /\ running' = [running EXCEPT ![n] = { o \in @ : NameOf[o] # Head(toNode[n]) }]
    /\ Reports(n, "stopped", Head(toNode[n]))
    /\ UNCHANGED <<script, pc, posted, processVars, serverVars, historyVars>>

---------------------------------------------------------------------------

ScriptThread ==
    \/ \E o \in Object : New(o) \/ Start(o) \/ StartElement(o)
                           \/ WaitForFinished(o) \/ Stop(o)
    \/ Return

MainThread ==
    \/ NewModulesAvailable
    \/ StopModuleOnNode
    \/ \E n \in Node : EndModuleSuccess(n) \/ EndModuleFailed(n) \/ StopModuleSuccess(n)

NodeStep(n) ==
    \/ \E o \in Object, kind \in {"ok", "bad"} : ProgramEnds(n, o, kind)
    \/ StopProgram(n)

ScriptNext ==
    \/ ScriptThread
    \/ MainThread
    \/ StopProcess
    \/ \E n \in Node : NodeStep(n) \/ NodeConnected(n) \/ NodeDisconnected(n)

ScriptSpec == ScriptInit /\ [][ScriptNext]_vars

\* The two threads and the nodes keep running, programs end, and every node
\* of the cluster connects.
FairScriptSpec ==
    /\ ScriptSpec
    /\ WF_vars(ScriptThread)
    /\ WF_vars(MainThread)
    /\ \A n \in Node : WF_vars(NodeStep(n)) /\ WF_vars(NodeConnected(n))

---------------------------------------------------------------------------
(* Properties.                                                             *)

ModuleName == { NameOf[o] : o \in Object }

ObjectState == [status : Status, node : Node \union {NoNode}]

NodeState == [state : {"none", "up", "gone"}, busy : BOOLEAN, stoping : BOOLEAN,
              exec : {"none"} \union ModuleName]

Signal == [id : {"new"}] \union [id : {"stop"}, node : Node, name : ModuleName]

Report == [kind : {"ok", "bad", "stopped"}, name : ModuleName]

ScriptTypeOK ==
    /\ script \in Scripts
    /\ pc \in 1..(Len(script.commands) + 2)
    /\ object \in [Object -> ObjectState]
    /\ modules \in Seq(Object)
    /\ alive \in BOOLEAN /\ allFree \in BOOLEAN /\ fault \in BOOLEAN
    /\ nodes \in [Node -> NodeState]
    /\ running \in [Node -> SUBSET Object]
    /\ posted \in Seq(Signal)
    /\ toNode \in [Node -> Seq(ModuleName)]
    /\ toServer \in [Node -> Seq(Report)]

\* "Sometimes there are dead situations when all events that can initialize
\* new checkProcessQueue loop already took place" (newModulesAvailable_slot):
\* a module a script has started is not left waiting beside a node that could
\* run it unless something is under way that will run the loop.  Said of runs
\* in which no node was lost: that leaves all_nodes_free as it was.
NoDeadSituation ==
    alive /\ ~fault /\ (\A n \in Node : nodes[n].state # "gone") =>
        \A o \in With("wait"), n \in Node :
            IsFree(nodes, n) /\ NameOf[o] \in Offers[n] =>
                \/ posted # <<>>
                \/ \E i \in Node : running[i] # {} \/ toNode[i] # <<>> \/ toServer[i] # <<>>

\* What a node was asked, runs or has answered ends what it is busy with.
Awaited(nd, run, out, back) ==
    \/ \E i \in DOMAIN back : back[i].kind = "stopped"
    \/ nd.stoping /\ out # <<>>
    \/ /\ ~nd.stoping
       /\ \/ \E o \in run : NameOf[o] = nd.exec
          \/ \E i \in DOMAIN back : back[i].name = nd.exec

NodeAwaited(n) == nodes[n].busy => Awaited(nodes[n], running[n], toNode[n], toServer[n])

BusyAwaited == alive => \A n \in Node : NodeAwaited(n)

\* Only a connected node is busy, and only a busy one is being stopped; a
\* started object has a node.
NodesKept ==
    /\ \A n \in Node : /\ nodes[n].busy => nodes[n].state = "up"
                       /\ nodes[n].stoping => nodes[n].busy
    /\ \A o \in Object : object[o].status = "started" => object[o].node \in Node

\* A command, or in the end a handler, has started an object that waits.
WaitsStarted ==
    \A o \in Object : object[o].status = "wait" =>
        Over \/ \E i \in DOMAIN script.commands : i < pc /\ script.commands[i].obj = o

\* all_nodes_free is up to date, and the loop will run for a module that waits
\* beside a free node: on a signal, if no node is busy, or on a report.
LoopComes ==
    ~fault /\ (\A n \in Node : nodes[n].state # "gone") =>
        /\ allFree = AllFree(nodes)
        /\ alive => \A o \in With("wait"), n \in Node :
              IsFree(nodes, n) /\ NameOf[o] \in Offers[n] =>
                  \/ \E i \in DOMAIN posted : posted[i].id = "new"
                  \/ ~AllFree(nodes)

\* NoDeadSituation, inductive together with ScriptTypeOK.
QueueInv == BusyAwaited /\ NodesKept /\ WaitsStarted /\ LoopComes

\* The script has a command that stops modules of this name.
Stopped(name) ==
    \E i \in DOMAIN script.commands : /\ script.commands[i].op = "stop"
                                     /\ NameOf[script.commands[i].obj] = name

\* A module marked as done, which its script no longer waits for, has run to
\* its end since its last start, or was stopped; a report names a module and a
\* node, not an object (finishModuleExecutionOnNode).  Said of runs in which
\* nothing failed.
DoneRan ==
    lost = {} => \A o \in Object : object[o].status = "done" => o \in ran \/ Stopped(NameOf[o])

\* No other object has the name of o.
Sole(o) == \A p \in Object : NameOf[p] = NameOf[o] => p = o

Starts(command, o) == command.op \in {"start", "startElement"} /\ command.obj = o

\* A script that DoneRan can be said of: stop is used only if it names every
\* module that shares its name; a module whose name it does not stop is started
\* again only by its own name and after a wait for it; and what a handler
\* starts nothing else does.
Orderly ==
    /\ \/ \A name \in ModuleName : ~Stopped(name)
       \/ \A o \in Object : Sole(o) \/ Stopped(NameOf[o])
    /\ \A o \in Object, i, j \in DOMAIN script.commands :
          /\ ~Stopped(NameOf[o]) /\ i < j
          /\ Starts(script.commands[i], o) /\ Starts(script.commands[j], o)
          => /\ Sole(o)
             /\ \E k \in DOMAIN script.commands :
                   /\ k < j /\ script.commands[k] = [op |-> "wait", obj |-> o]
                   /\ \A l \in DOMAIN script.commands :
                         k < l /\ l < j => ~Starts(script.commands[l], o)
    /\ \A o \in Object : \A p \in script.onFinish[o] :
          /\ \A j \in DOMAIN script.commands : ~Starts(script.commands[j], p)
          /\ \A q \in Object : p \in script.onFinish[q] => q = o

\* Of objects obj: one has a node once it was given to one, as a member of the
\* vector, and only commands stop modules.
ObjectsGiven(obj) ==
    \A o \in Object : /\ obj[o].status = "new" => obj[o].node = NoNode
                      /\ obj[o].node # NoNode => o \in ToSet(modules)
                      /\ obj[o].status \in {"stopping", "stoped"} => Stopped(NameOf[o])

\* Only commands start modules, and handlers when the script is over and the
\* module they belong to is done.
ObjectsStarted(obj) ==
    \A o \in Object :
        /\ obj[o].status # "new" =>
              Over \/ \E i \in DOMAIN script.commands : i < pc /\ Starts(script.commands[i], o)
        /\ \A p \in script.onFinish[o] :
              obj[p].status # "new" => Over /\ obj[o].status = "done"

\* A module that was waited for and not started again is done.
ObjectsAwaited(obj) ==
    \A o \in Object, k \in DOMAIN script.commands :
        /\ k < pc /\ script.commands[k] = [op |-> "wait", obj |-> o]
        /\ \A l \in DOMAIN script.commands : k < l /\ l < pc => ~Starts(script.commands[l], o)
        => obj[o].status = "done"

ObjectsKept(obj) == ObjectsGiven(obj) /\ ObjectsStarted(obj) /\ ObjectsAwaited(obj)

\* Only names that the script stops are on their way as stops or answers.
StopsNamed ==
    /\ \A i \in DOMAIN posted : posted[i].id = "stop" => Stopped(posted[i].name)
    /\ \A n \in Node : /\ \A i \in DOMAIN toNode[n] : Stopped(toNode[n][i])
                       /\ \A i \in DOMAIN toServer[n] :
                             toServer[n][i].kind = "stopped" => Stopped(toServer[n][i].name)

\* What a report of module name from n can end.
Unended(obj, n, name) ==
    { o \in Object : /\ obj[o].node = n
                     /\ NameOf[o] = name
                     /\ obj[o].status \notin {"done", "stoped"} }

\* A program on n is of the only object that its report will end, and no report
\* of its name is among those of n.
ProgramOwned(obj, back, n, o) ==
    /\ obj[o].status = "started" /\ Unended(obj, n, NameOf[o]) = {o}
    /\ \A i \in DOMAIN back : back[i].name # NameOf[o]

\* Report i of n is the only one of its name, and of a program that ended if it
\* says so.
ReportOwned(obj, back, finished, n, i) ==
    /\ \E o \in Object : /\ obj[o].status = "started"
                         /\ Unended(obj, n, back[i].name) = {o}
                         /\ back[i].kind = "ok" => o \in finished
    /\ \A j \in DOMAIN back : back[j].name = back[i].name => j = i

\* A node works for the object it was given, if others have its name.
SharedHeld(obj, nds) ==
    \A o \in Object :
        ~Sole(o) /\ ~Stopped(NameOf[o]) /\ obj[o].status # "done" /\ obj[o].node # NoNode =>
            /\ obj[o].status = "started"
            /\ nds[obj[o].node].busy /\ nds[obj[o].node].exec = NameOf[o]

Owned(obj, nds, run, back, finished) ==
    /\ \A n \in Node : /\ \A o \in run[n] :
                             Stopped(NameOf[o]) \/ ProgramOwned(obj, back[n], n, o)
                       /\ \A i \in DOMAIN back[n] :
                             \/ Stopped(back[n][i].name)
                             \/ ReportOwned(obj, back[n], finished, n, i)
    /\ SharedHeld(obj, nds)

\* DoneRan, inductive for orderly scripts together with ScriptTypeOK.
DoneInv ==
    /\ ObjectsKept(object) /\ StopsNamed
    /\ alive /\ lost = {} => Owned(object, nodes, running, toServer, ran)
    /\ DoneRan

\* The onFinish handlers of a script in EDP mode are run: "ASSERT processing
\* event while interpretator running" (evaluateScript).
EventsHandled == refused = {}

\* A script comes to its end, unless one of its modules failed, a node was
\* lost or the user stopped the process: start, the queue, the report and the
\* wait fit together, although only some starts run the queue's loop.
ScriptEnds ==
    <>(Over \/ lost # {} \/ ~alive \/ \E n \in Node : nodes[n].state = "gone")
=============================================================================
