---------------------------- MODULE DiscompServer ----------------------------
(***************************************************************************)
(* The scheduling core of the server program: classes DiscompServer and    *)
(* DiscompNode (src/server/server.cpp, node.cpp) with the live processes   *)
(* of DiscompProcess.  All their slots run in the server's main thread, so *)
(* each handler is one action, except that the loop of checkProcessQueue,  *)
(* which every handler ends with, is cut into one action per (process,     *)
(* node) pair; no other handler runs until it ends.                        *)
(***************************************************************************)
EXTENDS DiscompProcess, DiscompNet

CONSTANTS ServerModules,  \* modules whose specification the server can load
          Unfed,          \* modules with an input no parameter of the plan defines
          MaxStarts       \* bound: processes started in one life of the server

ASSUME ServerAssumption ==
    /\ ServerModules \subseteq Module
    /\ Unfed \subseteq HasInputs
    /\ MaxStarts \in Nat

Pid == 1..MaxStarts

NoPid == 0              \* process_id = -1

VARIABLES nodes,        \* the vector nodes; "null" is a cleared pointer
          conns,        \* nodes.size()
          procs,        \* the vector processes: live pids to processes
          started,      \* process_counter
          scan,         \* the loop of checkProcessQueue
          fault,        \* undefined behaviour reached, or "none"
          credited      \* jobs marked done on a report of success (history)

serverVars == <<nodes, conns, procs, started, scan, fault, credited>>

Node == [state : {"none", "up", "null"},
         busy : BOOLEAN,              \* busy
         stoping : BOOLEAN,           \* stoping_module_execution
         pid : {NoPid} \union Pid,    \* process_id
         exec : Module \union {NoModule},  \* current_module_exec
         mods : SUBSET Module,        \* modules
         failed : SUBSET Module,      \* those with is_failed_module
         lost : SUBSET Module,        \* those whose input path ends in -1
         sending : Module \union {NoModule}] \* whose input files are in files_for_send

\* The constructor of DiscompNode.
NewNode(state) ==
    [state |-> state, busy |-> FALSE, stoping |-> FALSE, pid |-> NoPid,
     exec |-> NoModule, mods |-> {}, failed |-> {}, lost |-> {},
     sending |-> NoModule]

\* Mutant: the node stays busy.
ClearedButBusy(nd) ==
    [nd EXCEPT !.stoping = FALSE, !.pid = NoPid, !.exec = NoModule,
               !.sending = NoModule]

\* Mutant: the node goes on waiting for its module to stop.
ClearedButStoping(nd) ==
    [nd EXCEPT !.busy = FALSE, !.pid = NoPid, !.exec = NoModule,
               !.sending = NoModule]

\* clearNodeState
Cleared(nd) ==
    [nd EXCEPT !.busy = FALSE, !.stoping = FALSE, !.pid = NoPid,
               !.exec = NoModule, !.sending = NoModule]

\* addFailedModule: only a module of the node's list can be marked.
Failed(nd, m) == [nd EXCEPT !.failed = @ \union ({m} \intersect nd.mods)]

\* The node's list is made anew of the modules the server can load.
Listed(nd, mods) ==
    [nd EXCEPT !.mods = mods \intersect ServerModules, !.failed = {}, !.lost = {}]

\* clearFailedModules
Forgiven(nd) == [nd EXCEPT !.failed = {}]

Able(nd) == nd.mods \ nd.failed

Up(n) == nodes[n].state = "up"

Live(p) == p \in DOMAIN procs

\* delete processes[process_num]; processes.remove(process_num)
Without(p) == [q \in DOMAIN procs \ {p} |-> procs[q]]

Halted(f) == fault' = f

\* quit() and nodes[node_id] = NULL; the object itself is deleted later.
Gone(nd) == [NewNode("null") EXCEPT !.stoping = nd.stoping]

ServerInit ==
    /\ nodes = [n \in Conn |-> NewNode("none")]
    /\ conns = 0
    /\ procs = [p \in {} |-> {}]
    /\ started = 0
    /\ scan = [on |-> FALSE, at |-> <<0, 0>>, again |-> FALSE, free |-> 0]
    /\ fault = "none"
    /\ credited = {}

\* The main thread takes its next event.
Idle == ~scan.on /\ fault = "none"

---------------------------------------------------------------------------
(* checkProcessQueue.  The outer loop runs over the processes in the order *)
(* they were started, the inner one over the nodes.  When a process        *)
(* completes inside a handler, processFinished_slot runs the loop before   *)
(* the handler frees its node (scan.free) and runs the loop again.         *)

Scan(again, free) ==
    scan' = [on |-> TRUE, at |-> <<0, 0>>, again |-> again, free |-> free]

\* Mutant: the queue is not checked.
RescanForgotten == UNCHANGED scan

Rescan == Scan(FALSE, 0)

Later(a, b) == a[1] < b[1] \/ (a[1] = b[1] /\ a[2] < b[2])

FreeNodes == { n \in Conn : Up(n) /\ ~nodes[n].busy }

Offers == { o \in (DOMAIN procs) \X FreeNodes : Later(scan.at, o) }

Job(p, pr, x) == <<p, pr.stage, x>>

\* Mutant: the node is not marked busy.
AssignedButFree(nd, p, pr, x) ==
    [nd EXCEPT !.pid = p, !.exec = SlotName(pr, x)]

\* prepareModule: the slot's module is prepared on the node.
Assigned(nd, p, pr, x) ==
    LET m == SlotName(pr, x)
    IN  [nd EXCEPT !.busy = TRUE, !.pid = p, !.exec = m,
                   !.lost = IF LostElement(pr, x) THEN @ \union {m} ELSE @ \ {m}]

\* giveJobToNode gives up at the first slot if an input is not defined.
NothingFor(pr, n) ==
    \A x \in Offered(pr, Able(nodes[n])) :
        IsFirst(x, Offered(pr, Able(nodes[n]))) => SlotName(pr, x) \in Unfed

\* giveJobToNode, called with a free node, and the assignment of its job.
\* Completing the process here deletes it under the running method.
GiveJob ==
    /\ scan.on /\ fault = "none"
    /\ \E o \in Offers :
          LET p == o[1]
              n == o[2]
              pr == Settle(procs[p])
          IN  /\ \A q \in Offers \ {o} : Later(o, q)
              /\ \/ /\ Completes(procs[p])
                    /\ Halted("use_after_free")
                    /\ procs' = Without(p)
                    /\ UNCHANGED <<nodes, scan, toNode>>
                 \/ /\ ~Completes(procs[p]) /\ NothingFor(pr, n)
                    /\ scan' = [scan EXCEPT !.at = o]
                    /\ procs' = [procs EXCEPT ![p] = pr]
                    /\ UNCHANGED <<nodes, fault, toNode>>
                 \/ /\ ~Completes(procs[p])
                    /\ scan' = [scan EXCEPT !.at = o]
                    /\ \E x \in Offered(pr, Able(nodes[n])) :
                          /\ IsFirst(x, Offered(pr, Able(nodes[n])))
                          /\ SlotName(pr, x) \notin Unfed
                          /\ procs' = [procs EXCEPT ![p] = StartSlot(pr, x, n)]
                          /\ nodes' = [nodes EXCEPT ![n] = Assigned(@, p, pr, x)]
                          /\ ToNode(n, Msg(120, SlotName(pr, x), 1, Job(p, pr, x)))
                    /\ UNCHANGED fault
    /\ UNCHANGED <<conns, started, credited, link, toServer>>

\* The end of the loop, and of the handler it was nested in.
EndScan ==
    /\ scan.on /\ fault = "none"
    /\ Offers = {}
    /\ IF scan.again
       THEN /\ nodes' = [n \in Conn |-> IF n = scan.free THEN Cleared(nodes[n])
                                                        ELSE nodes[n]]
            /\ Rescan
       ELSE /\ scan' = [on |-> FALSE, at |-> <<0, 0>>, again |-> FALSE, free |-> 0]
            /\ UNCHANGED nodes
    /\ UNCHANGED <<conns, procs, started, fault, credited, netVars>>

---------------------------------------------------------------------------
(* Stop requests.  stopModuleOnNode_slot serves the plugin's stop calls,   *)
(* processFreeNode_slot the destructor and gotoStage.  Both mark the node  *)
(* as stopping and send request 124.                                       *)

\* One order for each slot: its node, its module and the slot itself.
Orders(pr, X) == { <<pr.slots[x].node, SlotName(pr, x), x>> : x \in X }

\* Mutant: a module that is being stopped already is stopped again.
StopOrdersTwice(pr, X) ==
    { o \in Orders(pr, { x \in X : pr.slots[x].status \in {"started", "stopping"} }) :
        Up(o[1]) /\ Live(nodes[o[1]].pid) }

\* stopModuleOnNode_slot looks the process of the node up.
StopOrders(pr, X) ==
    { o \in Orders(pr, X \intersect Started(pr)) :
        Up(o[1]) /\ Live(nodes[o[1]].pid) }

\* Mutant: the nodes of the running modules are not freed.
FreeOrdersForgotten(pr) == {}

\* processFreeNode_slot asks the node whether it is busy.
FreeOrders(pr) ==
    { o \in Orders(pr, Started(pr)) : Up(o[1]) /\ nodes[o[1]].busy }

Ordered(n, orders) == \E o \in orders : o[1] = n

\* The requests of all orders to node n.
StopRequests(orders, n) ==
    LET due == { o \in orders : o[1] = n }
        slots == InSlotOrder({ o[3] : o \in due })
    IN  [i \in DOMAIN slots |->
            Msg(124, (CHOOSE o \in due : o[3] = slots[i])[2], 1, NoJob)]

\* stopModule for every order
Stopping(chan, orders) ==
    [n \in Conn |->
        IF Ordered(n, orders) /\ link[n] = "open" THEN chan[n] \o StopRequests(orders, n)
                                                 ELSE chan[n]]

\* Mutant: the node is not marked as stopping its module.
MarkStopingForgotten(nd, orders, n) == nd

MarkStoping(nd, orders, n) ==
    IF Ordered(n, orders) THEN [nd EXCEPT !.stoping = TRUE] ELSE nd

---------------------------------------------------------------------------
(* Events of a process.                                                    *)

\* clearNodeState of the node a handler frees, unless the process completed
\* before the handler came to it.
Released(nd, completes, freedBefore) ==
    IF completes /\ ~freedBefore THEN nd ELSE Cleared(nd)

\* The jobs a report of success ends; an answer to a stop credits none.
Credits(n, m, st) ==
    IF st = "done" /\ ~nodes[n].stoping
    THEN { Job(nodes[n].pid, procs[nodes[n].pid], x) :
             x \in EndedSlots(procs[nodes[n].pid], n, m) }
    ELSE {}

\* finishModuleExecutionOnNode or moduleMaxTimeReached, with the plugin's
\* handler, then clearNodeState, then checkProcessQueue.  stopModuleFailed_slot
\* clears the node before it ends the job (freedBefore): it is then neither
\* busy nor of a process when the handler's orders come to it.
EndJob(n, m, st, freedBefore) ==
    LET p == nodes[n].pid
        pr == procs[p]
        fires == EndedSlots(pr, n, m) # {}
    IN  \E X \in IF fires THEN PluginStops(pr) ELSE {{}},
           k \in IF fires THEN PluginGotos(pr) ELSE {0} :
        LET ended == FinishJob(pr, n, m, st)
            asked == StopSlots(ended, X)
            next == WentTo(asked, k)
            called == StopOrders(ended, X) \union
                      IF k = 0 THEN {} ELSE FreeOrders(asked)
            orders == { o \in called : freedBefore => o[1] # n }
        IN  /\ nodes' = [i \in Conn |->
                           LET nd == MarkStoping(nodes[i], orders, i)
                           IN  IF i = n THEN Released(nd, Completes(next), freedBefore)
                                        ELSE nd]
            /\ toNode' = Stopping(toNode, orders)
            /\ credited' = credited \union Credits(n, m, st)
            /\ CASE k # 0 /\ Completes(EnterStage(pr.name, k)) ->
                      \* deleted inside the plugin's own call
                      /\ Halted("use_after_free")
                      /\ procs' = Without(p)
                      /\ UNCHANGED scan
                 [] ~(k # 0 /\ Completes(EnterStage(pr.name, k))) /\ Completes(next) ->
                      /\ procs' = Without(p)
                      /\ Scan(TRUE, IF freedBefore THEN 0 ELSE n)
                      /\ UNCHANGED fault
                 [] OTHER ->
                      /\ procs' = [procs EXCEPT ![p] = Settle(next)]
                      /\ Rescan
                      /\ UNCHANGED fault

\* prepareModuleFailed_slot, startModuleFailed_slot and the first branch of
\* endModuleFailed_slot.
GiveUpJob(n, m) ==
    LET p == nodes[n].pid
    IN  /\ procs' = [procs EXCEPT ![p] = ClearJob(@, n)]
        /\ nodes' = [nodes EXCEPT ![n] = Cleared(Failed(@, m))]
        /\ Rescan
        /\ UNCHANGED <<fault, credited, toNode>>

Ignore == UNCHANGED <<nodes, procs, scan, fault, credited, toNode>>

---------------------------------------------------------------------------
(* Messages from a node.                                                   *)

Receives(n, id) ==
    /\ Idle
    /\ Up(n)
    /\ toServer[n] # <<>>
    /\ Head(toServer[n]).id = id
    /\ toServer' = [toServer EXCEPT ![n] = Tail(@)]
    /\ UNCHANGED <<conns, started, link>>

\* While a module is being stopped all but the answer to request 124 is dropped.
IgnoreWhileStopping(n) ==
    /\ nodes[n].stoping
    /\ \E id \in {100, 110, 120, 121, 122, 123} : Receives(n, id)
    /\ Ignore

Hears(n, id) == ~nodes[n].stoping /\ Receives(n, id)

\* incomingConnection
IncomingConnection(n) ==
    /\ Idle
    /\ conns < MaxConn
    /\ n = conns + 1
    /\ conns' = n
    /\ nodes' = [nodes EXCEPT ![n] = NewNode("up")]
    /\ link' = [link EXCEPT ![n] = "open"]
    /\ UNCHANGED <<procs, started, scan, fault, credited, toNode>>

ReceiveAuthorizationRequest(n) ==
    /\ Hears(n, 100)
    /\ ToNode(n, Msg(100, NoModule, 1, NoJob))
    /\ UNCHANGED <<nodes, procs, scan, fault, credited>>

\* receiveModulesListRequest, then nodeConnected_slot
ReceiveModulesListRequest(n) ==
    /\ Hears(n, 110)
    /\ nodes' = [nodes EXCEPT ![n] = Listed(@, Head(toServer[n]).mods)]
    /\ Rescan
    /\ UNCHANGED <<procs, fault, credited, toNode>>

\* allInputParametersSent
SendInputParameters(n) ==
    IF nodes[n].stoping \/ nodes[n].exec = NoModule
    THEN UNCHANGED toNode
    ELSE ToNode(n, Msg(121, nodes[n].exec, 1, NoJob))

CheckPrepareForStartModule(n) ==
    /\ Hears(n, 120)
    /\ LET m == Head(toServer[n]).name
           gone == m \in HasInputs /\ m \in nodes[n].lost
       IN  IF Head(toServer[n]).status # 1 \/ gone
           THEN IF Live(nodes[n].pid) THEN GiveUpJob(n, m) ELSE Ignore
           ELSE /\ nodes' = [nodes EXCEPT ![n].sending =
                                         IF m \in HasInputs THEN m ELSE NoModule]
                /\ IF m \in HasInputs THEN UNCHANGED toNode ELSE SendInputParameters(n)
                /\ UNCHANGED <<procs, scan, fault, credited>>

\* inputParameterSendFileDone_slot for the last file
InputParametersSent(n) ==
    /\ Idle
    /\ Up(n) /\ nodes[n].sending # NoModule
    /\ nodes' = [nodes EXCEPT ![n].sending = NoModule]
    /\ SendInputParameters(n)
    /\ UNCHANGED <<conns, procs, started, scan, fault, credited, link, toServer>>

\* inputParameterSendFileDone_slot for a file the client refused
InputParameterSendFailed(n) ==
    /\ "inputSendFail" \in May
    /\ Idle
    /\ Up(n) /\ nodes[n].sending # NoModule
    /\ IF Live(nodes[n].pid)
       THEN GiveUpJob(n, nodes[n].exec)
       ELSE /\ nodes' = [nodes EXCEPT ![n].sending = NoModule]
            /\ UNCHANGED <<procs, scan, fault, credited, toNode>>
    /\ UNCHANGED <<conns, started, credited, link, toServer>>

\* checkInputParametersSending: the client answers 121 only with an error.
CheckInputParametersSending(n) ==
    /\ Hears(n, 121)
    /\ IF Live(nodes[n].pid) THEN GiveUpJob(n, Head(toServer[n]).name) ELSE Ignore

CheckModuleStarting(n) ==
    /\ Hears(n, 122)
    /\ IF Head(toServer[n]).status # 1 /\ Live(nodes[n].pid)
       THEN GiveUpJob(n, Head(toServer[n]).name)
       ELSE Ignore

\* The branch of endModuleFailed_slot for error 1, an output parameter that
\* is not defined on the server, ends nothing: the node is freed only.
OutputNotDefined(n) ==
    /\ nodes' = [nodes EXCEPT ![n] = Cleared(@)]
    /\ Rescan
    /\ UNCHANGED <<procs, fault, credited, toNode>>

\* moduleExecutionEnded, then endModuleSuccess_slot or endModuleFailed_slot
ModuleExecutionEnded(n) ==
    /\ Hears(n, 123)
    /\ LET m == Head(toServer[n]).name
           status == Head(toServer[n]).status
       IN  IF m # nodes[n].exec \/ ~Live(nodes[n].pid)
           THEN Ignore
           ELSE \/ status = 0 /\ GiveUpJob(n, m)
                \/ status = 1 /\ EndJob(n, m, "done", FALSE)
                \/ /\ status = 1 /\ m \in HasOutputs
                   /\ "outputLost" \in May
                   /\ OutputNotDefined(n)
                \/ status = 2 /\ EndJob(n, m, "stoped", FALSE)

\* checkModuleStoping, then stopModuleSuccess_slot or stopModuleFailed_slot
CheckModuleStoping(n) ==
    /\ Receives(n, 124)
    /\ LET m == Head(toServer[n]).name
           status == Head(toServer[n]).status
       IN  IF Live(nodes[n].pid)
           THEN EndJob(n, m, "done", status # 1)
           ELSE /\ nodes' = [nodes EXCEPT ![n] = Cleared(@)]
                /\ Rescan
                /\ UNCHANGED <<procs, fault, credited, toNode>>

---------------------------------------------------------------------------
(* Nodes that go away.                                                     *)

\* Mutant: the jobs of a node that leaves stay started.
ForgottenNot(n) == procs

Forgotten(n) == [p \in DOMAIN procs |-> ClearJob(procs[p], n)]

\* nodeDisconnected_slot.  No checkProcessQueue follows.
NodeDisconnected(n) ==
    /\ Idle
    /\ Up(n)
    /\ toServer[n] # <<>> /\ Head(toServer[n]).id = 0
    /\ procs' = Forgotten(n)
    /\ nodes' = [nodes EXCEPT ![n] = NewNode("null")]
    /\ toServer' = [toServer EXCEPT ![n] = Tail(@)]
    /\ UNCHANGED <<conns, started, scan, fault, credited, link, toNode>>

\* disconnectNode: the thread of the socket quits; what it had read by then
\* is still queued for the DiscompNode.
DisconnectNode(n) ==
    /\ "rpcDisconnect" \in May
    /\ Idle
    /\ Up(n)
    /\ procs' = Forgotten(n)
    /\ nodes' = [nodes EXCEPT ![n] = Gone(@)]
    /\ \E kept \in Prefixes(toServer[n]) : toServer' = [toServer EXCEPT ![n] = kept]
    /\ link' = [link EXCEPT ![n] = "closed"]
    /\ UNCHANGED <<conns, started, scan, fault, credited, toNode>>

\* An event for a DiscompNode whose pointer is already NULL: the slots that
\* connect and disconnect a node read nodes[node_id] unchecked.
LateEvent(n) ==
    /\ Idle
    /\ nodes[n].state = "null" /\ toServer[n] # <<>>
    /\ toServer' = [toServer EXCEPT ![n] = Tail(@)]
    /\ IF \/ Head(toServer[n]).id = 0
          \/ Head(toServer[n]).id = 110 /\ ~nodes[n].stoping
       THEN Halted("null_deref")
       ELSE UNCHANGED fault
    /\ UNCHANGED <<nodes, conns, procs, started, scan, credited, link, toNode>>

\* deleteLater of the finished thread object
ReapNode(n) ==
    /\ Idle
    /\ nodes[n].state = "null" /\ toServer[n] # <<>>
    /\ toServer' = [toServer EXCEPT ![n] = <<>>]
    /\ UNCHANGED <<serverVars, link, toNode>>

---------------------------------------------------------------------------
(* Requests of the user, served in the main thread (rpc_thread.cpp).       *)

\* startProcess and DiscompProcess::Init.  A plan with nothing to run only
\* uses up a process id.
StartProcess(s) ==
    /\ Idle
    /\ started < MaxStarts
    /\ \A p \in DOMAIN procs : procs[p].name # s
    /\ started' = started + 1
    /\ LET first == EnterStage(s, 1)
       IN  IF Completes(first)
           THEN UNCHANGED <<procs, scan>>
           ELSE /\ procs' = [p \in DOMAIN procs \union {started + 1} |->
                                IF p \in DOMAIN procs THEN procs[p] ELSE Settle(first)]
                /\ Rescan
    /\ UNCHANGED <<nodes, conns, fault, credited, netVars>>

\* stopProcess and the destructor of DiscompProcess
StopProcess(p) ==
    /\ "stopProcess" \in May
    /\ Idle
    /\ Live(p)
    /\ LET orders == FreeOrders(procs[p])
       IN  /\ nodes' = [n \in Conn |-> MarkStoping(nodes[n], orders, n)]
           /\ toNode' = Stopping(toNode, orders)
    /\ procs' = Without(p)
    /\ Rescan
    /\ UNCHANGED <<conns, started, fault, credited, link, toServer>>

\* clearFailedModulesForNodes.  No checkProcessQueue follows.
ClearFailedModulesForNodes ==
    /\ "clearFailed" \in May
    /\ Idle
    /\ IF \E n \in Conn : nodes[n].state = "null"
       THEN /\ Halted("null_deref")
            /\ UNCHANGED nodes
       ELSE /\ \E n \in Conn : nodes[n].failed # {}
            /\ nodes' = [n \in Conn |-> Forgiven(nodes[n])]
            /\ UNCHANGED fault
    /\ UNCHANGED <<conns, procs, started, scan, credited, netVars>>
=============================================================================
