------------------------------- MODULE Discomp -------------------------------
(***************************************************************************)
(* The whole system: the server (DiscompServer) and the clients            *)
(* (DiscompClient) over their connections (DiscompNet), what every process *)
(* step may do, and the properties the composition should have.            *)
(***************************************************************************)
EXTENDS DiscompServer, DiscompClient, FiniteSets

vars == <<serverVars, clientVars, netVars>>

Init == ServerInit /\ ClientInit /\ NetInit

---------------------------------------------------------------------------
(* Steps of the server's main thread.                                      *)

Handler(n) ==
    \/ IgnoreWhileStopping(n)
    \/ ReceiveAuthorizationRequest(n)
    \/ ReceiveModulesListRequest(n)
    \/ CheckPrepareForStartModule(n)
    \/ CheckInputParametersSending(n)
    \/ CheckModuleStarting(n)
    \/ ModuleExecutionEnded(n)
    \/ CheckModuleStoping(n)
    \/ NodeDisconnected(n)
    \/ LateEvent(n)

Queue == GiveJob \/ EndScan

User ==
    \/ \E s \in Scheme : StartProcess(s)
    \/ \E p \in Pid : StopProcess(p)
    \/ \E n \in Conn : DisconnectNode(n)
    \/ ClearFailedModulesForNodes

ServerStep ==
    /\ \/ \E n \in Conn : Handler(n)
       \/ Queue
       \/ User
       \/ \E n \in Conn : ReapNode(n)
    /\ UNCHANGED clientVars

(* Steps of the clients.                                                   *)

Request(c) ==
    \/ CheckAuthorization(c)
    \/ PrepareForStartModule(c)
    \/ ReceivedInputParameters(c)
    \/ ReceivedRequestOnStopModule(c)
    \/ ConnectionClosed(c)

Program(c) == \E m \in Module : ModuleFinished(c, m)

ProgramFails(c) ==
    \E m \in Module : ModuleCrashed(c, m) \/ ProcessExecutionTimeout(c, m)

Transfer(c) == OutputParametersSent(c) \/ ArchiveSent(c)

ClientStep(c) ==
    /\ \/ Request(c)
       \/ Program(c)
       \/ ProgramFails(c)
       \/ Transfer(c)
       \/ OutputParameterSendFailed(c)
    /\ UNCHANGED serverVars

(* Steps of a server socket and a client together.                         *)

Connect(c, n) == IncomingConnection(n) /\ Connected(c, n)

InputTransfer(c) ==
    \E n \in Conn : /\ n = Connection(c)
                    /\ link[n] = "open"
                    /\ InputParametersSent(n)
                    /\ ReceivedFiles(c, nodes[n].sending)

InputTransferFails(c) ==
    \E n \in Conn : /\ n = Connection(c)
                    /\ link[n] = "open"
                    /\ InputParameterSendFailed(n)
                    /\ RefusedFile(c)

Break(n) ==
    /\ "break" \in May
    /\ Lose(n)
    /\ UNCHANGED <<serverVars, clientVars>>

Next ==
    \/ ServerStep
    \/ \E c \in Client : ClientStep(c)
    \/ \E c \in Client : InputTransfer(c) \/ InputTransferFails(c)
    \/ \E c \in Client, n \in Conn : Connect(c, n)
    \/ \E n \in Conn : Break(n)

Spec == Init /\ [][Next]_vars

(* The event loops of server and clients keep running, sockets keep moving *)
(* bytes and started programs end; nothing makes users act or links break. *)
Fairness ==
    /\ WF_vars(Queue /\ UNCHANGED clientVars)
    /\ \A n \in Conn : WF_vars(Handler(n) /\ UNCHANGED clientVars)
    /\ \A c \in Client : /\ WF_vars(Request(c) /\ UNCHANGED serverVars)
                         /\ WF_vars(Program(c) /\ UNCHANGED serverVars)
                         /\ WF_vars(Transfer(c) /\ UNCHANGED serverVars)
                         /\ WF_vars(InputTransfer(c))
                         /\ WF_vars(\E n \in Conn : Connect(c, n))

FairSpec == Spec /\ Fairness

---------------------------------------------------------------------------
(* Types.                                                                  *)

Name == Module \union {NoModule}

JobTag == (Pid \X Nat \X (Nat \X Nat)) \union {NoJob}

MessagesWith(ids) == [id : ids, name : Name, status : 0..2, job : JobTag]

Message == MessagesWith({100, 120, 121, 122, 123, 124}) \union
           [id : {110}, mods : SUBSET Module] \union [id : {0}]

ClientState == [conn : 0..MaxConn,
                exec : Name,
                job : [Module -> JobTag],
                run : [Module -> JobTag],
                temp : SUBSET Name,
                into : Name,
                ready : SUBSET Module,
                files : BOOLEAN,
                msg : MessagesWith({122, 123}) \union {NoMsg},
                stuck : {"no", "alone", "both"}]

ServerTypeOK ==
    /\ nodes \in [Conn -> Node]
    /\ conns \in 0..MaxConn
    /\ started \in 0..MaxStarts
    /\ DOMAIN procs \subseteq 1..started
    /\ \A p \in DOMAIN procs : IsProcess(procs[p])
    /\ scan \in [on : BOOLEAN, at : Nat \X Nat, again : BOOLEAN, free : 0..MaxConn]
    /\ fault \in {"none", "use_after_free", "null_deref"}
    /\ link \in [Conn -> {"none", "open", "closed"}]

WireTypeOK ==
    /\ toNode \in [Conn -> Seq(Message)]
    /\ toServer \in [Conn -> Seq(Message)]
    /\ client \in [Client -> ClientState]

\* Every variable but the history is typed.  In particular each process has
\* exactly the slots of its current stage.
TypeOK == ServerTypeOK /\ WireTypeOK

---------------------------------------------------------------------------
(* Safety.  After undefined behaviour nothing is promised.                 *)

\* The slots <<p, x>> of live processes with a given status.
SlotsWith(st) ==
    UNION { { <<p, x>> : x \in { y \in DOMAIN procs[p].slots :
                                   procs[p].slots[y].status = st } } :
              p \in DOMAIN procs }

SlotOf(j) == procs[j[1]].slots[j[2]]

NodeOf(j) == nodes[SlotOf(j).node]

JobName(j) == SlotName(procs[j[1]], j[2])

\* A started module is on a connected node that works for its process, runs
\* that module and is not being stopped, whatever answers, failures,
\* disconnections and stops came in between.
JobHasNode ==
    fault = "none" =>
        \A j \in SlotsWith("started") :
            /\ SlotOf(j).node \in Conn
            /\ NodeOf(j).state = "up" /\ NodeOf(j).busy /\ ~NodeOf(j).stoping
            /\ NodeOf(j).pid = j[1]
            /\ NodeOf(j).exec = JobName(j)

\* A node runs one module at a time.
OneJobPerNode ==
    fault = "none" =>
        \A i, j \in SlotsWith("started") :
            SlotOf(i).node = SlotOf(j).node => i = j

\* Requests 124 and their answers on connection n.
StopsInFlight(n) ==
    Cardinality({ i \in DOMAIN toNode[n] : toNode[n][i].id = 124 }) +
    Cardinality({ i \in DOMAIN toServer[n] : toServer[n][i].id = 124 })

\* The handler that is running frees node n when its loop ends.
Freeing(n) == scan.on /\ scan.again /\ scan.free = n

\* A node that waits for a module to stop waits for exactly one answer, and
\* no answer comes to a node that does not wait.
StopAnswered ==
    fault = "none" =>
        \A n \in Conn : Up(n) /\ link[n] = "open" /\ ~Freeing(n) =>
            StopsInFlight(n) = IF nodes[n].stoping THEN 1 ELSE 0

\* A busy node is never forgotten: it runs a started module, or is being
\* stopped, or the running handler is about to free it.
BusyNodeHasJob ==
    fault = "none" =>
        \A n \in Conn : Up(n) /\ nodes[n].busy =>
            \/ nodes[n].stoping
            \/ Freeing(n)
            \/ \E j \in SlotsWith("started") : SlotOf(j).node = n

\* A module that is being stopped has a node that will answer.
StoppingHasNode ==
    fault = "none" =>
        \A j \in SlotsWith("stopping") : NodeOf(j).state = "up" /\ NodeOf(j).stoping

\* A module marked done on a node's report has run to its end somewhere.
DoneJobsRan == fault = "none" => credited \subseteq ran

\* A client runs one program at a time: a node gets its next job only after
\* the previous program ended or was killed.
OneProgramPerClient ==
    \A c \in Client, m1, m2 \in Module :
        Running(c, m1) /\ Running(c, m2) => m1 = m2

\* The slot of job j is started on node n.
StartedOnNode(j, n) ==
    /\ Live(j[1]) /\ procs[j[1]].stage = j[2]
    /\ j[3] \in StartedOn(procs[j[1]], n)

\* No client computes for nothing: a program that runs belongs to a slot of
\* the process's current stage that is started on this very node, unless the
\* node is being stopped or has just connected again.
ProgramIsWanted ==
    fault = "none" =>
        \A c \in Client, m \in Module :
            LET n == Connection(c)
            IN  Online(c) /\ Running(c, m) /\ Up(n) /\ nodes[n].mods # {} =>
                    nodes[n].stoping \/ StartedOnNode(client[c].run[m], n)

\* When the server waits for events, no stage is finished without the next
\* one being entered, and no free node is left that could run a waiting
\* module whose inputs are defined.
WorkConserving ==
    Idle => \A n \in FreeNodes, p \in DOMAIN procs :
                /\ ~StageDone(procs[p])
                /\ \A x \in Offered(procs[p], Able(nodes[n])) :
                      SlotName(procs[p], x) \in Unfed

\* No handler reaches freed memory or a NULL node.
NoUndefinedBehaviour == fault = "none"

---------------------------------------------------------------------------
(* Liveness, under FairSpec.                                               *)

\* The stage of pr is not done, no slot of it is started and no connected node
\* is able to run the waiting ones: their modules failed on every node, or are
\* installed on none.
Starved(pr) ==
    /\ ~StageDone(pr)
    /\ \A x \in DOMAIN pr.slots :
          \/ pr.slots[x].status \in Ended
          \/ /\ pr.slots[x].status = "wait"
             /\ \A n \in Conn : Up(n) => SlotName(pr, x) \notin Able(nodes[n])

\* A started process is completed or stopped, unless its modules failed on
\* every node.
ProcessEnds == \A p \in Pid : <>[](Live(p) => Starved(procs[p]))

\* A node that is being stopped becomes free, or leaves.
StopEnds ==
    \A n \in Conn : nodes[n].stoping ~> ~nodes[n].stoping \/ nodes[n].state = "null"
=============================================================================
