---------------------------- MODULE DiscompProofs ----------------------------
(***************************************************************************)
(* Proofs about Discomp, for every value of the constants.  Type           *)
(* correctness: first the state of the server, then messages and clients.  *)
(* Then that a started module always has a node of its own (JobHasNode and *)
(* OneJobPerNode), by the inductive invariant JobsInv.                     *)
(***************************************************************************)
EXTENDS DiscompInvariant, DiscompProcessProofs

---------------------------------------------------------------------------
(* The operators of DiscompServer lead from nodes to nodes.                *)

\* Every change the handlers make to a node leaves it a node.
LEMMA NodeOpsAreNodes ==
    ASSUME NEW nd \in Node
    PROVE  /\ Cleared(nd) \in Node
           /\ Gone(nd) \in Node
           /\ \A m : Failed(nd, m) \in Node
           /\ \A orders, n : MarkStoping(nd, orders, n) \in Node
           /\ \A c, f : Released(nd, c, f) \in Node
           /\ \A mods : Listed(nd, mods) \in Node
           /\ Forgiven(nd) \in Node
           /\ \A m \in HasInputs \union {NoModule} :
                 [nd EXCEPT !.sending = m] \in Node
  <1> USE ModulesAssumption
  <1>1. Cleared(nd) \in Node
    BY DEF Cleared, Node, NoPid
  <1>2. Gone(nd) \in Node
    BY DEF Gone, NewNode, Node, NoPid
  <1>3. \A m : Failed(nd, m) \in Node
    BY DEF Failed, Node
  <1>4. \A orders, n : MarkStoping(nd, orders, n) \in Node
    BY DEF MarkStoping, Node
  <1>5. \A c, f : Released(nd, c, f) \in Node
    BY <1>1 DEF Released
  <1>6. \A m \in HasInputs \union {NoModule} :
            [nd EXCEPT !.sending = m] \in Node
    BY DEF Node
  <1>7. \A mods : Listed(nd, mods) \in Node
    BY ServerAssumption DEF Listed, Node
  <1>8. Forgiven(nd) \in Node
    BY DEF Forgiven, Node
  <1> QED
    BY <1>1, <1>2, <1>3, <1>4, <1>5, <1>6, <1>7, <1>8

\* A new node is a node in each of its states.
LEMMA NewNodeIsNode ==
    \A st \in {"none", "up", "null"} : NewNode(st) \in Node
  BY DEF NewNode, Node, NoPid

---------------------------------------------------------------------------
(* The steps keep the state of the server typed.                           *)

\* Replacing one process by another one keeps the processes typed.
LEMMA ReplaceProcess ==
    ASSUME ServerTypeOK, NEW p \in DOMAIN procs, NEW pr, IsProcess(pr),
           procs' = [procs EXCEPT ![p] = pr]
    PROVE  /\ DOMAIN procs' = DOMAIN procs
           /\ \A q \in DOMAIN procs' : IsProcess(procs'[q])
  BY DEF ServerTypeOK

\* Removing a process keeps the processes typed.
LEMMA RemoveProcess ==
    ASSUME ServerTypeOK, NEW p, procs' = Without(p)
    PROVE  /\ DOMAIN procs' \subseteq DOMAIN procs
           /\ \A q \in DOMAIN procs' : IsProcess(procs'[q])
  BY DEF ServerTypeOK, Without

\* Starting the loop of checkProcessQueue keeps its state typed.
LEMMA ScanTyped ==
    ASSUME NEW f \in 0..MaxConn, NEW again \in BOOLEAN, Scan(again, f)
    PROVE  scan' \in [on : BOOLEAN, at : Nat \X Nat, again : BOOLEAN,
                      free : 0..MaxConn]
  BY DEF Scan

\* The same for the loop a handler ends with.
LEMMA RescanTyped ==
    ASSUME Rescan
    PROVE  scan' \in [on : BOOLEAN, at : Nat \X Nat, again : BOOLEAN,
                      free : 0..MaxConn]
  BY NetAssumption DEF Rescan, Scan

\* Giving a job back, as every handler of a failure does, keeps the types.
LEMMA GiveUpJobTyped ==
    ASSUME ServerTypeOK, NEW n \in Conn, NEW m, Live(nodes[n].pid), GiveUpJob(n, m),
           UNCHANGED <<conns, started, link>>
    PROVE  ServerTypeOK'
  <1>1. nodes' \in [Conn -> Node]
    BY NodeOpsAreNodes DEF GiveUpJob, ServerTypeOK
  <1>2. /\ DOMAIN procs' = DOMAIN procs
        /\ \A q \in DOMAIN procs' : IsProcess(procs'[q])
    <2>1. IsProcess(ClearJob(procs[nodes[n].pid], n))
      BY SlotOpsAreProcesses, NetAssumption DEF Live, ServerTypeOK, Conn
    <2> QED
      BY <2>1, ReplaceProcess DEF GiveUpJob, Live
  <1>3. scan' \in [on : BOOLEAN, at : Nat \X Nat, again : BOOLEAN,
                   free : 0..MaxConn]
    BY RescanTyped DEF GiveUpJob
  <1> QED
    BY <1>1, <1>2, <1>3 DEF ServerTypeOK, GiveUpJob

\* The orders that reach nodes when a job ended on node n and the handlers
\* stopped the slots X and went to stage k.
EndOrders(ended, X, k, n, fb) ==
    { o \in StopOrders(ended, X) \union
             IF k = 0 THEN {} ELSE FreeOrders(StopSlots(ended, X)) : fb => o[1] # n }

\* Ending a job, with all that the plan's handlers call, keeps the types.
LEMMA EndJobTyped ==
    ASSUME ServerTypeOK, NEW n \in Conn, NEW m, NEW st \in Ended, NEW fb \in BOOLEAN,
           Live(nodes[n].pid), EndJob(n, m, st, fb),
           UNCHANGED <<conns, started, link>>
    PROVE  ServerTypeOK'
  <1> DEFINE p == nodes[n].pid
             pr == procs[p]
             ended == FinishJob(pr, n, m, st)
  <1>1. /\ p \in DOMAIN procs
        /\ IsProcess(pr)
        /\ n \in Nat
    BY NetAssumption DEF Live, ServerTypeOK, Conn
  <1>2. PICK X \in IF EndedSlots(pr, n, m) # {} THEN PluginStops(pr) ELSE {{}},
             k \in IF EndedSlots(pr, n, m) # {} THEN PluginGotos(pr) ELSE {0} :
             LET asked == StopSlots(ended, X)
                 next == WentTo(asked, k)
                 orders == EndOrders(ended, X, k, n, fb)
             IN  /\ nodes' = [i \in Conn |->
                                LET nd == MarkStoping(nodes[i], orders, i)
                                IN  IF i = n THEN Released(nd, Completes(next), fb)
                                             ELSE nd]
                 /\ CASE k # 0 /\ Completes(EnterStage(pr.name, k)) ->
                           /\ Halted("use_after_free")
                           /\ procs' = Without(p)
                           /\ UNCHANGED scan
                      [] ~(k # 0 /\ Completes(EnterStage(pr.name, k))) /\ Completes(next) ->
                           /\ procs' = Without(p)
                           /\ Scan(TRUE, IF fb THEN 0 ELSE n)
                           /\ UNCHANGED fault
                      [] OTHER ->
                           /\ procs' = [procs EXCEPT ![p] = Settle(next)]
                           /\ Rescan
                           /\ UNCHANGED fault
    BY DEF EndJob, EndOrders
  <1> DEFINE asked == StopSlots(ended, X)
             next == WentTo(asked, k)
             orders == EndOrders(ended, X, k, n, fb)
  <1>3. X \subseteq DOMAIN pr.slots
    BY <1>2, PluginStopsSlots
  <1>4. k = 0 \/ k \in 1..Len(Plan[pr.name])
    BY <1>1, <1>2, PlanAssumption DEF PluginGotos, IsProcess
  <1>5. IsProcess(ended) /\ DOMAIN ended.slots = DOMAIN pr.slots
                        /\ ended.name = pr.name
    BY <1>1, SlotOpsAreProcesses, WithSlotsIsProcess DEF FinishJob, WithSlots
  <1>6. IsProcess(asked) /\ asked.name = pr.name
    BY <1>1, <1>3, <1>5, SlotOpsAreProcesses DEF StopSlots, WithSlots
  <1>7. IsProcess(next)
    <2>1. CASE k = 0
      BY <1>6, <2>1 DEF WentTo
    <2>2. CASE k # 0
      <3>1. IsProcess(EnterStage(asked.name, k))
        BY <1>4, <1>6, <2>2, EnterStageIsProcess DEF IsProcess
      <3> QED
        BY <2>2, <3>1, SettleIsProcess DEF WentTo
    <2> QED
      BY <2>1, <2>2
  <1>8. nodes' \in [Conn -> Node]
    <2>1. \A i \in Conn : nodes[i] \in Node
      BY DEF ServerTypeOK
    <2>2. \A i \in Conn : MarkStoping(nodes[i], orders, i) \in Node
      BY <2>1, NodeOpsAreNodes
    <2>3. \A i \in Conn : LET nd == MarkStoping(nodes[i], orders, i)
                          IN  (IF i = n THEN Released(nd, Completes(next), fb)
                                        ELSE nd) \in Node
      BY <2>2, NodeOpsAreNodes
    <2> HIDE DEF asked, next, orders
    <2> QED
      BY <1>2, <2>3 DEF asked, next, orders
  <1>9. /\ DOMAIN procs' \subseteq DOMAIN procs
        /\ \A q \in DOMAIN procs' : IsProcess(procs'[q])
    <2>1. IsProcess(Settle(next))
      BY <1>7, SettleIsProcess
    <2>2. procs' = Without(p) \/ procs' = [procs EXCEPT ![p] = Settle(next)]
      BY <1>2
    <2> QED
      BY <1>1, <2>1, <2>2, ReplaceProcess, RemoveProcess
  <1>10. scan' \in [on : BOOLEAN, at : Nat \X Nat, again : BOOLEAN,
                    free : 0..MaxConn]
    <2>1. (IF fb THEN 0 ELSE n) \in 0..MaxConn
      BY NetAssumption DEF Conn
    <2>2. scan' = scan \/ Scan(TRUE, IF fb THEN 0 ELSE n) \/ Rescan
      BY <1>2
    <2> QED
      BY <2>1, <2>2, ScanTyped, RescanTyped DEF ServerTypeOK
  <1>11. fault' \in {"none", "use_after_free", "null_deref"}
    BY <1>2 DEF ServerTypeOK, Halted
  <1> QED
    BY <1>8, <1>9, <1>10, <1>11 DEF ServerTypeOK

\* Taking the jobs of a node that leaves away keeps the processes typed.
LEMMA ForgottenTyped ==
    ASSUME ServerTypeOK, NEW n \in Conn, procs' = Forgotten(n)
    PROVE  /\ DOMAIN procs' = DOMAIN procs
           /\ \A q \in DOMAIN procs' : IsProcess(procs'[q])
  <1>1. \A q \in DOMAIN procs : IsProcess(ClearJob(procs[q], n))
    BY SlotOpsAreProcesses, NetAssumption, SMTT(40)
    DEF ServerTypeOK, Conn
  <1> QED
    BY <1>1 DEF Forgotten

\* The server starts with typed state.
LEMMA InitTyped == Init => ServerTypeOK
  BY NewNodeIsNode, NetAssumption, ServerAssumption
  DEF Init, ServerInit, NetInit, ServerTypeOK, Conn

\* The handlers of the messages and of the end of a connection.
LEMMA HandlerTyped ==
    ASSUME ServerTypeOK, NEW n \in Conn, Handler(n)
    PROVE  ServerTypeOK'
  <1> USE DEF ServerTypeOK
  <1>1. CASE IgnoreWhileStopping(n)
    BY <1>1 DEF IgnoreWhileStopping, Receives, Ignore
  <1>2. CASE ReceiveAuthorizationRequest(n)
    BY <1>2 DEF ReceiveAuthorizationRequest, Hears, Receives
  <1>3. CASE ReceiveModulesListRequest(n)
    <2>1. nodes' \in [Conn -> Node]
      BY <1>3, NodeOpsAreNodes DEF ReceiveModulesListRequest
    <2> QED
      BY <1>3, <2>1, RescanTyped DEF ReceiveModulesListRequest, Hears, Receives
  <1>4. CASE CheckPrepareForStartModule(n)
    <2>1. CASE /\ Live(nodes[n].pid)
               /\ GiveUpJob(n, Head(toServer[n]).name)
      BY <1>4, <2>1, GiveUpJobTyped
      DEF CheckPrepareForStartModule, Hears, Receives
    <2>2. CASE Ignore
      BY <1>4, <2>2 DEF CheckPrepareForStartModule, Hears, Receives, Ignore
    <2>3. CASE /\ nodes' = [nodes EXCEPT ![n].sending =
                              IF Head(toServer[n]).name \in HasInputs
                              THEN Head(toServer[n]).name ELSE NoModule]
               /\ UNCHANGED <<procs, scan, fault, credited>>
      <3>1. nodes' \in [Conn -> Node]
        BY <2>3, ModulesAssumption DEF Node
      <3> QED
        BY <1>4, <2>3, <3>1 DEF CheckPrepareForStartModule, Hears, Receives
    <2> QED
      BY <1>4, <2>1, <2>2, <2>3 DEF CheckPrepareForStartModule
  <1>5. CASE CheckInputParametersSending(n)
    <2>1. CASE Live(nodes[n].pid)
      BY <1>5, <2>1, GiveUpJobTyped
      DEF CheckInputParametersSending, Hears, Receives
    <2>2. CASE ~Live(nodes[n].pid)
      BY <1>5, <2>2 DEF CheckInputParametersSending, Hears, Receives, Ignore
    <2> QED
      BY <2>1, <2>2
  <1>6. CASE CheckModuleStarting(n)
    <2>1. CASE Head(toServer[n]).status # 1 /\ Live(nodes[n].pid)
      BY <1>6, <2>1, GiveUpJobTyped DEF CheckModuleStarting, Hears, Receives
    <2>2. CASE ~(Head(toServer[n]).status # 1 /\ Live(nodes[n].pid))
      BY <1>6, <2>2 DEF CheckModuleStarting, Hears, Receives, Ignore
    <2> QED
      BY <2>1, <2>2
  <1>7. CASE ModuleExecutionEnded(n)
    <2>1. CASE Ignore
      BY <1>7, <2>1 DEF ModuleExecutionEnded, Hears, Receives, Ignore
    <2>2. CASE /\ Live(nodes[n].pid)
               /\ GiveUpJob(n, Head(toServer[n]).name)
      BY <1>7, <2>2, GiveUpJobTyped DEF ModuleExecutionEnded, Hears, Receives
    <2>3. CASE /\ Live(nodes[n].pid)
               /\ \E st \in Ended : EndJob(n, Head(toServer[n]).name, st, FALSE)
      BY <1>7, <2>3, EndJobTyped DEF ModuleExecutionEnded, Hears, Receives
    <2>4. CASE OutputNotDefined(n)
      <3>1. nodes' \in [Conn -> Node]
        BY <2>4, NodeOpsAreNodes DEF OutputNotDefined
      <3> QED
        BY <1>7, <2>4, <3>1, RescanTyped
        DEF OutputNotDefined, ModuleExecutionEnded, Hears, Receives
    <2> QED
      BY <1>7, <2>1, <2>2, <2>3, <2>4 DEF ModuleExecutionEnded, Ended
  <1>8. CASE CheckModuleStoping(n)
    <2>1. CASE Live(nodes[n].pid)
      BY <1>8, <2>1, EndJobTyped DEF CheckModuleStoping, Receives, Ended
    <2>2. CASE ~Live(nodes[n].pid)
      <3>1. nodes' \in [Conn -> Node]
        BY <1>8, <2>2, NodeOpsAreNodes DEF CheckModuleStoping
      <3> QED
        BY <1>8, <2>2, <3>1, RescanTyped DEF CheckModuleStoping, Receives
    <2> QED
      BY <2>1, <2>2
  <1>9. CASE NodeDisconnected(n)
    BY <1>9, ForgottenTyped, NewNodeIsNode DEF NodeDisconnected
  <1>10. CASE LateEvent(n)
    BY <1>10 DEF LateEvent, Halted
  <1> QED
    BY <1>1, <1>2, <1>3, <1>4, <1>5, <1>6, <1>7, <1>8, <1>9, <1>10 DEF Handler

\* The loop of checkProcessQueue.
LEMMA QueueTyped ==
    ASSUME ServerTypeOK, Queue
    PROVE  ServerTypeOK'
  <1> USE DEF ServerTypeOK
  <1>1. CASE GiveJob
    <2>1. PICK o \in Offers :
            LET p == o[1]
                n == o[2]
                pr == Settle(procs[p])
            IN  \/ /\ Halted("use_after_free")
                   /\ procs' = Without(p)
                   /\ UNCHANGED <<nodes, scan>>
                \/ /\ scan' = [scan EXCEPT !.at = o]
                   /\ procs' = [procs EXCEPT ![p] = pr]
                   /\ UNCHANGED <<nodes, fault>>
                \/ /\ scan' = [scan EXCEPT !.at = o]
                   /\ \E x \in Offered(pr, Able(nodes[n])) :
                         /\ procs' = [procs EXCEPT ![p] = StartSlot(pr, x, n)]
                         /\ nodes' = [nodes EXCEPT ![n] = Assigned(@, p, pr, x)]
                   /\ UNCHANGED fault
      BY <1>1 DEF GiveJob
    <2> DEFINE p == o[1]
               n == o[2]
               pr == Settle(procs[p])
    <2>2. /\ p \in DOMAIN procs /\ p \in Pid /\ n \in Conn
          /\ o \in Nat \X Nat
      BY ServerAssumption, NetAssumption DEF Offers, FreeNodes, Pid, Conn
    <2>3. IsProcess(pr)
      BY <2>2, SettleIsProcess
    <2>4. [scan EXCEPT !.at = o] \in [on : BOOLEAN, at : Nat \X Nat,
                                      again : BOOLEAN, free : 0..MaxConn]
      BY <2>2
    <2>5. \A x \in DOMAIN pr.slots :
            /\ IsProcess(StartSlot(pr, x, n))
            /\ Assigned(nodes[n], p, pr, x) \in Node
      <3>1. n \in Nat
        BY <2>2, NetAssumption DEF Conn
      <3>2. \A x : IsProcess(StartSlot(pr, x, n))
        BY <2>3, <3>1, SlotOpsAreProcesses
      <3>3. ASSUME NEW x \in DOMAIN pr.slots
            PROVE  Assigned(nodes[n], p, pr, x) \in Node
        <4>1. SlotName(pr, x) \in Module
          BY <2>3, SlotNameIsModule
        <4>2. nodes[n] \in Node
          BY <2>2
        <4> HIDE DEF p, n, pr
        <4> QED
          BY <2>2, <4>1, <4>2 DEF Assigned, Node
      <3> QED
        BY <3>2, <3>3
    <2>6. CASE procs' = Without(p) /\ Halted("use_after_free") /\ UNCHANGED <<nodes, scan>>
      BY <1>1, <2>6, RemoveProcess DEF GiveJob, Halted
    <2>7. CASE /\ scan' = [scan EXCEPT !.at = o]
               /\ procs' = [procs EXCEPT ![p] = pr]
               /\ UNCHANGED <<nodes, fault>>
      BY <1>1, <2>2, <2>3, <2>4, <2>7, ReplaceProcess DEF GiveJob
    <2>8. CASE /\ scan' = [scan EXCEPT !.at = o]
               /\ \E x \in Offered(pr, Able(nodes[n])) :
                     /\ procs' = [procs EXCEPT ![p] = StartSlot(pr, x, n)]
                     /\ nodes' = [nodes EXCEPT ![n] = Assigned(@, p, pr, x)]
               /\ UNCHANGED fault
      <3>1. PICK x \in DOMAIN pr.slots :
              /\ procs' = [procs EXCEPT ![p] = StartSlot(pr, x, n)]
              /\ nodes' = [nodes EXCEPT ![n] = Assigned(@, p, pr, x)]
        BY <2>8 DEF Offered
      <3>2. nodes' \in [Conn -> Node]
        BY <2>2, <2>5, <3>1
      <3> QED
        BY <1>1, <2>2, <2>4, <2>5, <2>8, <3>1, <3>2, ReplaceProcess DEF GiveJob
    <2> QED
      BY <2>1, <2>6, <2>7, <2>8
  <1>2. CASE EndScan
    <2>1. nodes' \in [Conn -> Node]
      BY <1>2, NodeOpsAreNodes DEF EndScan
    <2>2. scan' \in [on : BOOLEAN, at : Nat \X Nat, again : BOOLEAN,
                     free : 0..MaxConn]
      <3>1. CASE Rescan
        BY <3>1, RescanTyped
      <3>2. CASE scan' = [on |-> FALSE, at |-> <<0, 0>>, again |-> FALSE, free |-> 0]
        BY <3>2, NetAssumption
      <3> QED
        BY <1>2, <3>1, <3>2 DEF EndScan
    <2> QED
      BY <1>2, <2>1, <2>2 DEF EndScan, netVars
  <1> QED
    BY <1>1, <1>2 DEF Queue

\* The requests of the user.
LEMMA UserTyped ==
    ASSUME ServerTypeOK, User
    PROVE  ServerTypeOK'
  <1> USE DEF ServerTypeOK
  <1>1. ASSUME NEW s \in Scheme, StartProcess(s)
        PROVE  ServerTypeOK'
    <2>1. IsProcess(Settle(EnterStage(s, 1)))
      BY EnterStageIsProcess, SettleIsProcess, PlanAssumption
    <2>2. started' \in 0..MaxStarts /\ started' = started + 1
      BY <1>1, ServerAssumption DEF StartProcess
    <2>3. CASE Completes(EnterStage(s, 1))
      BY <1>1, <2>2, <2>3 DEF StartProcess, netVars
    <2>4. CASE ~Completes(EnterStage(s, 1))
      <3>1. procs' = [p \in DOMAIN procs \union {started + 1} |->
                        IF p \in DOMAIN procs THEN procs[p]
                                              ELSE Settle(EnterStage(s, 1))]
        BY <1>1, <2>4 DEF StartProcess
      <3>2. DOMAIN procs' \subseteq 1..started'
        BY <2>2, <3>1
      <3> QED
        BY <1>1, <2>1, <2>2, <2>4, <3>1, <3>2, RescanTyped DEF StartProcess, netVars
    <2> QED
      BY <2>3, <2>4
  <1>2. ASSUME NEW p \in Pid, StopProcess(p)
        PROVE  ServerTypeOK'
    <2>1. nodes' \in [Conn -> Node]
      BY <1>2, NodeOpsAreNodes DEF StopProcess
    <2> QED
      BY <1>2, <2>1, RemoveProcess, RescanTyped DEF StopProcess
  <1>3. ASSUME NEW n \in Conn, DisconnectNode(n)
        PROVE  ServerTypeOK'
    BY <1>3, ForgottenTyped, NodeOpsAreNodes DEF DisconnectNode
  <1>4. CASE ClearFailedModulesForNodes
    <2>1. nodes' \in [Conn -> Node]
      BY <1>4, NodeOpsAreNodes DEF ClearFailedModulesForNodes
    <2> QED
      BY <1>4, <2>1 DEF ClearFailedModulesForNodes, Halted, netVars
  <1> QED
    BY <1>1, <1>2, <1>3, <1>4 DEF User

\* The clients and the sockets.
LEMMA OtherStepsTyped ==
    ASSUME ServerTypeOK,
           \/ \E c \in Client : ClientStep(c)
           \/ \E c \in Client : InputTransfer(c) \/ InputTransferFails(c)
           \/ \E c \in Client, n \in Conn : Connect(c, n)
           \/ \E n \in Conn : Break(n)
    PROVE  ServerTypeOK'
  <1>1. ASSUME NEW c \in Client, ClientStep(c)
        PROVE  ServerTypeOK'
    <2>1. UNCHANGED link
      BY <1>1
      DEF ClientStep, Request, Program, ProgramFails, Transfer,
          CheckAuthorization, PrepareForStartModule, ReceivedInputParameters,
          ReceivedRequestOnStopModule, ConnectionClosed, Gets, ModuleFinished,
          ModuleCrashed, ProcessExecutionTimeout, OutputParametersSent,
          ArchiveSent, OutputParameterSendFailed, netVars
    <2> QED
      BY <1>1, <2>1 DEF ClientStep, serverVars, ServerTypeOK
  <1>2. ASSUME NEW c \in Client, InputTransfer(c)
        PROVE  ServerTypeOK'
    <2>1. PICK n \in Conn : InputParametersSent(n)
      BY <1>2 DEF InputTransfer
    <2>2. nodes' \in [Conn -> Node]
      BY <2>1, NodeOpsAreNodes DEF InputParametersSent, ServerTypeOK
    <2> QED
      BY <2>1, <2>2 DEF InputParametersSent, ServerTypeOK
  <1>3. ASSUME NEW c \in Client, InputTransferFails(c)
        PROVE  ServerTypeOK'
    <2>1. PICK n \in Conn : InputParameterSendFailed(n)
      BY <1>3 DEF InputTransferFails
    <2>2. CASE Live(nodes[n].pid)
      BY <2>1, <2>2, GiveUpJobTyped DEF InputParameterSendFailed
    <2>3. CASE ~Live(nodes[n].pid)
      <3>1. nodes' \in [Conn -> Node]
        BY <2>1, <2>3, NodeOpsAreNodes DEF InputParameterSendFailed, ServerTypeOK
      <3> QED
        BY <2>1, <2>3, <3>1 DEF InputParameterSendFailed, ServerTypeOK
    <2> QED
      BY <2>2, <2>3
  <1>4. ASSUME NEW c \in Client, NEW n \in Conn, Connect(c, n)
        PROVE  ServerTypeOK'
    <2>1. nodes' \in [Conn -> Node] /\ link' \in [Conn -> {"none", "open", "closed"}]
      BY <1>4, NewNodeIsNode DEF Connect, IncomingConnection, ServerTypeOK
    <2> QED
      BY <1>4, <2>1 DEF Connect, IncomingConnection, ServerTypeOK, Conn
  <1>5. ASSUME NEW n \in Conn, Break(n)
        PROVE  ServerTypeOK'
    BY <1>5 DEF Break, Lose, serverVars, ServerTypeOK
  <1> QED
    BY <1>1, <1>2, <1>3, <1>4, <1>5

\* Every step keeps the state of the server typed.
LEMMA NextTyped == ServerTypeOK /\ [Next]_vars => ServerTypeOK'
  <1> SUFFICES ASSUME ServerTypeOK, [Next]_vars
               PROVE  ServerTypeOK'
    OBVIOUS
  <1>1. CASE ServerStep
    <2>1. ASSUME NEW n \in Conn, ReapNode(n)
          PROVE  ServerTypeOK'
      BY <2>1 DEF ReapNode, serverVars, ServerTypeOK
    <2> QED
      BY <1>1, <2>1, HandlerTyped, QueueTyped, UserTyped DEF ServerStep
  <1>2. CASE UNCHANGED vars
    BY <1>2 DEF vars, serverVars, netVars, ServerTypeOK
  <1> QED
    BY <1>1, <1>2, OtherStepsTyped DEF Next

---------------------------------------------------------------------------
(* Messages and channels.                                                  *)

\* What is known of a message that was received, by its id.
LEMMA MessageShape ==
    ASSUME NEW m \in Message
    PROVE  /\ m.id \in {100, 120, 121, 122, 123, 124} =>
                 m.name \in Name /\ m.status \in 0..2 /\ m.job \in JobTag
           /\ m.id = 110 => m.mods \in SUBSET Module
  BY DEF Message, MessagesWith

\* Every message that is sent is one.
LEMMA SentMessages ==
    /\ \A id \in {100, 120, 121, 122, 123, 124}, m \in Name, st \in 0..2,
          j \in JobTag : Msg(id, m, st, j) \in Message
    /\ \A id \in {100, 120, 121, 122, 123, 124}, m \in Name, st \in 0..2 :
          Answer(id, m, st) \in Message
    /\ \A id \in {122, 123}, m \in Name, st \in 0..2 :
          Answer(id, m, st) \in MessagesWith({122, 123})
    /\ \A mods \in SUBSET Module : ModulesList(mods) \in Message
    /\ Closed \in Message
    /\ MessagesWith({122, 123}) \subseteq Message
  BY DEF Msg, Answer, ModulesList, Closed, Message, MessagesWith, JobTag

\* Sending and receiving keep channels typed.
LEMMA ChannelOps ==
    ASSUME NEW chan \in [Conn -> Seq(Message)], NEW n \in Conn
    PROVE  /\ \A m \in Message : Sent(chan, n, m) \in [Conn -> Seq(Message)]
           /\ chan[n] # <<>> => /\ Head(chan[n]) \in Message
                                /\ [chan EXCEPT ![n] = Tail(@)] \in [Conn -> Seq(Message)]
           /\ [chan EXCEPT ![n] = <<>>] \in [Conn -> Seq(Message)]
           /\ \A m \in Message : [chan EXCEPT ![n] = <<m>>] \in [Conn -> Seq(Message)]
           /\ \A kept \in Prefixes(chan[n]) :
                 /\ [chan EXCEPT ![n] = kept] \in [Conn -> Seq(Message)]
                 /\ [chan EXCEPT ![n] = Append(kept, Closed)] \in [Conn -> Seq(Message)]
  <1>1. \A m \in Message : Sent(chan, n, m) \in [Conn -> Seq(Message)]
    BY DEF Sent
  <1>2. chan[n] # <<>> => /\ Head(chan[n]) \in Message
                          /\ [chan EXCEPT ![n] = Tail(@)] \in [Conn -> Seq(Message)]
    OBVIOUS
  <1>3. ASSUME NEW kept \in Prefixes(chan[n])
        PROVE  kept \in Seq(Message) /\ Append(kept, Closed) \in Seq(Message)
    <2>1. kept \in Seq(Message)
      BY <1>3 DEF Prefixes
    <2> QED
      BY <2>1, SentMessages
  <1> QED
    BY <1>1, <1>2, <1>3

\* Orders that can be sent: they name modules, and their slots can be put in
\* order.
OrdersTyped(orders) ==
    /\ \A o \in orders : o[2] \in Module /\ o[3] \in Nat \X Nat
    /\ IsFiniteSet({ o[3] : o \in orders })

\* The requests to stop modules of a node are messages.
LEMMA StopRequestsTyped ==
    ASSUME NEW orders, OrdersTyped(orders), NEW n
    PROVE  /\ StopRequests(orders, n) \in Seq(Message)
           /\ \A i \in DOMAIN StopRequests(orders, n) :
                 StopRequests(orders, n)[i].id = 124
  <1> DEFINE due == { o \in orders : o[1] = n }
             X == { o[3] : o \in due }
             slots == InSlotOrder(X)
             request(i) == Msg(124, (CHOOSE o \in due : o[3] = slots[i])[2], 1, NoJob)
  <1>1. IsFiniteSet(X) /\ X \subseteq Nat \X Nat
    <2>1. X \subseteq { o[3] : o \in orders }
      OBVIOUS
    <2>2. X \subseteq Nat \X Nat
      BY DEF OrdersTyped
    <2>3. IsFiniteSet({ o[3] : o \in orders })
      BY DEF OrdersTyped
    <2> HIDE DEF X
    <2> QED
      BY <2>1, <2>2, <2>3, FS_Subset
  <1>2. slots \in Seq(X)
    BY <1>1, InSlotOrderHolds
  <1>3. ASSUME NEW i \in DOMAIN slots
        PROVE  request(i) \in Message /\ request(i).id = 124
    <2> DEFINE q == CHOOSE o \in due : o[3] = slots[i]
    <2>1. slots[i] \in X
      <3> HIDE DEF X, slots
      <3> QED
        BY <1>2
    <2>2. q \in due
      <3>1. PICK o \in due : o[3] = slots[i]
        BY <2>1
      <3> HIDE DEF slots
      <3> QED
        BY <3>1
    <2>3. q[2] \in Name
      BY <2>2 DEF OrdersTyped, Name
    <2> HIDE DEF q
    <2>4. Msg(124, q[2], 1, NoJob) \in Message /\ Msg(124, q[2], 1, NoJob).id = 124
      BY <2>3, SentMessages DEF JobTag, Msg
    <2> QED
      BY <2>4 DEF q
  <1>4. StopRequests(orders, n) = [i \in DOMAIN slots |-> request(i)]
    BY DEF StopRequests
  <1>5. DOMAIN slots = 1..Len(slots) /\ Len(slots) \in Nat
    BY <1>2
  <1> HIDE DEF slots, request
  <1> QED
    BY <1>3, <1>4, <1>5

\* Requests to stop modules keep the channels to the nodes typed.
LEMMA StoppingTyped ==
    ASSUME NEW chan \in [Conn -> Seq(Message)], NEW orders, OrdersTyped(orders)
    PROVE  Stopping(chan, orders) \in [Conn -> Seq(Message)]
  <1>1. ASSUME NEW n \in Conn
        PROVE  chan[n] \o StopRequests(orders, n) \in Seq(Message)
    <2>1. StopRequests(orders, n) \in Seq(Message)
      BY StopRequestsTyped
    <2> HIDE DEF StopRequests
    <2> QED
      BY <2>1
  <1> HIDE DEF StopRequests
  <1> QED
    BY <1>1 DEF Stopping

\* Orders are made of the slots of a process.
LEMMA OrdersNameModules ==
    ASSUME NEW pr, IsProcess(pr), NEW X
    PROVE  /\ \A o \in StopOrders(pr, X) : o[2] \in Module /\ o[3] \in DOMAIN pr.slots
           /\ \A o \in FreeOrders(pr) : o[2] \in Module /\ o[3] \in DOMAIN pr.slots
  BY SlotNameIsModule DEF StopOrders, FreeOrders, Orders, Started

\* Such orders can be sent.
LEMMA OrdersOfSlots ==
    ASSUME NEW pr, IsProcess(pr), NEW orders,
           \A o \in orders : o[2] \in Module /\ o[3] \in DOMAIN pr.slots
    PROVE  OrdersTyped(orders)
  <1>1. IsFiniteSet(DOMAIN pr.slots) /\ DOMAIN pr.slots \subseteq Nat \X Nat
    BY SlotsAreFinite
  <1>2. { o[3] : o \in orders } \subseteq DOMAIN pr.slots
    OBVIOUS
  <1> QED
    BY <1>1, <1>2, FS_Subset DEF OrdersTyped

\* The tag of a job names a process id and a slot of the process's stage.
LEMMA JobIsTag ==
    ASSUME NEW p \in Pid, NEW pr, IsProcess(pr), NEW x \in DOMAIN pr.slots
    PROVE  Job(p, pr, x) \in JobTag
  <1>1. /\ StageOf(pr) \in Seq(Entry)
        /\ x \in SlotIds(StageOf(pr))
    BY StageIsSeq DEF IsProcess, StageOf
  <1>2. x \in Nat \X Nat
    BY <1>1 DEF SlotIds, Expanded, Entry
  <1>3. pr.stage \in Nat
    BY DEF IsProcess
  <1> QED
    BY <1>2, <1>3 DEF Job, JobTag

\* The orders of a job that ends can be sent.
LEMMA EndJobOrders ==
    ASSUME ServerTypeOK, NEW n \in Conn, NEW m, NEW st \in Ended,
           NEW fb \in BOOLEAN, Live(nodes[n].pid), EndJob(n, m, st, fb)
    PROVE  \E orders : OrdersTyped(orders) /\ toNode' = Stopping(toNode, orders)
  <1> DEFINE pr == procs[nodes[n].pid]
             ended == FinishJob(pr, n, m, st)
  <1>1. IsProcess(pr)
    BY DEF Live, ServerTypeOK
  <1>2. n \in Nat
    BY NetAssumption DEF Conn
  <1>3. IsProcess(ended) /\ DOMAIN ended.slots = DOMAIN pr.slots
    <2>1. IsProcess(ended)
      BY <1>1, <1>2, SlotOpsAreProcesses
    <2>2. DOMAIN ended.slots = DOMAIN pr.slots
      BY DEF FinishJob, WithSlots
    <2> QED
      BY <2>1, <2>2
  <1>4. PICK X \in IF EndedSlots(pr, n, m) # {} THEN PluginStops(pr) ELSE {{}},
             k \in IF EndedSlots(pr, n, m) # {} THEN PluginGotos(pr) ELSE {0} :
             toNode' = Stopping(toNode, EndOrders(ended, X, k, n, fb))
    BY DEF EndJob, EndOrders
  <1>5. X \subseteq DOMAIN ended.slots
    BY <1>3, <1>4, PluginStopsSlots
  <1>6. IsProcess(StopSlots(ended, X))
    BY <1>2, <1>3, <1>5, SlotOpsAreProcesses
  <1>7. DOMAIN StopSlots(ended, X).slots = DOMAIN ended.slots
    BY DEF StopSlots, WithSlots
  <1> DEFINE orders == EndOrders(ended, X, k, n, fb)
  <1>8. \A o \in orders : o[2] \in Module /\ o[3] \in DOMAIN ended.slots
    BY <1>3, <1>6, <1>7, OrdersNameModules DEF EndOrders
  <1> HIDE DEF ended, orders
  <1>9. OrdersTyped(orders)
    BY <1>3, <1>8, OrdersOfSlots
  <1> QED
    BY <1>4, <1>9 DEF orders

\* Ending a job keeps the channels to the nodes typed.
LEMMA EndJobWireTyped ==
    ASSUME ServerTypeOK, WireTypeOK, NEW n \in Conn, NEW m, NEW st \in Ended,
           NEW fb \in BOOLEAN, Live(nodes[n].pid), EndJob(n, m, st, fb)
    PROVE  toNode' \in [Conn -> Seq(Message)]
  <1>1. PICK orders : OrdersTyped(orders) /\ toNode' = Stopping(toNode, orders)
    BY EndJobOrders
  <1>2. toNode \in [Conn -> Seq(Message)]
    BY DEF WireTypeOK
  <1> QED
    BY <1>1, <1>2, StoppingTyped

\* The handlers keep the channels typed.
LEMMA HandlerWireTyped ==
    ASSUME ServerTypeOK, WireTypeOK, NEW n \in Conn, Handler(n)
    PROVE  /\ toNode' \in [Conn -> Seq(Message)]
           /\ toServer' \in [Conn -> Seq(Message)]
  <1> DEFINE Wire == [Conn -> Seq(Message)]
  <1>1. toNode \in Wire /\ toServer \in Wire
    BY DEF WireTypeOK
  <1>2. ASSUME NEW id, Receives(n, id)
        PROVE  toServer' \in Wire
    BY <1>1, <1>2, ChannelOps DEF Receives
  <1>3. ASSUME Ignore \/ UNCHANGED toNode \/ \E m : GiveUpJob(n, m)
        PROVE  toNode' \in Wire
    BY <1>1, <1>3 DEF Ignore, GiveUpJob
  <1>4. ASSUME SendInputParameters(n)
        PROVE  toNode' \in Wire
    <2>1. nodes[n].exec \in Name
      BY DEF ServerTypeOK, Node, Name
    <2>2. Msg(121, nodes[n].exec, 1, NoJob) \in Message
      BY <2>1, SentMessages DEF JobTag
    <2> QED
      BY <1>1, <1>4, <2>2, ChannelOps DEF SendInputParameters, ToNode
  <1>5. ASSUME NEW m, NEW st \in Ended, NEW fb \in BOOLEAN, Live(nodes[n].pid),
               EndJob(n, m, st, fb)
        PROVE  toNode' \in Wire
    BY <1>5, EndJobWireTyped
  <1>6. CASE IgnoreWhileStopping(n)
    BY <1>2, <1>3, <1>6 DEF IgnoreWhileStopping
  <1>7. CASE ReceiveAuthorizationRequest(n)
    <2>1. Msg(100, NoModule, 1, NoJob) \in Message
      BY SentMessages DEF JobTag, Name
    <2> QED
      BY <1>1, <1>2, <1>7, <2>1, ChannelOps
      DEF ReceiveAuthorizationRequest, Hears, ToNode
  <1>8. CASE ReceiveModulesListRequest(n)
    BY <1>2, <1>3, <1>8 DEF ReceiveModulesListRequest, Hears
  <1>9. CASE CheckPrepareForStartModule(n)
    BY <1>2, <1>3, <1>4, <1>9 DEF CheckPrepareForStartModule, Hears
  <1>10. CASE CheckInputParametersSending(n)
    BY <1>2, <1>3, <1>10 DEF CheckInputParametersSending, Hears
  <1>11. CASE CheckModuleStarting(n)
    BY <1>2, <1>3, <1>11 DEF CheckModuleStarting, Hears
  <1>12. CASE ModuleExecutionEnded(n)
    BY <1>2, <1>3, <1>5, <1>12 DEF ModuleExecutionEnded, Hears, OutputNotDefined, Ended
  <1>13. CASE CheckModuleStoping(n)
    BY <1>2, <1>3, <1>5, <1>13 DEF CheckModuleStoping, Ended
  <1>14. CASE NodeDisconnected(n)
    BY <1>1, <1>14, ChannelOps DEF NodeDisconnected
  <1>15. CASE LateEvent(n)
    BY <1>1, <1>15, ChannelOps DEF LateEvent
  <1> QED
    BY <1>6, <1>7, <1>8, <1>9, <1>10, <1>11, <1>12, <1>13, <1>14, <1>15 DEF Handler

\* The loop of checkProcessQueue keeps them typed.
LEMMA QueueWireTyped ==
    ASSUME ServerTypeOK, WireTypeOK, Queue
    PROVE  /\ toNode' \in [Conn -> Seq(Message)]
           /\ toServer' \in [Conn -> Seq(Message)]
  <1>1. CASE GiveJob /\ ~UNCHANGED toNode
    <2>1. PICK o \in Offers :
            LET p == o[1]
                n == o[2]
                pr == Settle(procs[p])
            IN  \E x \in Offered(pr, Able(nodes[n])) :
                   ToNode(n, Msg(120, SlotName(pr, x), 1, Job(p, pr, x)))
      BY <1>1 DEF GiveJob
    <2> DEFINE p == o[1]
               n == o[2]
               pr == Settle(procs[p])
    <2>2. PICK x \in DOMAIN pr.slots :
             ToNode(n, Msg(120, SlotName(pr, x), 1, Job(p, pr, x)))
      BY <2>1 DEF Offered
    <2>3. p \in DOMAIN procs /\ p \in Pid /\ n \in Conn
      BY ServerAssumption DEF Offers, FreeNodes, Pid, ServerTypeOK
    <2>4. IsProcess(pr)
      BY <2>3, SettleIsProcess DEF ServerTypeOK
    <2>5. SlotName(pr, x) \in Name /\ Job(p, pr, x) \in JobTag
      BY <2>3, <2>4, SlotNameIsModule, JobIsTag DEF Name
    <2> HIDE DEF p, n, pr
    <2>6. Msg(120, SlotName(pr, x), 1, Job(p, pr, x)) \in Message
      BY <2>5, SentMessages
    <2> QED
      BY <1>1, <2>2, <2>3, <2>6, ChannelOps DEF WireTypeOK, ToNode, GiveJob
  <1>2. CASE GiveJob /\ UNCHANGED toNode
    BY <1>2 DEF GiveJob, WireTypeOK
  <1>3. CASE EndScan
    BY <1>3 DEF EndScan, WireTypeOK, netVars
  <1> QED
    BY <1>1, <1>2, <1>3 DEF Queue

\* The requests of the user keep them typed.
LEMMA UserWireTyped ==
    ASSUME ServerTypeOK, WireTypeOK, User
    PROVE  /\ toNode' \in [Conn -> Seq(Message)]
           /\ toServer' \in [Conn -> Seq(Message)]
  <1>1. ASSUME NEW p \in Pid, StopProcess(p)
        PROVE  toNode' \in [Conn -> Seq(Message)]
    <2>1. IsProcess(procs[p])
      BY <1>1 DEF StopProcess, Live, ServerTypeOK
    <2>2. OrdersTyped(FreeOrders(procs[p]))
      BY <2>1, OrdersNameModules, OrdersOfSlots
    <2> QED
      BY <1>1, <2>2, StoppingTyped DEF StopProcess, WireTypeOK
  <1>2. ASSUME NEW n \in Conn, DisconnectNode(n)
        PROVE  toServer' \in [Conn -> Seq(Message)]
    BY <1>2, ChannelOps, SMTT(20) DEF DisconnectNode, WireTypeOK
  <1> QED
    BY <1>1, <1>2
    DEF User, StartProcess, StopProcess, DisconnectNode,
        ClearFailedModulesForNodes, WireTypeOK, netVars

---------------------------------------------------------------------------
(* Clients.                                                                *)

\* The changes a client makes to its own state keep it typed.
LEMMA ClientOps ==
    ASSUME NEW cl \in ClientState
    PROVE  /\ \A m : TempCleared(cl, m) \in ClientState
           /\ \A m : Exited(cl, m) \in ClientState
           /\ Begun(cl) \in ClientState
           /\ Interrupted(cl) \in ClientState
           /\ Reinitialised(cl) \in ClientState
           /\ [cl EXCEPT !.files = FALSE] \in ClientState
           /\ [cl EXCEPT !.files = TRUE] \in ClientState
           /\ \A s \in {"no", "alone"} :
                 [cl EXCEPT !.conn = 0, !.files = FALSE, !.msg = NoMsg, !.stuck = s]
                    \in ClientState
           /\ \A m, message : message \in MessagesWith({122, 123}) =>
                 Archived(cl, m, message) \in ClientState
  <1>1. \A m : TempCleared(cl, m) \in ClientState
    BY DEF TempCleared, ClientState, Name
  <1>2. \A m : Exited(cl, m) \in ClientState
    BY DEF Exited, ClientState, JobTag
  <1>3. Begun(cl) \in ClientState
    BY DEF Begun, ClientState
  <1>4. Interrupted(cl) \in ClientState
    BY ZenonT(40) DEF Interrupted, ClientState
  <1>5. Reinitialised(cl) \in ClientState
    <2>1. /\ NewClient.job = [m \in Module |-> NoJob]
          /\ NewClient.run = [m \in Module |-> NoJob]
      BY DEF NewClient
    <2>2. [m \in Module |-> NoJob] \in [Module -> JobTag]
      BY DEF JobTag
    <2> QED
      BY <2>1, <2>2, ZenonT(40) DEF Reinitialised, ClientState, Name
  <1>6. /\ [cl EXCEPT !.files = FALSE] \in ClientState
        /\ [cl EXCEPT !.files = TRUE] \in ClientState
    BY DEF ClientState
  <1>7. ASSUME NEW s \in {"no", "alone"}
        PROVE  [cl EXCEPT !.conn = 0, !.files = FALSE, !.msg = NoMsg, !.stuck = s]
                  \in ClientState
    <2>1. 0 \in 0..MaxConn /\ s \in {"no", "alone", "both"}
      BY NetAssumption
    <2>2. NoMsg \in MessagesWith({122, 123}) \union {NoMsg}
      OBVIOUS
    <2> QED
      BY <2>1, <2>2 DEF ClientState
  <1>8. ASSUME NEW m, NEW message \in MessagesWith({122, 123})
        PROVE  Archived(cl, m, message) \in ClientState
    <2>1. \A d \in ClientState : [d EXCEPT !.msg = message] \in ClientState
      BY DEF ClientState
    <2> QED
      BY <1>1, <2>1 DEF Archived
  <1> QED
    BY <1>1, <1>2, <1>3, <1>4, <1>5, <1>6, <1>7, <1>8

\* A client that answers keeps the channels to the server typed.
LEMMA ReplyTyped ==
    ASSUME WireTypeOK, NEW c \in Client
    PROVE  /\ Online(c) => Connection(c) \in Conn
           /\ \A m \in Message : Reply(c, m) => toServer' \in [Conn -> Seq(Message)]
           /\ \A id : Gets(c, id) =>
                 /\ toNode' \in [Conn -> Seq(Message)]
                 /\ Head(toNode[Connection(c)]) \in Message
                 /\ Head(toNode[Connection(c)]).id = id
  <1>1. client[c].conn \in 0..MaxConn
    BY DEF WireTypeOK, ClientState
  <1>2. Online(c) => Connection(c) \in Conn
    BY <1>1, NetAssumption DEF Online, Connection, Conn
  <1>3. ASSUME NEW m \in Message, Reply(c, m)
        PROVE  toServer' \in [Conn -> Seq(Message)]
    <2>1. toServer \in [Conn -> Seq(Message)]
      BY DEF WireTypeOK
    <2>2. Online(c) => Sent(toServer, Connection(c), m) \in [Conn -> Seq(Message)]
      BY <1>2, <2>1, ChannelOps
    <2> QED
      BY <1>3, <2>1, <2>2 DEF Reply, ToServer
  <1>4. ASSUME NEW id, Gets(c, id)
        PROVE  /\ toNode' \in [Conn -> Seq(Message)]
               /\ Head(toNode[Connection(c)]) \in Message
               /\ Head(toNode[Connection(c)]).id = id
    BY <1>2, <1>4, ChannelOps DEF WireTypeOK, Gets
  <1> QED
    BY <1>2, <1>3, <1>4

\* The end of a job without errors keeps client and channels typed.
LEMMA AllSentTyped ==
    ASSUME WireTypeOK, NEW c \in Client, NEW cl \in ClientState,
           AllOutputParametersSent(c, cl)
    PROVE  /\ client' \in [Client -> ClientState]
           /\ toServer' \in [Conn -> Seq(Message)]
  <1>1. cl.exec \in Name
    BY DEF ClientState
  <1>2. Answer(123, cl.exec, 1) \in Message
    BY <1>1, SentMessages
  <1>3. [TempCleared(cl, cl.exec) EXCEPT !.files = FALSE] \in ClientState
    BY ClientOps
  <1> QED
    BY <1>2, <1>3, ReplyTyped DEF AllOutputParametersSent, WireTypeOK

\* Preparing and starting a program keeps the client typed.
LEMMA JobOps ==
    ASSUME NEW cl \in ClientState, NEW m \in Name
    PROVE  /\ \A j \in JobTag :
                 /\ [cl EXCEPT !.exec = m, !.job[m] = j, !.temp = @ \union {m},
                               !.into = m, !.ready = @ \ {m}] \in ClientState
                 /\ [cl EXCEPT !.exec = m, !.job[m] = j, !.into = NoModule]
                      \in ClientState
           /\ [cl EXCEPT !.run[m] = NoJob] \in ClientState
           /\ [cl EXCEPT !.run[m] = cl.job[m]] \in ClientState
  <1>1. cl.run \in [Module -> JobTag] /\ cl.job \in [Module -> JobTag]
    BY DEF ClientState
  <1>2. \A j \in JobTag : /\ [cl.job EXCEPT ![m] = j] \in [Module -> JobTag]
                          /\ [cl.run EXCEPT ![m] = j] \in [Module -> JobTag]
    BY <1>1
  <1>3. [cl.run EXCEPT ![m] = cl.job[m]] \in [Module -> JobTag]
    <2>1. CASE m \in Module
      BY <1>1, <1>2, <2>1
    <2>2. CASE m \notin Module
      BY <1>1, <2>2
    <2> QED
      BY <2>1, <2>2
  <1>4. NoJob \in JobTag
    BY DEF JobTag
  <1>5. \A j \in JobTag :
          /\ [cl EXCEPT !.exec = m, !.job[m] = j, !.temp = @ \union {m},
                        !.into = m, !.ready = @ \ {m}] \in ClientState
          /\ [cl EXCEPT !.exec = m, !.job[m] = j, !.into = NoModule] \in ClientState
    BY <1>2, ZenonT(40) DEF ClientState, Name
  <1>6. /\ [cl EXCEPT !.run[m] = NoJob] \in ClientState
        /\ [cl EXCEPT !.run[m] = cl.job[m]] \in ClientState
    BY <1>2, <1>3, <1>4 DEF ClientState
  <1> QED
    BY <1>5, <1>6

\* Requests keep client and channels typed.
LEMMA RequestTyped ==
    ASSUME WireTypeOK, NEW c \in Client, Request(c)
    PROVE  WireTypeOK'
  <1> DEFINE cl == client[c]
             req == Head(toNode[Connection(c)])
             Wire == [Conn -> Seq(Message)]
  <1>1. /\ cl \in ClientState
        /\ client \in [Client -> ClientState] /\ toNode \in Wire /\ toServer \in Wire
    BY DEF WireTypeOK
  <1>2. \A id \in {100, 120, 121, 124} :
          Gets(c, id) => /\ toNode' \in Wire
                         /\ req.name \in Name
                         /\ req.job \in JobTag
    BY ReplyTyped, MessageShape
  <1>3. \A m \in Message : Reply(c, m) => toServer' \in Wire
    BY ReplyTyped
  <1>4. \A id \in {120, 121, 122, 123, 124}, m \in Name, st \in 0..2 :
          Answer(id, m, st) \in Message
    BY SentMessages
  <1>5. CASE CheckAuthorization(c)
    <2>1. ModulesList(ClientModules[c]) \in Message
      BY ClientAssumption, SentMessages
    <2>2. Reinitialised(cl) \in ClientState
      BY <1>1, ClientOps
    <2> QED
      BY <1>1, <1>2, <1>3, <1>5, <2>1, <2>2 DEF CheckAuthorization, WireTypeOK
  <1>6. CASE PrepareForStartModule(c)
    <2>1. req.name \in Name /\ req.job \in JobTag /\ toNode' \in Wire
      BY <1>2, <1>6 DEF PrepareForStartModule
    <2>2. toServer' \in Wire
      <3>1. Answer(120, req.name, 1) \in Message /\ Answer(120, req.name, 0) \in Message
        BY <1>4, <2>1
      <3>2. Reply(c, Answer(120, req.name, 1)) \/ Reply(c, Answer(120, req.name, 0))
        BY <1>6 DEF PrepareForStartModule
      <3> QED
        BY <1>3, <3>1, <3>2
    <2>3. client' \in [Client -> ClientState]
      <3>1. PICK new \in { [cl EXCEPT !.exec = req.name, !.job[req.name] = req.job,
                                      !.temp = @ \union {req.name},
                                      !.into = req.name, !.ready = @ \ {req.name}],
                           [cl EXCEPT !.exec = req.name, !.job[req.name] = req.job,
                                      !.into = NoModule] } :
               client' = [client EXCEPT ![c] = new]
        BY <1>1, <1>6 DEF PrepareForStartModule
      <3>2. new \in ClientState
        <4>1. cl \in ClientState /\ req.name \in Name /\ req.job \in JobTag
          BY <1>1, <2>1
        <4>2. /\ [cl EXCEPT !.exec = req.name, !.job[req.name] = req.job,
                            !.temp = @ \union {req.name},
                            !.into = req.name, !.ready = @ \ {req.name}] \in ClientState
              /\ [cl EXCEPT !.exec = req.name, !.job[req.name] = req.job,
                            !.into = NoModule] \in ClientState
          <5> HIDE DEF cl, req
          <5> QED
            BY <4>1, JobOps
        <4> QED
          BY <3>1, <4>2
      <3> HIDE DEF cl, req
      <3> QED
        BY <1>1, <3>1, <3>2
    <2> QED
      BY <2>1, <2>2, <2>3 DEF WireTypeOK
  <1>7. CASE ReceivedInputParameters(c)
    <2> DEFINE m == req.name
               exited == [cl EXCEPT !.run[m] = NoJob]
    <2>1. m \in Name /\ toNode' \in Wire
      BY <1>2, <1>7 DEF ReceivedInputParameters
    <2>2. toServer' \in Wire
      BY <1>1, <1>3, <1>4, <1>7, <2>1 DEF ReceivedInputParameters, Silent
    <2>3. PICK new \in { TempCleared(cl, m), [cl EXCEPT !.run[m] = cl.job[m]],
                         Archived(exited, m, Answer(122, m, 0)),
                         Archived(exited, m, Answer(123, m, 0)) } :
             client' = [client EXCEPT ![c] = new]
      BY <1>1, <1>7 DEF ReceivedInputParameters
    <2>4. new \in ClientState
      <3>1. exited \in ClientState /\ [cl EXCEPT !.run[m] = cl.job[m]] \in ClientState
        <4> HIDE DEF m, cl
        <4> QED
          BY <1>1, <2>1, JobOps
      <3>2. /\ Answer(122, m, 0) \in MessagesWith({122, 123})
            /\ Answer(123, m, 0) \in MessagesWith({122, 123})
        BY <2>1, SentMessages
      <3>3. /\ TempCleared(cl, m) \in ClientState
            /\ Archived(exited, m, Answer(122, m, 0)) \in ClientState
            /\ Archived(exited, m, Answer(123, m, 0)) \in ClientState
        <4> HIDE DEF exited, m, cl
        <4> QED
          BY <1>1, <3>1, <3>2, ClientOps, ZenonT(40)
      <3> QED
        BY <2>3, <3>1, <3>3
    <2> HIDE DEF cl, m, exited
    <2> QED
      BY <1>1, <2>1, <2>2, <2>3, <2>4 DEF WireTypeOK
  <1>8. CASE ReceivedRequestOnStopModule(c)
    <2> DEFINE m == req.name
               stopped == TempCleared([cl EXCEPT !.run[m] = NoJob], m)
    <2>1. m \in Name /\ toNode' \in Wire
      BY <1>2, <1>8 DEF ReceivedRequestOnStopModule
    <2>2. toServer' \in Wire
      BY <1>3, <1>4, <1>8, <2>1 DEF ReceivedRequestOnStopModule
    <2>3. stopped \in ClientState
      BY <1>1, <2>1, JobOps, ClientOps
    <2>4. client' \in [Client -> ClientState]
      <3>1. PICK new \in {stopped, Interrupted(stopped)} :
               client' = [client EXCEPT ![c] = new]
        BY <1>8 DEF ReceivedRequestOnStopModule
      <3> HIDE DEF stopped
      <3> QED
        BY <1>1, <2>3, <3>1, ClientOps
    <2> QED
      BY <2>1, <2>2, <2>4 DEF WireTypeOK
  <1>9. CASE ConnectionClosed(c)
    <2>1. toNode' \in Wire
      BY <1>1, <1>9, ReplyTyped, ChannelOps DEF ConnectionClosed
    <2>2. client' \in [Client -> ClientState]
      <3>1. PICK s \in {"no", "alone"} :
               client' = [client EXCEPT ![c] = [cl EXCEPT !.conn = 0, !.files = FALSE,
                                                          !.msg = NoMsg, !.stuck = s]]
        BY <1>1, <1>9, ZenonT(40) DEF ConnectionClosed
      <3>2. [cl EXCEPT !.conn = 0, !.files = FALSE, !.msg = NoMsg, !.stuck = s]
              \in ClientState
        BY <1>1, ClientOps
      <3> HIDE DEF cl
      <3> QED
        BY <1>1, <3>1, <3>2
    <2> QED
      BY <1>1, <1>9, <2>1, <2>2 DEF ConnectionClosed, WireTypeOK
  <1> QED
    BY <1>5, <1>6, <1>7, <1>8, <1>9 DEF Request

\* Programs that end, and transfers, keep client and channels typed.
LEMMA ProgramTyped ==
    ASSUME WireTypeOK, NEW c \in Client,
           \/ Program(c) \/ ProgramFails(c)
           \/ Transfer(c) \/ OutputParameterSendFailed(c)
    PROVE  WireTypeOK'
  <1> DEFINE cl == client[c]
             Wire == [Conn -> Seq(Message)]
  <1>1. /\ cl \in ClientState
        /\ client \in [Client -> ClientState] /\ toNode \in Wire /\ toServer \in Wire
    BY DEF WireTypeOK
  <1>2. \A new \in ClientState :
          /\ [client EXCEPT ![c] = new] \in [Client -> ClientState]
          /\ AllOutputParametersSent(c, new) =>
                client' \in [Client -> ClientState] /\ toServer' \in Wire
    BY <1>1, AllSentTyped
  <1>3. \A m \in Module, st \in 0..2 :
          /\ Answer(123, m, st) \in Message
          /\ Answer(123, m, st) \in MessagesWith({122, 123})
    BY SentMessages DEF Name
  <1>4. \A m : Exited(cl, m) \in ClientState
    BY <1>1, ClientOps
  <1>5. ASSUME NEW m \in Module, ModuleFinished(c, m)
        PROVE  WireTypeOK'
    <2> DEFINE ended == Exited(cl, m)
               one == Begun([ended EXCEPT !.files = TRUE])
               other == Begun([Archived(ended, m, Answer(123, m, 0))
                                 EXCEPT !.files = FALSE])
    <2>1. ended \in ClientState /\ one \in ClientState /\ other \in ClientState
      <3>1. ended \in ClientState /\ Answer(123, m, 0) \in MessagesWith({122, 123})
        BY <1>3, <1>4
      <3> HIDE DEF ended
      <3> QED
        BY <3>1, ClientOps
    <2>2. \/ /\ \E new \in {one, other} : client' = [client EXCEPT ![c] = new]
             /\ UNCHANGED toServer
          \/ AllOutputParametersSent(c, ended)
      BY <1>5 DEF ModuleFinished, Silent
    <2>3. UNCHANGED toNode
      BY <1>5 DEF ModuleFinished
    <2> HIDE DEF ended, one, other
    <2> QED
      BY <1>1, <1>2, <2>1, <2>2, <2>3 DEF WireTypeOK
  <1>6. ASSUME NEW m \in Module, ModuleCrashed(c, m)
        PROVE  WireTypeOK'
    <2> DEFINE ended == Exited(cl, m)
               new == Begun(Archived(ended, m, Answer(123, m, 0)))
    <2>1. new \in ClientState /\ [new EXCEPT !.files = FALSE] \in ClientState
      <3>1. ended \in ClientState /\ Answer(123, m, 0) \in MessagesWith({122, 123})
        BY <1>3, <1>4
      <3> HIDE DEF ended
      <3> QED
        BY <3>1, ClientOps
    <2>2. \/ /\ client' = [client EXCEPT ![c] = [new EXCEPT !.files = FALSE]]
             /\ UNCHANGED toServer
          \/ AllOutputParametersSent(c, new)
      BY <1>6 DEF ModuleCrashed, Silent
    <2>3. UNCHANGED toNode
      BY <1>6 DEF ModuleCrashed
    <2> HIDE DEF ended, new
    <2> QED
      BY <1>1, <1>2, <2>1, <2>2, <2>3 DEF WireTypeOK
  <1>7. ASSUME NEW m \in Module, ProcessExecutionTimeout(c, m)
        PROVE  WireTypeOK'
    <2>1. toServer' \in Wire
      BY <1>3, <1>7, ReplyTyped DEF ProcessExecutionTimeout
    <2>2. [cl EXCEPT !.run[m] = NoJob] \in ClientState
      BY <1>4 DEF Exited
    <2> QED
      BY <1>1, <1>2, <1>7, <2>1, <2>2 DEF ProcessExecutionTimeout, WireTypeOK
  <1>8. CASE OutputParametersSent(c)
    BY <1>1, <1>2, <1>8 DEF OutputParametersSent, WireTypeOK
  <1>9. CASE OutputParameterSendFailed(c)
    <2>1. cl.exec \in Name
      BY <1>1 DEF ClientState
    <2>2. Answer(123, cl.exec, 0) \in MessagesWith({122, 123})
      BY <2>1, SentMessages
    <2>3. [Archived(cl, cl.exec, Answer(123, cl.exec, 0)) EXCEPT !.files = FALSE]
            \in ClientState
      <3> HIDE DEF cl
      <3> QED
        BY <1>1, <2>2, ClientOps
    <2> QED
      BY <1>1, <1>2, <1>9, <2>3 DEF OutputParameterSendFailed, WireTypeOK, netVars
  <1>10. CASE ArchiveSent(c)
    <2>1. cl.msg \in Message
      BY <1>1, <1>10, SentMessages DEF ArchiveSent, ClientState
    <2>2. toServer' \in Wire
      BY <1>10, <2>1, ReplyTyped DEF ArchiveSent
    <2>3. [cl EXCEPT !.msg = NoMsg] \in ClientState
      BY <1>1 DEF ClientState
    <2> QED
      BY <1>1, <1>2, <1>10, <2>2, <2>3 DEF ArchiveSent, WireTypeOK
  <1> QED
    BY <1>5, <1>6, <1>7, <1>8, <1>9, <1>10 DEF Program, ProgramFails, Transfer

\* Connecting and receiving files keep a client typed.
LEMMA SocketOps ==
    ASSUME NEW cl \in ClientState
    PROVE  /\ \A n \in Conn : [cl EXCEPT !.conn = n] \in ClientState
           /\ [cl EXCEPT !.stuck = "no"] \in ClientState
           /\ \A R \in SUBSET Module :
                 [cl EXCEPT !.stuck = "no", !.ready = R] \in ClientState
  <1>1. \A n \in Conn : n \in 0..MaxConn
    BY NetAssumption DEF Conn
  <1> QED
    BY <1>1 DEF ClientState

\* The sockets keep client and channels typed.
LEMMA SocketTyped ==
    ASSUME ServerTypeOK, WireTypeOK,
           \/ \E c \in Client : InputTransfer(c) \/ InputTransferFails(c)
           \/ \E c \in Client, n \in Conn : Connect(c, n)
           \/ \E n \in Conn : Break(n)
    PROVE  WireTypeOK'
  <1> DEFINE Wire == [Conn -> Seq(Message)]
  <1>1. /\ client \in [Client -> ClientState] /\ toNode \in Wire /\ toServer \in Wire
    BY DEF WireTypeOK
  <1>2. ASSUME NEW c \in Client, InputTransfer(c)
        PROVE  WireTypeOK'
    <2>1. PICK n \in Conn : InputParametersSent(n) /\ ReceivedFiles(c, nodes[n].sending)
      BY <1>2 DEF InputTransfer
    <2>2. nodes[n].exec \in Name /\ nodes[n].sending \in Module
      BY <2>1 DEF InputParametersSent, ServerTypeOK, Node, Name
    <2>3. Msg(121, nodes[n].exec, 1, NoJob) \in Message
      BY <2>2, SentMessages DEF JobTag
    <2>4. Sent(toNode, n, Msg(121, nodes[n].exec, 1, NoJob)) \in Wire
      BY <1>1, <2>3, ChannelOps
    <2>5. toNode' \in Wire
      BY <1>1, <2>1, <2>4 DEF InputParametersSent, SendInputParameters, ToNode
    <2>6. PICK R \in SUBSET Module :
             client' = [client EXCEPT ![c] = [client[c] EXCEPT !.stuck = "no", !.ready = R]]
      <3>1. client[c].ready \in SUBSET Module
        BY <1>1 DEF ClientState
      <3> QED
        BY <1>1, <2>1, <2>2, <3>1 DEF ReceivedFiles
    <2>7. client' \in [Client -> ClientState]
      BY <1>1, <2>6, SocketOps
    <2> QED
      BY <1>1, <2>1, <2>5, <2>7 DEF InputParametersSent, WireTypeOK
  <1>3. ASSUME NEW c \in Client, InputTransferFails(c)
        PROVE  WireTypeOK'
    <2>1. PICK n \in Conn : InputParameterSendFailed(n)
      BY <1>3 DEF InputTransferFails
    <2>2. client' = [client EXCEPT ![c] = [client[c] EXCEPT !.stuck = "no"]]
      BY <1>3 DEF InputTransferFails, RefusedFile
    <2>3. client' \in [Client -> ClientState]
      BY <1>1, <2>2, SocketOps
    <2> QED
      BY <1>1, <2>1, <2>3 DEF InputParameterSendFailed, GiveUpJob, WireTypeOK
  <1>4. ASSUME NEW c \in Client, NEW n \in Conn, Connect(c, n)
        PROVE  WireTypeOK'
    <2>1. Answer(100, NoModule, 1) \in Message
      BY SentMessages DEF Name
    <2>2. toServer' \in Wire
      BY <1>1, <1>4, <2>1, ChannelOps DEF Connect, Connected
    <2>3. client' = [client EXCEPT ![c] = [client[c] EXCEPT !.conn = n]]
      BY <1>4 DEF Connect, Connected
    <2>4. client' \in [Client -> ClientState]
      BY <1>1, <2>3, SocketOps
    <2> QED
      BY <1>1, <1>4, <2>2, <2>4 DEF Connect, IncomingConnection, WireTypeOK
  <1>5. ASSUME NEW n \in Conn, Break(n)
        PROVE  WireTypeOK'
    <2>1. PICK read \in Prefixes(toServer[n]) :
             toServer' = [toServer EXCEPT ![n] = Append(read, Closed)]
      BY <1>5 DEF Break, Lose
    <2>2. PICK kept \in Prefixes(toNode[n]) : toNode' = [toNode EXCEPT ![n] = kept]
      BY <1>5 DEF Break, Lose
    <2>3. toServer' \in Wire /\ toNode' \in Wire
      BY <1>1, <2>1, <2>2, ChannelOps
    <2> QED
      BY <1>1, <1>5, <2>3 DEF Break, WireTypeOK, clientVars
  <1> QED
    BY <1>2, <1>3, <1>4, <1>5

---------------------------------------------------------------------------
(* Type correctness.                                                       *)

\* The system starts with typed messages and clients.
LEMMA InitWireTyped == Init => WireTypeOK
  BY NetAssumption
  DEF Init, NetInit, ClientInit, NewClient, WireTypeOK, ClientState, JobTag, Name

\* Every step keeps them typed.
LEMMA NextWireTyped == TypeOK /\ [Next]_vars => WireTypeOK'
  <1> SUFFICES ASSUME ServerTypeOK, WireTypeOK, [Next]_vars
               PROVE  WireTypeOK'
    BY DEF TypeOK
  <1>1. CASE ServerStep
    <2>1. ASSUME NEW n \in Conn, ReapNode(n)
          PROVE  toNode' \in [Conn -> Seq(Message)] /\ toServer' \in [Conn -> Seq(Message)]
      BY <2>1, ChannelOps DEF ReapNode, WireTypeOK
    <2> QED
      BY <1>1, <2>1, HandlerWireTyped, QueueWireTyped, UserWireTyped
      DEF ServerStep, clientVars, WireTypeOK
  <1>2. CASE UNCHANGED vars
    BY <1>2 DEF vars, clientVars, netVars, WireTypeOK
  <1> QED
    BY <1>1, <1>2, RequestTyped, ProgramTyped, SocketTyped DEF Next, ClientStep

\* The whole state stays typed: in particular every process keeps exactly the
\* slots of its current stage, every busy node names a module of the system
\* and every message has the attributes its handler reads, whatever the
\* clients answer (server.cpp, node.cpp, process.cpp, client.cpp).
THEOREM TypeCorrect == Spec => []TypeOK
  <1>1. Init => TypeOK
    BY InitTyped, InitWireTyped DEF TypeOK
  <1>2. TypeOK /\ [Next]_vars => TypeOK'
    BY NextTyped, NextWireTyped DEF TypeOK
  <1> QED
    BY <1>1, <1>2, PTL DEF Spec

---------------------------------------------------------------------------
(* Stop requests on a channel.                                             *)

\* The channel new carries no stop that old did not carry.
Calmer(new, old) ==
    (Quiet(old) => Quiet(new)) /\ (OneStop(old) => OneStop(new))

\* A message that is no stop, the receipt of a message and the loss of the
\* last messages add no stop.
LEMMA CalmerOps ==
    ASSUME NEW s \in Seq(Message)
    PROVE  /\ Calmer(s, s) /\ Calmer(<<>>, s)
           /\ \A m : m.id # 124 => Calmer(Append(s, m), s)
           /\ s # <<>> => Calmer(Tail(s), s)
           /\ \A kept \in Prefixes(s) : /\ kept \in Seq(Message)
                                        /\ Calmer(kept, s)
                                        /\ Calmer(Append(kept, Closed), s)
  <1>1. Calmer(s, s) /\ Calmer(<<>>, s)
    BY DEF Calmer, Quiet, OneStop
  <1>2. \A t \in Seq(Message) : \A m : m.id # 124 => Calmer(Append(t, m), t)
    BY DEF Calmer, Quiet, OneStop
  <1>3. s # <<>> => Calmer(Tail(s), s)
    <2> SUFFICES ASSUME s # <<>> PROVE Calmer(Tail(s), s)
      OBVIOUS
    <2>1. \A i \in DOMAIN Tail(s) : i + 1 \in DOMAIN s /\ Tail(s)[i] = s[i + 1]
      OBVIOUS
    <2>2. \A i, j \in DOMAIN Tail(s) : i + 1 = j + 1 => i = j
      OBVIOUS
    <2> QED
      BY <2>1, <2>2 DEF Calmer, Quiet, OneStop
  <1>4. ASSUME NEW kept \in Prefixes(s)
        PROVE  kept \in Seq(Message) /\ Calmer(kept, s)
    <2>1. PICK k \in 0..Len(s) : kept = SubSeq(s, 1, k)
      BY <1>4 DEF Prefixes
    <2>2. kept \in Seq(Message)
      BY <2>1
    <2>3. \A i \in DOMAIN kept : i \in DOMAIN s /\ kept[i] = s[i]
      BY <2>1
    <2> QED
      BY <2>2, <2>3 DEF Calmer, Quiet, OneStop
  <1>5. ASSUME NEW kept \in Prefixes(s)
        PROVE  Calmer(Append(kept, Closed), s)
    BY <1>2, <1>4 DEF Calmer, Closed
  <1> QED
    BY <1>1, <1>2, <1>3, <1>4, <1>5

\* Sending a stop on a quiet channel leaves one; receiving it leaves none.
LEMMA StopOps ==
    ASSUME NEW s \in Seq(Message)
    PROVE  /\ \A m : Quiet(s) => OneStop(Append(s, m))
           /\ s # <<>> /\ Head(s).id = 124 => ~Quiet(s)
           /\ s # <<>> /\ Head(s).id = 124 /\ OneStop(s) => Quiet(Tail(s))
  <1>1. \A m : Quiet(s) => OneStop(Append(s, m))
    BY DEF Quiet, OneStop
  <1>2. s # <<>> /\ Head(s).id = 124 => ~Quiet(s)
    BY DEF Quiet
  <1>3. ASSUME s # <<>>, Head(s).id = 124, OneStop(s)
        PROVE  Quiet(Tail(s))
    <2>1. \A i \in DOMAIN Tail(s) :
             i + 1 \in DOMAIN s /\ Tail(s)[i] = s[i + 1] /\ i + 1 # 1
      BY <1>3
    <2>2. 1 \in DOMAIN s /\ s[1].id = 124
      BY <1>3
    <2> QED
      BY <1>3, <2>1, <2>2 DEF Quiet, OneStop
  <1> QED
    BY <1>1, <1>2, <1>3

---------------------------------------------------------------------------
(* Started slots.                                                          *)

\* Every started slot of new was started in old on the same node.
Fewer(new, old) ==
    \A x \in Started(new) : /\ x \in Started(old)
                            /\ new.slots[x].node = old.slots[x].node
                            /\ SlotName(new, x) = SlotName(old, x)

\* The operators of DiscompProcess other than StartSlot start no slot.
LEMMA FewerOps ==
    ASSUME NEW pr, NEW n, NEW m, NEW X
    PROVE  /\ Fewer(pr, pr)
           /\ Fewer(ClearJob(pr, n), pr)
           /\ \A x \in Started(ClearJob(pr, n)) : ClearJob(pr, n).slots[x].node # n
           /\ \A st \in Ended : Fewer(FinishJob(pr, n, m, st), pr)
           /\ \A st \in Ended : \A x \in Started(FinishJob(pr, n, m, st)) :
                 ~(pr.slots[x].node = n /\ SlotName(pr, x) = m)
           /\ Fewer(StopSlots(pr, X), pr)
           /\ \A x \in Started(StopSlots(pr, X)) : x \notin X
  <1> USE DEF Fewer, Started, WithSlots, SlotName, StageOf
  <1>1. Fewer(pr, pr)
    OBVIOUS
  <1>2. /\ Fewer(ClearJob(pr, n), pr)
        /\ \A x \in Started(ClearJob(pr, n)) : ClearJob(pr, n).slots[x].node # n
    BY DEF ClearJob, StartedOn
  <1>3. \A st \in Ended :
          /\ Fewer(FinishJob(pr, n, m, st), pr)
          /\ \A x \in Started(FinishJob(pr, n, m, st)) :
                ~(pr.slots[x].node = n /\ SlotName(pr, x) = m)
    BY ZenonT(40) DEF FinishJob, EndedSlots, UnfinishedOn, Ended
  <1>4. /\ Fewer(StopSlots(pr, X), pr)
        /\ \A x \in Started(StopSlots(pr, X)) : x \notin X
    BY DEF StopSlots
  <1> QED
    BY <1>1, <1>2, <1>3, <1>4

\* No slot of a stage that is entered is started.
LEMMA EnterStageStartsNone ==
    ASSUME NEW s, NEW k
    PROVE  Started(EnterStage(s, k)) = {}
  BY DEF Started, EnterStage, FreshSlot

\* Settling a process and going to a stage start no slot.
LEMMA FewerSettled ==
    ASSUME NEW pr
    PROVE  /\ Fewer(Settle(pr), pr)
           /\ \A k : Fewer(WentTo(pr, k), pr) /\ (k # 0 => Started(WentTo(pr, k)) = {})
  <1>1. \A q : Fewer(Settle(q), q)
    BY EnterStageStartsNone, FewerOps DEF Settle, Fewer
  <1>2. ASSUME NEW k, k # 0
        PROVE  Started(WentTo(pr, k)) = {}
    BY <1>1, <1>2, EnterStageStartsNone DEF WentTo, Fewer
  <1>3. ASSUME NEW k
        PROVE  Fewer(WentTo(pr, k), pr)
    <2>1. CASE k = 0
      BY <2>1, FewerOps DEF WentTo
    <2>2. CASE k # 0
      BY <1>2, <2>2 DEF Fewer
    <2> QED
      BY <2>1, <2>2
  <1> QED
    BY <1>1, <1>2, <1>3

\* Fewer is transitive.
LEMMA FewerTransitive ==
    ASSUME NEW p1, NEW p2, NEW p3, Fewer(p1, p2), Fewer(p2, p3)
    PROVE  Fewer(p1, p3)
  BY DEF Fewer

\* The jobs of a node stay where they are.
SameJob(new, old) ==
    /\ new.state = old.state /\ new.busy = old.busy /\ new.stoping = old.stoping
    /\ new.pid = old.pid /\ new.exec = old.exec

\* Where no slot is started anew and the nodes of those still started keep
\* their jobs, the jobs stay placed.
LEMMA FewerJobs ==
    ASSUME JobsPlaced,
           DOMAIN procs' \subseteq DOMAIN procs,
           \A p \in DOMAIN procs' : Fewer(procs'[p], procs[p]),
           \A p \in DOMAIN procs' : \A x \in Started(procs'[p]) :
               procs[p].slots[x].node \in Conn =>
                   SameJob(nodes'[procs[p].slots[x].node], nodes[procs[p].slots[x].node])
    PROVE  JobsPlaced'
  <1> SUFFICES ASSUME NEW p \in DOMAIN procs'
               PROVE  Placed(p, procs[p])' /\ Spread(procs[p])'
    BY DEF JobsPlaced
  <1>1. p \in DOMAIN procs /\ Placed(p, procs[p]) /\ Spread(procs[p])
    BY DEF JobsPlaced
  <1>2. Fewer(procs'[p], procs[p])
    OBVIOUS
  <1>3. Spread(procs[p])'
    BY <1>1, <1>2 DEF Spread, Fewer, Started
  <1>4. ASSUME NEW x \in Started(procs'[p])
        PROVE  LET n == procs'[p].slots[x].node
               IN  /\ n \in Conn
                   /\ nodes'[n].state = "up" /\ nodes'[n].busy /\ ~nodes'[n].stoping
                   /\ nodes'[n].pid = p
                   /\ nodes'[n].exec = SlotName(procs'[p], x)
    <2> DEFINE n == procs[p].slots[x].node
    <2>1. /\ x \in Started(procs[p]) /\ procs'[p].slots[x].node = n
          /\ SlotName(procs'[p], x) = SlotName(procs[p], x)
      BY <1>2, <1>4 DEF Fewer
    <2>2. /\ n \in Conn
          /\ nodes[n].state = "up" /\ nodes[n].busy /\ ~nodes[n].stoping
          /\ nodes[n].pid = p /\ nodes[n].exec = SlotName(procs[p], x)
      BY <1>1, <2>1 DEF Placed, Up
    <2>3. SameJob(nodes'[n], nodes[n])
      BY <1>4, <2>2
    <2> HIDE DEF n
    <2> QED
      BY <2>1, <2>2, <2>3 DEF SameJob
  <1>5. Placed(p, procs[p])'
    BY <1>4 DEF Placed, Up, Started, SlotName, StageOf
  <1> QED
    BY <1>3, <1>5

---------------------------------------------------------------------------
(* Steps that give no stop and end no stop.                                *)

\* Channels that carry no more stops, to nodes that wait as before, keep the
\* stops in order.
LEMMA CalmStep ==
    ASSUME StopsOnce,
           \A n \in Conn : nodes'[n].state = "up" =>
               /\ Up(n)
               /\ ~nodes'[n].stoping \/ Freeing(n)' => ~nodes[n].stoping \/ Freeing(n)
               /\ Calmer(toNode'[n], toNode[n])
               /\ Calmer(toServer'[n], toServer[n])
    PROVE  StopsOnce'
  <1>1. ASSUME NEW n \in Conn, nodes'[n].state = "up"
        PROVE  /\ ~nodes'[n].stoping \/ Freeing(n)' =>
                     Quiet(toNode'[n]) /\ Quiet(toServer'[n])
               /\ Quiet(toNode'[n]) \/ Quiet(toServer'[n])
               /\ OneStop(toNode'[n]) /\ OneStop(toServer'[n])
    BY <1>1 DEF StopsOnce, Calmer
  <1> QED
    BY <1>1 DEF StopsOnce, Up, Quiet, OneStop

\* No handler is running after a step without checkProcessQueue, and one that
\* frees no node after Rescan.
LEMMA NoFreeing ==
    ASSUME \/ ~scan.on /\ UNCHANGED scan
           \/ Rescan
    PROVE  \A n : ~Freeing(n)'
  BY DEF Freeing, Rescan, Scan

\* What a handler that changes one connected node has to keep.
LEMMA OneNode ==
    ASSUME ServerTypeOK, JobsSafe, NEW n \in Conn, Up(n), NEW nd,
           nodes' = [nodes EXCEPT ![n] = nd],
           nd.state # "none",
           nd.state = "up" /\ (nd.pid # NoPid \/ nd.stoping) => nd.busy,
           nd.state = "up" /\ nodes[n].stoping => nd.stoping,
           conns' = conns,
           \A i \in Conn : i # n => link'[i] = link[i],
           ~scan.on,
           UNCHANGED scan \/ Rescan,
           \A i \in Conn : /\ nodes'[i].state = "up" =>
                                  /\ Calmer(toNode'[i], toNode[i])
                                  /\ Calmer(toServer'[i], toServer[i])
                           /\ i # n => toNode'[i] = toNode[i]
    PROVE  NodesBusy' /\ FreeingSafe' /\ StopsOnce' /\ Unused'
  <1>1. \A i : ~Freeing(i)'
    BY NoFreeing
  <1>2. \A i \in Conn : nodes'[i] = IF i = n THEN nd ELSE nodes[i]
    BY DEF ServerTypeOK
  <1>3. NodesBusy'
    BY <1>2 DEF JobsSafe, NodesBusy, Up
  <1>4. FreeingSafe'
    BY <1>1 DEF FreeingSafe
  <1>5. StopsOnce'
    BY <1>1, <1>2, CalmStep DEF JobsSafe, Up
  <1>6. Unused'
    BY <1>2 DEF JobsSafe, Unused, Up
  <1> QED
    BY <1>3, <1>4, <1>5, <1>6

\* What is received is a tail of the channel.
LEMMA ReceiveCalm ==
    ASSUME WireTypeOK, NEW n \in Conn, toServer[n] # <<>>,
           toServer' = [toServer EXCEPT ![n] = Tail(@)]
    PROVE  \A i \in Conn : Calmer(toServer'[i], toServer[i])
  BY CalmerOps DEF WireTypeOK

\* A message that is sent and is no stop keeps the channels calm.
LEMMA SentCalm ==
    ASSUME NEW chan \in [Conn -> Seq(Message)], NEW n \in Conn, NEW m, m.id # 124
    PROVE  \A i \in Conn : /\ Calmer(Sent(chan, n, m)[i], chan[i])
                           /\ i # n => Sent(chan, n, m)[i] = chan[i]
                           /\ link[n] # "open" => Sent(chan, n, m)[i] = chan[i]
  BY CalmerOps DEF Sent

\* Unchanged channels are calm.
LEMMA SameCalm ==
    ASSUME NEW chan \in [Conn -> Seq(Message)]
    PROVE  \A i \in Conn : Calmer(chan[i], chan[i])
  BY CalmerOps

\* A node whose process gives its job back keeps the jobs safe.
LEMMA GiveUpJobSafe ==
    ASSUME ServerTypeOK, WireTypeOK, JobsSafe, NEW n \in Conn, NEW m, Up(n),
           ~nodes[n].stoping, ~scan.on, Live(nodes[n].pid), GiveUpJob(n, m),
           UNCHANGED <<conns, link>>,
           \A i \in Conn : Calmer(toServer'[i], toServer[i])
    PROVE  JobsSafe'
  <1> DEFINE p == nodes[n].pid
             nd == Cleared(Failed(nodes[n], m))
  <1>1. /\ nodes' = [nodes EXCEPT ![n] = nd]
        /\ procs' = [procs EXCEPT ![p] = ClearJob(procs[p], n)]
        /\ toNode' = toNode /\ Rescan
    BY DEF GiveUpJob
  <1>2. nd.state = "up" /\ nd.pid = NoPid /\ ~nd.stoping
    <2>1. nodes[n] \in Node
      BY DEF ServerTypeOK
    <2> QED
      BY <2>1 DEF Cleared, Failed, Node, Up
  <1>3. NodesBusy' /\ FreeingSafe' /\ StopsOnce' /\ Unused'
    <2>1. \A i \in Conn : Calmer(toNode'[i], toNode[i]) /\ toNode'[i] = toNode[i]
      BY <1>1, SameCalm DEF WireTypeOK
    <2> HIDE DEF nd
    <2> QED
      BY <1>1, <1>2, <2>1, OneNode
  <1>4. JobsPlaced'
    <2>1. DOMAIN procs' = DOMAIN procs /\ p \in DOMAIN procs
      BY <1>1 DEF Live
    <2>2. \A q \in DOMAIN procs' :
             procs'[q] = IF q = p THEN ClearJob(procs[p], n) ELSE procs[q]
      BY <1>1
    <2>3. \A q \in DOMAIN procs' : Fewer(procs'[q], procs[q])
      BY <2>2, FewerOps
    <2>4. ASSUME NEW q \in DOMAIN procs', NEW x \in Started(procs'[q])
          PROVE  procs[q].slots[x].node # n
      <3>1. x \in Started(procs[q]) /\ procs'[q].slots[x].node = procs[q].slots[x].node
        BY <2>3, <2>4 DEF Fewer
      <3>2. CASE q = p
        BY <2>2, <2>4, <3>1, <3>2, FewerOps, SMTT(20)
      <3>3. CASE q # p
        BY <2>1, <3>1, <3>3 DEF JobsSafe, JobsPlaced, Placed
      <3> QED
        BY <3>2, <3>3
    <2>5. \A i \in Conn : i # n => SameJob(nodes'[i], nodes[i])
      BY <1>1 DEF SameJob, ServerTypeOK
    <2> QED
      BY <2>1, <2>3, <2>4, <2>5, FewerJobs DEF JobsSafe
  <1> QED
    BY <1>3, <1>4 DEF JobsSafe

\* Jobs stay placed where processes and jobs stay.
LEMMA SameJobs ==
    ASSUME JobsPlaced, procs' = procs,
           \A i \in Conn : SameJob(nodes'[i], nodes[i])
    PROVE  JobsPlaced'
  BY FewerJobs, FewerOps

\* A handler that changes no job and sends no stop keeps the jobs safe.
LEMMA SameJobsSafe ==
    ASSUME JobsSafe, ~scan.on, UNCHANGED scan \/ Rescan,
           procs' = procs, conns' = conns, link' = link,
           \A i \in Conn : /\ SameJob(nodes'[i], nodes[i])
                           /\ Calmer(toNode'[i], toNode[i])
                           /\ Calmer(toServer'[i], toServer[i])
                           /\ ~Up(i) => toNode'[i] = toNode[i]
    PROVE  JobsSafe'
  <1>1. \A i : ~Freeing(i)'
    BY NoFreeing
  <1>2. JobsPlaced'
    BY SameJobs DEF JobsSafe
  <1>3. NodesBusy'
    BY DEF JobsSafe, NodesBusy, SameJob, Up
  <1>4. FreeingSafe'
    BY <1>1 DEF FreeingSafe
  <1>5. StopsOnce'
    BY <1>1, CalmStep DEF JobsSafe, SameJob, Up
  <1>6. Unused'
    BY DEF JobsSafe, Unused, SameJob, Up
  <1> QED
    BY <1>2, <1>3, <1>4, <1>5, <1>6 DEF JobsSafe

\* allInputParametersSent sends no stop.
LEMMA SendInputCalm ==
    ASSUME WireTypeOK, NEW n \in Conn, SendInputParameters(n) \/ UNCHANGED toNode
    PROVE  \A i \in Conn : /\ Calmer(toNode'[i], toNode[i])
                           /\ i # n => toNode'[i] = toNode[i]
  <1>1. toNode \in [Conn -> Seq(Message)]
    BY DEF WireTypeOK
  <1>2. \A m : Msg(121, m, 1, NoJob).id # 124
    BY DEF Msg
  <1> QED
    BY <1>1, <1>2, SentCalm, SameCalm DEF SendInputParameters, ToNode

\* The handlers that neither end a job nor lose a node keep the jobs safe.
LEMMA AnswerSafe ==
    ASSUME ServerTypeOK, WireTypeOK, JobsSafe, NEW n \in Conn,
           \/ IgnoreWhileStopping(n)
           \/ ReceiveAuthorizationRequest(n)
           \/ ReceiveModulesListRequest(n)
           \/ CheckPrepareForStartModule(n)
           \/ CheckInputParametersSending(n)
           \/ CheckModuleStarting(n)
    PROVE  JobsSafe'
  <1>1. PICK id \in {100, 110, 120, 121, 122, 123} : Receives(n, id)
    BY DEF IgnoreWhileStopping, ReceiveAuthorizationRequest,
           ReceiveModulesListRequest, CheckPrepareForStartModule,
           CheckInputParametersSending, CheckModuleStarting, Hears
  <1>2. /\ Up(n) /\ ~scan.on
        /\ UNCHANGED <<conns, link>>
        /\ \A i \in Conn : Calmer(toServer'[i], toServer[i])
    BY <1>1, ReceiveCalm DEF Receives, Idle
  <1>3. \A i \in Conn : Calmer(toNode[i], toNode[i])
    BY DEF Calmer
  <1>4. UNCHANGED nodes => \A i \in Conn : SameJob(nodes'[i], nodes[i])
    BY DEF SameJob
  <1>5. ASSUME Ignore
        PROVE  JobsSafe'
    BY <1>2, <1>3, <1>4, <1>5, SameJobsSafe DEF Ignore
  <1>6. ASSUME NEW m, ~nodes[n].stoping, Live(nodes[n].pid), GiveUpJob(n, m)
        PROVE  JobsSafe'
    BY <1>2, <1>6, GiveUpJobSafe
  <1>7. CASE IgnoreWhileStopping(n)
    BY <1>5, <1>7 DEF IgnoreWhileStopping
  <1>8. CASE ReceiveAuthorizationRequest(n)
    <2>1. Msg(100, NoModule, 1, NoJob).id # 124
      BY DEF Msg
    <2>2. \A i \in Conn : /\ Calmer(toNode'[i], toNode[i])
                          /\ i # n => toNode'[i] = toNode[i]
      BY <1>8, <2>1, SentCalm, SMTT(20) DEF ReceiveAuthorizationRequest, ToNode, WireTypeOK
    <2>3. UNCHANGED <<nodes, procs, scan>>
      BY <1>8 DEF ReceiveAuthorizationRequest
    <2> QED
      BY <1>2, <1>4, <2>2, <2>3, SameJobsSafe
  <1>9. CASE ReceiveModulesListRequest(n)
    <2>1. \A i \in Conn : SameJob(nodes'[i], nodes[i])
      BY <1>9 DEF ReceiveModulesListRequest, Listed, SameJob, ServerTypeOK, Node
    <2>2. Rescan /\ UNCHANGED <<procs, toNode>>
      BY <1>9 DEF ReceiveModulesListRequest
    <2> QED
      BY <1>2, <1>3, <2>1, <2>2, SameJobsSafe
  <1>10. CASE CheckPrepareForStartModule(n)
    <2>1. CASE Ignore
      BY <1>5, <2>1
    <2>2. CASE \E m : Live(nodes[n].pid) /\ GiveUpJob(n, m)
      BY <1>6, <1>10, <2>2 DEF CheckPrepareForStartModule, Hears
    <2>3. CASE /\ \E m : nodes' = [nodes EXCEPT ![n].sending = m]
               /\ UNCHANGED toNode \/ SendInputParameters(n)
               /\ UNCHANGED <<procs, scan>>
      <3>1. \A i \in Conn : SameJob(nodes'[i], nodes[i])
        BY <2>3 DEF SameJob, ServerTypeOK, Node
      <3>2. \A i \in Conn : /\ Calmer(toNode'[i], toNode[i])
                            /\ i # n => toNode'[i] = toNode[i]
        BY <2>3, SendInputCalm
      <3> QED
        BY <1>2, <2>3, <3>1, <3>2, SameJobsSafe
    <2> QED
      BY <1>10, <2>1, <2>2, <2>3 DEF CheckPrepareForStartModule
  <1>11. CASE CheckInputParametersSending(n)
    BY <1>5, <1>6, <1>11 DEF CheckInputParametersSending, Hears
  <1>12. CASE CheckModuleStarting(n)
    BY <1>5, <1>6, <1>12 DEF CheckModuleStarting, Hears
  <1> QED
    BY <1>7, <1>8, <1>9, <1>10, <1>11, <1>12

---------------------------------------------------------------------------
(* Steps that end a job or stop modules.                                   *)

\* A request to stop goes to the node of a started slot.
LEMMA OrdersHitStarted ==
    ASSUME NEW pr, NEW X
    PROVE  /\ \A o \in StopOrders(pr, X) :
                 \E x \in X \intersect Started(pr) :
                     o = <<pr.slots[x].node, SlotName(pr, x), x>>
           /\ \A o \in FreeOrders(pr) :
                 \E x \in Started(pr) : o = <<pr.slots[x].node, SlotName(pr, x), x>>
  BY DEF StopOrders, FreeOrders, Orders

\* The orders of a handler of the job that ends on node n go to the nodes of
\* the process's other started slots; one that goes to a stage leaves none
\* started.
LEMMA EndOrdersHitStarted ==
    ASSUME NEW pr, NEW n, NEW m, NEW st \in Ended, NEW X, NEW k, NEW fb
    PROVE  LET ended == FinishJob(pr, n, m, st)
           IN  \A o \in EndOrders(ended, X, k, n, fb) :
                  \E x \in Started(ended) :
                     /\ o = <<pr.slots[x].node, SlotName(pr, x), x>>
                     /\ k = 0 => x \in X
  <1> DEFINE ended == FinishJob(pr, n, m, st)
             asked == StopSlots(ended, X)
  <1>1. Fewer(ended, pr) /\ Fewer(asked, ended)
    BY FewerOps
  <1> HIDE DEF ended, asked
  <1>2. ASSUME NEW o \in StopOrders(ended, X)
        PROVE  \E x \in Started(ended) :
                  o = <<pr.slots[x].node, SlotName(pr, x), x>> /\ x \in X
    <2>1. PICK x \in X \intersect Started(ended) :
             o = <<ended.slots[x].node, SlotName(ended, x), x>>
      BY <1>2, OrdersHitStarted
    <2>2. o = <<pr.slots[x].node, SlotName(pr, x), x>>
      BY <1>1, <2>1 DEF Fewer
    <2> QED
      BY <2>1, <2>2
  <1>3. ASSUME NEW o \in FreeOrders(asked)
        PROVE  \E x \in Started(ended) : o = <<pr.slots[x].node, SlotName(pr, x), x>>
    <2>1. PICK x \in Started(asked) :
             o = <<asked.slots[x].node, SlotName(asked, x), x>>
      BY <1>3, OrdersHitStarted
    <2>2. /\ x \in Started(ended)
          /\ asked.slots[x].node = ended.slots[x].node
          /\ SlotName(asked, x) = SlotName(ended, x)
      BY <1>1, <2>1 DEF Fewer
    <2>3. o = <<pr.slots[x].node, SlotName(pr, x), x>>
      BY <1>1, <2>1, <2>2 DEF Fewer
    <2> QED
      BY <2>2, <2>3
  <1> QED
    BY <1>2, <1>3 DEF EndOrders, ended, asked

\* At most one order goes to each node.
Single(orders) ==
    \A o, q \in orders : /\ o[3] \in Nat \X Nat
                         /\ o[1] = q[1] => o[2] = q[2] /\ o[3] = q[3]

\* The orders for started slots of a process whose slots are on nodes of their
\* own are such.
LEMMA SpreadSingle ==
    ASSUME NEW pr, IsProcess(pr), Spread(pr), NEW orders,
           \A o \in orders : \E x \in Started(pr) :
              o = <<pr.slots[x].node, SlotName(pr, x), x>>
    PROVE  Single(orders)
  <1>1. \A x \in Started(pr) : x \in Nat \X Nat
    BY SlotsAreFinite DEF Started
  <1>2. ASSUME NEW o \in orders, NEW q \in orders
        PROVE  /\ o[3] \in Nat \X Nat
               /\ o[1] = q[1] => o[2] = q[2] /\ o[3] = q[3]
    <2>1. PICK x \in Started(pr) : o = <<pr.slots[x].node, SlotName(pr, x), x>>
      OBVIOUS
    <2>2. PICK y \in Started(pr) : q = <<pr.slots[y].node, SlotName(pr, y), y>>
      OBVIOUS
    <2>3. /\ o[1] = pr.slots[x].node /\ o[2] = SlotName(pr, x) /\ o[3] = x
          /\ q[1] = pr.slots[y].node /\ q[2] = SlotName(pr, y) /\ q[3] = y
      BY <2>1, <2>2
    <2>4. pr.slots[x].node = pr.slots[y].node => x = y
      BY DEF Spread
    <2> QED
      BY <1>1, <2>3, <2>4
  <1> QED
    BY <1>2 DEF Single

\* The orders of a job that ends are such.
LEMMA EndOrdersSingle ==
    ASSUME ServerTypeOK, JobsPlaced, NEW p \in DOMAIN procs, NEW n, NEW m,
           NEW st \in Ended, NEW X, NEW k, NEW fb
    PROVE  Single(EndOrders(FinishJob(procs[p], n, m, st), X, k, n, fb))
  <1> DEFINE pr == procs[p]
             ended == FinishJob(pr, n, m, st)
             orders == EndOrders(ended, X, k, n, fb)
  <1>1. IsProcess(pr) /\ Spread(pr)
    BY DEF ServerTypeOK, JobsPlaced
  <1>2. Fewer(ended, pr)
    BY FewerOps
  <1>3. \A o \in orders : \E x \in Started(ended) :
           o = <<pr.slots[x].node, SlotName(pr, x), x>>
    BY EndOrdersHitStarted
  <1> HIDE DEF pr, ended, orders
  <1>4. \A o \in orders : \E x \in Started(pr) :
           o = <<pr.slots[x].node, SlotName(pr, x), x>>
    BY <1>2, <1>3 DEF Fewer
  <1>5. Single(orders)
    BY <1>1, <1>4, SpreadSingle
  <1> QED
    BY <1>5 DEF orders, ended, pr

\* So are those that free the nodes of a process.
LEMMA FreeOrdersSingle ==
    ASSUME ServerTypeOK, JobsPlaced, NEW p \in DOMAIN procs
    PROVE  Single(FreeOrders(procs[p]))
  <1>1. IsProcess(procs[p]) /\ Spread(procs[p])
    BY DEF ServerTypeOK, JobsPlaced
  <1>2. \A o \in FreeOrders(procs[p]) : \E x \in Started(procs[p]) :
           o = <<procs[p].slots[x].node, SlotName(procs[p], x), x>>
    BY OrdersHitStarted
  <1> QED
    BY <1>1, <1>2, SpreadSingle

\* One request to every node that has an order.
StoppingEach(chan, orders) ==
    [n \in Conn |->
        IF Ordered(n, orders) /\ link[n] = "open"
        THEN Append(chan[n], Msg(124, (CHOOSE o \in orders : o[1] = n)[2], 1, NoJob))
        ELSE chan[n]]

\* Single orders make one request each.
LEMMA StoppingSingle ==
    ASSUME NEW chan \in [Conn -> Seq(Message)], NEW orders, Single(orders)
    PROVE  Stopping(chan, orders) = StoppingEach(chan, orders)
  <1>1. ASSUME NEW n \in Conn, Ordered(n, orders)
        PROVE  chan[n] \o StopRequests(orders, n)
                 = Append(chan[n], Msg(124, (CHOOSE o \in orders : o[1] = n)[2], 1, NoJob))
    <2> DEFINE due == { o \in orders : o[1] = n }
               q == CHOOSE o \in orders : o[1] = n
               x == q[3]
               slots == InSlotOrder({ o[3] : o \in due })
    <2>1. q \in orders /\ q[1] = n
      BY <1>1 DEF Ordered
    <2>2. \A o \in due : o[2] = q[2] /\ o[3] = x
      <3> HIDE DEF q
      <3> QED
        BY <2>1 DEF Single
    <2>3. q \in due /\ x \in Nat \X Nat
      <3> HIDE DEF q
      <3> QED
        BY <2>1 DEF Single
    <2>4. { o[3] : o \in due } = {x}
      <3> HIDE DEF q, x, due
      <3> QED
        BY <2>2, <2>3
    <2>5. slots = <<x>>
      <3> HIDE DEF x
      <3> QED
        BY <2>3, <2>4, InSlotOrderOne
    <2> DEFINE c == CHOOSE o \in due : o[3] = x
               request(y) == Msg(124, (CHOOSE o \in due : o[3] = y)[2], 1, NoJob)
    <2>6. StopRequests(orders, n) = [i \in DOMAIN slots |-> request(slots[i])]
      BY DEF StopRequests
    <2>7. request(x) = Msg(124, c[2], 1, NoJob)
      OBVIOUS
    <2> HIDE DEF slots, q, due, x, c, request
    <2>8. c[2] = q[2]
      <3>1. c \in due
        BY <2>2, <2>3 DEF c
      <3> QED
        BY <2>2, <3>1
    <2>9. StopRequests(orders, n) = [i \in {1} |-> request(x)]
      BY <2>5, <2>6
    <2>10. StopRequests(orders, n) = <<Msg(124, q[2], 1, NoJob)>>
      <3> DEFINE msg == Msg(124, q[2], 1, NoJob)
      <3>1. StopRequests(orders, n) = [i \in {1} |-> msg]
        BY <2>7, <2>8, <2>9
      <3> HIDE DEF msg
      <3>2. [i \in {1} |-> msg] = <<msg>>
        OBVIOUS
      <3> QED
        BY <3>1, <3>2 DEF msg
    <2> DEFINE msg == Msg(124, q[2], 1, NoJob)
    <2> HIDE DEF msg
    <2>11. \A s \in Seq(Message) : s \o <<msg>> = Append(s, msg)
      OBVIOUS
    <2>12. chan[n] \o <<msg>> = Append(chan[n], msg)
      BY <2>11
    <2> QED
      BY <2>10, <2>12 DEF msg, q
  <1> HIDE DEF StopRequests
  <1> QED
    BY <1>1 DEF Stopping, StoppingEach

\* A channel a stop is sent on.
LEMMA StoppingOps ==
    ASSUME NEW chan \in [Conn -> Seq(Message)], NEW orders, NEW i \in Conn
    PROVE  /\ ~Ordered(i, orders) => Stopping(chan, orders)[i] = chan[i]
           /\ link[i] # "open" => Stopping(chan, orders)[i] = chan[i]
           /\ Single(orders) /\ Quiet(chan[i]) => OneStop(Stopping(chan, orders)[i])
  <1>1. /\ ~Ordered(i, orders) => Stopping(chan, orders)[i] = chan[i]
        /\ link[i] # "open" => Stopping(chan, orders)[i] = chan[i]
    BY DEF Stopping
  <1>2. Quiet(chan[i]) => OneStop(StoppingEach(chan, orders)[i])
    <2>1. Quiet(chan[i]) => OneStop(chan[i])
      BY DEF Quiet, OneStop
    <2>2. \A m : Quiet(chan[i]) => OneStop(Append(chan[i], m))
      BY StopOps
    <2> QED
      BY <2>1, <2>2 DEF StoppingEach
  <1>3. Single(orders) => Stopping(chan, orders) = StoppingEach(chan, orders)
    BY StoppingSingle
  <1> QED
    BY <1>1, <1>2, <1>3

\* The node whose job ends is left by every job and by every stop, and the
\* stops the plan's handlers ask for go to the nodes of other jobs of the
\* process: the jobs stay safe.
LEMMA EndJobSafe ==
    ASSUME ServerTypeOK, WireTypeOK, JobsSafe, NEW n \in Conn, NEW m,
           NEW st \in Ended, NEW fb \in BOOLEAN, Up(n), ~scan.on,
           Live(nodes[n].pid), EndJob(n, m, st, fb), fault' = "none",
           UNCHANGED <<conns, link>>,
           \A x \in Started(FinishJob(procs[nodes[n].pid], n, m, st)) :
               procs[nodes[n].pid].slots[x].node # n,
           \A i \in Conn : Calmer(toServer'[i], toServer[i]),
           Quiet(toNode[n]) /\ Quiet(toServer'[n])
    PROVE  JobsSafe'
  <1> DEFINE p == nodes[n].pid
             pr == procs[p]
             ended == FinishJob(pr, n, m, st)
  <1>1. PICK X \in IF EndedSlots(pr, n, m) # {} THEN PluginStops(pr) ELSE {{}},
             k \in IF EndedSlots(pr, n, m) # {} THEN PluginGotos(pr) ELSE {0} :
             LET asked == StopSlots(ended, X)
                 next == WentTo(asked, k)
                 orders == EndOrders(ended, X, k, n, fb)
             IN  /\ nodes' = [i \in Conn |->
                                LET nd == MarkStoping(nodes[i], orders, i)
                                IN  IF i = n THEN Released(nd, Completes(next), fb)
                                             ELSE nd]
                 /\ toNode' = Stopping(toNode, orders)
                 /\ \/ /\ Completes(next)
                       /\ procs' = Without(p)
                       /\ Scan(TRUE, IF fb THEN 0 ELSE n)
                    \/ /\ ~Completes(next)
                       /\ procs' = [procs EXCEPT ![p] = Settle(next)]
                       /\ Rescan
    BY ZenonT(40) DEF EndJob, EndOrders, Halted
  <1> DEFINE asked == StopSlots(ended, X)
             next == WentTo(asked, k)
             orders == EndOrders(ended, X, k, n, fb)
  <1>2. /\ \A q \in DOMAIN procs : Placed(q, procs[q]) /\ Spread(procs[q])
        /\ p \in DOMAIN procs
        /\ p # NoPid
    BY DEF JobsSafe, JobsPlaced, Live, ServerTypeOK, NoPid
  <1>3. Fewer(ended, pr) /\ Fewer(asked, ended) /\ Fewer(Settle(next), asked)
    <2>1. Fewer(ended, pr) /\ Fewer(asked, ended)
      BY FewerOps
    <2>2. Fewer(next, asked) /\ Fewer(Settle(next), next)
      BY FewerSettled
    <2> HIDE DEF asked, next
    <2> QED
      BY <2>1, <2>2, FewerTransitive
  <1>4. /\ \A x \in Started(asked) : x \notin X
        /\ \A x \in Started(ended) : pr.slots[x].node # n
    BY FewerOps
  <1>5. k # 0 => Started(Settle(next)) = {}
    <2>1. /\ k # 0 => Started(next) = {}
          /\ Fewer(Settle(next), next)
      BY FewerSettled
    <2> QED
      BY <2>1 DEF Fewer
  <1>6. k = 0 => Fewer(Settle(next), asked) /\ next = asked
    BY FewerSettled DEF WentTo
  <1>7. ASSUME NEW o \in orders
        PROVE  \E x \in Started(ended) : /\ o[1] = pr.slots[x].node
                                         /\ k = 0 => x \in X
    <2>1. PICK x \in Started(ended) : /\ o = <<pr.slots[x].node, SlotName(pr, x), x>>
                                      /\ k = 0 => x \in X
      BY <1>7, EndOrdersHitStarted
    <2>2. o[1] = pr.slots[x].node
      BY <2>1
    <2> QED
      BY <2>1, <2>2
  <1>8. ASSUME NEW i \in Conn, Ordered(i, orders)
        PROVE  /\ i # n /\ Up(i) /\ nodes[i].busy /\ ~nodes[i].stoping
               /\ nodes[i].pid = p
               /\ \E y \in Started(ended) : /\ i = pr.slots[y].node
                                            /\ k = 0 => y \in X
    <2>1. PICK x \in Started(ended) : i = pr.slots[x].node /\ (k = 0 => x \in X)
      BY <1>7, <1>8 DEF Ordered
    <2>2. x \in Started(pr)
      BY <1>3 DEF Fewer
    <2> QED
      BY <1>2, <2>1, <2>2 DEF Placed
  <1>9. \A i \in Conn : nodes'[i] = LET nd == MarkStoping(nodes[i], orders, i)
                                   IN  IF i = n THEN Released(nd, Completes(next), fb)
                                                ELSE nd
    BY <1>1
  <1>10. nodes'[n] = Released(nodes[n], Completes(next), fb)
    <2>1. ~Ordered(n, orders)
      BY <1>8
    <2> HIDE DEF orders, next
    <2> QED
      BY <1>9, <2>1 DEF MarkStoping
  <1>11. \A i \in Conn : i # n =>
            /\ ~Ordered(i, orders) => nodes'[i] = nodes[i]
            /\ Ordered(i, orders) => nodes'[i] = [nodes[i] EXCEPT !.stoping = TRUE]
    BY <1>9 DEF MarkStoping
  <1>12. nodes \in [Conn -> Node] /\ toNode \in [Conn -> Seq(Message)]
    BY DEF ServerTypeOK, WireTypeOK
  <1>13. /\ toNode' = Stopping(toNode, orders)
         /\ \/ /\ Completes(next)
               /\ procs' = Without(p)
               /\ Scan(TRUE, IF fb THEN 0 ELSE n)
            \/ /\ ~Completes(next)
               /\ procs' = [procs EXCEPT ![p] = Settle(next)]
               /\ Rescan
    BY <1>1
  <1>23. Single(orders)
    BY <1>2, EndOrdersSingle DEF JobsSafe
  <1> HIDE DEF ended, asked, next, orders
  <1>14. /\ procs' = Without(p) \/ procs' = [procs EXCEPT ![p] = Settle(next)]
         /\ \A q \in DOMAIN procs' : q \in DOMAIN procs
         /\ \A q \in DOMAIN procs' :
               procs'[q] = procs[q] \/ (q = p /\ procs'[q] = Settle(next))
    BY <1>13, <1>2 DEF Without
  <1>15. \A i \in Conn : ~Ordered(i, orders) => toNode'[i] = toNode[i]
    <2>1. toNode' = Stopping(toNode, orders)
      BY <1>13
    <2> QED
      BY <2>1 DEF Stopping
  <1>16. JobsPlaced'
    <2>1. \A q \in DOMAIN procs' : Fewer(procs'[q], procs[q])
      <3>1. Fewer(Settle(next), pr)
        BY <1>3, FewerTransitive
      <3> QED
        BY <1>14, <3>1, FewerOps
    <2>2. ASSUME NEW q \in DOMAIN procs', NEW x \in Started(procs'[q])
          PROVE  LET i == procs[q].slots[x].node
                 IN  i \in Conn => i # n /\ ~Ordered(i, orders)
      <3> DEFINE i == procs[q].slots[x].node
      <3>1. x \in Started(procs[q]) /\ q \in DOMAIN procs
        BY <1>14, <2>1, <2>2 DEF Fewer
      <3>2. i \in Conn /\ nodes[i].pid = q
        BY <1>2, <3>1 DEF Placed
      <3>3. CASE q # p
        BY <1>8, <3>2, <3>3
      <3>4. CASE q = p
        <4>1. procs'[p] = Settle(next)
          BY <1>13, <1>2, <2>2, <3>4 DEF Without
        <4>2. k = 0 /\ x \in Started(asked) /\ x \in Started(ended) /\ x \notin X
          BY <1>3, <1>4, <1>5, <2>2, <3>4, <4>1 DEF Fewer
        <4>3. i # n
          BY <1>4, <3>4, <4>2
        <4>4. ASSUME Ordered(i, orders)
              PROVE  FALSE
          <5>1. PICK y \in Started(ended) : i = pr.slots[y].node /\ y \in X
            BY <1>8, <3>2, <4>2, <4>4
          <5>2. y \in Started(pr) /\ x \in Started(pr)
            BY <1>3, <3>1, <3>4, <5>1 DEF Fewer
          <5> QED
            BY <1>2, <3>4, <4>2, <5>1, <5>2 DEF Spread
        <4> QED
          BY <4>3, <4>4
      <3> QED
        BY <3>3, <3>4
    <2>3. \A i \in Conn : i # n /\ ~Ordered(i, orders) => SameJob(nodes'[i], nodes[i])
      BY <1>11 DEF SameJob
    <2> QED
      BY <1>14, <2>1, <2>2, <2>3, FewerJobs DEF JobsSafe
  <1>17. /\ nodes'[n].state = "up"
         /\ \/ nodes'[n].pid = NoPid /\ ~nodes'[n].stoping
            \/ nodes'[n] = nodes[n]
         /\ Completes(next) /\ ~fb => nodes'[n] = nodes[n]
    BY <1>10, <1>12 DEF Released, Cleared, Node, Up
  <1>18. NodesBusy'
    <2>1. ASSUME NEW i \in Conn, nodes'[i].state = "up",
                 nodes'[i].pid # NoPid \/ nodes'[i].stoping
          PROVE  nodes'[i].busy
      <3>1. CASE i = n
        BY <1>17, <2>1, <3>1 DEF JobsSafe, NodesBusy, Up
      <3>2. CASE i # n /\ Ordered(i, orders)
        <4>1. nodes[i] \in Node /\ nodes[i].busy
          BY <1>8, <1>12, <3>2
        <4>2. nodes'[i] = [nodes[i] EXCEPT !.stoping = TRUE]
          BY <1>11, <3>2
        <4> QED
          BY <4>1, <4>2 DEF Node
      <3>3. CASE i # n /\ ~Ordered(i, orders)
        BY <1>11, <2>1, <3>3 DEF JobsSafe, NodesBusy, Up
      <3> QED
        BY <3>1, <3>2, <3>3
    <2> QED
      BY <2>1 DEF NodesBusy, Up
  <1>19. \A i \in Conn : Freeing(i)' =>
            i = n /\ Completes(next) /\ ~fb /\ procs' = Without(p)
    <2>1. n # 0 /\ 0 \notin Conn
      BY DEF Conn
    <2> QED
      BY <1>13, <2>1 DEF Freeing, Rescan, Scan
  <1>20. FreeingSafe'
    <2>1. nodes[n].busy
      BY <1>2 DEF JobsSafe, NodesBusy
    <2>2. ASSUME NEW i \in Conn, Freeing(i)'
          PROVE  nodes'[i].busy /\ nodes'[i].pid \notin DOMAIN procs'
      BY <1>17, <1>19, <2>1, <2>2 DEF Without
    <2> QED
      BY <2>2 DEF FreeingSafe, Live
  <1>21. StopsOnce'
    <2>1. ASSUME NEW i \in Conn, nodes'[i].state = "up"
          PROVE  /\ ~nodes'[i].stoping \/ Freeing(i)' =>
                       Quiet(toNode'[i]) /\ Quiet(toServer'[i])
                 /\ Quiet(toNode'[i]) \/ Quiet(toServer'[i])
                 /\ OneStop(toNode'[i]) /\ OneStop(toServer'[i])
      <3>1. toNode' = Stopping(toNode, orders)
        BY <1>13
      <3>2. \A s : Quiet(s) => OneStop(s)
        BY DEF Quiet, OneStop
      <3>3. CASE i = n
        <4>1. toNode'[n] = toNode[n]
          BY <1>8, <1>15
        <4> QED
          BY <3>2, <3>3, <4>1
      <3>4. CASE i # n /\ Ordered(i, orders)
        <4>1. Quiet(toNode[i]) /\ Quiet(toServer[i])
          BY <1>8, <3>4 DEF JobsSafe, StopsOnce
        <4>2. OneStop(toNode'[i]) /\ Quiet(toServer'[i])
          BY <1>12, <1>23, <3>1, <4>1, StoppingOps DEF Calmer
        <4>3. nodes'[i].stoping /\ ~Freeing(i)'
          <5>1. nodes[i] \in Node
            BY <1>12
          <5>2. nodes'[i] = [nodes[i] EXCEPT !.stoping = TRUE]
            BY <1>11, <3>4
          <5> QED
            BY <1>19, <3>4, <5>1, <5>2 DEF Node
        <4> QED
          BY <3>2, <4>2, <4>3
      <3>5. CASE i # n /\ ~Ordered(i, orders)
        <4>1. toNode'[i] = toNode[i] /\ nodes'[i] = nodes[i] /\ ~Freeing(i)'
          BY <1>11, <1>19, <1>15, <3>5
        <4> QED
          BY <2>1, <4>1 DEF JobsSafe, StopsOnce, Up, Calmer
      <3> QED
        BY <3>3, <3>4, <3>5
    <2> QED
      BY <2>1 DEF StopsOnce, Up, Quiet, OneStop
  <1>22. Unused'
    <2>1. ASSUME NEW i \in Conn, i > conns
          PROVE  nodes'[i] = nodes[i] /\ toNode'[i] = toNode[i]
      <3>1. i # n /\ ~Ordered(i, orders)
        BY <1>8, <2>1 DEF JobsSafe, Unused, Up
      <3> QED
        BY <1>11, <1>15, <3>1
    <2> QED
      BY <2>1 DEF JobsSafe, Unused
  <1> QED
    BY <1>16, <1>18, <1>20, <1>21, <1>22 DEF JobsSafe

\* Where the node of no started slot changes and no slot is started, the jobs
\* stay placed.
LEMMA NodeWithoutJob ==
    ASSUME ServerTypeOK, JobsPlaced, NEW n \in Conn,
           ~Up(n) \/ nodes[n].stoping \/ ~Live(nodes[n].pid),
           procs' = procs,
           \A i \in Conn : i # n => SameJob(nodes'[i], nodes[i])
    PROVE  JobsPlaced'
  <1>1. \A p \in DOMAIN procs : \A x \in Started(procs[p]) : procs[p].slots[x].node # n
    BY DEF JobsPlaced, Placed, Live
  <1> QED
    BY <1>1, FewerJobs, FewerOps

\* A node that leaves is forgotten by every process.
LEMMA ForgottenSafe ==
    ASSUME JobsPlaced, NEW n \in Conn, procs' = Forgotten(n),
           \A i \in Conn : i # n => SameJob(nodes'[i], nodes[i])
    PROVE  JobsPlaced'
  <1>1. /\ DOMAIN procs' = DOMAIN procs
        /\ \A p \in DOMAIN procs' : procs'[p] = ClearJob(procs[p], n)
    BY DEF Forgotten
  <1>2. \A p \in DOMAIN procs' : /\ Fewer(procs'[p], procs[p])
                                 /\ \A x \in Started(procs'[p]) :
                                       procs'[p].slots[x].node # n
    <2>1. \A p : /\ Fewer(ClearJob(procs[p], n), procs[p])
                 /\ \A x \in Started(ClearJob(procs[p], n)) :
                       ClearJob(procs[p], n).slots[x].node # n
      BY FewerOps
    <2> QED
      BY <1>1, <2>1
  <1>3. \A p \in DOMAIN procs' : \A x \in Started(procs'[p]) :
           procs[p].slots[x].node # n
    BY <1>2 DEF Fewer
  <1> QED
    BY <1>1, <1>2, <1>3, FewerJobs

\* A report that a module has ended keeps the jobs safe.
LEMMA ModuleExecutionEndedSafe ==
    ASSUME ServerTypeOK, WireTypeOK, JobsSafe, "outputLost" \notin May,
           NEW n \in Conn, ModuleExecutionEnded(n), fault' = "none"
    PROVE  JobsSafe'
  <1> DEFINE m == Head(toServer[n]).name
             pr == procs[nodes[n].pid]
  <1>1. /\ Up(n) /\ ~scan.on /\ ~nodes[n].stoping
        /\ UNCHANGED <<conns, link>>
        /\ toServer[n] # <<>> /\ toServer' = [toServer EXCEPT ![n] = Tail(@)]
    BY DEF ModuleExecutionEnded, Hears, Receives, Idle
  <1>2. \A i \in Conn : Calmer(toServer'[i], toServer[i])
    BY <1>1, ReceiveCalm
  <1>3. CASE Ignore
    <2>1. \A i \in Conn : SameJob(nodes'[i], nodes[i])
      BY <1>3 DEF Ignore, SameJob
    <2>2. \A i \in Conn : Calmer(toNode'[i], toNode[i]) /\ toNode'[i] = toNode[i]
      BY <1>3, SameCalm DEF Ignore, WireTypeOK
    <2> QED
      BY <1>1, <1>2, <1>3, <2>1, <2>2, SameJobsSafe DEF Ignore
  <1>4. CASE Live(nodes[n].pid) /\ GiveUpJob(n, m)
    BY <1>1, <1>2, <1>4, GiveUpJobSafe
  <1>5. CASE /\ m = nodes[n].exec /\ Live(nodes[n].pid)
             /\ \E st \in Ended : EndJob(n, m, st, FALSE)
    <2>1. PICK st \in Ended : EndJob(n, m, st, FALSE)
      BY <1>5
    <2>2. Placed(nodes[n].pid, pr)
      BY <1>5 DEF JobsSafe, JobsPlaced, Live
    <2>3. ASSUME NEW x \in Started(FinishJob(pr, n, m, st))
          PROVE  pr.slots[x].node # n
      <3>1. x \in Started(pr) /\ ~(pr.slots[x].node = n /\ SlotName(pr, x) = m)
        <4>1. /\ Fewer(FinishJob(pr, n, m, st), pr)
              /\ \A y \in Started(FinishJob(pr, n, m, st)) :
                    ~(pr.slots[y].node = n /\ SlotName(pr, y) = m)
          BY FewerOps
        <4> QED
          BY <2>3, <4>1 DEF Fewer
      <3> QED
        BY <1>5, <2>2, <3>1 DEF Placed
    <2>4. Quiet(toNode[n]) /\ Quiet(toServer'[n])
      BY <1>1, <1>2 DEF JobsSafe, StopsOnce, Calmer
    <2> HIDE DEF m
    <2> QED
      BY <1>1, <1>2, <1>5, <2>1, <2>3, <2>4, EndJobSafe
  <1> QED
    BY <1>3, <1>4, <1>5 DEF ModuleExecutionEnded, Ended

\* The answer to a stop keeps the jobs safe.
LEMMA CheckModuleStopingSafe ==
    ASSUME ServerTypeOK, WireTypeOK, JobsSafe,
           NEW n \in Conn, CheckModuleStoping(n), fault' = "none"
    PROVE  JobsSafe'
  <1> DEFINE m == Head(toServer[n]).name
             pr == procs[nodes[n].pid]
  <1>1. /\ Up(n) /\ ~scan.on
        /\ UNCHANGED <<conns, link>>
        /\ toServer[n] # <<>> /\ toServer' = [toServer EXCEPT ![n] = Tail(@)]
        /\ Head(toServer[n]).id = 124
    BY DEF CheckModuleStoping, Receives, Idle
  <1>2. \A i \in Conn : Calmer(toServer'[i], toServer[i])
    BY <1>1, ReceiveCalm
  <1>3. ~Quiet(toServer[n]) /\ Quiet(toServer'[n])
    BY <1>1, StopOps DEF JobsSafe, StopsOnce, WireTypeOK
  <1>4. Quiet(toNode[n]) /\ nodes[n].stoping
    BY <1>1, <1>3 DEF JobsSafe, StopsOnce
  <1>5. CASE Live(nodes[n].pid)
    <2>1. PICK fb \in BOOLEAN : EndJob(n, m, "done", fb)
      BY <1>5 DEF CheckModuleStoping
    <2>2. Placed(nodes[n].pid, pr)
      BY <1>5 DEF JobsSafe, JobsPlaced, Live
    <2>3. ASSUME NEW x \in Started(FinishJob(pr, n, m, "done"))
          PROVE  pr.slots[x].node # n
      <3>1. x \in Started(pr)
        <4>1. Fewer(FinishJob(pr, n, m, "done"), pr)
          BY FewerOps DEF Ended
        <4> QED
          BY <2>3, <4>1 DEF Fewer
      <3> QED
        BY <1>4, <2>2, <3>1 DEF Placed
    <2>4. "done" \in Ended
      BY DEF Ended
    <2> HIDE DEF m
    <2> QED
      BY <1>1, <1>2, <1>3, <1>4, <1>5, <2>1, <2>3, <2>4, EndJobSafe
  <1>6. CASE ~Live(nodes[n].pid)
    <2>1. /\ nodes' = [nodes EXCEPT ![n] = Cleared(nodes[n])]
          /\ Rescan /\ procs' = procs /\ toNode' = toNode
      BY <1>6 DEF CheckModuleStoping
    <2>2. \A i \in Conn : nodes'[i] = IF i = n THEN Cleared(nodes[n]) ELSE nodes[i]
      BY <2>1 DEF ServerTypeOK
    <2>3. /\ nodes'[n].state = nodes[n].state
          /\ nodes'[n].pid = NoPid /\ ~nodes'[n].stoping
      <3>1. nodes[n] \in Node /\ nodes'[n] = Cleared(nodes[n])
        BY <2>2 DEF ServerTypeOK
      <3> QED
        BY <3>1 DEF Cleared, Node
    <2>4. \A i : ~Freeing(i)'
      BY <2>1, NoFreeing
    <2>5. JobsPlaced'
      BY <1>4, <2>1, <2>2, NodeWithoutJob DEF SameJob, JobsSafe
    <2>6. NodesBusy'
      BY <2>2, <2>3 DEF JobsSafe, NodesBusy, Up
    <2>7. StopsOnce'
      <3>1. \A s : Quiet(s) => OneStop(s)
        BY DEF Quiet, OneStop
      <3>2. ASSUME NEW i \in Conn, nodes'[i].state = "up"
            PROVE  /\ ~nodes'[i].stoping \/ Freeing(i)' =>
                         Quiet(toNode'[i]) /\ Quiet(toServer'[i])
                   /\ Quiet(toNode'[i]) \/ Quiet(toServer'[i])
                   /\ OneStop(toNode'[i]) /\ OneStop(toServer'[i])
        BY <1>2, <1>3, <1>4, <2>1, <2>2, <2>4, <3>1, <3>2
        DEF JobsSafe, StopsOnce, Up, Calmer
      <3> QED
        BY <3>2 DEF StopsOnce, Up, Quiet, OneStop
    <2>8. FreeingSafe' /\ Unused'
      BY <1>1, <2>1, <2>2, <2>3, <2>4 DEF JobsSafe, Unused, FreeingSafe
    <2> QED
      BY <2>5, <2>6, <2>7, <2>8 DEF JobsSafe
  <1> QED
    BY <1>5, <1>6

\* Every handler keeps the jobs safe.
LEMMA HandlerSafe ==
    ASSUME ServerTypeOK, WireTypeOK, JobsSafe, "outputLost" \notin May,
           NEW n \in Conn, Handler(n), fault' = "none"
    PROVE  JobsSafe'
  <1>1. \A i \in Conn : Calmer(toNode[i], toNode[i])
    BY SameCalm DEF WireTypeOK
  <1>2. CASE NodeDisconnected(n)
    <2>1. NewNode("null").state = "null"
      BY DEF NewNode
    <2>2. \A i \in Conn : Calmer(toServer'[i], toServer[i])
      BY <1>2, ReceiveCalm DEF NodeDisconnected
    <2>3. NodesBusy' /\ FreeingSafe' /\ StopsOnce' /\ Unused'
      BY <1>1, <1>2, <2>1, <2>2, OneNode DEF NodeDisconnected, Idle
    <2>4. \A i \in Conn : i # n => SameJob(nodes'[i], nodes[i])
      BY <1>2 DEF NodeDisconnected, SameJob, ServerTypeOK
    <2>5. JobsPlaced'
      BY <1>2, <2>4, ForgottenSafe DEF NodeDisconnected, JobsSafe
    <2> QED
      BY <2>3, <2>5 DEF JobsSafe
  <1>3. CASE LateEvent(n)
    <2>1. \A i \in Conn : Calmer(toServer'[i], toServer[i])
      BY <1>3, ReceiveCalm DEF LateEvent
    <2>2. \A i \in Conn : SameJob(nodes'[i], nodes[i])
      BY <1>3 DEF LateEvent, SameJob
    <2> QED
      BY <1>1, <1>3, <2>1, <2>2, SameJobsSafe DEF LateEvent, Idle
  <1> QED
    BY <1>2, <1>3, AnswerSafe, ModuleExecutionEndedSafe, CheckModuleStopingSafe
    DEF Handler

\* What the assignment of a job does to a node.
LEMMA AssignedJob ==
    ASSUME NEW nd \in Node, NEW p, NEW pr, NEW x
    PROVE  LET new == Assigned(nd, p, pr, x)
           IN  /\ new.state = nd.state /\ new.stoping = nd.stoping
               /\ new.busy /\ new.pid = p /\ new.exec = SlotName(pr, x)
  BY DEF Assigned, Node

\* A job that is given to a free node is safe there.
LEMMA StartSlotSafe ==
    ASSUME ServerTypeOK, JobsSafe, NEW n \in Conn, Up(n), ~nodes[n].busy,
           NEW p \in DOMAIN procs, NEW pr, Fewer(pr, procs[p]),
           NEW x \in DOMAIN pr.slots,
           procs' = [procs EXCEPT ![p] = StartSlot(pr, x, n)],
           nodes' = [nodes EXCEPT ![n] = Assigned(nodes[n], p, pr, x)]
    PROVE  JobsPlaced'
  <1>1. ~nodes[n].stoping
    BY DEF JobsSafe, NodesBusy
  <1>2. /\ nodes'[n].state = "up" /\ nodes'[n].busy /\ ~nodes'[n].stoping
        /\ nodes'[n].pid = p /\ nodes'[n].exec = SlotName(pr, x)
    <2>1. nodes[n] \in Node
      BY DEF ServerTypeOK
    <2>2. nodes'[n] = Assigned(nodes[n], p, pr, x)
      BY DEF ServerTypeOK
    <2> QED
      BY <1>1, <2>1, <2>2, AssignedJob DEF Up
  <1>3. \A i \in Conn : i # n => nodes'[i] = nodes[i]
    BY DEF ServerTypeOK
  <1>4. \A q \in DOMAIN procs : /\ Placed(q, procs[q]) /\ Spread(procs[q])
                                /\ \A y \in Started(procs[q]) :
                                      procs[q].slots[y].node # n
    BY DEF JobsSafe, JobsPlaced, Placed
  <1> DEFINE new == StartSlot(pr, x, n)
  <1>5. /\ new.slots[x].node = n
        /\ SlotName(new, x) = SlotName(pr, x)
        /\ \A y \in Started(new) : y # x =>
              /\ y \in Started(procs[p])
              /\ new.slots[y].node = procs[p].slots[y].node
              /\ SlotName(new, y) = SlotName(procs[p], y)
    BY DEF StartSlot, WithSlots, Started, Fewer, SlotName, StageOf
  <1> HIDE DEF new
  <1>6. DOMAIN procs' = DOMAIN procs /\ procs'[p] = new
    BY DEF new
  <1>7. \A q \in DOMAIN procs : q # p => procs'[q] = procs[q]
    OBVIOUS
  <1>8. ASSUME NEW q \in DOMAIN procs', NEW y \in Started(procs'[q])
        PROVE  LET i == procs'[q].slots[y].node
               IN  /\ i \in Conn
                   /\ nodes'[i].state = "up" /\ nodes'[i].busy /\ ~nodes'[i].stoping
                   /\ nodes'[i].pid = q
                   /\ nodes'[i].exec = SlotName(procs'[q], y)
    <2>1. CASE q = p /\ y = x
      BY <1>2, <1>5, <1>6, <2>1
    <2>2. CASE q = p /\ y # x
      BY <1>3, <1>4, <1>5, <1>6, <1>8, <2>2 DEF Placed, Up
    <2>3. CASE q # p
      BY <1>3, <1>4, <1>6, <1>7, <1>8, <2>3 DEF Placed, Up
    <2> QED
      BY <2>1, <2>2, <2>3
  <1>9. \A q \in DOMAIN procs' : Placed(q, procs[q])'
    BY <1>8 DEF Placed, Up, Started, SlotName, StageOf
  <1>10. \A q \in DOMAIN procs' : \A y, z \in Started(procs'[q]) :
            procs'[q].slots[y].node = procs'[q].slots[z].node => y = z
    BY <1>4, <1>5, <1>6, <1>7 DEF Spread
  <1> QED
    BY <1>9, <1>10 DEF JobsPlaced, Spread, Started

\* The loop of checkProcessQueue keeps the jobs safe.
LEMMA GiveJobSafe ==
    ASSUME ServerTypeOK, WireTypeOK, JobsSafe, GiveJob, fault' = "none"
    PROVE  JobsSafe'
  <1>1. PICK o \in Offers :
          LET p == o[1]
              n == o[2]
              pr == Settle(procs[p])
          IN  /\ scan' = [scan EXCEPT !.at = o]
              /\ \/ /\ procs' = [procs EXCEPT ![p] = pr]
                    /\ UNCHANGED <<nodes, toNode>>
                 \/ \E x \in Offered(pr, Able(nodes[n])) :
                       /\ procs' = [procs EXCEPT ![p] = StartSlot(pr, x, n)]
                       /\ nodes' = [nodes EXCEPT ![n] = Assigned(@, p, pr, x)]
                       /\ ToNode(n, Msg(120, SlotName(pr, x), 1, Job(p, pr, x)))
    BY DEF GiveJob, Halted
  <1> DEFINE p == o[1]
             n == o[2]
             pr == Settle(procs[p])
  <1>2. p \in DOMAIN procs /\ n \in Conn /\ Up(n) /\ ~nodes[n].busy
    BY DEF Offers, FreeNodes
  <1>3. Fewer(pr, procs[p])
    BY FewerSettled
  <1>4. /\ UNCHANGED <<conns, link, toServer>>
        /\ \A i : Freeing(i)' <=> Freeing(i)
    BY <1>1 DEF GiveJob, Freeing, ServerTypeOK
  <1>5. \A i \in Conn : Calmer(toServer[i], toServer[i]) /\ Calmer(toNode[i], toNode[i])
    BY SameCalm DEF WireTypeOK
  <1>6. CASE procs' = [procs EXCEPT ![p] = pr] /\ UNCHANGED <<nodes, toNode>>
    <2>1. \A i \in Conn : SameJob(nodes'[i], nodes[i])
      BY <1>6 DEF SameJob
    <2>2. /\ DOMAIN procs' = DOMAIN procs
          /\ \A q \in DOMAIN procs' : Fewer(procs'[q], procs[q])
      <3> HIDE DEF pr
      <3> QED
        BY <1>3, <1>6, FewerOps
    <2>3. JobsPlaced'
      BY <2>1, <2>2, FewerJobs DEF JobsSafe
    <2>4. NodesBusy' /\ FreeingSafe' /\ Unused'
      BY <1>4, <1>6, <2>2 DEF JobsSafe, NodesBusy, FreeingSafe, Unused, Up, Live
    <2>5. StopsOnce'
      BY <1>4, <1>5, <1>6, CalmStep DEF JobsSafe, Up
    <2> QED
      BY <2>3, <2>4, <2>5 DEF JobsSafe
  <1>7. CASE \E x \in Offered(pr, Able(nodes[n])) :
                /\ procs' = [procs EXCEPT ![p] = StartSlot(pr, x, n)]
                /\ nodes' = [nodes EXCEPT ![n] = Assigned(@, p, pr, x)]
                /\ ToNode(n, Msg(120, SlotName(pr, x), 1, Job(p, pr, x)))
    <2>1. PICK x \in DOMAIN pr.slots :
                /\ procs' = [procs EXCEPT ![p] = StartSlot(pr, x, n)]
                /\ nodes' = [nodes EXCEPT ![n] = Assigned(nodes[n], p, pr, x)]
                /\ ToNode(n, Msg(120, SlotName(pr, x), 1, Job(p, pr, x)))
      BY <1>7 DEF Offered
    <2> HIDE DEF p, n, pr
    <2>2. JobsPlaced'
      BY <1>2, <1>3, <2>1, StartSlotSafe
    <2>3. /\ nodes'[n].state = nodes[n].state /\ nodes'[n].stoping = nodes[n].stoping
          /\ nodes'[n].busy
          /\ \A i \in Conn : i # n => nodes'[i] = nodes[i]
      <3>1. nodes[n] \in Node /\ nodes'[n] = Assigned(nodes[n], p, pr, x)
        BY <1>2, <2>1 DEF ServerTypeOK
      <3>2. \A i \in Conn : i # n => nodes'[i] = nodes[i]
        BY <2>1 DEF ServerTypeOK
      <3> QED
        BY <3>1, <3>2, AssignedJob
    <2>4. \A i \in Conn : /\ Calmer(toNode'[i], toNode[i])
                          /\ i # n => toNode'[i] = toNode[i]
      <3>1. Msg(120, SlotName(pr, x), 1, Job(p, pr, x)).id # 124
        BY DEF Msg
      <3> QED
        <4> DEFINE msg == Msg(120, SlotName(pr, x), 1, Job(p, pr, x))
        <4>1. toNode' = Sent(toNode, n, msg) /\ toNode \in [Conn -> Seq(Message)]
          BY <2>1 DEF ToNode, WireTypeOK
        <4>2. msg.id # 124
          BY <3>1
        <4> HIDE DEF msg
        <4> QED
          BY <1>2, <4>1, <4>2, SentCalm
    <2>5. NodesBusy'
      BY <2>3 DEF JobsSafe, NodesBusy, Up
    <2>6. FreeingSafe'
      <3>1. DOMAIN procs' = DOMAIN procs
        BY <2>1
      <3> QED
        BY <1>2, <1>4, <2>3, <3>1 DEF JobsSafe, FreeingSafe, Live
    <2>7. StopsOnce'
      BY <1>4, <1>5, <2>3, <2>4, CalmStep DEF JobsSafe, Up
    <2>8. Unused'
      BY <1>2, <1>4, <2>3, <2>4 DEF JobsSafe, Unused, Up
    <2> QED
      BY <2>2, <2>5, <2>6, <2>7, <2>8 DEF JobsSafe
  <1> QED
    BY <1>1, <1>6, <1>7

\* The end of the loop frees a node that has no job and waits for no stop.
LEMMA EndScanSafe ==
    ASSUME ServerTypeOK, WireTypeOK, JobsSafe, EndScan
    PROVE  JobsSafe'
  <1>1. /\ UNCHANGED <<conns, procs, link, toNode, toServer>>
        /\ scan.on
    BY DEF EndScan, netVars
  <1>2. \A i \in Conn : Calmer(toServer[i], toServer[i]) /\ Calmer(toNode[i], toNode[i])
    BY SameCalm DEF WireTypeOK
  <1>3. \A i : ~Freeing(i)'
    BY NoFreeing DEF EndScan, Freeing
  <1>4. CASE scan.again
    <2>1. \A i \in Conn : nodes'[i] = IF Freeing(i) THEN Cleared(nodes[i]) ELSE nodes[i]
      BY <1>1, <1>4 DEF EndScan, Freeing
    <2>2. \A i \in Conn : Freeing(i) =>
             /\ nodes'[i].state = nodes[i].state
             /\ nodes'[i].pid = NoPid /\ ~nodes'[i].stoping
      <3>1. \A nd \in Node : /\ Cleared(nd).state = nd.state
                             /\ Cleared(nd).pid = NoPid /\ ~Cleared(nd).stoping
        BY DEF Cleared, Node
      <3> QED
        BY <2>1, <3>1 DEF ServerTypeOK
    <2>3. JobsPlaced'
      <3>1. CASE \E n \in Conn : Freeing(n)
        <4>1. PICK n \in Conn : Freeing(n)
          BY <3>1
        <4>2. \A i \in Conn : i # n => ~Freeing(i)
          BY <4>1 DEF Freeing
        <4> QED
          BY <1>1, <2>1, <4>1, <4>2, NodeWithoutJob DEF JobsSafe, FreeingSafe, SameJob
      <3>2. CASE \A n \in Conn : ~Freeing(n)
        BY <1>1, <2>1, <3>2, SameJobs DEF JobsSafe, SameJob
      <3> QED
        BY <3>1, <3>2
    <2>4. NodesBusy' /\ FreeingSafe' /\ Unused'
      BY <1>1, <1>3, <2>1, <2>2 DEF JobsSafe, NodesBusy, FreeingSafe, Unused, Up
    <2>5. StopsOnce'
      BY <1>1, <1>2, <1>3, <2>1, <2>2, CalmStep DEF JobsSafe, Up
    <2> QED
      BY <2>3, <2>4, <2>5 DEF JobsSafe
  <1>5. CASE ~scan.again
    <2>1. UNCHANGED nodes
      BY <1>5 DEF EndScan
    <2>2. JobsPlaced'
      BY <1>1, <2>1, SameJobs DEF JobsSafe, SameJob
    <2>3. NodesBusy' /\ FreeingSafe' /\ Unused'
      BY <1>1, <1>3, <2>1 DEF JobsSafe, NodesBusy, FreeingSafe, Unused, Up
    <2>4. StopsOnce'
      BY <1>1, <1>2, <1>3, <2>1, CalmStep DEF JobsSafe, Up
    <2> QED
      BY <2>2, <2>3, <2>4 DEF JobsSafe
  <1> QED
    BY <1>4, <1>5

\* Stopping a process stops the modules it has started, and no other.
LEMMA StopProcessSafe ==
    ASSUME ServerTypeOK, WireTypeOK, JobsSafe, NEW p \in Pid, StopProcess(p)
    PROVE  JobsSafe'
  <1> DEFINE orders == FreeOrders(procs[p])
  <1>1. /\ p \in DOMAIN procs /\ procs' = Without(p)
        /\ toNode' = Stopping(toNode, orders)
        /\ UNCHANGED <<conns, link, toServer>>
        /\ \A i \in Conn : nodes'[i] = MarkStoping(nodes[i], orders, i)
    BY DEF StopProcess, Live
  <1>2. \A i : ~Freeing(i)' /\ ~Freeing(i)
    BY NoFreeing DEF StopProcess, Idle, Freeing
  <1>3. \A q \in DOMAIN procs : Placed(q, procs[q])
    BY DEF JobsSafe, JobsPlaced
  <1>4. ASSUME NEW i \in Conn, Ordered(i, orders)
        PROVE  Up(i) /\ nodes[i].busy /\ ~nodes[i].stoping /\ nodes[i].pid = p
    <2>1. PICK o \in orders : o[1] = i
      BY <1>4 DEF Ordered
    <2>2. PICK x \in Started(procs[p]) : o = <<procs[p].slots[x].node, SlotName(procs[p], x), x>>
      BY <2>1, OrdersHitStarted
    <2>3. procs[p].slots[x].node = i
      BY <2>1, <2>2
    <2> QED
      BY <1>1, <1>3, <2>3 DEF Placed
  <1>5. toNode \in [Conn -> Seq(Message)] /\ \A i \in Conn : nodes[i] \in Node
    BY DEF WireTypeOK, ServerTypeOK
  <1>13. Single(orders)
    BY <1>1, FreeOrdersSingle DEF JobsSafe
  <1> HIDE DEF orders
  <1>6. \A i \in Conn :
          /\ ~Ordered(i, orders) => nodes'[i] = nodes[i] /\ toNode'[i] = toNode[i]
          /\ Ordered(i, orders) => nodes'[i] = [nodes[i] EXCEPT !.stoping = TRUE]
    BY <1>1, <1>5, StoppingOps DEF MarkStoping
  <1>7. \A i \in Conn : Ordered(i, orders) =>
          nodes'[i].state = "up" /\ nodes'[i].busy /\ nodes'[i].stoping
    BY <1>4, <1>5, <1>6, ZenonT(40) DEF Node, Up
  <1>8. JobsPlaced'
    <2>1. /\ DOMAIN procs' \subseteq DOMAIN procs
          /\ \A q \in DOMAIN procs' : q # p /\ procs'[q] = procs[q]
      BY <1>1 DEF Without
    <2>2. \A q \in DOMAIN procs' : Fewer(procs'[q], procs[q])
      BY <2>1, FewerOps
    <2>3. ASSUME NEW q \in DOMAIN procs', NEW x \in Started(procs'[q])
          PROVE  LET i == procs[q].slots[x].node
                 IN  i \in Conn /\ SameJob(nodes'[i], nodes[i])
      <3> DEFINE i == procs[q].slots[x].node
      <3>1. q \in DOMAIN procs /\ q # p /\ x \in Started(procs[q])
        BY <2>1, <2>3
      <3>2. i \in Conn /\ nodes[i].pid = q
        BY <1>3, <3>1 DEF Placed
      <3>3. nodes'[i] = nodes[i]
        BY <1>4, <1>6, <3>1, <3>2
      <3> QED
        BY <3>2, <3>3 DEF SameJob
    <2> QED
      BY <2>1, <2>2, <2>3, FewerJobs DEF JobsSafe
  <1>9. NodesBusy'
    BY <1>6, <1>7 DEF JobsSafe, NodesBusy, Up
  <1>10. FreeingSafe'
    BY <1>2 DEF FreeingSafe
  <1>11. StopsOnce'
    <2>1. ASSUME NEW i \in Conn, nodes'[i].state = "up"
          PROVE  /\ ~nodes'[i].stoping \/ Freeing(i)' =>
                       Quiet(toNode'[i]) /\ Quiet(toServer'[i])
                 /\ Quiet(toNode'[i]) \/ Quiet(toServer'[i])
                 /\ OneStop(toNode'[i]) /\ OneStop(toServer'[i])
      <3>1. CASE Ordered(i, orders)
        <4>1. Quiet(toNode[i]) /\ Quiet(toServer[i]) /\ OneStop(toServer[i])
          BY <1>4, <3>1 DEF JobsSafe, StopsOnce
        <4>2. OneStop(toNode'[i])
          BY <1>1, <1>5, <1>13, <4>1, StoppingOps
        <4> QED
          BY <1>1, <1>2, <1>7, <3>1, <4>1, <4>2
      <3>2. CASE ~Ordered(i, orders)
        BY <1>1, <1>2, <1>6, <2>1, <3>2 DEF JobsSafe, StopsOnce, Up
      <3> QED
        BY <3>1, <3>2
    <2> QED
      BY <2>1 DEF StopsOnce, Up, Quiet, OneStop
  <1>12. Unused'
    BY <1>1, <1>4, <1>6 DEF JobsSafe, Unused, Up
  <1> QED
    BY <1>8, <1>9, <1>10, <1>11, <1>12 DEF JobsSafe

\* The requests of the user keep the jobs safe.
LEMMA UserSafe ==
    ASSUME ServerTypeOK, WireTypeOK, JobsSafe, User, fault' = "none"
    PROVE  JobsSafe'
  <1>1. \A i \in Conn : Calmer(toServer[i], toServer[i]) /\ Calmer(toNode[i], toNode[i])
    BY SameCalm DEF WireTypeOK
  <1>2. ASSUME NEW s \in Scheme, StartProcess(s)
        PROVE  JobsSafe'
    <2>1. UNCHANGED <<nodes, conns, link, toNode, toServer>>
      BY <1>2 DEF StartProcess, netVars
    <2>2. \A i : ~Freeing(i)'
      BY <1>2, NoFreeing DEF StartProcess, Idle
    <2>3. Started(Settle(EnterStage(s, 1))) = {}
      BY EnterStageStartsNone, FewerSettled DEF Fewer
    <2>4. \A q \in DOMAIN procs' : \/ q \in DOMAIN procs /\ procs'[q] = procs[q]
                                   \/ Started(procs'[q]) = {}
      BY <1>2, <2>3 DEF StartProcess
    <2>5. ASSUME NEW q \in DOMAIN procs'
          PROVE  Placed(q, procs[q])' /\ Spread(procs[q])'
      <3>1. CASE q \in DOMAIN procs /\ procs'[q] = procs[q]
        BY <2>1, <3>1, SMTT(20) DEF JobsSafe, JobsPlaced, Placed, Spread, Started, SlotName, StageOf, Up
      <3>2. CASE Started(procs'[q]) = {}
        BY <3>2 DEF Placed, Spread, Started
      <3> QED
        BY <2>4, <3>1, <3>2
    <2>6. JobsPlaced'
      BY <2>5 DEF JobsPlaced
    <2>7. NodesBusy' /\ FreeingSafe' /\ Unused'
      BY <2>1, <2>2 DEF JobsSafe, NodesBusy, FreeingSafe, Unused, Up
    <2>8. StopsOnce'
      BY <1>1, <1>2, <2>1, <2>2, CalmStep DEF JobsSafe, Up
    <2> QED
      BY <2>6, <2>7, <2>8 DEF JobsSafe
  <1>3. ASSUME NEW n \in Conn, DisconnectNode(n)
        PROVE  JobsSafe'
    <2>1. Gone(nodes[n]).state = "null"
      BY DEF Gone, NewNode
    <2>2. \A i \in Conn : Calmer(toServer'[i], toServer[i])
      <3>1. PICK kept \in Prefixes(toServer[n]) : toServer' = [toServer EXCEPT ![n] = kept]
        BY <1>3 DEF DisconnectNode
      <3> QED
        BY <1>1, <3>1, CalmerOps DEF WireTypeOK
    <2>3. NodesBusy' /\ FreeingSafe' /\ StopsOnce' /\ Unused'
      <3> DEFINE nd == Gone(nodes[n])
      <3>1. /\ nodes' = [nodes EXCEPT ![n] = nd] /\ Up(n) /\ ~scan.on
            /\ UNCHANGED <<conns, scan, toNode>>
            /\ \A i \in Conn : i # n => link'[i] = link[i]
        BY <1>3 DEF DisconnectNode, Idle, ServerTypeOK
      <3>2. nd.state = "null"
        BY <2>1
      <3>3. \A i \in Conn : Calmer(toNode'[i], toNode[i]) /\ toNode'[i] = toNode[i]
        BY <1>1, <3>1
      <3> HIDE DEF nd
      <3> QED
        BY <2>2, <3>1, <3>2, <3>3, OneNode
    <2>4. \A i \in Conn : i # n => SameJob(nodes'[i], nodes[i])
      BY <1>3 DEF DisconnectNode, SameJob, ServerTypeOK
    <2>5. JobsPlaced'
      BY <1>3, <2>4, ForgottenSafe DEF DisconnectNode, JobsSafe
    <2> QED
      BY <2>3, <2>5 DEF JobsSafe
  <1>4. CASE ClearFailedModulesForNodes
    <2>1. /\ UNCHANGED <<conns, procs, scan, link, toNode, toServer>> /\ ~scan.on
          /\ nodes' = [n \in Conn |-> Forgiven(nodes[n])]
      BY <1>4 DEF ClearFailedModulesForNodes, Halted, netVars, Idle
    <2>2. \A nd \in Node : SameJob(Forgiven(nd), nd)
      BY DEF Forgiven, SameJob, Node
    <2>3. \A i \in Conn : SameJob(nodes'[i], nodes[i])
      BY <2>1, <2>2 DEF ServerTypeOK
    <2> QED
      BY <1>1, <2>1, <2>3, SameJobsSafe
  <1> QED
    BY <1>2, <1>3, <1>4, StopProcessSafe DEF User

---------------------------------------------------------------------------
(* Clients and sockets.                                                    *)

\* A step that leaves the server alone and adds no stop to its channels keeps
\* the jobs safe.
LEMMA WireStepSafe ==
    ASSUME JobsSafe, UNCHANGED serverVars,
           \A i \in Conn : /\ Calmer(toNode'[i], toNode[i])
                           /\ Calmer(toServer'[i], toServer[i])
                           /\ i > conns => link'[i] = link[i] /\ toNode'[i] = toNode[i]
    PROVE  JobsSafe'
  <1>1. /\ UNCHANGED <<nodes, procs, conns>>
        /\ \A i : Freeing(i)' <=> Freeing(i)
    BY DEF serverVars, Freeing
  <1>2. JobsPlaced'
    BY <1>1, SameJobs DEF JobsSafe, SameJob
  <1>3. NodesBusy' /\ FreeingSafe' /\ Unused'
    BY <1>1 DEF JobsSafe, NodesBusy, FreeingSafe, Unused, Up, Live
  <1>4. StopsOnce'
    BY <1>1, CalmStep DEF JobsSafe, Up
  <1> QED
    BY <1>2, <1>3, <1>4 DEF JobsSafe

\* What a client sends, except an answer to a stop, adds no stop.
LEMMA ReplyCalm ==
    ASSUME WireTypeOK, NEW c \in Client, NEW m,
           Reply(c, m) \/ UNCHANGED toServer, m.id # 124
    PROVE  \A i \in Conn : Calmer(toServer'[i], toServer[i])
  <1>1. toServer \in [Conn -> Seq(Message)]
    BY DEF WireTypeOK
  <1>2. Online(c) => Connection(c) \in Conn
    BY ReplyTyped
  <1>3. Online(c) => \A i \in Conn :
                        Calmer(Sent(toServer, Connection(c), m)[i], toServer[i])
    BY <1>1, <1>2, SentCalm
  <1> QED
    BY <1>1, <1>3, SameCalm DEF Reply, ToServer

\* What a client receives adds none.
LEMMA GetsCalm ==
    ASSUME WireTypeOK, JobsSafe, NEW c \in Client, NEW id, Gets(c, id)
    PROVE  /\ \A i \in Conn : /\ Calmer(toNode'[i], toNode[i])
                              /\ i > conns => toNode'[i] = toNode[i]
           /\ link' = link
  <1>1. Connection(c) \in Conn /\ toNode \in [Conn -> Seq(Message)]
    BY ReplyTyped DEF Gets, WireTypeOK
  <1>2. ~(Connection(c) > conns)
    BY <1>1 DEF Gets, JobsSafe, Unused
  <1> QED
    BY <1>1, <1>2, CalmerOps DEF Gets

\* A client that stops its module answers the one stop under way.
LEMMA StopAnswerSafe ==
    ASSUME WireTypeOK, JobsSafe, UNCHANGED serverVars,
           NEW c \in Client, ReceivedRequestOnStopModule(c)
    PROVE  JobsSafe'
  <1> DEFINE n == Connection(c)
  <1>1. /\ n \in Conn
        /\ toNode \in [Conn -> Seq(Message)] /\ toServer \in [Conn -> Seq(Message)]
    BY ReplyTyped DEF ReceivedRequestOnStopModule, Gets, WireTypeOK
  <1>2. /\ UNCHANGED <<nodes, procs, conns, link>>
        /\ \A i : Freeing(i)' <=> Freeing(i)
    BY DEF serverVars, Freeing, ReceivedRequestOnStopModule, Gets
  <1>3. /\ toNode[n] # <<>> /\ Head(toNode[n]).id = 124
        /\ toNode' = [toNode EXCEPT ![n] = Tail(@)]
    BY DEF ReceivedRequestOnStopModule, Gets
  <1>4. PICK m : toServer' = [toServer EXCEPT ![n] = Append(@, m)] \/ toServer' = toServer
    BY DEF ReceivedRequestOnStopModule, Reply, ToServer, Sent
  <1>5. \A i \in Conn : i # n => toNode'[i] = toNode[i] /\ toServer'[i] = toServer[i]
    BY <1>1, <1>3, <1>4
  <1>6. ~Quiet(toNode[n]) /\ (OneStop(toNode[n]) => Quiet(toNode'[n]))
    BY <1>1, <1>3, StopOps
  <1>7. Quiet(toServer[n]) => OneStop(toServer'[n])
    <2>1. \A s : Quiet(s) => OneStop(s)
      BY DEF Quiet, OneStop
    <2> QED
      BY <1>1, <1>4, <2>1, StopOps
  <1>8. StopsOnce'
    <2>1. \A s : Quiet(s) => OneStop(s)
      BY DEF Quiet, OneStop
    <2>2. ASSUME NEW i \in Conn, nodes'[i].state = "up"
          PROVE  /\ ~nodes'[i].stoping \/ Freeing(i)' =>
                       Quiet(toNode'[i]) /\ Quiet(toServer'[i])
                 /\ Quiet(toNode'[i]) \/ Quiet(toServer'[i])
                 /\ OneStop(toNode'[i]) /\ OneStop(toServer'[i])
      BY <1>2, <1>5, <1>6, <1>7, <2>1, <2>2 DEF JobsSafe, StopsOnce, Up
    <2> QED
      BY <2>2 DEF StopsOnce, Up, Quiet, OneStop
  <1>9. JobsPlaced'
    BY <1>2, SameJobs DEF JobsSafe, SameJob
  <1>10. NodesBusy' /\ FreeingSafe' /\ Unused'
    BY <1>2, <1>3, <1>5 DEF JobsSafe, NodesBusy, FreeingSafe, Unused, Up, Live
  <1> QED
    BY <1>8, <1>9, <1>10 DEF JobsSafe

\* The steps of a client keep the jobs safe.
LEMMA ClientSafe ==
    ASSUME WireTypeOK, JobsSafe, NEW c \in Client, ClientStep(c)
    PROVE  JobsSafe'
  <1>1. UNCHANGED serverVars
    BY DEF ClientStep
  <1>2. \A id, m, st : Answer(id, m, st).id = id
    BY DEF Answer, Msg
  <1>3. \A i \in Conn : Calmer(toNode[i], toNode[i])
    BY SameCalm DEF WireTypeOK
  <1>4. CASE ReceivedRequestOnStopModule(c)
    BY <1>1, <1>4, StopAnswerSafe
  <1>5. ASSUME NEW id, Gets(c, id), NEW m, Reply(c, m) \/ UNCHANGED toServer,
               m.id # 124
        PROVE  JobsSafe'
    BY <1>1, <1>5, GetsCalm, ReplyCalm, WireStepSafe
  <1>6. ASSUME NEW m, Reply(c, m) \/ UNCHANGED toServer, m.id # 124,
               UNCHANGED <<link, toNode>>
        PROVE  JobsSafe'
    BY <1>1, <1>3, <1>6, ReplyCalm, WireStepSafe
  <1>7. CASE CheckAuthorization(c)
    BY <1>5, <1>7 DEF CheckAuthorization, ModulesList
  <1>8. CASE PrepareForStartModule(c)
    <2>1. Gets(c, 120) /\ \E m, st : Reply(c, Answer(120, m, st))
      BY <1>8 DEF PrepareForStartModule
    <2> QED
      BY <1>2, <1>5, <2>1
  <1>9. CASE ReceivedInputParameters(c)
    <2>1. /\ Gets(c, 121)
          /\ \/ UNCHANGED toServer
             \/ \E m : Reply(c, Answer(121, m, 0)) \/ Reply(c, Answer(122, m, 1))
      BY <1>9 DEF ReceivedInputParameters, Silent
    <2> QED
      BY <1>2, <1>5, <2>1
  <1>10. CASE ConnectionClosed(c)
    <2>1. Connection(c) \in Conn /\ toNode' = [toNode EXCEPT ![Connection(c)] = <<>>]
      BY <1>10, ReplyTyped DEF ConnectionClosed
    <2>2. \A i \in Conn : /\ Calmer(toNode'[i], toNode[i])
                          /\ i > conns => toNode'[i] = toNode[i]
      BY <1>3, <2>1, CalmerOps DEF WireTypeOK, JobsSafe, Unused
    <2>3. \A i \in Conn : Calmer(toServer'[i], toServer[i])
      BY <1>10, SameCalm DEF ConnectionClosed, WireTypeOK
    <2> QED
      BY <1>1, <1>10, <2>2, <2>3, WireStepSafe DEF ConnectionClosed
  <1>11. ASSUME NEW m, ModuleFinished(c, m)
         PROVE  JobsSafe'
    BY <1>2, <1>6, <1>11 DEF ModuleFinished, Silent, AllOutputParametersSent
  <1>12. ASSUME NEW m, ModuleCrashed(c, m)
         PROVE  JobsSafe'
    BY <1>2, <1>6, <1>12 DEF ModuleCrashed, Silent, AllOutputParametersSent
  <1>13. ASSUME NEW m, ProcessExecutionTimeout(c, m)
         PROVE  JobsSafe'
    BY <1>2, <1>6, <1>13 DEF ProcessExecutionTimeout
  <1>14. CASE OutputParametersSent(c)
    BY <1>2, <1>6, <1>14 DEF OutputParametersSent, AllOutputParametersSent
  <1>15. CASE ArchiveSent(c)
    <2>1. client[c].msg.id # 124
      <3>1. client[c] \in ClientState /\ client[c].msg # NoMsg
        BY <1>15 DEF ArchiveSent, WireTypeOK
      <3>2. client[c].msg \in MessagesWith({122, 123})
        BY <3>1 DEF ClientState
      <3> QED
        BY <3>2 DEF MessagesWith
    <2> QED
      BY <1>6, <1>15, <2>1 DEF ArchiveSent
  <1>16. CASE OutputParameterSendFailed(c)
    BY <1>2, <1>6, <1>16 DEF OutputParameterSendFailed, netVars
  <1> QED
    BY <1>4, <1>7, <1>8, <1>9, <1>10, <1>11, <1>12, <1>13, <1>14, <1>15, <1>16
    DEF ClientStep, Request, Program, ProgramFails, Transfer

\* The steps of sockets and clients together keep the jobs safe.
LEMMA SocketSafe ==
    ASSUME ServerTypeOK, WireTypeOK, JobsSafe, "inputSendFail" \notin May,
           \/ \E c \in Client : InputTransfer(c) \/ InputTransferFails(c)
           \/ \E c \in Client, n \in Conn : Connect(c, n)
           \/ \E n \in Conn : Break(n)
    PROVE  JobsSafe'
  <1>1. \A i \in Conn : Calmer(toServer[i], toServer[i]) /\ Calmer(toNode[i], toNode[i])
    BY SameCalm DEF WireTypeOK
  <1>2. ASSUME NEW n \in Conn, InputParametersSent(n)
        PROVE  JobsSafe'
    <2>1. \A i \in Conn : SameJob(nodes'[i], nodes[i])
      BY <1>2 DEF InputParametersSent, SameJob, ServerTypeOK, Node
    <2>2. \A i \in Conn : /\ Calmer(toNode'[i], toNode[i])
                          /\ i # n => toNode'[i] = toNode[i]
      BY <1>2, SendInputCalm DEF InputParametersSent
    <2>3. /\ UNCHANGED <<conns, procs, scan, link, toServer>> /\ ~scan.on /\ Up(n)
      BY <1>2 DEF InputParametersSent, Idle
    <2> QED
      BY <1>1, <2>1, <2>2, <2>3, SameJobsSafe
  <1>3. ASSUME NEW c \in Client, InputTransferFails(c)
        PROVE  JobsSafe'
    BY <1>3 DEF InputTransferFails, InputParameterSendFailed
  <1>4. ASSUME NEW c \in Client, NEW n \in Conn, Connect(c, n)
        PROVE  JobsSafe'
    <2>1. /\ n = conns + 1 /\ conns' = n /\ conns \in Nat
          /\ nodes' = [nodes EXCEPT ![n] = NewNode("up")]
          /\ link' = [link EXCEPT ![n] = "open"]
          /\ toServer' = [toServer EXCEPT ![n] = <<Answer(100, NoModule, 1)>>]
          /\ UNCHANGED <<procs, scan, toNode>> /\ ~scan.on
      BY <1>4, NetAssumption DEF Connect, IncomingConnection, Connected, Idle, ServerTypeOK
    <2>2. nodes[n].state = "none" /\ toNode[n] = <<>>
      BY <2>1 DEF JobsSafe, Unused
    <2>3. \A i \in Conn : nodes'[i] = IF i = n THEN NewNode("up") ELSE nodes[i]
      BY <2>1 DEF ServerTypeOK
    <2>4. \A i : ~Freeing(i)'
      BY <2>1, NoFreeing
    <2>5. NewNode("up").pid = NoPid /\ ~NewNode("up").stoping
      BY DEF NewNode
    <2>6. JobsPlaced'
      <3>1. \A i \in Conn : i # n => SameJob(nodes'[i], nodes[i])
        BY <2>3 DEF SameJob
      <3> QED
        BY <2>1, <2>2, <3>1, NodeWithoutJob DEF JobsSafe, Up
    <2>7. NodesBusy' /\ FreeingSafe'
      BY <2>3, <2>4, <2>5 DEF JobsSafe, NodesBusy, FreeingSafe, Up
    <2>8. StopsOnce'
      <3>1. toServer'[n] = <<Answer(100, NoModule, 1)>> /\ toNode'[n] = <<>>
        BY <2>1, <2>2 DEF WireTypeOK
      <3>2. Quiet(toServer'[n]) /\ Quiet(toNode'[n])
        BY <3>1 DEF Quiet, Answer, Msg
      <3>3. \A s : Quiet(s) => OneStop(s)
        BY DEF Quiet, OneStop
      <3>4. \A i \in Conn : i # n => toServer'[i] = toServer[i] /\ toNode'[i] = toNode[i]
        BY <2>1 DEF WireTypeOK
      <3>5. ASSUME NEW i \in Conn, nodes'[i].state = "up"
            PROVE  /\ ~nodes'[i].stoping \/ Freeing(i)' =>
                         Quiet(toNode'[i]) /\ Quiet(toServer'[i])
                   /\ Quiet(toNode'[i]) \/ Quiet(toServer'[i])
                   /\ OneStop(toNode'[i]) /\ OneStop(toServer'[i])
        BY <2>3, <2>4, <3>2, <3>3, <3>4, <3>5 DEF JobsSafe, StopsOnce, Up
      <3> QED
        BY <3>5 DEF StopsOnce, Up, Quiet, OneStop
    <2>9. Unused'
      <3>1. \A i \in Conn : i > conns' => i # n /\ i > conns
        BY <2>1 DEF Conn
      <3> QED
        BY <2>1, <2>3, <3>1 DEF JobsSafe, Unused, ServerTypeOK
    <2> QED
      BY <2>6, <2>7, <2>8, <2>9 DEF JobsSafe
  <1>5. ASSUME NEW n \in Conn, Break(n)
        PROVE  JobsSafe'
    <2>1. PICK read \in Prefixes(toServer[n]), kept \in Prefixes(toNode[n]) :
             /\ toServer' = [toServer EXCEPT ![n] = Append(read, Closed)]
             /\ toNode' = [toNode EXCEPT ![n] = kept]
      BY <1>5 DEF Break, Lose
    <2>2. \A i \in Conn : Calmer(toNode'[i], toNode[i]) /\ Calmer(toServer'[i], toServer[i])
      BY <1>1, <2>1, CalmerOps DEF WireTypeOK
    <2>3. /\ UNCHANGED serverVars /\ link[n] = "open"
          /\ link' = [link EXCEPT ![n] = "closed"]
      BY <1>5 DEF Break, Lose
    <2>4. \A i \in Conn : i > conns => link'[i] = link[i] /\ toNode'[i] = toNode[i]
      BY <2>1, <2>3 DEF JobsSafe, Unused
    <2> QED
      BY <2>2, <2>3, <2>4, WireStepSafe
  <1> QED
    BY <1>2, <1>3, <1>4, <1>5 DEF InputTransfer

---------------------------------------------------------------------------
(* The theorems.                                                           *)

\* Nothing is started when the server starts.
LEMMA InitSafe == Init => JobsInv
  <1> SUFFICES ASSUME Init
               PROVE  JobsSafe
    BY DEF JobsInv
  <1>1. /\ DOMAIN procs = {} /\ ~scan.on /\ conns = 0
        /\ \A n \in Conn : nodes[n].state = "none" /\ link[n] = "none" /\ toNode[n] = <<>>
    BY DEF Init, ServerInit, NetInit, NewNode
  <1> QED
    BY <1>1
    DEF JobsSafe, JobsPlaced, NodesBusy, FreeingSafe, StopsOnce, Unused, Up, Freeing

\* There is no way back from undefined behaviour.
LEMMA FaultStays ==
    ASSUME [Next]_vars, fault # "none"
    PROVE  fault' # "none"
  <1>1. CASE ServerStep
    BY <1>1, ZenonT(40)
    DEF ServerStep, Handler, Queue, User, Idle, Receives, Hears,
        IgnoreWhileStopping, ReceiveAuthorizationRequest,
        ReceiveModulesListRequest, CheckPrepareForStartModule,
        CheckInputParametersSending, CheckModuleStarting, ModuleExecutionEnded,
        CheckModuleStoping, NodeDisconnected, LateEvent, GiveJob, EndScan,
        StartProcess, StopProcess, DisconnectNode, ClearFailedModulesForNodes,
        ReapNode
  <1>2. CASE \/ \E c \in Client : ClientStep(c)
             \/ \E n \in Conn : Break(n)
             \/ UNCHANGED vars
    BY <1>2 DEF ClientStep, Break, vars, serverVars
  <1>3. CASE \/ \E c \in Client : InputTransfer(c) \/ InputTransferFails(c)
             \/ \E c \in Client, n \in Conn : Connect(c, n)
    BY <1>3
    DEF InputTransfer, InputTransferFails, Connect, InputParametersSent,
        InputParameterSendFailed, IncomingConnection, Idle
  <1> QED
    BY <1>1, <1>2, <1>3 DEF Next

\* Every step keeps the jobs safe.
LEMMA NextSafe ==
    ASSUME "outputLost" \notin May, "inputSendFail" \notin May,
           TypeOK, JobsInv, [Next]_vars
    PROVE  JobsInv'
  <1> SUFFICES ASSUME fault' = "none"
               PROVE  JobsSafe'
    BY DEF JobsInv, JobsSafe, JobsPlaced, NodesBusy, FreeingSafe, StopsOnce, Unused
  <1>1. ServerTypeOK /\ WireTypeOK /\ JobsSafe
    BY FaultStays DEF TypeOK, JobsInv
  <1>2. CASE ServerStep
    <2>1. ASSUME NEW n \in Conn, ReapNode(n)
          PROVE  JobsSafe'
      <3>1. \A i \in Conn : Calmer(toNode'[i], toNode[i]) /\ Calmer(toServer'[i], toServer[i])
        BY <1>1, <2>1, SameCalm, CalmerOps DEF ReapNode, WireTypeOK
      <3> QED
        BY <1>1, <2>1, <3>1, WireStepSafe DEF ReapNode
    <2> QED
      BY <1>1, <1>2, <2>1, HandlerSafe, GiveJobSafe, EndScanSafe, UserSafe
      DEF ServerStep, Queue
  <1>3. CASE UNCHANGED vars
    <2>1. \A i \in Conn : Calmer(toNode'[i], toNode[i]) /\ Calmer(toServer'[i], toServer[i])
      BY <1>1, <1>3, SameCalm DEF vars, netVars, WireTypeOK
    <2> QED
      BY <1>1, <1>3, <2>1, WireStepSafe DEF vars, netVars
  <1> QED
    BY <1>1, <1>2, <1>3, ClientSafe, SocketSafe DEF Next

\* JobsInv says what JobHasNode and OneJobPerNode say of the started slots.
LEMMA JobsInvImplies == JobsInv => JobHasNode /\ OneJobPerNode
  <1> SUFFICES ASSUME JobsInv
               PROVE  JobHasNode /\ OneJobPerNode
    OBVIOUS
  <1>1. ASSUME NEW j \in SlotsWith("started")
        PROVE  j[1] \in DOMAIN procs /\ j[2] \in Started(procs[j[1]]) /\ j = <<j[1], j[2]>>
    BY <1>1 DEF SlotsWith, Started
  <1>2. JobHasNode
    <2> SUFFICES ASSUME fault = "none", NEW j \in SlotsWith("started")
                 PROVE  /\ SlotOf(j).node \in Conn
                        /\ NodeOf(j).state = "up" /\ NodeOf(j).busy /\ ~NodeOf(j).stoping
                        /\ NodeOf(j).pid = j[1]
                        /\ NodeOf(j).exec = JobName(j)
      BY DEF JobHasNode
    <2>1. Placed(j[1], procs[j[1]]) /\ j[2] \in Started(procs[j[1]])
      BY <1>1 DEF JobsInv, JobsSafe, JobsPlaced
    <2> QED
      BY <2>1 DEF Placed, SlotOf, NodeOf, JobName, Up
  <1>3. ASSUME fault = "none", NEW i \in SlotsWith("started"),
               NEW j \in SlotsWith("started"), SlotOf(i).node = SlotOf(j).node
        PROVE  i = j
    <2>1. i[1] = j[1]
      BY <1>2, <1>3 DEF JobHasNode, NodeOf
    <2>2. Spread(procs[i[1]])
      BY <1>1, <1>3 DEF JobsInv, JobsSafe, JobsPlaced
    <2>3. i[2] = j[2]
      BY <1>1, <1>3, <2>1, <2>2 DEF Spread, SlotOf
    <2> QED
      BY <1>1, <2>1, <2>3
  <1> QED
    BY <1>2, <1>3 DEF OneJobPerNode

\* The jobs are safe in every state, as long as no output file is lost on the
\* server and no client refuses an input file (server.cpp, node.cpp).
THEOREM JobsStaySafe ==
    ASSUME "outputLost" \notin May, "inputSendFail" \notin May
    PROVE  Spec => []JobsInv
  <1>1. Init => JobsInv
    BY InitSafe
  <1>2. TypeOK /\ JobsInv /\ [Next]_vars => JobsInv'
    BY NextSafe
  <1> QED
    BY <1>1, <1>2, TypeCorrect, PTL DEF Spec

\* A started module is always on a connected node that works for its process,
\* runs that module and is not being stopped, whatever the clients answer and
\* whoever leaves or stops a process in between (checkProcessQueue, the *_slot
\* methods of server.cpp, clearNodeState).
THEOREM JobsHaveNodes ==
    ASSUME "outputLost" \notin May, "inputSendFail" \notin May
    PROVE  Spec => []JobHasNode
  BY JobsStaySafe, JobsInvImplies, PTL

\* No two started modules, of one process or of two, share a node: the loop of
\* checkProcessQueue offers a node only while it is free, and nothing frees it
\* under its module.
THEOREM NodesAreNotShared ==
    ASSUME "outputLost" \notin May, "inputSendFail" \notin May
    PROVE  Spec => []OneJobPerNode
  BY JobsStaySafe, JobsInvImplies, PTL
===============================================================================
