-------------------------- MODULE DiscompWaitProofs --------------------------
(***************************************************************************)
(* Proofs about what waits.  A busy node has a job or will be freed, a     *)
(* stop is answered once, and a module that is being stopped has a node    *)
(* that was told so (BusyNodeHasJob, StopAnswered, StoppingHasNode).       *)
(* Then processes that are settled in time: under what plans and events    *)
(* no handler of the server reaches freed memory or a NULL node            *)
(* (NoUndefinedBehaviour), and no node is left without work that waits     *)
(* (WorkConserving).                                                       *)
(***************************************************************************)
EXTENDS DiscompProofs, FiniteSetTheorems, WellFoundedInduction

---------------------------------------------------------------------------
(* Stops that stay under way, and slots that stay started.                 *)

\* The channel new still carries a stop if old did.
Louder(new, old) == Quiet(new) => Quiet(old)

\* Sending a message, and receiving one that is no stop, lose no stop.
LEMMA LouderOps ==
    ASSUME NEW s \in Seq(Message)
    PROVE  /\ Louder(s, s)
           /\ \A m : /\ Louder(Append(s, m), s)
                     /\ m.id = 124 => ~Quiet(Append(s, m))
           /\ s # <<>> /\ Head(s).id # 124 => Louder(Tail(s), s)
  <1>1. Louder(s, s)
    BY DEF Louder
  <1>2. ASSUME NEW m
        PROVE  /\ Louder(Append(s, m), s)
               /\ m.id = 124 => ~Quiet(Append(s, m))
    <2>1. /\ \A i \in DOMAIN s : i \in DOMAIN Append(s, m) /\ Append(s, m)[i] = s[i]
          /\ Len(s) + 1 \in DOMAIN Append(s, m) /\ Append(s, m)[Len(s) + 1] = m
      OBVIOUS
    <2> QED
      BY <2>1 DEF Louder, Quiet
  <1>3. ASSUME s # <<>>, Head(s).id # 124
        PROVE  Louder(Tail(s), s)
    <2>1. \A i \in DOMAIN s : i = 1 \/ (i - 1 \in DOMAIN Tail(s) /\ Tail(s)[i - 1] = s[i])
      BY <1>3
    <2>2. s[1] = Head(s)
      BY <1>3
    <2>3. ASSUME Quiet(Tail(s)), NEW i \in DOMAIN s
          PROVE  s[i].id # 124
      <3>1. CASE i = 1
        BY <1>3, <2>2, <3>1
      <3>2. CASE i - 1 \in DOMAIN Tail(s) /\ Tail(s)[i - 1] = s[i]
        BY <2>3, <3>2 DEF Quiet
      <3> QED
        BY <2>1, <3>1, <3>2
    <2> QED
      BY <2>3 DEF Louder, Quiet
  <1> QED
    BY <1>1, <1>2, <1>3

\* The slots of old that are started on node n are so in new.
Keeps(new, old, n) ==
    \A x \in StartedOn(old, n) : x \in StartedOn(new, n)

\* What keeps the slots of a node started.
LEMMA KeepsOps ==
    ASSUME NEW pr, NEW n
    PROVE  /\ Keeps(pr, pr, n)
           /\ \A i : i # n => Keeps(ClearJob(pr, i), pr, n)
           /\ \A i, m, st : i # n => Keeps(FinishJob(pr, i, m, st), pr, n)
           /\ \A i, x : x \in DOMAIN pr.slots /\ pr.slots[x].status = "wait" =>
                 /\ Keeps(StartSlot(pr, x, i), pr, n)
                 /\ x \in StartedOn(StartSlot(pr, x, i), i)
           /\ \A X, x : x \in StartedOn(pr, n) \ X => x \in StartedOn(StopSlots(pr, X), n)
           /\ \A x \in StartedOn(pr, n) : ~StageDone(pr)
           /\ Keeps(Settle(pr), pr, n)
  <1> USE DEF Keeps, StartedOn
  <1>1. Keeps(pr, pr, n)
    OBVIOUS
  <1>2. \A i : i # n => Keeps(ClearJob(pr, i), pr, n)
    BY DEF ClearJob, WithSlots
  <1>3. \A i, m, st : i # n => Keeps(FinishJob(pr, i, m, st), pr, n)
    BY DEF FinishJob, EndedSlots, UnfinishedOn, WithSlots
  <1>4. ASSUME NEW i, NEW x \in DOMAIN pr.slots, pr.slots[x].status = "wait"
        PROVE  /\ Keeps(StartSlot(pr, x, i), pr, n)
               /\ x \in StartedOn(StartSlot(pr, x, i), i)
    BY <1>4 DEF StartSlot, WithSlots
  <1>5. \A X, x : x \in StartedOn(pr, n) \ X => x \in StartedOn(StopSlots(pr, X), n)
    BY DEF StopSlots, WithSlots
  <1>6. \A x \in StartedOn(pr, n) : ~StageDone(pr)
    BY DEF StageDone, Ended
  <1>7. Keeps(Settle(pr), pr, n)
    BY <1>1, <1>6 DEF Settle
  <1> QED
    BY <1>1, <1>2, <1>3, <1>4, <1>5, <1>6, <1>7

\* A node works for as long as some process keeps its slots.
LEMMA WorksStays ==
    ASSUME NEW n,
           \A p \in DOMAIN procs :
              StartedOn(procs[p], n) # {} =>
                 \/ p \in DOMAIN procs' /\ Keeps(procs'[p], procs[p], n)
                 \/ Works(n)'
    PROVE  Works(n) => Works(n)'
  <1> SUFFICES ASSUME NEW p \in DOMAIN procs, NEW x \in Started(procs[p]),
                      procs[p].slots[x].node = n,
                      p \in DOMAIN procs', Keeps(procs'[p], procs[p], n)
               PROVE  Works(n)'
    BY DEF Works, Started, StartedOn
  <1>1. x \in StartedOn(procs'[p], n)
    BY DEF Keeps, Started, StartedOn
  <1> QED
    BY <1>1 DEF Works, Started, StartedOn

\* An order goes to the node of every started slot that is to be stopped.
LEMMA OrdersReach ==
    ASSUME NEW pr, NEW n, Up(n), NEW x \in StartedOn(pr, n)
    PROVE  /\ \A X : x \in X /\ Live(nodes[n].pid) => Ordered(n, StopOrders(pr, X))
           /\ nodes[n].busy => Ordered(n, FreeOrders(pr))
  <1> DEFINE o == <<n, SlotName(pr, x), x>>
  <1>1. \A X : x \in X => o \in Orders(pr, X \intersect Started(pr))
    BY DEF Orders, Started, StartedOn
  <1>2. o \in Orders(pr, Started(pr))
    BY DEF Orders, Started, StartedOn
  <1>3. o[1] = n
    OBVIOUS
  <1> HIDE DEF o
  <1> QED
    BY <1>1, <1>2, <1>3 DEF Ordered, StopOrders, FreeOrders

---------------------------------------------------------------------------
(* What one step means for a node.                                         *)

\* After the step node n waits for nothing, or for something that comes.
StillWaits(n) ==
    \/ nodes'[n].state # "up" \/ (~nodes'[n].busy /\ ~nodes'[n].stoping)
    \/ Freeing(n)'
    \/ ~nodes'[n].stoping /\ Works(n)'
    \/ /\ nodes'[n].stoping
       /\ link'[n] = "open" => ~Quiet(toNode'[n]) \/ ~Quiet(toServer'[n])
    \/ /\ SameJob(nodes'[n], nodes[n])
       /\ link'[n] = "open" => /\ link[n] = "open"
                               /\ Louder(toNode'[n], toNode[n])
                               /\ Louder(toServer'[n], toServer[n])
       /\ Works(n) => Works(n)'
       /\ Freeing(n) => Freeing(n)'

\* That is all the invariant asks for.
LEMMA WaitsStep ==
    ASSUME BusyAwaits, StopsCome, \A n \in Conn : StillWaits(n)
    PROVE  BusyAwaits' /\ StopsCome'
  <1>1. ASSUME NEW n \in Conn, nodes'[n].state = "up"
        PROVE  /\ nodes'[n].busy => nodes'[n].stoping \/ Freeing(n)' \/ Works(n)'
               /\ nodes'[n].stoping /\ link'[n] = "open" =>
                     Freeing(n)' \/ ~Quiet(toNode'[n]) \/ ~Quiet(toServer'[n])
    BY <1>1 DEF StillWaits, BusyAwaits, StopsCome, SameJob, Louder, Up
  <1> QED
    BY <1>1 DEF BusyAwaits, StopsCome, Up, Quiet

---------------------------------------------------------------------------
(* Steps of the server.                                                    *)

\* A node that keeps its job, with nothing but messages added on its
\* connection, still waits for what it waited for.
LEMMA SameWait ==
    ASSUME NEW n \in Conn, SameJob(nodes'[n], nodes[n]),
           link' = link, procs' = procs, ~Freeing(n),
           Louder(toNode'[n], toNode[n]), Louder(toServer'[n], toServer[n])
    PROVE  StillWaits(n)
  <1>1. Works(n) => Works(n)'
    BY WorksStays, KeepsOps
  <1> QED
    BY <1>1 DEF StillWaits

\* Receiving a message that is no stop loses none.
LEMMA ReceiveLouder ==
    ASSUME WireTypeOK, NEW n \in Conn, NEW id, Receives(n, id), id # 124
    PROVE  \A i \in Conn : Louder(toServer'[i], toServer[i])
  <1>1. /\ toServer \in [Conn -> Seq(Message)]
        /\ toServer[n] # <<>> /\ Head(toServer[n]).id # 124
        /\ toServer' = [toServer EXCEPT ![n] = Tail(@)]
    BY DEF WireTypeOK, Receives
  <1> QED
    BY <1>1, LouderOps

\* Nor does sending one.
LEMMA SentLouder ==
    ASSUME NEW chan \in [Conn -> Seq(Message)], NEW n, NEW m
    PROVE  \A i \in Conn : Louder(Sent(chan, n, m)[i], chan[i])
  BY LouderOps DEF Sent

\* Unchanged channels lose none.
LEMMA SameLouder ==
    \A chan : Louder(chan, chan)
  BY DEF Louder

\* The node that gives its job up is free, the others keep theirs.
LEMMA GiveUpJobWaits ==
    ASSUME ServerTypeOK, NEW n \in Conn, NEW m, GiveUpJob(n, m), ~scan.on,
           Live(nodes[n].pid), UNCHANGED link,
           \A i \in Conn : Louder(toServer'[i], toServer[i])
    PROVE  \A i \in Conn : StillWaits(i)
  <1> DEFINE p == nodes[n].pid
             nd == Cleared(Failed(nodes[n], m))
  <1>1. /\ nodes' = [nodes EXCEPT ![n] = nd]
        /\ procs' = [procs EXCEPT ![p] = ClearJob(procs[p], n)]
        /\ toNode' = toNode
    BY DEF GiveUpJob
  <1>2. ~nd.busy /\ ~nd.stoping
    <2>1. nodes[n] \in Node
      BY DEF ServerTypeOK
    <2> QED
      BY <2>1 DEF Cleared, Failed, Node
  <1>3. \A i \in Conn : nodes'[i] = IF i = n THEN nd ELSE nodes[i]
    BY <1>1 DEF ServerTypeOK
  <1> HIDE DEF nd
  <1>4. StillWaits(n)
    BY <1>2, <1>3 DEF StillWaits
  <1>5. ASSUME NEW i \in Conn, i # n
        PROVE  StillWaits(i)
    <2>1. \A q \in DOMAIN procs : q \in DOMAIN procs' /\ Keeps(procs'[q], procs[q], i)
      BY <1>1, <1>5, KeepsOps DEF Live
    <2>2. Works(i) => Works(i)'
      BY <2>1, WorksStays
    <2>3. SameJob(nodes'[i], nodes[i])
      BY <1>3, <1>5 DEF SameJob
    <2> QED
      BY <1>1, <2>2, <2>3, SameLouder DEF StillWaits, Freeing
  <1> QED
    BY <1>4, <1>5

\* The node whose job ends is freed, now or when the loop ends; a node that is
\* told to stop waits for the answer, the others keep their jobs.
LEMMA EndJobWaits ==
    ASSUME ServerTypeOK, WireTypeOK, JobsSafe, NEW n \in Conn, NEW m,
           NEW st \in Ended, NEW fb \in BOOLEAN, Up(n), ~scan.on,
           Live(nodes[n].pid), EndJob(n, m, st, fb), fault' = "none",
           UNCHANGED link,
           \A i \in Conn : i # n => toServer'[i] = toServer[i]
    PROVE  \A i \in Conn : StillWaits(i)
  <1> DEFINE p == nodes[n].pid
             pr == procs[p]
             ended == FinishJob(pr, n, m, st)
  <1>1. PICK X \in IF EndedSlots(pr, n, m) # {} THEN PluginStops(pr) ELSE {{}},
             k \in IF EndedSlots(pr, n, m) # {} THEN PluginGotos(pr) ELSE {0} :
             LET asked == StopSlots(ended, X)
                 next == WentTo(asked, k)
                 orders == EndOrders(ended, X, k, n, fb)
             IN  /\ nodes' = [i \in Conn |->
                                LET nd == MarkStoping(nodes[i], orders, i)
                                IN  IF i = n THEN Released(nd, Completes(next), fb)
                                             ELSE nd]
                 /\ toNode' = Stopping(toNode, orders)
                 /\ \/ /\ Completes(next)
                       /\ procs' = Without(p)
                       /\ Scan(TRUE, IF fb THEN 0 ELSE n)
                    \/ /\ ~Completes(next)
                       /\ procs' = [procs EXCEPT ![p] = Settle(next)]
                       /\ Rescan
    BY ZenonT(40) DEF EndJob, EndOrders, Halted
  <1> DEFINE asked == StopSlots(ended, X)
             next == WentTo(asked, k)
             orders == EndOrders(ended, X, k, n, fb)
             marked(i) == MarkStoping(nodes[i], orders, i)
  <1>2. /\ \A i \in Conn : nodes'[i] = IF i = n THEN Released(marked(n), Completes(next), fb)
                                               ELSE marked(i)
        /\ toNode' = Stopping(toNode, orders)
        /\ \/ Completes(next) /\ procs' = Without(p) /\ Scan(TRUE, IF fb THEN 0 ELSE n)
           \/ ~Completes(next) /\ procs' = [procs EXCEPT ![p] = Settle(next)] /\ Rescan
    BY <1>1
  <1>3. /\ nodes \in [Conn -> Node] /\ toNode \in [Conn -> Seq(Message)]
        /\ p \in DOMAIN procs
        /\ \A q \in DOMAIN procs : Placed(q, procs[q])
    BY DEF ServerTypeOK, WireTypeOK, Live, JobsSafe, JobsPlaced
  <1>4. \A i \in Conn : marked(i) \in Node
    BY <1>3, NodeOpsAreNodes
  <1>5. ASSUME NEW i \in Conn, i # n, ~Ordered(i, orders), NEW x \in StartedOn(pr, i)
        PROVE  p \in DOMAIN procs' /\ Keeps(procs'[p], pr, i)
    <2>1. Up(i) /\ nodes[i].busy /\ Live(nodes[i].pid)
      BY <1>3, <1>5 DEF Placed, Started, StartedOn, Live
    <2>2. /\ ~Ordered(i, StopOrders(ended, X))
          /\ k # 0 => ~Ordered(i, FreeOrders(asked))
      BY <1>5 DEF Ordered, EndOrders
    <2> HIDE DEF orders
    <2>3. Keeps(ended, pr, i)
      BY <1>5, KeepsOps
    <2>4. \A y \in StartedOn(ended, i) : y \notin X
      BY <2>1, <2>2, OrdersReach
    <2>5. Keeps(asked, ended, i)
      <3> HIDE DEF ended
      <3> QED
        BY <2>4, KeepsOps DEF Keeps
    <2>6. x \in StartedOn(asked, i)
      BY <1>5, <2>3, <2>5 DEF Keeps
    <2>7. k = 0
      BY <2>1, <2>2, <2>6, OrdersReach
    <2>8. next = asked
      BY <2>7 DEF WentTo
    <2> HIDE DEF ended, asked, next
    <2>9. ~Completes(next) /\ Keeps(Settle(next), next, i)
      BY <2>6, <2>8, KeepsOps DEF Completes
    <2>10. procs' = [procs EXCEPT ![p] = Settle(next)]
      BY <1>2, <2>9
    <2>11. Keeps(Settle(next), pr, i)
      BY <2>3, <2>5, <2>8, <2>9 DEF Keeps
    <2> QED
      BY <1>3, <2>10, <2>11
  <1> HIDE DEF ended, asked, next, orders
  <1>6. Single(orders)
    BY <1>3, EndOrdersSingle DEF JobsSafe, orders, ended
  <1>7. ASSUME NEW i \in Conn, i # n, Ordered(i, orders)
        PROVE  StillWaits(i)
    <2>1. nodes'[i].stoping
      <3>1. nodes[i] \in Node /\ nodes'[i] = MarkStoping(nodes[i], orders, i)
        BY <1>2, <1>3, <1>7
      <3> QED
        BY <1>7, <3>1 DEF MarkStoping, Node
    <2>2. link'[i] = "open" => ~Quiet(toNode'[i])
      <3> DEFINE msg == Msg(124, (CHOOSE o \in orders : o[1] = i)[2], 1, NoJob)
      <3>1. msg.id = 124
        BY DEF Msg
      <3>2. link'[i] = "open" => toNode'[i] = Append(toNode[i], msg)
        BY <1>2, <1>7, <1>6, StoppingSingle, <1>3 DEF StoppingEach
      <3>3. toNode[i] \in Seq(Message)
        BY <1>3
      <3> HIDE DEF msg
      <3>4. ~Quiet(Append(toNode[i], msg))
        BY <3>1, <3>3, LouderOps
      <3> QED
        BY <3>2, <3>4
    <2> QED
      BY <2>1, <2>2 DEF StillWaits
  <1>8. StillWaits(n)
    <2> DEFINE nd == marked(n)
    <2>1. nd \in Node /\ nodes'[n] = Released(nd, Completes(next), fb)
      BY <1>2, <1>4
    <2> HIDE DEF nd
    <2>2. CASE Completes(next) /\ ~fb
      <3>1. Scan(TRUE, n)
        BY <1>2, <2>2
      <3> QED
        BY <3>1 DEF StillWaits, Freeing, Scan
    <2>3. CASE ~(Completes(next) /\ ~fb)
      <3>1. nodes'[n] = Cleared(nd)
        BY <2>1, <2>3 DEF Released
      <3> QED
        BY <2>1, <3>1 DEF StillWaits, Cleared, Node
    <2> QED
      BY <2>2, <2>3
  <1>9. ASSUME NEW i \in Conn, i # n, ~Ordered(i, orders)
        PROVE  StillWaits(i)
    <2>1. nodes'[i] = nodes[i] /\ toNode'[i] = toNode[i] /\ toServer'[i] = toServer[i]
      BY <1>2, <1>9 DEF MarkStoping, Stopping
    <2>2. ASSUME NEW q \in DOMAIN procs, StartedOn(procs[q], i) # {}
          PROVE  q \in DOMAIN procs' /\ Keeps(procs'[q], procs[q], i)
      <3>1. CASE q = p
        BY <1>5, <1>9, <2>2, <3>1
      <3>2. CASE q # p
        <4>1. q \in DOMAIN procs' /\ procs'[q] = procs[q]
          BY <1>2, <3>2 DEF Without
        <4> QED
          BY <4>1, KeepsOps
      <3> QED
        BY <3>1, <3>2
    <2>3. Works(i) => Works(i)'
      BY <2>2, WorksStays
    <2> QED
      BY <2>1, <2>3, SameLouder DEF StillWaits, SameJob, Freeing
  <1> QED
    BY <1>7, <1>8, <1>9

\* Handlers that neither end a job nor lose a node.
LEMMA AnswerWaits ==
    ASSUME ServerTypeOK, WireTypeOK, NEW n \in Conn,
           \/ IgnoreWhileStopping(n)
           \/ ReceiveAuthorizationRequest(n)
           \/ ReceiveModulesListRequest(n)
           \/ CheckPrepareForStartModule(n)
           \/ CheckInputParametersSending(n)
           \/ CheckModuleStarting(n)
    PROVE  \A i \in Conn : StillWaits(i)
  <1>1. PICK id \in {100, 110, 120, 121, 122, 123} : Receives(n, id)
    BY DEF IgnoreWhileStopping, ReceiveAuthorizationRequest,
           ReceiveModulesListRequest, CheckPrepareForStartModule,
           CheckInputParametersSending, CheckModuleStarting, Hears
  <1>2. \A i \in Conn : Louder(toServer'[i], toServer[i])
    BY <1>1, ReceiveLouder
  <1>3. ~scan.on /\ link' = link /\ \A i : ~Freeing(i)
    BY <1>1 DEF Receives, Idle, Freeing
  <1>4. ASSUME procs' = procs,
               \A i \in Conn : /\ SameJob(nodes'[i], nodes[i])
                               /\ Louder(toNode'[i], toNode[i])
        PROVE  \A i \in Conn : StillWaits(i)
    BY <1>2, <1>3, <1>4, SameWait
  <1>5. UNCHANGED nodes => \A i \in Conn : SameJob(nodes'[i], nodes[i])
    BY DEF SameJob
  <1>6. ASSUME Ignore
        PROVE  \A i \in Conn : StillWaits(i)
    BY <1>4, <1>5, <1>6, SameLouder DEF Ignore
  <1>7. ASSUME NEW m, Live(nodes[n].pid), GiveUpJob(n, m)
        PROVE  \A i \in Conn : StillWaits(i)
    BY <1>2, <1>3, <1>7, GiveUpJobWaits
  <1>8. toNode \in [Conn -> Seq(Message)]
    BY DEF WireTypeOK
  <1>9. SendInputParameters(n) \/ UNCHANGED toNode =>
           \A i \in Conn : Louder(toNode'[i], toNode[i])
    BY <1>8, SentLouder, SameLouder DEF SendInputParameters, ToNode
  <1>10. CASE IgnoreWhileStopping(n)
    BY <1>6, <1>10 DEF IgnoreWhileStopping
  <1>11. CASE ReceiveAuthorizationRequest(n)
    <2>1. /\ \A i \in Conn : Louder(toNode'[i], toNode[i])
          /\ UNCHANGED <<nodes, procs>>
      BY <1>8, <1>11, SentLouder DEF ReceiveAuthorizationRequest, ToNode
    <2> QED
      BY <1>4, <1>5, <2>1
  <1>12. CASE ReceiveModulesListRequest(n)
    <2>1. \A i \in Conn : SameJob(nodes'[i], nodes[i])
      BY <1>12 DEF ReceiveModulesListRequest, Listed, SameJob, ServerTypeOK, Node
    <2>2. UNCHANGED <<procs, toNode>>
      BY <1>12 DEF ReceiveModulesListRequest
    <2> QED
      BY <1>4, <2>1, <2>2, SameLouder
  <1>13. CASE CheckPrepareForStartModule(n)
    <2>1. CASE Ignore \/ \E m : Live(nodes[n].pid) /\ GiveUpJob(n, m)
      BY <1>6, <1>7, <2>1
    <2>2. CASE /\ \E m : nodes' = [nodes EXCEPT ![n].sending = m]
               /\ UNCHANGED toNode \/ SendInputParameters(n)
               /\ procs' = procs
      <3>1. \A i \in Conn : SameJob(nodes'[i], nodes[i])
        BY <2>2 DEF SameJob, ServerTypeOK, Node
      <3> QED
        BY <1>4, <1>9, <2>2, <3>1
    <2> QED
      BY <1>13, <2>1, <2>2 DEF CheckPrepareForStartModule
  <1>14. CASE CheckInputParametersSending(n)
    BY <1>6, <1>7, <1>14 DEF CheckInputParametersSending
  <1>15. CASE CheckModuleStarting(n)
    BY <1>6, <1>7, <1>15 DEF CheckModuleStarting
  <1> QED
    BY <1>10, <1>11, <1>12, <1>13, <1>14, <1>15

\* The processes keep the slots of a node when another one is forgotten.
LEMMA ForgottenWaits ==
    ASSUME NEW n \in Conn, procs' = Forgotten(n), nodes'[n].state # "up",
           ~scan.on, toNode' = toNode,
           \A i \in Conn : i # n => /\ nodes'[i] = nodes[i]
                                    /\ link'[i] = link[i]
                                    /\ toServer'[i] = toServer[i]
    PROVE  \A i \in Conn : StillWaits(i)
  <1>1. StillWaits(n)
    BY DEF StillWaits
  <1>2. ASSUME NEW i \in Conn, i # n
        PROVE  StillWaits(i)
    <2>1. \A q \in DOMAIN procs : q \in DOMAIN procs' /\ Keeps(procs'[q], procs[q], i)
      BY <1>2, KeepsOps DEF Forgotten
    <2>2. Works(i) => Works(i)'
      BY <2>1, WorksStays
    <2> QED
      BY <1>2, <2>2, SameLouder DEF StillWaits, SameJob, Freeing
  <1> QED
    BY <1>1, <1>2

\* Every handler.
LEMMA HandlerWaits ==
    ASSUME ServerTypeOK, WireTypeOK, JobsSafe, "outputLost" \notin May,
           NEW n \in Conn, Handler(n), fault' = "none"
    PROVE  \A i \in Conn : StillWaits(i)
  <1>1. \A i \in Conn : i # n => toServer'[i] = toServer[i]
    <2>1. toServer' = [toServer EXCEPT ![n] = Tail(@)]
      BY ZenonT(40)
      DEF Handler, IgnoreWhileStopping, ReceiveAuthorizationRequest,
          ReceiveModulesListRequest, CheckPrepareForStartModule,
          CheckInputParametersSending, CheckModuleStarting, ModuleExecutionEnded,
          CheckModuleStoping, NodeDisconnected, LateEvent, Hears, Receives
    <2> QED
      BY <2>1 DEF WireTypeOK
  <1>2. ASSUME NEW m, NEW st \in Ended, NEW fb \in BOOLEAN, NEW id, Receives(n, id),
               Live(nodes[n].pid), EndJob(n, m, st, fb)
        PROVE  \A i \in Conn : StillWaits(i)
    BY <1>1, <1>2, EndJobWaits DEF Receives, Idle
  <1>3. CASE ModuleExecutionEnded(n)
    <2> DEFINE m == Head(toServer[n]).name
    <2>1. Receives(n, 123) /\ ~scan.on /\ link' = link
      BY <1>3 DEF ModuleExecutionEnded, Hears, Receives, Idle
    <2>2. \A i \in Conn : Louder(toServer'[i], toServer[i])
      BY <2>1, ReceiveLouder
    <2>3. CASE Ignore
      <3>1. \A i \in Conn : SameJob(nodes'[i], nodes[i]) /\ ~Freeing(i)
        BY <2>1, <2>3 DEF Ignore, SameJob, Freeing
      <3> QED
        BY <2>1, <2>2, <2>3, <3>1, SameWait, SameLouder DEF Ignore
    <2>4. CASE Live(nodes[n].pid) /\ GiveUpJob(n, m)
      BY <2>1, <2>2, <2>4, GiveUpJobWaits
    <2>5. CASE Live(nodes[n].pid) /\ \E st \in Ended : EndJob(n, m, st, FALSE)
      BY <1>2, <2>1, <2>5
    <2> QED
      BY <1>3, <2>3, <2>4, <2>5 DEF ModuleExecutionEnded, Ended
  <1>4. CASE CheckModuleStoping(n)
    <2> DEFINE m == Head(toServer[n]).name
    <2>1. Receives(n, 124) /\ ~scan.on /\ link' = link
      BY <1>4 DEF CheckModuleStoping, Receives, Idle
    <2>2. CASE Live(nodes[n].pid)
      <3>1. "done" \in Ended
        BY DEF Ended
      <3>2. PICK fb \in BOOLEAN : EndJob(n, m, "done", fb)
        BY <1>4, <2>2 DEF CheckModuleStoping
      <3> QED
        BY <1>2, <2>1, <2>2, <3>1, <3>2
    <2>3. CASE ~Live(nodes[n].pid)
      <3>1. /\ nodes' = [nodes EXCEPT ![n] = Cleared(@)]
            /\ procs' = procs /\ toNode' = toNode
        BY <1>4, <2>3 DEF CheckModuleStoping
      <3>2. StillWaits(n)
        <4>1. nodes'[n] = Cleared(nodes[n]) /\ nodes[n] \in Node
          BY <3>1 DEF ServerTypeOK
        <4> QED
          BY <4>1 DEF StillWaits, Cleared, Node
      <3>3. ASSUME NEW i \in Conn, i # n
            PROVE  StillWaits(i)
        <4>1. SameJob(nodes'[i], nodes[i]) /\ ~Freeing(i)
          BY <2>1, <3>1, <3>3 DEF ServerTypeOK, SameJob, Freeing
        <4> QED
          BY <1>1, <2>1, <3>1, <3>3, <4>1, SameWait, SameLouder
      <3> QED
        BY <3>2, <3>3
    <2> QED
      BY <2>2, <2>3
  <1>5. CASE NodeDisconnected(n)
    <2>1. NewNode("null").state # "up"
      BY DEF NewNode
    <2>2. /\ \A i \in Conn : nodes'[i] = IF i = n THEN NewNode("null") ELSE nodes[i]
          /\ procs' = Forgotten(n) /\ ~scan.on /\ UNCHANGED <<link, toNode>>
      BY <1>5 DEF NodeDisconnected, Idle, ServerTypeOK
    <2> QED
      BY <1>1, <2>1, <2>2, ForgottenWaits
  <1>6. CASE LateEvent(n)
    <2>1. UNCHANGED <<nodes, procs, link, toNode>> /\ ~scan.on /\ nodes[n].state = "null"
      BY <1>6 DEF LateEvent, Idle
    <2>2. StillWaits(n)
      BY <2>1 DEF StillWaits
    <2>3. ASSUME NEW i \in Conn, i # n
          PROVE  StillWaits(i)
      BY <1>1, <2>1, <2>3, SameWait, SameLouder DEF SameJob, Freeing
    <2> QED
      BY <2>2, <2>3
  <1> QED
    BY <1>3, <1>4, <1>5, <1>6, AnswerWaits DEF Handler

\* The loop gives a free node a job, or leaves it free.
LEMMA GiveJobWaits ==
    ASSUME ServerTypeOK, WireTypeOK, JobsSafe, GiveJob, fault' = "none"
    PROVE  \A i \in Conn : StillWaits(i)
  <1>1. PICK o \in Offers :
          LET p == o[1]
              n == o[2]
              pr == Settle(procs[p])
          IN  \/ /\ procs' = [procs EXCEPT ![p] = pr]
                 /\ UNCHANGED <<nodes, toNode>>
              \/ \E x \in Offered(pr, Able(nodes[n])) :
                    /\ procs' = [procs EXCEPT ![p] = StartSlot(pr, x, n)]
                    /\ nodes' = [nodes EXCEPT ![n] = Assigned(@, p, pr, x)]
                    /\ ToNode(n, Msg(120, SlotName(pr, x), 1, Job(p, pr, x)))
    BY DEF GiveJob, Halted
  <1> DEFINE p == o[1]
             n == o[2]
             pr == Settle(procs[p])
  <1>2. p \in DOMAIN procs /\ n \in Conn /\ Up(n) /\ ~nodes[n].busy
    BY DEF Offers, FreeNodes
  <1>3. \A i : Keeps(pr, procs[p], i)
    BY KeepsOps
  <1>4. /\ UNCHANGED <<link, toServer>>
        /\ \A i : Freeing(i)' <=> Freeing(i)
    <2>1. \E a : scan' = [scan EXCEPT !.at = a] \/ UNCHANGED scan
      BY DEF GiveJob
    <2> QED
      BY <2>1 DEF GiveJob, Freeing, ServerTypeOK
  <1> HIDE DEF p, n, pr
  <1>5. CASE procs' = [procs EXCEPT ![p] = pr] /\ UNCHANGED <<nodes, toNode>>
    <2>1. ASSUME NEW i \in Conn
          PROVE  StillWaits(i)
      <3>1. \A q \in DOMAIN procs : q \in DOMAIN procs' /\ Keeps(procs'[q], procs[q], i)
        BY <1>3, <1>5, KeepsOps
      <3>2. Works(i) => Works(i)'
        BY <3>1, WorksStays
      <3> QED
        BY <1>4, <1>5, <3>2, SameLouder DEF StillWaits, SameJob
    <2> QED
      BY <2>1
  <1>6. CASE \E x \in Offered(pr, Able(nodes[n])) :
                /\ procs' = [procs EXCEPT ![p] = StartSlot(pr, x, n)]
                /\ nodes' = [nodes EXCEPT ![n] = Assigned(@, p, pr, x)]
                /\ ToNode(n, Msg(120, SlotName(pr, x), 1, Job(p, pr, x)))
    <2>1. PICK x : /\ x \in DOMAIN pr.slots /\ pr.slots[x].status = "wait"
                   /\ procs' = [procs EXCEPT ![p] = StartSlot(pr, x, n)]
                   /\ nodes' = [nodes EXCEPT ![n] = Assigned(nodes[n], p, pr, x)]
                   /\ ToNode(n, Msg(120, SlotName(pr, x), 1, Job(p, pr, x)))
      BY <1>6 DEF Offered
    <2>2. /\ \A i : Keeps(StartSlot(pr, x, n), pr, i)
          /\ x \in StartedOn(StartSlot(pr, x, n), n)
      BY <2>1, KeepsOps
    <2>3. DOMAIN procs' = DOMAIN procs /\ procs'[p] = StartSlot(pr, x, n)
      BY <1>2, <2>1
    <2>4. Works(n)'
      BY <1>2, <2>2, <2>3 DEF Works, Started, StartedOn
    <2>5. StillWaits(n)
      <3>1. ~nodes[n].stoping
        BY <1>2 DEF JobsSafe, NodesBusy
      <3>2. nodes[n] \in Node /\ nodes'[n] = Assigned(nodes[n], p, pr, x)
        BY <1>2, <2>1 DEF ServerTypeOK
      <3>3. ~nodes'[n].stoping
        BY <3>1, <3>2, AssignedJob
      <3> QED
        BY <2>4, <3>3 DEF StillWaits
    <2>6. ASSUME NEW i \in Conn, i # n
          PROVE  StillWaits(i)
      <3>1. \A q \in DOMAIN procs : q \in DOMAIN procs' /\ Keeps(procs'[q], procs[q], i)
        <4>1. Keeps(StartSlot(pr, x, n), procs[p], i)
          BY <1>3, <2>2 DEF Keeps
        <4>2. \A q \in DOMAIN procs : q # p => procs'[q] = procs[q]
          BY <2>1
        <4> QED
          BY <2>3, <4>1, <4>2, KeepsOps
      <3>2. Works(i) => Works(i)'
        BY <3>1, WorksStays
      <3>3. toNode'[i] = toNode[i] /\ nodes'[i] = nodes[i]
        BY <2>1, <2>6 DEF ToNode, Sent, ServerTypeOK, WireTypeOK
      <3> QED
        BY <1>4, <3>2, <3>3, SameLouder DEF StillWaits, SameJob
    <2> QED
      BY <2>5, <2>6
  <1> QED
    BY <1>1, <1>5, <1>6 DEF p, n, pr

\* The end of the loop frees the node that was to be freed.
LEMMA EndScanWaits ==
    ASSUME ServerTypeOK, EndScan
    PROVE  \A i \in Conn : StillWaits(i)
  <1> SUFFICES ASSUME NEW i \in Conn
               PROVE  StillWaits(i)
    OBVIOUS
  <1>1. UNCHANGED <<procs, link, toNode, toServer>> /\ scan.on
    BY DEF EndScan, netVars
  <1>2. CASE scan.again /\ i = scan.free
    <2>1. nodes'[i] = Cleared(nodes[i]) /\ nodes[i] \in Node
      BY <1>2 DEF EndScan, ServerTypeOK
    <2> QED
      BY <2>1 DEF StillWaits, Cleared, Node
  <1>3. CASE ~(scan.again /\ i = scan.free)
    <2>1. nodes'[i] = nodes[i] /\ ~Freeing(i)
      BY <1>3 DEF EndScan, Freeing
    <2> QED
      BY <1>1, <2>1, SameWait, SameLouder DEF SameJob
  <1> QED
    BY <1>2, <1>3

\* A process that is stopped leaves its modules to nodes that are told to stop.
LEMMA StopProcessWaits ==
    ASSUME ServerTypeOK, WireTypeOK, JobsSafe, NEW p \in Pid, StopProcess(p)
    PROVE  \A i \in Conn : StillWaits(i)
  <1> DEFINE orders == FreeOrders(procs[p])
  <1>1. /\ p \in DOMAIN procs /\ procs' = Without(p)
        /\ toNode' = Stopping(toNode, orders)
        /\ UNCHANGED <<link, toServer>> /\ ~scan.on
        /\ \A i \in Conn : nodes'[i] = MarkStoping(nodes[i], orders, i)
    BY DEF StopProcess, Live, Idle
  <1>2. toNode \in [Conn -> Seq(Message)] /\ \A i \in Conn : nodes[i] \in Node
    BY DEF WireTypeOK, ServerTypeOK
  <1>3. \A i \in Conn : StartedOn(procs[p], i) # {} => Ordered(i, orders)
    BY <1>1, OrdersReach DEF JobsSafe, JobsPlaced, Placed, Started, StartedOn
  <1>4. toNode' = StoppingEach(toNode, orders)
    BY <1>1, <1>2, FreeOrdersSingle, StoppingSingle DEF JobsSafe
  <1> HIDE DEF orders
  <1>5. ASSUME NEW i \in Conn, Ordered(i, orders)
        PROVE  StillWaits(i)
    <2>1. nodes'[i].stoping
      BY <1>1, <1>2, <1>5, ZenonT(40) DEF MarkStoping, Node
    <2>2. link'[i] = "open" => ~Quiet(toNode'[i])
      <3> DEFINE msg == Msg(124, (CHOOSE o \in orders : o[1] = i)[2], 1, NoJob)
      <3>1. msg.id = 124
        BY DEF Msg
      <3>2. link'[i] = "open" => toNode'[i] = Append(toNode[i], msg)
        BY <1>1, <1>5, <1>4 DEF StoppingEach
      <3>3. toNode[i] \in Seq(Message)
        BY <1>2
      <3> HIDE DEF msg
      <3>4. ~Quiet(Append(toNode[i], msg))
        BY <3>1, <3>3, LouderOps
      <3> QED
        BY <3>2, <3>4
    <2> QED
      BY <2>1, <2>2 DEF StillWaits
  <1>6. ASSUME NEW i \in Conn, ~Ordered(i, orders)
        PROVE  StillWaits(i)
    <2>1. nodes'[i] = nodes[i] /\ toNode'[i] = toNode[i] /\ toServer'[i] = toServer[i]
      BY <1>1, <1>6 DEF MarkStoping, Stopping
    <2>2. ASSUME NEW q \in DOMAIN procs, StartedOn(procs[q], i) # {}
          PROVE  q \in DOMAIN procs' /\ Keeps(procs'[q], procs[q], i)
      <3>1. q # p
        BY <1>3, <1>6, <2>2
      <3>2. q \in DOMAIN procs' /\ procs'[q] = procs[q]
        BY <1>1, <3>1 DEF Without
      <3> QED
        BY <3>2, KeepsOps
    <2>3. Works(i) => Works(i)'
      BY <2>2, WorksStays
    <2> QED
      BY <1>1, <2>1, <2>3, SameLouder DEF StillWaits, SameJob, Freeing
  <1> QED
    BY <1>5, <1>6

\* The requests of the user.
LEMMA UserWaits ==
    ASSUME ServerTypeOK, WireTypeOK, JobsSafe, User, fault' = "none"
    PROVE  \A i \in Conn : StillWaits(i)
  <1>1. ASSUME NEW s \in Scheme, StartProcess(s)
        PROVE  \A i \in Conn : StillWaits(i)
    <2>1. UNCHANGED <<nodes, link, toNode, toServer>> /\ ~scan.on
      BY <1>1 DEF StartProcess, netVars, Idle
    <2>2. \A q \in DOMAIN procs : q \in DOMAIN procs' /\ procs'[q] = procs[q]
      BY <1>1 DEF StartProcess
    <2>3. \A i : Works(i) => Works(i)'
      BY <2>2, WorksStays, KeepsOps
    <2> QED
      BY <2>1, <2>3, SameLouder DEF StillWaits, SameJob, Freeing
  <1>2. ASSUME NEW n \in Conn, DisconnectNode(n)
        PROVE  \A i \in Conn : StillWaits(i)
    <2>1. Gone(nodes[n]).state # "up"
      BY DEF Gone, NewNode
    <2>2. /\ \A i \in Conn : nodes'[i] = IF i = n THEN Gone(nodes[n]) ELSE nodes[i]
          /\ procs' = Forgotten(n) /\ ~scan.on /\ toNode' = toNode
          /\ link' = [link EXCEPT ![n] = "closed"]
      BY <1>2 DEF DisconnectNode, Idle, ServerTypeOK
    <2>3. \A i \in Conn : i # n => toServer'[i] = toServer[i]
      BY <1>2 DEF DisconnectNode, WireTypeOK
    <2> QED
      BY <2>1, <2>2, <2>3, ForgottenWaits DEF ServerTypeOK
  <1>3. CASE ClearFailedModulesForNodes
    <2>1. /\ UNCHANGED <<procs, scan, link, toNode, toServer>> /\ ~scan.on
          /\ nodes' = [n \in Conn |-> Forgiven(nodes[n])]
      BY <1>3 DEF ClearFailedModulesForNodes, Halted, netVars, Idle
    <2>2. \A nd \in Node : SameJob(Forgiven(nd), nd)
      BY DEF Forgiven, SameJob, Node
    <2>3. \A i \in Conn : SameJob(nodes'[i], nodes[i]) /\ ~Freeing(i)
      BY <2>1, <2>2 DEF ServerTypeOK, Freeing
    <2> QED
      BY <2>1, <2>3, SameWait, SameLouder
  <1> QED
    BY <1>1, <1>2, <1>3, StopProcessWaits DEF User

---------------------------------------------------------------------------
(* Clients and sockets.                                                    *)

\* A step that leaves the server alone and loses no stop on an open connection.
LEMMA WireWaits ==
    ASSUME UNCHANGED serverVars,
           \A i \in Conn : link'[i] = "open" => /\ link[i] = "open"
                                                /\ Louder(toNode'[i], toNode[i])
                                                /\ Louder(toServer'[i], toServer[i])
    PROVE  \A i \in Conn : StillWaits(i)
  <1>1. UNCHANGED <<nodes, procs, scan>>
    BY DEF serverVars
  <1>2. \A i : Works(i) => Works(i)'
    BY <1>1 DEF Works
  <1>3. \A i : Freeing(i) => Freeing(i)'
    BY <1>1 DEF Freeing
  <1> QED
    BY <1>1, <1>2, <1>3 DEF StillWaits, SameJob

\* What a client sends loses no stop, nor what it receives, unless it is one.
LEMMA ClientLouder ==
    ASSUME WireTypeOK, NEW c \in Client
    PROVE  /\ (\E m : Reply(c, m)) \/ UNCHANGED toServer =>
                 \A i \in Conn : Louder(toServer'[i], toServer[i])
           /\ \A id : id # 124 /\ Gets(c, id) =>
                 /\ \A i \in Conn : Louder(toNode'[i], toNode[i])
                 /\ link' = link
  <1>1. toNode \in [Conn -> Seq(Message)] /\ toServer \in [Conn -> Seq(Message)]
    BY DEF WireTypeOK
  <1>2. (\E m : Reply(c, m)) \/ UNCHANGED toServer =>
           \A i \in Conn : Louder(toServer'[i], toServer[i])
    BY <1>1, SentLouder, SameLouder DEF Reply, ToServer
  <1>3. ASSUME NEW id, id # 124, Gets(c, id)
        PROVE  \A i \in Conn : Louder(toNode'[i], toNode[i])
    <2> DEFINE n == Connection(c)
    <2>1. /\ toNode' = [toNode EXCEPT ![n] = Tail(@)]
          /\ toNode[n] # <<>> /\ Head(toNode[n]).id # 124
      BY <1>3 DEF Gets
    <2> QED
      BY <1>1, <2>1, LouderOps
  <1> QED
    BY <1>2, <1>3 DEF Gets

\* A client that stops its module answers on the connection the stop came on.
LEMMA StopAnswerWaits ==
    ASSUME WireTypeOK, JobsSafe, UNCHANGED serverVars,
           NEW c \in Client, ReceivedRequestOnStopModule(c)
    PROVE  \A i \in Conn : StillWaits(i)
  <1> DEFINE n == Connection(c)
  <1>1. /\ n \in Conn
        /\ toNode \in [Conn -> Seq(Message)] /\ toServer \in [Conn -> Seq(Message)]
    BY ReplyTyped DEF ReceivedRequestOnStopModule, Gets, WireTypeOK
  <1>2. UNCHANGED <<nodes, procs, scan, link>>
    BY DEF serverVars, ReceivedRequestOnStopModule, Gets
  <1>3. /\ toNode[n] # <<>> /\ Head(toNode[n]).id = 124
        /\ toNode' = [toNode EXCEPT ![n] = Tail(@)]
    BY DEF ReceivedRequestOnStopModule, Gets
  <1>4. PICK m : m.id = 124 /\ toServer' = Sent(toServer, n, m)
    <2>1. \E m, st : Reply(c, Answer(124, m, st)) /\ Online(c)
      BY DEF ReceivedRequestOnStopModule, Gets
    <2>2. \A m, st : Answer(124, m, st).id = 124
      BY DEF Answer, Msg
    <2> QED
      BY <2>1, <2>2 DEF Reply, ToServer
  <1>5. ~Quiet(toNode[n])
    BY <1>1, <1>3, StopOps
  <1>6. StillWaits(n)
    <2>1. CASE ~Up(n)
      BY <1>2, <2>1 DEF StillWaits, Up
    <2>2. CASE Up(n)
      <3>1. nodes'[n].stoping
        BY <1>1, <1>2, <1>5, <2>2 DEF JobsSafe, StopsOnce
      <3>2. link'[n] = "open" => ~Quiet(toServer'[n])
        <4>1. ~Quiet(Append(toServer[n], m))
          <5>1. toServer[n] \in Seq(Message)
            BY <1>1
          <5> QED
            BY <1>4, <5>1, LouderOps
        <4>2. link[n] = "open" => toServer'[n] = Append(toServer[n], m)
          BY <1>1, <1>4 DEF Sent
        <4> QED
          BY <1>2, <4>1, <4>2
      <3> QED
        BY <3>1, <3>2 DEF StillWaits
    <2> QED
      BY <2>1, <2>2
  <1>7. ASSUME NEW i \in Conn, i # n
        PROVE  StillWaits(i)
    <2>1. toNode'[i] = toNode[i] /\ toServer'[i] = toServer[i]
      BY <1>1, <1>3, <1>4, <1>7 DEF Sent
    <2>2. Works(i) => Works(i)'
      BY <1>2 DEF Works
    <2> QED
      BY <1>2, <2>1, <2>2, SameLouder DEF StillWaits, SameJob, Freeing
  <1> QED
    BY <1>6, <1>7

\* The steps of a client.
LEMMA ClientWaits ==
    ASSUME WireTypeOK, JobsSafe, NEW c \in Client, ClientStep(c)
    PROVE  \A i \in Conn : StillWaits(i)
  <1>1. UNCHANGED serverVars
    BY DEF ClientStep
  <1>2. CASE ReceivedRequestOnStopModule(c)
    BY <1>1, <1>2, StopAnswerWaits
  <1>3. ASSUME (\E id : id # 124 /\ Gets(c, id)) \/ UNCHANGED <<link, toNode>>,
               (\E m : Reply(c, m)) \/ UNCHANGED toServer
        PROVE  \A i \in Conn : StillWaits(i)
    <2>1. \A i \in Conn : Louder(toServer'[i], toServer[i])
      BY <1>3, ClientLouder
    <2>2. link' = link /\ \A i \in Conn : Louder(toNode'[i], toNode[i])
      BY <1>3, ClientLouder, SameLouder
    <2> QED
      BY <1>1, <2>1, <2>2, WireWaits
  <1>4. CASE CheckAuthorization(c)
    BY <1>3, <1>4 DEF CheckAuthorization
  <1>5. CASE PrepareForStartModule(c)
    <2>1. Gets(c, 120) /\ \E m : Reply(c, m)
      BY <1>5 DEF PrepareForStartModule
    <2> QED
      BY <1>3, <2>1
  <1>6. CASE ReceivedInputParameters(c)
    <2>1. Gets(c, 121) /\ (UNCHANGED toServer \/ \E m : Reply(c, m))
      BY <1>6 DEF ReceivedInputParameters, Silent
    <2> QED
      BY <1>3, <2>1
  <1>7. CASE ConnectionClosed(c)
    <2>1. /\ link' = link /\ toServer' = toServer /\ link[Connection(c)] = "closed"
          /\ toNode' = [toNode EXCEPT ![Connection(c)] = <<>>]
      BY <1>7 DEF ConnectionClosed
    <2>2. \A i \in Conn : link[i] = "open" => toNode'[i] = toNode[i]
      BY <2>1 DEF WireTypeOK
    <2> QED
      BY <1>1, <2>1, <2>2, WireWaits, SameLouder
  <1>8. ASSUME NEW m, ModuleFinished(c, m) \/ ModuleCrashed(c, m)
        PROVE  \A i \in Conn : StillWaits(i)
    BY <1>3, <1>8 DEF ModuleFinished, ModuleCrashed, Silent, AllOutputParametersSent
  <1>9. ASSUME NEW m, ProcessExecutionTimeout(c, m)
        PROVE  \A i \in Conn : StillWaits(i)
    BY <1>3, <1>9 DEF ProcessExecutionTimeout
  <1>10. CASE Transfer(c) \/ OutputParameterSendFailed(c)
    BY <1>3, <1>10 DEF Transfer, OutputParametersSent, AllOutputParametersSent,
                       ArchiveSent, OutputParameterSendFailed, netVars
  <1> QED
    BY <1>2, <1>4, <1>5, <1>6, <1>7, <1>8, <1>9, <1>10
    DEF ClientStep, Request, Program, ProgramFails

\* The steps of sockets and clients together.
LEMMA SocketWaits ==
    ASSUME ServerTypeOK, WireTypeOK, JobsSafe, "inputSendFail" \notin May,
           \/ \E c \in Client : InputTransfer(c) \/ InputTransferFails(c)
           \/ \E c \in Client, n \in Conn : Connect(c, n)
           \/ \E n \in Conn : Break(n)
    PROVE  \A i \in Conn : StillWaits(i)
  <1>1. ASSUME NEW n \in Conn, InputParametersSent(n)
        PROVE  \A i \in Conn : StillWaits(i)
    <2>1. /\ \A i \in Conn : SameJob(nodes'[i], nodes[i])
          /\ UNCHANGED <<procs, link, toServer>> /\ \A i : ~Freeing(i)
      BY <1>1 DEF InputParametersSent, SameJob, ServerTypeOK, Node, Idle, Freeing
    <2>2. \A i \in Conn : Louder(toNode'[i], toNode[i])
      <3>1. toNode \in [Conn -> Seq(Message)]
        BY DEF WireTypeOK
      <3> QED
        BY <1>1, <3>1, SentLouder, SameLouder
        DEF InputParametersSent, SendInputParameters, ToNode
    <2> QED
      BY <2>1, <2>2, SameWait, SameLouder
  <1>2. ASSUME NEW c \in Client, NEW n \in Conn, Connect(c, n)
        PROVE  \A i \in Conn : StillWaits(i)
    <2>1. /\ nodes' = [nodes EXCEPT ![n] = NewNode("up")]
          /\ link' = [link EXCEPT ![n] = "open"]
          /\ toServer' = [toServer EXCEPT ![n] = <<Answer(100, NoModule, 1)>>]
          /\ UNCHANGED <<procs, toNode>> /\ ~scan.on
      BY <1>2 DEF Connect, IncomingConnection, Connected, Idle
    <2>2. StillWaits(n)
      BY <2>1 DEF StillWaits, NewNode, ServerTypeOK
    <2>3. ASSUME NEW i \in Conn, i # n
          PROVE  StillWaits(i)
      <3>1. /\ nodes'[i] = nodes[i] /\ link'[i] = link[i] /\ toServer'[i] = toServer[i]
        BY <2>1, <2>3 DEF ServerTypeOK, WireTypeOK
      <3>2. Works(i) => Works(i)'
        BY <2>1 DEF Works
      <3> QED
        BY <2>1, <3>1, <3>2, SameLouder DEF StillWaits, SameJob, Freeing
    <2> QED
      BY <2>2, <2>3
  <1>3. ASSUME NEW n \in Conn, Break(n)
        PROVE  \A i \in Conn : StillWaits(i)
    <2>1. UNCHANGED serverVars /\ link' = [link EXCEPT ![n] = "closed"]
      BY <1>3 DEF Break, Lose
    <2>2. \A i \in Conn : i # n => toNode'[i] = toNode[i] /\ toServer'[i] = toServer[i]
      BY <1>3 DEF Break, Lose, WireTypeOK
    <2> QED
      BY <2>1, <2>2, WireWaits, SameLouder DEF ServerTypeOK
  <1> QED
    BY <1>1, <1>2, <1>3 DEF InputTransfer, InputTransferFails, InputParameterSendFailed

---------------------------------------------------------------------------
(* Slots that are being stopped.                                           *)

\* The messages of new are of old, or are no close and stop, if anything, m.
Follows(new, old, m) ==
    \A i \in DOMAIN new : \/ \E j \in DOMAIN old : new[i] = old[j]
                          \/ new[i].id # 0 /\ (new[i].id = 124 => new[i].name = m)

\* What sending and receiving do.
LEMMA FollowsOps ==
    ASSUME NEW s \in Seq(Message), NEW m
    PROVE  /\ Follows(s, s, m)
           /\ s # <<>> => Follows(Tail(s), s, m)
           /\ \A a : a.id # 0 /\ (a.id = 124 => a.name = m) => Follows(Append(s, a), s, m)
           /\ s # <<>> /\ Orderly(s, m) =>
                 Head(s).id # 0 /\ (Head(s).id = 124 => Head(s).name = m)
  <1>1. Follows(s, s, m)
    BY DEF Follows
  <1>2. s # <<>> => Follows(Tail(s), s, m)
    <2>1. s # <<>> => \A i \in DOMAIN Tail(s) : i + 1 \in DOMAIN s /\ Tail(s)[i] = s[i + 1]
      OBVIOUS
    <2> QED
      BY <2>1 DEF Follows
  <1>3. ASSUME NEW a, a.id # 0, a.id = 124 => a.name = m
        PROVE  Follows(Append(s, a), s, m)
    <2>1. \A i \in DOMAIN Append(s, a) :
             Append(s, a)[i] = a \/ (i \in DOMAIN s /\ Append(s, a)[i] = s[i])
      OBVIOUS
    <2> QED
      BY <1>3, <2>1 DEF Follows
  <1>4. s # <<>> /\ Orderly(s, m) =>
           Head(s).id # 0 /\ (Head(s).id = 124 => Head(s).name = m)
    <2>1. s # <<>> => 1 \in DOMAIN s /\ Head(s) = s[1]
      OBVIOUS
    <2> QED
      BY <2>1 DEF Orderly
  <1> QED
    BY <1>1, <1>2, <1>3, <1>4

\* The slots of new that are being stopped were so in old, on the same node.
LeavesFrom(new, old) ==
    \A x \in Leaving(new) : /\ x \in Leaving(old)
                            /\ new.slots[x].node = old.slots[x].node
                            /\ SlotName(new, x) = SlotName(old, x)

\* An end leaves no slot of its module on its node.
LEMMA FinishLeaves ==
    ASSUME NEW pr, NEW n, NEW m, NEW st \in Ended
    PROVE  /\ LeavesFrom(FinishJob(pr, n, m, st), pr)
           /\ \A x \in Leaving(FinishJob(pr, n, m, st)) :
                 ~(pr.slots[x].node = n /\ SlotName(pr, x) = m)
  BY ZenonT(40)
  DEF FinishJob, EndedSlots, UnfinishedOn, Ended, LeavesFrom, Leaving, WithSlots,
      SlotName, StageOf

\* Only StopSlots stops slots, and the started ones it is asked for; a stage
\* that is entered has none.
LEMMA LeavesOps ==
    ASSUME NEW pr, NEW n, NEW X
    PROVE  /\ LeavesFrom(pr, pr)
           /\ LeavesFrom(ClearJob(pr, n), pr)
           /\ \A x : LeavesFrom(StartSlot(pr, x, n), pr)
           /\ \A x \in Leaving(StopSlots(pr, X)) :
                 /\ StopSlots(pr, X).slots[x].node = pr.slots[x].node
                 /\ SlotName(StopSlots(pr, X), x) = SlotName(pr, x)
                 /\ x \in Leaving(pr) \/ x \in X \intersect Started(pr)
           /\ \A s, k : Leaving(EnterStage(s, k)) = {}
           /\ LeavesFrom(Settle(pr), pr)
           /\ \A k : k # 0 => Leaving(Settle(WentTo(pr, k))) = {}
  <1> USE DEF LeavesFrom, Leaving, WithSlots, SlotName, StageOf
  <1>1. LeavesFrom(pr, pr)
    OBVIOUS
  <1>2. LeavesFrom(ClearJob(pr, n), pr)
    BY DEF ClearJob, StartedOn
  <1>3. \A x : LeavesFrom(StartSlot(pr, x, n), pr)
    BY DEF StartSlot
  <1>4. \A x \in Leaving(StopSlots(pr, X)) :
           /\ StopSlots(pr, X).slots[x].node = pr.slots[x].node
           /\ SlotName(StopSlots(pr, X), x) = SlotName(pr, x)
           /\ x \in Leaving(pr) \/ x \in X \intersect Started(pr)
    BY DEF StopSlots, Started
  <1>5. \A s, k : Leaving(EnterStage(s, k)) = {}
    BY DEF EnterStage, FreshSlot
  <1>6. \A q : LeavesFrom(Settle(q), q)
    BY <1>5 DEF Settle
  <1>7. ASSUME NEW k, k # 0
        PROVE  Leaving(Settle(WentTo(pr, k))) = {}
    <2>1. \A q : Leaving(q) = {} => Leaving(Settle(q)) = {}
      BY <1>6
    <2> QED
      BY <1>5, <1>7, <2>1 DEF WentTo
  <1> QED
    BY <1>1, <1>2, <1>3, <1>4, <1>5, <1>6, <1>7

\* After the step the connection of node n carries what it did, what names
\* the node's module, or nothing it is asked to stop.
ChannelsFollow(n) ==
    \/ nodes'[n].state # "up"
    \/ /\ Up(n)
       /\ nodes'[n].exec = nodes[n].exec \/ ~nodes'[n].stoping
       /\ Follows(toNode'[n], toNode[n], nodes'[n].exec)
       /\ Follows(toServer'[n], toServer[n], nodes'[n].exec)
    \/ toNode'[n] = <<>> /\ Follows(toServer'[n], <<>>, nodes'[n].exec)

\* That keeps the stops named.
LEMMA NamedStep ==
    ASSUME StopsNamed, StopsOnce', \A n \in Conn : ChannelsFollow(n)
    PROVE  StopsNamed'
  <1>1. ASSUME NEW n \in Conn, nodes'[n].state = "up"
        PROVE  Orderly(toNode'[n], nodes'[n].exec) /\ Orderly(toServer'[n], nodes'[n].exec)
    <2>1. CASE toNode'[n] = <<>> /\ Follows(toServer'[n], <<>>, nodes'[n].exec)
      BY <2>1 DEF Follows, Orderly
    <2>2. CASE /\ Up(n)
               /\ nodes'[n].exec = nodes[n].exec \/ ~nodes'[n].stoping
               /\ Follows(toNode'[n], toNode[n], nodes'[n].exec)
               /\ Follows(toServer'[n], toServer[n], nodes'[n].exec)
      <3>1. Orderly(toNode[n], nodes[n].exec) /\ Orderly(toServer[n], nodes[n].exec)
        BY <2>2 DEF StopsNamed
      <3>2. ~nodes'[n].stoping => Quiet(toNode'[n]) /\ Quiet(toServer'[n])
        BY <1>1 DEF StopsOnce, Up, Quiet
      <3> QED
        BY <2>2, <3>1, <3>2 DEF Follows, Orderly, Quiet
    <2> QED
      BY <1>1, <2>1, <2>2 DEF ChannelsFollow
  <1> QED
    BY <1>1 DEF StopsNamed, Up, Orderly

\* Node n keeps its job, unless it is not the node of a slot being stopped.
NodeFollows(n) ==
    SameJob(nodes'[n], nodes[n]) \/ ~Up(n) \/ ~nodes[n].stoping \/ ~Live(nodes[n].pid)

\* No process stops more slots than before.
SlotsFollow ==
    \A p \in DOMAIN procs' : \/ Leaving(procs'[p]) = {}
                             \/ p \in DOMAIN procs /\ LeavesFrom(procs'[p], procs[p])

\* That keeps the slots being stopped where they are.
LEMMA LeavesStep ==
    ASSUME LeavesPlaced, SlotsFollow, \A n \in Conn : NodeFollows(n)
    PROVE  LeavesPlaced'
  <1> SUFFICES ASSUME NEW p \in DOMAIN procs', NEW x \in Leaving(procs'[p])
               PROVE  LET n == procs'[p].slots[x].node
                      IN  /\ n \in Conn
                          /\ nodes'[n].state = "up" /\ nodes'[n].stoping
                          /\ nodes'[n].pid = p
                          /\ nodes'[n].exec = SlotName(procs'[p], x)
    BY DEF LeavesPlaced, LeavesSafely, Up, Leaving, SlotName, StageOf
  <1> DEFINE n == procs[p].slots[x].node
  <1>1. /\ p \in DOMAIN procs /\ x \in Leaving(procs[p])
        /\ procs'[p].slots[x].node = n /\ SlotName(procs'[p], x) = SlotName(procs[p], x)
    BY DEF SlotsFollow, LeavesFrom
  <1>2. /\ n \in Conn /\ Up(n) /\ nodes[n].stoping
        /\ nodes[n].pid = p /\ nodes[n].exec = SlotName(procs[p], x)
    BY <1>1 DEF LeavesPlaced, LeavesSafely
  <1>3. SameJob(nodes'[n], nodes[n])
    BY <1>1, <1>2 DEF NodeFollows, Live
  <1> HIDE DEF n
  <1> QED
    BY <1>1, <1>2, <1>3 DEF SameJob, Up

\* A step that neither frees nor stops a node, nor sends a stop.
LEMMA SameFollows ==
    ASSUME \A i \in Conn : /\ SameJob(nodes'[i], nodes[i])
                           /\ Follows(toNode'[i], toNode[i], nodes[i].exec)
                           /\ Follows(toServer'[i], toServer[i], nodes[i].exec)
    PROVE  \A i \in Conn : ChannelsFollow(i) /\ NodeFollows(i)
  BY DEF ChannelsFollow, NodeFollows, SameJob, Up

\* Neither do processes that stay.
LEMMA SameSlotsFollow ==
    procs' = procs => SlotsFollow
  BY LeavesOps DEF SlotsFollow

\* Receiving, sending what is no stop, and doing nothing to a channel.
LEMMA ChannelFollows ==
    ASSUME NEW chan \in [Conn -> Seq(Message)], NEW i \in Conn, NEW m
    PROVE  /\ Follows(chan[i], chan[i], m)
           /\ \A n : chan[n] # <<>> => Follows([chan EXCEPT ![n] = Tail(@)][i], chan[i], m)
           /\ \A n, a : a.id \notin {0, 124} => Follows(Sent(chan, n, a)[i], chan[i], m)
  <1>1. chan[i] \in Seq(Message)
    OBVIOUS
  <1>2. /\ Follows(chan[i], chan[i], m)
        /\ chan[i] # <<>> => Follows(Tail(chan[i]), chan[i], m)
        /\ \A a : a.id # 0 /\ (a.id = 124 => a.name = m) => Follows(Append(chan[i], a), chan[i], m)
    BY <1>1, FollowsOps
  <1>3. ASSUME NEW n, chan[n] # <<>>
        PROVE  Follows([chan EXCEPT ![n] = Tail(@)][i], chan[i], m)
    <2>1. [chan EXCEPT ![n] = Tail(@)][i] = IF i = n THEN Tail(chan[i]) ELSE chan[i]
      OBVIOUS
    <2> QED
      BY <1>2, <1>3, <2>1
  <1>4. ASSUME NEW n, NEW a, a.id \notin {0, 124}
        PROVE  Follows(Sent(chan, n, a)[i], chan[i], m)
    <2>1. Sent(chan, n, a)[i] = chan[i] \/ Sent(chan, n, a)[i] = Append(chan[i], a)
      BY DEF Sent
    <2>2. Follows(Append(chan[i], a), chan[i], m)
      BY <1>2, <1>4
    <2> QED
      BY <1>2, <2>1, <2>2
  <1> QED
    BY <1>2, <1>3, <1>4

\* The same, of the two channels of a connection.
LEMMA WireFollows ==
    ASSUME WireTypeOK, NEW i \in Conn, NEW m
    PROVE  /\ \A n, id : Receives(n, id) => Follows(toServer'[i], toServer[i], m)
           /\ UNCHANGED toServer => Follows(toServer'[i], toServer[i], m)
           /\ UNCHANGED toNode => Follows(toNode'[i], toNode[i], m)
           /\ \A n, a : ToNode(n, a) /\ a.id \notin {0, 124} =>
                 Follows(toNode'[i], toNode[i], m)
           /\ \A n : SendInputParameters(n) => Follows(toNode'[i], toNode[i], m)
  <1>1. toNode \in [Conn -> Seq(Message)] /\ toServer \in [Conn -> Seq(Message)]
    BY DEF WireTypeOK
  <1>2. \A n, id : Receives(n, id) => Follows(toServer'[i], toServer[i], m)
    BY <1>1, ChannelFollows DEF Receives
  <1>3. /\ UNCHANGED toServer => Follows(toServer'[i], toServer[i], m)
        /\ UNCHANGED toNode => Follows(toNode'[i], toNode[i], m)
    BY <1>1, ChannelFollows
  <1>4. \A n, a : ToNode(n, a) /\ a.id \notin {0, 124} => Follows(toNode'[i], toNode[i], m)
    BY <1>1, ChannelFollows DEF ToNode
  <1>5. \A n : SendInputParameters(n) =>
           UNCHANGED toNode \/ \E a : ToNode(n, a) /\ a.id \notin {0, 124}
    <2>1. \A e : Msg(121, e, 1, NoJob).id \notin {0, 124}
      BY DEF Msg
    <2> QED
      BY <2>1 DEF SendInputParameters
  <1> QED
    BY <1>2, <1>3, <1>4, <1>5

\* The node that gives its job up has no slot that is being stopped.
LEMMA GiveUpJobStops ==
    ASSUME ServerTypeOK, WireTypeOK, NEW n \in Conn, NEW m, Up(n), ~nodes[n].stoping,
           Live(nodes[n].pid), GiveUpJob(n, m),
           \A i \in Conn : \A e : Follows(toServer'[i], toServer[i], e)
    PROVE  SlotsFollow /\ \A i \in Conn : ChannelsFollow(i) /\ NodeFollows(i)
  <1> DEFINE p == nodes[n].pid
             nd == Cleared(Failed(nodes[n], m))
  <1>1. /\ nodes' = [nodes EXCEPT ![n] = nd]
        /\ procs' = [procs EXCEPT ![p] = ClearJob(procs[p], n)]
        /\ \A i \in Conn : \A e : Follows(toNode'[i], toNode[i], e)
    BY WireFollows DEF GiveUpJob
  <1>2. ~nd.stoping
    <2>1. nodes[n] \in Node
      BY DEF ServerTypeOK
    <2> QED
      BY <2>1 DEF Cleared, Failed, Node
  <1>3. \A i \in Conn : nodes'[i] = IF i = n THEN nd ELSE nodes[i]
    BY <1>1 DEF ServerTypeOK
  <1> HIDE DEF nd
  <1>4. ChannelsFollow(n) /\ NodeFollows(n)
    BY <1>1, <1>2, <1>3 DEF ChannelsFollow, NodeFollows
  <1>5. ASSUME NEW i \in Conn, i # n
        PROVE  ChannelsFollow(i) /\ NodeFollows(i)
    BY <1>1, <1>3, <1>5 DEF ChannelsFollow, NodeFollows, SameJob, Up
  <1>6. SlotsFollow
    BY <1>1, LeavesOps DEF SlotsFollow
  <1> QED
    BY <1>4, <1>5, <1>6

\* A stop that is sent names the module of the node it goes to.
LEMMA StoppingFollows ==
    ASSUME WireTypeOK, NEW orders, \A o \in orders : o[2] = nodes[o[1]].exec,
           toNode' = StoppingEach(toNode, orders)
    PROVE  \A i \in Conn : Follows(toNode'[i], toNode[i], nodes[i].exec)
  <1> SUFFICES ASSUME NEW i \in Conn
               PROVE  Follows(toNode'[i], toNode[i], nodes[i].exec)
    OBVIOUS
  <1>1. toNode[i] \in Seq(Message)
    BY DEF WireTypeOK
  <1>2. CASE ~(Ordered(i, orders) /\ link[i] = "open")
    <2>1. toNode'[i] = toNode[i]
      BY <1>2 DEF StoppingEach
    <2> QED
      BY <1>1, <2>1, FollowsOps
  <1>3. CASE Ordered(i, orders) /\ link[i] = "open"
    <2> DEFINE o == CHOOSE r \in orders : r[1] = i
               a == Msg(124, o[2], 1, NoJob)
    <2>1. o \in orders /\ o[1] = i
      BY <1>3 DEF Ordered
    <2>2. a.id = 124 /\ a.name = o[2]
      BY DEF Msg
    <2>3. toNode'[i] = Append(toNode[i], a)
      BY <1>3 DEF StoppingEach
    <2> HIDE DEF o, a
    <2>4. a.id # 0 /\ a.name = nodes[i].exec
      BY <2>1, <2>2
    <2> QED
      BY <1>1, <2>2, <2>3, <2>4, FollowsOps
  <1> QED
    BY <1>2, <1>3

\* An end leaves no slot of its module on its node, and the slots it stops
\* are on nodes that are told to.
LEMMA EndJobStops ==
    ASSUME ServerTypeOK, WireTypeOK, JobsSafe, NEW n \in Conn, NEW m, Up(n),
           NEW st \in Ended, NEW fb \in BOOLEAN, m = nodes[n].exec,
           Live(nodes[n].pid), EndJob(n, m, st, fb), fault' = "none",
           LeavesPlaced, \A i \in Conn : \A e : Follows(toServer'[i], toServer[i], e)
    PROVE  LeavesPlaced' /\ \A i \in Conn : ChannelsFollow(i)
  <1> DEFINE p == nodes[n].pid
             pr == procs[p]
             ended == FinishJob(pr, n, m, st)
  <1>1. PICK X \in IF EndedSlots(pr, n, m) # {} THEN PluginStops(pr) ELSE {{}},
             k \in IF EndedSlots(pr, n, m) # {} THEN PluginGotos(pr) ELSE {0} :
             LET asked == StopSlots(ended, X)
                 next == WentTo(asked, k)
                 orders == EndOrders(ended, X, k, n, fb)
             IN  /\ nodes' = [i \in Conn |->
                                LET nd == MarkStoping(nodes[i], orders, i)
                                IN  IF i = n THEN Released(nd, Completes(next), fb)
                                             ELSE nd]
                 /\ toNode' = Stopping(toNode, orders)
                 /\ \/ /\ Completes(next)
                       /\ procs' = Without(p)
                    \/ /\ ~Completes(next)
                       /\ procs' = [procs EXCEPT ![p] = Settle(next)]
    BY ZenonT(40) DEF EndJob, EndOrders, Halted
  <1> DEFINE asked == StopSlots(ended, X)
             next == WentTo(asked, k)
             orders == EndOrders(ended, X, k, n, fb)
             released == Released(nodes[n], Completes(next), fb)
  <1>2. /\ \A i \in Conn : nodes'[i] = LET nd == MarkStoping(nodes[i], orders, i)
                                      IN  IF i = n THEN Released(nd, Completes(next), fb)
                                                   ELSE nd
        /\ toNode' = Stopping(toNode, orders)
        /\ \/ procs' = Without(p)
           \/ procs' = [procs EXCEPT ![p] = Settle(next)]
    BY <1>1
  <1>3. /\ nodes \in [Conn -> Node]
        /\ p \in DOMAIN procs
        /\ Placed(p, pr) /\ LeavesSafely(p, pr)
    BY DEF ServerTypeOK, Live, JobsSafe, JobsPlaced, LeavesPlaced
  <1>4. Fewer(ended, pr) /\ Fewer(asked, pr)
    <2>1. Fewer(ended, pr) /\ Fewer(asked, ended)
      BY FewerOps
    <2> HIDE DEF ended, asked
    <2> QED
      BY <2>1, FewerTransitive
  <1>5. /\ \A x \in Started(ended) : x \in Started(pr) /\ pr.slots[x].node # n
        /\ LeavesFrom(ended, pr)
        /\ \A x \in Leaving(ended) : ~(pr.slots[x].node = n /\ SlotName(pr, x) = m)
    <2>1. \A x \in Started(ended) : ~(pr.slots[x].node = n /\ SlotName(pr, x) = m)
      BY FewerOps
    <2>2. /\ LeavesFrom(ended, pr)
          /\ \A x \in Leaving(ended) : ~(pr.slots[x].node = n /\ SlotName(pr, x) = m)
      BY FinishLeaves
    <2> HIDE DEF ended
    <2> QED
      BY <1>3, <1>4, <2>1, <2>2 DEF Fewer, Placed
  <1>6. ASSUME NEW o \in orders
        PROVE  o[2] = nodes[o[1]].exec /\ o[1] # n
    <2>1. PICK x \in Started(ended) : o = <<pr.slots[x].node, SlotName(pr, x), x>>
      BY <1>6, EndOrdersHitStarted
    <2>2. o[1] = pr.slots[x].node /\ o[2] = SlotName(pr, x)
      BY <2>1
    <2>3. x \in Started(pr) /\ pr.slots[x].node # n
      BY <1>5
    <2> QED
      BY <1>3, <2>2, <2>3 DEF Placed
  <1>7. nodes'[n] = released
    <2>1. ~Ordered(n, orders)
      BY <1>6 DEF Ordered
    <2> HIDE DEF orders, next
    <2> QED
      BY <1>2, <2>1 DEF MarkStoping
  <1>8. toNode' = StoppingEach(toNode, orders)
    <2>1. toNode \in [Conn -> Seq(Message)] /\ Single(orders)
      BY <1>3, EndOrdersSingle DEF WireTypeOK, JobsSafe
    <2> HIDE DEF orders
    <2> QED
      BY <1>2, <2>1, StoppingSingle
  <1>9. \A i \in Conn : i # n =>
           /\ nodes'[i].state = nodes[i].state /\ nodes'[i].pid = nodes[i].pid
           /\ nodes'[i].exec = nodes[i].exec
           /\ nodes[i].stoping \/ Ordered(i, orders) => nodes'[i].stoping
    <2>1. \A nd \in Node : \A i :
             LET new == MarkStoping(nd, orders, i)
             IN  /\ new.state = nd.state /\ new.pid = nd.pid /\ new.exec = nd.exec
                 /\ nd.stoping \/ Ordered(i, orders) => new.stoping
      <3> HIDE DEF orders
      <3> QED
        BY ZenonT(40) DEF MarkStoping, Node
    <2> HIDE DEF orders, released
    <2> QED
      BY <1>2, <1>3, <2>1
  <1>10. \A i \in Conn : ChannelsFollow(i)
    <2>1. \A i \in Conn : Follows(toNode'[i], toNode[i], nodes[i].exec)
      <3> HIDE DEF orders
      <3> QED
        BY <1>6, <1>8, StoppingFollows
    <2>2. \A i \in Conn : i # n => ChannelsFollow(i)
      BY <1>9, <2>1 DEF ChannelsFollow, Up
    <2> HIDE DEF released
    <2>3. ASSUME released = nodes[n]
          PROVE  ChannelsFollow(n)
      <3>1. nodes'[n] = nodes[n]
        BY <1>7, <2>3
      <3>2. /\ Up(n) /\ nodes'[n].exec = nodes[n].exec
            /\ Follows(toNode'[n], toNode[n], nodes'[n].exec)
            /\ Follows(toServer'[n], toServer[n], nodes'[n].exec)
        BY <2>1, <3>1
      <3> HIDE DEF p, pr
      <3> QED
        BY <3>2, Zenon DEF ChannelsFollow
    <2>4. ASSUME released = Cleared(nodes[n])
          PROVE  ChannelsFollow(n)
      <3>1. ~nodes'[n].stoping
        <4>1. nodes[n] \in Node
          BY <1>3
        <4> QED
          BY <1>7, <2>4, <4>1 DEF Cleared, Node
      <3>2. ~Ordered(n, orders)
        BY <1>6 DEF Ordered
      <3>3. toNode'[n] = toNode[n] /\ toNode[n] \in Seq(Message)
        <4> HIDE DEF orders
        <4> QED
          BY <1>2, <3>2 DEF Stopping, WireTypeOK
      <3>4. Follows(toNode'[n], toNode[n], nodes'[n].exec)
        BY <3>3, FollowsOps
      <3>5. Follows(toServer'[n], toServer[n], nodes'[n].exec)
        OBVIOUS
      <3>6. Up(n)
        OBVIOUS
      <3> HIDE DEF p, pr
      <3> QED
        BY <3>1, <3>4, <3>5, <3>6, Zenon DEF ChannelsFollow
    <2> QED
      BY <2>2, <2>3, <2>4 DEF released, Released
  <1>11. ASSUME NEW q \in DOMAIN procs', NEW x \in Leaving(procs'[q])
         PROVE  LET i == procs'[q].slots[x].node
                IN  /\ i \in Conn
                    /\ nodes'[i].state = "up" /\ nodes'[i].stoping
                    /\ nodes'[i].pid = q
                    /\ nodes'[i].exec = SlotName(procs'[q], x)
    <2> DEFINE i == procs'[q].slots[x].node
    <2>1. CASE q # p
      <3>1. q \in DOMAIN procs /\ procs'[q] = procs[q]
        BY <1>2, <2>1 DEF Without
      <3>2. /\ i \in Conn /\ Up(i) /\ nodes[i].stoping /\ nodes[i].pid = q
            /\ nodes[i].exec = SlotName(procs[q], x)
        BY <1>11, <3>1 DEF LeavesPlaced, LeavesSafely
      <3> HIDE DEF i
      <3> QED
        BY <1>9, <2>1, <3>1, <3>2 DEF Up, i
    <2>2. CASE q = p
      <3>1. procs'[p] = Settle(next)
        BY <1>2, <1>3, <1>11, <2>2 DEF Without
      <3>2. k = 0 /\ next = asked
        <4>1. k # 0 => Leaving(Settle(next)) = {}
          BY LeavesOps
        <4> HIDE DEF next, asked
        <4>2. k = 0
          BY <1>11, <2>2, <3>1, <4>1
        <4> QED
          BY <4>2 DEF next, WentTo
      <3>3. /\ x \in Leaving(asked) /\ i = asked.slots[x].node
            /\ SlotName(procs'[p], x) = SlotName(asked, x)
        <4>1. LeavesFrom(Settle(next), next)
          BY LeavesOps
        <4> HIDE DEF next, asked
        <4> QED
          BY <1>11, <2>2, <3>1, <3>2, <4>1 DEF LeavesFrom
      <3>4. /\ i = ended.slots[x].node /\ SlotName(asked, x) = SlotName(ended, x)
            /\ x \in Leaving(ended) \/ x \in X \intersect Started(ended)
        <4>1. \A y \in Leaving(asked) :
                 /\ asked.slots[y].node = ended.slots[y].node
                 /\ SlotName(asked, y) = SlotName(ended, y)
                 /\ y \in Leaving(ended) \/ y \in X \intersect Started(ended)
          BY LeavesOps
        <4> HIDE DEF asked, ended, i
        <4> QED
          BY <3>3, <4>1
      <3>5. CASE x \in Leaving(ended)
        <4>1. /\ LeavesFrom(ended, pr)
              /\ ~(pr.slots[x].node = n /\ SlotName(pr, x) = m)
          BY <1>5, <3>5
        <4> HIDE DEF ended, asked, i
        <4>2. x \in Leaving(pr) /\ i = pr.slots[x].node /\ SlotName(ended, x) = SlotName(pr, x)
          BY <3>4, <3>5, <4>1 DEF LeavesFrom
        <4>3. /\ i \in Conn /\ Up(i) /\ nodes[i].stoping /\ nodes[i].pid = p
              /\ nodes[i].exec = SlotName(pr, x)
          BY <1>3, <4>2 DEF LeavesSafely
        <4>4. i # n
          BY <4>1, <4>2, <4>3
        <4> QED
          BY <1>9, <2>2, <3>3, <3>4, <4>2, <4>3, <4>4 DEF Up, i
      <3>6. CASE x \in X \intersect Started(ended)
        <4> HIDE DEF ended, asked, i
        <4>1. /\ x \in Started(pr) /\ i = pr.slots[x].node /\ i # n
              /\ SlotName(ended, x) = SlotName(pr, x)
          BY <1>4, <1>5, <3>4, <3>6 DEF Fewer
        <4>2. /\ i \in Conn /\ Up(i) /\ nodes[i].pid = p
              /\ nodes[i].exec = SlotName(pr, x)
          BY <1>3, <4>1 DEF Placed
        <4>3. x \in StartedOn(ended, i)
          BY <3>4, <3>6 DEF Started, StartedOn
        <4>4. Ordered(i, StopOrders(ended, X))
          BY <1>3, <3>6, <4>2, <4>3, OrdersReach DEF Live
        <4>5. Ordered(i, orders)
          BY <4>1, <4>4 DEF Ordered, EndOrders
        <4> HIDE DEF orders
        <4> QED
          BY <1>9, <2>2, <3>3, <3>4, <4>1, <4>2, <4>5 DEF Up, i
      <3> QED
        BY <3>4, <3>5, <3>6
    <2> QED
      BY <2>1, <2>2
  <1>12. LeavesPlaced'
    BY <1>11 DEF LeavesPlaced, LeavesSafely, Up, Leaving, SlotName, StageOf
  <1> QED
    BY <1>10, <1>12

\* Handlers that end no job and lose no node.
LEMMA AnswerStops ==
    ASSUME ServerTypeOK, WireTypeOK, NEW n \in Conn,
           \/ IgnoreWhileStopping(n)
           \/ ReceiveAuthorizationRequest(n)
           \/ ReceiveModulesListRequest(n)
           \/ CheckPrepareForStartModule(n)
           \/ CheckInputParametersSending(n)
           \/ CheckModuleStarting(n)
    PROVE  SlotsFollow /\ \A i \in Conn : ChannelsFollow(i) /\ NodeFollows(i)
  <1>1. PICK id \in {100, 110, 120, 121, 122, 123} : Receives(n, id)
    BY DEF IgnoreWhileStopping, ReceiveAuthorizationRequest,
           ReceiveModulesListRequest, CheckPrepareForStartModule,
           CheckInputParametersSending, CheckModuleStarting, Hears
  <1>2. Up(n) /\ \A i \in Conn : \A e : Follows(toServer'[i], toServer[i], e)
    <2>1. Up(n)
      BY <1>1 DEF Receives
    <2> QED
      BY <1>1, <2>1, WireFollows
  <1>3. ASSUME procs' = procs,
               \A i \in Conn : /\ SameJob(nodes'[i], nodes[i])
                               /\ \A e : Follows(toNode'[i], toNode[i], e)
        PROVE  SlotsFollow /\ \A i \in Conn : ChannelsFollow(i) /\ NodeFollows(i)
    BY <1>2, <1>3, SameFollows, SameSlotsFollow
  <1>4. UNCHANGED nodes => \A i \in Conn : SameJob(nodes'[i], nodes[i])
    BY DEF SameJob
  <1>5. UNCHANGED toNode \/ SendInputParameters(n) =>
           \A i \in Conn : \A e : Follows(toNode'[i], toNode[i], e)
    BY WireFollows
  <1>6. ASSUME Ignore
        PROVE  SlotsFollow /\ \A i \in Conn : ChannelsFollow(i) /\ NodeFollows(i)
    BY <1>3, <1>4, <1>5, <1>6 DEF Ignore
  <1>7. ASSUME NEW m, ~nodes[n].stoping, Live(nodes[n].pid), GiveUpJob(n, m)
        PROVE  SlotsFollow /\ \A i \in Conn : ChannelsFollow(i) /\ NodeFollows(i)
    BY <1>2, <1>7, GiveUpJobStops
  <1>8. CASE IgnoreWhileStopping(n)
    BY <1>6, <1>8 DEF IgnoreWhileStopping
  <1>9. CASE ReceiveAuthorizationRequest(n)
    <2>1. Msg(100, NoModule, 1, NoJob).id \notin {0, 124}
      BY DEF Msg
    <2>2. \A i \in Conn : \A e : Follows(toNode'[i], toNode[i], e)
      BY <1>9, <2>1, WireFollows DEF ReceiveAuthorizationRequest
    <2>3. UNCHANGED <<nodes, procs>>
      BY <1>9 DEF ReceiveAuthorizationRequest
    <2> QED
      BY <1>3, <1>4, <2>2, <2>3
  <1>10. CASE ReceiveModulesListRequest(n)
    <2>1. \A i \in Conn : SameJob(nodes'[i], nodes[i])
      BY <1>10 DEF ReceiveModulesListRequest, Listed, SameJob, ServerTypeOK, Node
    <2>2. UNCHANGED <<procs, toNode>>
      BY <1>10 DEF ReceiveModulesListRequest
    <2> QED
      BY <1>3, <1>5, <2>1, <2>2
  <1>11. CASE CheckPrepareForStartModule(n)
    <2>1. CASE Ignore \/ \E m : Live(nodes[n].pid) /\ GiveUpJob(n, m)
      BY <1>6, <1>7, <1>11, <2>1 DEF CheckPrepareForStartModule, Hears
    <2>2. CASE /\ \E m : nodes' = [nodes EXCEPT ![n].sending = m]
               /\ UNCHANGED toNode \/ SendInputParameters(n)
               /\ procs' = procs
      <3>1. \A i \in Conn : SameJob(nodes'[i], nodes[i])
        BY <2>2 DEF SameJob, ServerTypeOK, Node
      <3> QED
        BY <1>3, <1>5, <2>2, <3>1
    <2> QED
      BY <1>11, <2>1, <2>2 DEF CheckPrepareForStartModule
  <1>12. CASE CheckInputParametersSending(n)
    BY <1>6, <1>7, <1>12 DEF CheckInputParametersSending, Hears
  <1>13. CASE CheckModuleStarting(n)
    BY <1>6, <1>7, <1>13 DEF CheckModuleStarting, Hears
  <1> QED
    BY <1>8, <1>9, <1>10, <1>11, <1>12, <1>13

\* Every handler.  Without a close that is queued no node is forgotten, and an
\* answer to a stop names the module of its node.
LEMMA HandlerStops ==
    ASSUME ServerTypeOK, WireTypeOK, JobsSafe, StopsNamed, LeavesPlaced,
           "outputLost" \notin May, NEW n \in Conn, Handler(n), fault' = "none"
    PROVE  LeavesPlaced' /\ \A i \in Conn : ChannelsFollow(i)
  <1>1. ASSUME SlotsFollow, \A i \in Conn : ChannelsFollow(i) /\ NodeFollows(i)
        PROVE  LeavesPlaced' /\ \A i \in Conn : ChannelsFollow(i)
    BY <1>1, LeavesStep
  <1>2. \A id : Receives(n, id) =>
           /\ Up(n)
           /\ \A i \in Conn : \A e : Follows(toServer'[i], toServer[i], e)
    <2>1. \A id : Receives(n, id) => Up(n)
      BY DEF Receives
    <2> QED
      BY <2>1, WireFollows
  <1>3. ASSUME Up(n), toServer[n] # <<>>
        PROVE  /\ Head(toServer[n]).id # 0
               /\ Head(toServer[n]).id = 124 => Head(toServer[n]).name = nodes[n].exec
    <2>1. toServer[n] \in Seq(Message) /\ Orderly(toServer[n], nodes[n].exec)
      BY <1>3 DEF WireTypeOK, StopsNamed
    <2> QED
      BY <1>3, <2>1, FollowsOps
  <1>4. CASE ModuleExecutionEnded(n)
    <2> DEFINE m == Head(toServer[n]).name
    <2>1. Receives(n, 123) /\ ~nodes[n].stoping
      BY <1>4 DEF ModuleExecutionEnded, Hears
    <2>2. Up(n) /\ \A i \in Conn : \A e : Follows(toServer'[i], toServer[i], e)
      BY <1>2, <2>1
    <2>3. CASE Ignore
      <3>1. \A i \in Conn : /\ SameJob(nodes'[i], nodes[i])
                            /\ Follows(toNode'[i], toNode[i], nodes[i].exec)
        BY <2>3, WireFollows DEF Ignore, SameJob
      <3> QED
        BY <1>1, <2>2, <2>3, <3>1, SameFollows, SameSlotsFollow DEF Ignore
    <2>4. CASE Live(nodes[n].pid) /\ GiveUpJob(n, m)
      BY <1>1, <2>1, <2>2, <2>4, GiveUpJobStops
    <2>5. CASE /\ m = nodes[n].exec /\ Live(nodes[n].pid)
               /\ \E st \in Ended : EndJob(n, m, st, FALSE)
      BY <2>2, <2>5, EndJobStops
    <2> QED
      BY <1>4, <2>3, <2>4, <2>5 DEF ModuleExecutionEnded, Ended
  <1>5. CASE CheckModuleStoping(n)
    <2> DEFINE m == Head(toServer[n]).name
    <2>1. Receives(n, 124)
      BY <1>5 DEF CheckModuleStoping
    <2>2. Up(n) /\ \A i \in Conn : \A e : Follows(toServer'[i], toServer[i], e)
      BY <1>2, <2>1
    <2>3. m = nodes[n].exec
      BY <1>3, <2>1 DEF Receives
    <2>4. CASE Live(nodes[n].pid)
      <3>1. "done" \in Ended
        BY DEF Ended
      <3>2. PICK fb \in BOOLEAN : EndJob(n, m, "done", fb)
        BY <1>5, <2>4 DEF CheckModuleStoping
      <3> HIDE DEF m
      <3> QED
        BY <2>2, <2>3, <2>4, <3>1, <3>2, EndJobStops
    <2>5. CASE ~Live(nodes[n].pid)
      <3>1. /\ nodes' = [nodes EXCEPT ![n] = Cleared(@)]
            /\ procs' = procs /\ toNode' = toNode
        BY <1>5, <2>5 DEF CheckModuleStoping
      <3>2. \A i \in Conn : \A e : Follows(toNode'[i], toNode[i], e)
        BY <3>1, WireFollows
      <3>3. ChannelsFollow(n) /\ NodeFollows(n)
        <4>1. nodes'[n] = Cleared(nodes[n]) /\ nodes[n] \in Node
          BY <3>1 DEF ServerTypeOK
        <4>2. ~nodes'[n].stoping
          BY <4>1 DEF Cleared, Node
        <4> QED
          BY <2>2, <2>5, <3>2, <4>2 DEF ChannelsFollow, NodeFollows
      <3>4. ASSUME NEW i \in Conn, i # n
            PROVE  ChannelsFollow(i) /\ NodeFollows(i)
        <4>1. nodes'[i] = nodes[i]
          BY <3>1, <3>4 DEF ServerTypeOK
        <4> QED
          BY <2>2, <3>2, <4>1 DEF ChannelsFollow, NodeFollows, SameJob, Up
      <3> QED
        BY <1>1, <3>1, <3>3, <3>4, SameSlotsFollow
    <2> QED
      BY <2>4, <2>5
  <1>6. ~NodeDisconnected(n)
    BY <1>3 DEF NodeDisconnected
  <1>7. CASE LateEvent(n)
    <2>1. /\ UNCHANGED <<nodes, procs, toNode>> /\ nodes[n].state = "null"
          /\ toServer' = [toServer EXCEPT ![n] = Tail(@)] /\ toServer[n] # <<>>
      BY <1>7 DEF LateEvent
    <2>2. toServer \in [Conn -> Seq(Message)]
      BY DEF WireTypeOK
    <2>3. \A i \in Conn : /\ SameJob(nodes'[i], nodes[i])
                          /\ Follows(toNode'[i], toNode[i], nodes[i].exec)
                          /\ Follows(toServer'[i], toServer[i], nodes[i].exec)
      BY <2>1, <2>2, ChannelFollows, WireFollows DEF SameJob
    <2> QED
      BY <1>1, <2>1, <2>3, SameFollows, SameSlotsFollow
  <1> QED
    BY <1>1, <1>4, <1>5, <1>6, <1>7, AnswerStops DEF Handler

\* The loop gives jobs to nodes that are free, and so not being stopped.
LEMMA GiveJobStops ==
    ASSUME ServerTypeOK, WireTypeOK, JobsSafe, GiveJob, fault' = "none"
    PROVE  SlotsFollow /\ \A i \in Conn : ChannelsFollow(i) /\ NodeFollows(i)
  <1>1. PICK o \in Offers :
          LET p == o[1]
              n == o[2]
              pr == Settle(procs[p])
          IN  \/ /\ procs' = [procs EXCEPT ![p] = pr]
                 /\ UNCHANGED <<nodes, toNode>>
              \/ \E x \in Offered(pr, Able(nodes[n])) :
                    /\ procs' = [procs EXCEPT ![p] = StartSlot(pr, x, n)]
                    /\ nodes' = [nodes EXCEPT ![n] = Assigned(@, p, pr, x)]
                    /\ ToNode(n, Msg(120, SlotName(pr, x), 1, Job(p, pr, x)))
    BY DEF GiveJob, Halted
  <1> DEFINE p == o[1]
             n == o[2]
             pr == Settle(procs[p])
  <1>2. /\ p \in DOMAIN procs /\ n \in Conn /\ Up(n) /\ ~nodes[n].busy
        /\ ~nodes[n].stoping
    BY DEF Offers, FreeNodes, JobsSafe, NodesBusy
  <1>3. \A i \in Conn : \A e : Follows(toServer'[i], toServer[i], e)
    BY WireFollows DEF GiveJob
  <1>4. /\ LeavesFrom(pr, procs[p])
        /\ \A q : LeavesFrom(q, q)
        /\ \A x : LeavesFrom(StartSlot(pr, x, n), procs[p])
    <2>1. LeavesFrom(pr, procs[p]) /\ \A x : LeavesFrom(StartSlot(pr, x, n), pr)
      BY LeavesOps
    <2> HIDE DEF pr, n, p
    <2>2. \A x : LeavesFrom(StartSlot(pr, x, n), procs[p])
      BY <2>1 DEF LeavesFrom
    <2> QED
      BY <2>1, <2>2, LeavesOps
  <1> HIDE DEF p, n, pr
  <1>5. SlotsFollow
    BY <1>1, <1>2, <1>4 DEF SlotsFollow, p, n, pr
  <1>6. CASE UNCHANGED <<nodes, toNode>>
    <2>1. \A i \in Conn : SameJob(nodes'[i], nodes[i]) /\ \A e : Follows(toNode'[i], toNode[i], e)
      BY <1>6, WireFollows DEF SameJob
    <2> QED
      BY <1>3, <1>5, <2>1, SameFollows
  <1>7. ASSUME NEW x, nodes' = [nodes EXCEPT ![n] = Assigned(@, p, pr, x)],
               ToNode(n, Msg(120, SlotName(pr, x), 1, Job(p, pr, x)))
        PROVE  SlotsFollow /\ \A i \in Conn : ChannelsFollow(i) /\ NodeFollows(i)
    <2> DEFINE a == Msg(120, SlotName(pr, x), 1, Job(p, pr, x))
    <2>1. a.id \notin {0, 124} /\ ToNode(n, a)
      BY <1>7 DEF Msg
    <2> HIDE DEF a
    <2>2. \A i \in Conn : \A e : Follows(toNode'[i], toNode[i], e)
      BY <2>1, WireFollows
    <2>3. ChannelsFollow(n) /\ NodeFollows(n)
      <3>1. nodes[n] \in Node /\ nodes'[n] = Assigned(nodes[n], p, pr, x)
        BY <1>2, <1>7 DEF ServerTypeOK
      <3>2. ~nodes'[n].stoping
        BY <1>2, <3>1, AssignedJob
      <3> QED
        BY <1>2, <1>3, <2>2, <3>2 DEF ChannelsFollow, NodeFollows
    <2>4. ASSUME NEW i \in Conn, i # n
          PROVE  ChannelsFollow(i) /\ NodeFollows(i)
      <3>1. nodes'[i] = nodes[i]
        BY <1>7, <2>4 DEF ServerTypeOK
      <3> QED
        BY <1>3, <2>2, <3>1 DEF ChannelsFollow, NodeFollows, SameJob, Up
    <2> QED
      BY <1>5, <2>3, <2>4
  <1> QED
    BY <1>1, <1>6, <1>7 DEF p, n, pr

\* The node the loop frees has lost its process.
LEMMA EndScanStops ==
    ASSUME ServerTypeOK, WireTypeOK, JobsSafe, EndScan
    PROVE  SlotsFollow /\ \A i \in Conn : ChannelsFollow(i) /\ NodeFollows(i)
  <1>1. UNCHANGED <<procs, toNode, toServer>> /\ scan.on
    BY DEF EndScan, netVars
  <1>2. \A i \in Conn : \A e : /\ Follows(toNode'[i], toNode[i], e)
                               /\ Follows(toServer'[i], toServer[i], e)
    BY <1>1, WireFollows
  <1>3. ASSUME NEW i \in Conn
        PROVE  ChannelsFollow(i) /\ NodeFollows(i)
    <2>1. CASE scan.again /\ i = scan.free
      <3>1. nodes'[i] = Cleared(nodes[i]) /\ nodes[i] \in Node
        BY <2>1 DEF EndScan, ServerTypeOK
      <3>2. ~nodes'[i].stoping /\ nodes'[i].state = nodes[i].state
        BY <3>1 DEF Cleared, Node
      <3>3. ~Live(nodes[i].pid)
        BY <1>1, <2>1 DEF JobsSafe, FreeingSafe, Freeing
      <3> QED
        BY <1>2, <3>2, <3>3 DEF ChannelsFollow, NodeFollows, Up
    <2>2. CASE ~(scan.again /\ i = scan.free)
      <3>1. nodes'[i] = nodes[i]
        BY <2>2 DEF EndScan
      <3> QED
        BY <1>2, <3>1 DEF ChannelsFollow, NodeFollows, SameJob, Up
    <2> QED
      BY <2>1, <2>2
  <1> QED
    BY <1>1, <1>3, SameSlotsFollow

\* The nodes of a process that is stopped work: none is being stopped.
LEMMA StopProcessStops ==
    ASSUME ServerTypeOK, WireTypeOK, JobsSafe, NEW p \in Pid, StopProcess(p)
    PROVE  SlotsFollow /\ \A i \in Conn : ChannelsFollow(i) /\ NodeFollows(i)
  <1> DEFINE orders == FreeOrders(procs[p])
  <1>1. /\ p \in DOMAIN procs /\ procs' = Without(p)
        /\ toNode' = Stopping(toNode, orders) /\ toServer' = toServer
        /\ \A i \in Conn : nodes'[i] = MarkStoping(nodes[i], orders, i)
        /\ Placed(p, procs[p])
    BY DEF StopProcess, Live, JobsSafe, JobsPlaced
  <1>2. SlotsFollow
    BY <1>1, LeavesOps DEF SlotsFollow, Without
  <1>3. \A o \in orders : o[2] = nodes[o[1]].exec /\ ~nodes[o[1]].stoping
    BY <1>1 DEF FreeOrders, Orders, Placed
  <1>4. toNode' = StoppingEach(toNode, orders)
    BY <1>1, FreeOrdersSingle, StoppingSingle DEF JobsSafe, WireTypeOK
  <1> HIDE DEF orders
  <1>5. \A i \in Conn : Follows(toNode'[i], toNode[i], nodes[i].exec)
    BY <1>3, <1>4, StoppingFollows
  <1>6. \A i \in Conn : Follows(toServer'[i], toServer[i], nodes[i].exec)
    BY <1>1, WireFollows
  <1>7. ASSUME NEW i \in Conn
        PROVE  ChannelsFollow(i) /\ NodeFollows(i)
    <2>1. nodes[i] \in Node
      BY DEF ServerTypeOK
    <2>2. /\ nodes'[i].exec = nodes[i].exec /\ nodes'[i].state = nodes[i].state
          /\ nodes'[i] = nodes[i] \/ Ordered(i, orders)
      BY <1>1, <2>1, ZenonT(40) DEF MarkStoping, Node
    <2>3. Ordered(i, orders) => ~nodes[i].stoping
      BY <1>3 DEF Ordered
    <2> QED
      BY <1>5, <1>6, <2>2, <2>3 DEF ChannelsFollow, NodeFollows, SameJob, Up
  <1> QED
    BY <1>2, <1>7

\* The requests of a user who disconnects no node.
LEMMA UserStops ==
    ASSUME ServerTypeOK, WireTypeOK, JobsSafe, "rpcDisconnect" \notin May, User
    PROVE  SlotsFollow /\ \A i \in Conn : ChannelsFollow(i) /\ NodeFollows(i)
  <1>1. ASSUME NEW s \in Scheme, StartProcess(s)
        PROVE  SlotsFollow /\ \A i \in Conn : ChannelsFollow(i) /\ NodeFollows(i)
    <2>1. UNCHANGED <<nodes, toNode, toServer>>
      BY <1>1 DEF StartProcess, netVars
    <2>2. \A i \in Conn : /\ SameJob(nodes'[i], nodes[i])
                          /\ Follows(toNode'[i], toNode[i], nodes[i].exec)
                          /\ Follows(toServer'[i], toServer[i], nodes[i].exec)
      BY <2>1, WireFollows DEF SameJob
    <2>3. Leaving(Settle(EnterStage(s, 1))) = {}
      BY LeavesOps DEF LeavesFrom
    <2>4. SlotsFollow
      <3>1. \A q \in DOMAIN procs' : \/ q \in DOMAIN procs /\ procs'[q] = procs[q]
                                     \/ procs'[q] = Settle(EnterStage(s, 1))
        BY <1>1 DEF StartProcess
      <3> QED
        BY <2>3, <3>1, LeavesOps DEF SlotsFollow
    <2> QED
      BY <2>2, <2>4, SameFollows
  <1>2. CASE ClearFailedModulesForNodes
    <2>1. /\ UNCHANGED <<procs, toNode, toServer>>
          /\ nodes' = nodes \/ nodes' = [n \in Conn |-> Forgiven(nodes[n])]
      BY <1>2 DEF ClearFailedModulesForNodes, netVars
    <2>2. \A nd \in Node : SameJob(Forgiven(nd), nd) /\ SameJob(nd, nd)
      BY DEF Forgiven, SameJob, Node
    <2>3. \A i \in Conn : /\ SameJob(nodes'[i], nodes[i])
                          /\ Follows(toNode'[i], toNode[i], nodes[i].exec)
                          /\ Follows(toServer'[i], toServer[i], nodes[i].exec)
      BY <2>1, <2>2, WireFollows DEF ServerTypeOK
    <2> QED
      BY <2>1, <2>3, SameFollows, SameSlotsFollow
  <1> QED
    BY <1>1, <1>2, StopProcessStops DEF User, DisconnectNode

\* A step that leaves the server alone.
LEMMA WireStops ==
    ASSUME UNCHANGED serverVars,
           \A i \in Conn : Up(i) => /\ Follows(toNode'[i], toNode[i], nodes[i].exec)
                                    /\ Follows(toServer'[i], toServer[i], nodes[i].exec)
    PROVE  SlotsFollow /\ \A i \in Conn : ChannelsFollow(i) /\ NodeFollows(i)
  <1>1. nodes' = nodes /\ procs' = procs
    BY DEF serverVars
  <1>2. SlotsFollow
    BY <1>1, SameSlotsFollow
  <1> QED
    BY <1>1, <1>2 DEF ChannelsFollow, NodeFollows, SameJob, Up

\* What a client sends is no close and, but for its answer to a stop, no stop;
\* what it receives was under way.
LEMMA ClientFollows ==
    ASSUME WireTypeOK, NEW c \in Client, NEW i \in Conn, NEW e
    PROVE  /\ UNCHANGED toServer => Follows(toServer'[i], toServer[i], e)
           /\ UNCHANGED toNode => Follows(toNode'[i], toNode[i], e)
           /\ \A m : Reply(c, m) /\ m.id \notin {0, 124} =>
                 Follows(toServer'[i], toServer[i], e)
           /\ \A id : Gets(c, id) => Follows(toNode'[i], toNode[i], e)
  <1>1. toNode \in [Conn -> Seq(Message)] /\ toServer \in [Conn -> Seq(Message)]
    BY DEF WireTypeOK
  <1>2. \A m : Reply(c, m) /\ m.id \notin {0, 124} => Follows(toServer'[i], toServer[i], e)
    BY <1>1, ChannelFollows DEF Reply, ToServer
  <1>3. \A id : Gets(c, id) => Follows(toNode'[i], toNode[i], e)
    BY <1>1, ChannelFollows DEF Gets
  <1> QED
    BY <1>1, <1>2, <1>3, ChannelFollows

\* A client answers a stop with the module it names.
LEMMA StopAnswerStops ==
    ASSUME WireTypeOK, StopsNamed, UNCHANGED serverVars,
           NEW c \in Client, ReceivedRequestOnStopModule(c)
    PROVE  SlotsFollow /\ \A i \in Conn : ChannelsFollow(i) /\ NodeFollows(i)
  <1> DEFINE n == Connection(c)
             m == Head(toNode[n]).name
  <1>1. /\ n \in Conn
        /\ toNode \in [Conn -> Seq(Message)] /\ toServer \in [Conn -> Seq(Message)]
    BY ReplyTyped DEF ReceivedRequestOnStopModule, Gets, WireTypeOK
  <1>2. toNode[n] # <<>> /\ Head(toNode[n]).id = 124 /\ Gets(c, 124) /\ Online(c)
    BY DEF ReceivedRequestOnStopModule, Gets
  <1>3. PICK a : a.id = 124 /\ a.name = m /\ toServer' = Sent(toServer, n, a)
    <2>1. PICK st : Reply(c, Answer(124, m, st))
      BY DEF ReceivedRequestOnStopModule
    <2>2. Answer(124, m, st).id = 124 /\ Answer(124, m, st).name = m
      BY DEF Answer, Msg
    <2>3. toServer' = Sent(toServer, n, Answer(124, m, st))
      BY <1>2, <2>1 DEF Reply, ToServer
    <2> QED
      BY <2>2, <2>3
  <1>4. Up(n) => m = nodes[n].exec
    <2>1. toNode[n] \in Seq(Message) /\ (Up(n) => Orderly(toNode[n], nodes[n].exec))
      BY <1>1 DEF StopsNamed
    <2> QED
      BY <1>2, <2>1, FollowsOps
  <1> HIDE DEF m
  <1>5. ASSUME NEW i \in Conn, Up(i)
        PROVE  Follows(toServer'[i], toServer[i], nodes[i].exec)
    <2>1. toServer'[i] = toServer[i] \/ (i = n /\ toServer'[i] = Append(toServer[i], a))
      BY <1>1, <1>3 DEF Sent
    <2>2. toServer[i] \in Seq(Message)
      BY <1>1
    <2>3. Follows(toServer[i], toServer[i], nodes[i].exec)
      BY <2>2, FollowsOps
    <2>4. i = n => Follows(Append(toServer[i], a), toServer[i], nodes[i].exec)
      BY <1>3, <1>4, <1>5, <2>2, FollowsOps
    <2> QED
      BY <2>1, <2>3, <2>4
  <1>6. ASSUME NEW i \in Conn, NEW e
        PROVE  Follows(toNode'[i], toNode[i], e)
    <2>1. toNode'[i] = toNode[i] \/ (i = n /\ toNode'[i] = Tail(toNode[i]))
      BY <1>1 DEF ReceivedRequestOnStopModule, Gets
    <2>2. toNode[i] \in Seq(Message)
      BY <1>1
    <2> HIDE DEF n
    <2> QED
      BY <1>2, <2>1, <2>2, FollowsOps
  <1> QED
    BY <1>5, <1>6, WireStops

\* The steps of a client.
LEMMA ClientStops ==
    ASSUME WireTypeOK, StopsNamed, NEW c \in Client, ClientStep(c)
    PROVE  SlotsFollow /\ \A i \in Conn : ChannelsFollow(i) /\ NodeFollows(i)
  <1>1. UNCHANGED serverVars
    BY DEF ClientStep
  <1>2. CASE ReceivedRequestOnStopModule(c)
    BY <1>1, <1>2, StopAnswerStops
  <1>3. ASSUME (\E id : Gets(c, id)) \/ UNCHANGED toNode,
               (\E m : Reply(c, m) /\ m.id \notin {0, 124}) \/ UNCHANGED toServer
        PROVE  SlotsFollow /\ \A i \in Conn : ChannelsFollow(i) /\ NodeFollows(i)
    <2>1. \A i \in Conn : \A e : /\ Follows(toServer'[i], toServer[i], e)
                                 /\ Follows(toNode'[i], toNode[i], e)
      BY <1>3, ClientFollows
    <2> QED
      BY <1>1, <2>1, WireStops
  <1>4. \A id, m, st : Answer(id, m, st).id = id
    BY DEF Answer, Msg
  <1>5. CASE CheckAuthorization(c)
    <2>1. ModulesList(ClientModules[c]).id \notin {0, 124}
      BY DEF ModulesList
    <2> QED
      BY <1>3, <1>5, <2>1 DEF CheckAuthorization
  <1>6. CASE PrepareForStartModule(c)
    <2>1. Gets(c, 120) /\ \E m, st : Reply(c, Answer(120, m, st))
      BY <1>6 DEF PrepareForStartModule
    <2> QED
      BY <1>3, <1>4, <2>1
  <1>7. CASE ReceivedInputParameters(c)
    <2>1. /\ Gets(c, 121)
          /\ \/ UNCHANGED toServer
             \/ \E id \in {121, 122} : \E m, st : Reply(c, Answer(id, m, st))
      BY <1>7 DEF ReceivedInputParameters, Silent
    <2> QED
      BY <1>3, <1>4, <2>1
  <1>8. CASE ConnectionClosed(c)
    <2>1. /\ toServer' = toServer
          /\ toNode' = [toNode EXCEPT ![Connection(c)] = <<>>]
      BY <1>8 DEF ConnectionClosed
    <2>2. \A i \in Conn : toNode'[i] = toNode[i] \/ toNode'[i] = <<>>
      BY <2>1 DEF WireTypeOK
    <2>3. \A i \in Conn : \A e : /\ Follows(<<>>, toNode[i], e)
                                 /\ Follows(toNode[i], toNode[i], e)
      BY DEF Follows
    <2>4. \A i \in Conn : \A e : Follows(toServer'[i], toServer[i], e)
      BY <2>1 DEF Follows
    <2> QED
      BY <1>1, <2>2, <2>3, <2>4, WireStops
  <1>9. ASSUME NEW m, ModuleFinished(c, m) \/ ModuleCrashed(c, m)
        PROVE  SlotsFollow /\ \A i \in Conn : ChannelsFollow(i) /\ NodeFollows(i)
    <2>1. /\ UNCHANGED toNode
          /\ UNCHANGED toServer \/ \E e : Reply(c, Answer(123, e, 1))
      BY <1>9 DEF ModuleFinished, ModuleCrashed, Silent, AllOutputParametersSent
    <2> QED
      BY <1>3, <1>4, <2>1
  <1>10. ASSUME NEW m, ProcessExecutionTimeout(c, m)
         PROVE  SlotsFollow /\ \A i \in Conn : ChannelsFollow(i) /\ NodeFollows(i)
    <2>1. UNCHANGED toNode /\ Reply(c, Answer(123, m, 2))
      BY <1>10 DEF ProcessExecutionTimeout
    <2> QED
      BY <1>3, <1>4, <2>1
  <1>11. CASE Transfer(c) \/ OutputParameterSendFailed(c)
    <2>1. client[c].msg # NoMsg => client[c].msg.id \notin {0, 124}
      <3>1. client[c].msg \in MessagesWith({122, 123}) \union {NoMsg}
        BY DEF WireTypeOK, ClientState
      <3>2. \A m \in MessagesWith({122, 123}) : m.id \notin {0, 124}
        BY DEF MessagesWith
      <3> QED
        BY <3>1, <3>2
    <2>2. /\ UNCHANGED toNode
          /\ \/ UNCHANGED toServer
             \/ \E e : Reply(c, Answer(123, e, 1))
             \/ client[c].msg # NoMsg /\ Reply(c, client[c].msg)
      BY <1>11 DEF Transfer, OutputParametersSent, AllOutputParametersSent,
                   ArchiveSent, OutputParameterSendFailed, netVars
    <2> QED
      BY <1>3, <1>4, <2>1, <2>2
  <1> QED
    BY <1>2, <1>5, <1>6, <1>7, <1>8, <1>9, <1>10, <1>11
    DEF ClientStep, Request, Program, ProgramFails

\* The steps of sockets and clients together, where no connection breaks.
LEMMA SocketStops ==
    ASSUME ServerTypeOK, WireTypeOK, JobsSafe,
           "inputSendFail" \notin May, "break" \notin May,
           \/ \E c \in Client : InputTransfer(c) \/ InputTransferFails(c)
           \/ \E c \in Client, n \in Conn : Connect(c, n)
           \/ \E n \in Conn : Break(n)
    PROVE  SlotsFollow /\ \A i \in Conn : ChannelsFollow(i) /\ NodeFollows(i)
  <1>1. ASSUME NEW n \in Conn, InputParametersSent(n)
        PROVE  SlotsFollow /\ \A i \in Conn : ChannelsFollow(i) /\ NodeFollows(i)
    <2>1. /\ \A i \in Conn : SameJob(nodes'[i], nodes[i])
          /\ UNCHANGED <<procs, toServer>> /\ SendInputParameters(n)
      BY <1>1 DEF InputParametersSent, SameJob, ServerTypeOK, Node
    <2>2. \A i \in Conn : \A e : /\ Follows(toNode'[i], toNode[i], e)
                                 /\ Follows(toServer'[i], toServer[i], e)
      BY <2>1, WireFollows
    <2> QED
      BY <2>1, <2>2, SameFollows, SameSlotsFollow
  <1>2. ASSUME NEW c \in Client, NEW n \in Conn, Connect(c, n)
        PROVE  SlotsFollow /\ \A i \in Conn : ChannelsFollow(i) /\ NodeFollows(i)
    <2> DEFINE a == Answer(100, NoModule, 1)
    <2>1. /\ nodes' = [nodes EXCEPT ![n] = NewNode("up")]
          /\ toServer' = [toServer EXCEPT ![n] = <<a>>]
          /\ UNCHANGED <<procs, toNode>> /\ conns \in 0..MaxConn /\ n = conns + 1
      BY <1>2 DEF Connect, IncomingConnection, Connected, ServerTypeOK
    <2>2. nodes[n].state = "none" /\ toNode[n] = <<>>
      BY <2>1 DEF JobsSafe, Unused
    <2>3. a.id = 100
      BY DEF Answer, Msg
    <2> HIDE DEF a
    <2>4. ChannelsFollow(n) /\ NodeFollows(n)
      <3>1. toNode'[n] = <<>> /\ toServer'[n] = <<a>>
        BY <2>1, <2>2 DEF WireTypeOK
      <3>2. \A e : Follows(<<a>>, <<>>, e)
        BY <2>3 DEF Follows
      <3> QED
        BY <2>2, <3>1, <3>2 DEF ChannelsFollow, NodeFollows, Up
    <2>5. ASSUME NEW i \in Conn, i # n
          PROVE  ChannelsFollow(i) /\ NodeFollows(i)
      <3>1. nodes'[i] = nodes[i] /\ toServer'[i] = toServer[i] /\ toNode'[i] = toNode[i]
        BY <2>1, <2>5 DEF ServerTypeOK, WireTypeOK
      <3>2. \A s, e : Follows(s, s, e)
        BY DEF Follows
      <3> QED
        BY <3>1, <3>2 DEF ChannelsFollow, NodeFollows, SameJob, Up
    <2> QED
      BY <2>1, <2>4, <2>5, SameSlotsFollow
  <1> QED
    BY <1>1, <1>2 DEF InputTransfer, InputTransferFails, InputParameterSendFailed, Break

---------------------------------------------------------------------------
(* The theorems.                                                           *)

\* No step leaves a node waiting for nothing.
LEMMA NextWaits ==
    ASSUME "outputLost" \notin May, "inputSendFail" \notin May,
           TypeOK, JobsInv, WaitsInv, [Next]_vars
    PROVE  WaitsInv'
  <1> SUFFICES ASSUME fault' = "none"
               PROVE  BusyAwaits' /\ StopsCome'
    BY DEF WaitsInv
  <1>1. ServerTypeOK /\ WireTypeOK /\ JobsSafe /\ BusyAwaits /\ StopsCome
    BY FaultStays DEF TypeOK, JobsInv, WaitsInv
  <1>2. \A i \in Conn : StillWaits(i)
    <2>1. CASE ServerStep
      <3>1. ASSUME NEW n \in Conn, ReapNode(n)
            PROVE  \A i \in Conn : StillWaits(i)
        <4>1. UNCHANGED <<nodes, procs, link, toNode>> /\ ~scan.on /\ nodes[n].state = "null"
          BY <3>1 DEF ReapNode, serverVars, Idle
        <4>2. StillWaits(n)
          BY <4>1 DEF StillWaits
        <4>3. \A i \in Conn : i # n => toServer'[i] = toServer[i]
          BY <1>1, <3>1 DEF ReapNode, WireTypeOK
        <4>4. ASSUME NEW i \in Conn, i # n
              PROVE  StillWaits(i)
          BY <4>1, <4>3, <4>4, SameWait, SameLouder DEF SameJob, Freeing
        <4> QED
          BY <4>2, <4>4
      <3> QED
        BY <1>1, <2>1, <3>1, HandlerWaits, GiveJobWaits, EndScanWaits, UserWaits
        DEF ServerStep, Queue
    <2>2. CASE UNCHANGED vars
      BY <2>2, WireWaits, SameLouder DEF vars, netVars
    <2> QED
      BY <1>1, <2>1, <2>2, ClientWaits, SocketWaits DEF Next
  <1> QED
    BY <1>1, <1>2, WaitsStep

\* WaitsInv and JobsInv say what BusyNodeHasJob and StopAnswered say.
LEMMA WaitsInvImplies ==
    ASSUME TypeOK, JobsInv, WaitsInv
    PROVE  BusyNodeHasJob /\ StopAnswered
  <1>1. BusyNodeHasJob
    <2> SUFFICES ASSUME fault = "none", NEW n \in Conn, Works(n)
                 PROVE  \E j \in SlotsWith("started") : SlotOf(j).node = n
      BY DEF BusyNodeHasJob, WaitsInv, BusyAwaits
    <2>1. PICK p \in DOMAIN procs : \E x \in Started(procs[p]) : procs[p].slots[x].node = n
      BY DEF Works
    <2>2. PICK x \in Started(procs[p]) : procs[p].slots[x].node = n
      BY <2>1
    <2>3. <<p, x>> \in SlotsWith("started")
      BY <2>2 DEF SlotsWith, Started
    <2>4. SlotOf(<<p, x>>).node = n
      BY <2>2 DEF SlotOf
    <2> QED
      BY <2>3, <2>4
  <1>2. ASSUME NEW s \in Seq(Message)
        PROVE  LET stops == { i \in DOMAIN s : s[i].id = 124 }
               IN  /\ Quiet(s) => Cardinality(stops) = 0
                   /\ ~Quiet(s) /\ OneStop(s) => Cardinality(stops) = 1
    <2> DEFINE stops == { i \in DOMAIN s : s[i].id = 124 }
    <2>1. Quiet(s) => stops = {}
      BY DEF Quiet
    <2>2. ~Quiet(s) /\ OneStop(s) => \E i : stops = {i}
      <3> SUFFICES ASSUME ~Quiet(s), OneStop(s)
                   PROVE  \E i : stops = {i}
        OBVIOUS
      <3>1. PICK i \in DOMAIN s : s[i].id = 124
        BY DEF Quiet
      <3>2. i \in stops /\ \A j \in stops : j = i
        BY <3>1 DEF OneStop
      <3> HIDE DEF stops
      <3>3. stops = {i}
        BY <3>2
      <3> QED
        BY <3>3
    <2> HIDE DEF stops
    <2>3. Cardinality({}) = 0 /\ \A i : Cardinality({i}) = 1
      BY FS_EmptySet, FS_Singleton
    <2>4. /\ Quiet(s) => Cardinality(stops) = 0
          /\ ~Quiet(s) /\ OneStop(s) => Cardinality(stops) = 1
      BY <2>1, <2>2, <2>3
    <2> QED
      BY <2>4, Zenon DEF stops
  <1>3. ASSUME fault = "none", NEW n \in Conn, Up(n), link[n] = "open", ~Freeing(n)
        PROVE  StopsInFlight(n) = IF nodes[n].stoping THEN 1 ELSE 0
    <2> DEFINE out == Cardinality({ i \in DOMAIN toNode[n] : toNode[n][i].id = 124 })
               back == Cardinality({ i \in DOMAIN toServer[n] : toServer[n][i].id = 124 })
    <2>1. /\ toNode[n] \in Seq(Message) /\ toServer[n] \in Seq(Message)
          /\ nodes[n].stoping \in BOOLEAN
      BY DEF TypeOK, ServerTypeOK, WireTypeOK, Node
    <2>2. /\ Quiet(toNode[n]) => out = 0
          /\ ~Quiet(toNode[n]) /\ OneStop(toNode[n]) => out = 1
          /\ Quiet(toServer[n]) => back = 0
          /\ ~Quiet(toServer[n]) /\ OneStop(toServer[n]) => back = 1
      BY <1>2, <2>1
    <2>3. /\ ~nodes[n].stoping => Quiet(toNode[n]) /\ Quiet(toServer[n])
          /\ Quiet(toNode[n]) \/ Quiet(toServer[n])
          /\ OneStop(toNode[n]) /\ OneStop(toServer[n])
      BY <1>3 DEF JobsInv, JobsSafe, StopsOnce
    <2>4. nodes[n].stoping => ~Quiet(toNode[n]) \/ ~Quiet(toServer[n])
      BY <1>3 DEF WaitsInv, StopsCome
    <2>5. StopsInFlight(n) = out + back
      BY DEF StopsInFlight
    <2> HIDE DEF out, back
    <2> QED
      BY <2>1, <2>2, <2>3, <2>4, <2>5
  <1> QED
    BY <1>1, <1>3 DEF StopAnswered

\* What the server waits for comes: WaitsInv holds in every state, as long as
\* no output file is lost on the server and no client refuses an input file.
THEOREM WaitsAreAwaited ==
    ASSUME "outputLost" \notin May, "inputSendFail" \notin May
    PROVE  Spec => []WaitsInv
  <1>1. Init => WaitsInv
    BY DEF Init, ServerInit, NewNode, WaitsInv, BusyAwaits, StopsCome, Up
  <1>2. TypeOK /\ JobsInv /\ WaitsInv /\ [Next]_vars => WaitsInv'
    BY NextWaits
  <1> QED
    BY <1>1, <1>2, TypeCorrect, JobsStaySafe, PTL DEF Spec

\* A busy node is never forgotten: it runs a started module of some process,
\* is being stopped, or is freed when the loop of checkProcessQueue ends, also
\* when its process was stopped, jumped or completed (server.cpp, process.cpp).
THEOREM BusyNodesHaveJobs ==
    ASSUME "outputLost" \notin May, "inputSendFail" \notin May
    PROVE  Spec => []BusyNodeHasJob
  <1>1. TypeOK /\ JobsInv /\ WaitsInv => BusyNodeHasJob
    BY WaitsInvImplies
  <1> QED
    BY <1>1, TypeCorrect, JobsStaySafe, WaitsAreAwaited, PTL

\* On an open connection a node that waits for a module to stop has exactly
\* one request 124 or answer under way, and a node that does not wait has none
\* (stopModule, checkModuleStoping, receivedRequestOnStopModule).
THEOREM StopsAreAnswered ==
    ASSUME "outputLost" \notin May, "inputSendFail" \notin May
    PROVE  Spec => []StopAnswered
  <1>1. TypeOK /\ JobsInv /\ WaitsInv => StopAnswered
    BY WaitsInvImplies
  <1> QED
    BY <1>1, TypeCorrect, JobsStaySafe, WaitsAreAwaited, PTL

\* No step leaves a slot stopping on a node that is not told to stop it.
LEMMA NextStops ==
    ASSUME "outputLost" \notin May, "inputSendFail" \notin May,
           "break" \notin May, "rpcDisconnect" \notin May,
           TypeOK, JobsInv, StopsInv, [Next]_vars
    PROVE  StopsInv'
  <1> SUFFICES ASSUME fault' = "none"
               PROVE  StopsNamed' /\ LeavesPlaced'
    BY DEF StopsInv
  <1>1. /\ ServerTypeOK /\ WireTypeOK /\ JobsSafe /\ StopsNamed /\ LeavesPlaced
        /\ StopsOnce'
    <2>1. JobsSafe'
      BY NextSafe DEF JobsInv
    <2> QED
      BY <2>1, FaultStays DEF TypeOK, JobsInv, StopsInv, JobsSafe
  <1>2. ASSUME SlotsFollow, \A i \in Conn : ChannelsFollow(i) /\ NodeFollows(i)
        PROVE  LeavesPlaced' /\ \A i \in Conn : ChannelsFollow(i)
    BY <1>1, <1>2, LeavesStep
  <1>3. LeavesPlaced' /\ \A i \in Conn : ChannelsFollow(i)
    <2>1. CASE ServerStep
      <3>1. ASSUME NEW n \in Conn, ReapNode(n)
            PROVE  SlotsFollow /\ \A i \in Conn : ChannelsFollow(i) /\ NodeFollows(i)
        <4>1. /\ UNCHANGED serverVars /\ toNode' = toNode
              /\ toServer' = [toServer EXCEPT ![n] = <<>>]
          BY <3>1 DEF ReapNode
        <4>2. \A i \in Conn : toServer'[i] = toServer[i] \/ toServer'[i] = <<>>
          BY <1>1, <4>1 DEF WireTypeOK
        <4>3. \A s, e : Follows(s, s, e) /\ Follows(<<>>, s, e)
          BY DEF Follows
        <4> QED
          BY <4>1, <4>2, <4>3, WireStops
      <3> QED
        BY <1>1, <1>2, <2>1, <3>1, HandlerStops, GiveJobStops, EndScanStops, UserStops
        DEF ServerStep, Queue
    <2>2. CASE UNCHANGED vars
      <3>1. \A s, e : Follows(s, s, e)
        BY DEF Follows
      <3> QED
        BY <1>2, <2>2, <3>1, WireStops DEF vars, netVars
    <2> QED
      BY <1>1, <1>2, <2>1, <2>2, ClientStops, SocketStops DEF Next
  <1> QED
    BY <1>1, <1>3, NamedStep

\* What is stopped is told so by name, and leaves a node that knows it
\* (StopsInv), as long as no connection is lost and no file is lost or refused.
THEOREM StopsAreNamed ==
    ASSUME "outputLost" \notin May, "inputSendFail" \notin May,
           "break" \notin May, "rpcDisconnect" \notin May
    PROVE  Spec => []StopsInv
  <1>1. Init => StopsInv
    BY DEF Init, ServerInit, NewNode, StopsInv, StopsNamed, LeavesPlaced, Up
  <1>2. TypeOK /\ JobsInv /\ StopsInv /\ [Next]_vars => StopsInv'
    BY NextStops
  <1> QED
    BY <1>1, <1>2, TypeCorrect, JobsStaySafe, PTL DEF Spec

\* A module that is being stopped (status STOPPING) is on a connected node that
\* was told to stop it and waits for the answer (stopModuleOnNode_slot,
\* checkModuleStoping): where no connection is lost, no slot stops for ever.
THEOREM StoppingModulesHaveNodes ==
    ASSUME "outputLost" \notin May, "inputSendFail" \notin May,
           "break" \notin May, "rpcDisconnect" \notin May
    PROVE  Spec => []StoppingHasNode
  <1>1. StopsInv => StoppingHasNode
    <2> SUFFICES ASSUME StopsInv, fault = "none", NEW j \in SlotsWith("stopping")
                 PROVE  NodeOf(j).state = "up" /\ NodeOf(j).stoping
      BY DEF StoppingHasNode
    <2>1. PICK p \in DOMAIN procs : \E x \in Leaving(procs[p]) : j = <<p, x>>
      BY DEF SlotsWith, Leaving
    <2>2. PICK x \in Leaving(procs[p]) : j = <<p, x>>
      BY <2>1
    <2>3. NodeOf(j) = nodes[procs[p].slots[x].node]
      BY <2>2 DEF NodeOf, SlotOf
    <2> QED
      BY <2>2, <2>3 DEF StopsInv, LeavesPlaced, LeavesSafely, Up
  <1> QED
    BY <1>1, StopsAreNamed, PTL

---------------------------------------------------------------------------
(* Processes that are not completed.                                       *)

\* Entering a stage with work to do does not finish it.
LEMMA StageWithWork ==
    ASSUME NEW s \in Scheme, NEW k \in 1..Len(Plan[s]), HasWork(Plan[s][k])
    PROVE  ~StageDone(EnterStage(s, k))
  <1>1. PICK i \in DOMAIN Plan[s][k] : ~FirstEmpty(Plan[s][k], i)
    BY DEF HasWork
  <1> DEFINE x == <<i, 0>>
  <1>2. x \in SlotIds(Plan[s][k])
    BY DEF SlotIds
  <1>3. FreshSlot(Plan[s][k], x).status = "wait"
    BY <1>1 DEF FreshSlot
  <1> HIDE DEF x
  <1> QED
    BY <1>2, <1>3 DEF StageDone, EnterStage, Ended

\* No stage completes a process as soon as it is entered.
LEMMA EnteredIsLive ==
    ASSUME LastStagesHaveWork, NEW s \in Scheme, NEW k \in 1..Len(Plan[s])
    PROVE  ~Completes(EnterStage(s, k))
  <1>1. CASE k = Len(Plan[s])
    BY <1>1, StageWithWork DEF LastStagesHaveWork, Completes
  <1>2. CASE k # Len(Plan[s])
    BY <1>2 DEF Completes, LastStage, EnterStage
  <1> QED
    BY <1>1, <1>2

\* Settling a process does not complete it, either.
LEMMA SettledIsLive ==
    ASSUME LastStagesHaveWork, NEW pr, IsProcess(pr), ~Completes(pr)
    PROVE  ~Completes(Settle(pr))
  <1>1. CASE StageDone(pr) /\ ~LastStage(pr)
    <2>1. pr.name \in Scheme /\ pr.stage + 1 \in 1..Len(Plan[pr.name])
      BY <1>1, PlanAssumption DEF LastStage, IsProcess
    <2> QED
      BY <1>1, <2>1, EnteredIsLive DEF Settle
  <1>2. CASE ~(StageDone(pr) /\ ~LastStage(pr))
    BY <1>2 DEF Settle
  <1> QED
    BY <1>1, <1>2

\* Nor does giving a job back, or starting one.
LEMMA JobsOfLive ==
    ASSUME NEW pr, NEW n
    PROVE  /\ Completes(ClearJob(pr, n)) => Completes(pr)
           /\ \A x \in DOMAIN pr.slots : ~Completes(StartSlot(pr, x, n))
  <1>1. Completes(ClearJob(pr, n)) => Completes(pr)
    <2>1. StageDone(ClearJob(pr, n)) => StageDone(pr)
      BY DEF StageDone, ClearJob, WithSlots, StartedOn, Ended
    <2> QED
      BY <2>1 DEF Completes, LastStage, ClearJob, WithSlots
  <1>2. ASSUME NEW x \in DOMAIN pr.slots
        PROVE  ~Completes(StartSlot(pr, x, n))
    BY DEF Completes, StageDone, StartSlot, WithSlots, Ended
  <1> QED
    BY <1>1, <1>2

---------------------------------------------------------------------------
(* Connections that close.                                                 *)

\* No close is queued on s, or only as the last message.
NoClose(s) == \A i \in DOMAIN s : s[i].id # 0

ClosesLast(s) == \A i \in DOMAIN s : s[i].id = 0 => i = Len(s)

\* Receiving and sending keep it so.
LEMMA CloseOps ==
    ASSUME NEW s \in Seq(Message)
    PROVE  /\ NoClose(s) => ClosesLast(s)
           /\ NoClose(s) => \A m : m.id # 0 => NoClose(Append(s, m))
           /\ NoClose(s) => \A kept \in Prefixes(s) : NoClose(kept)
           /\ NoClose(s) => \A m : ClosesLast(Append(s, m))
           /\ s # <<>> => /\ NoClose(s) => NoClose(Tail(s))
                          /\ ClosesLast(s) => ClosesLast(Tail(s))
                          /\ ClosesLast(s) /\ Head(s).id = 0 => Tail(s) = <<>>
           /\ NoClose(<<>>)
  <1>1. NoClose(s) => ClosesLast(s)
    BY DEF NoClose, ClosesLast
  <1>2. ASSUME NoClose(s), NEW m
        PROVE  ClosesLast(Append(s, m)) /\ (m.id # 0 => NoClose(Append(s, m)))
    <2>1. \A i \in DOMAIN Append(s, m) :
             \/ i \in DOMAIN s /\ Append(s, m)[i] = s[i]
             \/ i = Len(Append(s, m)) /\ Append(s, m)[i] = m
      OBVIOUS
    <2> QED
      BY <1>2, <2>1 DEF NoClose, ClosesLast
  <1>3. ASSUME NoClose(s), NEW kept \in Prefixes(s)
        PROVE  NoClose(kept)
    <2>1. PICK k \in 0..Len(s) : kept = SubSeq(s, 1, k)
      BY <1>3 DEF Prefixes
    <2>2. \A i \in DOMAIN kept : i \in DOMAIN s /\ kept[i] = s[i]
      BY <2>1
    <2> QED
      BY <1>3, <2>2 DEF NoClose
  <1>4. ASSUME s # <<>>
        PROVE  /\ NoClose(s) => NoClose(Tail(s))
               /\ ClosesLast(s) => ClosesLast(Tail(s))
               /\ ClosesLast(s) /\ Head(s).id = 0 => Tail(s) = <<>>
    <2>1. \A i \in DOMAIN Tail(s) : i + 1 \in DOMAIN s /\ Tail(s)[i] = s[i + 1]
      BY <1>4
    <2>2. Len(Tail(s)) = Len(s) - 1 /\ Len(s) \in Nat /\ s[1] = Head(s) /\ 1 \in DOMAIN s
      BY <1>4
    <2>3. Len(s) = 1 => Tail(s) = <<>>
      <3>1. Tail(s) \in Seq(Message)
        BY <1>4
      <3> DEFINE t == Tail(s)
      <3> HIDE DEF t
      <3>2. t \in Seq(Message) /\ Len(t) = 0 => t = <<>>
        OBVIOUS
      <3> QED
        BY <2>2, <3>1, <3>2 DEF t
    <2>4. DOMAIN Tail(s) \subseteq Nat
      BY <1>4
    <2>5. NoClose(s) => NoClose(Tail(s))
      BY <2>1 DEF NoClose
    <2>6. ClosesLast(s) => ClosesLast(Tail(s))
      BY <2>1, <2>2, <2>4 DEF ClosesLast
    <2>7. ClosesLast(s) /\ Head(s).id = 0 => Tail(s) = <<>>
      BY <2>2, <2>3 DEF ClosesLast
    <2> QED
      BY <2>5, <2>6, <2>7
  <1>5. NoClose(<<>>)
    BY DEF NoClose
  <1> QED
    BY <1>1, <1>2, <1>3, <1>4, <1>5

\* ClosesOnce in these words.
LEMMA ClosesOnceIs ==
    ASSUME NEW n
    PROVE  /\ ClosesOnce(n) <=>
                 /\ ClosesLast(toServer[n])
                 /\ NoClose(toServer[n]) \/ (link[n] = "closed" /\ "break" \in May)
                 /\ nodes[n].state = "null" =>
                       toServer[n] = <<>> /\ link[n] = "closed" /\ "break" \in May
           /\ ClosesOnce(n)' <=>
                 /\ ClosesLast(toServer'[n])
                 /\ NoClose(toServer'[n]) \/ (link'[n] = "closed" /\ "break" \in May)
                 /\ nodes'[n].state = "null" =>
                       toServer'[n] = <<>> /\ link'[n] = "closed" /\ "break" \in May
  BY DEF ClosesOnce, NoClose, ClosesLast

\* A node that does not leave may receive, and be sent messages while its
\* connection is open.
LEMMA StaysOpen ==
    ASSUME NEW n, toServer[n] \in Seq(Message), ClosesOnce(n), link'[n] = link[n],
           nodes'[n].state = nodes[n].state,
           \/ toServer'[n] = toServer[n]
           \/ toServer[n] # <<>> /\ toServer'[n] = Tail(toServer[n])
           \/ toServer'[n] = <<>>
           \/ /\ link[n] = "open"
              /\ \E m : m.id # 0 /\ toServer'[n] = Append(toServer[n], m)
    PROVE  ClosesOnce(n)'
  <1> DEFINE s == toServer[n]
  <1>1. /\ ClosesLast(s)
        /\ NoClose(s) \/ (link[n] = "closed" /\ "break" \in May)
        /\ nodes[n].state = "null" => s = <<>> /\ link[n] = "closed" /\ "break" \in May
    BY ClosesOnceIs
  <1>2. /\ ClosesLast(toServer'[n])
        /\ NoClose(s) => NoClose(toServer'[n])
    <2>1. CASE s # <<>> /\ toServer'[n] = Tail(s)
      BY <1>1, <2>1, CloseOps
    <2>2. CASE toServer'[n] = <<>>
      <3>1. NoClose(<<>>) /\ ClosesLast(<<>>)
        BY DEF NoClose, ClosesLast
      <3> QED
        BY <2>2, <3>1
    <2>3. ASSUME link[n] = "open", NEW m, m.id # 0, toServer'[n] = Append(s, m)
          PROVE  ClosesLast(toServer'[n]) /\ NoClose(toServer'[n])
      <3>1. NoClose(s)
        BY <1>1, <2>3
      <3>2. NoClose(Append(s, m)) /\ ClosesLast(Append(s, m))
        BY <2>3, <3>1, CloseOps
      <3> QED
        BY <2>3, <3>2
    <2> QED
      BY <1>1, <2>1, <2>2, <2>3
  <1>3. nodes'[n].state = "null" =>
           toServer'[n] = <<>> /\ link'[n] = "closed" /\ "break" \in May
    BY <1>1
  <1> HIDE DEF s
  <1> QED
    BY <1>1, <1>2, <1>3, ClosesOnceIs

---------------------------------------------------------------------------
(* Steps of the server.                                                    *)

ProcsLive == \A p \in DOMAIN procs : ~Completes(procs[p])

\* The changes the handlers make to a node do not let it come or go.
LEMMA NodeOpsState ==
    ASSUME NEW nd \in Node
    PROVE  /\ Cleared(nd).state = nd.state
           /\ \A m : Cleared(Failed(nd, m)).state = nd.state
           /\ \A c, f : Released(nd, c, f).state = nd.state
           /\ \A orders, n : MarkStoping(nd, orders, n).state = nd.state
           /\ \A mods : Listed(nd, mods).state = nd.state
           /\ Forgiven(nd).state = nd.state
           /\ \A m : [nd EXCEPT !.sending = m].state = nd.state
           /\ \A p, pr, x : Assigned(nd, p, pr, x).state = nd.state
  <1>1. Cleared(nd).state = nd.state
    BY DEF Cleared, Node
  <1>2. \A m : Cleared(Failed(nd, m)).state = nd.state
    BY DEF Cleared, Failed, Node
  <1>3. \A c, f : Released(nd, c, f).state = nd.state
    BY <1>1 DEF Released
  <1>4. \A orders, n : MarkStoping(nd, orders, n).state = nd.state
    BY DEF MarkStoping, Node
  <1>5. \A mods : Listed(nd, mods).state = nd.state
    BY DEF Listed, Node
  <1>6. Forgiven(nd).state = nd.state
    BY DEF Forgiven, Node
  <1>7. \A m : [nd EXCEPT !.sending = m].state = nd.state
    BY DEF Node
  <1>8. \A p, pr, x : Assigned(nd, p, pr, x).state = nd.state
    BY DEF Assigned, Node
  <1> QED
    BY <1>1, <1>2, <1>3, <1>4, <1>5, <1>6, <1>7, <1>8

SameStates == \A i \in Conn : nodes'[i].state = nodes[i].state

\* The event queues are the same but for a message received.
Drained ==
    /\ link' = link
    /\ \A i \in Conn : \/ toServer'[i] = toServer[i]
                       \/ toServer[i] # <<>> /\ toServer'[i] = Tail(toServer[i])

\* Connections close once also after such a step.
LEMMA DrainedSound ==
    ASSUME WireTypeOK, \A n \in Conn : ClosesOnce(n), SameStates, Drained
    PROVE  \A n \in Conn : ClosesOnce(n)'
  <1>1. \A n \in Conn : toServer[n] \in Seq(Message)
    BY DEF WireTypeOK
  <1> QED
    BY <1>1, StaysOpen DEF SameStates, Drained

\* Receiving a message is such a step.
LEMMA ReceivesDrains ==
    ASSUME WireTypeOK, NEW n \in Conn, NEW id, Receives(n, id)
    PROVE  Drained
  BY DEF Receives, WireTypeOK, Drained

\* A job is given back.
LEMMA GiveUpJobSound ==
    ASSUME ServerTypeOK, ProcsLive, NEW n \in Conn, NEW m, GiveUpJob(n, m),
           Live(nodes[n].pid)
    PROVE  UNCHANGED fault /\ ProcsLive' /\ SameStates
  <1>1. SameStates
    BY NodeOpsState DEF GiveUpJob, ServerTypeOK, SameStates
  <1>2. ProcsLive'
    BY JobsOfLive DEF GiveUpJob, ProcsLive, Live
  <1> QED
    BY <1>1, <1>2 DEF GiveUpJob

\* A job ends.  No plan's handler can jump to a stage that completes the
\* process under it.
LEMMA EndJobSound ==
    ASSUME ServerTypeOK, ProcsLive, LastStagesHaveWork, NEW n \in Conn, NEW m,
           NEW st \in Ended, NEW fb \in BOOLEAN, Live(nodes[n].pid),
           EndJob(n, m, st, fb)
    PROVE  UNCHANGED fault /\ ProcsLive' /\ SameStates
  <1> DEFINE p == nodes[n].pid
             pr == procs[p]
             ended == FinishJob(pr, n, m, st)
  <1>1. /\ p \in DOMAIN procs
        /\ IsProcess(pr)
        /\ n \in Nat
    BY NetAssumption DEF Live, ServerTypeOK, Conn
  <1>2. PICK X \in IF EndedSlots(pr, n, m) # {} THEN PluginStops(pr) ELSE {{}},
             k \in IF EndedSlots(pr, n, m) # {} THEN PluginGotos(pr) ELSE {0} :
             LET asked == StopSlots(ended, X)
                 next == WentTo(asked, k)
                 orders == EndOrders(ended, X, k, n, fb)
             IN  /\ nodes' = [i \in Conn |->
                                LET nd == MarkStoping(nodes[i], orders, i)
                                IN  IF i = n THEN Released(nd, Completes(next), fb)
                                             ELSE nd]
                 /\ CASE k # 0 /\ Completes(EnterStage(pr.name, k)) -> TRUE
                      [] ~(k # 0 /\ Completes(EnterStage(pr.name, k))) /\ Completes(next) ->
                           procs' = Without(p) /\ UNCHANGED fault
                      [] OTHER ->
                           procs' = [procs EXCEPT ![p] = Settle(next)] /\ UNCHANGED fault
    BY ZenonT(40) DEF EndJob, EndOrders
  <1> DEFINE asked == StopSlots(ended, X)
             next == WentTo(asked, k)
             orders == EndOrders(ended, X, k, n, fb)
  <1>3. nodes' = [i \in Conn |-> LET nd == MarkStoping(nodes[i], orders, i)
                                  IN  IF i = n THEN Released(nd, Completes(next), fb)
                                               ELSE nd]
    <2> HIDE DEF ended
    <2> QED
      BY <1>2, Zenon
  <1>4. X \subseteq DOMAIN pr.slots
    BY <1>2, PluginStopsSlots
  <1>5. k = 0 \/ k \in 1..Len(Plan[pr.name])
    BY <1>1, <1>2, PlanAssumption DEF PluginGotos, IsProcess
  <1>6. IsProcess(asked) /\ asked.name = pr.name
    <2>1. IsProcess(ended) /\ DOMAIN ended.slots = DOMAIN pr.slots /\ ended.name = pr.name
      BY <1>1, SlotOpsAreProcesses, WithSlotsIsProcess DEF FinishJob, WithSlots
    <2> HIDE DEF ended
    <2> QED
      BY <1>1, <1>4, <2>1, SlotOpsAreProcesses DEF StopSlots, WithSlots
  <1>7. pr.name \in Scheme
    BY <1>1 DEF IsProcess
  <1>8. ~(k # 0 /\ Completes(EnterStage(pr.name, k)))
    BY <1>5, <1>7, EnteredIsLive
  <1> HIDE DEF asked
  <1>9. IsProcess(next)
    BY <1>5, <1>6, <1>7, EnterStageIsProcess, SettleIsProcess DEF WentTo
  <1>10. /\ UNCHANGED fault
        /\ \/ procs' = Without(p)
           \/ ~Completes(next) /\ procs' = [procs EXCEPT ![p] = Settle(next)]
    BY <1>2, <1>8 DEF asked
  <1> HIDE DEF next
  <1>11. ProcsLive'
    <2>1. CASE procs' = Without(p)
      BY <2>1 DEF ProcsLive, Without
    <2>2. CASE ~Completes(next) /\ procs' = [procs EXCEPT ![p] = Settle(next)]
      BY <1>1, <1>9, <2>2, SettledIsLive DEF ProcsLive
    <2> QED
      BY <1>10, <2>1, <2>2
  <1>12. SameStates
    <2>1. nodes \in [Conn -> Node]
      BY DEF ServerTypeOK
    <2> DEFINE nd(i) == MarkStoping(nodes[i], orders, i)
               c == Completes(next)
    <2>2. nodes' = [i \in Conn |-> IF i = n THEN Released(nd(i), c, fb) ELSE nd(i)]
      BY <1>3, Zenon
    <2> HIDE DEF orders, c
    <2>3. \A i \in Conn : nd(i) \in Node /\ nd(i).state = nodes[i].state
      <3>1. \A i \in Conn : nodes[i] \in Node
        BY <2>1
      <3>2. \A i \in Conn : nd(i) \in Node
        BY <3>1, NodeOpsAreNodes
      <3>3. \A i \in Conn : nd(i).state = nodes[i].state
        BY <3>1, NodeOpsState
      <3> QED
        BY <3>2, <3>3
    <2> HIDE DEF nd
    <2>4. \A i \in Conn : nodes'[i] = IF i = n THEN Released(nd(i), c, fb) ELSE nd(i)
      BY <2>2
    <2> QED
      BY <2>3, <2>4, NodeOpsState DEF SameStates
  <1> QED
    BY <1>10, <1>11, <1>12

\* The handlers of the messages.
LEMMA AnswersSound ==
    ASSUME ServerTypeOK, WireTypeOK, ProcsLive, LastStagesHaveWork, NEW n \in Conn,
           \/ IgnoreWhileStopping(n)
           \/ ReceiveAuthorizationRequest(n)
           \/ ReceiveModulesListRequest(n)
           \/ CheckPrepareForStartModule(n)
           \/ CheckInputParametersSending(n)
           \/ CheckModuleStarting(n)
           \/ ModuleExecutionEnded(n)
           \/ CheckModuleStoping(n)
    PROVE  UNCHANGED fault /\ ProcsLive' /\ SameStates /\ Drained
  <1> DEFINE Sound == UNCHANGED fault /\ ProcsLive' /\ SameStates
             m == Head(toServer[n]).name
  <1>1. Drained
    BY ReceivesDrains
    DEF IgnoreWhileStopping, ReceiveAuthorizationRequest, ReceiveModulesListRequest,
        CheckPrepareForStartModule, CheckInputParametersSending, CheckModuleStarting,
        ModuleExecutionEnded, CheckModuleStoping, Hears
  <1>2. ASSUME UNCHANGED <<nodes, procs, fault>>
        PROVE  Sound
    BY <1>2 DEF ProcsLive, SameStates, Completes, StageDone, LastStage
  <1>3. ASSUME Live(nodes[n].pid), GiveUpJob(n, m)
        PROVE  Sound
    BY <1>3, GiveUpJobSound
  <1>4. ASSUME Live(nodes[n].pid),
               \E st \in Ended, fb \in BOOLEAN : EndJob(n, m, st, fb)
        PROVE  Sound
    BY <1>4, EndJobSound
  <1>5. ASSUME NEW nd, nd.state = nodes[n].state, nodes' = [nodes EXCEPT ![n] = nd],
               UNCHANGED <<procs, fault>>
        PROVE  Sound
    BY <1>5 DEF ProcsLive, SameStates, Completes, StageDone, LastStage, ServerTypeOK
  <1>6. /\ nodes[n] \in Node
        /\ Ignore => UNCHANGED <<nodes, procs, fault>>
    BY DEF ServerTypeOK, Ignore
  <1>7. OutputNotDefined(n) => Sound
    BY <1>5, <1>6, NodeOpsState DEF OutputNotDefined
  <1> HIDE DEF Sound
  <1>8. CASE IgnoreWhileStopping(n) \/ ReceiveAuthorizationRequest(n)
    BY <1>1, <1>2, <1>6, <1>8 DEF IgnoreWhileStopping, ReceiveAuthorizationRequest, Sound
  <1>9. CASE ReceiveModulesListRequest(n)
    BY <1>1, <1>5, <1>6, <1>9, NodeOpsState DEF ReceiveModulesListRequest, Sound
  <1>10. CASE CheckPrepareForStartModule(n)
    <2>1. CASE Ignore \/ (Live(nodes[n].pid) /\ GiveUpJob(n, m))
      BY <1>1, <1>2, <1>3, <1>6, <2>1 DEF Sound
    <2>2. CASE /\ \E x : nodes' = [nodes EXCEPT ![n].sending = x]
               /\ UNCHANGED <<procs, fault>>
      BY <1>1, <1>5, <1>6, <2>2, NodeOpsState DEF Sound
    <2> QED
      BY <1>10, <2>1, <2>2 DEF CheckPrepareForStartModule
  <1>11. CASE CheckInputParametersSending(n) \/ CheckModuleStarting(n)
    BY <1>1, <1>2, <1>3, <1>6, <1>11
    DEF CheckInputParametersSending, CheckModuleStarting, Sound
  <1>12. CASE ModuleExecutionEnded(n)
    BY <1>1, <1>2, <1>3, <1>4, <1>6, <1>7, <1>12 DEF ModuleExecutionEnded, Ended, Sound
  <1>13. CASE CheckModuleStoping(n)
    <2>1. CASE Live(nodes[n].pid)
      BY <1>1, <1>4, <1>13, <2>1 DEF CheckModuleStoping, Ended, Sound
    <2>2. CASE ~Live(nodes[n].pid)
      BY <1>1, <1>5, <1>6, <1>13, <2>2, NodeOpsState DEF CheckModuleStoping, Sound
    <2> QED
      BY <2>1, <2>2
  <1> QED
    BY <1>8, <1>9, <1>10, <1>11, <1>12, <1>13

\* A process loses the slots started on a node that leaves.
LEMMA ForgottenSound ==
    ASSUME ProcsLive, NEW n, procs' = Forgotten(n)
    PROVE  ProcsLive'
  BY JobsOfLive DEF ProcsLive, Forgotten

\* The node that leaves has nothing queued behind its close, so that no event
\* comes to it later.
LEMMA HandlerSound ==
    ASSUME TypeOK, SoundInv, LastStagesHaveWork, NEW n \in Conn, Handler(n)
    PROVE  SoundInv'
  <1>1. /\ ServerTypeOK /\ WireTypeOK /\ ProcsLive /\ fault = "none"
        /\ \A i \in Conn : ClosesOnce(i)
        /\ nodes \in [Conn -> Node] /\ toServer \in [Conn -> Seq(Message)]
    BY DEF TypeOK, SoundInv, ProcsLive, ServerTypeOK, WireTypeOK
  <1>2. ASSUME UNCHANGED fault /\ ProcsLive' /\ SameStates /\ Drained
        PROVE  SoundInv'
    BY <1>1, <1>2, DrainedSound DEF SoundInv, ProcsLive
  <1>3. CASE NodeDisconnected(n)
    <2>1. /\ nodes' = [nodes EXCEPT ![n] = NewNode("null")]
          /\ toServer' = [toServer EXCEPT ![n] = Tail(@)]
          /\ toServer[n] # <<>> /\ Head(toServer[n]).id = 0
          /\ UNCHANGED <<fault, link>>
      BY <1>3 DEF NodeDisconnected
    <2>2. ProcsLive'
      BY <1>1, <1>3, ForgottenSound DEF NodeDisconnected
    <2>3. ClosesOnce(n)'
      <3>1. /\ ClosesLast(toServer[n])
            /\ NoClose(toServer[n]) \/ (link[n] = "closed" /\ "break" \in May)
        BY <1>1, ClosesOnceIs
      <3>2. 1 \in DOMAIN toServer[n] /\ toServer[n][1].id = 0
        BY <1>1, <2>1
      <3>3. link[n] = "closed" /\ "break" \in May
        BY <3>1, <3>2 DEF NoClose
      <3>4. toServer'[n] = <<>>
        <4>1. toServer[n] \in Seq(Message)
          BY <1>1
        <4>2. Tail(toServer[n]) = <<>>
          BY <2>1, <3>1, <4>1, CloseOps
        <4> QED
          BY <1>1, <2>1, <4>2
      <3>5. ClosesLast(toServer'[n])
        BY <3>4 DEF ClosesLast
      <3> QED
        BY <2>1, <3>3, <3>4, <3>5, ClosesOnceIs
    <2>4. ASSUME NEW i \in Conn, i # n
          PROVE  ClosesOnce(i)'
      <3>1. /\ nodes'[i] = nodes[i] /\ toServer'[i] = toServer[i] /\ link'[i] = link[i]
            /\ toServer[i] \in Seq(Message)
        BY <1>1, <2>1, <2>4
      <3> QED
        BY <1>1, <3>1, StaysOpen
    <2> QED
      BY <1>1, <2>1, <2>2, <2>3, <2>4 DEF SoundInv, ProcsLive
  <1>4. ~LateEvent(n)
    BY <1>1, ClosesOnceIs DEF LateEvent
  <1> QED
    BY <1>1, <1>2, <1>3, <1>4, AnswersSound DEF Handler

\* The loop of checkProcessQueue gives no job of a completed process.
LEMMA QueueSound ==
    ASSUME TypeOK, SoundInv, LastStagesHaveWork, Queue
    PROVE  SoundInv'
  <1>1. /\ ServerTypeOK /\ WireTypeOK /\ ProcsLive /\ fault = "none"
        /\ \A i \in Conn : ClosesOnce(i)
        /\ nodes \in [Conn -> Node]
    BY DEF TypeOK, SoundInv, ProcsLive, ServerTypeOK
  <1>2. Drained
    BY DEF Queue, GiveJob, EndScan, netVars, Drained
  <1>3. CASE GiveJob
    <2>1. PICK o \in Offers :
            LET p == o[1]
                n == o[2]
                pr == Settle(procs[p])
            IN  \/ Completes(procs[p])
                \/ /\ procs' = [procs EXCEPT ![p] = pr]
                   /\ UNCHANGED <<nodes, fault>>
                \/ /\ \E x \in Offered(pr, Able(nodes[n])) :
                         /\ procs' = [procs EXCEPT ![p] = StartSlot(pr, x, n)]
                         /\ nodes' = [nodes EXCEPT ![n] = Assigned(@, p, pr, x)]
                   /\ UNCHANGED fault
      BY <1>3 DEF GiveJob
    <2> DEFINE p == o[1]
               n == o[2]
               pr == Settle(procs[p])
    <2>2. p \in DOMAIN procs /\ IsProcess(procs[p]) /\ ~Completes(procs[p])
      BY <1>1 DEF Offers, ProcsLive, ServerTypeOK
    <2>3. ~Completes(pr)
      BY <2>2, SettledIsLive
    <2>4. CASE procs' = [procs EXCEPT ![p] = pr] /\ UNCHANGED <<nodes, fault>>
      <3>1. ProcsLive'
        <4> HIDE DEF pr
        <4> QED
          BY <1>1, <2>2, <2>3, <2>4 DEF ProcsLive
      <3> QED
        BY <1>1, <1>2, <2>4, <3>1, DrainedSound DEF SoundInv, ProcsLive, SameStates
    <2>5. ASSUME NEW x \in Offered(pr, Able(nodes[n])),
                 procs' = [procs EXCEPT ![p] = StartSlot(pr, x, n)],
                 nodes' = [nodes EXCEPT ![n] = Assigned(@, p, pr, x)], UNCHANGED fault
          PROVE  SoundInv'
      <3>1. ProcsLive'
        <4>1. x \in DOMAIN pr.slots
          BY <2>5 DEF Offered
        <4>2. ~Completes(StartSlot(pr, x, n))
          BY <4>1, JobsOfLive
        <4> HIDE DEF pr
        <4> QED
          BY <1>1, <2>2, <2>5, <4>2 DEF ProcsLive
      <3>2. SameStates
        <4> HIDE DEF p, pr
        <4> QED
          BY <1>1, <2>5, NodeOpsState DEF SameStates
      <3> QED
        BY <1>1, <1>2, <2>5, <3>1, <3>2, DrainedSound DEF SoundInv, ProcsLive
    <2> QED
      BY <2>1, <2>2, <2>4, <2>5
  <1>4. CASE EndScan
    <2>1. UNCHANGED <<procs, fault>>
      BY <1>4 DEF EndScan
    <2>2. SameStates
      BY <1>1, <1>4, NodeOpsState DEF EndScan, SameStates
    <2>3. ProcsLive'
      BY <1>1, <2>1 DEF ProcsLive, Completes, StageDone, LastStage
    <2> QED
      BY <1>1, <1>2, <2>1, <2>2, <2>3, DrainedSound DEF SoundInv, ProcsLive
  <1> QED
    BY <1>3, <1>4 DEF Queue

\* The requests of the user.
LEMMA UserSound ==
    ASSUME TypeOK, SoundInv, LastStagesHaveWork, "rpcDisconnect" \notin May,
           "clearFailed" \notin May \/ "break" \notin May, User
    PROVE  SoundInv'
  <1>1. /\ ServerTypeOK /\ WireTypeOK /\ ProcsLive /\ fault = "none"
        /\ \A i \in Conn : ClosesOnce(i)
        /\ nodes \in [Conn -> Node]
    BY DEF TypeOK, SoundInv, ProcsLive, ServerTypeOK
  <1>2. ASSUME UNCHANGED fault, ProcsLive', SameStates, UNCHANGED <<link, toServer>>
        PROVE  SoundInv'
    <2>1. Drained
      BY <1>2 DEF Drained
    <2> QED
      BY <1>1, <1>2, <2>1, DrainedSound DEF SoundInv, ProcsLive
  <1>3. ASSUME NEW s \in Scheme, StartProcess(s)
        PROVE  SoundInv'
    <2>1. /\ UNCHANGED <<nodes, fault, link, toServer>>
          /\ \/ UNCHANGED procs
             \/ \A p \in DOMAIN procs' : \/ p \in DOMAIN procs /\ procs'[p] = procs[p]
                                         \/ procs'[p] = Settle(EnterStage(s, 1))
      BY <1>3 DEF StartProcess, netVars
    <2>2. ~Completes(Settle(EnterStage(s, 1)))
      <3>1. 1 \in 1..Len(Plan[s])
        BY PlanAssumption
      <3>2. IsProcess(EnterStage(s, 1)) /\ ~Completes(EnterStage(s, 1))
        BY <3>1, EnteredIsLive, EnterStageIsProcess
      <3> QED
        BY <3>2, SettledIsLive
    <2>3. ProcsLive'
      <3>1. CASE UNCHANGED procs
        BY <1>1, <3>1 DEF ProcsLive, Completes, StageDone, LastStage
      <3>2. CASE ~UNCHANGED procs
        BY <1>1, <2>1, <2>2, <3>2 DEF ProcsLive
      <3> QED
        BY <3>1, <3>2
    <2> QED
      BY <1>2, <2>1, <2>3 DEF SameStates
  <1>4. ASSUME NEW p \in Pid, StopProcess(p)
        PROVE  SoundInv'
    <2>1. SameStates
      BY <1>1, <1>4, NodeOpsState DEF StopProcess, SameStates
    <2>2. ProcsLive'
      BY <1>1, <1>4 DEF StopProcess, Without, ProcsLive
    <2> QED
      BY <1>2, <1>4, <2>1, <2>2 DEF StopProcess
  <1>5. CASE ClearFailedModulesForNodes
    <2>1. ~\E n \in Conn : nodes[n].state = "null"
      BY <1>1, <1>5, ClosesOnceIs DEF ClearFailedModulesForNodes
    <2>2. SameStates /\ UNCHANGED <<procs, fault, link, toServer>>
      BY <1>1, <1>5, <2>1, NodeOpsState DEF ClearFailedModulesForNodes, SameStates, netVars
    <2>3. ProcsLive'
      BY <1>1, <2>2 DEF ProcsLive, Completes, StageDone, LastStage
    <2> QED
      BY <1>2, <2>2, <2>3
  <1> QED
    BY <1>3, <1>4, <1>5 DEF User, DisconnectNode

---------------------------------------------------------------------------
(* Steps of clients and sockets.                                           *)

\* A client queues no close.
LEMMA ReplySound ==
    ASSUME WireTypeOK, NEW c \in Client, NEW m, m.id # 0, Reply(c, m)
    PROVE  \A n \in Conn : \/ toServer'[n] = toServer[n]
                           \/ link[n] = "open" /\ toServer'[n] = Append(toServer[n], m)
  BY DEF Reply, ToServer, Sent, WireTypeOK

\* The steps of a client.
LEMMA ClientSound ==
    ASSUME TypeOK, SoundInv, NEW c \in Client, ClientStep(c)
    PROVE  SoundInv'
  <1>1. /\ WireTypeOK /\ UNCHANGED serverVars
        /\ \A n \in Conn : ClosesOnce(n) /\ toServer[n] \in Seq(Message)
    BY DEF TypeOK, WireTypeOK, SoundInv, ClientStep
  <1>2. link' = link
    BY DEF ClientStep, Request, Program, ProgramFails, Transfer,
        CheckAuthorization, PrepareForStartModule, ReceivedInputParameters,
        ReceivedRequestOnStopModule, ConnectionClosed, Gets, ModuleFinished,
        ModuleCrashed, ProcessExecutionTimeout, OutputParametersSent,
        ArchiveSent, OutputParameterSendFailed, netVars
  <1>3. UNCHANGED toServer \/ \E m : m.id # 0 /\ Reply(c, m)
    <2>1. /\ \A id, name, st : Answer(id, name, st).id = id
          /\ \A mods : ModulesList(mods).id # 0
      BY DEF Answer, Msg, ModulesList
    <2>2. client[c].msg # NoMsg => client[c].msg.id # 0
      <3>1. client[c].msg \in MessagesWith({122, 123}) \union {NoMsg}
        BY <1>1 DEF WireTypeOK, ClientState
      <3>2. \A m \in MessagesWith({122, 123}) : m.id # 0
        BY DEF MessagesWith
      <3> QED
        BY <3>1, <3>2
    <2>3. CASE Request(c)
      <3> DEFINE m == Head(toNode[Connection(c)]).name
      <3>1. CASE CheckAuthorization(c)
        <4>1. Reply(c, ModulesList(ClientModules[c]))
          BY <3>1 DEF CheckAuthorization
        <4> QED
          BY <2>1, <4>1
      <3>2. ASSUME NEW id \in {120, 121, 122, 124}, NEW st, Reply(c, Answer(id, m, st))
            PROVE  \E a : a.id # 0 /\ Reply(c, a)
        BY <2>1, <3>2
      <3>3. CASE PrepareForStartModule(c)
        <4>1. Reply(c, Answer(120, m, 1)) \/ Reply(c, Answer(120, m, 0))
          BY <3>3 DEF PrepareForStartModule
        <4> QED
          BY <3>2, <4>1
      <3>4. CASE ReceivedInputParameters(c)
        <4>1. \/ UNCHANGED toServer
              \/ Reply(c, Answer(121, m, 0)) \/ Reply(c, Answer(122, m, 1))
          BY <3>4 DEF ReceivedInputParameters, Silent
        <4> QED
          BY <3>2, <4>1
      <3>5. CASE ReceivedRequestOnStopModule(c)
        <4>1. \E st : Reply(c, Answer(124, m, st))
          BY <3>5 DEF ReceivedRequestOnStopModule
        <4> QED
          BY <3>2, <4>1
      <3> QED
        BY <2>3, <3>1, <3>3, <3>4, <3>5 DEF Request, ConnectionClosed
    <2>4. CASE Program(c) \/ ProgramFails(c) \/ OutputParametersSent(c)
      <3>1. UNCHANGED toServer \/ \E name, st : Reply(c, Answer(123, name, st))
        BY <2>4, ZenonT(40)
        DEF Program, ProgramFails, ModuleFinished, ModuleCrashed, ProcessExecutionTimeout,
            OutputParametersSent, AllOutputParametersSent, Silent
      <3> QED
        BY <2>1, <3>1
    <2>5. CASE ArchiveSent(c)
      BY <2>2, <2>5 DEF ArchiveSent
    <2>6. CASE OutputParameterSendFailed(c)
      BY <2>6 DEF OutputParameterSendFailed, netVars
    <2> QED
      BY <2>3, <2>4, <2>5, <2>6 DEF ClientStep, Transfer
  <1>4. \A n \in Conn : ClosesOnce(n)'
    <2>1. ASSUME NEW n \in Conn
          PROVE  ClosesOnce(n)'
      <3>1. nodes'[n].state = nodes[n].state /\ link'[n] = link[n]
        BY <1>1, <1>2 DEF serverVars
      <3>2. \/ toServer'[n] = toServer[n]
            \/ /\ link[n] = "open"
               /\ \E m : m.id # 0 /\ toServer'[n] = Append(toServer[n], m)
        BY <1>1, <1>3, ReplySound
      <3> QED
        BY <1>1, <3>1, <3>2, StaysOpen
    <2> QED
      BY <2>1
  <1> QED
    BY <1>1, <1>4 DEF SoundInv, serverVars, Completes, StageDone, LastStage

\* The steps of sockets and clients together.
LEMMA SocketSound ==
    ASSUME TypeOK, SoundInv,
           \/ \E c \in Client : InputTransfer(c) \/ InputTransferFails(c)
           \/ \E c \in Client, n \in Conn : Connect(c, n)
           \/ \E n \in Conn : Break(n)
    PROVE  SoundInv'
  <1>1. /\ ServerTypeOK /\ WireTypeOK /\ ProcsLive /\ fault = "none"
        /\ \A i \in Conn : ClosesOnce(i)
        /\ nodes \in [Conn -> Node] /\ toServer \in [Conn -> Seq(Message)]
        /\ \A i \in Conn : toServer[i] \in Seq(Message)
    BY DEF TypeOK, SoundInv, ProcsLive, ServerTypeOK, WireTypeOK
  <1>2. ASSUME NEW n \in Conn, InputParametersSent(n) \/ InputParameterSendFailed(n)
        PROVE  SoundInv'
    <2>1. Drained
      BY <1>2 DEF InputParametersSent, InputParameterSendFailed, Drained
    <2>2. UNCHANGED fault /\ ProcsLive' /\ SameStates
      <3>1. CASE /\ UNCHANGED <<procs, fault>>
                 /\ \E x : nodes' = [nodes EXCEPT ![n].sending = x]
        BY <1>1, <3>1, NodeOpsState
        DEF SameStates, ProcsLive, Completes, StageDone, LastStage
      <3>2. CASE Live(nodes[n].pid) /\ GiveUpJob(n, nodes[n].exec)
        BY <1>1, <3>2, GiveUpJobSound
      <3> QED
        BY <1>2, <3>1, <3>2 DEF InputParametersSent, InputParameterSendFailed
    <2> QED
      BY <1>1, <2>1, <2>2, DrainedSound DEF SoundInv, ProcsLive
  <1>3. ASSUME NEW c \in Client, NEW n \in Conn, Connect(c, n)
        PROVE  SoundInv'
    <2>1. /\ nodes' = [nodes EXCEPT ![n] = NewNode("up")]
          /\ link' = [link EXCEPT ![n] = "open"]
          /\ toServer' = [toServer EXCEPT ![n] = <<Answer(100, NoModule, 1)>>]
          /\ UNCHANGED <<procs, fault>>
      BY <1>3 DEF Connect, IncomingConnection, Connected
    <2>2. ClosesOnce(n)'
      <3>1. NoClose(<<Answer(100, NoModule, 1)>>)
        BY DEF NoClose, Answer, Msg
      <3>2. toServer'[n] = <<Answer(100, NoModule, 1)>> /\ nodes'[n].state = "up"
        BY <1>1, <2>1 DEF NewNode
      <3>3. NoClose(toServer'[n]) /\ ClosesLast(toServer'[n])
        BY <3>1, <3>2 DEF NoClose, ClosesLast
      <3> QED
        BY <3>2, <3>3, ClosesOnceIs
    <2>3. ASSUME NEW i \in Conn, i # n
          PROVE  ClosesOnce(i)'
      <3>1. nodes'[i] = nodes[i] /\ link'[i] = link[i] /\ toServer'[i] = toServer[i]
        BY <1>1, <2>1, <2>3 DEF ServerTypeOK
      <3> QED
        BY <1>1, <3>1, StaysOpen
    <2> QED
      BY <1>1, <2>1, <2>2, <2>3
      DEF SoundInv, ProcsLive, Completes, StageDone, LastStage
  <1>4. ASSUME NEW n \in Conn, Break(n)
        PROVE  SoundInv'
    <2>1. PICK kept \in Prefixes(toServer[n]) :
             toServer' = [toServer EXCEPT ![n] = Append(kept, Closed)]
      BY <1>4 DEF Break, Lose
    <2>2. /\ UNCHANGED serverVars /\ "break" \in May /\ link[n] = "open"
          /\ link' = [link EXCEPT ![n] = "closed"]
      BY <1>4 DEF Break, Lose
    <2>3. ClosesOnce(n)'
      <3>1. toServer[n] \in Seq(Message) /\ NoClose(toServer[n]) /\ nodes[n].state # "null"
        BY <1>1, <2>2, ClosesOnceIs
      <3>2. kept \in Seq(Message) /\ NoClose(kept)
        BY <3>1, CloseOps DEF Prefixes
      <3>3. ClosesLast(Append(kept, Closed))
        BY <3>2, CloseOps
      <3>4. toServer'[n] = Append(kept, Closed) /\ link'[n] = "closed" /\ nodes' = nodes
        BY <1>1, <2>1, <2>2 DEF ServerTypeOK, serverVars
      <3> QED
        BY <2>2, <3>1, <3>3, <3>4, ClosesOnceIs
    <2>4. ASSUME NEW i \in Conn, i # n
          PROVE  ClosesOnce(i)'
      <3>1. nodes'[i] = nodes[i] /\ link'[i] = link[i] /\ toServer'[i] = toServer[i]
        BY <1>1, <2>1, <2>2, <2>4 DEF ServerTypeOK, serverVars
      <3> QED
        BY <1>1, <3>1, StaysOpen
    <2> QED
      BY <1>1, <2>2, <2>3, <2>4
      DEF SoundInv, serverVars, ProcsLive, Completes, StageDone, LastStage
  <1> QED
    BY <1>2, <1>3, <1>4 DEF InputTransfer, InputTransferFails

---------------------------------------------------------------------------
(* No undefined behaviour.                                                 *)

\* No step of the system reaches undefined behaviour.
LEMMA NextSound ==
    ASSUME LastStagesHaveWork, "rpcDisconnect" \notin May,
           "clearFailed" \notin May \/ "break" \notin May,
           TypeOK, SoundInv, [Next]_vars
    PROVE  SoundInv'
  <1>1. CASE ServerStep
    <2>1. ~\E n \in Conn : ReapNode(n)
      BY ClosesOnceIs DEF ReapNode, SoundInv
    <2> QED
      BY <1>1, <2>1, HandlerSound, QueueSound, UserSound DEF ServerStep
  <1>2. CASE UNCHANGED vars
    BY <1>2
    DEF vars, serverVars, netVars, SoundInv, ClosesOnce, Completes, StageDone, LastStage
  <1> QED
    BY <1>1, <1>2, ClientSound, SocketSound DEF Next

\* No handler reaches freed memory or a NULL node, if the last stage of every
\* plan has something to run, no user disconnects a node, and no user clears
\* the failed modules once a node may have left.  A process then never
\* completes inside giveJobToNode or gotoStage, and the close of a connection
\* is the last event of its node (process.cpp, node.cpp, server.cpp).
THEOREM NoHandlerFaults ==
    ASSUME LastStagesHaveWork, "rpcDisconnect" \notin May,
           "clearFailed" \notin May \/ "break" \notin May
    PROVE  Spec => []NoUndefinedBehaviour
  <1>1. Init => SoundInv
    BY DEF Init, ServerInit, NetInit, NewNode, SoundInv, ClosesOnce
  <1>2. TypeOK /\ SoundInv /\ [Next]_vars => SoundInv'
    BY NextSound
  <1>3. SoundInv => NoUndefinedBehaviour
    BY DEF SoundInv, NoUndefinedBehaviour
  <1> QED
    BY <1>1, <1>2, <1>3, TypeCorrect, PTL DEF Spec

---------------------------------------------------------------------------
(* The first slot on offer.                                                *)

\* The order of the natural numbers is well founded, as a set of pairs.
LEMMA NumbersAreWellFounded ==
    \E R : IsWellFoundedOn(R, Nat) /\ \A k, m \in Nat : <<k, m>> \in R <=> k < m
  <1>1. IsWellFoundedOn(OpToRel(<, Nat), Nat)
    BY NatLessThanWellFounded
  <1>2. \A k, m \in Nat : <<k, m>> \in OpToRel(<, Nat) <=> k < m
    BY DEF OpToRel
  <1> QED
    BY <1>1, <1>2, Zenon

\* A set of numbers that is not empty has a least one.
LEMMA LeastNumber ==
    ASSUME NEW S \in SUBSET Nat, S # {}
    PROVE  \E m \in S : \A k \in S : m <= k
  <1>1. PICK R : IsWellFoundedOn(R, Nat) /\ \A k, m \in Nat : <<k, m>> \in R <=> k < m
    BY NumbersAreWellFounded
  <1>2. IsWellFoundedOn(R, Nat) /\ S \subseteq Nat
    BY <1>1
  <1>3. \A k, m \in Nat : <<k, m>> \in R <=> k < m
    BY <1>1
  <1>4. \E m \in S : \A k \in S : ~ (<<k, m>> \in R)
    BY <1>2, WFMin, Zenon
  <1>5. PICK m \in S : \A k \in S : ~ (<<k, m>> \in R)
    BY <1>4
  <1>6. \A k \in S : ~(k < m)
    BY <1>3, <1>5
  <1> QED
    BY <1>6

\* The slots of a set come one before the other.
LEMMA SomeSlotIsFirst ==
    ASSUME NEW S \in SUBSET (Nat \X Nat), S # {}
    PROVE  \E x \in S : IsFirst(x, S)
  <1>1. \A x, y \in S : /\ x[1] \in Nat /\ x[2] \in Nat
                        /\ x[1] = y[1] /\ x[2] = y[2] => x = y
    OBVIOUS
  <1>2. CASE \E x \in S : x[2] = 0
    <2> DEFINE T == { x[1] : x \in { y \in S : y[2] = 0 } }
    <2>1. T \in SUBSET Nat /\ T # {}
      BY <1>1, <1>2
    <2>2. PICK m \in T : \A k \in T : m <= k
      <3> HIDE DEF T
      <3> QED
        BY <2>1, LeastNumber
    <2>3. PICK x \in S : x[2] = 0 /\ x[1] = m
      OBVIOUS
    <2>4. \A y \in S : y[2] = 0 => x[1] <= y[1]
      BY <2>2, <2>3
    <2>5. \A y \in S \ {x} : Before(x, y)
      BY <1>1, <2>3, <2>4 DEF Before
    <2> QED
      BY <2>5 DEF IsFirst
  <1>3. CASE ~\E x \in S : x[2] = 0
    <2> DEFINE T == { x[1] : x \in S }
    <2>1. T \in SUBSET Nat /\ T # {}
      BY <1>1
    <2>2. PICK m \in T : \A k \in T : m <= k
      <3> HIDE DEF T
      <3> QED
        BY <2>1, LeastNumber
    <2> DEFINE U == { x[2] : x \in { y \in S : y[1] = m } }
    <2>3. U \in SUBSET Nat /\ U # {}
      BY <1>1
    <2>4. PICK e \in U : \A k \in U : e <= k
      <3> HIDE DEF U
      <3> QED
        BY <2>3, LeastNumber
    <2>5. PICK x \in S : x[1] = m /\ x[2] = e
      OBVIOUS
    <2>6. \A y \in S : x[1] <= y[1] /\ (y[1] = x[1] => x[2] <= y[2])
      BY <2>2, <2>4, <2>5
    <2>7. \A y \in S \ {x} : Before(x, y)
      BY <1>1, <1>3, <2>5, <2>6 DEF Before
    <2> QED
      BY <2>7 DEF IsFirst
  <1> QED
    BY <1>2, <1>3

\* A process that offers slots offers a first one.
LEMMA OfferHasFirst ==
    ASSUME NEW pr, IsProcess(pr), NEW mods, Offered(pr, mods) # {}
    PROVE  \E x \in Offered(pr, mods) : IsFirst(x, Offered(pr, mods))
  <1>1. /\ StageOf(pr) \in Seq(Entry)
        /\ DOMAIN pr.slots = SlotIds(StageOf(pr))
    BY StageIsSeq DEF IsProcess, StageOf
  <1>2. SlotIds(StageOf(pr)) \subseteq Nat \X Nat
    BY <1>1 DEF SlotIds, Expanded, Entry
  <1>3. Offered(pr, mods) \in SUBSET (Nat \X Nat)
    BY <1>1, <1>2 DEF Offered
  <1> QED
    BY <1>3, SomeSlotIsFirst

---------------------------------------------------------------------------
(* Unfinished stages.                                                      *)

NoneDone == \A p \in DOMAIN procs : ~StageDone(procs[p])

\* A stage that is entered is not done, the last ones included.
LEMMA EnteredHasWork ==
    ASSUME StagesHaveWork
    PROVE  /\ LastStagesHaveWork
           /\ \A s \in Scheme : \A k \in 1..Len(Plan[s]) : ~StageDone(EnterStage(s, k))
           /\ \A pr : IsProcess(pr) /\ ~Completes(pr) => ~StageDone(Settle(pr))
  <1>1. \A s \in Scheme : DOMAIN Plan[s] = 1..Len(Plan[s]) /\ Len(Plan[s]) \in 1..Len(Plan[s])
    BY PlanAssumption
  <1>2. LastStagesHaveWork
    BY <1>1 DEF StagesHaveWork, LastStagesHaveWork
  <1>3. \A s \in Scheme : \A k \in 1..Len(Plan[s]) : ~StageDone(EnterStage(s, k))
    BY <1>1, StageWithWork DEF StagesHaveWork
  <1>4. ASSUME NEW pr, IsProcess(pr), ~Completes(pr)
        PROVE  ~StageDone(Settle(pr))
    <2>1. CASE StageDone(pr)
      <3>1. ~LastStage(pr)
        BY <1>4, <2>1 DEF Completes
      <3>2. pr.name \in Scheme /\ pr.stage + 1 \in 1..Len(Plan[pr.name])
        BY <1>4, <3>1, PlanAssumption DEF LastStage, IsProcess
      <3> QED
        BY <1>3, <2>1, <3>1, <3>2 DEF Settle
    <2>2. CASE ~StageDone(pr)
      BY <2>2 DEF Settle
    <2> QED
      BY <2>1, <2>2
  <1> QED
    BY <1>2, <1>3, <1>4

\* The loop starts over, and has passed nothing yet.
LEMMA ScanWork ==
    ASSUME ServerTypeOK', NoneDone', NEW again, NEW f, Scan(again, f)
    PROVE  WorkInv'
  <1>1. \A p \in DOMAIN procs' : p \in Nat /\ p > 0
    BY DEF ServerTypeOK
  <1>2. scan'.on /\ scan'.at = <<0, 0>>
    BY DEF Scan
  <1>3. \A p \in DOMAIN procs', n \in Conn : ~Passed(p, n)'
    BY <1>1, <1>2 DEF Passed, Later
  <1> QED
    BY <1>3 DEF WorkInv, NoneDone, FreeNodes

\* A handler without checkProcessQueue frees no node and offers it nothing.
LEMMA IdleWork ==
    ASSUME WorkInv, ~scan.on, scan' = scan, procs' = procs,
           \A n \in Conn : nodes'[n].state = "up" /\ ~nodes'[n].busy =>
              \/ Able(nodes'[n]) = {}
              \/ Up(n) /\ ~nodes[n].busy /\ Able(nodes'[n]) = Able(nodes[n])
    PROVE  WorkInv'
  <1>1. \A p \in DOMAIN procs, n \in FreeNodes : Offered(procs[p], Able(nodes[n])) = {}
    BY DEF WorkInv, Passed
  <1>2. \A p \in DOMAIN procs : ~StageDone(procs[p])
    BY DEF WorkInv
  <1>3. \A pr : Offered(pr, {}) = {}
    BY DEF Offered
  <1>4. ASSUME NEW p \in DOMAIN procs, NEW n \in Conn,
               nodes'[n].state = "up", ~nodes'[n].busy
        PROVE  Offered(procs[p], Able(nodes'[n])) = {}
    BY <1>1, <1>3, <1>4 DEF FreeNodes
  <1>5. \A p \in DOMAIN procs', n \in FreeNodes' :
           Offered(procs'[p], Able(nodes'[n])) = {}
    BY <1>4 DEF FreeNodes, Up
  <1>6. \A p \in DOMAIN procs' : ~StageDone(procs'[p])
    BY <1>2
  <1> QED
    BY <1>5, <1>6 DEF WorkInv, Offered, StageDone

---------------------------------------------------------------------------
(* Steps of the server that start the loop.                                *)

Rescans == \E again, f : Scan(again, f)

\* A job is given back.
LEMMA GiveUpJobWork ==
    ASSUME NoneDone, NEW n, NEW m, GiveUpJob(n, m), Live(nodes[n].pid)
    PROVE  NoneDone' /\ Rescans
  <1>1. \A pr : StageDone(ClearJob(pr, n)) => StageDone(pr)
    BY DEF StageDone, ClearJob, WithSlots, StartedOn, Ended
  <1>2. NoneDone'
    BY <1>1 DEF GiveUpJob, NoneDone, Live
  <1> QED
    BY <1>2 DEF GiveUpJob, Rescan, Rescans

\* A job ends: the process is settled, or leaves.
LEMMA EndJobWork ==
    ASSUME ServerTypeOK, NoneDone, StagesHaveWork, NEW n \in Conn, NEW m,
           NEW st \in Ended, NEW fb \in BOOLEAN, Live(nodes[n].pid),
           EndJob(n, m, st, fb)
    PROVE  NoneDone' /\ Rescans
  <1> DEFINE p == nodes[n].pid
             pr == procs[p]
             ended == FinishJob(pr, n, m, st)
  <1>1. /\ p \in DOMAIN procs
        /\ IsProcess(pr)
        /\ n \in Nat
    BY NetAssumption DEF Live, ServerTypeOK, Conn
  <1>2. PICK X \in IF EndedSlots(pr, n, m) # {} THEN PluginStops(pr) ELSE {{}},
             k \in IF EndedSlots(pr, n, m) # {} THEN PluginGotos(pr) ELSE {0} :
             LET asked == StopSlots(ended, X)
                 next == WentTo(asked, k)
             IN  CASE k # 0 /\ Completes(EnterStage(pr.name, k)) -> TRUE
                   [] ~(k # 0 /\ Completes(EnterStage(pr.name, k))) /\ Completes(next) ->
                        procs' = Without(p) /\ Scan(TRUE, IF fb THEN 0 ELSE n)
                   [] OTHER ->
                        procs' = [procs EXCEPT ![p] = Settle(next)] /\ Rescan
    BY ZenonT(40) DEF EndJob
  <1> DEFINE asked == StopSlots(ended, X)
             next == WentTo(asked, k)
  <1>3. X \subseteq DOMAIN pr.slots
    BY <1>2, PluginStopsSlots
  <1>4. k = 0 \/ k \in 1..Len(Plan[pr.name])
    BY <1>1, <1>2, PlanAssumption DEF PluginGotos, IsProcess
  <1>5. IsProcess(asked) /\ asked.name = pr.name
    <2>1. IsProcess(ended) /\ DOMAIN ended.slots = DOMAIN pr.slots /\ ended.name = pr.name
      BY <1>1, SlotOpsAreProcesses, WithSlotsIsProcess DEF FinishJob, WithSlots
    <2> HIDE DEF ended
    <2> QED
      BY <1>1, <1>3, <2>1, SlotOpsAreProcesses DEF StopSlots, WithSlots
  <1>6. pr.name \in Scheme
    BY <1>1 DEF IsProcess
  <1>7. ~(k # 0 /\ Completes(EnterStage(pr.name, k)))
    BY <1>4, <1>6, EnteredHasWork DEF Completes
  <1> HIDE DEF asked
  <1>8. IsProcess(next)
    BY <1>4, <1>5, <1>6, EnterStageIsProcess, SettleIsProcess DEF WentTo
  <1>9. \/ procs' = Without(p) /\ Scan(TRUE, IF fb THEN 0 ELSE n)
        \/ ~Completes(next) /\ procs' = [procs EXCEPT ![p] = Settle(next)] /\ Rescan
    BY <1>2, <1>7 DEF asked
  <1> HIDE DEF next
  <1>10. Rescans
    BY <1>9 DEF Rescan, Rescans
  <1>11. NoneDone'
    <2>1. CASE procs' = Without(p)
      BY <2>1 DEF NoneDone, Without
    <2>2. CASE ~Completes(next) /\ procs' = [procs EXCEPT ![p] = Settle(next)]
      BY <1>1, <1>8, <2>2, EnteredHasWork DEF NoneDone
    <2> QED
      BY <1>9, <2>1, <2>2
  <1> QED
    BY <1>10, <1>11

\* No node leaves and no event comes late while no connection breaks.
LEMMA NoNodeLeaves ==
    ASSUME TypeOK, SoundInv, "break" \notin May, NEW n \in Conn
    PROVE  ~NodeDisconnected(n) /\ ~LateEvent(n)
  <1>1. NoClose(toServer[n]) /\ nodes[n].state # "null"
    BY ClosesOnceIs DEF SoundInv
  <1>2. toServer[n] # <<>> => Head(toServer[n]).id # 0
    <2>1. toServer[n] \in Seq(Message)
      BY DEF TypeOK, WireTypeOK
    <2>2. toServer[n] # <<>> => 1 \in DOMAIN toServer[n] /\ toServer[n][1] = Head(toServer[n])
      BY <2>1
    <2> QED
      BY <1>1, <2>2 DEF NoClose
  <1> QED
    BY <1>1, <1>2 DEF NodeDisconnected, LateEvent

\* A handler starts the loop, or leaves processes and nodes as they were but
\* for the input files of a node.
LEMMA HandlerWork ==
    ASSUME TypeOK, SoundInv, WorkInv, StagesHaveWork, "break" \notin May,
           NEW n \in Conn, Handler(n)
    PROVE  WorkInv'
  <1> DEFINE m == Head(toServer[n]).name
  <1>1. ServerTypeOK /\ ServerTypeOK' /\ NoneDone /\ nodes \in [Conn -> Node]
    BY HandlerTyped DEF TypeOK, ServerTypeOK, WorkInv, NoneDone
  <1>2. ASSUME NoneDone', Rescans
        PROVE  WorkInv'
    BY <1>1, <1>2, ScanWork DEF Rescans
  <1>3. ASSUME UNCHANGED <<nodes, procs, scan>>, ~scan.on
        PROVE  WorkInv'
    BY <1>3, IdleWork DEF Up
  <1>4. ASSUME NEW x, nodes' = [nodes EXCEPT ![n].sending = x],
               UNCHANGED <<procs, scan>>, ~scan.on
        PROVE  WorkInv'
    <2>1. \A i \in Conn : /\ nodes'[i].state = nodes[i].state
                          /\ nodes'[i].busy = nodes[i].busy
                          /\ Able(nodes'[i]) = Able(nodes[i])
      BY <1>1, <1>4 DEF Node, Able
    <2> QED
      BY <1>4, <2>1, IdleWork DEF Up
  <1>5. ASSUME Live(nodes[n].pid),
               \/ GiveUpJob(n, m)
               \/ \E st \in Ended, fb \in BOOLEAN : EndJob(n, m, st, fb)
        PROVE  WorkInv'
    BY <1>1, <1>2, <1>5, GiveUpJobWork, EndJobWork
  <1>6. ASSUME UNCHANGED procs, Rescan
        PROVE  WorkInv'
    <2>1. NoneDone'
      BY <1>1, <1>6 DEF NoneDone, StageDone
    <2> QED
      BY <1>2, <1>6, <2>1 DEF Rescan, Rescans
  <1>7. ASSUME NEW id, Receives(n, id)
        PROVE  ~scan.on
    BY <1>7 DEF Receives, Idle
  <1>8. CASE IgnoreWhileStopping(n) \/ ReceiveAuthorizationRequest(n)
    BY <1>3, <1>7, <1>8 DEF IgnoreWhileStopping, ReceiveAuthorizationRequest, Hears, Ignore
  <1>9. CASE ReceiveModulesListRequest(n)
    BY <1>6, <1>9 DEF ReceiveModulesListRequest
  <1>10. CASE CheckPrepareForStartModule(n)
    BY <1>3, <1>4, <1>5, <1>7, <1>10 DEF CheckPrepareForStartModule, Hears, Ignore
  <1>11. CASE CheckInputParametersSending(n)
    BY <1>3, <1>5, <1>7, <1>11 DEF CheckInputParametersSending, Hears, Ignore
  <1>12. CASE CheckModuleStarting(n)
    BY <1>3, <1>5, <1>7, <1>12 DEF CheckModuleStarting, Hears, Ignore
  <1>13. CASE ModuleExecutionEnded(n)
    BY <1>3, <1>5, <1>6, <1>7, <1>13
    DEF ModuleExecutionEnded, Hears, Ignore, OutputNotDefined, Ended
  <1>14. CASE CheckModuleStoping(n)
    BY <1>5, <1>6, <1>14 DEF CheckModuleStoping, Ended
  <1> QED
    BY <1>8, <1>9, <1>10, <1>11, <1>12, <1>13, <1>14, NoNodeLeaves DEF Handler

---------------------------------------------------------------------------
(* The loop.                                                               *)

\* A pair that the loop has not passed is still to come.
LEMMA OffersAre ==
    ASSUME NEW p \in DOMAIN procs, NEW n \in FreeNodes, scan.on, ~Passed(p, n)
    PROVE  <<p, n>> \in Offers
  BY DEF Offers, Passed

\* The pair the loop comes to has nothing to do for it afterwards.
LEMMA GiveJobWork ==
    ASSUME ServerTypeOK, WorkInv, Unfed = {}, GiveJob
    PROVE  WorkInv'
  <1>1. scan.on /\ fault = "none" /\ nodes \in [Conn -> Node]
    BY DEF GiveJob, ServerTypeOK
  <1>2. PICK o \in Offers :
          LET p == o[1]
              n == o[2]
              pr == Settle(procs[p])
          IN  /\ \A q \in Offers \ {o} : Later(o, q)
              /\ \/ Completes(procs[p])
                 \/ /\ NothingFor(pr, n)
                    /\ scan' = [scan EXCEPT !.at = o]
                    /\ procs' = [procs EXCEPT ![p] = pr]
                    /\ UNCHANGED nodes
                 \/ /\ scan' = [scan EXCEPT !.at = o]
                    /\ \E x \in Offered(pr, Able(nodes[n])) :
                          /\ procs' = [procs EXCEPT ![p] = StartSlot(pr, x, n)]
                          /\ nodes' = [nodes EXCEPT ![n] = Assigned(@, p, pr, x)]
    BY DEF GiveJob
  <1> DEFINE p == o[1]
             n == o[2]
             pr == procs[p]
  <1>3. /\ p \in DOMAIN procs /\ n \in FreeNodes /\ n \in Conn /\ o = <<p, n>>
        /\ IsProcess(pr) /\ ~StageDone(pr)
    BY DEF Offers, FreeNodes, ServerTypeOK, WorkInv
  <1>4. Settle(pr) = pr /\ ~Completes(pr)
    BY <1>3 DEF Settle, Completes
  <1>5. \A q \in DOMAIN procs, i \in FreeNodes :
           \/ <<q, i>> = o
           \/ Later(o, <<q, i>>)
           \/ Offered(procs[q], Able(nodes[i])) = {}
    <2>1. ASSUME NEW q \in DOMAIN procs, NEW i \in FreeNodes, ~Passed(q, i), <<q, i>> # o
          PROVE  Later(o, <<q, i>>)
      <3> DEFINE r == <<q, i>>
      <3>1. r \in Offers \ {o}
        BY <1>1, <2>1, OffersAre
      <3> HIDE DEF r
      <3>2. Later(o, r)
        BY <1>2, <3>1
      <3> QED
        BY <3>2 DEF r
    <2>2. ASSUME NEW q \in DOMAIN procs, NEW i \in FreeNodes, Passed(q, i)
          PROVE  Offered(procs[q], Able(nodes[i])) = {}
      BY <2>2 DEF WorkInv
    <2> QED
      BY <2>1, <2>2
  <1>6. scan' = [scan EXCEPT !.at = o]
    BY <1>2, <1>4
  <1>7. \A q, i : Passed(q, i)' <=> ~Later(o, <<q, i>>)
    <2>1. scan'.on /\ scan'.at = o
      BY <1>1, <1>6 DEF ServerTypeOK
    <2> QED
      BY <2>1 DEF Passed
  <1>8. CASE NothingFor(pr, n) /\ procs' = [procs EXCEPT ![p] = pr] /\ UNCHANGED nodes
    <2>1. Offered(pr, Able(nodes[n])) = {}
      <3> SUFFICES ASSUME Offered(pr, Able(nodes[n])) # {}
                   PROVE  FALSE
        OBVIOUS
      <3>1. PICK x \in Offered(pr, Able(nodes[n])) : IsFirst(x, Offered(pr, Able(nodes[n])))
        BY <1>3, OfferHasFirst
      <3> QED
        BY <1>8, <3>1 DEF NothingFor
    <2>2. DOMAIN procs' = DOMAIN procs /\ \A q \in DOMAIN procs : procs'[q] = procs[q]
      BY <1>3, <1>8
    <2>3. \A q \in DOMAIN procs, i \in FreeNodes :
             ~Later(o, <<q, i>>) => Offered(procs[q], Able(nodes[i])) = {}
      BY <1>3, <1>5, <2>1
    <2>4. FreeNodes' = FreeNodes /\ nodes' = nodes
      BY <1>8 DEF FreeNodes, Up
    <2>5. \A q \in DOMAIN procs', i \in FreeNodes' :
             Passed(q, i)' => Offered(procs'[q], Able(nodes'[i])) = {}
      BY <1>7, <2>2, <2>3, <2>4
    <2>6. \A q \in DOMAIN procs' : ~StageDone(procs'[q])
      BY <2>2 DEF WorkInv
    <2> QED
      BY <2>5, <2>6 DEF WorkInv, Offered, StageDone
  <1>9. ASSUME NEW x \in Offered(pr, Able(nodes[n])),
               procs' = [procs EXCEPT ![p] = StartSlot(pr, x, n)],
               nodes' = [nodes EXCEPT ![n] = Assigned(@, p, pr, x)]
        PROVE  WorkInv'
    <2> DEFINE new == StartSlot(pr, x, n)
    <2>1. /\ x \in DOMAIN pr.slots
          /\ ~StageDone(new)
          /\ \A mods : Offered(new, mods) \subseteq Offered(pr, mods)
      <3>1. x \in DOMAIN pr.slots
        BY <1>9 DEF Offered
      <3>2. ~StageDone(new)
        BY <3>1 DEF StageDone, StartSlot, WithSlots, Ended
      <3>3. \A mods : Offered(new, mods) \subseteq Offered(pr, mods)
        BY DEF Offered, StartSlot, WithSlots, SlotName, StageOf
      <3> QED
        BY <3>1, <3>2, <3>3
    <2>2. /\ nodes'[n].busy
          /\ \A i \in Conn : i # n => nodes'[i] = nodes[i]
      BY <1>1, <1>3, <1>9 DEF Assigned, Node
    <2> HIDE DEF new
    <2>3. DOMAIN procs' = DOMAIN procs
          /\ \A q \in DOMAIN procs : procs'[q] = IF q = p THEN new ELSE procs[q]
      BY <1>3, <1>9 DEF new
    <2>4. \A i \in FreeNodes' : i \in FreeNodes /\ i # n /\ nodes'[i] = nodes[i]
      BY <2>2 DEF FreeNodes, Up
    <2>5. \A q \in DOMAIN procs', i \in FreeNodes' :
             Passed(q, i)' => Offered(procs'[q], Able(nodes'[i])) = {}
      <3>1. ASSUME NEW q \in DOMAIN procs, NEW i \in FreeNodes', Passed(q, i)'
            PROVE  Offered(procs'[q], Able(nodes'[i])) = {}
        <4>1. i \in FreeNodes /\ <<q, i>> # o /\ ~Later(o, <<q, i>>)
          BY <1>3, <1>7, <2>4, <3>1
        <4>2. Offered(procs[q], Able(nodes[i])) = {}
          BY <1>5, <4>1
        <4> QED
          BY <2>1, <2>3, <2>4, <4>2
      <3> QED
        BY <2>3, <3>1
    <2>6. \A q \in DOMAIN procs' : ~StageDone(procs'[q])
      BY <2>1, <2>3 DEF WorkInv
    <2> QED
      BY <2>5, <2>6 DEF WorkInv, Offered, StageDone
  <1> QED
    BY <1>2, <1>4, <1>8, <1>9

\* When the loop ends it has passed everything.
LEMMA EndScanWork ==
    ASSUME ServerTypeOK, WorkInv, EndScan
    PROVE  WorkInv'
  <1>1. scan.on /\ Offers = {} /\ UNCHANGED procs
    BY DEF EndScan
  <1>2. \A p \in DOMAIN procs, n \in FreeNodes : Passed(p, n)
    BY <1>1, OffersAre
  <1>3. \A p \in DOMAIN procs, n \in FreeNodes : Offered(procs[p], Able(nodes[n])) = {}
    BY <1>2 DEF WorkInv
  <1>4. CASE Rescan
    <2>1. ServerTypeOK'
      BY QueueTyped DEF Queue
    <2>2. NoneDone'
      BY <1>1 DEF WorkInv, NoneDone, StageDone
    <2> QED
      BY <1>4, <2>1, <2>2, ScanWork DEF Rescan
  <1>5. CASE UNCHANGED nodes
    <2>1. FreeNodes' = FreeNodes /\ nodes' = nodes /\ procs' = procs
      BY <1>1, <1>5 DEF FreeNodes, Up
    <2> QED
      BY <1>3, <2>1 DEF WorkInv, Offered, StageDone
  <1> QED
    BY <1>4, <1>5 DEF EndScan

---------------------------------------------------------------------------
(* The other steps.                                                        *)

\* The requests of the user.
LEMMA UserWork ==
    ASSUME TypeOK, WorkInv, StagesHaveWork, "rpcDisconnect" \notin May,
           "clearFailed" \notin May, User
    PROVE  WorkInv'
  <1>1. ServerTypeOK /\ ServerTypeOK' /\ NoneDone
    BY UserTyped DEF TypeOK, WorkInv, NoneDone
  <1>2. ASSUME NEW s \in Scheme, StartProcess(s)
        PROVE  WorkInv'
    <2>1. CASE UNCHANGED <<procs, scan, nodes>>
      BY <1>2, <2>1, IdleWork DEF StartProcess, Idle, Up
    <2>2. CASE Rescan /\ \A p \in DOMAIN procs' :
                 \/ p \in DOMAIN procs /\ procs'[p] = procs[p]
                 \/ procs'[p] = Settle(EnterStage(s, 1))
      <3>1. ~StageDone(Settle(EnterStage(s, 1)))
        <4>1. 1 \in 1..Len(Plan[s])
          BY PlanAssumption
        <4> QED
          BY <4>1, EnteredHasWork DEF Settle
      <3>2. NoneDone'
        BY <1>1, <2>2, <3>1 DEF NoneDone
      <3> QED
        BY <1>1, <2>2, <3>2, ScanWork DEF Rescan
    <2> QED
      BY <1>2, <2>1, <2>2 DEF StartProcess
  <1>3. ASSUME NEW p \in Pid, StopProcess(p)
        PROVE  WorkInv'
    <2>1. NoneDone' /\ Rescan
      BY <1>1, <1>3 DEF StopProcess, NoneDone, Without
    <2> QED
      BY <1>1, <2>1, ScanWork DEF Rescan
  <1> QED
    BY <1>2, <1>3 DEF User, DisconnectNode, ClearFailedModulesForNodes

\* The clients change nothing on the server; a node that connects offers no
\* module yet.
LEMMA OtherWork ==
    ASSUME TypeOK, WorkInv,
           \/ \E c \in Client : ClientStep(c)
           \/ \E c \in Client : InputTransfer(c) \/ InputTransferFails(c)
           \/ \E c \in Client, n \in Conn : Connect(c, n)
           \/ \E n \in Conn : Break(n)
           \/ \E n \in Conn : ReapNode(n)
           \/ UNCHANGED vars
    PROVE  WorkInv'
  <1>1. ServerTypeOK /\ NoneDone /\ nodes \in [Conn -> Node]
    BY DEF TypeOK, ServerTypeOK, WorkInv, NoneDone
  <1>2. CASE UNCHANGED serverVars
    BY <1>2 DEF serverVars, WorkInv, Offered, StageDone, FreeNodes, Up, Passed
  <1>3. ASSUME NEW n \in Conn, InputParametersSent(n) \/ InputParameterSendFailed(n),
               ServerTypeOK'
        PROVE  WorkInv'
    <2>1. CASE \E x : /\ nodes' = [nodes EXCEPT ![n].sending = x]
                      /\ UNCHANGED <<procs, scan>>
                      /\ ~scan.on
      <3>1. \A i \in Conn : /\ nodes'[i].state = nodes[i].state
                            /\ nodes'[i].busy = nodes[i].busy
                            /\ Able(nodes'[i]) = Able(nodes[i])
        BY <1>1, <2>1 DEF Node, Able
      <3> QED
        BY <2>1, <3>1, IdleWork DEF Up
    <2>2. CASE Live(nodes[n].pid) /\ GiveUpJob(n, nodes[n].exec)
      BY <1>1, <1>3, <2>2, GiveUpJobWork, ScanWork DEF Rescans
    <2> QED
      BY <1>3, <2>1, <2>2 DEF InputParametersSent, InputParameterSendFailed, Idle
  <1>4. ASSUME NEW c \in Client, NEW n \in Conn, Connect(c, n)
        PROVE  WorkInv'
    <2>1. /\ nodes' = [nodes EXCEPT ![n] = NewNode("up")]
          /\ UNCHANGED <<procs, scan>> /\ ~scan.on
      BY <1>4 DEF Connect, IncomingConnection, Idle
    <2>2. Able(NewNode("up")) = {}
      BY DEF Able, NewNode
    <2>3. \A i \in Conn : nodes'[i] = nodes[i] \/ Able(nodes'[i]) = {}
      BY <1>1, <2>1, <2>2
    <2> QED
      BY <2>1, <2>3, IdleWork DEF Up
  <1> QED
    BY <1>1, <1>2, <1>3, <1>4, OtherStepsTyped
    DEF InputTransfer, InputTransferFails, ClientStep, Break, ReapNode, vars

---------------------------------------------------------------------------
(* No work is left waiting.                                                *)

\* No step leaves a node without work behind the loop.
LEMMA NextWork ==
    ASSUME StagesHaveWork, Unfed = {}, "break" \notin May,
           "rpcDisconnect" \notin May, "clearFailed" \notin May,
           TypeOK, SoundInv, WorkInv, [Next]_vars
    PROVE  WorkInv'
  <1>1. ServerTypeOK
    BY DEF TypeOK
  <1> QED
    BY <1>1, HandlerWork, GiveJobWork, EndScanWork, UserWork, OtherWork
    DEF Next, ServerStep, Queue

\* WorkInv, for idle states, is WorkConserving.
LEMMA WorkInvImplies ==
    ASSUME WorkInv
    PROVE  WorkConserving
  BY DEF WorkInv, WorkConserving, Passed, Idle

\* Whenever the server waits for its next event, no live process rests in a
\* finished stage and no free node is left that could run a waiting module,
\* for plans without empty stages and without undefined inputs, while no node
\* leaves and no failed module is forgiven: checkProcessQueue follows every
\* other change (server.cpp, process.cpp).
THEOREM NoWorkIsLeft ==
    ASSUME StagesHaveWork, Unfed = {}, "break" \notin May,
           "rpcDisconnect" \notin May, "clearFailed" \notin May
    PROVE  Spec => []WorkConserving
  <1>1. Init => SoundInv /\ WorkInv
    BY DEF Init, ServerInit, NetInit, NewNode, SoundInv, ClosesOnce, WorkInv
  <1>2. TypeOK /\ SoundInv /\ [Next]_vars => SoundInv'
    BY NextSound, EnteredHasWork
  <1>3. TypeOK /\ SoundInv /\ WorkInv /\ [Next]_vars => WorkInv'
    BY NextWork
  <1>4. WorkInv => WorkConserving
    BY WorkInvImplies
  <1> QED
    BY <1>1, <1>2, <1>3, <1>4, TypeCorrect, PTL DEF Spec
=============================================================================
