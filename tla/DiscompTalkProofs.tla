--------------------------- MODULE DiscompTalkProofs ---------------------------
(***************************************************************************)
(* Proofs that a client runs one program at a time (OneProgramPerClient),  *)
(* by the inductive invariant TalksInv: the client and its node take       *)
(* turns; and that it runs only what its node was given (ProgramIsWanted)  *)
(* and reports as done only what ran (DoneJobsRan), by CarriedInv.         *)
(***************************************************************************)
EXTENDS DiscompWaitProofs

---------------------------------------------------------------------------
(* A client and its node.                                                  *)

\* A message that has been read was the only one, or more follow it.
LEMMA ReadOps ==
    ASSUME NEW s \in Seq(Message), s # <<>>
    PROVE  /\ Head(s) = s[1] /\ 1 \in DOMAIN s /\ Head(s) \in Message
           /\ Tail(s) \in Seq(Message)
           /\ Len(s) = 1 <=> Tail(s) = <<>>
           /\ \A i \in DOMAIN Tail(s) : i + 1 \in DOMAIN s /\ Tail(s)[i] = s[i + 1]
           /\ Len(Tail(s)) = Len(s) - 1
  <1>1. Len(s) \in Nat \ {0} /\ Len(Tail(s)) = Len(s) - 1 /\ Tail(s) \in Seq(Message)
    OBVIOUS
  <1>2. Head(s) = s[1] /\ 1 \in DOMAIN s /\ Head(s) \in Message
    OBVIOUS
  <1>3. \A t \in Seq(Message) : t = <<>> <=> Len(t) = 0
    OBVIOUS
  <1>4. \A i \in DOMAIN Tail(s) : i + 1 \in DOMAIN s /\ Tail(s)[i] = s[i + 1]
    OBVIOUS
  <1> QED
    BY <1>1, <1>2, <1>3, <1>4

\* Nothing is added but at the end.
LEMMA SendOps ==
    ASSUME NEW s \in Seq(Message), NEW m
    PROVE  /\ Append(s, m) # <<>> /\ Len(Append(s, m)) = Len(s) + 1
           /\ Append(s, m)[Len(s) + 1] = m
           /\ \A i \in DOMAIN Append(s, m) :
                 (i \in DOMAIN s /\ Append(s, m)[i] = s[i]) \/ (i = Len(s) + 1 /\ Append(s, m)[i] = m)
           /\ s # <<>> => Head(Append(s, m)) = Head(s)
           /\ s = <<>> => Head(Append(s, m)) = m
  OBVIOUS

\* What the server reads from a node that is not stopping.
LEMMA HeardBy ==
    ASSUME NEW cl, NEW nd \in Node, NEW out \in Seq(Message), NEW back \in Seq(Message),
           back # <<>>, ~nd.stoping, Meets(cl, nd, FALSE, out, back)
    PROVE  /\ out = <<>>
           /\ \/ /\ Head(back).id \in {100, 110} /\ Tail(back) = <<>>
                 /\ Rests(cl, nd, <<>>, <<>>) /\ nd.mods = {} /\ ~nd.busy
              \/ /\ Head(back).id \in 120..123 /\ Head(back).name = nd.exec
                 /\ nd.busy /\ nd.sending = NoModule
                 /\ Serves(cl, nd, <<>>, Tail(back))
                 /\ GoesOn(Head(back)) \/ (Tail(back) = <<>> /\ Still(cl))
  <1>1. CASE ~nd.busy
    <2>1. Rests(cl, nd, out, back)
      BY <1>1 DEF Meets
    <2>2. Still(cl) /\ nd.sending = NoModule /\ Greets(nd, out, back)
      BY <1>1, <2>1 DEF Rests
    <2>3. nd.mods = {} /\ out = <<>> /\ Len(back) = 1 /\ Head(back).id \in {100, 110}
      BY <2>2 DEF Greets
    <2> QED
      BY <1>1, <2>2, <2>3, ReadOps DEF Rests
  <1>2. CASE nd.busy
    <2>1. Serves(cl, nd, out, back)
      BY <1>2 DEF Meets
    <2>2. out = <<>> /\ nd.sending = NoModule
      BY <2>1 DEF Serves
    <2>3. /\ Head(back).id \in 120..123 /\ Head(back).name = nd.exec
          /\ GoesOn(Head(back)) \/ (1 = Len(back) /\ Still(cl))
      BY <2>1, ReadOps DEF Serves
    <2>4. Serves(cl, nd, <<>>, Tail(back))
      <3>1. \A i \in DOMAIN Tail(back) :
              /\ Tail(back)[i].id \in 120..123 /\ Tail(back)[i].name = nd.exec
              /\ GoesOn(Tail(back)[i]) \/ (i = Len(Tail(back)) /\ Still(cl))
        <4> SUFFICES ASSUME NEW i \in DOMAIN Tail(back)
                     PROVE  /\ Tail(back)[i].id \in 120..123 /\ Tail(back)[i].name = nd.exec
                            /\ GoesOn(Tail(back)[i]) \/ (i = Len(Tail(back)) /\ Still(cl))
          OBVIOUS
        <4>1. i + 1 \in DOMAIN back /\ Tail(back)[i] = back[i + 1] /\ Len(Tail(back)) = Len(back) - 1
          BY ReadOps
        <4>2. /\ back[i + 1].id \in 120..123 /\ back[i + 1].name = nd.exec
              /\ GoesOn(back[i + 1]) \/ (i + 1 = Len(back) /\ Still(cl))
          BY <2>1, <4>1 DEF Serves
        <4>3. i + 1 = Len(back) => i = Len(Tail(back))
          BY <4>1
        <4> QED
          BY <4>1, <4>2, <4>3
      <3> QED
        BY <2>1, <2>2, <3>1 DEF Serves
    <2> QED
      BY <1>2, <2>2, <2>3, <2>4, ReadOps
  <1> QED
    BY <1>1, <1>2 DEF Node

LEMMA HeardWorking ==
    ASSUME NEW cl, NEW nd \in Node, NEW out \in Seq(Message), NEW back \in Seq(Message),
           back # <<>>, ~nd.stoping, Meets(cl, nd, FALSE, out, back),
           Head(back).id \notin {100, 110}
    PROVE  /\ out = <<>> /\ nd.busy /\ nd.sending = NoModule
           /\ Head(back).name = nd.exec
           /\ Serves(cl, nd, <<>>, Tail(back))
           /\ GoesOn(Head(back)) \/ (Tail(back) = <<>> /\ Still(cl))
  BY HeardBy, ZenonT(60)

\* What it reads from one that is stopping.
LEMMA HeardWhileStopping ==
    ASSUME NEW cl, NEW nd \in Node, NEW out \in Seq(Message), NEW back \in Seq(Message),
           back # <<>>, nd.stoping, nd.busy, Meets(cl, nd, FALSE, out, back)
    PROVE  /\ Head(back).id \in 120..124
           /\ IF Head(back).id = 124 THEN out = <<>> /\ Tail(back) = <<>> /\ Still(cl)
                                     ELSE Meets(cl, nd, FALSE, out, Tail(back))
  <1>1. Stops(cl, nd, out, back)
    BY DEF Meets
  <1>2. CASE /\ out = <<>> /\ Still(cl)
             /\ \A i \in DOMAIN back : back[i].id \in 120..124 /\ (back[i].id = 124 <=> i = Len(back))
    <2>1. Head(back).id \in 120..124 /\ (Head(back).id = 124 <=> 1 = Len(back))
      BY <1>2, ReadOps
    <2>2. \A i \in DOMAIN Tail(back) :
             /\ Tail(back)[i].id \in 120..124
             /\ (Tail(back)[i].id = 124 <=> i = Len(Tail(back)))
      <3> SUFFICES ASSUME NEW i \in DOMAIN Tail(back)
                   PROVE  /\ Tail(back)[i].id \in 120..124
                          /\ (Tail(back)[i].id = 124 <=> i = Len(Tail(back)))
        OBVIOUS
      <3>1. i + 1 \in DOMAIN back /\ Tail(back)[i] = back[i + 1] /\ Len(Tail(back)) = Len(back) - 1
        BY ReadOps
      <3>2. i + 1 = Len(back) <=> i = Len(Tail(back))
        BY <3>1
      <3> QED
        BY <1>2, <3>1, <3>2
    <2>3. Stops(cl, nd, out, Tail(back))
      BY <1>2, <2>2 DEF Stops
    <2> QED
      BY <1>2, <2>1, <2>3, ReadOps DEF Meets
  <1>3. CASE /\ Len(out) = 1 \/ (Len(out) = 2 /\ Head(out).id \in {120, 121} /\ Still(cl))
             /\ out[Len(out)].id = 124
             /\ \A i \in DOMAIN out : out[i].name = nd.exec
             /\ \A i \in DOMAIN back : back[i].id \in 120..123
             /\ \A x \in Module : cl.run[x] # NoJob => x = nd.exec
    <2>1. Head(back).id \in 120..123 /\ \A i \in DOMAIN Tail(back) : Tail(back)[i].id \in 120..123
      BY <1>3, ReadOps
    <2>2. Stops(cl, nd, out, Tail(back))
      BY <1>3, <2>1 DEF Stops
    <2> QED
      BY <2>1, <2>2 DEF Meets
  <1> QED
    BY <1>1, <1>2, <1>3 DEF Stops

\* A client that is still meets a node that is freed, that will be, or that
\* waits with nothing under way.
LEMMA StillMeeting ==
    ASSUME NEW cl, NEW nd \in Node, Still(cl)
    PROVE  /\ \A f : Meets(cl, Cleared(nd), f, <<>>, <<>>)
           /\ nd.busy => Meets(cl, nd, TRUE, <<>>, <<>>)
           /\ \A back : nd.busy /\ Meets(cl, nd, FALSE, <<>>, back) =>
                           Meets(cl, nd, FALSE, <<>>, <<>>)
  <1>1. Cleared(nd).sending = NoModule /\ ~Cleared(nd).busy
    BY DEF Cleared, Node
  <1>2. \A f : Meets(cl, Cleared(nd), f, <<>>, <<>>)
    BY <1>1 DEF Meets, Rests
  <1>3. nd.busy => Meets(cl, nd, TRUE, <<>>, <<>>)
    BY DEF Meets, Rests
  <1>4. ASSUME NEW back, nd.busy, Meets(cl, nd, FALSE, <<>>, back)
        PROVE  Meets(cl, nd, FALSE, <<>>, <<>>)
    <2>1. CASE nd.stoping
      BY <1>4, <2>1 DEF Meets, Stops
    <2>2. CASE ~nd.stoping
      <3>1. cl.exec = nd.exec
        BY <1>4, <2>2 DEF Meets, Serves
      <3>2. DoesOne(cl, nd.exec)
        BY DEF Still, Sending, DoesOne
      <3>3. Serves(cl, nd, <<>>, <<>>)
        BY <3>1, <3>2 DEF Serves
      <3> QED
        BY <1>4, <2>2, <3>3 DEF Meets
    <2> QED
      BY <2>1, <2>2
  <1> QED
    BY <1>2, <1>3, <1>4

\* A stop that is sent to a node that works comes last.
LEMMA StopMeets ==
    ASSUME NEW cl, NEW nd \in Node, NEW out \in Seq(Message), NEW back,
           nd.busy, ~nd.stoping, Meets(cl, nd, FALSE, out, back),
           NEW m, m.id = 124, m.name = nd.exec
    PROVE  Meets(cl, [nd EXCEPT !.stoping = TRUE], FALSE, Append(out, m), back)
  <1> DEFINE new == [nd EXCEPT !.stoping = TRUE]
             sent == Append(out, m)
  <1>1. new.busy /\ new.stoping /\ new.exec = nd.exec
    BY DEF Node
  <1>2. Serves(cl, nd, out, back)
    BY DEF Meets
  <1>3. \A i \in DOMAIN back : back[i].id \in 120..123
    BY <1>2 DEF Serves
  <1>4. \A x \in Module : cl.run[x] # NoJob => x = nd.exec
    BY <1>2 DEF Serves, DoesOne
  <1>5. Len(out) \in {0, 1}
    BY <1>2 DEF Serves
  <1>6. /\ Len(sent) = 1 \/ (Len(sent) = 2 /\ Head(sent).id \in {120, 121} /\ Still(cl))
        /\ \A i \in DOMAIN sent : sent[i].name = nd.exec
    <2>1. CASE out = <<>>
      <3>1. Len(sent) = 1 /\ \A i \in DOMAIN sent : sent[i] = m
        BY <2>1
      <3> QED
        BY <3>1
    <2>2. CASE out # <<>>
      <3>1. /\ Len(out) = 1 /\ Head(out).id \in {120, 121} /\ Head(out).name = nd.exec
            /\ Still(cl)
        BY <1>2, <2>2 DEF Serves
      <3>2. Len(sent) = 2 /\ Head(sent) = Head(out)
        BY <2>2, <3>1, SendOps
      <3>3. \A i \in DOMAIN sent : sent[i] = Head(out) \/ sent[i] = m
        <4>1. \A i \in DOMAIN out : out[i] = Head(out)
          BY <3>1
        <4> QED
          BY <4>1, SendOps
      <3> HIDE DEF sent
      <3> QED
        BY <3>1, <3>2, <3>3
    <2> QED
      BY <2>1, <2>2
  <1>7. sent[Len(sent)].id = 124
    BY SendOps
  <1>8. Stops(cl, new, sent, back)
    <2> HIDE DEF new, sent
    <2> QED
      BY <1>1, <1>3, <1>4, <1>6, <1>7 DEF Stops
  <1> QED
    BY <1>1, <1>8 DEF Meets

\* After the step node n is to each client what the invariant allows, if it was.
StillMeets(n) ==
    \A cl \in ClientState :
        Up(n) /\ link[n] = "open" /\ Meets(cl, nodes[n], Freeing(n), toNode[n], toServer[n]) =>
            /\ nodes'[n].state = "up"
            /\ Meets(cl, nodes'[n], Freeing(n)', toNode'[n], toServer'[n])

\* Where no handler frees the node before the step or after it.
LEMMA MeetsUnfreed ==
    ASSUME NEW n, ~Freeing(n)
    PROVE  \A cl, nd, out, back :
              Meets(cl, nd, Freeing(n), out, back) <=> Meets(cl, nd, FALSE, out, back)
  BY DEF Meets

\* What a client sees of a node.
SameTalk(new, old) ==
    SameJob(new, old) /\ new.sending = old.sending /\ new.mods = old.mods

LEMMA SameMeets ==
    ASSUME NEW n, SameTalk(nodes'[n], nodes[n]), Freeing(n)' <=> Freeing(n),
           toNode'[n] = toNode[n], toServer'[n] = toServer[n]
    PROVE  StillMeets(n)
  BY DEF StillMeets, SameTalk, SameJob, Up, Meets, Rests, Greets, Serves, Stops

\* Orders to stop modules that nodes work for.
LEMMA OrdersMeet ==
    ASSUME ServerTypeOK, WireTypeOK, NEW orders, toNode' = StoppingEach(toNode, orders),
           NEW n \in Conn, nodes'[n] = MarkStoping(nodes[n], orders, n),
           toServer'[n] = toServer[n], ~Freeing(n), ~Freeing(n)',
           \A o \in orders : o[1] = n =>
               nodes[n].busy /\ ~nodes[n].stoping /\ o[2] = nodes[n].exec
    PROVE  StillMeets(n)
  <1>1. CASE ~Ordered(n, orders)
    <2>1. toNode'[n] = toNode[n] /\ nodes'[n] = nodes[n]
      BY <1>1 DEF StoppingEach, MarkStoping
    <2> QED
      BY <2>1, SameMeets DEF SameTalk, SameJob
  <1>2. ASSUME Ordered(n, orders), link[n] = "open"
        PROVE  StillMeets(n)
    <2> DEFINE o == CHOOSE r \in orders : r[1] = n
               m == Msg(124, o[2], 1, NoJob)
    <2>1. o \in orders /\ o[1] = n
      BY <1>2 DEF Ordered
    <2>2. toNode'[n] = Append(toNode[n], m)
      BY <1>2 DEF StoppingEach
    <2>3. m.id = 124 /\ m.name = o[2]
      BY DEF Msg
    <2> HIDE DEF o, m
    <2>4. m.name = nodes[n].exec /\ nodes[n].busy /\ ~nodes[n].stoping
      BY <2>1, <2>3
    <2>5. nodes'[n] = [nodes[n] EXCEPT !.stoping = TRUE] /\ nodes[n] \in Node
      BY <1>2 DEF MarkStoping, ServerTypeOK
    <2>6. nodes'[n].state = nodes[n].state
      BY <2>5 DEF Node
    <2>7. toNode[n] \in Seq(Message)
      BY DEF WireTypeOK
    <2>8. ASSUME NEW cl, Meets(cl, nodes[n], FALSE, toNode[n], toServer[n])
          PROVE  Meets(cl, nodes'[n], FALSE, toNode'[n], toServer[n])
      <3>1. Meets(cl, [nodes[n] EXCEPT !.stoping = TRUE], FALSE, Append(toNode[n], m),
                  toServer[n])
        BY <2>3, <2>4, <2>5, <2>7, <2>8, StopMeets
      <3> QED
        BY <2>2, <2>5, <3>1
    <2>9. ASSUME NEW cl, Meets(cl, nodes[n], Freeing(n), toNode[n], toServer[n])
          PROVE  Meets(cl, nodes'[n], Freeing(n)', toNode'[n], toServer'[n])
      <3>1. Meets(cl, nodes'[n], FALSE, toNode'[n], toServer'[n])
        BY <2>8, <2>9, MeetsUnfreed
      <3> QED
        BY <3>1 DEF Meets
    <2> QED
      BY <2>6, <2>9 DEF StillMeets, Up
  <1> QED
    BY <1>1, <1>2 DEF StillMeets

---------------------------------------------------------------------------
(* Steps of the server.                                                    *)

\* An end leaves no started slot of its module on its node.
LEMMA FinishStarts ==
    ASSUME NEW pr, NEW n, NEW m, NEW st \in Ended
    PROVE  \A x \in Started(FinishJob(pr, n, m, st)) :
              ~(pr.slots[x].node = n /\ SlotName(pr, x) = m)
  BY FewerOps

\* Orders go to nodes that work for the process.
LEMMA OrdersWanted ==
    ASSUME NEW p, NEW pr, NEW now, NEW Y, Placed(p, pr), Fewer(now, pr), Y \subseteq Started(now)
    PROVE  \A o \in Orders(now, Y) :
              /\ o[1] \in Conn /\ nodes[o[1]].busy /\ ~nodes[o[1]].stoping
              /\ o[2] = nodes[o[1]].exec
              /\ \E x \in Y : o[1] = now.slots[x].node
  BY DEF Orders, Placed, Fewer

\* A node without a message under way, that is not freed by now, is to a still
\* client what it was.
LEMMA EndMeets ==
    ASSUME ServerTypeOK, NEW n \in Conn, Up(n), nodes[n].busy, ~Freeing(n),
           nodes'[n] \in {nodes[n], Cleared(nodes[n])},
           toNode'[n] = toNode[n],
           \A cl \in ClientState : Meets(cl, nodes[n], FALSE, toNode[n], toServer[n]) =>
               toNode[n] = <<>> /\ toServer'[n] = <<>> /\ Still(cl)
    PROVE  StillMeets(n)
  <1>1. nodes[n] \in Node /\ nodes'[n].state = "up"
    BY DEF ServerTypeOK, Up, Cleared, Node
  <1>2. ASSUME NEW cl \in ClientState,
               Meets(cl, nodes[n], FALSE, toNode[n], toServer[n])
        PROVE  Meets(cl, nodes'[n], Freeing(n)', toNode'[n], toServer'[n])
    <2>1. toNode[n] = <<>> /\ toNode'[n] = <<>> /\ toServer'[n] = <<>> /\ Still(cl)
      BY <1>2
    <2>2. /\ \A f : Meets(cl, Cleared(nodes[n]), f, <<>>, <<>>)
          /\ Meets(cl, nodes[n], TRUE, <<>>, <<>>)
          /\ Meets(cl, nodes[n], FALSE, <<>>, <<>>)
      BY <1>1, <1>2, <2>1, StillMeeting
    <2>3. Freeing(n)' \/ ~Freeing(n)'
      OBVIOUS
    <2> QED
      BY <2>1, <2>2, <2>3 DEF Meets
  <1> QED
    BY <1>1, <1>2, MeetsUnfreed DEF StillMeets

\* The node whose job ends is free, or will be; orders go to other nodes.
LEMMA EndJobMeets ==
    ASSUME ServerTypeOK, WireTypeOK, JobsSafe, NEW n \in Conn, NEW m, Up(n),
           NEW st \in Ended, NEW fb \in BOOLEAN, m = nodes[n].exec \/ nodes[n].stoping,
           ~scan.on, nodes[n].busy, Live(nodes[n].pid), EndJob(n, m, st, fb),
           \A i \in Conn : i # n => toServer'[i] = toServer[i],
           \A cl \in ClientState : Meets(cl, nodes[n], FALSE, toNode[n], toServer[n]) =>
               toNode[n] = <<>> /\ toServer'[n] = <<>> /\ Still(cl)
    PROVE  \A i \in Conn : StillMeets(i)
  <1> DEFINE p == nodes[n].pid
             pr == procs[p]
             ended == FinishJob(pr, n, m, st)
  <1>1. PICK X \in IF EndedSlots(pr, n, m) # {} THEN PluginStops(pr) ELSE {{}},
             k \in IF EndedSlots(pr, n, m) # {} THEN PluginGotos(pr) ELSE {0} :
             LET asked == StopSlots(ended, X)
                 next == WentTo(asked, k)
                 orders == EndOrders(ended, X, k, n, fb)
             IN  /\ nodes' = [i \in Conn |->
                                LET nd == MarkStoping(nodes[i], orders, i)
                                IN  IF i = n THEN Released(nd, Completes(next), fb)
                                             ELSE nd]
                 /\ toNode' = Stopping(toNode, orders)
                 /\ UNCHANGED scan \/ Rescan \/ Scan(TRUE, IF fb THEN 0 ELSE n)
    BY ZenonT(40) DEF EndJob, EndOrders
  <1> DEFINE asked == StopSlots(ended, X)
             next == WentTo(asked, k)
             orders == EndOrders(ended, X, k, n, fb)
             released == Released(nodes[n], Completes(next), fb)
  <1>2. /\ \A i \in Conn : nodes'[i] = LET nd == MarkStoping(nodes[i], orders, i)
                                      IN  IF i = n THEN Released(nd, Completes(next), fb)
                                                   ELSE nd
        /\ toNode' = Stopping(toNode, orders)
    BY <1>1
  <1>3. p \in DOMAIN procs /\ Placed(p, pr)
    BY DEF Live, JobsSafe, JobsPlaced
  <1>4. Fewer(ended, pr)
    BY FewerOps
  <1>5. \A x \in Started(ended) : x \in Started(pr) /\ pr.slots[x].node # n
    <2>1. \A x \in Started(ended) : ~(pr.slots[x].node = n /\ SlotName(pr, x) = m)
      BY FinishStarts
    <2> HIDE DEF ended
    <2> QED
      BY <1>3, <1>4, <2>1, SMTT(30) DEF Fewer, Placed
  <1>6. ASSUME NEW o \in orders
        PROVE  /\ nodes[o[1]].busy /\ ~nodes[o[1]].stoping
               /\ o[2] = nodes[o[1]].exec
               /\ o[1] # n
    <2>1. PICK x \in Started(ended) : o = <<pr.slots[x].node, SlotName(pr, x), x>>
      BY <1>6, EndOrdersHitStarted
    <2>2. o[1] = pr.slots[x].node /\ o[2] = SlotName(pr, x)
      BY <2>1
    <2>3. x \in Started(pr) /\ pr.slots[x].node # n
      BY <1>5
    <2> QED
      BY <1>3, <2>2, <2>3 DEF Placed
  <1>7. /\ nodes'[n] = released /\ toNode'[n] = toNode[n]
        /\ toNode' = StoppingEach(toNode, orders)
    <2>1. ~Ordered(n, orders)
      BY <1>6 DEF Ordered
    <2>2. toNode \in [Conn -> Seq(Message)] /\ Single(orders)
      BY <1>3, EndOrdersSingle DEF WireTypeOK, JobsSafe
    <2> HIDE DEF orders, next
    <2>3. nodes'[n] = released
      BY <1>2, <2>1 DEF MarkStoping
    <2>4. toNode' = StoppingEach(toNode, orders)
      BY <1>2, <2>2, StoppingSingle
    <2>5. toNode'[n] = toNode[n]
      BY <2>1, <2>4 DEF StoppingEach
    <2> QED
      BY <2>3, <2>4, <2>5
  <1>8. nodes'[n] \in {nodes[n], Cleared(nodes[n])}
    BY <1>7 DEF Released
  <1>9. /\ \A i : ~Freeing(i)
        /\ \A i \in Conn : i # n => ~Freeing(i)'
    <2>1. \A i \in Conn : i # 0
      BY DEF Conn
    <2> QED
      BY <1>1, <2>1 DEF Freeing, Rescan, Scan
  <1>10. StillMeets(n)
    BY <1>7, <1>8, <1>9, EndMeets
  <1>11. ASSUME NEW i \in Conn, i # n
         PROVE  StillMeets(i)
    <2>1. nodes'[i] = MarkStoping(nodes[i], orders, i)
      BY <1>2, <1>11
    <2> HIDE DEF orders
    <2> QED
      BY <1>6, <1>7, <1>9, <1>11, <2>1, OrdersMeet
  <1> QED
    BY <1>10, <1>11

\* What the server reads on connection n, and that nothing else arrives.
LEMMA HandlerReads ==
    ASSUME WireTypeOK, NEW n \in Conn, NEW id, Receives(n, id)
    PROVE  /\ toServer[n] \in Seq(Message) /\ toServer[n] # <<>>
           /\ Head(toServer[n]).id = id /\ toServer'[n] = Tail(toServer[n])
           /\ \A i \in Conn : i # n => toServer'[i] = toServer[i]
           /\ link' = link /\ Up(n)
           /\ ~scan.on /\ \A i : ~Freeing(i)
  BY DEF WireTypeOK, Receives, Idle, Freeing

\* A handler that changes nothing at other nodes.
LEMMA OthersMeet ==
    ASSUME NEW n \in Conn, \A i : ~Freeing(i), UNCHANGED scan \/ Rescan,
           \A i \in Conn : i # n => /\ nodes'[i] = nodes[i]
                                    /\ toNode'[i] = toNode[i]
                                    /\ toServer'[i] = toServer[i]
    PROVE  \A i \in Conn : i # n => StillMeets(i)
  <1>1. \A i : ~Freeing(i)'
    BY DEF Freeing, Rescan, Scan
  <1> QED
    BY <1>1, SameMeets DEF SameTalk, SameJob

\* What a node that is not being stopped says while it works.
LEMMA WorkingReads ==
    ASSUME ServerTypeOK, WireTypeOK, NEW n \in Conn, NEW id \in 120..123, Receives(n, id),
           ~nodes[n].stoping
    PROVE  \A cl : Meets(cl, nodes[n], FALSE, toNode[n], toServer[n]) =>
               /\ toNode[n] = <<>> /\ nodes[n].busy /\ nodes[n].sending = NoModule
               /\ Head(toServer[n]).name = nodes[n].exec
               /\ Serves(cl, nodes[n], <<>>, toServer'[n])
               /\ GoesOn(Head(toServer[n])) \/ (toServer'[n] = <<>> /\ Still(cl))
  <1>1. /\ nodes[n] \in Node /\ toNode[n] \in Seq(Message) /\ toServer[n] \in Seq(Message)
        /\ toServer[n] # <<>> /\ Head(toServer[n]).id = id
        /\ toServer'[n] = Tail(toServer[n])
    BY HandlerReads DEF ServerTypeOK, WireTypeOK
  <1>2. Head(toServer[n]).id \notin {100, 110}
    BY <1>1
  <1>3. ASSUME NEW cl, Meets(cl, nodes[n], FALSE, toNode[n], toServer[n])
        PROVE  /\ toNode[n] = <<>> /\ nodes[n].busy /\ nodes[n].sending = NoModule
               /\ Head(toServer[n]).name = nodes[n].exec
               /\ Serves(cl, nodes[n], <<>>, Tail(toServer[n]))
               /\ GoesOn(Head(toServer[n])) \/ (Tail(toServer[n]) = <<>> /\ Still(cl))
    BY <1>1, <1>2, <1>3, HeardWorking
  <1> QED
    BY <1>1, <1>3

\* Its last word.
LEMMA LastWord ==
    ASSUME ServerTypeOK, WireTypeOK, NEW n \in Conn, NEW id \in 120..123, Receives(n, id),
           ~nodes[n].stoping, ~GoesOn(Head(toServer[n]))
    PROVE  \A cl : Meets(cl, nodes[n], FALSE, toNode[n], toServer[n]) =>
               /\ toNode[n] = <<>> /\ toServer'[n] = <<>> /\ Still(cl)
               /\ nodes[n].busy /\ nodes[n].sending = NoModule
               /\ Serves(cl, nodes[n], <<>>, <<>>)
  <1>1. ASSUME NEW cl, Meets(cl, nodes[n], FALSE, toNode[n], toServer[n])
        PROVE  /\ toNode[n] = <<>> /\ toServer'[n] = <<>> /\ Still(cl)
               /\ nodes[n].busy /\ nodes[n].sending = NoModule
               /\ Serves(cl, nodes[n], <<>>, toServer'[n])
    BY <1>1, WorkingReads
  <1>2. ASSUME NEW cl, Meets(cl, nodes[n], FALSE, toNode[n], toServer[n])
        PROVE  Serves(cl, nodes[n], <<>>, <<>>)
    <2>1. toServer'[n] = <<>> /\ Serves(cl, nodes[n], <<>>, toServer'[n])
      BY <1>1, <1>2
    <2> QED
      BY <2>1
  <1> QED
    BY <1>1, <1>2

\* A handler that only hears, from a node that works or is being stopped.
LEMMA IgnoreMeets ==
    ASSUME ServerTypeOK, WireTypeOK, JobsSafe, NEW n \in Conn, NEW id \in {100, 110, 120, 121, 122, 123},
           Receives(n, id), Ignore, nodes[n].stoping \/ id \notin {100, 110}
    PROVE  \A i \in Conn : StillMeets(i)
  <1>1. /\ nodes' = nodes /\ toNode' = toNode /\ scan' = scan
        /\ \A i : ~Freeing(i) /\ ~Freeing(i)'
    BY HandlerReads DEF Ignore, Freeing
  <1>2. \A i \in Conn : i # n => StillMeets(i)
    BY <1>1, HandlerReads, OthersMeet
  <1>3. /\ nodes[n] \in Node /\ toNode[n] \in Seq(Message) /\ toServer[n] \in Seq(Message)
        /\ toServer[n] # <<>> /\ Head(toServer[n]).id = id
        /\ toServer'[n] = Tail(toServer[n])
    BY HandlerReads DEF ServerTypeOK, WireTypeOK
  <1>4. ASSUME NEW cl, Meets(cl, nodes[n], FALSE, toNode[n], toServer[n])
        PROVE  Meets(cl, nodes[n], FALSE, toNode[n], Tail(toServer[n]))
    <2>1. CASE nodes[n].stoping
      <3>1. nodes[n].busy
        BY <2>1, HandlerReads DEF JobsSafe, NodesBusy
      <3>2. Head(toServer[n]).id # 124
        BY <1>3
      <3>3. Meets(cl, nodes[n], FALSE, toNode[n], Tail(toServer[n]))
        BY <1>3, <1>4, <2>1, <3>1, <3>2, HeardWhileStopping, ZenonT(60)
      <3> QED
        BY <3>3
    <2>2. CASE ~nodes[n].stoping
      <3>1. id \in 120..123
        BY <2>2
      <3>2. \A d : Meets(d, nodes[n], FALSE, toNode[n], toServer[n]) =>
                       /\ toNode[n] = <<>> /\ nodes[n].busy
                       /\ Serves(d, nodes[n], <<>>, toServer'[n])
        BY <2>2, <3>1, WorkingReads, ZenonT(60)
      <3> QED
        BY <1>3, <1>4, <2>2, <3>2 DEF Meets
    <2> QED
      BY <2>1, <2>2
  <1>5. StillMeets(n)
    BY <1>1, <1>3, <1>4, HandlerReads, MeetsUnfreed DEF StillMeets, Meets, Up
  <1> QED
    BY <1>2, <1>5

\* A node that gives its job back.
LEMMA GiveUpMeets ==
    ASSUME ServerTypeOK, WireTypeOK, NEW n \in Conn, NEW id \in 120..123, Receives(n, id),
           ~nodes[n].stoping, ~GoesOn(Head(toServer[n])), NEW m, GiveUpJob(n, m)
    PROVE  \A i \in Conn : StillMeets(i)
  <1> DEFINE nd == Failed(nodes[n], m)
  <1>1. nodes[n] \in Node /\ Up(n)
    BY HandlerReads DEF ServerTypeOK
  <1>2. nd \in Node /\ nd.state = nodes[n].state
    BY <1>1, NodeOpsAreNodes DEF Failed, Node
  <1>3. nodes' = [nodes EXCEPT ![n] = Cleared(nd)] /\ toNode' = toNode /\ Rescan
    BY DEF GiveUpJob
  <1>4. nodes'[n] = Cleared(nd) /\ \A i \in Conn : i # n => nodes'[i] = nodes[i]
    BY <1>3 DEF ServerTypeOK
  <1>5. \A i \in Conn : i # n => StillMeets(i)
    BY <1>3, <1>4, HandlerReads, OthersMeet
  <1>6. StillMeets(n)
    <2>1. Cleared(nd).state = "up"
      BY <1>1, <1>2 DEF Cleared, Node, Up
    <2>2. \A cl \in ClientState : Meets(cl, nodes[n], FALSE, toNode[n], toServer[n]) =>
             toNode'[n] = <<>> /\ toServer'[n] = <<>> /\ Still(cl)
      BY <1>3, LastWord
    <2>3. \A cl : Still(cl) => \A f : Meets(cl, Cleared(nd), f, <<>>, <<>>)
      <3> HIDE DEF nd
      <3> QED
        BY <1>2, StillMeeting
    <2>4. ~Freeing(n)
      BY HandlerReads
    <2> HIDE DEF nd
    <2> QED
      BY <1>4, <2>1, <2>2, <2>3, <2>4, MeetsUnfreed DEF StillMeets
  <1> QED
    BY <1>5, <1>6

\* A node that has authorized its client, or lists its modules, has no job.
LEMMA GreetingReads ==
    ASSUME ServerTypeOK, WireTypeOK, NEW n \in Conn, NEW id \in {100, 110}, Receives(n, id),
           ~nodes[n].stoping
    PROVE  \A cl : Meets(cl, nodes[n], FALSE, toNode[n], toServer[n]) =>
               /\ toNode[n] = <<>> /\ toServer'[n] = <<>>
               /\ Rests(cl, nodes[n], <<>>, <<>>) /\ nodes[n].mods = {} /\ ~nodes[n].busy
  <1>1. /\ nodes[n] \in Node /\ toNode[n] \in Seq(Message) /\ toServer[n] \in Seq(Message)
        /\ toServer[n] # <<>> /\ Head(toServer[n]).id = id
        /\ toServer'[n] = Tail(toServer[n])
    BY HandlerReads DEF ServerTypeOK, WireTypeOK
  <1>2. Head(toServer[n]).id \notin 120..123
    BY <1>1
  <1>3. ASSUME NEW cl, Meets(cl, nodes[n], FALSE, toNode[n], toServer[n])
        PROVE  /\ toNode[n] = <<>> /\ Tail(toServer[n]) = <<>>
               /\ Rests(cl, nodes[n], <<>>, <<>>) /\ nodes[n].mods = {} /\ ~nodes[n].busy
    <2>1. \/ /\ toNode[n] = <<>> /\ Tail(toServer[n]) = <<>>
             /\ Rests(cl, nodes[n], <<>>, <<>>) /\ nodes[n].mods = {} /\ ~nodes[n].busy
          \/ Head(toServer[n]).id \in 120..123
      BY <1>1, <1>3, HeardBy, ZenonT(60)
    <2> QED
      BY <1>2, <2>1
  <1> QED
    BY <1>1, <1>3

\* The server answers the authorization, and learns the modules of the node.
LEMMA GreetingMeets ==
    ASSUME ServerTypeOK, WireTypeOK, NEW n \in Conn,
           ReceiveAuthorizationRequest(n) \/ ReceiveModulesListRequest(n)
    PROVE  \A i \in Conn : StillMeets(i)
  <1>1. CASE ReceiveAuthorizationRequest(n)
    <2> DEFINE a == Msg(100, NoModule, 1, NoJob)
    <2>1. /\ Receives(n, 100) /\ ~nodes[n].stoping /\ nodes' = nodes
          /\ toNode' = Sent(toNode, n, a) /\ scan' = scan
      BY <1>1 DEF ReceiveAuthorizationRequest, Hears, ToNode
    <2>2. a.id = 100
      BY DEF Msg
    <2> HIDE DEF a
    <2>3. \A i : ~Freeing(i) /\ ~Freeing(i)'
      BY <2>1, HandlerReads DEF Freeing
    <2>4. \A i \in Conn : i # n => StillMeets(i)
      <3>1. \A i \in Conn : i # n => toNode'[i] = toNode[i] /\ toServer'[i] = toServer[i]
        BY <2>1, HandlerReads DEF Sent, WireTypeOK
      <3> QED
        BY <2>1, <2>3, <3>1, OthersMeet
    <2>5. ASSUME NEW cl, link[n] = "open",
                 Meets(cl, nodes[n], FALSE, toNode[n], toServer[n])
          PROVE  Meets(cl, nodes[n], FALSE, toNode'[n], toServer'[n])
      <3>1. /\ toNode[n] = <<>> /\ toServer'[n] = <<>>
            /\ Rests(cl, nodes[n], <<>>, <<>>) /\ nodes[n].mods = {} /\ ~nodes[n].busy
        BY <2>1, <2>5, GreetingReads
      <3>2. toNode'[n] = <<a>>
        BY <2>1, <2>5, <3>1 DEF Sent, WireTypeOK
      <3>3. Greets(nodes[n], <<a>>, <<>>)
        BY <2>2, <3>1 DEF Greets
      <3> QED
        BY <3>1, <3>2, <3>3 DEF Meets, Rests
    <2>6. StillMeets(n)
      BY <2>1, <2>3, <2>5, MeetsUnfreed DEF StillMeets, Meets, Up
    <2> QED
      BY <2>4, <2>6
  <1>2. CASE ReceiveModulesListRequest(n)
    <2> DEFINE nd == Listed(nodes[n], Head(toServer[n]).mods)
    <2>1. /\ Receives(n, 110) /\ ~nodes[n].stoping /\ toNode' = toNode /\ Rescan
          /\ nodes' = [nodes EXCEPT ![n] = nd]
      BY <1>2 DEF ReceiveModulesListRequest, Hears
    <2>2. \A i : ~Freeing(i) /\ ~Freeing(i)'
      BY <2>1, HandlerReads DEF Freeing, Rescan, Scan
    <2>3. \A i \in Conn : nodes'[i] = IF i = n THEN nd ELSE nodes[i]
      BY <2>1 DEF ServerTypeOK
    <2>4. \A i \in Conn : i # n => StillMeets(i)
      BY <2>1, <2>2, <2>3, HandlerReads, OthersMeet
    <2>5. /\ nd.state = nodes[n].state /\ nd.busy = nodes[n].busy
          /\ nd.sending = nodes[n].sending
      <3>1. nodes[n] \in Node
        BY DEF ServerTypeOK
      <3> QED
        BY <3>1 DEF Listed, Node
    <2> HIDE DEF nd
    <2>6. ASSUME NEW cl, Meets(cl, nodes[n], FALSE, toNode[n], toServer[n])
          PROVE  Meets(cl, nd, FALSE, toNode'[n], toServer'[n])
      <3>1. /\ toNode'[n] = <<>> /\ toServer'[n] = <<>>
            /\ Rests(cl, nodes[n], <<>>, <<>>) /\ ~nodes[n].busy
        BY <2>1, <2>6, GreetingReads
      <3> QED
        BY <2>5, <3>1 DEF Meets, Rests
    <2>7. StillMeets(n)
      BY <2>2, <2>3, <2>5, <2>6, MeetsUnfreed DEF StillMeets, Meets, Up
    <2> QED
      BY <2>4, <2>7
  <1> QED
    BY <1>1, <1>2

\* The node is told to start its module, or sent the input files first.
LEMMA PreparedMeets ==
    ASSUME ServerTypeOK, WireTypeOK, NEW n \in Conn, NEW m, Receives(n, 120), ~nodes[n].stoping,
           nodes' = [nodes EXCEPT ![n].sending = m], scan' = scan,
           \/ toNode' = toNode
           \/ m = NoModule /\ SendInputParameters(n)
    PROVE  \A i \in Conn : StillMeets(i)
  <1> DEFINE nd == [nodes[n] EXCEPT !.sending = m]
             a == Msg(121, nodes[n].exec, 1, NoJob)
  <1>1. \A i : ~Freeing(i) /\ ~Freeing(i)'
    BY HandlerReads DEF Freeing
  <1>2. \A i \in Conn : nodes'[i] = IF i = n THEN nd ELSE nodes[i]
    BY DEF ServerTypeOK
  <1>3. a.id = 121 /\ a.name = nodes[n].exec
    BY DEF Msg
  <1>4. toNode' = toNode \/ (m = NoModule /\ toNode' = Sent(toNode, n, a))
    BY DEF SendInputParameters, ToNode
  <1> HIDE DEF a
  <1>5. \A i \in Conn : i # n => StillMeets(i)
    <2>1. \A i \in Conn : i # n => toNode'[i] = toNode[i]
      BY <1>4 DEF Sent, WireTypeOK
    <2> QED
      BY <1>1, <1>2, <2>1, HandlerReads, OthersMeet
  <1>6. nd.sending = m /\ SameJob(nd, nodes[n])
    <2>1. nodes[n] \in Node
      BY DEF ServerTypeOK
    <2> QED
      BY <2>1 DEF Node, SameJob
  <1>7. \A cl : Meets(cl, nodes[n], FALSE, toNode[n], toServer[n]) =>
               /\ toNode[n] = <<>> /\ toServer'[n] = <<>> /\ Still(cl)
               /\ nodes[n].busy /\ Serves(cl, nodes[n], <<>>, <<>>)
    <2>1. ~GoesOn(Head(toServer[n])) /\ 120 \in 120..123
      BY HandlerReads DEF GoesOn
    <2> QED
      BY <2>1, LastWord, ZenonT(60)
  <1> HIDE DEF nd
  <1>8. ASSUME NEW cl, link[n] = "open",
               Meets(cl, nodes[n], FALSE, toNode[n], toServer[n])
        PROVE  Meets(cl, nd, FALSE, toNode'[n], toServer'[n])
    <2>1. /\ toNode[n] = <<>> /\ toServer'[n] = <<>> /\ Still(cl)
          /\ nodes[n].busy /\ Serves(cl, nodes[n], <<>>, <<>>)
      BY <1>7, <1>8
    <2>2. toNode'[n] = <<>> \/ (m = NoModule /\ toNode'[n] = <<a>>)
      BY <1>4, <1>8, <2>1 DEF Sent, WireTypeOK
    <2>3. cl.exec = nodes[n].exec /\ DoesOne(cl, nodes[n].exec)
      BY <2>1 DEF Serves
    <2>4. Serves(cl, nd, <<>>, <<>>)
      BY <1>6, <2>1, <2>3 DEF Serves, SameJob
    <2>5. m = NoModule => Serves(cl, nd, <<a>>, <<>>)
      <3>1. Len(<<a>>) = 1 /\ Head(<<a>>) = a
        OBVIOUS
      <3> QED
        BY <1>3, <1>6, <2>1, <2>3, <3>1 DEF Serves, SameJob
    <2> QED
      BY <1>6, <2>1, <2>2, <2>4, <2>5 DEF Meets, SameJob
  <1>9. StillMeets(n)
    BY <1>1, <1>2, <1>6, <1>8, MeetsUnfreed DEF StillMeets, Meets, Up, SameJob
  <1> QED
    BY <1>5, <1>9

\* The node of a live process is busy.
LEMMA LiveIsBusy ==
    ASSUME ServerTypeOK, JobsSafe, NEW n \in Conn, Up(n), Live(nodes[n].pid)
    PROVE  nodes[n].busy
  <1>1. nodes[n].pid # NoPid
    BY DEF ServerTypeOK, Live, NoPid
  <1> QED
    BY <1>1 DEF JobsSafe, NodesBusy

\* A stop that is answered was asked for, and the answer comes last.
LEMMA StopReads ==
    ASSUME ServerTypeOK, WireTypeOK, JobsSafe, NEW n \in Conn, Receives(n, 124)
    PROVE  /\ nodes[n].stoping /\ nodes[n].busy
           /\ \A cl : Meets(cl, nodes[n], FALSE, toNode[n], toServer[n]) =>
                 toNode[n] = <<>> /\ toServer'[n] = <<>> /\ Still(cl)
  <1>1. /\ nodes[n] \in Node /\ toNode[n] \in Seq(Message) /\ toServer[n] \in Seq(Message)
        /\ toServer[n] # <<>> /\ Head(toServer[n]).id = 124
        /\ toServer'[n] = Tail(toServer[n]) /\ Up(n)
    BY HandlerReads DEF ServerTypeOK, WireTypeOK
  <1>2. ~Quiet(toServer[n])
    BY <1>1, StopOps
  <1>3. nodes[n].stoping /\ nodes[n].busy
    BY <1>1, <1>2 DEF JobsSafe, StopsOnce, NodesBusy
  <1>4. ASSUME NEW cl, Meets(cl, nodes[n], FALSE, toNode[n], toServer[n])
        PROVE  toNode[n] = <<>> /\ Tail(toServer[n]) = <<>> /\ Still(cl)
    BY <1>1, <1>3, <1>4, HeardWhileStopping, ZenonT(60)
  <1> QED
    BY <1>1, <1>3, <1>4

\* The handlers of the answers to a stop.
LEMMA StopAnswerMeets ==
    ASSUME ServerTypeOK, WireTypeOK, JobsSafe, NEW n \in Conn, CheckModuleStoping(n)
    PROVE  \A i \in Conn : StillMeets(i)
  <1>1. Receives(n, 124)
    BY DEF CheckModuleStoping
  <1>2. /\ Up(n) /\ ~scan.on /\ \A i : ~Freeing(i)
        /\ \A i \in Conn : i # n => toServer'[i] = toServer[i]
        /\ nodes[n].stoping /\ nodes[n].busy
    BY <1>1, HandlerReads, StopReads
  <1>3. \A cl \in ClientState : Meets(cl, nodes[n], FALSE, toNode[n], toServer[n]) =>
           toNode[n] = <<>> /\ toServer'[n] = <<>> /\ Still(cl)
    BY <1>1, StopReads
  <1>4. CASE Live(nodes[n].pid)
    <2>1. PICK fb \in BOOLEAN : EndJob(n, Head(toServer[n]).name, "done", fb)
      BY <1>4 DEF CheckModuleStoping
    <2>2. "done" \in Ended
      BY DEF Ended
    <2> QED
      BY <1>2, <1>3, <1>4, <2>1, <2>2, EndJobMeets
  <1>5. CASE ~Live(nodes[n].pid)
    <2>1. nodes' = [nodes EXCEPT ![n] = Cleared(@)] /\ Rescan /\ toNode' = toNode
      BY <1>5 DEF CheckModuleStoping
    <2>2. \A i \in Conn : nodes'[i] = IF i = n THEN Cleared(nodes[n]) ELSE nodes[i]
      BY <2>1 DEF ServerTypeOK
    <2>3. \A i \in Conn : i # n => StillMeets(i)
      BY <1>2, <2>1, <2>2, OthersMeet
    <2>4. StillMeets(n)
      BY <1>2, <1>3, <2>1, <2>2, EndMeets
    <2> QED
      BY <2>3, <2>4
  <1> QED
    BY <1>4, <1>5

\* The handlers of what a program that runs reports.
LEMMA AnswerMeets ==
    ASSUME ServerTypeOK, WireTypeOK, JobsSafe, NEW n \in Conn, "outputLost" \notin May,
           \/ CheckPrepareForStartModule(n) \/ CheckInputParametersSending(n)
           \/ CheckModuleStarting(n) \/ ModuleExecutionEnded(n)
    PROVE  \A i \in Conn : StillMeets(i)
  <1> DEFINE head == Head(toServer[n])
  <1>1. ASSUME NEW id \in {120, 121, 122, 123}, Hears(n, id), Ignore
        PROVE  \A i \in Conn : StillMeets(i)
    BY <1>1, IgnoreMeets DEF Hears
  <1>2. ASSUME NEW id \in 120..123, Hears(n, id), NEW m, GiveUpJob(n, m), ~GoesOn(head)
        PROVE  \A i \in Conn : StillMeets(i)
    BY <1>2, GiveUpMeets DEF Hears
  <1>3. \A id : Hears(n, id) /\ (id # 122 \/ head.status # 1) => ~GoesOn(head)
    BY HandlerReads DEF Hears, GoesOn
  <1>4. CASE CheckPrepareForStartModule(n)
    <2>1. Hears(n, 120) /\ ~GoesOn(head)
      BY <1>3, <1>4 DEF CheckPrepareForStartModule
    <2>2. \/ \E m : GiveUpJob(n, m)
          \/ Ignore
          \/ \E m : /\ nodes' = [nodes EXCEPT ![n].sending = m] /\ scan' = scan
                    /\ toNode' = toNode \/ (m = NoModule /\ SendInputParameters(n))
      BY <1>4 DEF CheckPrepareForStartModule
    <2> HIDE DEF head
    <2>3. Receives(n, 120) /\ ~nodes[n].stoping /\ 120 \in 120..123
      BY <2>1 DEF Hears
    <2>4. ASSUME NEW m, nodes' = [nodes EXCEPT ![n].sending = m], scan' = scan,
                 toNode' = toNode \/ (m = NoModule /\ SendInputParameters(n))
          PROVE  \A i \in Conn : StillMeets(i)
      BY <2>3, <2>4, PreparedMeets
    <2> QED
      BY <1>1, <1>2, <2>1, <2>2, <2>3, <2>4
  <1>5. CASE CheckInputParametersSending(n)
    <2>1. Hears(n, 121) /\ ~GoesOn(head) /\ (Ignore \/ \E m : GiveUpJob(n, m))
      BY <1>3, <1>5 DEF CheckInputParametersSending
    <2> QED
      BY <1>1, <1>2, <2>1
  <1>6. CASE CheckModuleStarting(n)
    <2>1. Hears(n, 122) /\ (Ignore \/ (~GoesOn(head) /\ \E m : GiveUpJob(n, m)))
      BY <1>3, <1>6 DEF CheckModuleStarting
    <2> QED
      BY <1>1, <1>2, <2>1
  <1>7. CASE ModuleExecutionEnded(n)
    <2>1. Hears(n, 123) /\ ~GoesOn(head)
      BY <1>3, <1>7 DEF ModuleExecutionEnded
    <2>2. \/ Ignore \/ \E m : GiveUpJob(n, m)
          \/ /\ Live(nodes[n].pid)
             /\ \E st \in Ended : EndJob(n, nodes[n].exec, st, FALSE)
      BY <1>7 DEF ModuleExecutionEnded, Ended
    <2>3. ASSUME Live(nodes[n].pid), NEW st \in Ended, EndJob(n, nodes[n].exec, st, FALSE)
          PROVE  \A i \in Conn : StillMeets(i)
      <3>1. Receives(n, 123) /\ ~nodes[n].stoping /\ 123 \in 120..123
        BY <2>1 DEF Hears
      <3>2. /\ Up(n) /\ ~scan.on /\ nodes[n].busy
            /\ \A i \in Conn : i # n => toServer'[i] = toServer[i]
        BY <2>3, <3>1, HandlerReads, LiveIsBusy
      <3>3. \A cl \in ClientState : Meets(cl, nodes[n], FALSE, toNode[n], toServer[n]) =>
               toNode[n] = <<>> /\ toServer'[n] = <<>> /\ Still(cl)
        BY <2>1, <3>1, LastWord, ZenonT(60)
      <3> QED
        BY <2>3, <3>2, <3>3, EndJobMeets
    <2>4. Ignore => \A i \in Conn : StillMeets(i)
      BY <1>1, <2>1
    <2>5. \A m : GiveUpJob(n, m) => \A i \in Conn : StillMeets(i)
      BY <1>2, <2>1
    <2> QED
      BY <2>2, <2>3, <2>4, <2>5
  <1> QED
    BY <1>4, <1>5, <1>6, <1>7

\* Every handler.
LEMMA HandlerMeets ==
    ASSUME ServerTypeOK, WireTypeOK, JobsSafe, "outputLost" \notin May,
           NEW n \in Conn, Handler(n)
    PROVE  \A i \in Conn : StillMeets(i)
  <1>1. CASE IgnoreWhileStopping(n)
    BY <1>1, IgnoreMeets DEF IgnoreWhileStopping
  <1>2. CASE NodeDisconnected(n)
    <2>1. /\ Up(n) /\ toServer[n] # <<>> /\ Head(toServer[n]).id = 0
          /\ toServer' = [toServer EXCEPT ![n] = Tail(@)]
          /\ nodes' = [nodes EXCEPT ![n] = NewNode("null")]
          /\ toNode' = toNode /\ scan' = scan /\ ~scan.on
      BY <1>2 DEF NodeDisconnected, Idle
    <2>2. \A i \in Conn : i # n => StillMeets(i)
      BY <2>1, OthersMeet DEF ServerTypeOK, WireTypeOK, Freeing
    <2>3. /\ nodes[n] \in Node /\ toNode[n] \in Seq(Message) /\ toServer[n] \in Seq(Message)
      BY DEF ServerTypeOK, WireTypeOK
    <2>4. ASSUME NEW cl, Meets(cl, nodes[n], FALSE, toNode[n], toServer[n])
          PROVE  FALSE
      <3>1. CASE nodes[n].stoping
        <4>1. nodes[n].busy
          BY <2>1, <3>1 DEF JobsSafe, NodesBusy
        <4>2. Head(toServer[n]).id \in 120..124
          BY <2>1, <2>3, <2>4, <3>1, <4>1, HeardWhileStopping
        <4> QED
          BY <2>1, <4>2
      <3>2. CASE ~nodes[n].stoping
        <4>1. Head(toServer[n]).id \in {100, 110} \/ Head(toServer[n]).id \in 120..123
          BY <2>1, <2>3, <2>4, <3>2, HeardBy, ZenonT(60)
        <4> QED
          BY <2>1, <4>1
      <3> QED
        BY <3>1, <3>2
    <2>5. StillMeets(n)
      BY <2>1, <2>4 DEF StillMeets, Freeing, Meets
    <2> QED
      BY <2>2, <2>5
  <1>3. CASE LateEvent(n)
    <2>1. /\ ~Up(n) /\ nodes' = nodes /\ toNode' = toNode /\ scan' = scan /\ ~scan.on
          /\ toServer' = [toServer EXCEPT ![n] = Tail(@)]
      BY <1>3 DEF LateEvent, Idle, Up
    <2>2. \A i \in Conn : i # n => StillMeets(i)
      BY <2>1, OthersMeet DEF WireTypeOK, Freeing
    <2>3. StillMeets(n)
      BY <2>1 DEF StillMeets
    <2> QED
      BY <2>2, <2>3
  <1> QED
    BY <1>1, <1>2, <1>3, GreetingMeets, AnswerMeets, StopAnswerMeets DEF Handler

\* The loop gives a job to a node that rests.
LEMMA GiveJobMeets ==
    ASSUME ServerTypeOK, WireTypeOK, JobsSafe, GiveJob
    PROVE  \A i \in Conn : StillMeets(i)
  <1>1. PICK o \in Offers :
          LET p == o[1]
              n == o[2]
              pr == Settle(procs[p])
          IN  \/ UNCHANGED <<nodes, toNode>>
              \/ \E x \in Offered(pr, Able(nodes[n])) :
                    /\ nodes' = [nodes EXCEPT ![n] = Assigned(@, p, pr, x)]
                    /\ ToNode(n, Msg(120, SlotName(pr, x), 1, Job(p, pr, x)))
    BY DEF GiveJob
  <1> DEFINE p == o[1]
             n == o[2]
             pr == Settle(procs[p])
  <1>2. n \in Conn /\ Up(n) /\ ~nodes[n].busy
    BY DEF Offers, FreeNodes
  <1>3. \A i : Freeing(i)' <=> Freeing(i)
    <2>1. \/ scan' = scan
          \/ \E at : scan' = [scan EXCEPT !.at = at]
      BY DEF GiveJob
    <2>2. /\ scan'.on = scan.on /\ scan'.again = scan.again /\ scan'.free = scan.free
      BY <2>1 DEF ServerTypeOK
    <2> QED
      BY <2>2 DEF Freeing
  <1>4. toServer' = toServer
    BY DEF GiveJob
  <1>5. CASE UNCHANGED <<nodes, toNode>>
    BY <1>3, <1>4, <1>5, SameMeets DEF SameTalk, SameJob
  <1>6. ASSUME NEW x \in Offered(pr, Able(nodes[n])),
               nodes' = [nodes EXCEPT ![n] = Assigned(@, p, pr, x)],
               ToNode(n, Msg(120, SlotName(pr, x), 1, Job(p, pr, x)))
        PROVE  \A i \in Conn : StillMeets(i)
    <2> DEFINE nd == Assigned(nodes[n], p, pr, x)
               a == Msg(120, SlotName(pr, x), 1, Job(p, pr, x))
    <2>1. /\ \A i \in Conn : nodes'[i] = IF i = n THEN nd ELSE nodes[i]
          /\ toNode' = Sent(toNode, n, a)
      BY <1>6 DEF ServerTypeOK, ToNode
    <2>2. a.id = 120 /\ a.name = SlotName(pr, x)
      BY DEF Msg
    <2>3. nodes[n] \in Node /\ nodes[n].mods # {}
      BY <1>2, <1>6 DEF ServerTypeOK, Offered, Able
    <2>4. /\ nd.busy /\ nd.exec = SlotName(pr, x) /\ nd.stoping = nodes[n].stoping
          /\ nd.state = nodes[n].state /\ nd.sending = nodes[n].sending
      <3> HIDE DEF pr, p
      <3> QED
        BY <2>3 DEF Assigned, Node
    <2>5. ~nodes[n].stoping /\ ~Freeing(n)
      BY <1>2 DEF JobsSafe, NodesBusy, FreeingSafe
    <2> HIDE DEF nd, a, pr, p, n
    <2>6. ASSUME NEW i \in Conn, i # n
          PROVE  StillMeets(i)
      BY <1>3, <1>4, <2>1, <2>6, SameMeets DEF SameTalk, SameJob, Sent, WireTypeOK
    <2>7. ASSUME NEW cl, link[n] = "open", Meets(cl, nodes[n], FALSE, toNode[n], toServer[n])
          PROVE  Meets(cl, nd, FALSE, toNode'[n], toServer'[n])
      <3>1. /\ Still(cl) /\ nodes[n].sending = NoModule
            /\ toNode[n] = <<>> /\ toServer[n] = <<>>
        BY <1>2, <2>3, <2>7 DEF Meets, Rests, Greets
      <3>2. toNode'[n] = <<a>>
        BY <1>2, <2>1, <2>7, <3>1 DEF Sent, WireTypeOK
      <3>3. Len(<<a>>) = 1 /\ Head(<<a>>) = a
        OBVIOUS
      <3>4. DoesOne(cl, nd.exec)
        BY <3>1 DEF Still, Sending, DoesOne
      <3>5. Serves(cl, nd, <<a>>, <<>>)
        BY <2>2, <2>4, <3>1, <3>3, <3>4 DEF Serves
      <3> QED
        BY <1>4, <2>4, <2>5, <3>1, <3>2, <3>5 DEF Meets
    <2>8. StillMeets(n)
      BY <1>2, <1>3, <2>1, <2>4, <2>5, <2>7, MeetsUnfreed DEF StillMeets, Meets, Up
    <2> QED
      BY <2>6, <2>8
  <1> QED
    BY <1>1, <1>5, <1>6

\* The end of the loop frees the node of the handler that ran it.
LEMMA EndScanMeets ==
    ASSUME ServerTypeOK, EndScan
    PROVE  \A i \in Conn : StillMeets(i)
  <1> SUFFICES ASSUME NEW i \in Conn
               PROVE  StillMeets(i)
    OBVIOUS
  <1>1. toNode'[i] = toNode[i] /\ toServer'[i] = toServer[i] /\ ~Freeing(i)'
    BY DEF EndScan, netVars, Freeing, Rescan, Scan
  <1>2. nodes[i] \in Node
    BY DEF ServerTypeOK
  <1>3. CASE Freeing(i)
    <2>1. nodes'[i] = Cleared(nodes[i])
      BY <1>3 DEF EndScan, Freeing
    <2>2. /\ Cleared(nodes[i]).state = nodes[i].state /\ ~Cleared(nodes[i]).busy
          /\ Cleared(nodes[i]).sending = NoModule
          /\ Cleared(nodes[i]).mods = nodes[i].mods
      BY <1>2 DEF Cleared, Node
    <2> QED
      BY <1>1, <1>3, <2>1, <2>2 DEF StillMeets, Meets, Rests, Greets, Up
  <1>4. CASE ~Freeing(i)
    <2>1. nodes'[i] = nodes[i]
      BY <1>4 DEF EndScan, Freeing, ServerTypeOK
    <2> QED
      BY <1>1, <1>4, <2>1, SameMeets DEF SameTalk, SameJob
  <1> QED
    BY <1>3, <1>4

\* What users do, without disconnecting a node.
LEMMA UserMeets ==
    ASSUME ServerTypeOK, WireTypeOK, JobsSafe, "rpcDisconnect" \notin May,
           User
    PROVE  \A i \in Conn : StillMeets(i)
  <1>1. \A i : ~Freeing(i)
    BY DEF User, StartProcess, StopProcess, DisconnectNode, ClearFailedModulesForNodes,
           Idle, Freeing
  <1>2. \A i : ~Freeing(i)'
    BY <1>1 DEF User, StartProcess, StopProcess, DisconnectNode,
                ClearFailedModulesForNodes, Idle, Freeing, Rescan, Scan
  <1>3. ASSUME NEW s, StartProcess(s)
        PROVE  \A i \in Conn : StillMeets(i)
    BY <1>1, <1>2, <1>3, SameMeets DEF StartProcess, netVars, SameTalk, SameJob
  <1>4. ASSUME NEW p, StopProcess(p)
        PROVE  \A i \in Conn : StillMeets(i)
    <2> DEFINE orders == FreeOrders(procs[p])
    <2>1. /\ \A i \in Conn : nodes'[i] = MarkStoping(nodes[i], orders, i)
          /\ toNode' = Stopping(toNode, orders) /\ toServer' = toServer
          /\ p \in DOMAIN procs
      BY <1>4 DEF StopProcess, Live
    <2>2. \A o \in orders : nodes[o[1]].busy /\ ~nodes[o[1]].stoping
                            /\ o[2] = nodes[o[1]].exec
      <3>1. Placed(p, procs[p]) /\ Fewer(procs[p], procs[p])
        BY <2>1, FewerOps DEF JobsSafe, JobsPlaced
      <3>2. orders \subseteq Orders(procs[p], Started(procs[p]))
        BY DEF FreeOrders
      <3> QED
        BY <3>1, <3>2, OrdersWanted
    <2>3. toNode' = StoppingEach(toNode, orders)
      BY <2>1, FreeOrdersSingle, StoppingSingle DEF JobsSafe, WireTypeOK
    <2> HIDE DEF orders
    <2> QED
      BY <1>1, <1>2, <2>1, <2>2, <2>3, OrdersMeet
  <1>5. CASE ClearFailedModulesForNodes
    <2>1. UNCHANGED <<toNode, toServer>>
      BY <1>5 DEF ClearFailedModulesForNodes, netVars
    <2>2. \A i \in Conn : SameTalk(nodes'[i], nodes[i])
      <3>1. \A nd \in Node : SameTalk(nd, nd) /\ SameTalk(Forgiven(nd), nd)
        BY DEF SameTalk, SameJob, Forgiven, Node
      <3> QED
        BY <1>5, <3>1 DEF ClearFailedModulesForNodes, ServerTypeOK
    <2> QED
      BY <1>1, <1>2, <2>1, <2>2, SameMeets
  <1> QED
    BY <1>3, <1>4, <1>5 DEF User, DisconnectNode

\* Every step of the server.
LEMMA ServerMeets ==
    ASSUME ServerTypeOK, WireTypeOK, JobsSafe, ServerStep,
           "outputLost" \notin May, "rpcDisconnect" \notin May
    PROVE  \A i \in Conn : StillMeets(i)
  <1>1. ASSUME NEW n \in Conn, ReapNode(n)
        PROVE  \A i \in Conn : StillMeets(i)
    <2>1. /\ ~Up(n) /\ UNCHANGED <<serverVars, link, toNode>>
          /\ toServer' = [toServer EXCEPT ![n] = <<>>]
      BY <1>1 DEF ReapNode, Up
    <2>2. ASSUME NEW i \in Conn, i # n
          PROVE  StillMeets(i)
      BY <2>1, <2>2, SameMeets DEF serverVars, SameTalk, SameJob, Freeing, WireTypeOK
    <2>3. StillMeets(n)
      BY <2>1 DEF StillMeets
    <2> QED
      BY <2>2, <2>3
  <1> QED
    BY <1>1, HandlerMeets, GiveJobMeets, EndScanMeets, UserMeets DEF ServerStep, Queue

---------------------------------------------------------------------------
(* Steps of the clients.                                                   *)

\* Nothing is told, or one thing that a node not being stopped expects.
Tells(nd, new, back, now) ==
    \/ now = back
    \/ \E x : /\ now = Append(back, x) /\ x.id \in 120..123
              /\ ~nd.stoping => x.name = nd.exec /\ (GoesOn(x) \/ Still(new))

OnlyRuns(cl, m) == \A x \in Module : cl.run[x] # NoJob => x = m

LEMMA DoesOneRuns ==
    ASSUME NEW cl, NEW m, DoesOne(cl, m)
    PROVE  OnlyRuns(cl, m)
  BY DEF DoesOne, OnlyRuns

LEMMA StillDoesOne ==
    ASSUME NEW cl, NEW m, Still(cl)
    PROVE  DoesOne(cl, m)
  BY DEF DoesOne, Still, Sending

\* A program that works may go on to tell the server.
LEMMA TellsServing ==
    ASSUME NEW nd \in Node, ~nd.stoping, nd.busy, NEW back \in Seq(Message), NEW new, NEW now,
           new.exec = nd.exec, DoesOne(new, nd.exec), Tells(nd, new, back, now),
           nd.sending = NoModule,
           \A i \in DOMAIN back :
              back[i].id \in 120..123 /\ back[i].name = nd.exec /\ GoesOn(back[i])
    PROVE  Meets(new, nd, FALSE, <<>>, now)
  <1>1. \A i \in DOMAIN now :
           /\ now[i].id \in 120..123 /\ now[i].name = nd.exec
           /\ GoesOn(now[i]) \/ (i = Len(now) /\ Still(new))
    <2>1. CASE now = back
      BY <2>1
    <2>2. ASSUME NEW x, now = Append(back, x), x.id \in 120..123,
                 x.name = nd.exec, GoesOn(x) \/ Still(new)
          PROVE  \A i \in DOMAIN now :
                    /\ now[i].id \in 120..123 /\ now[i].name = nd.exec
                    /\ GoesOn(now[i]) \/ (i = Len(now) /\ Still(new))
      <3>1. /\ Len(now) = Len(back) + 1
            /\ \A i \in DOMAIN now : (i \in DOMAIN back /\ now[i] = back[i])
                                     \/ (i = Len(now) /\ now[i] = x)
        BY <2>2, SendOps
      <3> QED
        BY <2>2, <3>1
    <2> QED
      BY <2>1, <2>2 DEF Tells
  <1>2. Serves(new, nd, <<>>, now)
    BY <1>1 DEF Serves
  <1> QED
    BY <1>2 DEF Meets

\* So may one whose node waits for the answer to its request 124.
LEMMA TellsStopping ==
    ASSUME NEW nd \in Node, nd.stoping, nd.busy,
           NEW out, NEW back \in Seq(Message), NEW new, NEW now,
           Tells(nd, new, back, now), OnlyRuns(new, nd.exec),
           Len(out) = 1, out[Len(out)].id = 124, \A i \in DOMAIN out : out[i].name = nd.exec,
           \A i \in DOMAIN back : back[i].id \in 120..123
    PROVE  Meets(new, nd, FALSE, out, now)
  <1>1. \A i \in DOMAIN now : now[i].id \in 120..123
    <2>1. CASE now = back
      BY <2>1
    <2>2. ASSUME NEW x, now = Append(back, x), x.id \in 120..123
          PROVE  \A i \in DOMAIN now : now[i].id \in 120..123
      BY <2>2, SendOps
    <2> QED
      BY <2>1, <2>2 DEF Tells
  <1>2. Stops(new, nd, out, now)
    BY <1>1 DEF Stops, OnlyRuns
  <1> QED
    BY <1>2 DEF Meets

\* A request to prepare or to start is taken by a client that is still.
LEMMA TakesOne ==
    ASSUME NEW cl, NEW nd \in Node,
           NEW out \in Seq(Message), NEW back \in Seq(Message),
           Meets(cl, nd, FALSE, out, back),
           out # <<>>, Head(out).id \in {120, 121}
    PROVE  /\ Still(cl) /\ nd.busy
           /\ \A new, now :
                 /\ ~nd.stoping => new.exec = nd.exec
                 /\ DoesOne(new, nd.exec)
                 /\ Tells(nd, new, back, now)
                 => Meets(new, nd, FALSE, Tail(out), now)
  <1>1. nd.busy
    <2>1. ~Rests(cl, nd, out, back)
      BY DEF Rests, Greets
    <2> QED
      BY <2>1 DEF Meets
  <1>2. CASE ~nd.stoping
    <2>1. Serves(cl, nd, out, back)
      BY <1>1, <1>2 DEF Meets
    <2>2. /\ back = <<>> /\ Still(cl) /\ nd.sending = NoModule /\ Len(out) = 1
          /\ Head(out).name = nd.exec
          /\ Head(out).id = 121 => cl.exec = nd.exec
      BY <2>1 DEF Serves
    <2>3. Tail(out) = <<>> /\ DOMAIN back = {}
      BY <2>2, ReadOps
    <2>4. ASSUME NEW new, NEW now, new.exec = nd.exec, DoesOne(new, nd.exec),
                 Tells(nd, new, back, now)
          PROVE  Meets(new, nd, FALSE, Tail(out), now)
      <3>1. Meets(new, nd, FALSE, <<>>, now)
        BY <1>1, <1>2, <2>2, <2>3, <2>4, TellsServing
      <3> QED
        BY <1>1, <2>3, <3>1
    <2> QED
      BY <1>1, <1>2, <2>2, <2>4
  <1>3. CASE nd.stoping
    <2>1. Stops(cl, nd, out, back)
      BY <1>1, <1>3 DEF Meets
    <2>2. /\ Len(out) = 1 \/ (Len(out) = 2 /\ Head(out).id \in {120, 121} /\ Still(cl))
          /\ out[Len(out)].id = 124
          /\ \A i \in DOMAIN out : out[i].name = nd.exec
          /\ \A i \in DOMAIN back : back[i].id \in 120..123
      BY <2>1 DEF Stops
    <2>3. Len(out) # 1
      BY <2>2, ReadOps
    <2>4. Len(out) = 2 /\ Still(cl)
      BY <2>2, <2>3
    <2>5. Head(out).name = nd.exec
      BY <2>2, ReadOps
    <2>6. /\ Len(Tail(out)) = 1 /\ Tail(out) \in Seq(Message)
          /\ \A i \in DOMAIN Tail(out) : i + 1 \in DOMAIN out /\ Tail(out)[i] = out[i + 1]
      BY <2>4, ReadOps
    <2>7. /\ Tail(out)[Len(Tail(out))].id = 124
          /\ \A i \in DOMAIN Tail(out) : Tail(out)[i].name = nd.exec
      <3>1. \A t \in Seq(Message) : Len(t) = 1 => 1 \in DOMAIN t
        OBVIOUS
      <3>2. 1 \in DOMAIN Tail(out)
        BY <2>6, <3>1
      <3>3. Tail(out)[1] = out[1 + 1] /\ out[Len(out)] = out[1 + 1]
        BY <2>4, <2>6, <3>2
      <3>4. Tail(out)[1].id = 124
        BY <2>2, <3>3
      <3>5. \A i \in DOMAIN Tail(out) : Tail(out)[i].name = nd.exec
        BY <2>2, <2>6
      <3> QED
        BY <2>6, <3>4, <3>5
    <2>8. ASSUME NEW new, NEW now, DoesOne(new, nd.exec), Tells(nd, new, back, now)
          PROVE  Meets(new, nd, FALSE, Tail(out), now)
      <3>1. Meets(new, nd, FALSE, Tail(out), now)
        BY <1>1, <1>3, <2>2, <2>6, <2>7, <2>8, DoesOneRuns, TellsStopping, ZenonT(60)
      <3> QED
        BY <1>1, <3>1
    <2> QED
      BY <1>1, <1>3, <2>4, <2>5, <2>8
  <1> QED
    BY <1>2, <1>3 DEF Node

\* It is about the module the node works for.
LEMMA TakesName ==
    ASSUME NEW cl, NEW nd \in Node,
           NEW out \in Seq(Message), NEW back \in Seq(Message),
           Meets(cl, nd, FALSE, out, back),
           out # <<>>, Head(out).id \in {120, 121}
    PROVE  Head(out).name = nd.exec
  <1>1. nd.busy
    <2>1. ~Rests(cl, nd, out, back)
      BY DEF Rests, Greets
    <2> QED
      BY <2>1 DEF Meets
  <1>2. CASE ~nd.stoping
    BY <1>1, <1>2 DEF Meets, Serves
  <1>3. CASE nd.stoping
    <2>1. \A i \in DOMAIN out : out[i].name = nd.exec
      BY <1>1, <1>3 DEF Meets, Stops
    <2> QED
      BY <1>3, <2>1, ReadOps
  <1> QED
    BY <1>2, <1>3 DEF Node

\* The client that is to start a module has prepared for it.
LEMMA StartsExec ==
    ASSUME NEW cl \in ClientState, NEW nd \in Node,
           NEW out \in Seq(Message), NEW back \in Seq(Message),
           Meets(cl, nd, FALSE, out, back),
           out # <<>>, Head(out).id = 121, ~nd.stoping
    PROVE  cl.exec = nd.exec
  <1>1. ~Rests(cl, nd, out, back)
    BY DEF Rests, Greets
  <1>2. Serves(cl, nd, out, back)
    BY <1>1 DEF Meets
  <1> QED
    BY <1>2 DEF Serves

\* A client that is not still works for its node.
LEMMA WorksOn ==
    ASSUME NEW cl, NEW nd \in Node, NEW frees \in BOOLEAN,
           NEW out \in Seq(Message), NEW back \in Seq(Message),
           Meets(cl, nd, frees, out, back), ~Still(cl)
    PROVE  /\ nd.busy /\ OnlyRuns(cl, nd.exec)
           /\ ~nd.stoping => cl.exec = nd.exec /\ DoesOne(cl, nd.exec)
           /\ \A new, now :
                 /\ OnlyRuns(new, nd.exec)
                 /\ ~nd.stoping => new.exec = nd.exec /\ DoesOne(new, nd.exec)
                 /\ Tells(nd, new, back, now)
                 => Meets(new, nd, frees, out, now)
  <1>1. nd.busy /\ ~frees
    BY DEF Meets, Rests
  <1>2. CASE ~nd.stoping
    <2>1. Serves(cl, nd, out, back)
      BY <1>1, <1>2 DEF Meets
    <2>2. /\ out = <<>> /\ nd.sending = NoModule /\ cl.exec = nd.exec
          /\ DoesOne(cl, nd.exec)
          /\ \A i \in DOMAIN back :
               back[i].id \in 120..123 /\ back[i].name = nd.exec /\ GoesOn(back[i])
      BY <2>1 DEF Serves
    <2>3. ASSUME NEW new, NEW now, new.exec = nd.exec, DoesOne(new, nd.exec),
                 Tells(nd, new, back, now)
          PROVE  Meets(new, nd, frees, out, now)
      <3>1. Meets(new, nd, FALSE, <<>>, now)
        BY <1>1, <1>2, <2>2, <2>3, TellsServing
      <3> QED
        BY <1>1, <2>2, <3>1
    <2> QED
      BY <1>1, <1>2, <2>2, <2>3, DoesOneRuns
  <1>3. CASE nd.stoping
    <2>1. Stops(cl, nd, out, back)
      BY <1>1, <1>3 DEF Meets
    <2>2. /\ Len(out) = 1 /\ out[Len(out)].id = 124
          /\ \A i \in DOMAIN out : out[i].name = nd.exec
          /\ \A i \in DOMAIN back : back[i].id \in 120..123
          /\ OnlyRuns(cl, nd.exec)
      BY <2>1 DEF Stops, OnlyRuns
    <2>3. ASSUME NEW new, NEW now, OnlyRuns(new, nd.exec), Tells(nd, new, back, now)
          PROVE  Meets(new, nd, frees, out, now)
      <3>1. Meets(new, nd, FALSE, out, now)
        BY <1>1, <1>3, <2>2, <2>3, TellsStopping, ZenonT(60)
      <3> QED
        BY <1>1, <3>1
    <2> QED
      BY <1>1, <1>3, <2>2, <2>3
  <1> QED
    BY <1>2, <1>3 DEF Node

\* Answers to requests 120 and 121, and how they went on.
Reports(back) == \A i \in DOMAIN back : back[i].id \in 120..123

\* A request to stop ends all the client does.
LEMMA StopTaken ==
    ASSUME NEW cl, NEW nd \in Node,
           NEW out \in Seq(Message), NEW back \in Seq(Message),
           Meets(cl, nd, FALSE, out, back),
           out # <<>>, Head(out).id = 124
    PROVE  /\ OnlyRuns(cl, Head(out).name)
           /\ nd.busy /\ nd.stoping /\ Tail(out) = <<>> /\ Reports(back)
  <1>1. nd.busy
    <2>1. ~Rests(cl, nd, out, back)
      BY DEF Rests, Greets
    <2> QED
      BY <2>1 DEF Meets
  <1>2. nd.stoping
    <2>1. ~Serves(cl, nd, out, back)
      BY DEF Serves
    <2> QED
      BY <1>1, <2>1 DEF Meets
  <1>3. Stops(cl, nd, out, back)
    BY <1>1, <1>2 DEF Meets
  <1>4. /\ Len(out) = 1 \/ (Len(out) = 2 /\ Head(out).id \in {120, 121} /\ Still(cl))
        /\ \A i \in DOMAIN out : out[i].name = nd.exec
        /\ \A i \in DOMAIN back : back[i].id \in 120..123
        /\ OnlyRuns(cl, nd.exec)
    BY <1>3 DEF Stops, OnlyRuns
  <1>5. Len(out) = 1 /\ Tail(out) = <<>> /\ Head(out).name = nd.exec
    BY <1>4, ReadOps
  <1> QED
    BY <1>1, <1>2, <1>4, <1>5 DEF Reports

LEMMA StopAnswer ==
    ASSUME NEW new, NEW nd \in Node, NEW back \in Seq(Message), NEW x,
           nd.busy, nd.stoping, Still(new), x.id = 124, Reports(back)
    PROVE  Meets(new, nd, FALSE, <<>>, Append(back, x))
  <1> DEFINE now == Append(back, x)
  <1>1. /\ Len(now) = Len(back) + 1
        /\ \A i \in DOMAIN now : (i \in DOMAIN back /\ now[i] = back[i])
                                 \/ (i = Len(now) /\ now[i] = x)
    BY SendOps
  <1>2. \A i \in DOMAIN now : now[i].id \in 120..124 /\ (now[i].id = 124 <=> i = Len(now))
    BY <1>1 DEF Reports
  <1> HIDE DEF now
  <1>3. Stops(new, nd, <<>>, now)
    BY <1>2 DEF Stops
  <1> QED
    BY <1>3 DEF Meets, now

\* The authorization of a client is answered with its modules.
LEMMA GreetingTaken ==
    ASSUME NEW cl, NEW nd \in Node, NEW frees \in BOOLEAN,
           NEW out \in Seq(Message), NEW back \in Seq(Message),
           Meets(cl, nd, frees, out, back),
           out # <<>>, Head(out).id = 100
    PROVE  /\ Still(cl)
           /\ \A new, x : Still(new) /\ x.id = 110 =>
                 Meets(new, nd, frees, Tail(out), Append(back, x))
  <1>1. ~nd.busy \/ frees
    <2>1. ~Serves(cl, nd, out, back)
      BY DEF Serves
    <2>2. ~Stops(cl, nd, out, back)
      BY ReadOps DEF Stops
    <2> QED
      BY <2>1, <2>2 DEF Meets
  <1>2. Rests(cl, nd, out, back)
    BY <1>1 DEF Meets
  <1>3. /\ Still(cl) /\ nd.mods = {} /\ back = <<>> /\ Len(out) = 1
        /\ ~nd.busy => nd.sending = NoModule
    BY <1>2 DEF Rests, Greets
  <1>4. Tail(out) = <<>>
    BY <1>3, ReadOps
  <1>5. ASSUME NEW new, NEW x, Still(new), x.id = 110
        PROVE  Meets(new, nd, frees, Tail(out), Append(back, x))
    <2>1. Append(back, x) = <<x>> /\ Len(<<x>>) = 1 /\ Head(<<x>>) = x
      BY <1>3
    <2>2. Rests(new, nd, <<>>, <<x>>)
      BY <1>3, <1>5, <2>1 DEF Rests, Greets
    <2>3. Meets(new, nd, frees, <<>>, <<x>>)
      BY <1>1, <2>2 DEF Meets
    <2> QED
      BY <1>4, <2>1, <2>3
  <1> QED
    BY <1>3, <1>5

\* Client c is to the node of its connection what the invariant allows.
Joined(c) ==
    LET n == Connection(c)
    IN  /\ n \in Conn /\ link[n] = "open"
        /\ Meets(client[c], nodes[n], Freeing(n), toNode[n], toServer[n])

\* It still is after a step of its own, which nobody else sees.
StillJoined(c) ==
    LET n == Connection(c)
    IN  /\ \A d \in Client : d # c => client'[d] = client[d]
        /\ client'[c].conn = n
        /\ \A i \in Conn : i # n => toNode'[i] = toNode[i] /\ toServer'[i] = toServer[i]
        /\ Meets(client'[c], nodes[n], Freeing(n), toNode'[n], toServer'[n])

LEMMA JoinedTypes ==
    ASSUME ServerTypeOK, WireTypeOK, NEW c \in Client, Joined(c)
    PROVE  /\ Online(c)
           /\ client[c] \in ClientState /\ nodes[Connection(c)] \in Node
           /\ Freeing(Connection(c)) \in BOOLEAN
           /\ toNode[Connection(c)] \in Seq(Message) /\ toServer[Connection(c)] \in Seq(Message)
  <1>1. Connection(c) # 0
    BY NetAssumption DEF Joined, Conn
  <1>2. Freeing(Connection(c)) \in BOOLEAN
    BY DEF Freeing
  <1> QED
    BY <1>1, <1>2 DEF ServerTypeOK, WireTypeOK, Joined, Online

LEMMA GetsOne ==
    ASSUME ServerTypeOK, WireTypeOK, NEW c \in Client, Joined(c), NEW id, Gets(c, id)
    PROVE  LET n == Connection(c)
           IN  /\ toNode[n] # <<>> /\ Head(toNode[n]).id = id
               /\ toNode'[n] = Tail(toNode[n])
               /\ \A i \in Conn : i # n => toNode'[i] = toNode[i]
  BY DEF Gets, Joined, WireTypeOK

LEMMA RepliesOne ==
    ASSUME ServerTypeOK, WireTypeOK, NEW c \in Client, Joined(c), NEW x, Reply(c, x)
    PROVE  LET n == Connection(c)
           IN  /\ toServer'[n] = Append(toServer[n], x)
               /\ \A i \in Conn : i # n => toServer'[i] = toServer[i]
  BY JoinedTypes DEF Reply, ToServer, Sent, Joined, WireTypeOK

\* An answer about the module that runs.
LEMMA AnswerTells ==
    ASSUME NEW nd, NEW new, NEW back, NEW id \in 120..123, NEW m, NEW st,
           m = nd.exec \/ nd.stoping,
           (id = 122 /\ st = 1) \/ Still(new)
    PROVE  /\ Tells(nd, new, back, Append(back, Answer(id, m, st)))
           /\ Answer(id, m, st).id = id
  BY DEF Tells, Answer, Msg, GoesOn

LEMMA SilentTells ==
    ASSUME NEW nd, NEW new, NEW back
    PROVE  Tells(nd, new, back, back)
  BY DEF Tells

LEMMA CheckAuthorizationJoined ==
    ASSUME ServerTypeOK, WireTypeOK, NEW c \in Client, Joined(c), CheckAuthorization(c)
    PROVE  StillJoined(c)
  <1> DEFINE n == Connection(c)
             new == Reinitialised(client[c])
             x == ModulesList(ClientModules[c])
  <1>1. Gets(c, 100) /\ Reply(c, x) /\ client' = [client EXCEPT ![c] = new]
    BY DEF CheckAuthorization
  <1>2. client[c] \in ClientState /\ client \in [Client -> ClientState]
    BY JoinedTypes DEF WireTypeOK
  <1>3. /\ client'[c] = new /\ \A d \in Client : d # c => client'[d] = client[d]
        /\ new.conn = n
        /\ Still(client[c]) => Still(new)
    BY <1>1, <1>2 DEF Reinitialised, ClientState, Still, Sending, NewClient, Connection
  <1>4. x.id = 110
    BY DEF ModulesList
  <1>5. Meets(new, nodes[n], Freeing(n), Tail(toNode[n]), Append(toServer[n], x))
    <2> HIDE DEF new, x
    <2>1. Meets(client[c], nodes[n], Freeing(n), toNode[n], toServer[n])
      BY DEF Joined
    <2> QED
      BY <1>1, <1>3, <1>4, <2>1, JoinedTypes, GetsOne, GreetingTaken
  <1> HIDE DEF new, x
  <1> QED
    BY <1>1, <1>3, <1>5, GetsOne, RepliesOne, ZenonT(60) DEF StillJoined

\* What the client says, if anything.
Says(c, new, m) ==
    \/ Silent
    \/ \E x : /\ Reply(c, x)
              /\ x.id \in 120..123
              /\ nodes[Connection(c)].stoping \/ (x.name = m /\ (GoesOn(x) \/ Still(new)))

LEMMA SaysTells ==
    ASSUME ServerTypeOK, WireTypeOK, NEW c \in Client, Joined(c), NEW new, NEW m, Says(c, new, m),
           ~nodes[Connection(c)].stoping => m = nodes[Connection(c)].exec
    PROVE  LET n == Connection(c)
           IN  /\ Tells(nodes[n], new, toServer[n], toServer'[n])
               /\ \A i \in Conn : i # n => toServer'[i] = toServer[i]
  <1>1. CASE Silent
    BY <1>1 DEF Silent, Tells
  <1>2. ASSUME NEW x, Reply(c, x), x.id \in 120..123,
               nodes[Connection(c)].stoping \/ (x.name = m /\ (GoesOn(x) \/ Still(new)))
        PROVE  LET n == Connection(c)
               IN  /\ Tells(nodes[n], new, toServer[n], toServer'[n])
                   /\ \A i \in Conn : i # n => toServer'[i] = toServer[i]
    BY <1>2, RepliesOne DEF Tells
  <1> QED
    BY <1>1, <1>2 DEF Says

LEMMA Updated ==
    ASSUME WireTypeOK, NEW c \in Client, NEW new, client' = [client EXCEPT ![c] = new]
    PROVE  client'[c] = new /\ \A d \in Client : d # c => client'[d] = client[d]
  BY DEF WireTypeOK

\* A client that takes a request to prepare or to start a module is still.
LEMMA TakesStill ==
    ASSUME ServerTypeOK, WireTypeOK, NEW c \in Client, Joined(c), NEW id \in {120, 121}, Gets(c, id)
    PROVE  LET n == Connection(c)
           IN  /\ Still(client[c])
               /\ Head(toNode[n]).name = nodes[n].exec
               /\ id = 121 /\ ~nodes[n].stoping => client[c].exec = nodes[n].exec
               /\ \A new, now :
                     /\ ~nodes[n].stoping => new.exec = nodes[n].exec
                     /\ DoesOne(new, nodes[n].exec)
                     /\ Tells(nodes[n], new, toServer[n], now)
                     => Meets(new, nodes[n], Freeing(n), toNode'[n], now)
  <1> PICK n : n = Connection(c)
    OBVIOUS
  <1>1. /\ client[c] \in ClientState /\ nodes[n] \in Node /\ Freeing(n) \in BOOLEAN
        /\ toNode[n] \in Seq(Message) /\ toServer[n] \in Seq(Message)
    BY JoinedTypes
  <1>2. /\ toNode[n] # <<>> /\ Head(toNode[n]).id = id /\ toNode'[n] = Tail(toNode[n])
        /\ Head(toNode[n]).id \in {120, 121}
    BY GetsOne
  <1>3. Meets(client[c], nodes[n], Freeing(n), toNode[n], toServer[n])
    BY DEF Joined
  <1>4. ~Freeing(n)
    <2>1. ~Rests(client[c], nodes[n], toNode[n], toServer[n])
      BY <1>2 DEF Rests, Greets
    <2> QED
      BY <1>3, <2>1 DEF Meets
  <1>5. Meets(client[c], nodes[n], FALSE, toNode[n], toServer[n])
    BY <1>3, <1>4 DEF Meets
  <1>6. /\ Still(client[c]) /\ Head(toNode[n]).name = nodes[n].exec
        /\ id = 121 /\ ~nodes[n].stoping => client[c].exec = nodes[n].exec
    <2>1. Still(client[c])
      BY <1>1, <1>2, <1>5, TakesOne
    <2>2. Head(toNode[n]).name = nodes[n].exec
      BY <1>1, <1>2, <1>5, TakesName, ZenonT(60)
    <2>3. ASSUME id = 121, ~nodes[n].stoping
          PROVE  client[c].exec = nodes[n].exec
      <3>1. Head(toNode[n]).id = 121 /\ toNode[n] # <<>>
        BY <1>2, <2>3
      <3> QED
        BY <1>1, <1>5, <2>3, <3>1, StartsExec, ZenonT(60)
    <2> QED
      BY <2>1, <2>2, <2>3
  <1>7. ASSUME NEW new, NEW now,
               ~nodes[n].stoping => new.exec = nodes[n].exec,
               DoesOne(new, nodes[n].exec),
               Tells(nodes[n], new, toServer[n], now)
        PROVE  Meets(new, nodes[n], Freeing(n), toNode'[n], now)
    <2>1. Meets(new, nodes[n], FALSE, Tail(toNode[n]), now)
      BY <1>1, <1>2, <1>5, <1>7, TakesOne
    <2> QED
      BY <1>2, <1>4, <2>1 DEF Meets
  <1> QED
    BY <1>2, <1>6, <1>7

LEMMA TakesJoined ==
    ASSUME ServerTypeOK, WireTypeOK, NEW c \in Client, Joined(c), NEW id \in {120, 121}, Gets(c, id),
           NEW new, client' = [client EXCEPT ![c] = new], new.conn = Connection(c),
           LET m == Head(toNode[Connection(c)]).name
           IN  /\ DoesOne(new, m)
               /\ new.exec = m \/ (id = 121 /\ new.exec = client[c].exec)
               /\ Says(c, new, m)
    PROVE  StillJoined(c)
  <1> DEFINE n == Connection(c)
  <1>1. client'[c] = new /\ \A d \in Client : d # c => client'[d] = client[d]
    BY Updated
  <1>2. \A i \in Conn : i # n => toNode'[i] = toNode[i]
    BY GetsOne
  <1>3. /\ DoesOne(new, nodes[n].exec) /\ Says(c, new, nodes[n].exec)
        /\ ~nodes[n].stoping => new.exec = nodes[n].exec
    BY TakesStill
  <1>4. /\ Tells(nodes[n], new, toServer[n], toServer'[n])
        /\ \A i \in Conn : i # n => toServer'[i] = toServer[i]
    BY <1>3, SaysTells
  <1>5. Meets(new, nodes[n], Freeing(n), toNode'[n], toServer'[n])
    BY <1>3, <1>4, TakesStill, ZenonT(60)
  <1> QED
    BY <1>1, <1>2, <1>4, <1>5 DEF StillJoined

LEMMA WorksJoined ==
    ASSUME ServerTypeOK, WireTypeOK, NEW c \in Client, Joined(c), ~Still(client[c]),
           UNCHANGED toNode,
           NEW new, client' = [client EXCEPT ![c] = new], new.conn = Connection(c),
           NEW m, Says(c, new, m),
           LET nd == nodes[Connection(c)]
           IN  /\ OnlyRuns(new, nd.exec)
               /\ ~nd.stoping => m = nd.exec /\ new.exec = nd.exec /\ DoesOne(new, nd.exec)
    PROVE  StillJoined(c)
  <1> DEFINE n == Connection(c)
  <1>1. client'[c] = new /\ \A d \in Client : d # c => client'[d] = client[d]
    BY Updated
  <1>2. /\ client[c] \in ClientState /\ nodes[n] \in Node /\ Freeing(n) \in BOOLEAN
        /\ toNode[n] \in Seq(Message) /\ toServer[n] \in Seq(Message)
    BY JoinedTypes
  <1>3. /\ Tells(nodes[n], new, toServer[n], toServer'[n])
        /\ \A i \in Conn : i # n => toServer'[i] = toServer[i]
    BY SaysTells
  <1>4. Meets(client[c], nodes[n], Freeing(n), toNode[n], toServer[n])
    BY DEF Joined
  <1>5. Meets(new, nodes[n], Freeing(n), toNode[n], toServer'[n])
    <2> HIDE DEF n
    <2>1. /\ OnlyRuns(new, nodes[n].exec)
          /\ ~nodes[n].stoping => new.exec = nodes[n].exec /\ DoesOne(new, nodes[n].exec)
      BY DEF n
    <2> QED
      BY <1>2, <1>3, <1>4, <2>1, WorksOn, ZenonT(60)
  <1> QED
    BY <1>1, <1>3, <1>5 DEF StillJoined

\* What a client that is not still does for its node.
LEMMA WorksFor ==
    ASSUME ServerTypeOK, WireTypeOK, NEW c \in Client, Joined(c), ~Still(client[c])
    PROVE  LET nd == nodes[Connection(c)]
           IN  /\ OnlyRuns(client[c], nd.exec)
               /\ ~nd.stoping => client[c].exec = nd.exec /\ DoesOne(client[c], nd.exec)
  <1> DEFINE n == Connection(c)
  <1>1. /\ client[c] \in ClientState /\ nodes[n] \in Node /\ Freeing(n) \in BOOLEAN
        /\ toNode[n] \in Seq(Message) /\ toServer[n] \in Seq(Message)
    BY JoinedTypes
  <1>2. Meets(client[c], nodes[n], Freeing(n), toNode[n], toServer[n])
    BY DEF Joined
  <1> HIDE DEF n
  <1>3. /\ OnlyRuns(client[c], nodes[n].exec)
        /\ ~nodes[n].stoping => client[c].exec = nodes[n].exec /\ DoesOne(client[c], nodes[n].exec)
    BY <1>1, <1>2, WorksOn
  <1> QED
    BY <1>3 DEF n

LEMMA AnswerOps ==
    ASSUME NEW id, NEW m, NEW st
    PROVE  /\ Answer(id, m, st).id = id /\ Answer(id, m, st).name = m
           /\ Answer(id, m, st).status = st
  BY DEF Answer, Msg

LEMMA PrepareJoined ==
    ASSUME ServerTypeOK, WireTypeOK, NEW c \in Client, Joined(c), PrepareForStartModule(c)
    PROVE  StillJoined(c)
  <1> DEFINE cl == client[c]
             req == Head(toNode[Connection(c)])
             m == req.name
             done == [cl EXCEPT !.exec = m, !.job[m] = req.job, !.temp = @ \union {m},
                                !.into = m, !.ready = @ \ {m}]
             failed == [cl EXCEPT !.exec = m, !.job[m] = req.job, !.into = NoModule]
  <1>1. Gets(c, 120) /\ cl \in ClientState
    BY JoinedTypes DEF PrepareForStartModule
  <1>2. \/ client' = [client EXCEPT ![c] = done] /\ Reply(c, Answer(120, m, 1))
        \/ client' = [client EXCEPT ![c] = failed] /\ Reply(c, Answer(120, m, 0))
    BY DEF PrepareForStartModule
  <1>3. Still(cl)
    <2>1. 120 \in {120, 121}
      OBVIOUS
    <2> QED
      BY <1>1, <2>1, TakesStill
  <1>4. ASSUME NEW new \in {done, failed}
        PROVE  new.exec = m /\ new.conn = Connection(c) /\ new.run = cl.run
               /\ new.files = cl.files /\ new.msg = cl.msg
    <2> HIDE DEF m, req
    <2> QED
      BY <1>1 DEF ClientState, Connection
  <1> HIDE DEF done, failed
  <1>5. ASSUME NEW new \in {done, failed}, NEW st,
               client' = [client EXCEPT ![c] = new], Reply(c, Answer(120, m, st))
        PROVE  StillJoined(c)
    <2>1. Still(new) /\ DoesOne(new, m)
      BY <1>3, <1>4, StillDoesOne DEF Still, Sending
    <2>2. Says(c, new, m)
      <3>1. 120 \in 120..123
        OBVIOUS
      <3> QED
        BY <1>5, <2>1, <3>1, AnswerOps DEF Says
    <2>3. 120 \in {120, 121}
      OBVIOUS
    <2> QED
      BY <1>1, <1>4, <1>5, <2>1, <2>2, <2>3, TakesJoined
  <1> QED
    BY <1>2, <1>5

\* What is archived is sent for module m; nothing else of the client changes
\* that its node could see.
LEMMA ArchivedOps ==
    ASSUME NEW cl \in ClientState, NEW m, NEW message
    PROVE  LET new == Archived(cl, m, message)
           IN  /\ new.run = cl.run /\ new.exec = cl.exec /\ new.conn = cl.conn
               /\ new.files = cl.files
               /\ new.msg \in {cl.msg, message}
               /\ DOMAIN new = DOMAIN cl
  <1>1. CASE m \in cl.temp
    BY <1>1 DEF Archived, TempCleared, ClientState
  <1>2. CASE m \notin cl.temp /\ cl.msg # NoMsg
    BY <1>2 DEF Archived, ClientState
  <1>3. CASE m \notin cl.temp /\ cl.msg = NoMsg
    BY <1>3 DEF Archived, ClientState
  <1> QED
    BY <1>1, <1>2, <1>3

LEMMA TempClearedOps ==
    ASSUME NEW cl \in ClientState, NEW m
    PROVE  LET new == TempCleared(cl, m)
           IN  /\ new.run = cl.run /\ new.exec = cl.exec /\ new.conn = cl.conn
               /\ new.files = cl.files /\ new.msg = cl.msg
               /\ new \in ClientState
  BY DEF TempCleared, ClientState, Name

LEMMA ExitedOps ==
    ASSUME NEW cl \in ClientState, NEW m
    PROVE  /\ Exited(cl, m) \in ClientState
           /\ \A x \in Module : Exited(cl, m).run[x] = IF x = m THEN NoJob ELSE cl.run[x]
           /\ Exited(cl, m).exec = cl.exec /\ Exited(cl, m).conn = cl.conn
           /\ Exited(cl, m).files = cl.files /\ Exited(cl, m).msg = cl.msg
  <1>1. NoJob \in JobTag
    BY DEF JobTag
  <1> QED
    BY <1>1 DEF Exited, ClientState

LEMMA ReceivedInputParametersJoined ==
    ASSUME ServerTypeOK, WireTypeOK, NEW c \in Client, Joined(c), ReceivedInputParameters(c)
    PROVE  StillJoined(c)
  <1> DEFINE cl == client[c]
             m == Head(toNode[Connection(c)]).name
             ready == TempCleared(cl, m)
             runs == [cl EXCEPT !.run[m] = cl.job[m]]
             exited == [cl EXCEPT !.run[m] = NoJob]
             failed(id) == Archived(exited, m, Answer(id, m, 0))
  <1>1. Gets(c, 121) /\ cl \in ClientState
    BY JoinedTypes DEF ReceivedInputParameters
  <1>2. \/ client' = [client EXCEPT ![c] = ready] /\ Reply(c, Answer(121, m, 0))
        \/ client' = [client EXCEPT ![c] = runs] /\ Reply(c, Answer(122, m, 1))
        \/ \E id \in {122, 123} : client' = [client EXCEPT ![c] = failed(id)] /\ Silent
    BY Zenon DEF ReceivedInputParameters
  <1>3. 121 \in {120, 121} /\ 121 \in 120..123 /\ 122 \in 120..123
    OBVIOUS
  <1>4. Still(cl)
    BY <1>1, <1>3, TakesStill
  <1>5. ASSUME NEW new, client' = [client EXCEPT ![c] = new],
               new.exec = cl.exec, new.conn = cl.conn, DoesOne(new, m), Says(c, new, m)
        PROVE  StillJoined(c)
    BY <1>1, <1>3, <1>5, TakesJoined DEF Connection
  <1>6. CASE client' = [client EXCEPT ![c] = ready] /\ Reply(c, Answer(121, m, 0))
    <2>1. Still(ready) /\ ready.exec = cl.exec /\ ready.conn = cl.conn
      BY <1>1, <1>4, TempClearedOps DEF Still, Sending
    <2> HIDE DEF ready, m
    <2>2. Says(c, ready, m)
      BY <1>3, <1>6, <2>1, AnswerOps DEF Says
    <2> QED
      BY <1>5, <1>6, <2>1, <2>2, StillDoesOne
  <1>7. CASE client' = [client EXCEPT ![c] = runs] /\ Reply(c, Answer(122, m, 1))
    <2>1. /\ \A x \in Module : x # m => runs.run[x] = cl.run[x]
          /\ runs.exec = cl.exec /\ runs.conn = cl.conn
          /\ runs.files = cl.files /\ runs.msg = cl.msg
      BY <1>1 DEF ClientState
    <2> HIDE DEF runs, m
    <2>2. DoesOne(runs, m)
      BY <1>4, <2>1 DEF DoesOne, Still, Sending
    <2>3. Says(c, runs, m)
      BY <1>3, <1>7, AnswerOps DEF Says, GoesOn
    <2> QED
      BY <1>5, <1>7, <2>1, <2>2, <2>3
  <1>8. ASSUME NEW id \in {122, 123}, client' = [client EXCEPT ![c] = failed(id)], Silent
        PROVE  StillJoined(c)
    <2> DEFINE new == failed(id)
    <2>1. exited = Exited(cl, m)
      BY DEF Exited
    <2>2. /\ exited \in ClientState /\ exited.exec = cl.exec /\ exited.conn = cl.conn
          /\ \A x \in Module : exited.run[x] = IF x = m THEN NoJob ELSE cl.run[x]
          /\ exited.files = cl.files /\ exited.msg = cl.msg
      <3> HIDE DEF m, exited, cl
      <3> QED
        BY <1>1, <2>1, ExitedOps
    <2> HIDE DEF exited, m
    <2>3. /\ new.run = exited.run /\ new.exec = exited.exec /\ new.conn = exited.conn
          /\ new.files = exited.files /\ new.msg \in {exited.msg, Answer(id, m, 0)}
      BY <2>2, ArchivedOps
    <2> HIDE DEF new
    <2>4. DoesOne(new, m)
      BY <1>4, <2>2, <2>3, AnswerOps DEF DoesOne, Still, Sending
    <2>5. Says(c, new, m)
      BY <1>8 DEF Says
    <2> QED
      BY <1>5, <1>8, <2>2, <2>3, <2>4, <2>5 DEF new
  <1> QED
    BY <1>2, <1>6, <1>7, <1>8

LEMMA StopJoined ==
    ASSUME ServerTypeOK, WireTypeOK, NEW c \in Client, Joined(c), "stopRace" \notin May,
           ReceivedRequestOnStopModule(c)
    PROVE  StillJoined(c)
  <1> PICK n : n = Connection(c)
    OBVIOUS
  <1> DEFINE m == Head(toNode[n]).name
             cl == TempCleared(Exited(client[c], m), m)
             new == client'[c]
  <1>1. /\ client[c] \in ClientState /\ nodes[n] \in Node /\ Freeing(n) \in BOOLEAN
        /\ toNode[n] \in Seq(Message) /\ toServer[n] \in Seq(Message)
    BY JoinedTypes
  <1>2. Gets(c, 124)
    BY DEF ReceivedRequestOnStopModule
  <1>3. /\ toNode[n] # <<>> /\ Head(toNode[n]).id = 124 /\ toNode'[n] = Tail(toNode[n])
        /\ \A i \in Conn : i # n => toNode'[i] = toNode[i]
    BY <1>2, GetsOne
  <1>4. PICK st : Reply(c, Answer(124, m, st))
    BY DEF ReceivedRequestOnStopModule
  <1>5. /\ toServer'[n] = Append(toServer[n], Answer(124, m, st))
        /\ \A i \in Conn : i # n => toServer'[i] = toServer[i]
    BY <1>4, RepliesOne
  <1>6. PICK after : /\ after = IF Sending(cl) THEN Interrupted(cl) ELSE cl
                     /\ client' = [client EXCEPT ![c] = after]
    BY DEF ReceivedRequestOnStopModule, Exited
  <1>7. ~Freeing(n) /\ Meets(client[c], nodes[n], FALSE, toNode[n], toServer[n])
    <2>1. Meets(client[c], nodes[n], Freeing(n), toNode[n], toServer[n])
      BY DEF Joined
    <2>2. ~Rests(client[c], nodes[n], toNode[n], toServer[n])
      BY <1>3 DEF Rests, Greets
    <2> QED
      BY <2>1, <2>2 DEF Meets
  <1>8. OnlyRuns(client[c], m)
    <2>1. OnlyRuns(client[c], Head(toNode[n]).name)
      <3> HIDE DEF m
      <3> QED
        BY <1>1, <1>3, <1>7, StopTaken
    <2> QED
      BY <2>1
  <1>9. after.conn = n /\ Still(after)
    <2>1. Exited(client[c], m) \in ClientState
      BY <1>1, ExitedOps
    <2>2. /\ cl \in ClientState /\ cl.conn = n /\ cl.run = Exited(client[c], m).run
      BY <1>1, <2>1, ExitedOps, TempClearedOps DEF Connection
    <2> HIDE DEF cl, m
    <2>3. \A x \in Module : cl.run[x] = NoJob
      <3>1. \A x \in Module : Exited(client[c], m).run[x] =
                                 IF x = m THEN NoJob ELSE client[c].run[x]
        BY <1>1, ExitedOps
      <3> QED
        BY <1>8, <2>2, <3>1 DEF OnlyRuns
    <2>4. CASE Sending(cl)
      <3>1. /\ after.conn = cl.conn /\ after.run = cl.run
            /\ ~after.files /\ after.msg = NoMsg
        BY <1>6, <2>2, <2>4 DEF Interrupted, ClientState
      <3> QED
        BY <2>2, <2>3, <3>1 DEF Still, Sending
    <2>5. CASE ~Sending(cl)
      BY <1>6, <2>2, <2>3, <2>5 DEF Still
    <2> QED
      BY <2>4, <2>5
  <1>10. client'[c] = after /\ \A d \in Client : d # c => client'[d] = client[d]
    BY <1>6, Updated
  <1> HIDE DEF m, cl
  <1>11. Meets(after, nodes[n], Freeing(n), Tail(toNode[n]), Append(toServer[n], Answer(124, m, st)))
    <2>1. /\ nodes[n].busy /\ nodes[n].stoping /\ Tail(toNode[n]) = <<>>
          /\ Reports(toServer[n])
      BY <1>1, <1>3, <1>7, StopTaken
    <2>2. Answer(124, m, st).id = 124
      BY AnswerOps
    <2>3. \A x : x.id = 124 => Meets(after, nodes[n], FALSE, <<>>, Append(toServer[n], x))
      <3>1. nodes[n] \in Node /\ toServer[n] \in Seq(Message)
        BY <1>1
      <3>2. \A nd, back, x :
               /\ nd \in Node /\ back \in Seq(Message) /\ nd.busy /\ nd.stoping
               /\ x.id = 124 /\ Reports(back)
               => Meets(after, nd, FALSE, <<>>, Append(back, x))
        BY <1>9, StopAnswer
      <3> QED
        BY <2>1, <3>1, <3>2, ZenonT(120)
    <2>4. Meets(after, nodes[n], FALSE, <<>>, Append(toServer[n], Answer(124, m, st)))
      BY <2>2, <2>3
    <2> QED
      BY <1>7, <2>1, <2>4 DEF Meets
  <1> QED
    BY <1>3, <1>5, <1>9, <1>10, <1>11 DEF StillJoined

\* A client that has its connection does not begin a transfer alone.
LEMMA BegunOps ==
    ASSUME NEW cl, cl.conn # 0
    PROVE  Begun(cl) = cl
  BY DEF Begun

LEMMA TimeoutJoined ==
    ASSUME ServerTypeOK, WireTypeOK, NEW c \in Client, Joined(c), NEW m \in Module,
           ProcessExecutionTimeout(c, m)
    PROVE  StillJoined(c)
  <1> DEFINE cl == client[c]
             nd == nodes[Connection(c)]
             new == Exited(cl, m)
  <1>1. /\ client' = [client EXCEPT ![c] = new] /\ Reply(c, Answer(123, m, 2))
        /\ UNCHANGED toNode /\ cl.run[m] # NoJob /\ cl \in ClientState
    <2>1. cl \in ClientState /\ client \in [Client -> ClientState]
      BY JoinedTypes DEF WireTypeOK
    <2> QED
      BY <2>1 DEF ProcessExecutionTimeout, Exited, Running
  <1>2. ~Still(cl)
    BY <1>1 DEF Still
  <1>3. /\ \A x \in Module : new.run[x] = IF x = m THEN NoJob ELSE cl.run[x]
        /\ new.exec = cl.exec /\ new.conn = cl.conn
        /\ new.files = cl.files /\ new.msg = cl.msg
    BY <1>1, ExitedOps
  <1>4. /\ OnlyRuns(cl, nd.exec)
        /\ ~nd.stoping => cl.exec = nd.exec /\ DoesOne(cl, nd.exec)
    BY <1>2, WorksFor
  <1> HIDE DEF new, nd
  <1>5. OnlyRuns(new, nd.exec) /\ m = nd.exec
    BY <1>1, <1>3, <1>4 DEF OnlyRuns
  <1>6. Still(new) \/ nd.stoping
    BY <1>1, <1>3, <1>4, <1>5 DEF DoesOne, Still, Sending
  <1>7. Says(c, new, m)
    <2>1. 123 \in 120..123
      OBVIOUS
    <2> QED
      BY <1>1, <1>6, <2>1, AnswerOps DEF Says, nd
  <1>8. ~nd.stoping => new.exec = nd.exec /\ DoesOne(new, nd.exec)
    BY <1>3, <1>4, <1>6, StillDoesOne
  <1> QED
    BY <1>1, <1>2, <1>3, <1>5, <1>7, <1>8, WorksJoined DEF Connection, nd

\* All output parameters have been sent, or there were none.
LEMMA AllSentJoined ==
    ASSUME ServerTypeOK, WireTypeOK, NEW c \in Client, Joined(c), ~Still(client[c]),
           UNCHANGED toNode, NEW cl \in ClientState, AllOutputParametersSent(c, cl),
           cl.conn = Connection(c), cl.exec = client[c].exec,
           LET nd == nodes[Connection(c)]
           IN  /\ OnlyRuns(cl, nd.exec)
               /\ nd.stoping \/ ((\A x \in Module : cl.run[x] = NoJob) /\ cl.msg = NoMsg)
    PROVE  StillJoined(c)
  <1> DEFINE nd == nodes[Connection(c)]
             cleared == TempCleared(cl, cl.exec)
             new == [cleared EXCEPT !.files = FALSE]
  <1>1. /\ client' = [client EXCEPT ![c] = new]
        /\ Reply(c, Answer(123, cl.exec, 1))
    BY DEF AllOutputParametersSent
  <1>2. /\ cleared.run = cl.run /\ cleared.exec = cl.exec /\ cleared.conn = cl.conn
        /\ cleared.msg = cl.msg /\ cleared \in ClientState
    BY TempClearedOps
  <1> HIDE DEF cleared, nd
  <1>3. /\ new.run = cl.run /\ new.exec = cl.exec /\ new.conn = cl.conn
        /\ ~new.files /\ new.msg = cl.msg
    BY <1>2 DEF ClientState
  <1> HIDE DEF new
  <1>4. ~nd.stoping => cl.exec = nd.exec
    BY WorksFor DEF nd
  <1>5. OnlyRuns(new, nd.exec) /\ (nd.stoping \/ Still(new))
    BY <1>3 DEF OnlyRuns, Still, Sending, nd
  <1>6. Says(c, new, cl.exec)
    <2>1. 123 \in 120..123
      OBVIOUS
    <2> QED
      BY <1>1, <1>5, <2>1, AnswerOps DEF Says, nd
  <1>7. ~nd.stoping => new.exec = nd.exec /\ DoesOne(new, nd.exec)
    BY <1>3, <1>4, <1>5, StillDoesOne
  <1> QED
    BY <1>1, <1>3, <1>4, <1>5, <1>6, <1>7, WorksJoined DEF nd

LEMMA ModuleFinishedJoined ==
    ASSUME ServerTypeOK, WireTypeOK, NEW c \in Client, Joined(c), NEW m \in Module,
           ModuleFinished(c, m)
    PROVE  StillJoined(c)
  <1> DEFINE cl == Exited(client[c], m)
             nd == nodes[Connection(c)]
             files == [cl EXCEPT !.files = TRUE]
             archived == Archived(cl, m, Answer(123, m, 0))
             failed == [archived EXCEPT !.files = FALSE]
  <1>1. /\ client[c] \in ClientState /\ client[c].run[m] # NoJob /\ UNCHANGED toNode
        /\ \/ client' = [client EXCEPT ![c] = Begun(files)] /\ Silent
           \/ client' = [client EXCEPT ![c] = Begun(failed)] /\ Silent
           \/ AllOutputParametersSent(c, cl)
    BY JoinedTypes DEF ModuleFinished, Running
  <1>2. ~Still(client[c])
    BY <1>1 DEF Still
  <1>3. /\ \A x \in Module : cl.run[x] = IF x = m THEN NoJob ELSE client[c].run[x]
        /\ cl.exec = client[c].exec /\ cl.conn = Connection(c)
        /\ cl.files = client[c].files /\ cl.msg = client[c].msg
        /\ cl \in ClientState
    BY <1>1, ExitedOps DEF Connection
  <1>4. /\ OnlyRuns(client[c], nd.exec)
        /\ ~nd.stoping => client[c].exec = nd.exec /\ DoesOne(client[c], nd.exec)
    BY <1>2, WorksFor
  <1> HIDE DEF cl
  <1>5. /\ OnlyRuns(cl, nd.exec) /\ m = nd.exec
        /\ nd.stoping \/ ((\A x \in Module : cl.run[x] = NoJob) /\ cl.msg = NoMsg)
    BY <1>1, <1>3, <1>4 DEF OnlyRuns, DoesOne, Sending
  <1>6. Connection(c) # 0
    BY JoinedTypes DEF Online
  <1>7. CASE AllOutputParametersSent(c, cl)
    BY <1>1, <1>2, <1>3, <1>5, <1>7, AllSentJoined
  <1>8. ASSUME NEW new, client' = [client EXCEPT ![c] = Begun(new)], Silent,
               new.run = cl.run, new.exec = cl.exec, new.conn = cl.conn,
               nd.stoping \/ DoesOne(new, nd.exec)
        PROVE  StillJoined(c)
    <2>1. client' = [client EXCEPT ![c] = new]
      BY <1>3, <1>6, <1>8, BegunOps
    <2>2. Says(c, new, m)
      BY <1>8 DEF Says
    <2>3. OnlyRuns(new, nd.exec)
      BY <1>5, <1>8 DEF OnlyRuns
    <2> QED
      BY <1>1, <1>2, <1>3, <1>4, <1>5, <1>8, <2>1, <2>2, <2>3, WorksJoined
  <1>9. CASE client' = [client EXCEPT ![c] = Begun(files)] /\ Silent
    <2>1. /\ files.run = cl.run /\ files.exec = cl.exec /\ files.conn = cl.conn
          /\ files.msg = cl.msg
      BY <1>3 DEF ClientState
    <2> HIDE DEF files, nd
    <2>2. nd.stoping \/ DoesOne(files, nd.exec)
      BY <1>5, <2>1 DEF DoesOne
    <2> QED
      BY <1>8, <1>9, <2>1, <2>2
  <1>10. CASE client' = [client EXCEPT ![c] = Begun(failed)] /\ Silent
    <2>1. /\ archived.run = cl.run /\ archived.exec = cl.exec /\ archived.conn = cl.conn
          /\ archived.msg \in {cl.msg, Answer(123, m, 0)} /\ DOMAIN archived = DOMAIN cl
      BY <1>3, ArchivedOps
    <2> HIDE DEF archived, nd
    <2>2. /\ failed.run = cl.run /\ failed.exec = cl.exec /\ failed.conn = cl.conn
          /\ failed.msg \in {cl.msg, Answer(123, m, 0)} /\ ~failed.files
      BY <1>3, <2>1 DEF ClientState
    <2> HIDE DEF failed
    <2>3. nd.stoping \/ DoesOne(failed, nd.exec)
      BY <1>5, <2>2, AnswerOps DEF DoesOne
    <2> QED
      BY <1>8, <1>10, <2>2, <2>3
  <1> QED
    BY <1>1, <1>7, <1>9, <1>10

LEMMA OutputParametersSentJoined ==
    ASSUME ServerTypeOK, WireTypeOK, NEW c \in Client, Joined(c), OutputParametersSent(c)
    PROVE  StillJoined(c)
  <1> DEFINE cl == client[c]
             nd == nodes[Connection(c)]
  <1>1. /\ cl.files /\ UNCHANGED toNode /\ AllOutputParametersSent(c, cl)
        /\ cl \in ClientState
    BY JoinedTypes DEF OutputParametersSent
  <1>2. ~Still(cl)
    BY <1>1 DEF Still, Sending
  <1>3. /\ OnlyRuns(cl, nd.exec)
        /\ nd.stoping \/ ((\A x \in Module : cl.run[x] = NoJob) /\ cl.msg = NoMsg)
    BY <1>1, <1>2, WorksFor DEF DoesOne, Sending
  <1> QED
    BY <1>1, <1>2, <1>3, AllSentJoined DEF Connection

LEMMA OutputParameterSendFailedJoined ==
    ASSUME ServerTypeOK, WireTypeOK, NEW c \in Client, Joined(c), OutputParameterSendFailed(c)
    PROVE  StillJoined(c)
  <1> DEFINE cl == client[c]
             nd == nodes[Connection(c)]
             archived == Archived(cl, cl.exec, Answer(123, cl.exec, 0))
             new == [archived EXCEPT !.files = FALSE]
  <1>1. /\ client' = [client EXCEPT ![c] = new]
        /\ cl.files /\ UNCHANGED toNode /\ Silent /\ cl \in ClientState
    BY JoinedTypes DEF OutputParameterSendFailed, netVars, Silent
  <1>2. ~Still(cl)
    BY <1>1 DEF Still, Sending
  <1>3. /\ OnlyRuns(cl, nd.exec)
        /\ ~nd.stoping => cl.exec = nd.exec /\ DoesOne(cl, nd.exec)
    BY <1>2, WorksFor
  <1>4. /\ archived.run = cl.run /\ archived.exec = cl.exec /\ archived.conn = cl.conn
        /\ archived.msg \in {cl.msg, Answer(123, cl.exec, 0)} /\ DOMAIN archived = DOMAIN cl
    BY <1>1, ArchivedOps
  <1> HIDE DEF archived, nd
  <1>5. /\ new.run = cl.run /\ new.exec = cl.exec /\ new.conn = cl.conn
        /\ new.msg \in {cl.msg, Answer(123, cl.exec, 0)} /\ ~new.files
    BY <1>1, <1>4 DEF ClientState
  <1> HIDE DEF new
  <1>6. OnlyRuns(new, nd.exec)
    BY <1>3, <1>5 DEF OnlyRuns
  <1>7. ~nd.stoping => DoesOne(new, nd.exec)
    BY <1>1, <1>3, <1>5, AnswerOps DEF DoesOne, Sending
  <1>8. Says(c, new, cl.exec)
    BY <1>1 DEF Says
  <1> QED
    BY <1>1, <1>2, <1>3, <1>5, <1>6, <1>7, <1>8, WorksJoined DEF Connection, nd

LEMMA ArchiveSentJoined ==
    ASSUME ServerTypeOK, WireTypeOK, NEW c \in Client, Joined(c), ArchiveSent(c)
    PROVE  StillJoined(c)
  <1> DEFINE cl == client[c]
             nd == nodes[Connection(c)]
             new == [cl EXCEPT !.msg = NoMsg]
  <1>1. cl \in ClientState /\ client \in [Client -> ClientState]
    BY JoinedTypes DEF WireTypeOK
  <1>2. /\ client' = [client EXCEPT ![c] = new]
        /\ cl.msg # NoMsg /\ UNCHANGED toNode /\ Reply(c, cl.msg)
    BY <1>1 DEF ArchiveSent
  <1>3. ~Still(cl)
    BY <1>2 DEF Still, Sending
  <1>4. /\ OnlyRuns(cl, nd.exec)
        /\ ~nd.stoping => cl.exec = nd.exec /\ DoesOne(cl, nd.exec)
    BY <1>3, WorksFor
  <1>5. cl.msg.id \in {122, 123}
    BY <1>1, <1>2 DEF ClientState, MessagesWith
  <1>6. /\ new.run = cl.run /\ new.exec = cl.exec /\ new.conn = cl.conn
        /\ new.files = cl.files /\ new.msg = NoMsg
    BY <1>1 DEF ClientState
  <1> HIDE DEF new, nd
  <1>7. OnlyRuns(new, nd.exec)
    BY <1>4, <1>6 DEF OnlyRuns
  <1>8. ~nd.stoping => Still(new) /\ cl.msg.name = nd.exec
    BY <1>2, <1>4, <1>6 DEF DoesOne, Still, Sending
  <1>9. Says(c, new, nd.exec)
    <2>1. cl.msg.id \in 120..123
      BY <1>5
    <2> QED
      BY <1>2, <1>8, <2>1 DEF Says, nd
  <1>10. ~nd.stoping => new.exec = nd.exec /\ DoesOne(new, nd.exec)
    BY <1>4, <1>6, <1>8, StillDoesOne
  <1> QED
    BY <1>2, <1>3, <1>6, <1>7, <1>9, <1>10, WorksJoined DEF Connection, nd

\* Every step of a client that is connected.
LEMMA ClientJoined ==
    ASSUME ServerTypeOK, WireTypeOK, NEW c \in Client, Joined(c), ClientStep(c),
           "stopRace" \notin May, "crash" \notin May
    PROVE  StillJoined(c)
  <1>1. ~ConnectionClosed(c)
    BY DEF ConnectionClosed, Joined
  <1>2. \A m : ~ModuleCrashed(c, m)
    BY DEF ModuleCrashed
  <1>3. ClientStep(c) <=>
           /\ \/ CheckAuthorization(c) \/ PrepareForStartModule(c)
              \/ ReceivedInputParameters(c) \/ ReceivedRequestOnStopModule(c)
              \/ ConnectionClosed(c)
              \/ \E m \in Module : ModuleFinished(c, m)
              \/ \E m \in Module : ModuleCrashed(c, m) \/ ProcessExecutionTimeout(c, m)
              \/ OutputParametersSent(c) \/ ArchiveSent(c)
              \/ OutputParameterSendFailed(c)
           /\ UNCHANGED serverVars
    BY DEF ClientStep, Request, Program, ProgramFails, Transfer
  <1> QED
    BY <1>1, <1>2, <1>3, CheckAuthorizationJoined, PrepareJoined, ReceivedInputParametersJoined,
       StopJoined, ModuleFinishedJoined, TimeoutJoined, OutputParametersSentJoined,
       OutputParameterSendFailedJoined, ArchiveSentJoined

\* A client that is not connected takes no step of its own.
LEMMA OfflineWaits ==
    ASSUME NEW c \in Client, ~Online(c), Still(client[c])
    PROVE  ~ClientStep(c)
  <1>1. /\ ~CheckAuthorization(c) /\ ~PrepareForStartModule(c)
        /\ ~ReceivedInputParameters(c) /\ ~ReceivedRequestOnStopModule(c)
        /\ ~ConnectionClosed(c)
    BY DEF CheckAuthorization, PrepareForStartModule, ReceivedInputParameters,
           ReceivedRequestOnStopModule, ConnectionClosed, Gets
  <1>2. \A m \in Module : ~Running(c, m)
    BY DEF Running, Still
  <1>3. \A m \in Module : /\ ~ModuleFinished(c, m) /\ ~ModuleCrashed(c, m)
                          /\ ~ProcessExecutionTimeout(c, m)
    BY <1>2 DEF ModuleFinished, ModuleCrashed, ProcessExecutionTimeout
  <1>4. ~OutputParametersSent(c) /\ ~ArchiveSent(c) /\ ~OutputParameterSendFailed(c)
    BY DEF OutputParametersSent, ArchiveSent, OutputParameterSendFailed, Transfers
  <1> QED
    BY <1>1, <1>3, <1>4 DEF ClientStep, Request, Program, ProgramFails, Transfer

---------------------------------------------------------------------------
(* Steps of the sockets.                                                   *)

\* The last input file has arrived.
LEMMA InputMeets ==
    ASSUME NEW cl \in ClientState, NEW nd \in Node, NEW out \in Seq(Message), NEW back,
           Meets(cl, nd, FALSE, out, back), nd.sending # NoModule,
           NEW new, new.run = cl.run, new.exec = cl.exec, new.files = cl.files, new.msg = cl.msg
    PROVE  LET sent == [nd EXCEPT !.sending = NoModule]
           IN  /\ Meets(new, sent, FALSE, out, back)
               /\ ~nd.stoping =>
                    \A x : x.id = 121 /\ x.name = nd.exec =>
                        Meets(new, sent, FALSE, Append(out, x), back)
  <1> DEFINE sent == [nd EXCEPT !.sending = NoModule]
  <1>1. /\ sent.busy = nd.busy /\ sent.stoping = nd.stoping /\ sent.exec = nd.exec
        /\ sent.sending = NoModule
    BY DEF Node
  <1> HIDE DEF sent
  <1>2. nd.busy
    BY DEF Meets, Rests
  <1>3. CASE nd.stoping
    <2>1. Still(cl) => Still(new)
      BY DEF Still, Sending
    <2>2. Stops(cl, nd, out, back)
      BY <1>2, <1>3 DEF Meets
    <2>3. Stops(new, sent, out, back)
      BY <1>1, <2>1, <2>2 DEF Stops
    <2>4. Meets(new, sent, FALSE, out, back)
      BY <1>1, <1>2, <1>3, <2>3 DEF Meets
    <2> QED
      BY <1>3, <2>4 DEF sent
  <1>4. CASE ~nd.stoping
    <2>1. Serves(cl, nd, out, back)
      BY <1>2, <1>4 DEF Meets
    <2>2. /\ out = <<>> /\ back = <<>> /\ Still(cl) /\ cl.exec = nd.exec
      BY <2>1 DEF Serves
    <2>3. Still(new) /\ DoesOne(new, nd.exec)
      <3>1. Still(new)
        BY <2>2 DEF Still, Sending
      <3> QED
        BY <3>1, StillDoesOne
    <2>4. Meets(new, sent, FALSE, <<>>, <<>>)
      <3>1. Serves(new, sent, <<>>, <<>>)
        BY <1>1, <2>2, <2>3 DEF Serves
      <3> QED
        BY <1>1, <1>2, <1>4, <3>1 DEF Meets
    <2>5. ASSUME NEW x, x.id = 121, x.name = nd.exec
          PROVE  Meets(new, sent, FALSE, Append(out, x), back)
      <3>1. Append(out, x) = <<x>> /\ Len(<<x>>) = 1 /\ Head(<<x>>) = x
        BY <2>2
      <3>2. Serves(new, sent, <<x>>, <<>>)
        BY <1>1, <2>2, <2>3, <2>5, <3>1 DEF Serves
      <3>3. Meets(new, sent, FALSE, <<x>>, <<>>)
        BY <1>1, <1>2, <1>4, <3>2 DEF Meets
      <3> QED
        BY <2>2, <3>1, <3>3
    <2> QED
      BY <2>2, <2>4, <2>5 DEF sent
  <1> QED
    BY <1>3, <1>4 DEF Node

\* The connection of a client in use.
LEMMA TalksJoined ==
    ASSUME ServerTypeOK, WireTypeOK, TalksInv, NEW c \in Client, Online(c)
    PROVE  /\ Joined(c) /\ Up(Connection(c)) /\ Connection(c) <= conns
           /\ Connection(c) \in Conn
  <1>1. Connection(c) \in Conn
    BY NetAssumption DEF WireTypeOK, ClientState, Connection, Online, Conn
  <1>2. Talks(c, Connection(c))
    BY DEF TalksInv
  <1> QED
    BY <1>1, <1>2 DEF Talks, Joined

\* Where clients keep their connections, each is to be seen on its own.
LEMMA TalksStep ==
    ASSUME WireTypeOK, ServerTypeOK, TalksInv, conns' = conns, link' = link,
           \A c \in Client : client'[c].conn = client[c].conn,
           \A c \in Client : ~Online(c) => client'[c] = client[c],
           \A c \in Client, n \in Conn : Online(c) /\ n = Connection(c) =>
               /\ nodes'[n].state = "up"
               /\ Meets(client'[c], nodes'[n], Freeing(n)', toNode'[n], toServer'[n])
    PROVE  TalksInv'
  <1>1. \A c \in Client : Connection(c)' = Connection(c) /\ (Online(c)' <=> Online(c))
    BY DEF Connection, Online
  <1>2. ASSUME NEW c \in Client, Online(c)
        PROVE  Talks(c, Connection(c))'
    <2> PICK n \in Conn : n = Connection(c)
      BY <1>2, TalksJoined
    <2>1. /\ nodes'[n].state = "up"
          /\ Meets(client'[c], nodes'[n], Freeing(n)', toNode'[n], toServer'[n])
      BY <1>2
    <2>2. n <= conns /\ link[n] = "open"
      BY <1>2 DEF TalksInv, Talks
    <2>3. Talks(c, n)'
      BY <2>1, <2>2 DEF Talks, Up
    <2> QED
      BY <1>1, <2>3
  <1>3. ASSUME NEW c \in Client, ~Online(c)
        PROVE  Still(client'[c])
    BY <1>3 DEF TalksInv
  <1> QED
    BY <1>1, <1>2, <1>3 DEF TalksInv

LEMMA ServerTalks ==
    ASSUME ServerTypeOK, WireTypeOK, JobsSafe, TalksInv, ServerStep,
           "outputLost" \notin May, "rpcDisconnect" \notin May
    PROVE  TalksInv'
  <1>1. \A i \in Conn : StillMeets(i)
    BY ServerMeets
  <1>2. UNCHANGED <<conns, link>>
    BY ZenonT(60) DEF ServerStep, Handler, Queue, User, ReceiveAuthorizationRequest,
       ReceiveModulesListRequest, CheckPrepareForStartModule, CheckInputParametersSending,
       CheckModuleStarting, ModuleExecutionEnded, CheckModuleStoping, NodeDisconnected,
       LateEvent, IgnoreWhileStopping, Hears, Receives, GiveJob, EndScan, StartProcess,
       StopProcess, DisconnectNode, ClearFailedModulesForNodes, ReapNode, serverVars, netVars
  <1>3. client' = client
    BY DEF ServerStep, clientVars
  <1>4. ASSUME NEW c \in Client, NEW n \in Conn, Online(c), n = Connection(c)
        PROVE  /\ nodes'[n].state = "up"
               /\ Meets(client'[c], nodes'[n], Freeing(n)', toNode'[n], toServer'[n])
    <2>1. /\ n \in Conn /\ Up(n) /\ link[n] = "open"
          /\ Meets(client[c], nodes[n], Freeing(n), toNode[n], toServer[n])
      BY <1>4, TalksJoined DEF Joined
    <2>2. client[c] \in ClientState
      BY DEF WireTypeOK
    <2>3. /\ nodes'[n].state = "up"
          /\ Meets(client[c], nodes'[n], Freeing(n)', toNode'[n], toServer'[n])
      BY <1>1, <2>1, <2>2 DEF StillMeets
    <2> QED
      BY <1>3, <2>3
  <1> QED
    BY <1>2, <1>3, <1>4, TalksStep

\* A step of client c leaves the others what they were to their nodes.
LEMMA OneTalks ==
    ASSUME ServerTypeOK, WireTypeOK, TalksInv, NEW c \in Client, Online(c),
           conns' = conns, link' = link,
           \A d \in Client : d # c => client'[d] = client[d],
           client'[c].conn = Connection(c),
           \A i \in Conn : i # Connection(c) =>
               /\ nodes'[i] = nodes[i] /\ (Freeing(i)' <=> Freeing(i))
               /\ toNode'[i] = toNode[i] /\ toServer'[i] = toServer[i],
           \A n \in Conn : n = Connection(c) =>
               /\ nodes'[n].state = "up"
               /\ Meets(client'[c], nodes'[n], Freeing(n)', toNode'[n], toServer'[n])
    PROVE  TalksInv'
  <1>1. ASSUME NEW d \in Client, NEW n \in Conn, Online(d), n = Connection(d), d # c
        PROVE  /\ nodes'[n].state = "up"
               /\ Meets(client'[d], nodes'[n], Freeing(n)', toNode'[n], toServer'[n])
    <2>1. /\ n \in Conn /\ Up(n) /\ n # Connection(c)
          /\ Meets(client[d], nodes[n], Freeing(n), toNode[n], toServer[n])
      BY <1>1, TalksJoined DEF Joined, TalksInv
    <2>2. Meets(client[d], nodes[n], Freeing(n)', toNode[n], toServer[n])
      BY <2>1 DEF Meets
    <2>3. /\ nodes'[n] = nodes[n] /\ toNode'[n] = toNode[n] /\ toServer'[n] = toServer[n]
          /\ client'[d] = client[d]
      BY <1>1, <2>1
    <2> QED
      BY <2>1, <2>2, <2>3 DEF Up
  <1>2. \A d \in Client : client'[d].conn = client[d].conn
    BY DEF Connection
  <1>3. \A d \in Client : ~Online(d) => client'[d] = client[d]
    OBVIOUS
  <1> QED
    BY <1>1, <1>2, <1>3, TalksStep

LEMMA ClientTalks ==
    ASSUME ServerTypeOK, WireTypeOK, TalksInv, NEW c \in Client, ClientStep(c),
           "stopRace" \notin May, "crash" \notin May
    PROVE  TalksInv'
  <1>1. Online(c)
    BY OfflineWaits DEF TalksInv
  <1>2. Joined(c) /\ Up(Connection(c))
    BY <1>1, TalksJoined
  <1>3. StillJoined(c)
    BY <1>2, ClientJoined
  <1>4. UNCHANGED serverVars
    BY DEF ClientStep
  <1>5. link' = link
    BY DEF ClientStep, Request, Program, ProgramFails, Transfer, CheckAuthorization,
       PrepareForStartModule, ReceivedInputParameters, ReceivedRequestOnStopModule,
       ConnectionClosed, ModuleFinished, ModuleCrashed, ProcessExecutionTimeout,
       OutputParametersSent, ArchiveSent, OutputParameterSendFailed, Gets, netVars
  <1>6. \A i : Freeing(i)' <=> Freeing(i)
    BY <1>4 DEF serverVars, Freeing
  <1>7. conns' = conns /\ nodes' = nodes
    BY <1>4 DEF serverVars
  <1>8. ASSUME NEW n \in Conn, n = Connection(c)
        PROVE  /\ nodes'[n].state = "up"
               /\ Meets(client'[c], nodes'[n], Freeing(n)', toNode'[n], toServer'[n])
    <2>1. Up(n) /\ Meets(client'[c], nodes[n], Freeing(n), toNode'[n], toServer'[n])
      BY <1>2, <1>3, <1>8 DEF StillJoined
    <2>2. Meets(client'[c], nodes[n], Freeing(n)', toNode'[n], toServer'[n])
      BY <1>6, <2>1 DEF Meets
    <2> QED
      BY <1>7, <2>1, <2>2 DEF Up
  <1> QED
    BY <1>1, <1>3, <1>5, <1>6, <1>7, <1>8, OneTalks DEF StillJoined

LEMMA InputTalks ==
    ASSUME ServerTypeOK, WireTypeOK, TalksInv, NEW c \in Client, InputTransfer(c)
    PROVE  TalksInv'
  <1>1. PICK n \in Conn : /\ n = Connection(c) /\ link[n] = "open"
                          /\ InputParametersSent(n) /\ ReceivedFiles(c, nodes[n].sending)
    BY DEF InputTransfer
  <1> DEFINE new == client'[c]
             sent == [nodes[n] EXCEPT !.sending = NoModule]
             x == Msg(121, nodes[n].exec, 1, NoJob)
  <1>2. /\ Up(n) /\ nodes[n].sending # NoModule /\ nodes' = [nodes EXCEPT ![n] = sent]
        /\ SendInputParameters(n) /\ \A i : ~Freeing(i) /\ ~Freeing(i)'
        /\ UNCHANGED <<conns, scan, link, toServer>>
    BY <1>1 DEF InputParametersSent, Idle, Freeing
  <1>3. client[c] \in ClientState /\ nodes[n] \in Node /\ toNode[n] \in Seq(Message)
    BY DEF ServerTypeOK, WireTypeOK
  <1>4. /\ new.run = client[c].run /\ new.exec = client[c].exec /\ new.conn = client[c].conn
        /\ new.files = client[c].files /\ new.msg = client[c].msg
        /\ \A d \in Client : d # c => client'[d] = client[d]
    BY <1>1, <1>3 DEF ReceivedFiles, WireTypeOK, ClientState
  <1>5. Online(c)
    BY <1>1 DEF ReceivedFiles
  <1>6. Meets(client[c], nodes[n], FALSE, toNode[n], toServer[n])
    <2>1. Meets(client[c], nodes[n], Freeing(n), toNode[n], toServer[n])
      BY <1>1, <1>5, TalksJoined DEF Joined
    <2> QED
      BY <1>2, <2>1 DEF Meets
  <1>7. /\ nodes'[n] = sent /\ sent.state = "up"
        /\ \A i \in Conn : i # n => nodes'[i] = nodes[i]
    BY <1>2, <1>3 DEF ServerTypeOK, Node, Up
  <1>8. /\ toNode' = toNode \/ (~nodes[n].stoping /\ toNode' = [toNode EXCEPT ![n] = Append(@, x)])
        /\ x.id = 121 /\ x.name = nodes[n].exec
    BY <1>1, <1>2 DEF SendInputParameters, ToNode, Sent, Msg
  <1> HIDE DEF new, sent, x
  <1>9. Meets(new, sent, FALSE, toNode'[n], toServer[n])
    <2>1. /\ Meets(new, sent, FALSE, toNode[n], toServer[n])
          /\ ~nodes[n].stoping =>
                \A a : a.id = 121 /\ a.name = nodes[n].exec =>
                    Meets(new, sent, FALSE, Append(toNode[n], a), toServer[n])
      BY <1>2, <1>3, <1>4, <1>6, InputMeets DEF sent
    <2>2. CASE toNode' = toNode
      BY <2>1, <2>2
    <2>3. CASE ~nodes[n].stoping /\ toNode' = [toNode EXCEPT ![n] = Append(@, x)]
      <3>1. toNode'[n] = Append(toNode[n], x)
        BY <2>3 DEF WireTypeOK
      <3>2. Meets(new, sent, FALSE, Append(toNode[n], x), toServer[n])
        BY <1>8, <2>1, <2>3
      <3> QED
        BY <3>1, <3>2
    <2> QED
      BY <1>8, <2>2, <2>3
  <1>10. Meets(new, nodes'[n], Freeing(n)', toNode'[n], toServer'[n])
    <2>1. Meets(new, sent, Freeing(n)', toNode'[n], toServer[n])
      BY <1>2, <1>9 DEF Meets
    <2> QED
      BY <1>2, <1>7, <2>1
  <1>11. \A i \in Conn : i # n => toNode'[i] = toNode[i]
    BY <1>8 DEF WireTypeOK
  <1> QED
    BY <1>1, <1>2, <1>4, <1>5, <1>7, <1>10, <1>11, OneTalks DEF Connection, new

\* A new connection is to no other client.
LEMMA ConnectTalks ==
    ASSUME ServerTypeOK, WireTypeOK, JobsSafe, TalksInv,
           NEW c \in Client, NEW n \in Conn, Connect(c, n)
    PROVE  TalksInv'
  <1> DEFINE x == Answer(100, NoModule, 1)
  <1>1. /\ ~Online(c) /\ n = conns + 1 /\ conns' = n /\ \A i : ~Freeing(i) /\ ~Freeing(i)'
        /\ nodes' = [nodes EXCEPT ![n] = NewNode("up")]
        /\ link' = [link EXCEPT ![n] = "open"]
        /\ toServer' = [toServer EXCEPT ![n] = <<x>>] /\ toNode' = toNode
        /\ client' = [client EXCEPT ![c].conn = n]
    BY DEF Connect, IncomingConnection, Connected, Idle, Freeing
  <1>2. toNode'[n] = <<>>
    BY <1>1 DEF JobsSafe, Unused, ServerTypeOK
  <1>3. /\ client'[c].conn = n /\ client'[c].run = client[c].run
        /\ client'[c].files = client[c].files /\ client'[c].msg = client[c].msg
        /\ \A d \in Client : d # c => client'[d] = client[d]
    BY <1>1 DEF WireTypeOK, ClientState
  <1>4. Still(client'[c])
    BY <1>1, <1>3 DEF TalksInv, Still, Sending
  <1>5. /\ nodes'[n] = NewNode("up") /\ toServer'[n] = <<x>> /\ link'[n] = "open"
        /\ \A i \in Conn : i # n => /\ nodes'[i] = nodes[i] /\ link'[i] = link[i]
                                    /\ toServer'[i] = toServer[i]
    BY <1>1 DEF ServerTypeOK, WireTypeOK
  <1>6. Meets(client'[c], NewNode("up"), FALSE, <<>>, <<x>>)
    <2>1. Len(<<x>>) = 1 /\ Head(<<x>>) = x /\ x.id = 100
      BY AnswerOps
    <2> HIDE DEF x
    <2>2. Rests(client'[c], NewNode("up"), <<>>, <<x>>)
      BY <1>4, <2>1 DEF Rests, Greets, NewNode
    <2> QED
      BY <2>2 DEF Meets, NewNode
  <1>7. Talks(c, n)'
    <2>1. Meets(client'[c], nodes'[n], Freeing(n)', toNode'[n], toServer'[n])
      <3>1. Meets(client'[c], NewNode("up"), Freeing(n)', <<>>, <<x>>)
        BY <1>1, <1>6 DEF Meets
      <3> QED
        BY <1>2, <1>5, <3>1
    <2>2. nodes'[n].state = "up"
      BY <1>5 DEF NewNode
    <2>3. n <= conns'
      BY <1>1 DEF Conn
    <2> QED
      BY <1>5, <2>1, <2>2, <2>3 DEF Talks, Up
  <1>8. ASSUME NEW d \in Client, NEW i \in Conn, Online(d), i = Connection(d)
        PROVE  i # n /\ Talks(d, i)'
    <2>1. /\ Up(i) /\ i <= conns /\ link[i] = "open"
          /\ Meets(client[d], nodes[i], Freeing(i), toNode[i], toServer[i])
      BY <1>8, TalksJoined DEF Joined
    <2>2. i # n /\ i <= conns' /\ d # c
      BY <1>1, <1>8, <2>1 DEF ServerTypeOK, Conn
    <2>3. Meets(client[d], nodes[i], Freeing(i)', toNode[i], toServer[i])
      BY <1>1, <2>1 DEF Meets
    <2>4. Meets(client'[d], nodes'[i], Freeing(i)', toNode'[i], toServer'[i])
      BY <1>1, <1>3, <1>5, <2>2, <2>3
    <2> QED
      BY <1>5, <2>1, <2>2, <2>4 DEF Talks, Up
  <1>9. ASSUME NEW d \in Client
        PROVE  /\ d = c => Connection(d)' = n /\ Online(d)'
               /\ d # c => Connection(d)' = Connection(d) /\ (Online(d)' <=> Online(d))
    BY <1>3, NetAssumption DEF Connection, Online, Conn
  <1>10. ASSUME NEW d \in Client
         PROVE  IF Online(d)' THEN Talks(d, Connection(d))' ELSE Still(client'[d])
    <2>1. CASE d = c
      <3>1. Talks(d, n)' /\ Connection(d)' = n /\ Online(d)'
        BY <1>7, <1>9, <2>1
      <3> QED
        BY <3>1 DEF Talks
    <2>2. CASE d # c /\ Online(d)
      <3> PICK i \in Conn : i = Connection(d)
        BY <2>2, TalksJoined
      <3>1. Talks(d, i)' /\ Connection(d)' = i /\ Online(d)'
        BY <1>8, <1>9, <2>2
      <3> QED
        BY <3>1 DEF Talks
    <2>3. CASE d # c /\ ~Online(d)
      BY <1>3, <1>9, <2>3 DEF TalksInv
    <2> QED
      BY <2>1, <2>2, <2>3
  <1>11. ASSUME NEW d \in Client, NEW e \in Client, Online(d)', Connection(d)' = Connection(e)'
         PROVE  d = e
    <2>1. \A b \in Client : Online(b) => Connection(b) \in Conn /\ Connection(b) # n
      BY <1>8, TalksJoined
    <2>2. Online(e)'
      BY <1>11 DEF Online
    <2> QED
      BY <1>9, <1>11, <2>1, <2>2 DEF TalksInv
  <1> QED
    BY <1>10, <1>11 DEF TalksInv

---------------------------------------------------------------------------
(* Clients and their nodes take turns.                                     *)

LEMMA NextTalks ==
    ASSUME "outputLost" \notin May, "inputSendFail" \notin May, "break" \notin May,
           "rpcDisconnect" \notin May, "stopRace" \notin May, "crash" \notin May,
           TypeOK, JobsInv, TalksInv, [Next]_vars
    PROVE  TalksInv'
  <1>1. ServerTypeOK /\ WireTypeOK
    BY DEF TypeOK
  <1>2. CASE ServerStep
    <2>1. fault = "none"
      BY <1>2, ZenonT(60) DEF ServerStep, Handler, Queue, User, ReceiveAuthorizationRequest,
         ReceiveModulesListRequest, CheckPrepareForStartModule, CheckInputParametersSending,
         CheckModuleStarting, ModuleExecutionEnded, CheckModuleStoping, NodeDisconnected,
         LateEvent, IgnoreWhileStopping, Hears, Receives, GiveJob, EndScan, StartProcess,
         StopProcess, DisconnectNode, ClearFailedModulesForNodes, ReapNode, Idle
    <2> QED
      BY <1>1, <1>2, <2>1, ServerTalks DEF JobsInv
  <1>3. CASE \E c \in Client : ClientStep(c)
    BY <1>1, <1>3, ClientTalks
  <1>4. CASE \E c \in Client : InputTransfer(c) \/ InputTransferFails(c)
    BY <1>1, <1>4, InputTalks DEF InputTransferFails, InputParameterSendFailed
  <1>5. CASE \E c \in Client, n \in Conn : Connect(c, n)
    <2>1. fault = "none"
      BY <1>5 DEF Connect, IncomingConnection, Idle
    <2> QED
      BY <1>1, <1>5, <2>1, ConnectTalks DEF JobsInv
  <1>6. CASE UNCHANGED vars
    <2>1. UNCHANGED <<client, nodes, conns, link, toNode, toServer, scan>>
      BY <1>6 DEF vars, serverVars, clientVars, netVars
    <2> QED
      BY <2>1 DEF TalksInv, Talks, Online, Connection, Up, Freeing
  <1> QED
    BY <1>2, <1>3, <1>4, <1>5, <1>6 DEF Next, Break

\* A client and its node take turns (TalksInv), as long as no connection is
\* lost, no file is refused or lost, a program that fails reports once, and a
\* stop request finds no transfer that completes.
THEOREM ClientsTakeTurns ==
    ASSUME "outputLost" \notin May, "inputSendFail" \notin May, "break" \notin May,
           "rpcDisconnect" \notin May, "stopRace" \notin May, "crash" \notin May
    PROVE  Spec => []TalksInv
  <1>1. Init => TalksInv
    BY DEF Init, ClientInit, NewClient, TalksInv, Online, Connection, Still, Sending
  <1>2. TypeOK /\ JobsInv /\ TalksInv /\ [Next]_vars => TalksInv'
    BY NextTalks
  <1> QED
    BY <1>1, <1>2, TypeCorrect, JobsStaySafe, PTL DEF Spec

\* A client runs one program at a time (startModule, receivedRequestOnStopModule):
\* a node is given its next job only after the client's last program has ended
\* or was killed.
THEOREM ClientsRunOneProgram ==
    ASSUME "outputLost" \notin May, "inputSendFail" \notin May, "break" \notin May,
           "rpcDisconnect" \notin May, "stopRace" \notin May, "crash" \notin May
    PROVE  Spec => []OneProgramPerClient
  <1>1. TalksInv => OneProgramPerClient
    <2> SUFFICES ASSUME TalksInv, NEW c \in Client
                 PROVE  \E m : OnlyRuns(client[c], m)
      BY DEF OneProgramPerClient, Running, OnlyRuns
    <2>1. CASE ~Online(c)
      BY <2>1 DEF TalksInv, Still, OnlyRuns
    <2>2. CASE Online(c)
      <3> PICK n : n = Connection(c)
        OBVIOUS
      <3>1. Meets(client[c], nodes[n], Freeing(n), toNode[n], toServer[n])
        BY <2>2 DEF TalksInv, Talks
      <3>2. OnlyRuns(client[c], nodes[n].exec)
        BY <3>1 DEF Meets, Rests, Serves, Stops, Still, DoesOne, OnlyRuns
      <3> QED
        BY <3>2
    <2> QED
      BY <2>1, <2>2
  <1> QED
    BY <1>1, ClientsTakeTurns, PTL

---------------------------------------------------------------------------
(* Jobs are carried.  What a server step leaves of a process.              *)

SameStage(new, old) ==
    Started(new) = {} \/ (new.name = old.name /\ new.stage = old.stage)

\* No slot is started that was not, and none that waits is given a node.
Goes(new, old) ==
    Fewer(new, old) /\ SameStage(new, old) /\ (Nowhere(old) => Nowhere(new))

LEMMA GoesTransitive ==
    ASSUME NEW p1, NEW p2, NEW p3, Goes(p1, p2), Goes(p2, p3)
    PROVE  Goes(p1, p3)
  <1>1. Fewer(p1, p3)
    BY FewerTransitive DEF Goes
  <1>2. Started(p2) = {} => Started(p1) = {}
    BY DEF Goes, Fewer
  <1> QED
    BY <1>1, <1>2 DEF Goes, SameStage

LEMMA WithSlotsGoes ==
    ASSUME NEW pr, NEW new, Fewer(WithSlots(pr, new), pr),
           \A x \in DOMAIN new : new[x].status = "wait" => new[x].node = NoNode
    PROVE  Goes(WithSlots(pr, new), pr)
  <1>1. SameStage(WithSlots(pr, new), pr)
    BY DEF SameStage, WithSlots
  <1>2. Nowhere(pr) => Nowhere(WithSlots(pr, new))
    BY DEF Nowhere, WithSlots
  <1> QED
    BY <1>1, <1>2 DEF Goes

LEMMA EnterStageWaits ==
    ASSUME NEW s, NEW k
    PROVE  Started(EnterStage(s, k)) = {} /\ Nowhere(EnterStage(s, k))
  <1>1. Nowhere(EnterStage(s, k))
    BY DEF Nowhere, EnterStage, FreshSlot
  <1> QED
    BY <1>1, EnterStageStartsNone

LEMMA SettleGoes ==
    ASSUME NEW pr
    PROVE  Goes(Settle(pr), pr)
  <1>1. Fewer(Settle(pr), pr)
    BY FewerSettled
  <1>2. CASE Settle(pr) = pr
    BY <1>1, <1>2 DEF Goes, SameStage
  <1>3. CASE Settle(pr) = EnterStage(pr.name, pr.stage + 1)
    <2> HIDE DEF EnterStage
    <2> QED
      BY <1>1, <1>3, EnterStageWaits DEF Goes, SameStage
  <1> QED
    BY <1>2, <1>3 DEF Settle

LEMMA GoesOps ==
    ASSUME NEW pr, NEW n, NEW m, NEW X, NEW k
    PROVE  /\ Goes(pr, pr)
           /\ Goes(ClearJob(pr, n), pr)
           /\ \A st \in Ended : Goes(FinishJob(pr, n, m, st), pr)
           /\ Goes(StopSlots(pr, X), pr)
           /\ Goes(WentTo(pr, k), pr)
  <1>1. Goes(pr, pr)
    BY FewerOps DEF Goes, SameStage
  <1>2. Goes(ClearJob(pr, n), pr)
    <2>1. Fewer(ClearJob(pr, n), pr)
      BY FewerOps
    <2> QED
      BY <2>1, WithSlotsGoes DEF ClearJob
  <1>3. ASSUME NEW st \in Ended
        PROVE  Goes(FinishJob(pr, n, m, st), pr)
    <2>1. Fewer(FinishJob(pr, n, m, st), pr)
      BY FewerOps
    <2>2. st # "wait"
      BY DEF Ended
    <2> QED
      BY <2>1, <2>2, WithSlotsGoes DEF FinishJob
  <1>4. Goes(StopSlots(pr, X), pr)
    <2>1. Fewer(StopSlots(pr, X), pr)
      BY FewerOps
    <2> QED
      BY <2>1, WithSlotsGoes DEF StopSlots
  <1>5. Goes(WentTo(pr, k), pr)
    <2>1. CASE k = 0
      BY <1>1, <2>1 DEF WentTo
    <2>2. CASE k # 0
      <3>1. WentTo(pr, k) = Settle(EnterStage(pr.name, k))
        BY <2>2 DEF WentTo
      <3>2. Goes(Settle(EnterStage(pr.name, k)), EnterStage(pr.name, k))
        BY SettleGoes
      <3>3. Goes(EnterStage(pr.name, k), pr)
        <4> HIDE DEF EnterStage
        <4> QED
          BY EnterStageWaits DEF Goes, SameStage, Fewer
      <3> QED
        BY <3>1, <3>2, <3>3, GoesTransitive
    <2> QED
      BY <2>1, <2>2
  <1> QED
    BY <1>1, <1>2, <1>3, <1>4, <1>5

\* No process of the new state has started a slot in this step.
StartsNone ==
    \A p \in DOMAIN procs' :
        \/ p \in DOMAIN procs /\ Goes(procs'[p], procs[p])
        \/ Started(procs'[p]) = {} /\ Nowhere(procs'[p])

LEMMA SameStarts ==
    ASSUME procs' = procs \/ \E p : procs' = Without(p)
    PROVE  StartsNone
  BY GoesOps DEF StartsNone, Without

LEMMA OneGoes ==
    ASSUME NEW p, NEW pr, procs' = [procs EXCEPT ![p] = pr], Goes(pr, procs[p])
    PROVE  StartsNone
  BY GoesOps DEF StartsNone

\* What a job's end, a failure or a stop leaves of the processes.
LEMMA EndJobStarts ==
    ASSUME NEW n, NEW m, NEW st \in Ended, NEW fb, EndJob(n, m, st, fb)
    PROVE  StartsNone
  <1> DEFINE p == nodes[n].pid
             pr == procs[p]
             ended == FinishJob(pr, n, m, st)
  <1>1. PICK X, k : LET next == WentTo(StopSlots(ended, X), k)
                    IN  procs' = Without(p) \/ procs' = [procs EXCEPT ![p] = Settle(next)]
    BY ZenonT(40) DEF EndJob
  <1>2. /\ Goes(ended, pr)
        /\ Goes(StopSlots(ended, X), ended)
        /\ Goes(WentTo(StopSlots(ended, X), k), StopSlots(ended, X))
        /\ Goes(Settle(WentTo(StopSlots(ended, X), k)), WentTo(StopSlots(ended, X), k))
    BY GoesOps, SettleGoes
  <1> HIDE DEF ended, p, pr
  <1>3. Goes(Settle(WentTo(StopSlots(ended, X), k)), pr)
    BY <1>2, GoesTransitive
  <1> QED
    BY <1>1, <1>3, SameStarts, OneGoes DEF p, pr

\* A channel to a client grows, and not by a job; one to the server shrinks.
Adds(new, old) ==
    /\ \A i \in DOMAIN old : i \in DOMAIN new /\ new[i] = old[i]
    /\ \A i \in DOMAIN new : new[i].id = 120 => i \in DOMAIN old

Loses(new, old) == \A i \in DOMAIN new : \E j \in DOMAIN old : new[i] = old[j]

LEMMA ChannelAdds ==
    ASSUME NEW s \in Seq(Message)
    PROVE  /\ Adds(s, s) /\ Loses(s, s) /\ Loses(<<>>, s)
           /\ \A a : a.id # 120 => Adds(Append(s, a), s)
           /\ \A t \in Seq(Message) :
                 (\A k \in DOMAIN t : t[k].id # 120) => Adds(s \o t, s)
           /\ s # <<>> => Loses(Tail(s), s)
  <1>1. ASSUME NEW a, a.id # 120
        PROVE  Adds(Append(s, a), s)
    BY <1>1, SendOps DEF Adds
  <1>2. s # <<>> => Loses(Tail(s), s)
    BY ReadOps DEF Loses
  <1>3. ASSUME NEW t \in Seq(Message), \A k \in DOMAIN t : t[k].id # 120
        PROVE  Adds(s \o t, s)
    <2> DEFINE new == s \o t
    <2>1. /\ DOMAIN s = 1..Len(s) /\ DOMAIN t = 1..Len(t) /\ DOMAIN new = 1..(Len(s) + Len(t))
          /\ Len(s) \in Nat /\ Len(t) \in Nat
          /\ \A i \in 1..(Len(s) + Len(t)) :
                new[i] = IF i <= Len(s) THEN s[i] ELSE t[i - Len(s)]
      OBVIOUS
    <2>2. ASSUME NEW i \in DOMAIN new, i \notin DOMAIN s
          PROVE  new[i].id # 120
      <3>1. i - Len(s) \in DOMAIN t /\ new[i] = t[i - Len(s)]
        BY <2>1, <2>2
      <3> QED
        BY <1>3, <3>1
    <2>3. \A i \in DOMAIN s : i \in DOMAIN new /\ new[i] = s[i]
      BY <2>1
    <2> HIDE DEF new
    <2>4. Adds(new, s)
      BY <2>2, <2>3 DEF Adds
    <2> QED
      BY <2>4 DEF new
  <1> QED
    BY <1>1, <1>2, <1>3 DEF Adds, Loses

\* The server sends no job.
Quietly == \A i \in Conn : Adds(toNode'[i], toNode[i]) /\ Loses(toServer'[i], toServer[i])

LEMMA SendsAdds ==
    ASSUME WireTypeOK, NEW i \in Conn
    PROVE  /\ UNCHANGED toNode => Adds(toNode'[i], toNode[i])
           /\ UNCHANGED toServer => Loses(toServer'[i], toServer[i])
           /\ \A n, a : ToNode(n, a) /\ a.id # 120 => Adds(toNode'[i], toNode[i])
           /\ \A n : SendInputParameters(n) => Adds(toNode'[i], toNode[i])
           /\ \A orders : OrdersTyped(orders) /\ toNode' = Stopping(toNode, orders) =>
                 Adds(toNode'[i], toNode[i])
           /\ \A n, id : Receives(n, id) => Loses(toServer'[i], toServer[i])
  <1>1. toNode \in [Conn -> Seq(Message)] /\ toServer \in [Conn -> Seq(Message)]
    BY DEF WireTypeOK
  <1>2. toNode[i] \in Seq(Message) /\ toServer[i] \in Seq(Message)
    BY <1>1
  <1>3. ASSUME NEW n, NEW a, ToNode(n, a), a.id # 120
        PROVE  Adds(toNode'[i], toNode[i])
    <2>1. toNode'[i] = toNode[i] \/ toNode'[i] = Append(toNode[i], a)
      BY <1>1, <1>3 DEF ToNode, Sent
    <2> QED
      BY <1>2, <1>3, <2>1, ChannelAdds
  <1>4. ASSUME NEW n, SendInputParameters(n)
        PROVE  Adds(toNode'[i], toNode[i])
    <2> DEFINE a == Msg(121, nodes[n].exec, 1, NoJob)
    <2>1. a.id # 120
      BY DEF Msg
    <2>2. toNode' = toNode \/ ToNode(n, a)
      BY <1>4 DEF SendInputParameters
    <2> HIDE DEF a
    <2> QED
      BY <1>2, <1>3, <2>1, <2>2, ChannelAdds
  <1>5. ASSUME NEW orders, OrdersTyped(orders), toNode' = Stopping(toNode, orders)
        PROVE  Adds(toNode'[i], toNode[i])
    <2> DEFINE t == StopRequests(orders, i)
    <2>1. t \in Seq(Message) /\ \A k \in DOMAIN t : t[k].id # 120
      <3>1. t \in Seq(Message) /\ \A k \in DOMAIN t : t[k].id = 124
        BY <1>5, StopRequestsTyped
      <3> HIDE DEF t
      <3> QED
        BY <3>1
    <2>2. toNode'[i] = toNode[i] \/ toNode'[i] = toNode[i] \o t
      BY <1>5 DEF Stopping
    <2> HIDE DEF t
    <2> QED
      BY <1>2, <2>1, <2>2, ChannelAdds
  <1>6. ASSUME NEW n, NEW id, Receives(n, id)
        PROVE  Loses(toServer'[i], toServer[i])
    <2>1. toServer'[i] = toServer[i] \/ (toServer[i] # <<>> /\ toServer'[i] = Tail(toServer[i]))
      BY <1>1, <1>6 DEF Receives
    <2> QED
      BY <1>2, <2>1, ChannelAdds
  <1> QED
    BY <1>2, <1>3, <1>4, <1>5, <1>6, ChannelAdds

\* A step of the server other than giving a job.
LEMMA HandlerStarts ==
    ASSUME ServerTypeOK, WireTypeOK, NEW n \in Conn, Handler(n)
    PROVE  StartsNone /\ Quietly
  <1>1. ASSUME NEW id, Receives(n, id),
               Ignore \/ (\E m : GiveUpJob(n, m)) \/ (procs' = procs /\ toNode' = toNode)
        PROVE  StartsNone /\ Quietly
    <2>1. Quietly
      BY <1>1, SendsAdds DEF Quietly, Ignore, GiveUpJob
    <2>2. CASE procs' = procs
      BY <2>1, <2>2, SameStarts
    <2>3. CASE \E m : GiveUpJob(n, m)
      <3>1. procs' = [procs EXCEPT ![nodes[n].pid] = ClearJob(procs[nodes[n].pid], n)]
        BY <2>3 DEF GiveUpJob
      <3> QED
        BY <2>1, <3>1, OneGoes, GoesOps
    <2> QED
      BY <1>1, <2>2, <2>3 DEF Ignore
  <1>2. ASSUME NEW id, Receives(n, id), NEW m, NEW st \in Ended, NEW fb \in BOOLEAN,
               Live(nodes[n].pid), EndJob(n, m, st, fb)
        PROVE  StartsNone /\ Quietly
    <2>1. \E orders : OrdersTyped(orders) /\ toNode' = Stopping(toNode, orders)
      BY <1>2, EndJobOrders
    <2> QED
      BY <1>2, <2>1, EndJobStarts, SendsAdds DEF Quietly
  <1>3. "done" \in Ended /\ "stoped" \in Ended
    BY DEF Ended
  <1>4. CASE IgnoreWhileStopping(n)
    BY <1>1, <1>4 DEF IgnoreWhileStopping
  <1>5. CASE ReceiveAuthorizationRequest(n)
    <2> DEFINE a == Msg(100, NoModule, 1, NoJob)
    <2>1. Receives(n, 100) /\ ToNode(n, a) /\ procs' = procs /\ a.id # 120
      BY <1>5 DEF ReceiveAuthorizationRequest, Hears, Msg
    <2> HIDE DEF a
    <2> QED
      BY <2>1, SameStarts, SendsAdds DEF Quietly
  <1>6. CASE ReceiveModulesListRequest(n)
    BY <1>1, <1>6 DEF ReceiveModulesListRequest, Hears
  <1>7. CASE CheckPrepareForStartModule(n)
    <2>1. Receives(n, 120)
      BY <1>7 DEF CheckPrepareForStartModule, Hears
    <2>2. CASE Ignore \/ \E m : GiveUpJob(n, m)
      BY <1>1, <2>1, <2>2
    <2>3. CASE procs' = procs /\ (UNCHANGED toNode \/ SendInputParameters(n))
      BY <2>1, <2>3, SameStarts, SendsAdds DEF Quietly
    <2> QED
      BY <1>7, <2>2, <2>3 DEF CheckPrepareForStartModule
  <1>8. CASE CheckInputParametersSending(n)
    BY <1>1, <1>8 DEF CheckInputParametersSending, Hears
  <1>9. CASE CheckModuleStarting(n)
    BY <1>1, <1>9 DEF CheckModuleStarting, Hears
  <1>10. CASE ModuleExecutionEnded(n)
    BY <1>1, <1>2, <1>3, <1>10 DEF ModuleExecutionEnded, Hears, OutputNotDefined
  <1>11. CASE CheckModuleStoping(n)
    BY <1>1, <1>2, <1>3, <1>11 DEF CheckModuleStoping
  <1>12. CASE NodeDisconnected(n)
    <2>1. procs' = Forgotten(n) /\ toNode' = toNode /\ toServer[n] # <<>>
          /\ toServer' = [toServer EXCEPT ![n] = Tail(@)]
      BY <1>12 DEF NodeDisconnected
    <2>2. StartsNone
      BY <2>1, GoesOps DEF StartsNone, Forgotten
    <2>3. \A i \in Conn : toServer'[i] = toServer[i] \/ (toServer[i] # <<>> /\ toServer'[i] = Tail(toServer[i]))
      BY <2>1 DEF WireTypeOK
    <2> QED
      BY <2>1, <2>2, <2>3, ChannelAdds DEF Quietly, WireTypeOK
  <1>13. CASE LateEvent(n)
    <2>1. procs' = procs /\ toNode' = toNode /\ toServer[n] # <<>>
          /\ toServer' = [toServer EXCEPT ![n] = Tail(@)]
      BY <1>13 DEF LateEvent
    <2>2. \A i \in Conn : toServer'[i] = toServer[i] \/ (toServer[i] # <<>> /\ toServer'[i] = Tail(toServer[i]))
      BY <2>1 DEF WireTypeOK
    <2> QED
      BY <2>1, <2>2, SameStarts, ChannelAdds DEF Quietly, WireTypeOK
  <1> QED
    BY <1>4, <1>5, <1>6, <1>7, <1>8, <1>9, <1>10, <1>11, <1>12, <1>13 DEF Handler

LEMMA ServerStarts ==
    ASSUME ServerTypeOK, WireTypeOK, "rpcDisconnect" \notin May, ServerStep
    PROVE  GiveJob \/ (StartsNone /\ Quietly)
  <1>1. CASE EndScan
    BY <1>1, SameStarts, SendsAdds DEF EndScan, netVars, Quietly
  <1>2. ASSUME NEW s, StartProcess(s)
        PROVE  StartsNone /\ Quietly
    <2>1. Quietly
      BY <1>2, SendsAdds DEF StartProcess, netVars, Quietly
    <2>2. CASE procs' = procs
      BY <2>1, <2>2, SameStarts
    <2>3. CASE procs' = [p \in DOMAIN procs \union {started + 1} |->
                            IF p \in DOMAIN procs THEN procs[p] ELSE Settle(EnterStage(s, 1))]
      <3>1. Goes(Settle(EnterStage(s, 1)), EnterStage(s, 1))
        BY SettleGoes
      <3>2. Started(Settle(EnterStage(s, 1))) = {} /\ Nowhere(Settle(EnterStage(s, 1)))
        <4> HIDE DEF EnterStage, Settle
        <4> QED
          BY <3>1, EnterStageWaits DEF Goes, Fewer
      <3> HIDE DEF EnterStage, Settle
      <3> QED
        BY <2>1, <2>3, <3>2, GoesOps DEF StartsNone
    <2> QED
      BY <1>2, <2>2, <2>3 DEF StartProcess
  <1>3. ASSUME NEW p, StopProcess(p)
        PROVE  StartsNone /\ Quietly
    <2>1. toNode' = Stopping(toNode, FreeOrders(procs[p])) /\ UNCHANGED toServer
          /\ procs' = Without(p) /\ p \in DOMAIN procs
      BY <1>3 DEF StopProcess, Live
    <2>2. OrdersTyped(FreeOrders(procs[p]))
      BY <2>1, OrdersNameModules, OrdersOfSlots DEF ServerTypeOK
    <2> QED
      BY <2>1, <2>2, SameStarts, SendsAdds DEF Quietly
  <1>4. CASE ClearFailedModulesForNodes
    BY <1>4, SameStarts, SendsAdds DEF ClearFailedModulesForNodes, netVars, Quietly
  <1>5. ASSUME NEW n \in Conn, ReapNode(n)
        PROVE  StartsNone /\ Quietly
    <2>1. /\ procs' = procs /\ toNode' = toNode /\ toServer' = [toServer EXCEPT ![n] = <<>>]
      BY <1>5 DEF ReapNode, serverVars
    <2>2. \A i \in Conn : toServer'[i] \in {toServer[i], <<>>}
      BY <2>1 DEF WireTypeOK
    <2> QED
      BY <2>1, <2>2, SameStarts, ChannelAdds DEF Quietly, WireTypeOK
  <1> QED
    BY <1>1, <1>2, <1>3, <1>4, <1>5, HandlerStarts DEF ServerStep, Queue, User, DisconnectNode

LEMMA CarriesOn ==
    ASSUME NEW cl, NEW out, NEW back, NEW done, NEW m, NEW j, Carries(cl, out, back, done, m, j),
           NEW more, NEW rest, Adds(more, out), Loses(rest, back)
    PROVE  Carries(cl, more, rest, done, m, j)
  BY DEF Carries, Adds, Loses

\* A slot that is started and was before is the same job on the same node.
LEMMA StaysStarted ==
    ASSUME StartsNone, JobsPlaced, JobsPlaced', NEW n \in Conn, NEW p \in DOMAIN procs',
           NEW x \in StartedOn(procs'[p], n)
    PROVE  /\ p \in DOMAIN procs /\ x \in StartedOn(procs[p], n)
           /\ Job(p, procs'[p], x) = Job(p, procs[p], x)
           /\ nodes'[n].exec = nodes[n].exec
  <1>1. x \in Started(procs'[p]) /\ procs'[p].slots[x].node = n
    BY DEF StartedOn, Started
  <1>2. p \in DOMAIN procs /\ Goes(procs'[p], procs[p])
    BY <1>1 DEF StartsNone
  <1>3. /\ x \in Started(procs[p]) /\ procs[p].slots[x].node = n
        /\ SlotName(procs'[p], x) = SlotName(procs[p], x)
        /\ procs'[p].stage = procs[p].stage
    BY <1>1, <1>2 DEF Goes, Fewer, SameStage
  <1>4. nodes[n].exec = SlotName(procs[p], x)
    BY <1>2, <1>3 DEF JobsPlaced, Placed
  <1>5. nodes'[n].exec = SlotName(procs'[p], x)
    BY <1>1 DEF JobsPlaced, Placed
  <1> QED
    BY <1>2, <1>3, <1>4, <1>5 DEF StartedOn, Started, Job

LEMMA QuietCarries ==
    ASSUME JobsPlaced, JobsPlaced', JobsCarried, StartsNone, Quietly, UNCHANGED clientVars
    PROVE  JobsCarried'
  <1> SUFFICES ASSUME NEW c \in Client, NEW n \in Conn, Connection(c) = n,
                      NEW p \in DOMAIN procs', NEW x \in StartedOn(procs'[p], n)
               PROVE  Carries(client[c], toNode'[n], toServer'[n], ran, nodes'[n].exec,
                              Job(p, procs'[p], x))
    BY DEF JobsCarried, Connection, clientVars
  <1>1. /\ p \in DOMAIN procs /\ x \in StartedOn(procs[p], n)
        /\ Job(p, procs'[p], x) = Job(p, procs[p], x)
        /\ nodes'[n].exec = nodes[n].exec
    BY StaysStarted
  <1>2. Carries(client[c], toNode[n], toServer[n], ran, nodes[n].exec, Job(p, procs[p], x))
    BY <1>1 DEF JobsCarried
  <1> QED
    BY <1>1, <1>2, CarriesOn DEF Quietly

\* The job that is given is the only one on its way to its client.
LEMMA GiveJobCarries ==
    ASSUME ServerTypeOK, WireTypeOK, JobsSafe, JobsPlaced', TalksInv, JobsCarried,
           \A p \in DOMAIN procs : Nowhere(procs[p]),
           GiveJob, fault' = "none", UNCHANGED clientVars
    PROVE  JobsCarried' /\ \A p \in DOMAIN procs' : Nowhere(procs'[p])
  <1>1. PICK o \in Offers :
          LET p == o[1]
              n == o[2]
              pr == Settle(procs[p])
          IN  \/ /\ procs' = [procs EXCEPT ![p] = pr]
                 /\ UNCHANGED toNode
              \/ \E x \in Offered(pr, Able(nodes[n])) :
                    /\ procs' = [procs EXCEPT ![p] = StartSlot(pr, x, n)]
                    /\ nodes' = [nodes EXCEPT ![n] = Assigned(@, p, pr, x)]
                    /\ ToNode(n, Msg(120, SlotName(pr, x), 1, Job(p, pr, x)))
    BY DEF GiveJob, Halted
  <1> DEFINE p == o[1]
             n == o[2]
             pr == Settle(procs[p])
  <1>2. n \in Conn /\ Up(n) /\ ~nodes[n].busy /\ p \in DOMAIN procs
    BY DEF Offers, FreeNodes
  <1>3. toServer' = toServer
    BY DEF GiveJob
  <1>4. Goes(pr, procs[p])
    BY SettleGoes
  <1>5. CASE procs' = [procs EXCEPT ![p] = pr] /\ UNCHANGED toNode
    <2>1. StartsNone
      <3> HIDE DEF pr, p
      <3> QED
        BY <1>4, <1>5, OneGoes
    <2>2. Quietly
      BY <1>3, <1>5, SendsAdds DEF Quietly
    <2>3. \A q \in DOMAIN procs' : Nowhere(procs'[q])
      BY <2>1 DEF StartsNone, Goes
    <2> QED
      BY <2>1, <2>2, <2>3, QuietCarries DEF JobsSafe
  <1>6. ASSUME NEW x \in Offered(pr, Able(nodes[n])),
               procs' = [procs EXCEPT ![p] = StartSlot(pr, x, n)],
               nodes' = [nodes EXCEPT ![n] = Assigned(@, p, pr, x)],
               ToNode(n, Msg(120, SlotName(pr, x), 1, Job(p, pr, x)))
        PROVE  JobsCarried' /\ \A q \in DOMAIN procs' : Nowhere(procs'[q])
    <2> DEFINE new == StartSlot(pr, x, n)
               j == Job(p, pr, x)
               a == Msg(120, SlotName(pr, x), 1, j)
    <2>1. a.id = 120 /\ a.job = j
      BY DEF Msg
    <2>2. nodes[n] \in Node /\ nodes[n].mods # {}
      BY <1>2, <1>6 DEF ServerTypeOK, Offered, Able
    <2>3. x \in DOMAIN pr.slots /\ pr.slots[x].status = "wait"
      BY <1>6 DEF Offered
    <2>4. /\ new.name = pr.name /\ new.stage = pr.stage
          /\ DOMAIN new.slots = DOMAIN pr.slots
          /\ \A y \in DOMAIN pr.slots :
                new.slots[y] = IF y = x THEN [status |-> "started", node |-> n] ELSE pr.slots[y]
      <3> HIDE DEF pr, n
      <3> QED
        BY DEF StartSlot, WithSlots
    <2>5. /\ \A q \in DOMAIN procs' : q \in DOMAIN procs /\ procs'[q] = IF q = p THEN new ELSE procs[q]
          /\ toNode' = Sent(toNode, n, a)
      BY <1>6 DEF ToNode
    <2>6. \A i \in Conn : i # n => nodes'[i] = nodes[i] /\ toNode'[i] = toNode[i]
      BY <1>6, <2>5 DEF ServerTypeOK, Sent, WireTypeOK
    <2> HIDE DEF new, a, pr, p, n
    <2>7. \A q \in DOMAIN procs' : Nowhere(procs'[q])
      <3>1. Nowhere(pr)
        BY <1>2, <1>4 DEF Goes
      <3>2. Nowhere(new)
        BY <2>4, <3>1 DEF Nowhere
      <3> QED
        BY <2>5, <3>2
    <2>8. ASSUME NEW q \in DOMAIN procs', NEW i \in Conn, NEW y \in StartedOn(procs'[q], i)
          PROVE  \/ q = p /\ y = x /\ i = n
                 \/ /\ q \in DOMAIN procs /\ y \in StartedOn(procs[q], i)
                    /\ procs'[q].stage = procs[q].stage
                    /\ i # n
      <3>1. CASE q # p
        <4>1. y \in StartedOn(procs[q], i) /\ q \in DOMAIN procs /\ procs'[q] = procs[q]
          BY <2>5, <2>8, <3>1
        <4>2. nodes[i].busy
          BY <4>1 DEF StartedOn, Started, JobsSafe, JobsPlaced, Placed
        <4> QED
          BY <1>2, <4>1, <4>2
      <3>2. CASE q = p /\ y = x
        BY <2>3, <2>4, <2>5, <2>8, <3>2 DEF StartedOn
      <3>3. CASE q = p /\ y # x
        <4>1. y \in Started(pr) /\ pr.slots[y].node = i
          BY <2>4, <2>5, <2>8, <3>3 DEF StartedOn, Started
        <4>2. /\ y \in Started(procs[p]) /\ procs[p].slots[y].node = i
              /\ pr.stage = procs[p].stage
          BY <1>4, <4>1 DEF Goes, Fewer, SameStage
        <4>3. nodes[i].busy
          BY <1>2, <4>2 DEF JobsSafe, JobsPlaced, Placed
        <4> QED
          BY <1>2, <2>4, <2>5, <3>3, <4>2, <4>3 DEF Started, StartedOn
      <3> QED
        BY <3>1, <3>2, <3>3
    <2>9. ASSUME NEW c \in Client, NEW i \in Conn, Connection(c) = i,
                 NEW q \in DOMAIN procs', NEW y \in StartedOn(procs'[q], i)
          PROVE  Carries(client[c], toNode'[i], toServer'[i], ran, nodes'[i].exec,
                         Job(q, procs'[q], y))
      <3>1. CASE q = p /\ y = x /\ i = n
        <4>1. Online(c) /\ Meets(client[c], nodes[n], Freeing(n), toNode[n], toServer[n])
              /\ link[n] = "open"
          <5>1. Online(c)
            BY <2>9 DEF Online, Conn
          <5> QED
            BY <2>9, <3>1, <5>1, TalksJoined DEF Joined
        <4>2. Still(client[c]) /\ toNode[n] = <<>> /\ toServer[n] = <<>>
          BY <1>2, <2>2, <4>1 DEF Meets, Rests, Greets
        <4>3. toNode'[n] = <<a>> /\ toServer'[n] = <<>>
          BY <1>2, <1>3, <2>5, <4>1, <4>2 DEF Sent, WireTypeOK
        <4>4. Job(q, procs'[q], y) = j
          BY <2>4, <2>5, <3>1 DEF Job
        <4>5. DOMAIN <<a>> = {1} /\ <<a>>[1] = a /\ DOMAIN <<>> = {}
          OBVIOUS
        <4>6. Carries(client[c], <<a>>, <<>>, ran, nodes'[i].exec, j)
          BY <2>1, <4>2, <4>5 DEF Carries, Still, Sending
        <4> QED
          BY <3>1, <4>3, <4>4, <4>6
      <3>2. CASE /\ q \in DOMAIN procs /\ y \in StartedOn(procs[q], i)
                 /\ procs'[q].stage = procs[q].stage
                 /\ i # n
        <4>1. Carries(client[c], toNode[i], toServer[i], ran, nodes[i].exec, Job(q, procs[q], y))
          BY <2>9, <3>2 DEF JobsCarried
        <4> QED
          BY <1>3, <2>6, <3>2, <4>1 DEF Job
      <3> QED
        BY <2>8, <2>9, <3>1, <3>2
    <2> QED
      BY <2>7, <2>9 DEF JobsCarried, Connection, clientVars
  <1> QED
    BY <1>1, <1>5, <1>6

\* Who credits: a report of success from a node that is not being stopped.
LEMMA WhoCredits ==
    ASSUME ServerTypeOK, WireTypeOK, JobsSafe, ServerStep
    PROVE  \/ credited' = credited
           \/ \E n \in Conn :
                 /\ Receives(n, 123) /\ Head(toServer[n]).status = 1
                 /\ ~nodes[n].stoping /\ Live(nodes[n].pid)
                 /\ \E m : credited' = credited \union Credits(n, m, "done")
  <1>1. ASSUME NEW n \in Conn, NEW m, NEW st, NEW fb, EndJob(n, m, st, fb)
        PROVE  credited' = credited \union Credits(n, m, st)
    BY <1>1, ZenonT(40) DEF EndJob
  <1>2. ASSUME NEW n \in Conn, ModuleExecutionEnded(n)
        PROVE  \/ credited' = credited
               \/ /\ Receives(n, 123) /\ Head(toServer[n]).status = 1
                  /\ ~nodes[n].stoping /\ Live(nodes[n].pid)
                  /\ \E m : credited' = credited \union Credits(n, m, "done")
    <2>1. Receives(n, 123) /\ ~nodes[n].stoping
      BY <1>2 DEF ModuleExecutionEnded, Hears
    <2>2. ASSUME NEW m, EndJob(n, m, "stoped", FALSE)
          PROVE  credited' = credited
      <3>1. credited' = credited \union Credits(n, m, "stoped")
        BY <1>1, <2>2
      <3>2. Credits(n, m, "stoped") = {}
        BY DEF Credits
      <3> QED
        BY <3>1, <3>2
    <2> QED
      BY <1>1, <1>2, <2>1, <2>2, ZenonT(40)
      DEF ModuleExecutionEnded, Ignore, GiveUpJob, OutputNotDefined
  <1>3. ASSUME NEW n \in Conn, CheckModuleStoping(n)
        PROVE  credited' = credited
    <2>1. nodes[n].stoping
      BY <1>3, StopReads DEF CheckModuleStoping
    <2>2. ASSUME NEW m, NEW fb, EndJob(n, m, "done", fb)
          PROVE  credited' = credited
      BY <1>1, <2>1, <2>2 DEF Credits
    <2> QED
      BY <1>3, <2>2, ZenonT(40) DEF CheckModuleStoping
  <1>4. ASSUME NEW n \in Conn,
               \/ IgnoreWhileStopping(n) \/ ReceiveAuthorizationRequest(n)
               \/ ReceiveModulesListRequest(n) \/ CheckPrepareForStartModule(n)
               \/ CheckInputParametersSending(n) \/ CheckModuleStarting(n)
               \/ NodeDisconnected(n) \/ LateEvent(n) \/ ReapNode(n)
        PROVE  credited' = credited
    BY <1>4, ZenonT(40)
    DEF IgnoreWhileStopping, ReceiveAuthorizationRequest, ReceiveModulesListRequest,
        CheckPrepareForStartModule, CheckInputParametersSending, CheckModuleStarting,
        NodeDisconnected, LateEvent, ReapNode, Ignore, GiveUpJob, serverVars
  <1>5. GiveJob \/ EndScan \/ User => credited' = credited
    BY DEF GiveJob, EndScan, User, StartProcess, StopProcess, DisconnectNode,
           ClearFailedModulesForNodes
  <1> QED
    BY <1>2, <1>3, <1>4, <1>5 DEF ServerStep, Handler, Queue

\* A job is credited when its client has said that it ran.
LEMMA CreditsRan ==
    ASSUME ServerTypeOK, WireTypeOK, JobsSafe, LeavesPlaced, TalksInv, JobsCarried, Manned,
           \A p \in DOMAIN procs : Nowhere(procs[p]),
           credited \subseteq ran, ServerStep
    PROVE  credited' \subseteq ran
  <1> SUFFICES ASSUME NEW n \in Conn,
                      Receives(n, 123), Head(toServer[n]).status = 1,
                      ~nodes[n].stoping, Live(nodes[n].pid),
                      NEW m, NEW x \in EndedSlots(procs[nodes[n].pid], n, m)
               PROVE  Job(nodes[n].pid, procs[nodes[n].pid], x) \in ran
    <2>1. \A n \in Conn : \A m : Credits(n, m, "done") \subseteq
             { Job(nodes[n].pid, procs[nodes[n].pid], x) :
                 x \in EndedSlots(procs[nodes[n].pid], n, m) }
      BY DEF Credits
    <2> QED
      BY <2>1, WhoCredits
  <1> DEFINE p == nodes[n].pid
             pr == procs[p]
  <1>1. /\ p \in DOMAIN procs /\ x \in DOMAIN pr.slots
        /\ pr.slots[x].status \notin Ended /\ pr.slots[x].node = n
    BY DEF Live, EndedSlots, UnfinishedOn
  <1>2. pr.slots[x].status \in Status
    <2>1. IsProcess(pr)
      BY <1>1 DEF ServerTypeOK
    <2> QED
      BY <1>1, <2>1 DEF IsProcess, Slot
  <1>3. pr.slots[x].status # "wait"
    BY <1>1 DEF Nowhere, NoNode, Conn
  <1>4. pr.slots[x].status # "stopping"
    BY <1>1 DEF LeavesPlaced, LeavesSafely, Leaving
  <1>5. x \in StartedOn(pr, n)
    BY <1>1, <1>2, <1>3, <1>4 DEF Status, Ended, StartedOn
  <1>6. n <= conns
    BY HandlerReads DEF JobsSafe, Unused, Up, Conn, ServerTypeOK
  <1>7. PICK c \in Client : Connection(c) = n
    BY <1>6 DEF Manned
  <1>8. Carries(client[c], toNode[n], toServer[n], ran, nodes[n].exec, Job(p, pr, x))
    BY <1>1, <1>5, <1>7 DEF JobsCarried
  <1>9. 1 \in DOMAIN toServer[n] /\ toServer[n][1].id = 123 /\ toServer[n][1].status = 1
    BY HandlerReads, ReadOps
  <1> QED
    BY <1>8, <1>9 DEF Carries

\* What a step keeps of CarriedInv.
LEMMA ServerCarries ==
    ASSUME ServerTypeOK, WireTypeOK, JobsSafe, JobsPlaced', LeavesPlaced, TalksInv, CarriesAll,
           "rpcDisconnect" \notin May, ServerStep, fault' = "none"
    PROVE  CarriesAll'
  <1>1. UNCHANGED clientVars /\ conns' = conns
    <2>1. conns' = conns
      BY ZenonT(60) DEF ServerStep, Handler, Queue, User, ReceiveAuthorizationRequest,
         ReceiveModulesListRequest, CheckPrepareForStartModule, CheckInputParametersSending,
         CheckModuleStarting, ModuleExecutionEnded, CheckModuleStoping, NodeDisconnected,
         LateEvent, IgnoreWhileStopping, Hears, Receives, GiveJob, EndScan, StartProcess,
         StopProcess, DisconnectNode, ClearFailedModulesForNodes, ReapNode, serverVars
    <2> QED
      BY <2>1 DEF ServerStep
  <1>2. Manned'
    BY <1>1 DEF CarriesAll, Manned, Connection, clientVars
  <1>3. (credited \subseteq ran)'
    BY <1>1, CreditsRan DEF CarriesAll, clientVars
  <1>4. JobsCarried' /\ \A p \in DOMAIN procs' : Nowhere(procs'[p])
    <2>1. CASE GiveJob
      BY <1>1, <2>1, GiveJobCarries DEF CarriesAll
    <2>2. CASE StartsNone /\ Quietly
      <3>1. JobsCarried'
        BY <1>1, <2>2, QuietCarries DEF CarriesAll, JobsSafe
      <3>2. \A p \in DOMAIN procs' : Nowhere(procs'[p])
        BY <2>2 DEF StartsNone, Goes, CarriesAll
      <3> QED
        BY <3>1, <3>2
    <2> QED
      BY <2>1, <2>2, ServerStarts
  <1> QED
    BY <1>2, <1>3, <1>4 DEF CarriesAll

---------------------------------------------------------------------------
(* Clients carry on.                                                       *)

\* A client with a started slot of its connection serves it.
LEMMA CarrierServes ==
    ASSUME ServerTypeOK, WireTypeOK, JobsSafe, TalksInv,
           NEW c \in Client, NEW n \in Conn, Connection(c) = n,
           NEW p \in DOMAIN procs, NEW x \in StartedOn(procs[p], n)
    PROVE  /\ Online(c) /\ Joined(c) /\ link[n] = "open" /\ nodes[n].exec \in Module
           /\ Serves(client[c], nodes[n], toNode[n], toServer[n])
           /\ client[c] \in ClientState
           /\ toNode[n] \in Seq(Message) /\ toServer[n] \in Seq(Message)
  <1>1. x \in Started(procs[p]) /\ procs[p].slots[x].node = n
    BY DEF StartedOn, Started
  <1>2. /\ Up(n) /\ nodes[n].busy /\ ~nodes[n].stoping /\ nodes[n].pid = p
        /\ nodes[n].exec = SlotName(procs[p], x)
    BY <1>1 DEF JobsSafe, JobsPlaced, Placed
  <1>3. ~Freeing(n)
    BY <1>2 DEF JobsSafe, FreeingSafe, Live
  <1>4. Online(c)
    BY DEF Online, Conn
  <1>5. Joined(c)
    BY <1>4, TalksJoined
  <1>6. link[n] = "open" /\ Meets(client[c], nodes[n], Freeing(n), toNode[n], toServer[n])
    BY <1>5 DEF Joined
  <1>7. nodes[n].exec \in Module
    <2>1. IsProcess(procs[p]) /\ x \in DOMAIN procs[p].slots
      BY <1>1 DEF ServerTypeOK, Started
    <2> QED
      BY <1>2, <2>1, SlotNameIsModule
  <1> QED
    BY <1>2, <1>3, <1>4, <1>5, <1>6, <1>7, JoinedTypes DEF Meets

\* Nothing is told, or no success is claimed that did not happen.
Utters(c, done, j) ==
    \/ Silent
    \/ \E x : Reply(c, x) /\ (x.id = 123 /\ x.status = 1 => j \in done)

LEMMA UttersClaims ==
    ASSUME ServerTypeOK, WireTypeOK, NEW c \in Client, Joined(c),
           NEW n \in Conn, Connection(c) = n, NEW done, NEW j, Utters(c, done, j),
           \A i \in DOMAIN toServer[n] :
              toServer[n][i].id = 123 /\ toServer[n][i].status = 1 => j \in done
    PROVE  \A i \in DOMAIN toServer'[n] :
              toServer'[n][i].id = 123 /\ toServer'[n][i].status = 1 => j \in done
  <1>1. toServer[n] \in Seq(Message)
    BY DEF WireTypeOK
  <1>2. CASE Silent
    BY <1>2 DEF Silent
  <1>3. ASSUME NEW x, Reply(c, x), x.id = 123 /\ x.status = 1 => j \in done
        PROVE  \A i \in DOMAIN toServer'[n] :
                  toServer'[n][i].id = 123 /\ toServer'[n][i].status = 1 => j \in done
    <2>1. toServer'[n] = Append(toServer[n], x)
      BY <1>3, RepliesOne
    <2>2. \A i \in DOMAIN Append(toServer[n], x) :
             (i \in DOMAIN toServer[n] /\ Append(toServer[n], x)[i] = toServer[n][i])
             \/ Append(toServer[n], x)[i] = x
      BY <1>1, SendOps
    <2> QED
      BY <1>3, <2>1, <2>2
  <1> QED
    BY <1>2, <1>3 DEF Utters

\* A step of the client that takes no message.
LEMMA WorkCarries ==
    ASSUME ServerTypeOK, WireTypeOK, NEW c \in Client, Joined(c), ran \subseteq ran',
           NEW n \in Conn, Connection(c) = n, NEW m, NEW j,
           Carries(client[c], toNode[n], toServer[n], ran, m, j),
           NEW new, client' = [client EXCEPT ![c] = new], toNode' = toNode,
           Utters(c, ran', j),
           new.job = client[c].job,
           \A x \in Module : new.run[x] # NoJob => new.run[x] = client[c].run[x],
           new.files => client[c].files \/ j \in ran'
    PROVE  Carries(client'[c], toNode'[n], toServer'[n], ran', m, j)
  <1>1. client'[c] = new
    BY Updated
  <1>2. \A i \in DOMAIN toServer[n] :
           toServer[n][i].id = 123 /\ toServer[n][i].status = 1 => j \in ran'
    BY DEF Carries
  <1>3. \A i \in DOMAIN toServer'[n] :
           toServer'[n][i].id = 123 /\ toServer'[n][i].status = 1 => j \in ran'
    BY <1>2, UttersClaims
  <1>4. /\ \A i \in DOMAIN toNode[n] : toNode[n][i].id = 120 => toNode[n][i].job = j
        /\ (\A i \in DOMAIN toNode[n] : toNode[n][i].id # 120) => client[c].job[m] = j
        /\ \A x \in Module : client[c].run[x] # NoJob => client[c].run[x] = j
        /\ client[c].files => j \in ran'
    BY DEF Carries
  <1>5. toNode'[n] = toNode[n]
    OBVIOUS
  <1>6. \A x \in Module : new.run[x] # NoJob => new.run[x] = j
    BY <1>4
  <1> QED
    BY <1>1, <1>3, <1>4, <1>5, <1>6 DEF Carries

\* Archiving and clearing leave the job directory alone.
LEMMA KeepsJob ==
    ASSUME NEW cl \in ClientState, NEW m, NEW message
    PROVE  /\ Archived(cl, m, message).job = cl.job
           /\ TempCleared(cl, m).job = cl.job
           /\ Exited(cl, m).job = cl.job
  BY DEF Archived, TempCleared, Exited, ClientState

\* Connection n takes the next request of a node that works.
LEMMA ServingTakes ==
    ASSUME ServerTypeOK, WireTypeOK, NEW c \in Client, Joined(c),
           NEW n \in Conn, Connection(c) = n,
           Serves(client[c], nodes[n], toNode[n], toServer[n]),
           NEW id, Gets(c, id)
    PROVE  /\ id \in {120, 121} /\ Still(client[c])
           /\ toNode'[n] = <<>> /\ Head(toNode[n]).id = id
           /\ Head(toNode[n]) = toNode[n][1] /\ DOMAIN toNode[n] = {1}
           /\ Head(toNode[n]).name = nodes[n].exec
  <1>1. toNode[n] \in Seq(Message)
    BY DEF WireTypeOK
  <1>2. toNode[n] # <<>> /\ Head(toNode[n]).id = id /\ toNode'[n] = Tail(toNode[n])
    BY GetsOne
  <1>3. /\ Len(toNode[n]) = 1 /\ Head(toNode[n]).id \in {120, 121} /\ Still(client[c])
        /\ Head(toNode[n]).name = nodes[n].exec
    BY <1>2 DEF Serves
  <1> QED
    BY <1>1, <1>2, <1>3, ReadOps

\* The client is told which job it prepares for.
LEMMA PrepareCarries ==
    ASSUME ServerTypeOK, WireTypeOK, NEW c \in Client, Joined(c),
           NEW n \in Conn, Connection(c) = n, NEW j,
           NEW e \in Module, nodes[n].exec = e,
           Carries(client[c], toNode[n], toServer[n], ran, e, j),
           Serves(client[c], nodes[n], toNode[n], toServer[n]),
           PrepareForStartModule(c)
    PROVE  Carries(client'[c], toNode'[n], toServer'[n], ran', e, j)
  <1> DEFINE cl == client[c]
             req == Head(toNode[n])
             m == req.name
             done == [cl EXCEPT !.exec = m, !.job[m] = req.job, !.temp = @ \union {m},
                                !.into = m, !.ready = @ \ {m}]
             failed == [cl EXCEPT !.exec = m, !.job[m] = req.job, !.into = NoModule]
  <1>1. Gets(c, 120) /\ cl \in ClientState /\ ran' = ran
    BY JoinedTypes DEF PrepareForStartModule
  <1>2. \/ client' = [client EXCEPT ![c] = done] /\ Reply(c, Answer(120, m, 1))
        \/ client' = [client EXCEPT ![c] = failed] /\ Reply(c, Answer(120, m, 0))
    BY DEF PrepareForStartModule
  <1>3. /\ Still(cl) /\ toNode'[n] = <<>> /\ req.id = 120 /\ req = toNode[n][1]
        /\ DOMAIN toNode[n] = {1} /\ m = e
    BY <1>1, ServingTakes
  <1>4. req.job = j
    BY <1>3 DEF Carries
  <1>5. ASSUME NEW new \in {done, failed}
        PROVE  new.run = cl.run /\ new.files = cl.files /\ new.job[e] = j
    <2>1. /\ done.run = cl.run /\ done.files = cl.files /\ done.job[m] = req.job
          /\ failed.run = cl.run /\ failed.files = cl.files /\ failed.job[m] = req.job
      <3>1. m \in Module
        BY <1>3
      <3> HIDE DEF m, req, cl
      <3> QED
        BY <1>1, <3>1 DEF ClientState
    <2> QED
      BY <1>3, <1>4, <2>1
  <1> HIDE DEF done, failed, req
  <1>6. ASSUME NEW st, Reply(c, Answer(120, m, st))
        PROVE  Utters(c, ran, j)
    BY <1>6, AnswerOps DEF Utters
  <1>7. ASSUME NEW new \in {done, failed}, client' = [client EXCEPT ![c] = new], Utters(c, ran, j)
        PROVE  Carries(client'[c], toNode'[n], toServer'[n], ran', e, j)
    <2>1. ~new.files /\ \A x \in Module : new.run[x] = NoJob
      BY <1>3, <1>5 DEF Still, Sending
    <2>2. \A x \in Module : new.run[x] # NoJob => new.run[x] = j
      BY <2>1
    <2>3. /\ new.job[e] = j /\ DOMAIN toNode'[n] = {} /\ ran \subseteq ran'
          /\ new.files => j \in ran'
      BY <1>1, <1>3, <1>5, <2>1
    <2>4. Utters(c, ran', j)
      BY <1>1, <1>7
    <2> HIDE DEF cl, m
    <2>5. client'[c] = new
      BY <1>7, Updated
    <2>6. \A i \in DOMAIN toServer[n] :
             toServer[n][i].id = 123 /\ toServer[n][i].status = 1 => j \in ran'
      BY <2>3 DEF Carries
    <2>7. \A i \in DOMAIN toServer'[n] :
             toServer'[n][i].id = 123 /\ toServer'[n][i].status = 1 => j \in ran'
      BY <2>4, <2>6, UttersClaims
    <2> QED
      BY <2>2, <2>3, <2>5, <2>7 DEF Carries
  <1> QED
    BY <1>2, <1>6, <1>7

\* The program that is started runs that job.
LEMMA StartCarries ==
    ASSUME ServerTypeOK, WireTypeOK, NEW c \in Client, Joined(c),
           NEW n \in Conn, Connection(c) = n, NEW j,
           NEW e \in Module, nodes[n].exec = e,
           Carries(client[c], toNode[n], toServer[n], ran, e, j),
           Serves(client[c], nodes[n], toNode[n], toServer[n]),
           ReceivedInputParameters(c)
    PROVE  Carries(client'[c], toNode'[n], toServer'[n], ran', e, j)
  <1> DEFINE cl == client[c]
             m == Head(toNode[n]).name
             ready == TempCleared(cl, m)
             runs == [cl EXCEPT !.run[m] = cl.job[m]]
             exited == [cl EXCEPT !.run[m] = NoJob]
             failed(id) == Archived(exited, m, Answer(id, m, 0))
  <1>1. Gets(c, 121) /\ cl \in ClientState /\ ran' = ran
    BY JoinedTypes DEF ReceivedInputParameters
  <1>2. \/ client' = [client EXCEPT ![c] = ready] /\ Reply(c, Answer(121, m, 0))
        \/ client' = [client EXCEPT ![c] = runs] /\ Reply(c, Answer(122, m, 1))
        \/ \E id \in {122, 123} : client' = [client EXCEPT ![c] = failed(id)] /\ Silent
    BY Zenon DEF ReceivedInputParameters
  <1>3. /\ Still(cl) /\ toNode'[n] = <<>> /\ Head(toNode[n]).id = 121
        /\ Head(toNode[n]) = toNode[n][1]
        /\ DOMAIN toNode[n] = {1} /\ m = e
    BY <1>1, ServingTakes
  <1>4. cl.job[m] = j
    BY <1>3 DEF Carries
  <1>5. ~cl.files /\ \A x \in Module : cl.run[x] = NoJob
    BY <1>3 DEF Still, Sending
  <1>6. ASSUME NEW new, client' = [client EXCEPT ![c] = new], new.job = cl.job,
               new.files = cl.files, \A x \in Module : new.run[x] \in {NoJob, j},
               Utters(c, ran, j)
        PROVE  Carries(client'[c], toNode'[n], toServer'[n], ran', e, j)
    <2>1. new.job[e] = j /\ ~new.files
          /\ \A x \in Module : new.run[x] # NoJob => new.run[x] = j
      BY <1>3, <1>4, <1>5, <1>6
    <2>2. /\ DOMAIN toNode'[n] = {} /\ ran \subseteq ran'
          /\ new.files => j \in ran'
      BY <1>1, <1>3, <2>1
    <2>3. Utters(c, ran', j)
      BY <1>1, <1>6
    <2> HIDE DEF cl, m
    <2>4. client'[c] = new
      BY <1>6, Updated
    <2>5. \A i \in DOMAIN toServer[n] :
             toServer[n][i].id = 123 /\ toServer[n][i].status = 1 => j \in ran'
      BY <2>2 DEF Carries
    <2>6. \A i \in DOMAIN toServer'[n] :
             toServer'[n][i].id = 123 /\ toServer'[n][i].status = 1 => j \in ran'
      BY <2>3, <2>5, UttersClaims
    <2> QED
      BY <2>1, <2>2, <2>4, <2>6 DEF Carries
  <1>7. CASE client' = [client EXCEPT ![c] = ready] /\ Reply(c, Answer(121, m, 0))
    <2>1. ready.job = cl.job /\ ready.run = cl.run /\ ready.files = cl.files
      BY <1>1, TempClearedOps, KeepsJob
    <2>2. Utters(c, ran, j)
      BY <1>7, AnswerOps DEF Utters
    <2> HIDE DEF ready
    <2> QED
      BY <1>5, <1>6, <1>7, <2>1, <2>2
  <1>8. CASE client' = [client EXCEPT ![c] = runs] /\ Reply(c, Answer(122, m, 1))
    <2>1. /\ \A x \in Module : runs.run[x] = IF x = m THEN j ELSE cl.run[x]
          /\ runs.job = cl.job /\ runs.files = cl.files
      BY <1>1, <1>4 DEF ClientState
    <2>2. Utters(c, ran, j)
      BY <1>8, AnswerOps DEF Utters
    <2> HIDE DEF runs, m, cl
    <2>3. \A x \in Module : runs.run[x] \in {NoJob, j}
      BY <1>5, <2>1
    <2> QED
      BY <1>6, <1>8, <2>1, <2>2, <2>3
  <1>9. ASSUME NEW id \in {122, 123}, client' = [client EXCEPT ![c] = failed(id)], Silent
        PROVE  Carries(client'[c], toNode'[n], toServer'[n], ran', e, j)
    <2> DEFINE new == failed(id)
    <2>1. exited = Exited(cl, m)
      BY DEF Exited
    <2>2. /\ exited \in ClientState /\ exited.files = cl.files /\ exited.job = cl.job
          /\ \A x \in Module : exited.run[x] = IF x = m THEN NoJob ELSE cl.run[x]
      <3> HIDE DEF m, exited, cl
      <3>1. Exited(cl, m).job = cl.job
        BY <1>1, KeepsJob
      <3> QED
        BY <1>1, <2>1, <3>1, ExitedOps
    <2> HIDE DEF exited, m
    <2>3. new.run = exited.run /\ new.files = exited.files /\ new.job = exited.job
      BY <2>2, ArchivedOps, KeepsJob
    <2>4. Utters(c, ran, j)
      BY <1>9 DEF Utters
    <2>5. client' = [client EXCEPT ![c] = new]
      BY <1>9
    <2> HIDE DEF new, cl
    <2>6. \A x \in Module : new.run[x] \in {NoJob, j}
      BY <1>5, <2>2, <2>3, ZenonT(60)
    <2> QED
      BY <1>6, <2>2, <2>3, <2>4, <2>5, <2>6, ZenonT(60)
  <1> QED
    BY <1>2, <1>7, <1>8, <1>9

\* All that is reported as sent was run.
LEMMA AllSentCarries ==
    ASSUME ServerTypeOK, WireTypeOK, NEW c \in Client, Joined(c), ran \subseteq ran',
           NEW n \in Conn, Connection(c) = n, NEW m, NEW j,
           Carries(client[c], toNode[n], toServer[n], ran, m, j),
           NEW cl \in ClientState, AllOutputParametersSent(c, cl), toNode' = toNode,
           cl.job = client[c].job, j \in ran',
           \A x \in Module : cl.run[x] # NoJob => cl.run[x] = client[c].run[x]
    PROVE  Carries(client'[c], toNode'[n], toServer'[n], ran', m, j)
  <1> DEFINE cleared == TempCleared(cl, cl.exec)
             new == [cleared EXCEPT !.files = FALSE]
  <1>1. /\ client' = [client EXCEPT ![c] = new]
        /\ Reply(c, Answer(123, cl.exec, 1))
    BY DEF AllOutputParametersSent
  <1>2. cleared.run = cl.run /\ cleared.job = cl.job /\ cleared \in ClientState
    BY TempClearedOps, KeepsJob
  <1> HIDE DEF cleared
  <1>3. new.run = cl.run /\ new.job = cl.job /\ ~new.files
    BY <1>2 DEF ClientState
  <1>4. Utters(c, ran', j)
    BY <1>1 DEF Utters
  <1> HIDE DEF new
  <1>5. /\ new.job = client[c].job
        /\ \A x \in Module : new.run[x] # NoJob => new.run[x] = client[c].run[x]
    BY <1>3
  <1> QED
    BY <1>1, <1>3, <1>4, <1>5, WorkCarries

LEMMA FinishedCarries ==
    ASSUME ServerTypeOK, WireTypeOK, NEW c \in Client, Joined(c),
           NEW n \in Conn, Connection(c) = n, NEW j, NEW e,
           Carries(client[c], toNode[n], toServer[n], ran, e, j),
           NEW m \in Module, ModuleFinished(c, m)
    PROVE  Carries(client'[c], toNode'[n], toServer'[n], ran', e, j)
  <1> DEFINE cl == Exited(client[c], m)
             files == [cl EXCEPT !.files = TRUE]
             archived == Archived(cl, m, Answer(123, m, 0))
             failed == [archived EXCEPT !.files = FALSE]
  <1>1. /\ client[c] \in ClientState /\ client[c].run[m] # NoJob /\ toNode' = toNode
        /\ ran' = ran \union {client[c].run[m]}
        /\ \/ client' = [client EXCEPT ![c] = Begun(files)] /\ Silent
           \/ client' = [client EXCEPT ![c] = Begun(failed)] /\ Silent
           \/ AllOutputParametersSent(c, cl)
    BY JoinedTypes DEF ModuleFinished, Running
  <1>2. j \in ran' /\ ran \subseteq ran'
    BY <1>1 DEF Carries
  <1>3. /\ \A x \in Module : cl.run[x] # NoJob => cl.run[x] = client[c].run[x]
        /\ cl.conn = Connection(c) /\ cl.job = client[c].job
        /\ cl \in ClientState
    BY <1>1, ExitedOps, KeepsJob DEF Connection
  <1>4. Connection(c) # 0
    BY JoinedTypes DEF Online
  <1> HIDE DEF cl
  <1>5. CASE AllOutputParametersSent(c, cl)
    BY <1>1, <1>2, <1>3, <1>5, AllSentCarries
  <1>6. ASSUME NEW new, client' = [client EXCEPT ![c] = Begun(new)], Silent,
               new.run = cl.run, new.conn = cl.conn, new.job = cl.job
        PROVE  Carries(client'[c], toNode'[n], toServer'[n], ran', e, j)
    <2>1. client' = [client EXCEPT ![c] = new]
      BY <1>3, <1>4, <1>6, BegunOps
    <2>2. Utters(c, ran', j)
      BY <1>6 DEF Utters
    <2>3. /\ new.job = client[c].job
          /\ \A x \in Module : new.run[x] # NoJob => new.run[x] = client[c].run[x]
      BY <1>3, <1>6
    <2> QED
      BY <1>1, <1>2, <2>1, <2>2, <2>3, WorkCarries
  <1>7. CASE client' = [client EXCEPT ![c] = Begun(files)] /\ Silent
    <2>1. files.run = cl.run /\ files.conn = cl.conn /\ files.job = cl.job
      BY <1>3 DEF ClientState
    <2> HIDE DEF files
    <2> QED
      BY <1>6, <1>7, <2>1
  <1>8. CASE client' = [client EXCEPT ![c] = Begun(failed)] /\ Silent
    <2>1. /\ archived.run = cl.run /\ archived.conn = cl.conn /\ archived.job = cl.job
          /\ DOMAIN archived = DOMAIN cl
      BY <1>3, ArchivedOps, KeepsJob
    <2> HIDE DEF archived
    <2>2. failed.run = cl.run /\ failed.conn = cl.conn /\ failed.job = cl.job
      BY <1>3, <2>1 DEF ClientState
    <2> HIDE DEF failed
    <2> QED
      BY <1>6, <1>8, <2>2
  <1> QED
    BY <1>1, <1>5, <1>7, <1>8

\* What ends in failure claims no success.
LEMMA FailureCarries ==
    ASSUME ServerTypeOK, WireTypeOK, NEW c \in Client, Joined(c),
           NEW n \in Conn, Connection(c) = n, NEW j, NEW e,
           Carries(client[c], toNode[n], toServer[n], ran, e, j),
           DoesOne(client[c], e),
           \/ \E m \in Module : ProcessExecutionTimeout(c, m)
           \/ OutputParameterSendFailed(c) \/ ArchiveSent(c)
    PROVE  Carries(client'[c], toNode'[n], toServer'[n], ran', e, j)
  <1>1. client[c] \in ClientState /\ client \in [Client -> ClientState]
    BY JoinedTypes DEF WireTypeOK
  <1>2. ASSUME NEW m \in Module, ProcessExecutionTimeout(c, m)
        PROVE  Carries(client'[c], toNode'[n], toServer'[n], ran', e, j)
    <2> DEFINE new == Exited(client[c], m)
    <2>1. /\ client' = [client EXCEPT ![c] = new] /\ Reply(c, Answer(123, m, 2))
          /\ UNCHANGED <<toNode, ran>>
      BY <1>1, <1>2 DEF ProcessExecutionTimeout, Exited
    <2>2. /\ \A x \in Module : new.run[x] # NoJob => new.run[x] = client[c].run[x]
          /\ new.files = client[c].files
      BY <1>1, ExitedOps
    <2>4. new.job = client[c].job
      BY <1>1, KeepsJob
    <2>3. Utters(c, ran', j)
      BY <2>1, AnswerOps DEF Utters
    <2> HIDE DEF new
    <2>5. /\ toNode' = toNode /\ ran \subseteq ran'
          /\ client' = [client EXCEPT ![c] = new]
          /\ new.files => client[c].files \/ j \in ran'
      BY <2>1, <2>2
    <2>6. \A x \in Module : new.run[x] # NoJob => new.run[x] = client[c].run[x]
      BY <2>2
    <2> QED
      BY <2>3, <2>4, <2>5, <2>6, WorkCarries
  <1>3. CASE OutputParameterSendFailed(c)
    <2> DEFINE cl == client[c]
               archived == Archived(cl, cl.exec, Answer(123, cl.exec, 0))
               new == [archived EXCEPT !.files = FALSE]
    <2>1. client' = [client EXCEPT ![c] = new] /\ UNCHANGED <<toNode, ran>> /\ Silent
      BY <1>3 DEF OutputParameterSendFailed, netVars, Silent
    <2>2. archived.run = cl.run /\ archived.job = cl.job /\ DOMAIN archived = DOMAIN cl
      BY <1>1, ArchivedOps, KeepsJob
    <2> HIDE DEF archived
    <2>3. new.run = cl.run /\ new.job = cl.job /\ ~new.files
      BY <1>1, <2>2 DEF ClientState
    <2>4. Utters(c, ran', j)
      BY <2>1 DEF Utters
    <2> HIDE DEF new
    <2> QED
      BY <2>1, <2>3, <2>4, WorkCarries
  <1>4. CASE ArchiveSent(c)
    <2> DEFINE cl == client[c]
               new == [cl EXCEPT !.msg = NoMsg]
    <2>1. /\ client' = [client EXCEPT ![c] = new] /\ UNCHANGED <<toNode, ran>>
          /\ cl.msg # NoMsg /\ Reply(c, cl.msg)
      BY <1>1, <1>4 DEF ArchiveSent
    <2>2. new.run = cl.run /\ new.job = cl.job /\ new.files = cl.files
      BY <1>1 DEF ClientState
    <2>3. Utters(c, ran', j)
      BY <2>1 DEF Utters, DoesOne
    <2> HIDE DEF new
    <2> QED
      BY <2>1, <2>2, <2>3, WorkCarries
  <1> QED
    BY <1>2, <1>3, <1>4

LEMMA CarriesMore ==
    ASSUME NEW cl, NEW out, NEW back, NEW done, NEW more, NEW m, NEW j,
           Carries(cl, out, back, done, m, j), done \subseteq more
    PROVE  Carries(cl, out, back, more, m, j)
  BY DEF Carries

\* A step of the client that works on a job.
LEMMA CarrierCarries ==
    ASSUME ServerTypeOK, WireTypeOK, NEW c \in Client, Joined(c),
           NEW n \in Conn, Connection(c) = n, NEW j,
           NEW e \in Module, nodes[n].exec = e,
           Carries(client[c], toNode[n], toServer[n], ran, e, j),
           Serves(client[c], nodes[n], toNode[n], toServer[n]),
           ClientStep(c), "crash" \notin May
    PROVE  Carries(client'[c], toNode'[n], toServer'[n], ran', e, j)
  <1>1. ~ConnectionClosed(c)
    BY DEF ConnectionClosed, Joined
  <1>2. \A m : ~ModuleCrashed(c, m)
    BY DEF ModuleCrashed
  <1>3. ~CheckAuthorization(c)
    <2>1. ASSUME Gets(c, 100)
          PROVE  FALSE
      BY <2>1, ServingTakes
    <2> QED
      BY <2>1 DEF CheckAuthorization
  <1>4. ~ReceivedRequestOnStopModule(c)
    <2>1. ASSUME Gets(c, 124)
          PROVE  FALSE
      BY <2>1, ServingTakes
    <2> QED
      BY <2>1 DEF ReceivedRequestOnStopModule
  <1>5. DoesOne(client[c], e)
    BY DEF Serves
  <1>6. CASE OutputParametersSent(c)
    <2>1. /\ client[c].files /\ AllOutputParametersSent(c, client[c]) /\ UNCHANGED <<ran, toNode>>
      BY <1>6 DEF OutputParametersSent
    <2>2. j \in ran
      BY <2>1 DEF Carries
    <2> DEFINE cl == client[c]
    <2>3. cl \in ClientState /\ cl.job = client[c].job /\ AllOutputParametersSent(c, cl)
          /\ \A x \in Module : cl.run[x] # NoJob => cl.run[x] = client[c].run[x]
      BY <2>1, JoinedTypes
    <2>4. j \in ran' /\ ran \subseteq ran' /\ toNode' = toNode
      BY <2>1, <2>2
    <2> QED
      BY <2>3, <2>4, AllSentCarries
  <1>7. CASE PrepareForStartModule(c)
    BY <1>7, PrepareCarries
  <1>8. CASE ReceivedInputParameters(c)
    BY <1>8, StartCarries
  <1>9. CASE \E m \in Module : ModuleFinished(c, m)
    BY <1>9, FinishedCarries
  <1>10. CASE \/ \E m \in Module : ProcessExecutionTimeout(c, m)
              \/ OutputParameterSendFailed(c) \/ ArchiveSent(c)
    BY <1>5, <1>10, FailureCarries
  <1> QED
    BY <1>1, <1>2, <1>3, <1>4, <1>6, <1>7, <1>8, <1>9, <1>10
    DEF ClientStep, Request, Program, ProgramFails, Transfer

LEMMA ClientCarries ==
    ASSUME ServerTypeOK, WireTypeOK, JobsSafe, TalksInv, CarriesAll,
           NEW c \in Client, ClientStep(c), "stopRace" \notin May, "crash" \notin May
    PROVE  CarriesAll'
  <1>1. Online(c)
    BY OfflineWaits DEF TalksInv
  <1>2. Joined(c) /\ StillJoined(c)
    BY <1>1, TalksJoined, ClientJoined
  <1>3. UNCHANGED <<nodes, conns, procs, credited>>
    BY DEF ClientStep, serverVars
  <1>4. ran \subseteq ran'
    BY DEF ClientStep, Request, Program, ProgramFails, Transfer, CheckAuthorization,
       PrepareForStartModule, ReceivedInputParameters, ReceivedRequestOnStopModule,
       ConnectionClosed, ModuleFinished, ModuleCrashed, ProcessExecutionTimeout,
       OutputParametersSent, ArchiveSent, OutputParameterSendFailed
  <1>5. \A d \in Client : Connection(d)' = Connection(d)
    BY <1>2 DEF StillJoined, Connection
  <1>6. ASSUME NEW d \in Client, NEW n \in Conn, NEW p \in DOMAIN procs, Connection(d) = n,
               NEW x \in StartedOn(procs[p], n)
        PROVE  Carries(client'[d], toNode'[n], toServer'[n], ran', nodes[n].exec,
                       Job(p, procs[p], x))
    <2> DEFINE j == Job(p, procs[p], x)
    <2>1. Carries(client[d], toNode[n], toServer[n], ran, nodes[n].exec, j)
      BY <1>6 DEF CarriesAll, JobsCarried
    <2>2. /\ Joined(d) /\ nodes[n].exec \in Module
          /\ Serves(client[d], nodes[n], toNode[n], toServer[n])
      BY <1>6, CarrierServes
    <2> HIDE DEF j
    <2>3. CASE d = c
      <3>1. PICK e \in Module : e = nodes[n].exec
        BY <2>2
      <3>2. ClientStep(d)
        BY <2>3
      <3>3. Carries(client[d], toNode[n], toServer[n], ran, e, j)
        BY <2>1, <3>1
      <3>4. Carries(client'[d], toNode'[n], toServer'[n], ran', e, j)
        BY <1>6, <2>2, <3>1, <3>2, <3>3, CarrierCarries
      <3> QED
        BY <3>1, <3>4 DEF j
    <2>4. CASE d # c
      <3>1. Connection(c) # n
        BY <1>1, <1>6, <2>4 DEF TalksInv
      <3>2. client'[d] = client[d] /\ toNode'[n] = toNode[n] /\ toServer'[n] = toServer[n]
        BY <1>2, <2>4, <3>1 DEF StillJoined
      <3> QED
        BY <1>4, <2>1, <3>2, CarriesMore DEF j
    <2> QED
      BY <2>3, <2>4
  <1>7. JobsCarried'
    BY <1>3, <1>5, <1>6 DEF JobsCarried, Job, StartedOn
  <1>8. Manned'
    BY <1>3, <1>5 DEF CarriesAll, Manned
  <1> QED
    BY <1>3, <1>4, <1>7, <1>8 DEF CarriesAll

---------------------------------------------------------------------------
(* Sockets carry on.                                                       *)

\* A step in which no client changes what it works on.
LEMMA MovesCarry ==
    ASSUME JobsPlaced, JobsPlaced', CarriesAll, StartsNone, Quietly,
           conns' = conns, ran' = ran, credited' = credited,
           \A c \in Client : /\ client'[c].conn = client[c].conn
                             /\ client'[c].run = client[c].run
                             /\ client'[c].job = client[c].job
                             /\ client'[c].files = client[c].files
    PROVE  CarriesAll'
  <1>1. \A c \in Client : Connection(c)' = Connection(c)
    BY DEF Connection
  <1>2. ASSUME NEW c \in Client, NEW n \in Conn, NEW p \in DOMAIN procs', Connection(c) = n,
               NEW x \in StartedOn(procs'[p], n)
        PROVE  Carries(client'[c], toNode'[n], toServer'[n], ran, nodes'[n].exec,
                       Job(p, procs'[p], x))
    <2>1. /\ p \in DOMAIN procs /\ x \in StartedOn(procs[p], n)
          /\ Job(p, procs'[p], x) = Job(p, procs[p], x) /\ nodes'[n].exec = nodes[n].exec
      BY StaysStarted
    <2> DEFINE j == Job(p, procs[p], x)
    <2>2. Carries(client[c], toNode[n], toServer[n], ran, nodes[n].exec, j)
      BY <1>2, <2>1 DEF CarriesAll, JobsCarried
    <2> HIDE DEF j
    <2>3. Carries(client[c], toNode'[n], toServer'[n], ran, nodes[n].exec, j)
      BY <2>2, CarriesOn DEF Quietly
    <2>4. Carries(client'[c], toNode'[n], toServer'[n], ran, nodes[n].exec, j)
      BY <2>3 DEF Carries
    <2> QED
      BY <2>1, <2>4 DEF j
  <1>3. JobsCarried'
    BY <1>1, <1>2 DEF JobsCarried, Job, StartedOn
  <1>4. Manned'
    BY <1>1 DEF CarriesAll, Manned
  <1>5. ASSUME NEW p \in DOMAIN procs'
        PROVE  Nowhere(procs'[p])
    BY <1>5 DEF StartsNone, Goes, CarriesAll
  <1> QED
    BY <1>3, <1>4, <1>5 DEF CarriesAll, Nowhere

LEMMA InputCarries ==
    ASSUME ServerTypeOK, WireTypeOK, JobsPlaced, JobsPlaced', CarriesAll,
           NEW c \in Client, InputTransfer(c)
    PROVE  CarriesAll'
  <1>1. PICK n \in Conn : InputParametersSent(n) /\ ReceivedFiles(c, nodes[n].sending)
    BY DEF InputTransfer
  <1>2. /\ SendInputParameters(n) /\ procs' = procs /\ conns' = conns /\ credited' = credited
        /\ toServer' = toServer /\ ran' = ran
    BY <1>1 DEF InputParametersSent, ReceivedFiles
  <1>3. \A d \in Client : /\ client'[d].conn = client[d].conn
                          /\ client'[d].run = client[d].run
                          /\ client'[d].job = client[d].job
                          /\ client'[d].files = client[d].files
    BY <1>1 DEF ReceivedFiles, WireTypeOK, ClientState
  <1>4. Quietly
    BY <1>2, SendsAdds DEF Quietly
  <1> QED
    BY <1>2, <1>3, <1>4, SameStarts, MovesCarry

LEMMA ConnectCarries ==
    ASSUME ServerTypeOK, WireTypeOK, JobsPlaced', CarriesAll,
           NEW c \in Client, NEW k \in Conn, Connect(c, k)
    PROVE  CarriesAll'
  <1>1. /\ ~Online(c) /\ k = conns + 1 /\ conns' = k
        /\ nodes' = [nodes EXCEPT ![k] = NewNode("up")]
        /\ client' = [client EXCEPT ![c].conn = k]
        /\ procs' = procs /\ credited' = credited /\ ran' = ran /\ toNode' = toNode
        /\ \A i \in Conn : i # k => toServer'[i] = toServer[i]
    BY DEF Connect, IncomingConnection, Connected, WireTypeOK
  <1>2. /\ Connection(c)' = k /\ Connection(c) \notin Conn
        /\ \A d \in Client : d # c => client'[d] = client[d]
    <2>1. Connection(c) \notin Conn
      BY <1>1, NetAssumption DEF Online, Conn
    <2> QED
      BY <1>1, <2>1 DEF Connection, WireTypeOK, ClientState
  <1>3. \A d \in Client : d # c => Connection(d)' = Connection(d)
    BY <1>2 DEF Connection
  <1>4. /\ nodes'[k].busy = FALSE
        /\ \A i \in Conn : i # k => nodes'[i] = nodes[i]
    BY <1>1 DEF ServerTypeOK, NewNode
  <1>5. ASSUME NEW d \in Client, NEW n \in Conn, NEW p \in DOMAIN procs, Connection(d)' = n,
               NEW x \in StartedOn(procs[p], n)
        PROVE  Carries(client'[d], toNode'[n], toServer'[n], ran, nodes'[n].exec,
                       Job(p, procs[p], x))
    <2>1. nodes'[n].busy
      <3>1. x \in Started(procs[p]) /\ procs[p].slots[x].node = n
        BY DEF StartedOn, Started
      <3>2. x \in Started(procs'[p]) /\ procs'[p].slots[x].node = n /\ p \in DOMAIN procs'
        BY <1>1, <3>1
      <3> QED
        BY <3>2 DEF JobsPlaced, Placed
    <2>2. n # k
      BY <1>4, <2>1
    <2>3. d # c
      BY <1>2, <1>5, <2>2
    <2>4. Connection(d) = n /\ client'[d] = client[d]
      BY <1>2, <1>3, <1>5, <2>3
    <2> DEFINE j == Job(p, procs[p], x)
    <2>5. Carries(client[d], toNode[n], toServer[n], ran, nodes[n].exec, j)
      BY <2>4 DEF CarriesAll, JobsCarried
    <2> HIDE DEF j
    <2>6. Carries(client'[d], toNode'[n], toServer'[n], ran, nodes'[n].exec, j)
      BY <1>1, <1>4, <2>2, <2>4, <2>5
    <2> QED
      BY <2>6 DEF j
  <1>6. JobsCarried'
    BY <1>1, <1>5 DEF JobsCarried, Job, StartedOn
  <1>7. ASSUME NEW i \in Conn, i <= conns'
        PROVE  \E d \in Client : Connection(d)' = i
    <2>1. CASE i = k
      BY <1>2, <2>1
    <2>2. CASE i # k
      <3>1. i <= conns
        BY <1>1, <1>7, <2>2 DEF Conn, ServerTypeOK
      <3>2. PICK d \in Client : Connection(d) = i
        BY <3>1 DEF CarriesAll, Manned
      <3> QED
        BY <1>2, <1>3, <3>2
    <2> QED
      BY <2>1, <2>2
  <1>8. Manned'
    BY <1>7 DEF Manned
  <1> QED
    BY <1>1, <1>6, <1>8 DEF CarriesAll, Nowhere

---------------------------------------------------------------------------
(* What is credited was run.                                               *)

LEMMA NextCarried ==
    ASSUME "inputSendFail" \notin May, "break" \notin May,
           "rpcDisconnect" \notin May, "stopRace" \notin May, "crash" \notin May,
           TypeOK, JobsInv, JobsInv', StopsInv, TalksInv, CarriedInv, [Next]_vars
    PROVE  CarriedInv'
  <1> SUFFICES ASSUME fault' = "none"
               PROVE  CarriesAll'
    BY DEF CarriedInv, CarriesAll
  <1>1. /\ ServerTypeOK /\ WireTypeOK /\ JobsSafe /\ JobsPlaced /\ JobsPlaced' /\ LeavesPlaced
        /\ CarriesAll
    <2>1. fault = "none"
      BY FaultStays
    <2> QED
      BY <2>1 DEF TypeOK, JobsInv, JobsSafe, StopsInv, CarriedInv, CarriesAll
  <1>2. CASE ServerStep
    BY <1>1, <1>2, ServerCarries
  <1>3. CASE \E c \in Client : ClientStep(c)
    BY <1>1, <1>3, ClientCarries
  <1>4. CASE \E c \in Client : InputTransfer(c) \/ InputTransferFails(c)
    BY <1>1, <1>4, InputCarries DEF InputTransferFails, InputParameterSendFailed
  <1>5. CASE \E c \in Client, n \in Conn : Connect(c, n)
    BY <1>1, <1>5, ConnectCarries
  <1>6. CASE UNCHANGED vars
    <2>1. UNCHANGED <<client, ran, nodes, conns, procs, credited, toNode, toServer>>
      BY <1>6 DEF vars, serverVars, clientVars, netVars
    <2>2. Quietly
      BY <1>1, <2>1, SendsAdds DEF Quietly
    <2> QED
      BY <1>1, <2>1, <2>2, SameStarts, MovesCarry
  <1> QED
    BY <1>2, <1>3, <1>4, <1>5, <1>6 DEF Next, Break

\* A client works on the very job its node was given, and reports no success
\* of a job that did not run (CarriedInv), as long as no connection is lost, no
\* file is refused or lost, a program that fails reports once, and a stop
\* request finds no transfer that completes.
THEOREM ClientsCarryTheirJobs ==
    ASSUME "outputLost" \notin May, "inputSendFail" \notin May, "break" \notin May,
           "rpcDisconnect" \notin May, "stopRace" \notin May, "crash" \notin May
    PROVE  Spec => []CarriedInv
  <1>1. Init => CarriedInv
    <2> SUFFICES ASSUME Init
                 PROVE  JobsCarried /\ Manned /\ (\A p \in DOMAIN procs : Nowhere(procs[p]))
                        /\ credited \subseteq ran
      BY DEF CarriedInv, CarriesAll
    <2>1. DOMAIN procs = {} /\ credited = {} /\ conns = 0
      BY DEF Init, ServerInit
    <2> QED
      BY <2>1 DEF JobsCarried, Manned, Conn
  <1>2. TypeOK /\ JobsInv /\ JobsInv' /\ StopsInv /\ TalksInv /\ CarriedInv /\ [Next]_vars
        => CarriedInv'
    BY NextCarried
  <1> QED
    BY <1>1, <1>2, TypeCorrect, JobsStaySafe, StopsAreNamed, ClientsTakeTurns, PTL DEF Spec

\* A module is marked done on a node's report only if the program of that very
\* job, of that stage of that process, has run to its end (moduleExecutionEnded,
\* finishModule; allOutputParametersSent, startProcessExited on the client).
THEOREM CreditedJobsRan ==
    ASSUME "outputLost" \notin May, "inputSendFail" \notin May, "break" \notin May,
           "rpcDisconnect" \notin May, "stopRace" \notin May, "crash" \notin May
    PROVE  Spec => []DoneJobsRan
  <1>1. CarriedInv => DoneJobsRan
    BY DEF CarriedInv, CarriesAll, DoneJobsRan
  <1> QED
    BY <1>1, ClientsCarryTheirJobs, PTL

\* No client computes for nothing: the program it runs is that of a slot of the
\* current stage which is started on this very node, unless the node is being
\* stopped (prepareModule, stopModule, startModule).
THEOREM ProgramsAreWanted ==
    ASSUME "outputLost" \notin May, "inputSendFail" \notin May, "break" \notin May,
           "rpcDisconnect" \notin May, "stopRace" \notin May, "crash" \notin May
    PROVE  Spec => []ProgramIsWanted
  <1>1. TypeOK /\ JobsInv /\ WaitsInv /\ TalksInv /\ CarriedInv => ProgramIsWanted
    <2> SUFFICES ASSUME TypeOK, JobsInv, WaitsInv, TalksInv, CarriedInv, fault = "none",
                        NEW c \in Client, NEW m \in Module,
                        NEW n, n = Connection(c), Online(c), Running(c, m), Up(n)
                 PROVE  nodes[n].stoping \/ StartedOnNode(client[c].run[m], n)
      BY DEF ProgramIsWanted
    <2>1. /\ Joined(c) /\ n \in Conn /\ Meets(client[c], nodes[n], Freeing(n), toNode[n], toServer[n])
      BY TalksJoined DEF TypeOK, Joined
    <2>2. nodes[n].busy /\ ~Freeing(n)
      BY <2>1 DEF Meets, Rests, Still, Running
    <2>3. CASE ~nodes[n].stoping
      <3>1. Works(n)
        BY <2>1, <2>2, <2>3 DEF WaitsInv, BusyAwaits
      <3>2. PICK p \in DOMAIN procs : \E x \in Started(procs[p]) : procs[p].slots[x].node = n
        BY <3>1 DEF Works
      <3>3. PICK x \in Started(procs[p]) : procs[p].slots[x].node = n
        BY <3>2
      <3>4. x \in StartedOn(procs[p], n)
        BY <3>3 DEF Started, StartedOn
      <3>5. Carries(client[c], toNode[n], toServer[n], ran, nodes[n].exec, Job(p, procs[p], x))
        BY <2>1, <3>4 DEF CarriedInv, CarriesAll, JobsCarried
      <3>6. client[c].run[m] = <<p, procs[p].stage, x>>
        BY <3>5 DEF Carries, Running, Job
      <3> QED
        BY <3>4, <3>6 DEF StartedOnNode, Live
    <2> QED
      BY <2>3
  <1> QED
    BY <1>1, TypeCorrect, JobsStaySafe, WaitsAreAwaited, ClientsTakeTurns,
       ClientsCarryTheirJobs, PTL
=============================================================================
