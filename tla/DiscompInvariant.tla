--------------------------- MODULE DiscompInvariant ---------------------------
(***************************************************************************)
(* The inductive invariants of the core.  Behind JobHasNode and            *)
(* OneJobPerNode: what must be known of the nodes and of the stop requests *)
(* under way so that no handler frees or stops a node under a started      *)
(* module.  Behind BusyNodeHasJob and StopAnswered (WaitsInv): what a busy *)
(* node waits for.  Behind StoppingHasNode (StopsInv): what the node of a  *)
(* slot being stopped was told.  Behind OneProgramPerClient (TalksInv):    *)
(* that a client and its node take turns.  Behind ProgramIsWanted and      *)
(* DoneJobsRan (CarriedInv): that the client of a started slot works on    *)
(* that very job.  Behind NoUndefinedBehaviour (SoundInv): no process is   *)
(* completed and none is closed twice.  Behind WorkConserving (WorkInv):   *)
(* a free node means that no process has work for it.                      *)
(***************************************************************************)
EXTENDS Discomp

\* The started slots of process p are each on a node that works for them.
Placed(p, pr) ==
    \A x \in Started(pr) :
        LET n == pr.slots[x].node
        IN  /\ n \in Conn
            /\ Up(n) /\ nodes[n].busy /\ ~nodes[n].stoping
            /\ nodes[n].pid = p
            /\ nodes[n].exec = SlotName(pr, x)

\* No two of them share a node.
Spread(pr) ==
    \A x, y \in Started(pr) : pr.slots[x].node = pr.slots[y].node => x = y

JobsPlaced == \A p \in DOMAIN procs : Placed(p, procs[p]) /\ Spread(procs[p])

\* A node that has a process or waits for a stop is busy: it is offered no job.
NodesBusy ==
    \A n \in Conn : Up(n) /\ (nodes[n].pid # NoPid \/ nodes[n].stoping) =>
                        nodes[n].busy

\* The node the running handler will free has lost its process.
FreeingSafe ==
    \A n \in Conn : Freeing(n) => nodes[n].busy /\ ~Live(nodes[n].pid)

Quiet(chan) == \A i \in DOMAIN chan : chan[i].id # 124

OneStop(chan) ==
    \A i, j \in DOMAIN chan : chan[i].id = 124 /\ chan[j].id = 124 => i = j

\* On a connection at most one request 124 or its answer is under way, and
\* none once the node waits no longer.
StopsOnce ==
    \A n \in Conn : Up(n) =>
        /\ ~nodes[n].stoping \/ Freeing(n) => Quiet(toNode[n]) /\ Quiet(toServer[n])
        /\ Quiet(toNode[n]) \/ Quiet(toServer[n])
        /\ OneStop(toNode[n]) /\ OneStop(toServer[n])

\* The connections still to come are unused.
Unused ==
    \A n \in Conn : n > conns =>
        nodes[n].state = "none" /\ link[n] = "none" /\ toNode[n] = <<>>

JobsSafe == JobsPlaced /\ NodesBusy /\ FreeingSafe /\ StopsOnce /\ Unused

\* A job is never freed, stopped or doubled behind the back of its process:
\* JobHasNode and OneJobPerNode, strengthened to be inductive.
JobsInv == fault = "none" => JobsSafe

\* A module is started on node n.
Works(n) ==
    \E p \in DOMAIN procs : \E x \in Started(procs[p]) : procs[p].slots[x].node = n

\* A busy node works, is being stopped, or is about to be freed.
BusyAwaits ==
    \A n \in Conn : Up(n) /\ nodes[n].busy =>
        nodes[n].stoping \/ Freeing(n) \/ Works(n)

\* A stop that a node waits for is under way, or its answer, as long as the
\* connection is open.
StopsCome ==
    \A n \in Conn : Up(n) /\ nodes[n].stoping /\ link[n] = "open" =>
        Freeing(n) \/ ~Quiet(toNode[n]) \/ ~Quiet(toServer[n])

\* BusyNodeHasJob and StopAnswered, with JobsInv inductive.
WaitsInv == fault = "none" => BusyAwaits /\ StopsCome

\* No close is queued, and a stop or its answer names module m.
Orderly(chan, m) ==
    \A i \in DOMAIN chan : /\ chan[i].id # 0
                           /\ chan[i].id = 124 => chan[i].name = m

Leaving(pr) == { x \in DOMAIN pr.slots : pr.slots[x].status = "stopping" }

\* The slots of process p that are being stopped are each on a node that is
\* told to stop this module of this process.
LeavesSafely(p, pr) ==
    \A x \in Leaving(pr) :
        LET n == pr.slots[x].node
        IN  /\ n \in Conn
            /\ Up(n) /\ nodes[n].stoping
            /\ nodes[n].pid = p
            /\ nodes[n].exec = SlotName(pr, x)

StopsNamed ==
    \A n \in Conn : Up(n) =>
        Orderly(toNode[n], nodes[n].exec) /\ Orderly(toServer[n], nodes[n].exec)

LeavesPlaced == \A p \in DOMAIN procs : LeavesSafely(p, procs[p])

\* StoppingHasNode, with JobsInv inductive where no connection is lost.
StopsInv == fault = "none" => StopsNamed /\ LeavesPlaced

\* No program runs on the client, and nothing is on its way to the server.
Still(cl) == (\A m \in Module : cl.run[m] = NoJob) /\ ~Sending(cl)

\* The client runs a program, or sends its files, or a report of failure, and
\* all of that for module m.
DoesOne(cl, m) ==
    /\ \A x \in Module : cl.run[x] # NoJob => x = m /\ ~Sending(cl)
    /\ cl.files => cl.msg = NoMsg
    /\ cl.msg # NoMsg => cl.msg.name = m /\ cl.msg.status = 0

\* The client has authorized itself or announces its modules.
Greets(nd, out, back) ==
    /\ nd.mods = {}
    /\ \/ out = <<>> /\ Len(back) = 1 /\ Head(back).id \in {100, 110}
       \/ back = <<>> /\ Len(out) = 1 /\ Head(out).id = 100

\* A node without a job.
Rests(cl, nd, out, back) ==
    /\ Still(cl)
    /\ ~nd.busy => nd.sending = NoModule
    /\ (out = <<>> /\ back = <<>>) \/ Greets(nd, out, back)

\* The program has been started; more is to come.
GoesOn(msg) == msg.id = 122 /\ msg.status = 1

\* A node that works for its module: server and client take turns.
Serves(cl, nd, out, back) ==
    /\ out # <<>> \/ nd.sending # NoModule => back = <<>> /\ Still(cl)
    /\ out # <<>> => /\ nd.sending = NoModule /\ Len(out) = 1
                     /\ Head(out).id \in {120, 121} /\ Head(out).name = nd.exec
    /\ out = <<>> \/ Head(out).id = 121 => cl.exec = nd.exec
    /\ \A i \in DOMAIN back :
          /\ back[i].id \in 120..123 /\ back[i].name = nd.exec
          /\ GoesOn(back[i]) \/ (i = Len(back) /\ Still(cl))
    /\ DoesOne(cl, nd.exec)

\* A node that is being stopped: the request comes last and ends what the
\* client does, its answer comes last.
Stops(cl, nd, out, back) ==
    \/ /\ out = <<>> /\ Still(cl)
       /\ \A i \in DOMAIN back : back[i].id \in 120..124 /\ (back[i].id = 124 <=> i = Len(back))
    \/ /\ Len(out) = 1 \/ (Len(out) = 2 /\ Head(out).id \in {120, 121} /\ Still(cl))
       /\ out[Len(out)].id = 124
       /\ \A i \in DOMAIN out : out[i].name = nd.exec
       /\ \A i \in DOMAIN back : back[i].id \in 120..123
       /\ \A x \in Module : cl.run[x] # NoJob => x = nd.exec

\* What a client and its node are to each other; frees: the node is about to be
\* freed by the running handler.
Meets(cl, nd, frees, out, back) ==
    /\ ~nd.busy \/ frees => Rests(cl, nd, out, back)
    /\ nd.busy /\ ~frees => IF nd.stoping THEN Stops(cl, nd, out, back)
                                         ELSE Serves(cl, nd, out, back)

Talks(c, n) ==
    /\ n <= conns /\ Up(n) /\ link[n] = "open"
    /\ Meets(client[c], nodes[n], Freeing(n), toNode[n], toServer[n])

\* OneProgramPerClient, inductive where no connection is lost and a failed
\* program reports once.
TalksInv ==
    /\ \A c \in Client : IF Online(c) THEN Talks(c, Connection(c))
                                      ELSE Still(client[c])
    /\ \A c, d \in Client : Online(c) /\ Connection(c) = Connection(d) => c = d

\* The client works on job j of module m, and has run it when it says so; done:
\* the jobs whose program ran to its end.
Carries(cl, out, back, done, m, j) ==
    /\ \A i \in DOMAIN out : out[i].id = 120 => out[i].job = j
    /\ (\A i \in DOMAIN out : out[i].id # 120) => cl.job[m] = j
    /\ \A x \in Module : cl.run[x] # NoJob => cl.run[x] = j
    /\ cl.files => j \in done
    /\ \A i \in DOMAIN back : back[i].id = 123 /\ back[i].status = 1 => j \in done

\* What the client of connection n works on is the slot that is started there.
JobsCarried ==
    \A c \in Client, n \in Conn, p \in DOMAIN procs : Connection(c) = n =>
        \A x \in StartedOn(procs[p], n) :
            Carries(client[c], toNode[n], toServer[n], ran, nodes[n].exec,
                    Job(p, procs[p], x))

\* A slot that waits has no node.
Nowhere(pr) ==
    \A x \in DOMAIN pr.slots : pr.slots[x].status = "wait" => pr.slots[x].node = NoNode

\* Every connection that was ever accepted still has its client.
Manned == \A n \in Conn : n <= conns => \E c \in Client : Connection(c) = n

CarriesAll ==
    /\ JobsCarried /\ Manned
    /\ \A p \in DOMAIN procs : Nowhere(procs[p])
    /\ credited \subseteq ran

\* ProgramIsWanted and DoneJobsRan, inductive together with JobsInv, StopsInv
\* and TalksInv.
CarriedInv == fault = "none" => CarriesAll

\* A list that is not empty, or a module, gives a stage something to wait for.
HasWork(stage) == \E i \in DOMAIN stage : ~FirstEmpty(stage, i)

LastStagesHaveWork == \A s \in Scheme : HasWork(Plan[s][Len(Plan[s])])

\* A connection closes once, behind all that was read, and its node leaves
\* with nothing queued.
ClosesOnce(n) ==
    /\ \A i \in DOMAIN toServer[n] : toServer[n][i].id = 0 =>
          i = Len(toServer[n]) /\ link[n] = "closed" /\ "break" \in May
    /\ nodes[n].state = "null" =>
          toServer[n] = <<>> /\ link[n] = "closed" /\ "break" \in May

\* NoUndefinedBehaviour, inductive: no live process is left behind completed.
SoundInv ==
    /\ fault = "none"
    /\ \A p \in DOMAIN procs : ~Completes(procs[p])
    /\ \A n \in Conn : ClosesOnce(n)

StagesHaveWork == \A s \in Scheme : \A k \in DOMAIN Plan[s] : HasWork(Plan[s][k])

\* The loop has passed process p and node n, or does not run.
Passed(p, n) == scan.on => ~Later(scan.at, <<p, n>>)

\* WorkConserving, inductive: behind the loop no free node is left with work.
WorkInv ==
    /\ \A p \in DOMAIN procs : ~StageDone(procs[p])
    /\ \A p \in DOMAIN procs, n \in FreeNodes :
          Passed(p, n) => Offered(procs[p], Able(nodes[n])) = {}
===============================================================================
