---------------------------- MODULE ProcessJSProofs ----------------------------
(***************************************************************************)
(* Proofs about ProcessJS: the types of the script's process, and that no  *)
(* module it started is left waiting with nothing under way that runs the  *)
(* server's loop (NoDeadSituation), by the inductive invariant QueueInv;   *)
(* and, of orderly scripts, that a module marked as done ran to its end    *)
(* (DoneRan), by DoneInv.                                                  *)
(***************************************************************************)
EXTENDS ProcessJS, FiniteSetTheorems, TLAPS

---------------------------------------------------------------------------
(* Sequences.                                                              *)

LEMMA TailOps ==
    ASSUME NEW S, NEW s \in Seq(S), s # <<>>
    PROVE  /\ Head(s) \in S /\ Head(s) = s[1] /\ 1 \in DOMAIN s
           /\ Tail(s) \in Seq(S)
           /\ \A i \in DOMAIN Tail(s) : i + 1 \in DOMAIN s /\ Tail(s)[i] = s[i + 1]
           /\ \A i \in DOMAIN s : i # 1 => i - 1 \in DOMAIN Tail(s) /\ Tail(s)[i - 1] = s[i]
  OBVIOUS

LEMMA AppendOps ==
    ASSUME NEW S, NEW s \in Seq(S), NEW x \in S
    PROVE  /\ Append(s, x) \in Seq(S)
           /\ \A i \in DOMAIN s : i \in DOMAIN Append(s, x) /\ Append(s, x)[i] = s[i]
           /\ Len(s) + 1 \in DOMAIN Append(s, x) /\ Append(s, x)[Len(s) + 1] = x
           /\ \A i \in DOMAIN Append(s, x) : i \in DOMAIN s \/ (i = Len(s) + 1)
           /\ Append(s, x) # <<>>
  OBVIOUS

LEMMA JoinOps ==
    ASSUME NEW S, NEW s \in Seq(S), NEW t \in Seq(S)
    PROVE  /\ s \o t \in Seq(S)
           /\ \A i \in DOMAIN s : i \in DOMAIN (s \o t) /\ (s \o t)[i] = s[i]
           /\ \A i \in DOMAIN (s \o t) :
                 \/ i \in DOMAIN s /\ (s \o t)[i] = s[i]
                 \/ i - Len(s) \in DOMAIN t /\ (s \o t)[i] = t[i - Len(s)]
  OBVIOUS

---------------------------------------------------------------------------
(* The loop of checkProcessQueue.                                          *)

\* What the loop makes of objects, nodes and programs.
LEMMA QueueOps ==
    ASSUME NEW obj \in [Object -> ObjectState], NEW nds \in [Node -> NodeState],
           NEW lives \in BOOLEAN, modules \in Seq(Object), running \in [Node -> SUBSET Object],
           fault \in BOOLEAN, CheckProcessQueue(obj, nds, lives)
    PROVE  /\ object' \in [Object -> ObjectState] /\ nodes' \in [Node -> NodeState]
           /\ running' \in [Node -> SUBSET Object]
           /\ alive' \in BOOLEAN /\ allFree' \in BOOLEAN /\ fault' \in BOOLEAN
           /\ (alive' => lives) /\ allFree' = AllFree(nodes')
           /\ \A n \in Node :
                 \/ nodes'[n] = nds[n] /\ running'[n] = running[n]
                 \/ /\ IsFree(nds, n) /\ nodes'[n].busy
                    /\ nodes'[n].state = nds[n].state /\ nodes'[n].stoping = nds[n].stoping
                    /\ \E o \in running'[n] : NameOf[o] = nodes'[n].exec
           /\ \A o \in Object :
                 \/ object'[o] = obj[o]
                 \/ object'[o].status = "started" /\ object'[o].node \in Node
           /\ alive' => \A o \in ToSet(modules), n \in Node :
                 object'[o].status = "wait" /\ NameOf[o] \in Offers[n] => ~IsFree(nodes', n)
  <1>1. CASE lives /\ Completed(obj)
    <2>1. /\ alive' = FALSE /\ object' = obj /\ nodes' = nds /\ allFree' = AllFree(nds)
          /\ running' = running /\ fault' \in BOOLEAN
      BY <1>1 DEF CheckProcessQueue
    <2>2. AllFree(nds) \in BOOLEAN
      BY DEF AllFree
    <2> QED
      BY <2>1, <2>2
  <1>2. CASE ~(lives /\ Completed(obj))
    <2> DEFINE takers(give, o) == { n \in Node : give[n] # 0 /\ modules[give[n]] = o }
    <2>1. PICK give \in [Node -> 0..Len(modules)] :
             /\ Gives(give, obj, nds, lives)
             /\ alive' = lives
             /\ object' = [o \in Object |->
                    IF takers(give, o) = {} THEN obj[o]
                    ELSE [status |-> "started", node |-> CHOOSE n \in takers(give, o) : TRUE]]
             /\ nodes' = [n \in Node |->
                    IF give[n] = 0 THEN nds[n]
                    ELSE [nds[n] EXCEPT !.busy = TRUE, !.exec = NameOf[modules[give[n]]]]]
             /\ running' = [n \in Node |->
                    IF give[n] = 0 THEN running[n]
                    ELSE running[n] \union {modules[give[n]]}]
             /\ allFree' = AllFree(nodes')
             /\ fault' = fault
      BY <1>2 DEF CheckProcessQueue
    <2>2. \A n \in Node : give[n] # 0 => give[n] \in DOMAIN modules /\ modules[give[n]] \in Object
      OBVIOUS
    <2>3. \A n \in Node : give[n] # 0 => IsFree(nds, n)
      BY <2>1 DEF Gives
    <2>4. \A o \in Object : takers(give, o) # {} => (CHOOSE n \in takers(give, o) : TRUE) \in Node
      OBVIOUS
    <2>5. /\ object' \in [Object -> ObjectState]
          /\ \A o \in Object :
                \/ takers(give, o) = {} /\ object'[o] = obj[o]
                \/ object'[o].status = "started" /\ object'[o].node \in Node
      BY <2>1, <2>4 DEF ObjectState, Status
    <2>6. ASSUME NEW n \in Node
          PROVE  /\ nodes'[n] \in NodeState /\ running'[n] \in SUBSET Object
                 /\ \/ nodes'[n] = nds[n] /\ running'[n] = running[n]
                    \/ /\ nodes'[n].busy /\ give[n] # 0
                       /\ nodes'[n].state = nds[n].state /\ nodes'[n].stoping = nds[n].stoping
                       /\ \E o \in running'[n] : NameOf[o] = nodes'[n].exec
                 /\ give[n] # 0 => nodes'[n].busy
      BY <2>1, <2>2 DEF NodeState, ModuleName
    <2>7. ASSUME alive', NEW o \in ToSet(modules), NEW n \in Node,
                 object'[o].status = "wait", NameOf[o] \in Offers[n]
          PROVE  ~IsFree(nodes', n)
      <3>1. PICK i \in DOMAIN modules : modules[i] = o
        BY DEF ToSet
      <3>2. o \in Object
        BY <3>1
      <3>3. takers(give, o) = {} /\ obj[o].status = "wait" /\ lives
        <4> HIDE DEF takers
        <4> QED
          BY <2>1, <2>5, <2>7, <3>2
      <3>4. \A k \in Node : give[k] # 0 => modules[give[k]] # o
        BY <3>3
      <3> HIDE DEF takers
      <3>5. CASE give[n] # 0
        BY <2>6, <3>5 DEF IsFree
      <3>6. CASE give[n] = 0
        <4> DEFINE fits == { j \in DOMAIN modules :
                        /\ lives /\ obj[modules[j]].status = "wait"
                        /\ NameOf[modules[j]] \in Offers[n]
                        /\ \A k \in Node : k < n /\ give[k] # 0 =>
                                           modules[give[k]] # modules[j] }
        <4>1. i \in fits
          BY <2>7, <3>1, <3>3, <3>4
        <4>2. ~IsFree(nds, n)
          <5>1. IsFree(nds, n) /\ fits # {} => give[n] \in fits
            BY <2>1 DEF Gives
          <5>2. 0 \notin fits
            BY DEF fits
          <5> HIDE DEF fits
          <5> QED
            BY <3>6, <4>1, <5>1, <5>2
        <4> QED
          BY <2>1, <3>6, <4>2 DEF IsFree
      <3> QED
        BY <3>5, <3>6
    <2>8. nodes' \in [Node -> NodeState] /\ running' \in [Node -> SUBSET Object]
      BY <2>1, <2>6
    <2> HIDE DEF takers
    <2> QED
      BY <2>1, <2>3, <2>5, <2>6, <2>7, <2>8 DEF AllFree
  <1> QED
    BY <1>1, <1>2

---------------------------------------------------------------------------
(* Types.                                                                  *)

\* What the events make of a node.
LEMMA NodeStateOps ==
    ASSUME NEW nd \in NodeState
    PROVE  /\ [nd EXCEPT !.state = "up"] \in NodeState
           /\ [nd EXCEPT !.stoping = TRUE] \in NodeState
           /\ [nd EXCEPT !.busy = FALSE, !.stoping = FALSE, !.exec = "none"] \in NodeState
           /\ ~[nd EXCEPT !.busy = FALSE, !.stoping = FALSE, !.exec = "none"].busy
           /\ ~[nd EXCEPT !.busy = FALSE, !.stoping = FALSE, !.exec = "none"].stoping
           /\ [nd EXCEPT !.busy = FALSE, !.stoping = FALSE, !.exec = "none"].state = nd.state
  BY DEF NodeState

LEMMA CommandOps ==
    ASSUME ScriptTypeOK, NEW op, NEW o, Command(op, o)
    PROVE  /\ alive /\ ~fault /\ pc \in DOMAIN script.commands
           /\ script.commands[pc].op = op /\ script.commands[pc].obj = o
           /\ pc' = pc + 1 /\ pc' \in 1..(Len(script.commands) + 2)
           /\ ~Over
           /\ UNCHANGED <<script, alive, nodes, allFree, fault, running, toNode, toServer>>
  <1>1. script.commands \in Seq([op : Ops, obj : Object])
    BY ScriptAssumption DEF ScriptTypeOK
  <1>2. /\ alive /\ ~fault /\ pc \in DOMAIN script.commands
        /\ script.commands[pc] = [op |-> op, obj |-> o]
        /\ pc' = pc + 1
        /\ UNCHANGED <<script, alive, nodes, allFree, fault, running, toNode, toServer>>
    BY DEF Command, serverVars, wireVars
  <1>3. pc \in 1..Len(script.commands) /\ Len(script.commands) \in Nat
    BY <1>1, <1>2
  <1> QED
    BY <1>2, <1>3 DEF Over

LEMMA SignalOps ==
    ASSUME ScriptTypeOK
    PROVE  /\ NewSignal \in Signal /\ NewSignal.id = "new"
           /\ \A o \in Object : object[o].node \in Node =>
                 StopSignal(o) \in Signal /\ StopSignal(o).id = "stop"
  BY DEF NewSignal, StopSignal, Signal, ModuleName

\* The signals that stop posts.
LEMMA StopPosts ==
    ASSUME ScriptTypeOK, NodesKept, NEW o \in Object, Stop(o)
    PROVE  \E more \in Seq(Signal) :
              /\ posted' = posted \o more
              /\ \A i \in DOMAIN more : more[i].id = "stop" /\ more[i].name = NameOf[o]
  <1> DEFINE told == { i \in DOMAIN modules :
                         /\ modules[i] \in { x \in Object : NameOf[x] = NameOf[o] }
                                           \intersect With("started")
                         /\ \A j \in 1..(i - 1) : modules[j] # modules[i] }
             k == Cardinality(told)
  <1>1. PICK order \in [1..k -> told] :
           posted' = posted \o [i \in DOMAIN order |-> StopSignal(modules[order[i]])]
    BY DEF Stop
  <1>2. k \in Nat
    <2>1. modules \in Seq(Object)
      BY DEF ScriptTypeOK
    <2>2. IsFiniteSet(DOMAIN modules)
      <3>1. DOMAIN modules = 1..Len(modules) /\ 1 \in Int /\ Len(modules) \in Int
        BY <2>1
      <3>2. IsFiniteSet(1..Len(modules))
        BY <3>1, FS_Interval
      <3> QED
        BY <3>1, <3>2
    <2>3. told \subseteq DOMAIN modules
      OBVIOUS
    <2> HIDE DEF told
    <2> QED
      BY <2>2, <2>3, FS_Subset, FS_CardinalityType
  <1>3. \A i \in DOMAIN order : /\ StopSignal(modules[order[i]]) \in Signal
                                /\ StopSignal(modules[order[i]]).id = "stop"
                                /\ StopSignal(modules[order[i]]).name = NameOf[o]
    <2> SUFFICES ASSUME NEW i \in DOMAIN order
                 PROVE  /\ StopSignal(modules[order[i]]) \in Signal
                        /\ StopSignal(modules[order[i]]).id = "stop"
                        /\ StopSignal(modules[order[i]]).name = NameOf[o]
      OBVIOUS
    <2>1. order[i] \in told
      OBVIOUS
    <2>2. /\ modules[order[i]] \in Object /\ object[modules[order[i]]].status = "started"
          /\ NameOf[modules[order[i]]] = NameOf[o]
      BY <2>1 DEF With, ScriptTypeOK
    <2> HIDE DEF told
    <2>3. StopSignal(modules[order[i]]).name = NameOf[o]
      BY <2>2 DEF StopSignal
    <2> QED
      BY <2>2, <2>3, SignalOps DEF NodesKept
  <1> HIDE DEF told, k
  <1> DEFINE more == [i \in DOMAIN order |-> StopSignal(modules[order[i]])]
  <1>4. more \in Seq(Signal)
    BY <1>2, <1>3
  <1>5. \A i \in DOMAIN more : more[i].id = "stop" /\ more[i].name = NameOf[o]
    BY <1>3
  <1> QED
    BY <1>1, <1>4, <1>5

LEMMA WaitingOps ==
    ASSUME NEW obj \in [Object -> ObjectState], NEW X
    PROVE  /\ Waiting(obj, X) \in [Object -> ObjectState]
           /\ \A o \in Object : /\ o \in X => Waiting(obj, X)[o].status = "wait"
                                /\ o \notin X => Waiting(obj, X)[o] = obj[o]
                                /\ Waiting(obj, X)[o].node = obj[o].node
  BY DEF Waiting, ObjectState, Status

\* What stop makes of the objects.
LEMMA StopOps ==
    ASSUME ScriptTypeOK, NEW o \in Object, Stop(o)
    PROVE  /\ object' \in [Object -> ObjectState]
           /\ \A x \in Object :
                 \/ object'[x] = object[x]
                 \/ /\ object'[x].status \in {"stoped", "stopping"}
                    /\ object[x].status \in {"wait", "started"}
                    /\ NameOf[x] = NameOf[o] /\ object'[x].node = object[x].node
  <1> DEFINE same == { x \in Object : NameOf[x] = NameOf[o] }
             W == same \intersect With("wait")
             S == same \intersect With("started")
  <1>1. object' = [x \in Object |->
                CASE x \in W -> [object[x] EXCEPT !.status = "stoped"]
                  [] x \in S -> [object[x] EXCEPT !.status = "stopping"]
                  [] OTHER -> object[x]]
    BY DEF Stop
  <1>2. \A x \in Object : /\ object[x] \in ObjectState
                          /\ [object[x] EXCEPT !.status = "stoped"] \in ObjectState
                          /\ [object[x] EXCEPT !.status = "stopping"] \in ObjectState
                          /\ [object[x] EXCEPT !.status = "stoped"].status = "stoped"
                          /\ [object[x] EXCEPT !.status = "stopping"].status = "stopping"
                          /\ [object[x] EXCEPT !.status = "stoped"].node = object[x].node
                          /\ [object[x] EXCEPT !.status = "stopping"].node = object[x].node
    BY DEF ScriptTypeOK, ObjectState, Status
  <1>3. \A x \in W \union S : NameOf[x] = NameOf[o] /\ object[x].status \in {"wait", "started"}
    BY DEF With
  <1> HIDE DEF W, S
  <1>4. \A x \in Object : \/ object'[x] = object[x]
                          \/ x \in W /\ object'[x] = [object[x] EXCEPT !.status = "stoped"]
                          \/ x \in S /\ object'[x] = [object[x] EXCEPT !.status = "stopping"]
    BY <1>1
  <1>5. \A x \in Object : object'[x] \in ObjectState
    BY <1>2, <1>4
  <1>6. object' \in [Object -> ObjectState]
    BY <1>1, <1>5
  <1>7. ASSUME NEW x \in Object, object'[x] # object[x]
        PROVE  /\ object'[x].status \in {"stoped", "stopping"}
               /\ object[x].status \in {"wait", "started"}
               /\ NameOf[x] = NameOf[o] /\ object'[x].node = object[x].node
    <2>1. CASE x \in W /\ object'[x] = [object[x] EXCEPT !.status = "stoped"]
      BY <1>2, <1>3, <2>1
    <2>2. CASE x \in S /\ object'[x] = [object[x] EXCEPT !.status = "stopping"]
      BY <1>2, <1>3, <2>2
    <2> QED
      BY <1>4, <1>7, <2>1, <2>2
  <1> QED
    BY <1>6, <1>7

\* The types of what the script thread changes.
LEMMA ThreadTyped ==
    ASSUME ScriptTypeOK, NodesKept, ScriptThread
    PROVE  ScriptTypeOK'
  <1>1. /\ script \in Scripts /\ object \in [Object -> ObjectState] /\ modules \in Seq(Object)
        /\ posted \in Seq(Signal) /\ NewSignal \in Signal
        /\ pc \in 1..(Len(script.commands) + 2) /\ Len(script.commands) \in Nat
    <2>1. script.commands \in Seq([op : Ops, obj : Object])
      BY ScriptAssumption DEF ScriptTypeOK
    <2> QED
      BY <2>1, SignalOps DEF ScriptTypeOK
  <1>2. ASSUME NEW op, NEW o, Command(op, o), object' \in [Object -> ObjectState],
               modules' \in Seq(Object), posted' \in Seq(Signal)
        PROVE  ScriptTypeOK'
    BY <1>2, CommandOps DEF ScriptTypeOK
  <1>3. ASSUME NEW o \in Object, New(o)
        PROVE  ScriptTypeOK'
    <2>1. modules' \in Seq(Object)
      BY <1>1, <1>3 DEF New
    <2> QED
      BY <1>1, <1>2, <1>3, <2>1 DEF New
  <1>4. ASSUME NEW o \in Object, Start(o)
        PROVE  ScriptTypeOK'
    <2>1. object' \in [Object -> ObjectState] /\ posted' \in Seq(Signal)
      BY <1>1, <1>4, WaitingOps DEF Start
    <2> QED
      BY <1>1, <1>2, <1>4, <2>1 DEF Start
  <1>5. ASSUME NEW o \in Object, StartElement(o)
        PROVE  ScriptTypeOK'
    <2>1. /\ object' \in [Object -> ObjectState] /\ posted' \in Seq(Signal)
          /\ modules' \in Seq(Object)
      BY <1>1, <1>5, WaitingOps DEF StartElement
    <2> QED
      BY <1>2, <1>5, <2>1 DEF StartElement
  <1>6. ASSUME NEW o \in Object, WaitForFinished(o)
        PROVE  ScriptTypeOK'
    BY <1>1, <1>2, <1>6 DEF WaitForFinished
  <1>7. ASSUME NEW o \in Object, Stop(o)
        PROVE  ScriptTypeOK'
    <2>1. posted' \in Seq(Signal)
      <3>1. PICK more \in Seq(Signal) : posted' = posted \o more
        BY <1>7, StopPosts
      <3> QED
        BY <1>1, <3>1, JoinOps
    <2>2. modules' = modules /\ Command("stop", o)
      BY <1>7 DEF Stop
    <2> QED
      BY <1>1, <1>2, <1>7, <2>1, <2>2, StopOps
  <1>8. CASE Return
    BY <1>1, <1>8
    DEF Return, Returning, ScriptTypeOK, processVars, serverVars, wireVars, historyVars
  <1> QED
    BY <1>3, <1>4, <1>5, <1>6, <1>7, <1>8 DEF ScriptThread

LEMMA LoopTyped ==
    ASSUME ScriptTypeOK, NEW obj \in [Object -> ObjectState], NEW nds \in [Node -> NodeState],
           NEW lives \in BOOLEAN, CheckProcessQueue(obj, nds, lives),
           UNCHANGED <<script, pc, modules>>, posted' \in Seq(Signal),
           toNode' \in [Node -> Seq(ModuleName)], toServer' \in [Node -> Seq(Report)]
    PROVE  ScriptTypeOK'
  <1>1. /\ modules \in Seq(Object) /\ running \in [Node -> SUBSET Object] /\ fault \in BOOLEAN
        /\ script \in Scripts /\ pc \in 1..(Len(script.commands) + 2)
    BY DEF ScriptTypeOK
  <1>2. /\ object' \in [Object -> ObjectState] /\ nodes' \in [Node -> NodeState]
        /\ running' \in [Node -> SUBSET Object]
        /\ alive' \in BOOLEAN /\ allFree' \in BOOLEAN /\ fault' \in BOOLEAN
    BY <1>1, QueueOps
  <1> QED
    BY <1>1, <1>2 DEF ScriptTypeOK

LEMMA ClearedOps ==
    ASSUME ScriptTypeOK, NEW n \in Node
    PROVE  /\ Cleared(n) \in [Node -> NodeState]
           /\ ~Cleared(n)[n].busy /\ ~Cleared(n)[n].stoping
           /\ Cleared(n)[n].state = nodes[n].state
           /\ \A k \in Node : k # n => Cleared(n)[k] = nodes[k]
  <1>1. nodes \in [Node -> NodeState]
    BY DEF ScriptTypeOK
  <1> DEFINE nd == [nodes[n] EXCEPT !.busy = FALSE, !.stoping = FALSE, !.exec = "none"]
  <1>2. nd \in NodeState /\ ~nd.busy /\ ~nd.stoping /\ nd.state = nodes[n].state
    BY <1>1, NodeStateOps
  <1>3. Cleared(n) = [nodes EXCEPT ![n] = nd]
    BY DEF Cleared
  <1> HIDE DEF nd
  <1> QED
    BY <1>1, <1>2, <1>3

\* A module ends: its objects are done, and handlers that run start others.
LEMMA FinishOps ==
    ASSUME ScriptTypeOK, NEW n \in Node, NEW name, FinishModule(n, name)
    PROVE  \E next \in [Object -> ObjectState] :
              /\ CheckProcessQueue(next, Cleared(n), ~Completed(next))
              /\ \A o \in Object : \/ next[o] = object[o]
                                   \/ next[o].status = "done"
                                   \/ next[o].status = "wait" /\ Over
  <1> DEFINE X == EndedOn(n, name)
             fires == { o \in X : script.edp /\ ~nodes[n].stoping /\ script.onFinish[o] # {} }
             handled == IF Over THEN fires ELSE {}
             begun == UNION { script.onFinish[o] : o \in handled }
             done == [o \in Object |-> IF o \in X THEN [object[o] EXCEPT !.status = "done"]
                                                  ELSE object[o]]
             next == Waiting(done, begun)
  <1>1. CheckProcessQueue(next, Cleared(n), ~Completed(next))
    BY DEF FinishModule
  <1>2. /\ done \in [Object -> ObjectState]
        /\ \A o \in Object : done[o] = object[o] \/ done[o].status = "done"
    <2> HIDE DEF X
    <2> QED
      BY DEF ScriptTypeOK, ObjectState, Status
  <1>3. begun # {} => Over
    OBVIOUS
  <1> HIDE DEF done, begun
  <1>4. /\ next \in [Object -> ObjectState]
        /\ \A o \in Object : next[o] = done[o] \/ (next[o].status = "wait" /\ Over)
    BY <1>2, <1>3, WaitingOps
  <1> HIDE DEF next
  <1> QED
    BY <1>1, <1>2, <1>4

\* A report that is heard.
LEMMA HearsOps ==
    ASSUME ScriptTypeOK, NEW n \in Node, NEW kinds, Hears(n, kinds)
    PROVE  /\ ~fault /\ toServer[n] # <<>> /\ Head(toServer[n]).kind \in kinds
           /\ toServer' \in [Node -> Seq(Report)] /\ toServer'[n] = Tail(toServer[n])
           /\ \A k \in Node : k # n => toServer'[k] = toServer[k]
           /\ UNCHANGED <<script, pc, modules, posted, toNode>>
           /\ Head(toServer[n]) \in Report
  <1>1. toServer[n] \in Seq(Report) /\ toServer \in [Node -> Seq(Report)]
    BY DEF ScriptTypeOK
  <1>2. toServer[n] # <<>> /\ toServer' = [toServer EXCEPT ![n] = Tail(@)]
    BY DEF Hears
  <1>3. Tail(toServer[n]) \in Seq(Report) /\ Head(toServer[n]) \in Report
    BY <1>1, <1>2, TailOps
  <1> QED
    BY <1>1, <1>2, <1>3 DEF Hears

LEMMA PostedOps ==
    ASSUME ScriptTypeOK, NEW id, Posted(id)
    PROVE  /\ ~fault /\ posted # <<>> /\ Head(posted) \in Signal /\ Head(posted).id = id
           /\ posted' = Tail(posted) /\ posted' \in Seq(Signal)
  BY TailOps DEF ScriptTypeOK, Posted

LEMMA MainTyped ==
    ASSUME ScriptTypeOK, MainThread
    PROVE  ScriptTypeOK'
  <1>1. /\ object \in [Object -> ObjectState] /\ nodes \in [Node -> NodeState]
        /\ posted \in Seq(Signal) /\ alive \in BOOLEAN
        /\ toNode \in [Node -> Seq(ModuleName)] /\ toServer \in [Node -> Seq(Report)]
    BY DEF ScriptTypeOK
  <1>2. CASE NewModulesAvailable
    <2>1. posted' \in Seq(Signal) /\ UNCHANGED <<script, pc, modules, toNode, toServer>>
      BY <1>2, PostedOps DEF NewModulesAvailable
    <2>2. CASE CheckProcessQueue(object, nodes, TRUE)
      BY <1>1, <2>1, <2>2, LoopTyped
    <2>3. CASE UNCHANGED <<object, alive, serverVars, running>>
      BY <2>1, <2>3 DEF ScriptTypeOK, serverVars
    <2> QED
      BY <1>2, <2>2, <2>3 DEF NewModulesAvailable
  <1>3. CASE StopModuleOnNode
    <2>1. /\ posted' \in Seq(Signal) /\ Head(posted) \in Signal /\ Head(posted).id = "stop"
          /\ UNCHANGED <<script, pc, processVars, allFree, fault, running, toServer>>
      BY <1>3, PostedOps DEF StopModuleOnNode
    <2>2. Head(posted).node \in Node /\ Head(posted).name \in ModuleName
      BY <2>1 DEF Signal
    <2>3. nodes' \in [Node -> NodeState] /\ toNode' \in [Node -> Seq(ModuleName)]
      <3>1. CASE UNCHANGED <<nodes, toNode>>
        BY <1>1, <3>1
      <3> PICK n \in Node, name \in ModuleName : n = Head(posted).node /\ name = Head(posted).name
        BY <2>2
      <3>2. CASE /\ nodes' = [nodes EXCEPT ![n].stoping = TRUE]
                 /\ toNode' = [toNode EXCEPT ![n] = Append(@, name)]
        <4>1. nodes' \in [Node -> NodeState]
          BY <1>1, <3>2, NodeStateOps
        <4>2. Append(toNode[n], name) \in Seq(ModuleName)
          BY <1>1, AppendOps
        <4> QED
          BY <1>1, <3>2, <4>1, <4>2
      <3> QED
        BY <1>3, <3>1, <3>2 DEF StopModuleOnNode
    <2> QED
      BY <2>1, <2>3 DEF ScriptTypeOK, processVars
  <1>4. ASSUME NEW n \in Node, NEW kinds, Hears(n, kinds),
               \/ Dropped
               \/ FinishModule(n, Head(toServer[n]).name)
               \/ CheckProcessQueue(object, Cleared(n), TRUE)
               \/ CheckProcessQueue(object, Cleared(n), FALSE)
        PROVE  ScriptTypeOK'
    <2>1. /\ toServer' \in [Node -> Seq(Report)] /\ posted' \in Seq(Signal)
          /\ toNode' \in [Node -> Seq(ModuleName)] /\ UNCHANGED <<script, pc, modules>>
          /\ Cleared(n) \in [Node -> NodeState]
      BY <1>1, <1>4, HearsOps, ClearedOps
    <2>2. CASE Dropped
      BY <2>1, <2>2 DEF Dropped, ScriptTypeOK, serverVars
    <2>3. CASE FinishModule(n, Head(toServer[n]).name)
      <3>1. PICK next \in [Object -> ObjectState] :
               CheckProcessQueue(next, Cleared(n), ~Completed(next))
        BY <2>3, FinishOps
      <3>2. (~Completed(next)) \in BOOLEAN
        OBVIOUS
      <3> QED
        BY <2>1, <3>1, <3>2, LoopTyped
    <2>4. CASE CheckProcessQueue(object, Cleared(n), TRUE) \/ CheckProcessQueue(object, Cleared(n), FALSE)
      BY <1>1, <2>1, <2>4, LoopTyped
    <2> QED
      BY <1>4, <2>2, <2>3, <2>4
  <1> QED
    BY <1>2, <1>3, <1>4 DEF MainThread, EndModuleSuccess, EndModuleFailed, StopModuleSuccess

LEMMA NodeTyped ==
    ASSUME ScriptTypeOK, NEW n \in Node, NodeStep(n) \/ NodeConnected(n) \/ NodeDisconnected(n)
    PROVE  ScriptTypeOK'
  <1>1. /\ object \in [Object -> ObjectState] /\ nodes \in [Node -> NodeState]
        /\ posted \in Seq(Signal) /\ alive \in BOOLEAN /\ running \in [Node -> SUBSET Object]
        /\ toNode \in [Node -> Seq(ModuleName)] /\ toServer \in [Node -> Seq(Report)]
    BY DEF ScriptTypeOK
  <1>2. ASSUME NEW kind \in {"ok", "bad", "stopped"}, NEW name \in ModuleName,
               Reports(n, kind, name)
        PROVE  toServer' \in [Node -> Seq(Report)]
    <2>1. [kind |-> kind, name |-> name] \in Report
      BY DEF Report
    <2>2. Append(toServer[n], [kind |-> kind, name |-> name]) \in Seq(Report)
      BY <1>1, <2>1, AppendOps
    <2> QED
      BY <1>1, <1>2, <2>2 DEF Reports
  <1>3. ASSUME NEW o \in Object, NEW kind \in {"ok", "bad"}, ProgramEnds(n, o, kind)
        PROVE  ScriptTypeOK'
    <2>1. toServer' \in [Node -> Seq(Report)]
      BY <1>2, <1>3 DEF ProgramEnds, ModuleName
    <2>2. running' \in [Node -> SUBSET Object]
      BY <1>1, <1>3 DEF ProgramEnds
    <2> QED
      BY <1>3, <2>1, <2>2 DEF ProgramEnds, ScriptTypeOK, processVars, serverVars
  <1>4. CASE StopProgram(n)
    <2>1. Head(toNode[n]) \in ModuleName /\ Tail(toNode[n]) \in Seq(ModuleName)
      BY <1>1, <1>4, TailOps DEF StopProgram
    <2>2. toServer' \in [Node -> Seq(Report)]
      BY <1>2, <1>4, <2>1 DEF StopProgram
    <2>3. running' \in [Node -> SUBSET Object] /\ toNode' \in [Node -> Seq(ModuleName)]
      BY <1>1, <1>4, <2>1 DEF StopProgram
    <2> QED
      BY <1>4, <2>2, <2>3 DEF StopProgram, ScriptTypeOK, processVars, serverVars
  <1>5. CASE NodeConnected(n)
    <2> DEFINE nds == [nodes EXCEPT ![n].state = "up"]
    <2>1. nds \in [Node -> NodeState]
      BY <1>1, NodeStateOps
    <2>2. CheckProcessQueue(object, nds, alive) /\ UNCHANGED <<script, pc, modules>>
      BY <1>5 DEF NodeConnected
    <2>3. /\ posted' \in Seq(Signal) /\ toNode' \in [Node -> Seq(ModuleName)]
          /\ toServer' \in [Node -> Seq(Report)]
      BY <1>1, <1>5 DEF NodeConnected
    <2> HIDE DEF nds
    <2> QED
      BY <1>1, <2>1, <2>2, <2>3, LoopTyped
  <1>6. CASE NodeDisconnected(n)
    <2>1. nodes' \in [Node -> NodeState]
      BY <1>1, <1>6 DEF NodeDisconnected, NodeState, NewNode
    <2>2. /\ running' \in [Node -> SUBSET Object] /\ toNode' \in [Node -> Seq(ModuleName)]
          /\ toServer' \in [Node -> Seq(Report)]
      BY <1>1, <1>6 DEF NodeDisconnected
    <2> QED
      BY <1>6, <2>1, <2>2 DEF NodeDisconnected, ScriptTypeOK, processVars
  <1> QED
    BY <1>3, <1>4, <1>5, <1>6 DEF NodeStep

LEMMA StopProcessTyped ==
    ASSUME ScriptTypeOK, StopProcess
    PROVE  ScriptTypeOK'
  <1>1. /\ object \in [Object -> ObjectState] /\ nodes \in [Node -> NodeState]
        /\ posted \in Seq(Signal)
        /\ toNode \in [Node -> Seq(ModuleName)] /\ toServer \in [Node -> Seq(Report)]
    BY DEF ScriptTypeOK
  <1>2. CASE Over
    BY <1>1, <1>2, LoopTyped DEF StopProcess
  <1>3. CASE ~Over
    BY <1>3 DEF StopProcess, ScriptTypeOK
  <1> QED
    BY <1>2, <1>3

LEMMA InitTyped ==
    ASSUME ScriptInit
    PROVE  ScriptTypeOK /\ QueueInv
  <1>1. script.commands \in Seq([op : Ops, obj : Object])
    BY ScriptAssumption DEF ScriptInit
  <1>2. nodes \in [Node -> NodeState] /\ \A n \in Node : ~nodes[n].busy /\ ~nodes[n].stoping
    BY DEF ScriptInit, NodeState, NewNode
  <1>3. object \in [Object -> ObjectState] /\ \A o \in Object : object[o].status = "new"
    BY DEF ScriptInit, ObjectState, Status
  <1>4. posted \in Seq(Signal)
    <2>1. NewSignal \in Signal
      BY DEF NewSignal, Signal
    <2> QED
      BY <2>1 DEF ScriptInit
  <1>5. ScriptTypeOK
    <2>1. pc \in 1..(Len(script.commands) + 2)
      BY <1>1 DEF ScriptInit
    <2>2. \A S : <<>> \in Seq(S)
      OBVIOUS
    <2>3. /\ running \in [Node -> SUBSET Object] /\ modules \in Seq(Object)
          /\ toNode \in [Node -> Seq(ModuleName)] /\ toServer \in [Node -> Seq(Report)]
      BY <2>2, Zenon DEF ScriptInit
    <2>4. script \in Scripts /\ alive \in BOOLEAN /\ allFree \in BOOLEAN /\ fault \in BOOLEAN
      BY DEF ScriptInit
    <2> QED
      BY <1>2, <1>3, <1>4, <2>1, <2>3, <2>4 DEF ScriptTypeOK
  <1>6. With("wait") = {}
    BY DEF ScriptInit, With, ToSet
  <1>7. LoopComes
    BY <1>2, <1>6 DEF ScriptInit, LoopComes, AllFree
  <1>8. BusyAwaited /\ NodesKept /\ WaitsStarted
    BY <1>2, <1>3 DEF BusyAwaited, NodeAwaited, NodesKept, WaitsStarted
  <1> QED
    BY <1>5, <1>7, <1>8 DEF QueueInv

---------------------------------------------------------------------------
(* The queue.                                                              *)

\* The loop, run after an event that ended objects, cleared or added a node.
LEMMA LoopKeeps ==
    ASSUME ScriptTypeOK, QueueInv,
           NEW obj \in [Object -> ObjectState], NEW nds \in [Node -> NodeState],
           NEW lives \in BOOLEAN, CheckProcessQueue(obj, nds, lives),
           UNCHANGED <<script, pc, modules>>,
           \A o \in Object : \/ obj[o] = object[o]
                             \/ obj[o].status = "done"
                             \/ obj[o].status = "wait" /\ Over,
           \A n \in Node : /\ nds[n].busy => nds[n].state = "up"
                           /\ nds[n].stoping => nds[n].busy,
           lives => \A n \in Node : nds[n].busy =>
                       Awaited(nds[n], running[n], toNode'[n], toServer'[n])
    PROVE  QueueInv'
  <1>1. /\ alive' => lives
        /\ allFree' = AllFree(nodes')
        /\ \A n \in Node :
              \/ nodes'[n] = nds[n] /\ running'[n] = running[n]
              \/ /\ IsFree(nds, n) /\ nodes'[n].busy
                 /\ nodes'[n].state = nds[n].state /\ nodes'[n].stoping = nds[n].stoping
                 /\ \E o \in running'[n] : NameOf[o] = nodes'[n].exec
        /\ \A o \in Object :
              \/ object'[o] = obj[o]
              \/ object'[o].status = "started" /\ object'[o].node \in Node
        /\ alive' => \A o \in ToSet(modules), n \in Node :
              object'[o].status = "wait" /\ NameOf[o] \in Offers[n] => ~IsFree(nodes', n)
    <2>1. modules \in Seq(Object) /\ running \in [Node -> SUBSET Object] /\ fault \in BOOLEAN
      BY DEF ScriptTypeOK
    <2> QED
      BY <2>1, QueueOps
  <1>2. NodesKept'
    <2>1. \A n \in Node : /\ nodes'[n].busy => nodes'[n].state = "up"
                          /\ nodes'[n].stoping => nodes'[n].busy
      BY <1>1 DEF IsFree
    <2>2. \A o \in Object : object'[o].status = "started" => object'[o].node \in Node
      BY <1>1 DEF QueueInv, NodesKept
    <2> QED
      BY <2>1, <2>2 DEF NodesKept
  <1>3. WaitsStarted'
    <2>1. ASSUME NEW o \in Object, object'[o].status = "wait"
          PROVE  object[o].status = "wait" \/ Over
      BY <1>1, <2>1
    <2> QED
      BY <2>1 DEF QueueInv, WaitsStarted, Over
  <1>4. LoopComes'
    BY <1>1 DEF LoopComes, With
  <1>5. ASSUME alive', NEW n \in Node, nodes'[n].busy
        PROVE  Awaited(nodes'[n], running'[n], toNode'[n], toServer'[n])
    <2>1. CASE nodes'[n] = nds[n] /\ running'[n] = running[n]
      BY <1>1, <1>5, <2>1
    <2>2. CASE /\ IsFree(nds, n) /\ nodes'[n].stoping = nds[n].stoping
               /\ \E o \in running'[n] : NameOf[o] = nodes'[n].exec
      BY <2>2 DEF IsFree, Awaited
    <2> QED
      BY <1>1, <2>1, <2>2
  <1>6. BusyAwaited'
    BY <1>5 DEF BusyAwaited, NodeAwaited
  <1> QED
    BY <1>2, <1>3, <1>4, <1>6 DEF QueueInv

\* What a script's command leaves of the queue.
LEMMA CommandKeeps ==
    ASSUME ScriptTypeOK, QueueInv, NEW op, NEW k, Command(op, k),
           \A o \in Object : object'[o].status = "started" => object'[o] = object[o],
           \A o \in Object : object'[o].status = "wait" => object[o].status = "wait" \/ o = k,
           \A o \in With("wait")' : o \in With("wait") \/
               \E i \in DOMAIN posted' : posted'[i].id = "new",
           \A i \in DOMAIN posted : i \in DOMAIN posted' /\ posted'[i] = posted[i]
    PROVE  QueueInv'
  <1>1. /\ alive /\ ~fault /\ pc \in DOMAIN script.commands /\ script.commands[pc].obj = k
        /\ pc' = pc + 1 /\ ~Over
        /\ UNCHANGED <<script, alive, nodes, allFree, fault, running, toNode, toServer>>
    BY CommandOps
  <1>2. BusyAwaited'
    BY <1>1 DEF QueueInv, BusyAwaited, NodeAwaited
  <1>3. NodesKept'
    BY <1>1 DEF QueueInv, NodesKept
  <1>4. WaitsStarted'
    <2> SUFFICES ASSUME NEW o \in Object, object'[o].status = "wait"
                 PROVE  \E i \in DOMAIN script.commands :
                            i < pc + 1 /\ script.commands[i].obj = o
      BY <1>1 DEF WaitsStarted
    <2>1. pc \in Nat /\ DOMAIN script.commands \subseteq Nat
      <3>1. script.commands \in Seq([op : Ops, obj : Object])
        BY ScriptAssumption DEF ScriptTypeOK
      <3> QED
        BY <1>1, <3>1
    <2>2. CASE o = k
      BY <1>1, <2>1, <2>2
    <2>3. CASE o # k
      <3>1. PICK i \in DOMAIN script.commands : i < pc /\ script.commands[i].obj = o
        BY <1>1, <2>3 DEF QueueInv, WaitsStarted
      <3> QED
        BY <2>1, <3>1
    <2> QED
      BY <2>2, <2>3
  <1>5. LoopComes'
    <2> SUFFICES ASSUME \A n \in Node : nodes[n].state # "gone"
                 PROVE  /\ allFree = AllFree(nodes)
                        /\ \A o \in With("wait")', n \in Node :
                              IsFree(nodes, n) /\ NameOf[o] \in Offers[n] =>
                                  \/ \E i \in DOMAIN posted' : posted'[i].id = "new"
                                  \/ ~AllFree(nodes)
      BY <1>1 DEF LoopComes, AllFree, IsFree
    <2>1. /\ allFree = AllFree(nodes)
          /\ \A o \in With("wait"), n \in Node :
                IsFree(nodes, n) /\ NameOf[o] \in Offers[n] =>
                    \/ \E i \in DOMAIN posted : posted[i].id = "new"
                    \/ ~AllFree(nodes)
      BY <1>1 DEF QueueInv, LoopComes
    <2> QED
      BY <2>1
  <1> QED
    BY <1>2, <1>3, <1>4, <1>5 DEF QueueInv

LEMMA ThreadKeeps ==
    ASSUME ScriptTypeOK, QueueInv, ScriptThread
    PROVE  QueueInv'
  <1>1. /\ object \in [Object -> ObjectState] /\ modules \in Seq(Object)
        /\ posted \in Seq(Signal) /\ NewSignal \in Signal /\ NewSignal.id = "new"
    BY SignalOps DEF ScriptTypeOK
  <1>2. ASSUME NEW o \in Object, New(o)
        PROVE  QueueInv'
    <2>1. /\ object' = object /\ posted' = posted /\ Command("new", o)
          /\ modules' = Append(modules, o)
      BY <1>2 DEF New
    <2>2. object[o].status # "wait"
      <3> SUFFICES ASSUME object[o].status = "wait"
                   PROVE  FALSE
        OBVIOUS
      <3>1. /\ pc \in DOMAIN script.commands /\ script.commands[pc].op = "new"
            /\ script.commands[pc].obj = o /\ ~Over
        BY <2>1, CommandOps
      <3>2. PICK i \in DOMAIN script.commands : i < pc /\ script.commands[i].obj = o
        BY <3>1 DEF QueueInv, WaitsStarted
      <3>3. pc <= i
        BY <3>1, <3>2, ScriptAssumption DEF ScriptTypeOK
      <3>4. script.commands \in Seq([op : Ops, obj : Object])
        BY ScriptAssumption DEF ScriptTypeOK
      <3> QED
        BY <3>1, <3>2, <3>3, <3>4
    <2>3. \A x \in ToSet(modules') : x \in ToSet(modules) \/ x = o
      BY <1>1, <2>1, AppendOps DEF ToSet
    <2>4. \A x \in With("wait")' : x \in With("wait")
      BY <2>1, <2>2, <2>3 DEF With
    <2> QED
      BY <2>1, <2>4, CommandKeeps
  <1>3. ASSUME NEW o \in Object, NEW op, Command(op, o), object' = Waiting(object, {o}),
               posted' = Append(posted, NewSignal)
        PROVE  QueueInv'
    <2>1. /\ \A i \in DOMAIN posted : i \in DOMAIN posted' /\ posted'[i] = posted[i]
          /\ \E i \in DOMAIN posted' : posted'[i].id = "new"
      BY <1>1, <1>3, AppendOps
    <2>2. \A x \in Object : /\ object'[x].status = "started" => object'[x] = object[x]
                            /\ object'[x].status = "wait" => object[x].status = "wait" \/ x = o
      BY <1>1, <1>3, WaitingOps
    <2> QED
      BY <1>1, <1>3, <2>1, <2>2, CommandKeeps
  <1>4. ASSUME NEW o \in Object, Start(o) \/ StartElement(o)
        PROVE  QueueInv'
    BY <1>3, <1>4 DEF Start, StartElement
  <1>5. ASSUME NEW o \in Object, WaitForFinished(o)
        PROVE  QueueInv'
    <2>1. Command("wait", o) /\ UNCHANGED <<object, modules, posted>>
      BY <1>5 DEF WaitForFinished
    <2>2. \A x \in With("wait")' : x \in With("wait") \/
              \E i \in DOMAIN posted' : posted'[i].id = "new"
      BY <2>1 DEF With
    <2>3. /\ \A x \in Object : object'[x].status = "started" => object'[x] = object[x]
          /\ \A x \in Object : object'[x].status = "wait" => object[x].status = "wait" \/ x = o
          /\ \A i \in DOMAIN posted : i \in DOMAIN posted' /\ posted'[i] = posted[i]
      BY <2>1
    <2> QED
      BY <2>1, <2>2, <2>3, CommandKeeps, ZenonT(60)
  <1>6. ASSUME NEW o \in Object, Stop(o)
        PROVE  QueueInv'
    <2>1. Command("stop", o) /\ modules' = modules
      BY <1>6 DEF Stop
    <2>2. /\ \A x \in Object : object'[x].status = "started" => object'[x] = object[x]
          /\ \A x \in Object : object'[x].status = "wait" => object[x].status = "wait" \/ x = o
          /\ \A x \in Object : object'[x].status = "wait" => object'[x] = object[x]
      BY <1>6, StopOps
    <2>3. \A i \in DOMAIN posted : i \in DOMAIN posted' /\ posted'[i] = posted[i]
      <3>1. PICK more \in Seq(Signal) : posted' = posted \o more
        BY <1>6, StopPosts DEF QueueInv
      <3> QED
        BY <1>1, <3>1, JoinOps
    <2>4. \A x \in With("wait")' : x \in With("wait") \/
              \E i \in DOMAIN posted' : posted'[i].id = "new"
      <3>1. ToSet(modules) \subseteq Object
        BY <1>1 DEF ToSet
      <3> QED
        BY <2>1, <2>2, <3>1 DEF With
    <2> QED
      BY <2>1, <2>2, <2>3, <2>4, CommandKeeps, ZenonT(60)
  <1>7. CASE Return
    <2>1. /\ pc' = pc + 1 /\ UNCHANGED <<script, posted, object, modules, alive, nodes, allFree,
                                         fault, running, toNode, toServer>>
      BY <1>7 DEF Return, processVars, serverVars, wireVars
    <2>2. pc \in Nat /\ script.commands \in Seq([op : Ops, obj : Object])
      <3>1. script.commands \in Seq([op : Ops, obj : Object])
        BY ScriptAssumption DEF ScriptTypeOK
      <3>2. pc \in 1..(Len(script.commands) + 2)
        BY DEF ScriptTypeOK
      <3> QED
        BY <3>1, <3>2
    <2>3. WaitsStarted'
      BY <2>1, <2>2 DEF QueueInv, WaitsStarted, Over
    <2>4. BusyAwaited' /\ NodesKept' /\ LoopComes'
      BY <2>1 DEF QueueInv, BusyAwaited, NodeAwaited, NodesKept, LoopComes, AllFree, IsFree, With
    <2> QED
      BY <2>3, <2>4 DEF QueueInv
  <1> QED
    BY <1>2, <1>4, <1>5, <1>6, <1>7 DEF ScriptThread

\* A report that is dropped awaits nothing: the process is gone, or the node is
\* being stopped, or the report is of a module the node is not busy with.
LEMMA DroppedKeeps ==
    ASSUME ScriptTypeOK, QueueInv, NEW n \in Node, NEW kinds \in SUBSET {"ok", "bad"},
           Hears(n, kinds), Dropped,
           ~alive \/ nodes[n].stoping \/ Head(toServer[n]).name # nodes[n].exec
    PROVE  QueueInv'
  <1>1. /\ ~fault /\ toServer[n] # <<>> /\ Head(toServer[n]).kind \in kinds
        /\ toServer'[n] = Tail(toServer[n])
        /\ \A k \in Node : k # n => toServer'[k] = toServer[k]
        /\ UNCHANGED <<script, pc, modules, posted, toNode>>
    BY HearsOps
  <1>2. UNCHANGED <<object, alive, nodes, allFree, fault, running>>
    BY DEF Dropped, serverVars
  <1>3. NodesKept' /\ WaitsStarted' /\ LoopComes'
    <2>1. NodesKept' /\ WaitsStarted'
      BY <1>1, <1>2 DEF QueueInv, NodesKept, WaitsStarted, Over
    <2>2. LoopComes'
      BY <1>1, <1>2 DEF QueueInv, LoopComes, AllFree, IsFree, With
    <2> QED
      BY <2>1, <2>2
  <1>4. ASSUME alive, NEW k \in Node, nodes[k].busy
        PROVE  Awaited(nodes[k], running[k], toNode[k], toServer'[k])
    <2>1. Awaited(nodes[k], running[k], toNode[k], toServer[k])
      BY <1>4 DEF QueueInv, BusyAwaited, NodeAwaited
    <2>2. CASE k # n
      BY <1>1, <2>1, <2>2
    <2>3. CASE k = n
      <3>1. toServer[n] \in Seq(Report)
        BY DEF ScriptTypeOK
      <3>2. /\ Head(toServer[n]) = toServer[n][1]
            /\ \A i \in DOMAIN toServer[n] : i # 1 =>
                  /\ i - 1 \in DOMAIN toServer'[n] /\ toServer'[n][i - 1] = toServer[n][i]
        BY <1>1, <3>1, TailOps
      <3>3. ASSUME NEW i \in DOMAIN toServer[n], i # 1
            PROVE  \E j \in DOMAIN toServer'[n] : toServer'[n][j] = toServer[n][i]
        BY <3>2, <3>3
      <3>4. toServer[n][1].kind # "stopped"
        BY <1>1, <3>2
      <3>5. nodes[n].stoping \/ toServer[n][1].name # nodes[n].exec
        BY <1>4, <3>2
      <3>6. CASE \E i \in DOMAIN toServer[n] : toServer[n][i].kind = "stopped"
        BY <2>3, <3>3, <3>4, <3>6 DEF Awaited
      <3>7. CASE nodes[n].stoping /\ toNode[n] # <<>>
        BY <2>3, <3>7 DEF Awaited
      <3>8. CASE ~nodes[n].stoping /\ \E o \in running[n] : NameOf[o] = nodes[n].exec
        BY <2>3, <3>8 DEF Awaited
      <3>9. CASE ~nodes[n].stoping /\ \E i \in DOMAIN toServer[n] : toServer[n][i].name = nodes[n].exec
        BY <2>3, <3>3, <3>5, <3>9 DEF Awaited
      <3> QED
        BY <2>1, <2>3, <3>6, <3>7, <3>8, <3>9 DEF Awaited
    <2> QED
      BY <2>2, <2>3
  <1>5. BusyAwaited'
    BY <1>1, <1>2, <1>4 DEF BusyAwaited, NodeAwaited
  <1> QED
    BY <1>3, <1>5 DEF QueueInv

\* A report that is taken leaves its node with nothing to do, and the loop runs.
LEMMA ClearedKeeps ==
    ASSUME ScriptTypeOK, QueueInv, NEW n \in Node, NEW kinds, Hears(n, kinds),
           NEW obj \in [Object -> ObjectState], NEW lives \in BOOLEAN, lives => alive,
           CheckProcessQueue(obj, Cleared(n), lives),
           \A o \in Object : \/ obj[o] = object[o]
                             \/ obj[o].status = "done"
                             \/ obj[o].status = "wait" /\ Over
    PROVE  QueueInv'
  <1>1. /\ \A k \in Node : k # n => toServer'[k] = toServer[k]
        /\ UNCHANGED <<script, pc, modules, posted, toNode>>
    BY HearsOps
  <1>2. /\ Cleared(n) \in [Node -> NodeState]
        /\ ~Cleared(n)[n].busy /\ ~Cleared(n)[n].stoping
        /\ \A k \in Node : k # n => Cleared(n)[k] = nodes[k]
    BY ClearedOps
  <1>3. \A k \in Node : /\ Cleared(n)[k].busy => Cleared(n)[k].state = "up"
                        /\ Cleared(n)[k].stoping => Cleared(n)[k].busy
    BY <1>2 DEF QueueInv, NodesKept
  <1>4. lives => \A k \in Node : Cleared(n)[k].busy =>
                    Awaited(Cleared(n)[k], running[k], toNode'[k], toServer'[k])
    BY <1>1, <1>2 DEF QueueInv, BusyAwaited, NodeAwaited
  <1> QED
    BY <1>1, <1>2, <1>3, <1>4, LoopKeeps

\* newModulesAvailable_slot finds the process gone or a node busy, or runs the loop.
LEMMA NewModulesKeeps ==
    ASSUME ScriptTypeOK, QueueInv, NewModulesAvailable
    PROVE  QueueInv'
  <1>1. UNCHANGED <<script, pc, modules, toNode, toServer>>
    BY DEF NewModulesAvailable
  <1>2. CASE alive /\ allFree
    <2>1. CheckProcessQueue(object, nodes, TRUE) /\ object \in [Object -> ObjectState]
          /\ nodes \in [Node -> NodeState]
      BY <1>2 DEF NewModulesAvailable, ScriptTypeOK
    <2>2. \A n \in Node : nodes[n].busy =>
             Awaited(nodes[n], running[n], toNode'[n], toServer'[n])
      BY <1>1, <1>2 DEF QueueInv, BusyAwaited, NodeAwaited
    <2>3. \A n \in Node : /\ nodes[n].busy => nodes[n].state = "up"
                          /\ nodes[n].stoping => nodes[n].busy
      BY DEF QueueInv, NodesKept
    <2> QED
      BY <1>1, <2>1, <2>2, <2>3, LoopKeeps
  <1>3. CASE ~(alive /\ allFree)
    <2>1. UNCHANGED <<object, alive, nodes, allFree, fault, running>>
      BY <1>3 DEF NewModulesAvailable, serverVars
    <2>2. BusyAwaited' /\ NodesKept' /\ WaitsStarted'
      BY <1>1, <2>1 DEF QueueInv, BusyAwaited, NodeAwaited, NodesKept, WaitsStarted, Over
    <2>3. LoopComes'
      <3> SUFFICES ASSUME ~fault, \A n \in Node : nodes[n].state # "gone"
                   PROVE  /\ allFree = AllFree(nodes)
                          /\ alive => ~AllFree(nodes)
        BY <1>1, <2>1 DEF LoopComes, AllFree, IsFree
      <3> QED
        BY <1>3 DEF QueueInv, LoopComes
    <2> QED
      BY <2>2, <2>3 DEF QueueInv
  <1> QED
    BY <1>2, <1>3

\* A stop is sent to a node that is busy, and its answer awaited.
LEMMA StopModuleKeeps ==
    ASSUME ScriptTypeOK, QueueInv, StopModuleOnNode
    PROVE  QueueInv'
  <1>1. /\ ~fault /\ posted # <<>> /\ Head(posted) \in Signal /\ Head(posted).id = "stop"
        /\ posted' = Tail(posted)
    BY PostedOps DEF StopModuleOnNode
  <1>2. UNCHANGED <<script, pc, object, modules, alive, allFree, fault, running, toServer>>
    BY DEF StopModuleOnNode, processVars
  <1>3. Head(posted).node \in Node /\ Head(posted).name \in ModuleName
    BY <1>1 DEF Signal
  <1> PICK n \in Node, name \in ModuleName : n = Head(posted).node /\ name = Head(posted).name
    BY <1>3
  <1>4. \/ UNCHANGED <<nodes, toNode>>
        \/ /\ nodes[n].busy
           /\ nodes' = [nodes EXCEPT ![n].stoping = TRUE]
           /\ toNode' = [toNode EXCEPT ![n] = Append(@, name)]
    BY DEF StopModuleOnNode
  <1>5. \A k \in Node :
           /\ nodes'[k].state = nodes[k].state /\ nodes'[k].busy = nodes[k].busy
           /\ \/ nodes'[k] = nodes[k] /\ toNode'[k] = toNode[k]
              \/ nodes[k].busy /\ nodes'[k].stoping /\ toNode'[k] # <<>>
    <2>1. CASE UNCHANGED <<nodes, toNode>>
      BY <2>1
    <2>2. CASE /\ nodes[n].busy
               /\ nodes' = [nodes EXCEPT ![n].stoping = TRUE]
               /\ toNode' = [toNode EXCEPT ![n] = Append(@, name)]
      <3>1. toNode \in [Node -> Seq(ModuleName)] /\ nodes \in [Node -> NodeState]
        BY DEF ScriptTypeOK
      <3>2. toNode'[n] = Append(toNode[n], name) /\ Append(toNode[n], name) # <<>>
        BY <2>2, <3>1, AppendOps
      <3>3. nodes'[n].stoping /\ nodes'[n].state = nodes[n].state /\ nodes'[n].busy = nodes[n].busy
        BY <2>2, <3>1 DEF NodeState
      <3>4. \A k \in Node : k # n => nodes'[k] = nodes[k] /\ toNode'[k] = toNode[k]
        BY <2>2, <3>1
      <3> QED
        BY <2>2, <3>2, <3>3, <3>4
    <2> QED
      BY <1>4, <2>1, <2>2
  <1>6. BusyAwaited'
    <2> SUFFICES ASSUME alive, NEW k \in Node, nodes[k].busy
                 PROVE  Awaited(nodes'[k], running[k], toNode'[k], toServer[k])
      BY <1>2, <1>5 DEF BusyAwaited, NodeAwaited
    <2>1. Awaited(nodes[k], running[k], toNode[k], toServer[k])
      BY DEF QueueInv, BusyAwaited, NodeAwaited
    <2> QED
      BY <1>5, <2>1 DEF Awaited
  <1>7. NodesKept' /\ WaitsStarted'
    BY <1>2, <1>5 DEF QueueInv, NodesKept, WaitsStarted, Over
  <1>8. LoopComes'
    <2>3. /\ AllFree(nodes') = AllFree(nodes) /\ With("wait")' = With("wait")
          /\ \A k \in Node : IsFree(nodes', k) = IsFree(nodes, k)
      <3>1. AllFree(nodes') = AllFree(nodes)
        BY <1>5 DEF AllFree
      <3>2. With("wait")' = With("wait")
        BY <1>2 DEF With
      <3>3. \A k \in Node : IsFree(nodes', k) = IsFree(nodes, k)
        BY <1>5 DEF IsFree
      <3> QED
        BY <3>1, <3>2, <3>3
    <2> SUFFICES ASSUME \A k \in Node : nodes'[k].state # "gone"
                 PROVE  /\ allFree' = AllFree(nodes')
                        /\ alive' => \A o \in With("wait")', k \in Node :
                              IsFree(nodes', k) /\ NameOf[o] \in Offers[k] =>
                                  \/ \E i \in DOMAIN posted' : posted'[i].id = "new"
                                  \/ ~AllFree(nodes')
      BY DEF LoopComes
    <2>1. /\ allFree = AllFree(nodes)
          /\ alive => \A o \in With("wait"), k \in Node :
                IsFree(nodes, k) /\ NameOf[o] \in Offers[k] =>
                    \/ \E i \in DOMAIN posted : posted[i].id = "new"
                    \/ ~AllFree(nodes)
      BY <1>1, <1>5 DEF QueueInv, LoopComes
    <2>2. ASSUME NEW i \in DOMAIN posted, posted[i].id = "new"
          PROVE  \E j \in DOMAIN posted' : posted'[j].id = "new"
      <3>1. posted \in Seq(Signal)
        BY DEF ScriptTypeOK
      <3>2. Head(posted) = posted[1] /\ (i # 1 => i - 1 \in DOMAIN posted' /\ posted'[i - 1] = posted[i])
        BY <1>1, <3>1, TailOps
      <3>3. i # 1
        BY <1>1, <2>2, <3>2
      <3> QED
        BY <2>2, <3>2, <3>3
    <2> QED
      BY <1>2, <2>1, <2>2, <2>3
  <1> QED
    BY <1>6, <1>7, <1>8 DEF QueueInv

LEMMA MainKeeps ==
    ASSUME ScriptTypeOK, QueueInv, MainThread
    PROVE  QueueInv'
  <1>1. object \in [Object -> ObjectState]
    BY DEF ScriptTypeOK
  <1>2. ASSUME NEW n \in Node, NEW kinds, Hears(n, kinds), alive,
               FinishModule(n, Head(toServer[n]).name)
        PROVE  QueueInv'
    <2>1. PICK next \in [Object -> ObjectState] :
             /\ CheckProcessQueue(next, Cleared(n), ~Completed(next))
             /\ \A o \in Object : \/ next[o] = object[o]
                                  \/ next[o].status = "done"
                                  \/ next[o].status = "wait" /\ Over
      BY <1>2, FinishOps
    <2>2. (~Completed(next)) \in BOOLEAN
      OBVIOUS
    <2> QED
      BY <1>2, <2>1, <2>2, ClearedKeeps
  <1>3. ASSUME NEW n \in Node, EndModuleSuccess(n)
        PROVE  QueueInv'
    <2>1. Hears(n, {"ok"})
      BY <1>3 DEF EndModuleSuccess
    <2>2. CASE ~alive \/ nodes[n].stoping \/ Head(toServer[n]).name # nodes[n].exec
      BY <1>3, <2>1, <2>2, DroppedKeeps DEF EndModuleSuccess
    <2>3. CASE ~(~alive \/ nodes[n].stoping \/ Head(toServer[n]).name # nodes[n].exec)
      BY <1>2, <1>3, <2>1, <2>3 DEF EndModuleSuccess
    <2> QED
      BY <2>2, <2>3
  <1>4. ASSUME NEW n \in Node, EndModuleFailed(n)
        PROVE  QueueInv'
    <2>1. Hears(n, {"bad"})
      BY <1>4 DEF EndModuleFailed
    <2>2. CASE ~alive \/ nodes[n].stoping \/ Head(toServer[n]).name # nodes[n].exec
      BY <1>4, <2>1, <2>2, DroppedKeeps DEF EndModuleFailed
    <2>3. CASE ~(~alive \/ nodes[n].stoping \/ Head(toServer[n]).name # nodes[n].exec)
      BY <1>1, <1>4, <2>1, <2>3, ClearedKeeps DEF EndModuleFailed
    <2> QED
      BY <2>2, <2>3
  <1>5. ASSUME NEW n \in Node, StopModuleSuccess(n)
        PROVE  QueueInv'
    <2>1. Hears(n, {"stopped"})
      BY <1>5 DEF StopModuleSuccess
    <2>2. CASE alive
      BY <1>2, <1>5, <2>1, <2>2 DEF StopModuleSuccess
    <2>3. CASE ~alive
      BY <1>1, <1>5, <2>1, <2>3, ClearedKeeps DEF StopModuleSuccess
    <2> QED
      BY <2>2, <2>3
  <1> QED
    BY <1>3, <1>4, <1>5, NewModulesKeeps, StopModuleKeeps DEF MainThread

\* The reports a node adds, and the programs it ends, keep what is awaited.
LEMMA NodeKeeps ==
    ASSUME ScriptTypeOK, QueueInv, NEW n \in Node, NodeStep(n)
    PROVE  QueueInv'
  <1>1. /\ running \in [Node -> SUBSET Object] /\ toServer \in [Node -> Seq(Report)]
        /\ toNode \in [Node -> Seq(ModuleName)]
    BY DEF ScriptTypeOK
  <1>2. ASSUME UNCHANGED <<script, pc, object, modules, posted, alive, nodes, allFree, fault>>,
               alive => \A k \in Node : nodes[k].busy /\ Awaited(nodes[k], running[k], toNode[k], toServer[k])
                            => Awaited(nodes[k], running'[k], toNode'[k], toServer'[k])
        PROVE  QueueInv'
    <2>1. NodesKept' /\ WaitsStarted' /\ LoopComes'
      BY <1>2 DEF QueueInv, NodesKept, WaitsStarted, LoopComes, AllFree, IsFree, With, Over
    <2>2. BusyAwaited'
      BY <1>2 DEF QueueInv, BusyAwaited, NodeAwaited
    <2> QED
      BY <2>1, <2>2 DEF QueueInv
  <1>3. ASSUME NEW kind \in {"ok", "bad", "stopped"}, NEW name \in ModuleName,
               Reports(n, kind, name)
        PROVE  /\ \A i \in DOMAIN toServer[n] :
                     i \in DOMAIN toServer'[n] /\ toServer'[n][i] = toServer[n][i]
               /\ \E i \in DOMAIN toServer'[n] :
                     toServer'[n][i].kind = kind /\ toServer'[n][i].name = name
               /\ \A k \in Node : k # n => toServer'[k] = toServer[k]
    <2>1. [kind |-> kind, name |-> name] \in Report
      BY DEF Report
    <2>2. toServer[n] \in Seq(Report)
      BY <1>1
    <2>3. /\ toServer'[n] = Append(toServer[n], [kind |-> kind, name |-> name])
          /\ \A k \in Node : k # n => toServer'[k] = toServer[k]
      BY <1>1, <1>3 DEF Reports
    <2> QED
      BY <2>1, <2>2, <2>3, AppendOps
  <1>4. ASSUME NEW o \in Object, NEW kind \in {"ok", "bad"}, ProgramEnds(n, o, kind)
        PROVE  QueueInv'
    <2>1. /\ UNCHANGED <<script, pc, object, modules, posted, alive, nodes, allFree, fault>>
          /\ toNode' = toNode /\ Reports(n, kind, NameOf[o]) /\ NameOf[o] \in ModuleName
      BY <1>4 DEF ProgramEnds, processVars, serverVars, ModuleName
    <2>2. /\ \A x \in running[n] : x = o \/ x \in running'[n]
          /\ \A k \in Node : k # n => running'[k] = running[k]
      BY <1>1, <1>4 DEF ProgramEnds
    <2>3. /\ \A i \in DOMAIN toServer[n] :
                i \in DOMAIN toServer'[n] /\ toServer'[n][i] = toServer[n][i]
          /\ \E i \in DOMAIN toServer'[n] : toServer'[n][i].name = NameOf[o]
          /\ \A k \in Node : k # n => toServer'[k] = toServer[k]
      BY <1>3, <2>1
    <2>4. ASSUME NEW k \in Node, Awaited(nodes[k], running[k], toNode[k], toServer[k])
          PROVE  Awaited(nodes[k], running'[k], toNode'[k], toServer'[k])
      <3>1. CASE k # n
        BY <2>1, <2>2, <2>3, <2>4, <3>1
      <3>2. CASE k = n
        BY <2>1, <2>2, <2>3, <2>4, <3>2 DEF Awaited
      <3> QED
        BY <3>1, <3>2
    <2> QED
      BY <1>2, <2>1, <2>4
  <1>5. CASE StopProgram(n)
    <2>1. /\ UNCHANGED <<script, pc, object, modules, posted, alive, nodes, allFree, fault>>
          /\ Reports(n, "stopped", Head(toNode[n])) /\ toNode[n] # <<>>
      BY <1>5 DEF StopProgram, processVars, serverVars
    <2>2. Head(toNode[n]) \in ModuleName
      BY <1>1, <2>1, TailOps
    <2>3. /\ \E i \in DOMAIN toServer'[n] : toServer'[n][i].kind = "stopped"
          /\ \A k \in Node : k # n => toServer'[k] = toServer[k]
      BY <1>3, <2>1, <2>2
    <2>4. \A k \in Node : k # n => running'[k] = running[k] /\ toNode'[k] = toNode[k]
      BY <1>1, <1>5 DEF StopProgram
    <2>5. ASSUME NEW k \in Node, Awaited(nodes[k], running[k], toNode[k], toServer[k])
          PROVE  Awaited(nodes[k], running'[k], toNode'[k], toServer'[k])
      <3>1. CASE k # n
        BY <2>3, <2>4, <2>5, <3>1
      <3>2. CASE k = n
        BY <2>3, <3>2 DEF Awaited
      <3> QED
        BY <3>1, <3>2
    <2> QED
      BY <1>2, <2>1, <2>5
  <1> QED
    BY <1>4, <1>5 DEF NodeStep

\* A node comes, and the loop runs.
LEMMA ConnectedKeeps ==
    ASSUME ScriptTypeOK, QueueInv, NEW n \in Node, NodeConnected(n)
    PROVE  QueueInv'
  <1> DEFINE nds == [nodes EXCEPT ![n].state = "up"]
  <1>1. /\ nodes \in [Node -> NodeState] /\ object \in [Object -> ObjectState] /\ alive \in BOOLEAN
    BY DEF ScriptTypeOK
  <1>2. /\ nodes[n].state = "none" /\ CheckProcessQueue(object, nds, alive)
        /\ UNCHANGED <<script, pc, modules, toNode, toServer>>
    BY DEF NodeConnected
  <1>3. /\ nds \in [Node -> NodeState]
        /\ \A k \in Node : /\ nds[k].busy = nodes[k].busy /\ nds[k].stoping = nodes[k].stoping
                           /\ k # n => nds[k] = nodes[k]
                           /\ k = n => nds[k].state = "up"
    BY <1>1 DEF NodeState
  <1>4. \A k \in Node : /\ nodes[k].busy => nodes[k].state = "up" /\ k # n
                        /\ nodes[k].stoping => nodes[k].busy
    BY <1>2 DEF QueueInv, NodesKept
  <1> HIDE DEF nds
  <1>5. \A k \in Node : /\ nds[k].busy => nds[k].state = "up"
                        /\ nds[k].stoping => nds[k].busy
    BY <1>3, <1>4
  <1>6. alive => \A k \in Node : nds[k].busy =>
                    Awaited(nds[k], running[k], toNode'[k], toServer'[k])
    BY <1>2, <1>3, <1>4 DEF QueueInv, BusyAwaited, NodeAwaited
  <1> QED
    BY <1>1, <1>2, <1>3, <1>5, <1>6, LoopKeeps

\* A node is lost with what it ran, and nothing more is said of the queue.
LEMMA DisconnectedKeeps ==
    ASSUME ScriptTypeOK, QueueInv, NEW n \in Node, NodeDisconnected(n)
    PROVE  QueueInv'
  <1>1. /\ UNCHANGED <<script, pc, object, modules, posted, alive, allFree, fault>>
        /\ nodes' = [nodes EXCEPT ![n] = NewNode("gone")]
        /\ \A k \in Node : k # n =>
              running'[k] = running[k] /\ toNode'[k] = toNode[k] /\ toServer'[k] = toServer[k]
    BY DEF NodeDisconnected, processVars, ScriptTypeOK
  <1>2. /\ nodes'[n].state = "gone" /\ ~nodes'[n].busy /\ ~nodes'[n].stoping
        /\ \A k \in Node : k # n => nodes'[k] = nodes[k]
    BY <1>1 DEF ScriptTypeOK, NewNode
  <1>3. BusyAwaited'
    BY <1>1, <1>2 DEF QueueInv, BusyAwaited, NodeAwaited
  <1>4. NodesKept' /\ WaitsStarted' /\ LoopComes'
    BY <1>1, <1>2 DEF QueueInv, NodesKept, WaitsStarted, LoopComes, Over
  <1> QED
    BY <1>3, <1>4 DEF QueueInv

\* The user stops the process: it is gone, or its script is left without an engine.
LEMMA StopProcessKeeps ==
    ASSUME ScriptTypeOK, QueueInv, StopProcess
    PROVE  QueueInv'
  <1>1. UNCHANGED <<script, pc, modules, posted, toNode, toServer>>
    BY DEF StopProcess
  <1>2. CASE Over
    <2>1. /\ CheckProcessQueue(object, nodes, FALSE) /\ object \in [Object -> ObjectState]
          /\ nodes \in [Node -> NodeState]
      BY <1>2 DEF StopProcess, ScriptTypeOK
    <2>2. \A n \in Node : /\ nodes[n].busy => nodes[n].state = "up"
                          /\ nodes[n].stoping => nodes[n].busy
      BY DEF QueueInv, NodesKept
    <2> QED
      BY <1>1, <2>1, <2>2, LoopKeeps
  <1>3. CASE ~Over
    <2>1. alive' = FALSE /\ fault' = TRUE /\ UNCHANGED <<object, nodes, allFree, running>>
      BY <1>3 DEF StopProcess
    <2> QED
      BY <1>1, <2>1
      DEF QueueInv, BusyAwaited, NodesKept, WaitsStarted, LoopComes, Over
  <1> QED
    BY <1>2, <1>3

---------------------------------------------------------------------------
(* Every step.                                                             *)

LEMMA NextKeeps ==
    ASSUME ScriptTypeOK, QueueInv, [ScriptNext]_vars
    PROVE  ScriptTypeOK' /\ QueueInv'
  <1>1. CASE ScriptThread
    BY <1>1, ThreadTyped, ThreadKeeps DEF QueueInv
  <1>2. CASE MainThread
    BY <1>2, MainTyped, MainKeeps
  <1>3. CASE StopProcess
    BY <1>3, StopProcessTyped, StopProcessKeeps
  <1>4. ASSUME NEW n \in Node, NodeStep(n) \/ NodeConnected(n) \/ NodeDisconnected(n)
        PROVE  ScriptTypeOK' /\ QueueInv'
    BY <1>4, NodeTyped, NodeKeeps, ConnectedKeeps, DisconnectedKeeps
  <1>5. CASE UNCHANGED vars
    <2>1. UNCHANGED <<script, pc, posted, object, modules, alive, nodes, allFree, fault,
                      running, toNode, toServer>>
      BY <1>5 DEF vars, processVars, serverVars, wireVars
    <2>2. ScriptTypeOK'
      BY <2>1 DEF ScriptTypeOK
    <2>3. QueueInv'
      BY <2>1 DEF QueueInv, BusyAwaited, NodeAwaited, NodesKept, WaitsStarted, LoopComes,
                  AllFree, IsFree, With, Over
    <2> QED
      BY <2>2, <2>3
  <1> QED
    BY <1>1, <1>2, <1>3, <1>4, <1>5 DEF ScriptNext

---------------------------------------------------------------------------
(* Modules that are done: objects, and the programs and reports of nodes.  *)

\* The loop gives the objects take: none to two nodes or to a node that works.
Takes(take, obj, nds, lives) ==
    /\ \A n \in Node :
          /\ take[n] = {} => nodes'[n] = nds[n] /\ running'[n] = running[n]
          /\ \A o \in take[n] :
                /\ take[n] = {o} /\ lives /\ IsFree(nds, n)
                /\ obj[o].status = "wait" /\ o \in ToSet(modules)
                /\ object'[o].status = "started" /\ object'[o].node = n
                /\ running'[n] = running[n] \union {o}
                /\ nodes'[n].busy /\ nodes'[n].exec = NameOf[o]
    /\ \A o \in Object : object'[o] = obj[o] \/ \E n \in Node : o \in take[n]

LEMMA QueueTakes ==
    ASSUME NEW obj \in [Object -> ObjectState], NEW nds \in [Node -> NodeState],
           NEW lives \in BOOLEAN, modules \in Seq(Object), running \in [Node -> SUBSET Object],
           CheckProcessQueue(obj, nds, lives)
    PROVE  \E take \in [Node -> SUBSET Object] : Takes(take, obj, nds, lives)
  <1>1. CASE lives /\ Completed(obj)
    <2>1. object' = obj /\ nodes' = nds /\ running' = running
      BY <1>1 DEF CheckProcessQueue
    <2>2. /\ [n \in Node |-> {}] \in [Node -> SUBSET Object]
          /\ Takes([n \in Node |-> {}], obj, nds, lives)
      BY <2>1 DEF Takes
    <2> QED
      BY <2>2
  <1>2. CASE ~(lives /\ Completed(obj))
    <2> DEFINE takers(give, o) == { n \in Node : give[n] # 0 /\ modules[give[n]] = o }
    <2>1. PICK give \in [Node -> 0..Len(modules)] :
             /\ Gives(give, obj, nds, lives)
             /\ object' = [o \in Object |->
                    IF takers(give, o) = {} THEN obj[o]
                    ELSE [status |-> "started", node |-> CHOOSE n \in takers(give, o) : TRUE]]
             /\ nodes' = [n \in Node |->
                    IF give[n] = 0 THEN nds[n]
                    ELSE [nds[n] EXCEPT !.busy = TRUE, !.exec = NameOf[modules[give[n]]]]]
             /\ running' = [n \in Node |->
                    IF give[n] = 0 THEN running[n]
                    ELSE running[n] \union {modules[give[n]]}]
      BY <1>2 DEF CheckProcessQueue
    <2> DEFINE take == [n \in Node |-> IF give[n] = 0 THEN {} ELSE {modules[give[n]]}]
    <2>2. \A n \in Node : give[n] # 0 =>
             /\ give[n] \in DOMAIN modules /\ modules[give[n]] \in Object
             /\ modules[give[n]] \in ToSet(modules)
      BY DEF ToSet
    <2>3. take \in [Node -> SUBSET Object]
      BY <2>2
    <2>4. ASSUME NEW n \in Node, give[n] # 0
          PROVE  /\ lives /\ IsFree(nds, n) /\ obj[modules[give[n]]].status = "wait"
                 /\ \A k \in Node : k < n /\ give[k] # 0 => modules[give[k]] # modules[give[n]]
      <3> DEFINE fits == { i \in DOMAIN modules :
                        /\ lives /\ obj[modules[i]].status = "wait"
                        /\ NameOf[modules[i]] \in Offers[n]
                        /\ \A k \in Node : k < n /\ give[k] # 0 =>
                                           modules[give[k]] # modules[i] }
      <3>1. IsFree(nds, n) /\ give[n] \in fits
        <4>1. \/ IsFree(nds, n) /\ fits # {} /\ give[n] \in fits
              \/ give[n] = 0
          BY <2>1 DEF Gives
        <4> QED
          BY <2>4, <4>1
      <3> QED
        BY <3>1
    <2>5. \A k, n \in Node : give[k] # 0 /\ give[n] # 0 /\ modules[give[k]] = modules[give[n]] => k = n
      <3>1. \A k, n \in Node : k < n \/ n < k \/ k = n
        BY DEF Node
      <3> QED
        BY <2>4, <3>1
    <2>6. ASSUME NEW n \in Node, give[n] # 0
          PROVE  /\ object'[modules[give[n]]].status = "started"
                 /\ object'[modules[give[n]]].node = n
                 /\ running'[n] = running[n] \union {modules[give[n]]}
                 /\ nodes'[n].busy /\ nodes'[n].exec = NameOf[modules[give[n]]]
      <3>1. takers(give, modules[give[n]]) = {n}
        BY <2>5, <2>6
      <3>2. modules[give[n]] \in Object
        BY <2>2, <2>6
      <3>3. object'[modules[give[n]]] = [status |-> "started", node |-> n]
        <4> HIDE DEF takers
        <4> QED
          BY <2>1, <3>1, <3>2
      <3>4. running'[n] = running[n] \union {modules[give[n]]}
        BY <2>1, <2>6
      <3>5. nodes'[n].busy /\ nodes'[n].exec = NameOf[modules[give[n]]]
        <4>1. nodes'[n] = [nds[n] EXCEPT !.busy = TRUE, !.exec = NameOf[modules[give[n]]]]
          BY <2>1, <2>6
        <4>2. nds[n] \in NodeState
          OBVIOUS
        <4> QED
          BY <4>1, <4>2 DEF NodeState
      <3> QED
        BY <3>3, <3>4, <3>5
    <2>7. ASSUME NEW o \in Object
          PROVE  object'[o] = obj[o] \/ \E n \in Node : o \in take[n]
      <3>1. CASE takers(give, o) = {}
        <4> HIDE DEF takers
        <4> QED
          BY <2>1, <3>1
      <3>2. CASE takers(give, o) # {}
        BY <3>2
      <3> QED
        BY <3>1, <3>2
    <2>8. ASSUME NEW n \in Node
          PROVE  /\ take[n] = {} => nodes'[n] = nds[n] /\ running'[n] = running[n]
                 /\ \A o \in take[n] :
                       /\ take[n] = {o} /\ lives /\ IsFree(nds, n)
                       /\ obj[o].status = "wait" /\ o \in ToSet(modules)
                       /\ object'[o].status = "started" /\ object'[o].node = n
                       /\ running'[n] = running[n] \union {o}
                       /\ nodes'[n].busy /\ nodes'[n].exec = NameOf[o]
      <3>1. CASE give[n] = 0
        BY <2>1, <3>1
      <3>2. CASE give[n] # 0
        <4> PICK o \in Object : o = modules[give[n]]
          BY <2>2, <3>2
        <4>1. take[n] = {o} /\ o \in Object /\ o \in ToSet(modules)
          BY <2>2, <3>2
        <4>2. lives /\ IsFree(nds, n) /\ obj[o].status = "wait"
          BY <2>4, <3>2
        <4>3. /\ object'[o].status = "started" /\ object'[o].node = n
              /\ running'[n] = running[n] \union {o}
              /\ nodes'[n].busy /\ nodes'[n].exec = NameOf[o]
          BY <2>6, <3>2
        <4> HIDE DEF take
        <4> QED
          BY <4>1, <4>2, <4>3
      <3> QED
        BY <3>1, <3>2
    <2> HIDE DEF take
    <2>9. Takes(take, obj, nds, lives)
      BY <2>7, <2>8 DEF Takes
    <2> QED
      BY <2>3, <2>9
  <1> QED
    BY <1>1, <1>2

\* What the loop does to one object.
LEMMA LoopObjects ==
    ASSUME ScriptTypeOK, NEW obj \in [Object -> ObjectState], NEW nds \in [Node -> NodeState],
           NEW lives \in BOOLEAN, CheckProcessQueue(obj, nds, lives),
           UNCHANGED <<script, pc, modules>>, ObjectsKept(obj)
    PROVE  /\ ObjectsKept(object)'
           /\ \A o \in Object : object'[o].status = "done" => object'[o] = obj[o]
  <1>1. \A o \in Object : \/ object'[o] = obj[o]
                          \/ /\ obj[o].status = "wait" /\ object'[o].status = "started"
                             /\ o \in ToSet(modules)
    <2>1. modules \in Seq(Object) /\ running \in [Node -> SUBSET Object]
      BY DEF ScriptTypeOK
    <2>2. PICK take \in [Node -> SUBSET Object] : Takes(take, obj, nds, lives)
      BY <2>1, QueueTakes
    <2> QED
      BY <2>2 DEF Takes
  <1>2. ObjectsGiven(object)'
    <2> SUFFICES ASSUME NEW o \in Object
                 PROVE  /\ object'[o].status = "new" => object'[o].node = NoNode
                        /\ object'[o].node # NoNode => o \in ToSet(modules)
                        /\ object'[o].status \in {"stopping", "stoped"} => Stopped(NameOf[o])
      BY DEF ObjectsGiven, Stopped, ToSet
    <2>1. CASE object'[o] = obj[o]
      BY <2>1 DEF ObjectsKept, ObjectsGiven
    <2>2. CASE obj[o].status = "wait" /\ object'[o].status = "started" /\ o \in ToSet(modules)
      BY <2>2
    <2> QED
      BY <1>1, <2>1, <2>2
  <1>3. ObjectsStarted(object)'
    <2>1. script.onFinish \in [Object -> SUBSET Object]
      BY ScriptAssumption DEF ScriptTypeOK
    <2>2. ASSUME NEW o \in Object, object'[o].status # "new"
          PROVE  Over \/ \E i \in DOMAIN script.commands : i < pc /\ Starts(script.commands[i], o)
      <3>1. obj[o].status # "new"
        BY <1>1, <2>2
      <3> QED
        BY <3>1 DEF ObjectsKept, ObjectsStarted
    <2>3. ASSUME NEW o \in Object, NEW p \in script.onFinish[o], object'[p].status # "new"
          PROVE  Over /\ object'[o].status = "done"
      <3>1. p \in Object
        BY <2>1
      <3>2. obj[p].status # "new"
        BY <1>1, <2>3, <3>1
      <3>3. Over /\ obj[o].status = "done"
        BY <3>2 DEF ObjectsKept, ObjectsStarted
      <3> QED
        BY <1>1, <3>3
    <2> QED
      BY <2>2, <2>3 DEF ObjectsStarted, Over
  <1>4. ObjectsAwaited(object)'
    <2>1. \A o \in Object : obj[o].status = "done" => object'[o].status = "done"
      BY <1>1
    <2> QED
      BY <2>1 DEF ObjectsKept, ObjectsAwaited
  <1> QED
    BY <1>1, <1>2, <1>3, <1>4 DEF ObjectsKept

\* The loop gives a module to a node that has no program and no report of its
\* name.
LEMMA LoopOwned ==
    ASSUME ScriptTypeOK, NEW obj \in [Object -> ObjectState], NEW nds \in [Node -> NodeState],
           NEW lives \in BOOLEAN, CheckProcessQueue(obj, nds, lives),
           ObjectsKept(obj), NEW back, NEW finished,
           Owned(obj, nds, running, back, finished)
    PROVE  Owned(object', nodes', running', back, finished)
  <1>1. modules \in Seq(Object) /\ running \in [Node -> SUBSET Object]
    BY DEF ScriptTypeOK
  <1>2. PICK take \in [Node -> SUBSET Object] : Takes(take, obj, nds, lives)
    BY <1>1, QueueTakes
  <1>3. \A o \in Object : \A n \in Node : o \in take[n] =>
           /\ take[n] = {o} /\ IsFree(nds, n) /\ obj[o].status = "wait"
           /\ object'[o].status = "started" /\ object'[o].node = n
           /\ nodes'[n].busy /\ nodes'[n].exec = NameOf[o]
    BY <1>2 DEF Takes
  \* An object that is not sole and has node n keeps n busy with its name.
  <1>4. ASSUME NEW o \in Object, ~Sole(o), ~Stopped(NameOf[o]), NEW n \in Node,
               obj[o].node = n, obj[o].status # "done"
        PROVE  ~IsFree(nds, n) /\ take[n] = {}
    <2>1. nds[n].busy
      BY <1>4 DEF Owned, SharedHeld, Node, NoNode
    <2> QED
      BY <1>2, <2>1 DEF Takes, IsFree
  \* What is unended there was so before, unless it was given there now.
  <1>5. ASSUME NEW n \in Node, NEW name, NEW p \in Unended(object', n, name)
        PROVE  \/ p \in Unended(obj, n, name) /\ object'[p] = obj[p]
               \/ take[n] = {p} /\ NameOf[p] = name
    <2>1. p \in Object /\ object'[p].node = n /\ NameOf[p] = name
          /\ object'[p].status \notin {"done", "stoped"}
      BY <1>5 DEF Unended
    <2>2. CASE object'[p] = obj[p]
      BY <2>1, <2>2 DEF Unended
    <2>3. CASE \E k \in Node : p \in take[k]
      BY <1>3, <2>1, <2>3
    <2> QED
      BY <1>2, <2>1, <2>2, <2>3 DEF Takes
  \* A started object is not given.
  <1>6. ASSUME NEW o \in Object, obj[o].status = "started"
        PROVE  object'[o] = obj[o]
    BY <1>2, <1>3, <1>6 DEF Takes
  \* What was owned stays owned.
  <1>7. ASSUME NEW n \in Node, NEW o \in Object, ~Stopped(NameOf[o]),
               obj[o].status = "started", Unended(obj, n, NameOf[o]) = {o}
        PROVE  object'[o].status = "started" /\ Unended(object', n, NameOf[o]) = {o}
    <2>1. object'[o] = obj[o] /\ obj[o].node = n
      BY <1>6, <1>7 DEF Unended
    <2>2. o \in Unended(object', n, NameOf[o])
      BY <1>7, <2>1 DEF Unended
    <2>3. ASSUME NEW p \in Unended(object', n, NameOf[o]), p # o
          PROVE  FALSE
      <3>1. p \in Object /\ take[n] = {p} /\ NameOf[p] = NameOf[o]
        <4>1. p \in Object
          BY <2>3 DEF Unended
        <4>2. p \in Unended(obj, n, NameOf[o]) \/ (take[n] = {p} /\ NameOf[p] = NameOf[o])
          BY <1>5, <2>3
        <4> QED
          BY <1>7, <2>3, <4>1, <4>2
      <3>2. ~Sole(o)
        BY <2>3, <3>1 DEF Sole
      <3>3. take[n] = {}
        BY <1>4, <1>7, <2>1, <3>2
      <3> QED
        BY <3>1, <3>3
    <2> QED
      BY <1>7, <2>1, <2>2, <2>3
  <1>8. ASSUME NEW n \in Node, NEW o \in running'[n], ~Stopped(NameOf[o])
        PROVE  ProgramOwned(object', back[n], n, o)
    <2>1. CASE o \in running[n]
      <3>1. ProgramOwned(obj, back[n], n, o) /\ o \in Object
        BY <1>1, <1>8, <2>1 DEF Owned
      <3> QED
        BY <1>7, <1>8, <3>1 DEF ProgramOwned
    <2>2. CASE o \notin running[n]
      <3>1. /\ o \in Object /\ take[n] = {o} /\ IsFree(nds, n) /\ obj[o].status = "wait"
            /\ object'[o].status = "started" /\ object'[o].node = n
        BY <1>2, <1>8, <2>2 DEF Takes
      <3>2. o \in Unended(object', n, NameOf[o])
        BY <3>1 DEF Unended
      <3>3. ASSUME NEW p \in Unended(object', n, NameOf[o]), p # o
            PROVE  FALSE
        <4>1. p \in Unended(obj, n, NameOf[o])
          BY <1>5, <3>1, <3>3
        <4>2. /\ p \in Object /\ NameOf[p] = NameOf[o] /\ obj[p].node = n
              /\ obj[p].status # "done"
          BY <4>1 DEF Unended
        <4>3. ~Sole(p)
          BY <3>1, <3>3, <4>2 DEF Sole
        <4> QED
          BY <1>4, <1>8, <3>1, <4>2, <4>3
      <3>4. ASSUME NEW i \in DOMAIN back[n], back[n][i].name = NameOf[o]
            PROVE  FALSE
        <4>1. ReportOwned(obj, back[n], finished, n, i)
          BY <1>8, <3>4 DEF Owned
        <4>2. PICK q \in Object : obj[q].status = "started" /\ Unended(obj, n, NameOf[o]) = {q}
          BY <3>4, <4>1 DEF ReportOwned
        <4>3. NameOf[q] = NameOf[o] /\ obj[q].node = n /\ q # o
          BY <3>1, <4>2 DEF Unended
        <4>4. ~Sole(q)
          BY <3>1, <4>3 DEF Sole
        <4> QED
          BY <1>4, <1>8, <3>1, <4>2, <4>3, <4>4
      <3>5. Unended(object', n, NameOf[o]) = {o}
        BY <3>2, <3>3
      <3> QED
        BY <3>1, <3>4, <3>5 DEF ProgramOwned
    <2> QED
      BY <2>1, <2>2
  <1>9. ASSUME NEW n \in Node, NEW i \in DOMAIN back[n], ~Stopped(back[n][i].name)
        PROVE  ReportOwned(object', back[n], finished, n, i)
    <2>1. ReportOwned(obj, back[n], finished, n, i)
      BY <1>9 DEF Owned
    <2>2. PICK o \in Object : /\ obj[o].status = "started"
                              /\ Unended(obj, n, back[n][i].name) = {o}
                              /\ back[n][i].kind = "ok" => o \in finished
      BY <2>1 DEF ReportOwned
    <2>3. NameOf[o] = back[n][i].name
      BY <2>2 DEF Unended
    <2>4. object'[o].status = "started" /\ Unended(object', n, back[n][i].name) = {o}
      BY <1>7, <1>9, <2>2, <2>3
    <2> QED
      BY <2>1, <2>2, <2>4 DEF ReportOwned
  <1>10. ASSUME NEW o \in Object, ~Sole(o), ~Stopped(NameOf[o]),
                object'[o].status # "done", object'[o].node # NoNode
         PROVE  /\ object'[o].status = "started"
                /\ nodes'[object'[o].node].busy /\ nodes'[object'[o].node].exec = NameOf[o]
    <2>1. CASE object'[o] = obj[o]
      <3>1. PICK n \in Node : obj[o].node = n
        BY <1>10, <2>1 DEF ObjectState
      <3>2. obj[o].status = "started" /\ nds[n].busy /\ nds[n].exec = NameOf[o]
        BY <1>10, <2>1, <3>1 DEF Owned, SharedHeld
      <3>3. take[n] = {}
        BY <1>4, <1>10, <2>1, <3>1
      <3>4. nodes'[n] = nds[n]
        BY <1>2, <3>3 DEF Takes
      <3> QED
        BY <2>1, <3>1, <3>2, <3>4
    <2>2. CASE \E n \in Node : o \in take[n]
      BY <1>3, <2>2
    <2> QED
      BY <1>2, <2>1, <2>2 DEF Takes
  <1> QED
    BY <1>8, <1>9, <1>10 DEF Owned, SharedHeld

\* A module ends: what becomes of the objects, before the loop.
Ends(next, begun, n, name) ==
    /\ CheckProcessQueue(next, Cleared(n), ~Completed(next))
    /\ ran' = ran \ begun /\ lost' = lost
    /\ \A o \in Object :
          /\ next[o].node = object[o].node
          /\ o \in begun => /\ next[o].status = "wait" /\ Over
                            /\ \E q \in EndedOn(n, name) : o \in script.onFinish[q]
          /\ o \notin begun /\ o \in EndedOn(n, name) => next[o].status = "done"
          /\ o \notin begun /\ o \notin EndedOn(n, name) => next[o] = object[o]

LEMMA FinishEnds ==
    ASSUME ScriptTypeOK, NEW n \in Node, NEW name, FinishModule(n, name)
    PROVE  \E next \in [Object -> ObjectState], begun \in SUBSET Object :
              Ends(next, begun, n, name)
  <1> DEFINE X == EndedOn(n, name)
             fires == { o \in X : script.edp /\ ~nodes[n].stoping /\ script.onFinish[o] # {} }
             handled == IF Over THEN fires ELSE {}
             begun == UNION { script.onFinish[o] : o \in handled }
             done == [o \in Object |-> IF o \in X THEN [object[o] EXCEPT !.status = "done"]
                                                  ELSE object[o]]
             next == Waiting(done, begun)
  <1>1. /\ CheckProcessQueue(next, Cleared(n), ~Completed(next))
        /\ ran' = ran \ begun /\ lost' = lost
    BY DEF FinishModule
  <1>2. /\ done \in [Object -> ObjectState]
        /\ \A o \in Object : /\ done[o].node = object[o].node
                             /\ o \in X => done[o].status = "done"
                             /\ o \notin X => done[o] = object[o]
    <2> HIDE DEF X
    <2> QED
      BY DEF ScriptTypeOK, ObjectState, Status
  <1>3. \A o \in begun : Over /\ \E q \in X : o \in script.onFinish[q]
    <2> HIDE DEF X
    <2> QED
      OBVIOUS
  <1>4. begun \in SUBSET Object
    <2>1. script.onFinish \in [Object -> SUBSET Object]
      BY ScriptAssumption DEF ScriptTypeOK
    <2>2. X \subseteq Object
      BY DEF EndedOn, ScriptTypeOK, ToSet
    <2> HIDE DEF X
    <2> QED
      BY <2>1, <2>2
  <1> HIDE DEF X, done, begun
  <1>5. /\ next \in [Object -> ObjectState]
        /\ \A o \in Object : /\ o \in begun => next[o].status = "wait"
                             /\ o \notin begun => next[o] = done[o]
                             /\ next[o].node = done[o].node
    BY <1>2, WaitingOps
  <1> HIDE DEF next
  <1>6. Ends(next, begun, n, name)
    BY <1>1, <1>2, <1>3, <1>5 DEF Ends, X
  <1> QED
    BY <1>4, <1>5, <1>6

\* An object with a node is in the vector, so a report ends whatever it can.
LEMMA EndedAreUnended ==
    ASSUME ScriptTypeOK, ObjectsKept(object), NEW n \in Node, NEW name
    PROVE  EndedOn(n, name) = Unended(object, n, name)
  <1>1. ToSet(modules) \subseteq Object
    BY DEF ScriptTypeOK, ToSet
  <1>2. n # NoNode
    BY DEF Node, NoNode
  <1> QED
    BY <1>1, <1>2 DEF ObjectsKept, ObjectsGiven, EndedOn, Unended

\* What the end of a module, and the handlers it starts, keep of the objects.
LEMMA EndObjects ==
    ASSUME ScriptTypeOK, Orderly, ObjectsKept(object), NEW n \in Node, NEW name,
           NEW next \in [Object -> ObjectState], NEW begun \in SUBSET Object,
           Ends(next, begun, n, name)
    PROVE  /\ ObjectsKept(next)
           /\ \A o \in begun : object[o].status = "new"
           /\ \A o \in EndedOn(n, name) : o \notin begun
  <1> DEFINE X == EndedOn(n, name)
  <1>1. /\ X \subseteq Object
        /\ \A o \in X : object[o].status \notin {"new", "done", "stoped"}
    <2>1. n # NoNode
      BY DEF Node, NoNode
    <2> QED
      BY <2>1, EndedAreUnended DEF Unended, ObjectsKept, ObjectsGiven
  <1>2. \A o \in Object :
          /\ next[o].node = object[o].node
          /\ o \in begun => /\ next[o].status = "wait" /\ Over
                            /\ \E q \in X : o \in script.onFinish[q]
          /\ o \notin begun /\ o \in X => next[o].status = "done"
          /\ o \notin begun /\ o \notin X => next[o] = object[o]
    BY DEF Ends
  <1> HIDE DEF X
  <1>3. \A o \in begun : object[o].status = "new"
    <2> SUFFICES ASSUME NEW o \in begun, object[o].status # "new"
                 PROVE  FALSE
      OBVIOUS
    <2>1. PICK q \in X : o \in script.onFinish[q]
      BY <1>2
    <2>2. object[q].status = "done"
      BY <1>1, <2>1 DEF ObjectsKept, ObjectsStarted
    <2> QED
      BY <1>1, <2>2
  <1>4. \A o \in X : o \notin begun
    BY <1>1, <1>3
  <1>5. ObjectsGiven(next)
    <2> SUFFICES ASSUME NEW o \in Object
                 PROVE  /\ next[o].status = "new" => next[o].node = NoNode
                        /\ next[o].node # NoNode => o \in ToSet(modules)
                        /\ next[o].status \in {"stopping", "stoped"} => Stopped(NameOf[o])
      BY DEF ObjectsGiven
    <2>1. /\ object[o].status = "new" => object[o].node = NoNode
          /\ object[o].node # NoNode => o \in ToSet(modules)
          /\ object[o].status \in {"stopping", "stoped"} => Stopped(NameOf[o])
      BY DEF ObjectsKept, ObjectsGiven
    <2>2. next[o].status \in {"wait", "done"} \/ next[o] = object[o]
      BY <1>2
    <2> QED
      BY <1>2, <2>1, <2>2
  <1>6. ObjectsStarted(next)
    <2>1. script.onFinish \in [Object -> SUBSET Object]
      BY ScriptAssumption DEF ScriptTypeOK
    <2>2. ASSUME NEW o \in Object, next[o].status # "new"
          PROVE  Over \/ \E i \in DOMAIN script.commands : i < pc /\ Starts(script.commands[i], o)
      <3>1. CASE object[o].status # "new"
        BY <3>1 DEF ObjectsKept, ObjectsStarted
      <3>2. CASE object[o].status = "new"
        BY <1>1, <1>2, <2>2, <3>2
      <3> QED
        BY <3>1, <3>2
    <2>3. ASSUME NEW o \in Object, NEW p \in script.onFinish[o], next[p].status # "new"
          PROVE  Over /\ next[o].status = "done"
      <3>1. p \in Object
        BY <2>1
      <3>2. CASE p \in begun
        <4>1. PICK q \in X : p \in script.onFinish[q]
          BY <1>2, <3>1, <3>2
        <4>2. q \in Object
          BY <1>1
        <4>3. q = o
          BY <4>1, <4>2 DEF Orderly
        <4> QED
          BY <1>2, <1>4, <3>1, <3>2, <4>1, <4>2, <4>3
      <3>3. CASE p \notin begun
        <4>1. object[p].status # "new"
          BY <1>1, <1>2, <2>3, <3>1, <3>3
        <4>2. Over /\ object[o].status = "done"
          BY <4>1 DEF ObjectsKept, ObjectsStarted
        <4>3. o \notin begun /\ o \notin X
          BY <1>1, <1>3, <4>2
        <4> QED
          BY <1>2, <4>2, <4>3
      <3> QED
        BY <3>2, <3>3
    <2> QED
      BY <2>2, <2>3 DEF ObjectsStarted
  <1>7. ObjectsAwaited(next)
    <2>1. \A o \in Object : object[o].status = "done" => next[o].status = "done"
      BY <1>1, <1>2, <1>3
    <2> QED
      BY <2>1 DEF ObjectsKept, ObjectsAwaited
  <1> QED
    BY <1>3, <1>4, <1>5, <1>6, <1>7 DEF ObjectsKept, X

\* A report that is heard leaves the others of its node in their order.
LEMMA HeardReports ==
    ASSUME ScriptTypeOK, NEW n \in Node, NEW kinds, Hears(n, kinds)
    PROVE  /\ 1 \in DOMAIN toServer[n] /\ Head(toServer[n]) = toServer[n][1]
           /\ \A k \in Node : k # n => toServer'[k] = toServer[k]
           /\ \A i \in DOMAIN toServer'[n] :
                 /\ i + 1 \in DOMAIN toServer[n] /\ i + 1 # 1 /\ i \in Int
                 /\ toServer'[n][i] = toServer[n][i + 1]
  <1>1. toServer[n] \in Seq(Report)
    BY DEF ScriptTypeOK
  <1>2. /\ toServer[n] # <<>> /\ toServer'[n] = Tail(toServer[n])
        /\ \A k \in Node : k # n => toServer'[k] = toServer[k]
    BY HearsOps
  <1>3. /\ 1 \in DOMAIN toServer[n] /\ Head(toServer[n]) = toServer[n][1]
        /\ \A i \in DOMAIN toServer'[n] : i + 1 \in DOMAIN toServer[n] /\ toServer'[n][i] = toServer[n][i + 1]
    BY <1>1, <1>2, TailOps
  <1>4. \A i \in DOMAIN toServer'[n] : i \in Nat /\ i # 0
    BY <1>1, <1>2
  <1> QED
    BY <1>2, <1>3, <1>4

\* Objects and programs of a name that is not stopped stay owned when a report
\* is heard, if none of them was the report's.
LEMMA HeardOwned ==
    ASSUME ScriptTypeOK, NEW n \in Node, NEW kinds, Hears(n, kinds),
           NEW next \in [Object -> ObjectState], NEW nds, NEW finished,
           Owned(object, nodes, running, toServer, ran), SharedHeld(next, nds),
           \A o \in Object :
              \/ next[o] = object[o] /\ (o \in ran => o \in finished)
              \/ next[o].status = "done" /\ object[o].node = n
                 /\ NameOf[o] = Head(toServer[n]).name
              \/ next[o].node = NoNode /\ object[o].node = NoNode
    PROVE  Owned(next, nds, running, toServer', finished)
  <1> DEFINE M == Head(toServer[n]).name
  <1>1. /\ 1 \in DOMAIN toServer[n] /\ M = toServer[n][1].name
        /\ \A k \in Node : k # n => toServer'[k] = toServer[k]
        /\ \A i \in DOMAIN toServer'[n] :
              /\ i + 1 \in DOMAIN toServer[n] /\ i + 1 # 1 /\ i \in Int
              /\ toServer'[n][i] = toServer[n][i + 1]
    BY HeardReports
  <1>2. \A o \in Object : \/ next[o] = object[o] /\ (o \in ran => o \in finished)
                          \/ next[o].status = "done" /\ object[o].node = n /\ NameOf[o] = M
                          \/ next[o].node = NoNode /\ object[o].node = NoNode
    OBVIOUS
  <1> HIDE DEF M
  <1>3. ASSUME NEW k \in Node, NEW o \in Object, object[o].status = "started",
               Unended(object, k, NameOf[o]) = {o}, k # n \/ NameOf[o] # M
        PROVE  /\ next[o] = object[o] /\ (o \in ran => o \in finished)
               /\ Unended(next, k, NameOf[o]) = {o}
    <2>1. k # NoNode
      BY DEF Node, NoNode
    <2>2. object[o].node = k
      BY <1>3 DEF Unended
    <2>3. next[o] = object[o] /\ (o \in ran => o \in finished)
      BY <1>2, <1>3, <2>1, <2>2
    <2>4. ASSUME NEW p \in Object
          PROVE  p \in Unended(next, k, NameOf[o]) => p \in Unended(object, k, NameOf[o])
      BY <1>2, <2>1 DEF Unended
    <2>5. o \in Unended(next, k, NameOf[o])
      BY <1>3, <2>2, <2>3 DEF Unended
    <2>6. Unended(next, k, NameOf[o]) \subseteq Object
      BY DEF Unended
    <2> QED
      BY <1>3, <2>3, <2>4, <2>5, <2>6
  <1>4. ASSUME NEW k \in Node, NEW o \in running[k], ~Stopped(NameOf[o])
        PROVE  ProgramOwned(next, toServer'[k], k, o)
    <2>1. ProgramOwned(object, toServer[k], k, o) /\ o \in Object
      BY <1>4 DEF Owned, ScriptTypeOK
    <2>2. k # n \/ NameOf[o] # M
      BY <1>1, <2>1 DEF ProgramOwned
    <2>3. next[o].status = "started" /\ Unended(next, k, NameOf[o]) = {o}
      BY <1>3, <2>1, <2>2 DEF ProgramOwned
    <2>4. \A i \in DOMAIN toServer'[k] : toServer'[k][i].name # NameOf[o]
      BY <1>1, <2>1 DEF ProgramOwned
    <2> QED
      BY <2>3, <2>4 DEF ProgramOwned
  <1>5. ASSUME NEW k \in Node, NEW i \in DOMAIN toServer'[k], ~Stopped(toServer'[k][i].name)
        PROVE  ReportOwned(next, toServer'[k], finished, k, i)
    <2>1. PICK j \in DOMAIN toServer[k] :
             /\ toServer[k][j] = toServer'[k][i] /\ (k = n => j # 1)
             /\ \A l \in DOMAIN toServer'[k] :
                   (\A h \in DOMAIN toServer[k] : toServer[k][h].name = toServer[k][j].name => h = j)
                   /\ toServer'[k][l].name = toServer'[k][i].name => l = i
      <3>1. CASE k # n
        BY <1>1, <3>1
      <3>2. CASE k = n
        <4>1. \A l \in DOMAIN toServer'[k] : l + 1 = i + 1 => l = i
          BY <1>1, <3>2
        <4> QED
          BY <1>1, <3>2, <4>1
      <3> QED
        BY <3>1, <3>2
    <2>2. ReportOwned(object, toServer[k], ran, k, j)
      BY <1>5, <2>1 DEF Owned
    <2>3. PICK o \in Object : /\ object[o].status = "started"
                              /\ Unended(object, k, toServer[k][j].name) = {o}
                              /\ toServer[k][j].kind = "ok" => o \in ran
      BY <2>2 DEF ReportOwned
    <2>4. NameOf[o] = toServer[k][j].name
      BY <2>3 DEF Unended
    <2>5. k # n \/ NameOf[o] # M
      BY <1>1, <2>1, <2>2, <2>4 DEF ReportOwned
    <2>6. /\ next[o] = object[o] /\ (o \in ran => o \in finished)
          /\ Unended(next, k, NameOf[o]) = {o}
      BY <1>3, <2>3, <2>4, <2>5
    <2>7. \A l \in DOMAIN toServer'[k] : toServer'[k][l].name = toServer'[k][i].name => l = i
      BY <2>1, <2>2 DEF ReportOwned
    <2> QED
      BY <2>1, <2>3, <2>4, <2>6, <2>7 DEF ReportOwned
  <1> QED
    BY <1>4, <1>5 DEF Owned

LEMMA LoopDone ==
    ASSUME ScriptTypeOK, NEW obj \in [Object -> ObjectState], NEW nds \in [Node -> NodeState],
           NEW lives \in BOOLEAN, CheckProcessQueue(obj, nds, lives),
           UNCHANGED <<script, pc, modules>>, ObjectsKept(obj), StopsNamed',
           lives /\ lost' = {} => Owned(obj, nds, running, toServer', ran'),
           lost' = {} => \A o \in Object : obj[o].status = "done" => o \in ran' \/ Stopped(NameOf[o])
    PROVE  DoneInv'
  <1>1. /\ ObjectsKept(object)'
        /\ \A o \in Object : object'[o].status = "done" => object'[o] = obj[o]
    BY LoopObjects
  <1>2. alive' => lives
    <2>1. modules \in Seq(Object) /\ running \in [Node -> SUBSET Object] /\ fault \in BOOLEAN
      BY DEF ScriptTypeOK
    <2> QED
      BY <2>1, QueueOps
  <1>3. ASSUME alive', lost' = {}
        PROVE  Owned(object, nodes, running, toServer, ran)'
    <2>1. Owned(obj, nds, running, toServer', ran')
      BY <1>2, <1>3
    <2>2. Owned(object', nodes', running', toServer', ran')
      BY <2>1, LoopOwned
    <2>3. \A name : Stopped(name)' = Stopped(name)
      BY DEF Stopped
    <2> QED
      BY <2>2, <2>3 DEF Owned, ProgramOwned, ReportOwned, SharedHeld, Unended
  <1>4. DoneRan'
    <2> SUFFICES ASSUME lost' = {}, NEW o \in Object, object'[o].status = "done"
                 PROVE  o \in ran' \/ Stopped(NameOf[o])
      BY DEF DoneRan, Stopped
    <2>1. object'[o] = obj[o]
      BY <1>1
    <2> QED
      BY <2>1
  <1> QED
    BY <1>1, <1>3, <1>4 DEF DoneInv

\* Fewer signals, and fewer reports, name nothing new.
LEMMA PostedNamed ==
    ASSUME ScriptTypeOK, StopsNamed, NEW id, Posted(id), UNCHANGED <<script, toNode, toServer>>
    PROVE  StopsNamed'
  <1>1. posted \in Seq(Signal) /\ posted # <<>> /\ posted' = Tail(posted)
    BY DEF ScriptTypeOK, Posted
  <1>2. \A i \in DOMAIN posted' : i + 1 \in DOMAIN posted /\ posted'[i] = posted[i + 1]
    BY <1>1, TailOps
  <1> QED
    BY <1>2 DEF StopsNamed, Stopped

LEMMA HeardNamed ==
    ASSUME ScriptTypeOK, StopsNamed, NEW n \in Node, NEW kinds, Hears(n, kinds)
    PROVE  StopsNamed'
  <1>1. /\ \A k \in Node : k # n => toServer'[k] = toServer[k]
        /\ \A i \in DOMAIN toServer'[n] :
              i + 1 \in DOMAIN toServer[n] /\ toServer'[n][i] = toServer[n][i + 1]
    BY HeardReports
  <1>2. UNCHANGED <<script, posted, toNode>>
    BY HearsOps
  <1>3. ASSUME NEW k \in Node, NEW i \in DOMAIN toServer'[k], toServer'[k][i].kind = "stopped"
        PROVE  Stopped(toServer'[k][i].name)
    <2>1. CASE k # n
      BY <1>1, <1>3, <2>1 DEF StopsNamed
    <2>2. CASE k = n
      BY <1>1, <1>3, <2>2 DEF StopsNamed
    <2> QED
      BY <2>1, <2>2
  <1> QED
    BY <1>2, <1>3 DEF StopsNamed, Stopped

\* A report ends the modules it names: what was owned by others stays owned.
LEMMA FinishDone ==
    ASSUME ScriptTypeOK, Orderly, DoneInv, alive, NEW n \in Node, NEW kinds, Hears(n, kinds),
           NEW name, name = Head(toServer[n]).name, FinishModule(n, name),
           \/ Stopped(name)
           \/ name = nodes[n].exec /\ Head(toServer[n]).kind = "ok"
    PROVE  DoneInv'
  <1>1. PICK next \in [Object -> ObjectState], begun \in SUBSET Object : Ends(next, begun, n, name)
    BY FinishEnds
  <1>2. ObjectsKept(object) /\ StopsNamed /\ DoneRan
        /\ (lost = {} => Owned(object, nodes, running, toServer, ran))
    BY DEF DoneInv
  <1>3. /\ ObjectsKept(next)
        /\ \A o \in begun : object[o].status = "new"
        /\ \A o \in EndedOn(n, name) : o \notin begun
    BY <1>1, <1>2, EndObjects
  <1>4. EndedOn(n, name) = Unended(object, n, name)
    BY <1>2, EndedAreUnended
  <1>5. /\ CheckProcessQueue(next, Cleared(n), ~Completed(next))
        /\ ran' = ran \ begun /\ lost' = lost
        /\ \A o \in Object :
              /\ next[o].node = object[o].node
              /\ o \in begun => next[o].status = "wait"
              /\ o \notin begun /\ o \in EndedOn(n, name) => next[o].status = "done"
              /\ o \notin begun /\ o \notin EndedOn(n, name) => next[o] = object[o]
    BY <1>1 DEF Ends
  <1>6. /\ Cleared(n) \in [Node -> NodeState]
        /\ \A k \in Node : k # n => Cleared(n)[k] = nodes[k]
    BY ClearedOps
  <1>7. \A o \in begun : object[o].node = NoNode
    BY <1>2, <1>3 DEF ObjectsKept, ObjectsGiven
  <1>8. \A o \in EndedOn(n, name) : o \in Object /\ object[o].node = n /\ NameOf[o] = name
    BY <1>4 DEF Unended
  <1>9. ASSUME lost = {}
        PROVE  SharedHeld(next, Cleared(n))
    <2> SUFFICES ASSUME NEW o \in Object, ~Sole(o), ~Stopped(NameOf[o]),
                        next[o].status # "done", next[o].node # NoNode
                 PROVE  /\ next[o].status = "started"
                        /\ Cleared(n)[next[o].node].busy /\ Cleared(n)[next[o].node].exec = NameOf[o]
      BY DEF SharedHeld
    <2>1. next[o] = object[o] /\ o \notin EndedOn(n, name)
      BY <1>5, <1>7
    <2>2. object[o].node \in Node
      BY <2>1 DEF ScriptTypeOK, ObjectState
    <2>3. /\ object[o].status = "started"
          /\ nodes[object[o].node].busy /\ nodes[object[o].node].exec = NameOf[o]
      BY <1>2, <1>9, <2>1 DEF Owned, SharedHeld
    <2>4. object[o].node # n
      <3> SUFFICES ASSUME object[o].node = n
                   PROVE  FALSE
        OBVIOUS
      <3>1. NameOf[o] # name
        <4>1. object[o].status # "stoped"
          BY <1>2 DEF ObjectsKept, ObjectsGiven
        <4> QED
          BY <1>4, <2>1, <4>1 DEF Unended
      <3>2. Stopped(name)
        BY <2>3, <3>1
      <3>3. name \in ModuleName
        BY HearsOps DEF Report
      <3> QED
        BY <3>2, <3>3 DEF Orderly
    <2> QED
      BY <1>6, <2>1, <2>2, <2>3, <2>4
  <1>10. lost = {} => Owned(next, Cleared(n), running, toServer', ran')
    <2> SUFFICES ASSUME lost = {}
                 PROVE  Owned(next, Cleared(n), running, toServer', ran')
      OBVIOUS
    <2>1. SharedHeld(next, Cleared(n)) /\ Owned(object, nodes, running, toServer, ran)
      BY <1>2, <1>9
    <2>2. \A o \in Object :
              \/ next[o] = object[o] /\ (o \in ran => o \in ran')
              \/ next[o].status = "done" /\ object[o].node = n
                 /\ NameOf[o] = Head(toServer[n]).name
              \/ next[o].node = NoNode /\ object[o].node = NoNode
      <3> SUFFICES ASSUME NEW o \in Object
                   PROVE  \/ next[o] = object[o] /\ (o \in ran => o \in ran')
                          \/ next[o].status = "done" /\ object[o].node = n
                             /\ NameOf[o] = Head(toServer[n]).name
                          \/ next[o].node = NoNode /\ object[o].node = NoNode
        OBVIOUS
      <3>1. CASE o \in begun
        BY <1>5, <1>7, <3>1
      <3>2. CASE o \notin begun /\ o \in EndedOn(n, name)
        BY <1>5, <1>8, <3>2
      <3>3. CASE o \notin begun /\ o \notin EndedOn(n, name)
        BY <1>5, <3>3
      <3> QED
        BY <3>1, <3>2, <3>3
    <2> QED
      BY <2>1, <2>2, HeardOwned
  <1>11. ASSUME lost = {}, NEW o \in Object, next[o].status = "done"
         PROVE  o \in ran' \/ Stopped(NameOf[o])
    <2>1. o \notin begun
      BY <1>5, <1>11
    <2>2. CASE o \notin EndedOn(n, name)
      BY <1>2, <1>5, <1>11, <2>1, <2>2 DEF DoneRan
    <2>3. CASE o \in EndedOn(n, name) /\ ~Stopped(name)
      <3>1. 1 \in DOMAIN toServer[n] /\ toServer[n][1] = Head(toServer[n])
        BY HeardReports
      <3>2. ReportOwned(object, toServer[n], ran, n, 1)
        BY <1>2, <1>11, <2>3, <3>1 DEF Owned
      <3>3. PICK q \in Object : /\ Unended(object, n, name) = {q}
                                /\ toServer[n][1].kind = "ok" => q \in ran
        BY <3>1, <3>2 DEF ReportOwned
      <3>4. o \in ran
        BY <1>4, <2>3, <3>1, <3>3
      <3> QED
        BY <1>5, <2>1, <3>4
    <2> QED
      BY <1>8, <2>2, <2>3
  <1>12. (~Completed(next)) \in BOOLEAN
    OBVIOUS
  <1>13. UNCHANGED <<script, pc, modules>> /\ StopsNamed'
    BY <1>2, HeardNamed, HearsOps
  <1>14. ~Completed(next) /\ lost' = {} => Owned(next, Cleared(n), running, toServer', ran')
    BY <1>5, <1>10
  <1>15. lost' = {} => \A o \in Object : next[o].status = "done" => o \in ran' \/ Stopped(NameOf[o])
    BY <1>5, <1>11
  <1> QED
    BY <1>3, <1>5, <1>6, <1>12, <1>13, <1>14, <1>15, LoopDone

\* A module that failed is lost with its node's work, and a report that is
\* dropped takes nothing with it.
LEMMA FailedDone ==
    ASSUME ScriptTypeOK, Orderly, DoneInv, alive, NEW n \in Node, NEW kinds, Hears(n, kinds),
           Head(toServer[n]).name = nodes[n].exec,
           CheckProcessQueue(object, Cleared(n), TRUE),
           lost' = lost \union EndedOn(n, nodes[n].exec), ran' = ran
    PROVE  DoneInv'
  <1>1. ObjectsKept(object) /\ StopsNamed /\ DoneRan
        /\ (lost = {} => Owned(object, nodes, running, toServer, ran))
    BY DEF DoneInv
  <1>2. /\ Cleared(n) \in [Node -> NodeState]
        /\ \A k \in Node : k # n => Cleared(n)[k] = nodes[k]
    BY ClearedOps
  <1>3. ASSUME lost' = {}
        PROVE  Owned(object, Cleared(n), running, toServer', ran')
    <2>1. lost = {} /\ EndedOn(n, nodes[n].exec) = {}
      BY <1>3
    <2>2. Unended(object, n, nodes[n].exec) = {}
      BY <1>1, <2>1, EndedAreUnended
    <2>3. SharedHeld(object, Cleared(n))
      <3> SUFFICES ASSUME NEW o \in Object, ~Sole(o), ~Stopped(NameOf[o]),
                          object[o].status # "done", object[o].node # NoNode
                   PROVE  /\ object[o].status = "started"
                          /\ Cleared(n)[object[o].node].busy
                          /\ Cleared(n)[object[o].node].exec = NameOf[o]
        BY DEF SharedHeld
      <3>1. object[o].node \in Node
        BY DEF ScriptTypeOK, ObjectState
      <3>2. /\ object[o].status = "started"
            /\ nodes[object[o].node].busy /\ nodes[object[o].node].exec = NameOf[o]
        BY <1>1, <2>1 DEF Owned, SharedHeld
      <3>3. object[o].status # "stoped"
        BY <1>1 DEF ObjectsKept, ObjectsGiven
      <3>4. object[o].node # n
        BY <2>2, <3>2, <3>3 DEF Unended
      <3> QED
        BY <1>2, <3>1, <3>2, <3>4
    <2>4. \A o \in Object :
              \/ object[o] = object[o] /\ (o \in ran => o \in ran')
              \/ object[o].status = "done" /\ object[o].node = n
                 /\ NameOf[o] = Head(toServer[n]).name
              \/ object[o].node = NoNode /\ object[o].node = NoNode
      OBVIOUS
    <2>5. object \in [Object -> ObjectState] /\ Owned(object, nodes, running, toServer, ran)
      BY <1>1, <2>1 DEF ScriptTypeOK
    <2> QED
      BY <2>3, <2>4, <2>5, HeardOwned
  <1>4. lost' = {} => \A o \in Object : object[o].status = "done" => o \in ran' \/ Stopped(NameOf[o])
    BY <1>1 DEF DoneRan
  <1>5. /\ UNCHANGED <<script, pc, modules>> /\ StopsNamed' /\ TRUE \in BOOLEAN
        /\ object \in [Object -> ObjectState]
    BY <1>1, HeardNamed, HearsOps DEF ScriptTypeOK
  <1>6. TRUE /\ lost' = {} => Owned(object, Cleared(n), running, toServer', ran')
    BY <1>3
  <1> QED
    BY <1>1, <1>2, <1>4, <1>5, <1>6, LoopDone

LEMMA DroppedDone ==
    ASSUME ScriptTypeOK, Orderly, DoneInv, NEW n \in Node, NEW kinds, Hears(n, kinds), Dropped
    PROVE  DoneInv'
  <1>1. UNCHANGED <<script, pc, modules, posted, toNode, object, alive, nodes, running, ran, lost>>
    BY HearsOps DEF Dropped, serverVars, historyVars
  <1>2. ObjectsKept(object) /\ StopsNamed /\ DoneRan
        /\ (alive /\ lost = {} => Owned(object, nodes, running, toServer, ran))
    BY DEF DoneInv
  <1>3. StopsNamed'
    BY <1>2, HeardNamed
  <1>4. \A name : Stopped(name)' = Stopped(name)
    BY <1>1 DEF Stopped
  <1>5. ASSUME alive, lost = {}
        PROVE  Owned(object, nodes, running, toServer', ran)
    <2>1. Owned(object, nodes, running, toServer, ran) /\ SharedHeld(object, nodes)
          /\ object \in [Object -> ObjectState]
      BY <1>2, <1>5 DEF Owned, ScriptTypeOK
    <2>2. \A o \in Object :
              \/ object[o] = object[o] /\ (o \in ran => o \in ran)
              \/ object[o].status = "done" /\ object[o].node = n
                 /\ NameOf[o] = Head(toServer[n]).name
              \/ object[o].node = NoNode /\ object[o].node = NoNode
      OBVIOUS
    <2> QED
      BY <2>1, <2>2, HeardOwned
  <1>6. (alive /\ lost = {} => Owned(object, nodes, running, toServer, ran))'
    BY <1>1, <1>4, <1>5 DEF Owned, ProgramOwned, ReportOwned, SharedHeld, Unended
  <1>7. ObjectsKept(object)' /\ DoneRan'
    BY <1>1, <1>2, <1>4 DEF ObjectsKept, ObjectsGiven, ObjectsStarted, ObjectsAwaited, Over, DoneRan
  <1> QED
    BY <1>3, <1>6, <1>7 DEF DoneInv

LEMMA NewModulesDone ==
    ASSUME ScriptTypeOK, Orderly, DoneInv, NewModulesAvailable
    PROVE  DoneInv'
  <1>1. /\ Posted("new") /\ UNCHANGED <<script, pc, modules, toNode, toServer, ran, lost>>
    BY DEF NewModulesAvailable, historyVars
  <1>2. ObjectsKept(object) /\ StopsNamed /\ DoneRan
        /\ (alive /\ lost = {} => Owned(object, nodes, running, toServer, ran))
    BY DEF DoneInv
  <1>3. StopsNamed'
    BY <1>1, <1>2, PostedNamed
  <1>4. CASE alive /\ allFree
    <2>1. CheckProcessQueue(object, nodes, TRUE)
      BY <1>4 DEF NewModulesAvailable
    <2>2. object \in [Object -> ObjectState] /\ nodes \in [Node -> NodeState]
      BY DEF ScriptTypeOK
    <2>3. TRUE /\ lost' = {} => Owned(object, nodes, running, toServer', ran')
      BY <1>1, <1>2, <1>4
    <2>4. lost' = {} => \A o \in Object : object[o].status = "done" => o \in ran' \/ Stopped(NameOf[o])
      BY <1>1, <1>2 DEF DoneRan
    <2>5. UNCHANGED <<script, pc, modules>> /\ TRUE \in BOOLEAN
      BY <1>1
    <2> QED
      BY <1>2, <1>3, <2>1, <2>2, <2>3, <2>4, <2>5, LoopDone
  <1>5. CASE ~(alive /\ allFree)
    <2>1. UNCHANGED <<object, alive, nodes, running>>
      BY <1>5 DEF NewModulesAvailable, serverVars
    <2>2. \A name : Stopped(name)' = Stopped(name)
      BY <1>1 DEF Stopped
    <2>3. (alive /\ lost = {} => Owned(object, nodes, running, toServer, ran))'
      BY <1>1, <1>2, <2>1, <2>2 DEF Owned, ProgramOwned, ReportOwned, SharedHeld, Unended
    <2>4. ObjectsKept(object)' /\ DoneRan'
      BY <1>1, <1>2, <2>1, <2>2
      DEF ObjectsKept, ObjectsGiven, ObjectsStarted, ObjectsAwaited, Over, DoneRan
    <2> QED
      BY <1>3, <2>3, <2>4 DEF DoneInv
  <1> QED
    BY <1>4, <1>5

LEMMA StopModuleDone ==
    ASSUME ScriptTypeOK, Orderly, DoneInv, StopModuleOnNode
    PROVE  DoneInv'
  <1>1. /\ Head(posted) \in Signal /\ Head(posted).id = "stop" /\ posted # <<>> /\ posted' = Tail(posted)
        /\ UNCHANGED <<script, pc, object, modules, alive, running, toServer, ran, lost>>
    BY PostedOps DEF StopModuleOnNode, processVars, historyVars
  <1>2. ObjectsKept(object) /\ StopsNamed /\ DoneRan
        /\ (alive /\ lost = {} => Owned(object, nodes, running, toServer, ran))
    BY DEF DoneInv
  <1>3. posted \in Seq(Signal)
    BY DEF ScriptTypeOK
  <1> DEFINE n == Head(posted).node
             name == Head(posted).name
  <1>4. n \in Node /\ name \in ModuleName
    BY <1>1 DEF Signal
  <1>5. Stopped(name) /\ \A i \in DOMAIN posted' : i + 1 \in DOMAIN posted /\ posted'[i] = posted[i + 1]
    <2>1. 1 \in DOMAIN posted /\ posted[1] = Head(posted)
          /\ \A i \in DOMAIN posted' : i + 1 \in DOMAIN posted /\ posted'[i] = posted[i + 1]
      BY <1>1, <1>3, TailOps
    <2> QED
      BY <1>1, <1>2, <2>1 DEF StopsNamed
  <1>6. \/ UNCHANGED <<nodes, toNode>>
        \/ /\ nodes' = [nodes EXCEPT ![n].stoping = TRUE]
           /\ toNode' = [toNode EXCEPT ![n] = Append(@, name)]
    BY DEF StopModuleOnNode
  <1> HIDE DEF n, name
  <1>7. /\ \A k \in Node : nodes'[k].busy = nodes[k].busy /\ nodes'[k].exec = nodes[k].exec
        /\ \A k \in Node : \A i \in DOMAIN toNode'[k] : Stopped(toNode'[k][i])
    <2>1. CASE UNCHANGED <<nodes, toNode>>
      BY <1>2, <2>1 DEF StopsNamed
    <2>2. CASE /\ nodes' = [nodes EXCEPT ![n].stoping = TRUE]
               /\ toNode' = [toNode EXCEPT ![n] = Append(@, name)]
      <3>1. nodes \in [Node -> NodeState] /\ toNode \in [Node -> Seq(ModuleName)]
        BY DEF ScriptTypeOK
      <3>2. \A k \in Node : nodes'[k].busy = nodes[k].busy /\ nodes'[k].exec = nodes[k].exec
        BY <2>2, <3>1 DEF NodeState
      <3>3. /\ toNode'[n] = Append(toNode[n], name) /\ toNode[n] \in Seq(ModuleName)
            /\ \A k \in Node : k # n => toNode'[k] = toNode[k]
        BY <1>4, <2>2, <3>1
      <3>4. \A i \in DOMAIN toNode'[n] : toNode'[n][i] = name \/
               (i \in DOMAIN toNode[n] /\ toNode'[n][i] = toNode[n][i])
        BY <1>4, <3>3, AppendOps
      <3> QED
        BY <1>2, <1>5, <3>2, <3>3, <3>4 DEF StopsNamed
    <2> QED
      BY <1>6, <2>1, <2>2
  <1>8. \A nm : Stopped(nm)' = Stopped(nm)
    BY <1>1 DEF Stopped
  <1>9. StopsNamed'
    BY <1>1, <1>2, <1>5, <1>7, <1>8 DEF StopsNamed
  <1>10. ASSUME alive, lost = {}
         PROVE  Owned(object, nodes', running, toServer, ran)
    <2>1. Owned(object, nodes, running, toServer, ran)
      BY <1>2, <1>10
    <2>2. SharedHeld(object, nodes')
      <3>1. \A o \in Object : object[o].node # NoNode => object[o].node \in Node
        BY DEF ScriptTypeOK, ObjectState
      <3> QED
        BY <1>7, <2>1, <3>1 DEF Owned, SharedHeld
    <2> QED
      BY <2>1, <2>2 DEF Owned
  <1>11. (alive /\ lost = {} => Owned(object, nodes, running, toServer, ran))'
    BY <1>1, <1>8, <1>10 DEF Owned, ProgramOwned, ReportOwned, SharedHeld, Unended
  <1>12. ObjectsKept(object)' /\ DoneRan'
    BY <1>1, <1>2, <1>8 DEF ObjectsKept, ObjectsGiven, ObjectsStarted, ObjectsAwaited, Over, DoneRan
  <1> QED
    BY <1>9, <1>11, <1>12 DEF DoneInv

LEMMA MainDone ==
    ASSUME ScriptTypeOK, Orderly, DoneInv, MainThread
    PROVE  DoneInv'
  <1>1. ASSUME NEW n \in Node, EndModuleSuccess(n)
        PROVE  DoneInv'
    <2>1. Hears(n, {"ok"})
      BY <1>1 DEF EndModuleSuccess
    <2>2. CASE Dropped
      BY <2>1, <2>2, DroppedDone
    <2>3. CASE /\ alive /\ Head(toServer[n]).name = nodes[n].exec
               /\ FinishModule(n, Head(toServer[n]).name)
      <3>1. Head(toServer[n]).kind = "ok"
        BY <2>1 DEF Hears
      <3> QED
        BY <2>1, <2>3, <3>1, FinishDone
    <2> QED
      BY <1>1, <2>2, <2>3 DEF EndModuleSuccess
  <1>2. ASSUME NEW n \in Node, EndModuleFailed(n)
        PROVE  DoneInv'
    <2>1. Hears(n, {"bad"})
      BY <1>2 DEF EndModuleFailed
    <2>2. CASE Dropped
      BY <2>1, <2>2, DroppedDone
    <2>3. CASE /\ alive /\ Head(toServer[n]).name = nodes[n].exec
               /\ CheckProcessQueue(object, Cleared(n), TRUE)
               /\ lost' = lost \union EndedOn(n, nodes[n].exec) /\ ran' = ran
      BY <2>1, <2>3, FailedDone
    <2> QED
      BY <1>2, <2>2, <2>3 DEF EndModuleFailed
  <1>3. ASSUME NEW n \in Node, StopModuleSuccess(n)
        PROVE  DoneInv'
    <2>1. Hears(n, {"stopped"})
      BY <1>3 DEF StopModuleSuccess
    <2>2. CASE alive
      <3>1. FinishModule(n, Head(toServer[n]).name)
        BY <1>3, <2>2 DEF StopModuleSuccess
      <3>2. Stopped(Head(toServer[n]).name)
        <4>1. Head(toServer[n]).kind = "stopped"
          BY <2>1 DEF Hears
        <4>2. 1 \in DOMAIN toServer[n] /\ toServer[n][1] = Head(toServer[n])
          BY <2>1, HeardReports
        <4> QED
          BY <4>1, <4>2 DEF DoneInv, StopsNamed
      <3> QED
        BY <2>1, <2>2, <3>1, <3>2, FinishDone
    <2>3. CASE ~alive
      <3>1. CheckProcessQueue(object, Cleared(n), FALSE) /\ ran' = ran /\ lost' = lost
        BY <1>3, <2>3 DEF StopModuleSuccess, historyVars
      <3>2. /\ UNCHANGED <<script, pc, modules>> /\ StopsNamed' /\ FALSE \in BOOLEAN
            /\ object \in [Object -> ObjectState] /\ Cleared(n) \in [Node -> NodeState]
            /\ ObjectsKept(object)
        BY <2>1, HeardNamed, HearsOps, ClearedOps DEF ScriptTypeOK, DoneInv
      <3>3. lost' = {} => \A o \in Object : object[o].status = "done" => o \in ran' \/ Stopped(NameOf[o])
        BY <3>1 DEF DoneInv, DoneRan
      <3>4. FALSE /\ lost' = {} => Owned(object, Cleared(n), running, toServer', ran')
        OBVIOUS
      <3> QED
        BY <3>1, <3>2, <3>3, <3>4, LoopDone
    <2> QED
      BY <2>2, <2>3
  <1> QED
    BY <1>1, <1>2, <1>3, NewModulesDone, StopModuleDone DEF MainThread

---------------------------------------------------------------------------
(* Modules that are done: the nodes, the script's end, the script.         *)

LEMMA ReportAdded ==
    ASSUME ScriptTypeOK, NEW n \in Node, NEW kind \in {"ok", "bad", "stopped"},
           NEW name \in ModuleName, Reports(n, kind, name)
    PROVE  /\ \A k \in Node : k # n => toServer'[k] = toServer[k]
           /\ \A i \in DOMAIN toServer'[n] :
                 \/ i \in DOMAIN toServer[n] /\ toServer'[n][i] = toServer[n][i]
                 \/ /\ i = Len(toServer[n]) + 1
                    /\ toServer'[n][i].kind = kind /\ toServer'[n][i].name = name
  <1>1. toServer \in [Node -> Seq(Report)] /\ toServer[n] \in Seq(Report)
    BY DEF ScriptTypeOK
  <1>2. [kind |-> kind, name |-> name] \in Report
    BY DEF Report
  <1>3. /\ toServer'[n] = Append(toServer[n], [kind |-> kind, name |-> name])
        /\ \A k \in Node : k # n => toServer'[k] = toServer[k]
    BY <1>1 DEF Reports
  <1> QED
    BY <1>1, <1>2, <1>3, AppendOps

\* Only programs, reports and orders of the nodes change.
LEMMA NodeChanges ==
    ASSUME DoneInv, UNCHANGED <<script, pc, object, modules, posted, alive, nodes, lost>>,
           \A o \in Object : o \in ran => o \in ran',
           \A n \in Node : /\ \A i \in DOMAIN toNode'[n] : Stopped(toNode'[n][i])
                           /\ \A i \in DOMAIN toServer'[n] : toServer'[n][i].kind = "stopped" =>
                                 Stopped(toServer'[n][i].name),
           alive /\ lost = {} => Owned(object, nodes, running', toServer', ran')
    PROVE  DoneInv'
  <1>1. ObjectsKept(object) /\ StopsNamed /\ DoneRan
    BY DEF DoneInv
  <1>2. \A name : Stopped(name)' = Stopped(name)
    BY DEF Stopped
  <1>3. StopsNamed'
    BY <1>1, <1>2 DEF StopsNamed
  <1>4. (alive /\ lost = {} => Owned(object, nodes, running, toServer, ran))'
    BY <1>2 DEF Owned, ProgramOwned, ReportOwned, SharedHeld, Unended
  <1>5. ObjectsKept(object)'
    BY <1>1, <1>2 DEF ObjectsKept, ObjectsGiven, ObjectsStarted, ObjectsAwaited, Over
  <1>6. DoneRan'
    BY <1>1, <1>2 DEF DoneRan
  <1> QED
    BY <1>3, <1>4, <1>5, <1>6 DEF DoneInv

LEMMA ProgramDone ==
    ASSUME ScriptTypeOK, DoneInv, NEW n \in Node, NEW o \in Object, NEW kind \in {"ok", "bad"},
           ProgramEnds(n, o, kind)
    PROVE  DoneInv'
  <1>1. /\ UNCHANGED <<script, pc, object, modules, posted, alive, nodes, toNode, lost>>
        /\ o \in running[n] /\ Reports(n, kind, NameOf[o]) /\ NameOf[o] \in ModuleName
        /\ kind = "ok" => o \in ran'
        /\ \A p \in Object : p \in ran => p \in ran'
    BY DEF ProgramEnds, processVars, serverVars, ModuleName
  <1>2. /\ running'[n] = running[n] \ {o}
        /\ \A k \in Node : k # n => running'[k] = running[k]
    BY DEF ProgramEnds, ScriptTypeOK
  <1>3. /\ \A k \in Node : k # n => toServer'[k] = toServer[k]
        /\ \A i \in DOMAIN toServer'[n] :
              \/ i \in DOMAIN toServer[n] /\ toServer'[n][i] = toServer[n][i]
              \/ /\ i = Len(toServer[n]) + 1
                 /\ toServer'[n][i].kind = kind /\ toServer'[n][i].name = NameOf[o]
    BY <1>1, ReportAdded
  <1>4. StopsNamed /\ (alive /\ lost = {} => Owned(object, nodes, running, toServer, ran))
    BY DEF DoneInv
  <1>5. \A k \in Node : /\ \A i \in DOMAIN toNode'[k] : Stopped(toNode'[k][i])
                        /\ \A i \in DOMAIN toServer'[k] : toServer'[k][i].kind = "stopped" =>
                              Stopped(toServer'[k][i].name)
    <2>1. \A k \in Node : \A i \in DOMAIN toNode'[k] : Stopped(toNode'[k][i])
      BY <1>1, <1>4 DEF StopsNamed
    <2>2. kind # "stopped"
      OBVIOUS
    <2>3. ASSUME NEW k \in Node, NEW i \in DOMAIN toServer'[k], toServer'[k][i].kind = "stopped"
          PROVE  i \in DOMAIN toServer[k] /\ toServer'[k][i] = toServer[k][i]
      <3>1. CASE k = n
        BY <1>3, <2>2, <2>3, <3>1
      <3>2. CASE k # n
        BY <1>3, <2>3, <3>2
      <3> QED
        BY <3>1, <3>2
    <2> QED
      BY <1>4, <2>1, <2>3 DEF StopsNamed
  <1>6. ASSUME alive, lost = {}
        PROVE  Owned(object, nodes, running', toServer', ran')
    <2>1. Owned(object, nodes, running, toServer, ran)
      BY <1>4, <1>6
    <2>2. ~Stopped(NameOf[o]) => ProgramOwned(object, toServer[n], n, o)
      BY <1>1, <2>1 DEF Owned
    <2>3. ASSUME NEW k \in Node, NEW p \in running'[k], ~Stopped(NameOf[p])
          PROVE  ProgramOwned(object, toServer'[k], k, p)
      <3>1. p \in running[k]
        BY <1>2, <2>3
      <3>2. ProgramOwned(object, toServer[k], k, p)
        BY <2>1, <2>3, <3>1 DEF Owned
      <3>3. CASE k # n
        BY <1>3, <3>2, <3>3
      <3>4. CASE k = n
        <4>1. p # o
          BY <1>2, <2>3, <3>4
        <4>2. NameOf[p] # NameOf[o]
          BY <2>2, <2>3, <3>2, <3>4, <4>1 DEF ProgramOwned
        <4>3. \A i \in DOMAIN toServer'[k] : toServer'[k][i].name # NameOf[p]
          BY <1>3, <3>2, <3>4, <4>2 DEF ProgramOwned
        <4> QED
          BY <3>2, <4>3 DEF ProgramOwned
      <3> QED
        BY <3>3, <3>4
    <2>4. ASSUME NEW k \in Node, NEW i \in DOMAIN toServer'[k], ~Stopped(toServer'[k][i].name)
          PROVE  ReportOwned(object, toServer'[k], ran', k, i)
      <3>1. CASE k # n
        <4>1. ReportOwned(object, toServer[k], ran, k, i)
          BY <1>3, <2>1, <2>4, <3>1 DEF Owned
        <4> QED
          BY <1>1, <1>3, <3>1, <4>1 DEF ReportOwned
      <3>2. CASE k = n /\ i \in DOMAIN toServer[n] /\ toServer'[n][i] = toServer[n][i]
        <4>1. ReportOwned(object, toServer[n], ran, n, i)
          BY <2>1, <2>4, <3>2 DEF Owned
        <4>2. toServer[n][i].name # NameOf[o]
          BY <2>2, <2>4, <3>2 DEF ProgramOwned
        <4>3. \A j \in DOMAIN toServer'[n] : toServer'[n][j].name = toServer'[n][i].name => j = i
          BY <1>3, <3>2, <4>1, <4>2 DEF ReportOwned
        <4> QED
          BY <1>1, <3>2, <4>1, <4>3 DEF ReportOwned
      <3>3. CASE /\ k = n /\ i = Len(toServer[n]) + 1
                 /\ toServer'[n][i].kind = kind /\ toServer'[n][i].name = NameOf[o]
        <4>1. ProgramOwned(object, toServer[n], n, o)
          BY <2>2, <2>4, <3>3
        <4>2. \A j \in DOMAIN toServer'[n] : toServer'[n][j].name = NameOf[o] => j = i
          BY <1>3, <3>3, <4>1 DEF ProgramOwned
        <4> QED
          BY <1>1, <3>3, <4>1, <4>2 DEF ReportOwned, ProgramOwned
      <3> QED
        BY <1>3, <3>1, <3>2, <3>3
    <2> QED
      BY <2>1, <2>3, <2>4 DEF Owned
  <1> QED
    BY <1>1, <1>5, <1>6, NodeChanges

LEMMA StopProgramDone ==
    ASSUME ScriptTypeOK, DoneInv, NEW n \in Node, StopProgram(n)
    PROVE  DoneInv'
  <1> DEFINE name == Head(toNode[n])
  <1>1. /\ UNCHANGED <<script, pc, object, modules, posted, alive, nodes, ran, lost>>
        /\ toNode[n] # <<>> /\ Reports(n, "stopped", name)
    BY DEF StopProgram, processVars, serverVars, historyVars
  <1>2. /\ \A p \in running'[n] : p \in running[n] /\ NameOf[p] # name
        /\ toNode'[n] = Tail(toNode[n])
        /\ \A k \in Node : k # n => running'[k] = running[k] /\ toNode'[k] = toNode[k]
    BY DEF StopProgram, ScriptTypeOK
  <1>3. StopsNamed /\ (alive /\ lost = {} => Owned(object, nodes, running, toServer, ran))
    BY DEF DoneInv
  <1>4. /\ name \in ModuleName /\ 1 \in DOMAIN toNode[n] /\ toNode[n][1] = name
        /\ \A i \in DOMAIN toNode'[n] : i + 1 \in DOMAIN toNode[n] /\ toNode'[n][i] = toNode[n][i + 1]
    <2>1. toNode[n] \in Seq(ModuleName)
      BY DEF ScriptTypeOK
    <2> QED
      BY <1>1, <1>2, <2>1, TailOps
  <1>5. Stopped(name)
    BY <1>3, <1>4 DEF StopsNamed
  <1> HIDE DEF name
  <1>6. /\ \A k \in Node : k # n => toServer'[k] = toServer[k]
        /\ \A i \in DOMAIN toServer'[n] :
              \/ i \in DOMAIN toServer[n] /\ toServer'[n][i] = toServer[n][i]
              \/ i = Len(toServer[n]) + 1 /\ toServer'[n][i].name = name
    <2> DEFINE kind == "stopped"
    <2>1. kind \in {"ok", "bad", "stopped"} /\ Reports(n, kind, name)
      BY <1>1
    <2> HIDE DEF kind
    <2>2. /\ \A k \in Node : k # n => toServer'[k] = toServer[k]
          /\ \A i \in DOMAIN toServer'[n] :
                \/ i \in DOMAIN toServer[n] /\ toServer'[n][i] = toServer[n][i]
                \/ /\ i = Len(toServer[n]) + 1
                   /\ toServer'[n][i].kind = kind /\ toServer'[n][i].name = name
      BY <1>4, <2>1, ReportAdded
    <2> QED
      BY <2>2
  <1>7. \A k \in Node : \A i \in DOMAIN toServer'[k] :
           \/ Stopped(toServer'[k][i].name)
           \/ i \in DOMAIN toServer[k] /\ toServer'[k][i] = toServer[k][i]
    BY <1>5, <1>6
  <1>8. \A k \in Node : /\ \A i \in DOMAIN toNode'[k] : Stopped(toNode'[k][i])
                        /\ \A i \in DOMAIN toServer'[k] : toServer'[k][i].kind = "stopped" =>
                              Stopped(toServer'[k][i].name)
    <2>1. ASSUME NEW k \in Node, NEW i \in DOMAIN toNode'[k]
          PROVE  Stopped(toNode'[k][i])
      <3>1. PICK j \in DOMAIN toNode[k] : toNode'[k][i] = toNode[k][j]
        <4>1. CASE k = n
          BY <1>4, <2>1, <4>1
        <4>2. CASE k # n
          BY <1>2, <2>1, <4>2
        <4> QED
          BY <4>1, <4>2
      <3> QED
        BY <1>3, <3>1 DEF StopsNamed
    <2> QED
      BY <1>3, <1>7, <2>1 DEF StopsNamed
  <1>9. ASSUME alive, lost = {}
        PROVE  Owned(object, nodes, running', toServer', ran')
    <2>1. Owned(object, nodes, running, toServer, ran)
      BY <1>3, <1>9
    <2>2. ASSUME NEW k \in Node, NEW p \in running'[k], ~Stopped(NameOf[p])
          PROVE  ProgramOwned(object, toServer'[k], k, p)
      <3>1. p \in running[k]
        BY <1>2, <2>2
      <3>2. ProgramOwned(object, toServer[k], k, p)
        BY <2>1, <2>2, <3>1 DEF Owned
      <3>3. \A i \in DOMAIN toServer'[k] : toServer'[k][i].name # NameOf[p]
        BY <1>7, <2>2, <3>2 DEF ProgramOwned
      <3> QED
        BY <3>2, <3>3 DEF ProgramOwned
    <2>3. ASSUME NEW k \in Node, NEW i \in DOMAIN toServer'[k], ~Stopped(toServer'[k][i].name)
          PROVE  ReportOwned(object, toServer'[k], ran', k, i)
      <3>1. i \in DOMAIN toServer[k] /\ toServer'[k][i] = toServer[k][i]
        BY <1>7, <2>3
      <3>2. ReportOwned(object, toServer[k], ran, k, i)
        BY <2>1, <2>3, <3>1 DEF Owned
      <3>3. \A j \in DOMAIN toServer'[k] : toServer'[k][j].name = toServer'[k][i].name => j = i
        BY <1>7, <2>3, <3>1, <3>2 DEF ReportOwned
      <3> QED
        BY <1>1, <3>1, <3>2, <3>3 DEF ReportOwned
    <2> QED
      BY <2>1, <2>2, <2>3 DEF Owned
  <1> QED
    BY <1>1, <1>8, <1>9, NodeChanges

LEMMA ConnectedDone ==
    ASSUME ScriptTypeOK, DoneInv, NEW n \in Node, NodeConnected(n)
    PROVE  DoneInv'
  <1> DEFINE nds == [nodes EXCEPT ![n].state = "up"]
  <1>1. /\ CheckProcessQueue(object, nds, alive)
        /\ UNCHANGED <<script, pc, modules, posted, toNode, toServer, ran, lost>>
    BY DEF NodeConnected, historyVars
  <1>2. /\ object \in [Object -> ObjectState] /\ alive \in BOOLEAN /\ nodes \in [Node -> NodeState]
        /\ nds \in [Node -> NodeState]
        /\ \A k \in Node : nds[k].busy = nodes[k].busy /\ nds[k].exec = nodes[k].exec
    BY DEF ScriptTypeOK, NodeState
  <1> HIDE DEF nds
  <1>3. ObjectsKept(object) /\ StopsNamed /\ DoneRan
        /\ (alive /\ lost = {} => Owned(object, nodes, running, toServer, ran))
    BY DEF DoneInv
  <1>4. StopsNamed'
    BY <1>1, <1>3 DEF StopsNamed, Stopped
  <1>5. alive /\ lost' = {} => Owned(object, nds, running, toServer', ran')
    <2>1. \A o \in Object : object[o].node # NoNode => object[o].node \in Node
      BY <1>2 DEF ObjectState
    <2>2. SharedHeld(object, nodes) => SharedHeld(object, nds)
      BY <1>2, <2>1 DEF SharedHeld
    <2> QED
      BY <1>1, <1>3, <2>2 DEF Owned
  <1>6. lost' = {} => \A o \in Object : object[o].status = "done" => o \in ran' \/ Stopped(NameOf[o])
    BY <1>1, <1>3 DEF DoneRan
  <1>7. UNCHANGED <<script, pc, modules>> /\ ObjectsKept(object)
    BY <1>1, <1>3
  <1> QED
    BY <1>1, <1>2, <1>4, <1>5, <1>6, <1>7, LoopDone

\* If the node that is lost held no started object, it ran nothing that counts.
LEMMA DisconnectedDone ==
    ASSUME ScriptTypeOK, DoneInv, NEW n \in Node, NodeDisconnected(n)
    PROVE  DoneInv'
  <1>1. /\ UNCHANGED <<script, pc, posted, object, modules, alive, ran>>
        /\ lost' = lost \union { o \in With("started") : object[o].node = n }
    BY DEF NodeDisconnected, processVars
  <1>2. /\ running'[n] = {} /\ toNode'[n] = <<>> /\ toServer'[n] = <<>>
        /\ \A k \in Node : k # n => /\ running'[k] = running[k] /\ toNode'[k] = toNode[k]
                                    /\ toServer'[k] = toServer[k] /\ nodes'[k] = nodes[k]
    BY DEF NodeDisconnected, ScriptTypeOK
  <1>3. ObjectsKept(object) /\ StopsNamed /\ DoneRan
        /\ (alive /\ lost = {} => Owned(object, nodes, running, toServer, ran))
    BY DEF DoneInv
  <1>4. \A name : Stopped(name)' = Stopped(name)
    BY <1>1 DEF Stopped
  <1>5. StopsNamed'
    <2>1. \A k \in Node : /\ \A i \in DOMAIN toNode'[k] : Stopped(toNode'[k][i])
                          /\ \A i \in DOMAIN toServer'[k] :
                                toServer'[k][i].kind = "stopped" => Stopped(toServer'[k][i].name)
      BY <1>2, <1>3 DEF StopsNamed
    <2> QED
      BY <1>1, <1>3, <1>4, <2>1 DEF StopsNamed
  <1>6. ASSUME alive, lost' = {}
        PROVE  Owned(object, nodes', running', toServer', ran)
    <2>1. lost = {} /\ \A o \in With("started") : object[o].node # n
      BY <1>1, <1>6
    <2>2. Owned(object, nodes, running, toServer, ran)
      BY <1>3, <1>6, <2>1
    <2>3. \A o \in Object : object[o].status = "started" => object[o].node # n
      <3>1. n # NoNode
        BY DEF Node, NoNode
      <3> QED
        BY <1>3, <2>1, <3>1 DEF With, ObjectsKept, ObjectsGiven
    <2>4. SharedHeld(object, nodes')
      <3>1. \A o \in Object : object[o].node # NoNode => object[o].node \in Node
        BY DEF ScriptTypeOK, ObjectState
      <3> QED
        BY <1>2, <2>2, <2>3, <3>1 DEF Owned, SharedHeld
    <2>5. \A k \in Node : \A o \in running'[k] :
             Stopped(NameOf[o]) \/ ProgramOwned(object, toServer'[k], k, o)
      BY <1>2, <2>2 DEF Owned
    <2>6. \A k \in Node : \A i \in DOMAIN toServer'[k] :
             Stopped(toServer'[k][i].name) \/ ReportOwned(object, toServer'[k], ran, k, i)
      BY <1>2, <2>2 DEF Owned
    <2> QED
      BY <2>4, <2>5, <2>6 DEF Owned
  <1>7. (alive /\ lost = {} => Owned(object, nodes, running, toServer, ran))'
    BY <1>1, <1>4, <1>6 DEF Owned, ProgramOwned, ReportOwned, SharedHeld, Unended
  <1>8. ObjectsKept(object)'
    BY <1>1, <1>3, <1>4 DEF ObjectsKept, ObjectsGiven, ObjectsStarted, ObjectsAwaited, Over
  <1>9. DoneRan'
    BY <1>1, <1>3, <1>4 DEF DoneRan
  <1> QED
    BY <1>5, <1>7, <1>8, <1>9 DEF DoneInv

LEMMA StopProcessDone ==
    ASSUME ScriptTypeOK, DoneInv, StopProcess
    PROVE  DoneInv'
  <1>1. UNCHANGED <<script, pc, modules, posted, toNode, toServer, ran, lost>>
    BY DEF StopProcess, historyVars
  <1>2. ObjectsKept(object) /\ StopsNamed /\ DoneRan
    BY DEF DoneInv
  <1>3. \A name : Stopped(name)' = Stopped(name)
    BY <1>1 DEF Stopped
  <1>4. StopsNamed'
    BY <1>1, <1>2, <1>3 DEF StopsNamed
  <1>5. CASE Over
    <2>1. /\ CheckProcessQueue(object, nodes, FALSE) /\ object \in [Object -> ObjectState]
          /\ nodes \in [Node -> NodeState] /\ FALSE \in BOOLEAN
      BY <1>5 DEF StopProcess, ScriptTypeOK
    <2>2. lost' = {} => \A o \in Object : object[o].status = "done" => o \in ran' \/ Stopped(NameOf[o])
      BY <1>1, <1>2 DEF DoneRan
    <2>3. FALSE /\ lost' = {} => Owned(object, nodes, running, toServer', ran')
      OBVIOUS
    <2>4. UNCHANGED <<script, pc, modules>> /\ ObjectsKept(object)
      BY <1>1, <1>2
    <2> QED
      BY <1>4, <2>1, <2>2, <2>3, <2>4, LoopDone
  <1>6. CASE ~Over
    <2>1. ~alive' /\ object' = object
      BY <1>6 DEF StopProcess
    <2>2. ObjectsKept(object)' /\ DoneRan'
      BY <1>1, <1>2, <1>3, <2>1
      DEF ObjectsKept, ObjectsGiven, ObjectsStarted, ObjectsAwaited, Over, DoneRan
    <2> QED
      BY <1>4, <2>1, <2>2 DEF DoneInv
  <1> QED
    BY <1>5, <1>6

\* What a command leaves of the objects that were started and waited for.
LEMMA CommandStarted ==
    ASSUME ScriptTypeOK, Orderly, ObjectsStarted(object), NEW op, NEW o, Command(op, o),
           NEW obj,
           \A p \in Object : obj[p].status # "new" =>
              object[p].status # "new" \/ Starts(script.commands[pc], p)
    PROVE  /\ \A p \in Object : obj[p].status # "new" =>
                 \E i \in DOMAIN script.commands : i < pc' /\ Starts(script.commands[i], p)
           /\ \A q \in Object : \A p \in script.onFinish[q] : obj[p].status = "new"
  <1>1. /\ pc \in DOMAIN script.commands /\ pc' = pc + 1 /\ ~Over
    BY CommandOps
  <1>2. /\ pc \in Int /\ DOMAIN script.commands \subseteq Int
        /\ script.onFinish \in [Object -> SUBSET Object]
    BY ScriptAssumption DEF ScriptTypeOK
  <1>3. ASSUME NEW p \in Object, obj[p].status # "new"
        PROVE  \E i \in DOMAIN script.commands : i < pc' /\ Starts(script.commands[i], p)
    <2>1. CASE Starts(script.commands[pc], p)
      BY <1>1, <1>2, <2>1
    <2>2. CASE object[p].status # "new"
      <3>1. PICK i \in DOMAIN script.commands : i < pc /\ Starts(script.commands[i], p)
        BY <1>1, <2>2 DEF ObjectsStarted
      <3>2. i < pc'
        BY <1>1, <1>2, <3>1
      <3> QED
        BY <3>1, <3>2
    <2> QED
      BY <1>3, <2>1, <2>2
  <1>4. ASSUME NEW q \in Object, NEW p \in script.onFinish[q], obj[p].status # "new"
        PROVE  FALSE
    <2>1. p \in Object
      BY <1>2
    <2>2. ~Starts(script.commands[pc], p)
      BY <1>1 DEF Orderly
    <2>3. object[p].status # "new"
      BY <1>4, <2>1, <2>2
    <2> QED
      BY <1>1, <2>3 DEF ObjectsStarted
  <1> QED
    BY <1>3, <1>4

LEMMA CommandAwaited ==
    ASSUME ScriptTypeOK, ObjectsAwaited(object), NEW op, NEW o, Command(op, o), NEW obj,
           \A p \in Object : object[p].status = "done" =>
              obj[p].status = "done" \/ Starts(script.commands[pc], p),
           op = "wait" => obj[o].status = "done",
           NEW p \in Object, NEW k \in DOMAIN script.commands,
           k < pc', script.commands[k] = [op |-> "wait", obj |-> p],
           \A l \in DOMAIN script.commands : k < l /\ l < pc' => ~Starts(script.commands[l], p)
    PROVE  obj[p].status = "done"
  <1>1. /\ pc \in DOMAIN script.commands /\ pc' = pc + 1
        /\ script.commands[pc].op = op /\ script.commands[pc].obj = o
    BY CommandOps
  <1>2. /\ pc \in Int /\ DOMAIN script.commands \subseteq Int
    BY ScriptAssumption DEF ScriptTypeOK
  <1>3. CASE k = pc
    BY <1>1, <1>3
  <1>4. CASE k < pc
    <2>1. ~Starts(script.commands[pc], p)
      BY <1>1, <1>2, <1>4
    <2>2. ASSUME NEW l \in DOMAIN script.commands, k < l, l < pc
          PROVE  ~Starts(script.commands[l], p)
      BY <1>1, <1>2, <2>2
    <2>3. object[p].status = "done"
      BY <1>4, <2>2 DEF ObjectsAwaited
    <2> QED
      BY <2>1, <2>3
  <1> QED
    BY <1>1, <1>2, <1>3, <1>4

\* What a command must keep.
LEMMA CommandDone ==
    ASSUME ScriptTypeOK, Orderly, DoneInv, NEW op, NEW o, Command(op, o),
           ObjectsGiven(object)',
           \A i \in DOMAIN posted' : posted'[i].id = "stop" => Stopped(posted'[i].name),
           \A p \in Object : object'[p].status # "new" =>
              object[p].status # "new" \/ Starts(script.commands[pc], p),
           \A p \in Object : object[p].status = "done" =>
              object'[p].status = "done" \/ Starts(script.commands[pc], p),
           op = "wait" => object'[o].status = "done",
           lost = {} => Owned(object', nodes, running, toServer, ran'),
           \A p \in Object : object'[p].status = "done" =>
              object[p].status = "done" /\ (p \in ran => p \in ran')
    PROVE  DoneInv'
  <1>1. /\ UNCHANGED <<script, alive, nodes, running, toNode, toServer, lost>>
        /\ pc \in DOMAIN script.commands /\ pc' = pc + 1
    BY CommandOps DEF Command
  <1>2. ObjectsKept(object) /\ StopsNamed /\ DoneRan
    BY DEF DoneInv
  <1>3. \A name : Stopped(name)' = Stopped(name)
    BY <1>1 DEF Stopped
  <1>4. ObjectsStarted(object)'
    <2>1. ObjectsStarted(object)
      BY <1>2 DEF ObjectsKept
    <2>2. /\ \A p \in Object : object'[p].status # "new" =>
                 \E i \in DOMAIN script.commands : i < pc' /\ Starts(script.commands[i], p)
          /\ \A q \in Object : \A p \in script.onFinish[q] : object'[p].status = "new"
      <3> DEFINE obj == object'
      <3>1. \A p \in Object : obj[p].status # "new" =>
              object[p].status # "new" \/ Starts(script.commands[pc], p)
        OBVIOUS
      <3> HIDE DEF obj
      <3>2. /\ \A p \in Object : obj[p].status # "new" =>
                 \E i \in DOMAIN script.commands : i < pc' /\ Starts(script.commands[i], p)
            /\ \A q \in Object : \A p \in script.onFinish[q] : obj[p].status = "new"
        BY <2>1, <3>1, CommandStarted
      <3> QED
        BY <3>2 DEF obj
    <2> QED
      BY <1>1, <2>2 DEF ObjectsStarted
  <1>5. ObjectsAwaited(object)'
    <2>1. ObjectsAwaited(object)
      BY <1>2 DEF ObjectsKept
    <2> SUFFICES ASSUME NEW p \in Object, NEW k \in DOMAIN script.commands,
                        k < pc', script.commands[k] = [op |-> "wait", obj |-> p],
                        \A l \in DOMAIN script.commands : k < l /\ l < pc' => ~Starts(script.commands[l], p)
                 PROVE  object'[p].status = "done"
      BY <1>1 DEF ObjectsAwaited
    <2> DEFINE obj == object'
    <2>2. /\ \A x \in Object : object[x].status = "done" =>
                obj[x].status = "done" \/ Starts(script.commands[pc], x)
          /\ op = "wait" => obj[o].status = "done"
      OBVIOUS
    <2> HIDE DEF obj
    <2>3. obj[p].status = "done"
      BY <2>1, <2>2, CommandAwaited
    <2> QED
      BY <2>3 DEF obj
  <1>6. StopsNamed'
    BY <1>1, <1>2, <1>3 DEF StopsNamed
  <1>7. (alive /\ lost = {} => Owned(object, nodes, running, toServer, ran))'
    BY <1>1, <1>3 DEF Owned, ProgramOwned, ReportOwned, SharedHeld, Unended
  <1>8. DoneRan'
    BY <1>1, <1>2, <1>3 DEF DoneRan
  <1> QED
    BY <1>4, <1>5, <1>6, <1>7, <1>8 DEF DoneInv, ObjectsKept

\* Owners stay owners, if no other object becomes one that their reports end.
LEMMA ObjectsOwned ==
    ASSUME Owned(object, nodes, running, toServer, ran), NEW obj, NEW finished,
           running \in [Node -> SUBSET Object],
           \A q \in Object : ~Stopped(NameOf[q]) /\ object[q].status = "started" =>
              obj[q] = object[q] /\ (q \in ran => q \in finished),
           \A q, p \in Object, k \in Node :
              ~Stopped(NameOf[q]) /\ object[q].status = "started"
              /\ p \in Unended(obj, k, NameOf[q]) => p \in Unended(object, k, NameOf[q]),
           SharedHeld(obj, nodes)
    PROVE  Owned(obj, nodes, running, toServer, finished)
  <1>1. ASSUME NEW k \in Node, NEW q \in Object, ~Stopped(NameOf[q]), object[q].status = "started",
               Unended(object, k, NameOf[q]) = {q}
        PROVE  Unended(obj, k, NameOf[q]) = {q}
    <2>1. \A p \in Unended(obj, k, NameOf[q]) : p \in Object
      BY DEF Unended
    <2>2. Unended(obj, k, NameOf[q]) \subseteq {q}
      BY <1>1, <2>1
    <2>3. q \in Unended(obj, k, NameOf[q])
      BY <1>1 DEF Unended
    <2> QED
      BY <2>2, <2>3
  <1>2. ASSUME NEW k \in Node, NEW o \in running[k], ~Stopped(NameOf[o])
        PROVE  ProgramOwned(obj, toServer[k], k, o)
    <2>1. o \in Object /\ ProgramOwned(object, toServer[k], k, o)
      BY <1>2 DEF Owned
    <2> QED
      BY <1>1, <1>2, <2>1 DEF ProgramOwned
  <1>3. ASSUME NEW k \in Node, NEW i \in DOMAIN toServer[k], ~Stopped(toServer[k][i].name)
        PROVE  ReportOwned(obj, toServer[k], finished, k, i)
    <2>1. ReportOwned(object, toServer[k], ran, k, i)
      BY <1>3 DEF Owned
    <2>2. PICK q \in Object : /\ object[q].status = "started"
                              /\ Unended(object, k, toServer[k][i].name) = {q}
                              /\ toServer[k][i].kind = "ok" => q \in ran
      BY <2>1 DEF ReportOwned
    <2>3. NameOf[q] = toServer[k][i].name
      BY <2>2 DEF Unended
    <2>4. Unended(obj, k, toServer[k][i].name) = {q} /\ obj[q].status = "started"
          /\ (q \in ran => q \in finished)
      BY <1>1, <1>3, <2>2, <2>3
    <2> QED
      BY <2>1, <2>2, <2>4 DEF ReportOwned
  <1> QED
    BY <1>2, <1>3 DEF Owned

\* What is started, unless its name is stopped, is new, or the only object of
\* its name and done.
LEMMA StartsFresh ==
    ASSUME ScriptTypeOK, Orderly, ObjectsKept(object), NEW op \in {"start", "startElement"},
           NEW o \in Object, Command(op, o), ~Stopped(NameOf[o])
    PROVE  \/ object[o].status = "new" /\ object[o].node = NoNode
           \/ object[o].status = "done" /\ Sole(o)
  <1>1. /\ pc \in DOMAIN script.commands /\ ~Over /\ Starts(script.commands[pc], o)
    BY CommandOps DEF Starts
  <1>2. CASE object[o].status = "new"
    BY <1>2 DEF ObjectsKept, ObjectsGiven
  <1>3. CASE object[o].status # "new"
    <2>1. PICK i \in DOMAIN script.commands : i < pc /\ Starts(script.commands[i], o)
      BY <1>1, <1>3 DEF ObjectsKept, ObjectsStarted
    <2>2. /\ Sole(o)
          /\ \E k \in DOMAIN script.commands :
                /\ k < pc /\ script.commands[k] = [op |-> "wait", obj |-> o]
                /\ \A l \in DOMAIN script.commands :
                      k < l /\ l < pc => ~Starts(script.commands[l], o)
      BY <1>1, <2>1 DEF Orderly
    <2>3. object[o].status = "done"
      BY <2>2 DEF ObjectsKept, ObjectsAwaited
    <2> QED
      BY <2>2, <2>3
  <1> QED
    BY <1>2, <1>3

\* start and startElement
LEMMA StartingDone ==
    ASSUME ScriptTypeOK, Orderly, DoneInv, NEW op \in {"start", "startElement"}, NEW o \in Object,
           Command(op, o), object' = Waiting(object, {o}),
           posted' = Append(posted, NewSignal), ran' = ran \ {o},
           \A p \in ToSet(modules) : p \in ToSet(modules')
    PROVE  DoneInv'
  <1>1. /\ UNCHANGED script /\ pc \in DOMAIN script.commands
        /\ Starts(script.commands[pc], o)
    BY CommandOps DEF Starts
  <1>2. /\ object'[o].status = "wait" /\ object'[o].node = object[o].node
        /\ \A p \in Object : p # o => object'[p] = object[p]
    <2>1. object \in [Object -> ObjectState]
      BY DEF ScriptTypeOK
    <2> QED
      BY <2>1, WaitingOps
  <1>3. ObjectsKept(object) /\ StopsNamed /\ DoneRan
        /\ (alive /\ lost = {} => Owned(object, nodes, running, toServer, ran))
    BY DEF DoneInv
  <1>4. Stopped(NameOf[o]) \/ (object[o].status = "new" /\ object[o].node = NoNode)
                           \/ (object[o].status = "done" /\ Sole(o))
    BY <1>3, StartsFresh
  <1>5. \A name : Stopped(name)' = Stopped(name)
    BY <1>1 DEF Stopped
  <1>6. ObjectsGiven(object)'
    <2>1. ASSUME NEW p \in Object
          PROVE  /\ object'[p].status = "new" => object'[p].node = NoNode
                 /\ object'[p].node # NoNode => p \in ToSet(modules')
                 /\ object'[p].status \in {"stopping", "stoped"} => Stopped(NameOf[p])
      BY <1>2, <1>3 DEF ObjectsKept, ObjectsGiven
    <2>2. ToSet(modules)' = ToSet(modules')
      BY DEF ToSet
    <2> QED
      BY <1>5, <2>1, <2>2 DEF ObjectsGiven
  <1>7. \A i \in DOMAIN posted' : posted'[i].id = "stop" => Stopped(posted'[i].name)
    <2>1. posted \in Seq(Signal) /\ NewSignal \in Signal /\ NewSignal.id = "new"
      BY SignalOps DEF ScriptTypeOK
    <2>2. \A i \in DOMAIN posted' : \/ i \in DOMAIN posted /\ posted'[i] = posted[i]
                                    \/ posted'[i] = NewSignal
      BY <2>1, AppendOps
    <2> QED
      BY <1>3, <2>1, <2>2 DEF StopsNamed
  <1>8. ASSUME lost = {}
        PROVE  Owned(object', nodes, running, toServer, ran')
    <2>1. Owned(object, nodes, running, toServer, ran) /\ running \in [Node -> SUBSET Object]
      BY <1>3, <1>8, CommandOps DEF ScriptTypeOK
    <2>2. \A q \in Object : ~Stopped(NameOf[q]) /\ object[q].status = "started" =>
             q # o /\ object'[q] = object[q] /\ (q \in ran => q \in ran')
      BY <1>2, <1>4
    <2>3. ASSUME NEW q \in Object, NEW p \in Object, NEW k \in Node,
                 ~Stopped(NameOf[q]), object[q].status = "started",
                 p \in Unended(object', k, NameOf[q])
          PROVE  p \in Unended(object, k, NameOf[q])
      <3>1. CASE p # o
        BY <1>2, <2>3, <3>1 DEF Unended
      <3>2. CASE p = o
        <4>1. object[o].node = k /\ k # NoNode /\ NameOf[o] = NameOf[q]
          BY <1>2, <2>3, <3>2 DEF Unended, Node, NoNode
        <4>2. Sole(o)
          BY <1>4, <2>3, <4>1
        <4>3. q = o
          BY <4>1, <4>2 DEF Sole
        <4> QED
          BY <2>2, <2>3, <4>3
      <3> QED
        BY <3>1, <3>2
    <2>4. SharedHeld(object', nodes)
      <3> SUFFICES ASSUME NEW p \in Object, ~Sole(p), ~Stopped(NameOf[p]),
                          object'[p].status # "done", object'[p].node # NoNode
                   PROVE  /\ object'[p].status = "started"
                          /\ nodes[object'[p].node].busy /\ nodes[object'[p].node].exec = NameOf[p]
        BY DEF SharedHeld
      <3>1. p # o
        BY <1>2, <1>4
      <3>2. object'[p] = object[p]
        BY <1>2, <3>1
      <3> QED
        BY <2>1, <3>2 DEF Owned, SharedHeld
    <2> DEFINE obj == object'
               finished == ran'
    <2>5. /\ \A q \in Object : ~Stopped(NameOf[q]) /\ object[q].status = "started" =>
                obj[q] = object[q] /\ (q \in ran => q \in finished)
          /\ \A q, p \in Object, k \in Node :
                ~Stopped(NameOf[q]) /\ object[q].status = "started"
                /\ p \in Unended(obj, k, NameOf[q]) => p \in Unended(object, k, NameOf[q])
          /\ SharedHeld(obj, nodes)
      BY <2>2, <2>3, <2>4
    <2> HIDE DEF obj, finished
    <2>6. Owned(obj, nodes, running, toServer, finished)
      BY <2>1, <2>5, ObjectsOwned
    <2> QED
      BY <2>6 DEF obj, finished
  <1>9. \A p \in Object : object'[p].status # "new" =>
           object[p].status # "new" \/ Starts(script.commands[pc], p)
    BY <1>1, <1>2
  <1>10. \A p \in Object : object[p].status = "done" =>
            object'[p].status = "done" \/ Starts(script.commands[pc], p)
    BY <1>1, <1>2
  <1>11. \A p \in Object : object'[p].status = "done" =>
            object[p].status = "done" /\ (p \in ran => p \in ran')
    BY <1>2
  <1>12. op # "wait"
    OBVIOUS
  <1> QED
    BY <1>6, <1>7, <1>8, <1>9, <1>10, <1>11, <1>12, CommandDone

\* new DiscompModule and waitForFinished: no object changes.
LEMMA QuietDone ==
    ASSUME ScriptTypeOK, Orderly, DoneInv, NEW op, NEW o \in Object, Command(op, o),
           UNCHANGED <<object, posted, ran>>, op = "wait" => object[o].status = "done",
           \A p \in ToSet(modules) : p \in ToSet(modules')
    PROVE  DoneInv'
  <1>1. ObjectsKept(object) /\ StopsNamed
        /\ (alive /\ lost = {} => Owned(object, nodes, running, toServer, ran))
    BY DEF DoneInv
  <1>2. UNCHANGED script /\ alive
    BY CommandOps
  <1>3. \A name : Stopped(name)' = Stopped(name)
    BY <1>2 DEF Stopped
  <1>4. ObjectsGiven(object)'
    <2>1. ToSet(modules)' = ToSet(modules')
      BY DEF ToSet
    <2> QED
      BY <1>1, <1>3, <2>1 DEF ObjectsKept, ObjectsGiven
  <1>5. \A i \in DOMAIN posted' : posted'[i].id = "stop" => Stopped(posted'[i].name)
    BY <1>1 DEF StopsNamed
  <1>6. lost = {} => Owned(object', nodes, running, toServer, ran')
    BY <1>1, <1>2
  <1>7. /\ \A p \in Object : object'[p].status # "new" =>
              object[p].status # "new" \/ Starts(script.commands[pc], p)
        /\ \A p \in Object : object[p].status = "done" =>
              object'[p].status = "done" \/ Starts(script.commands[pc], p)
        /\ \A p \in Object : object'[p].status = "done" =>
              object[p].status = "done" /\ (p \in ran => p \in ran')
        /\ op = "wait" => object'[o].status = "done"
    OBVIOUS
  <1> QED
    BY <1>4, <1>5, <1>6, <1>7, CommandDone

\* stop and stopModuleByName: only objects of a name the script stops.
LEMMA StopDone ==
    ASSUME ScriptTypeOK, NodesKept, Orderly, DoneInv, NEW o \in Object, Stop(o)
    PROVE  DoneInv'
  <1>1. Command("stop", o) /\ modules' = modules /\ ran' = ran
    BY DEF Stop
  <1>2. /\ UNCHANGED script /\ alive /\ pc \in DOMAIN script.commands
        /\ script.commands[pc].op = "stop" /\ script.commands[pc].obj = o
    BY <1>1, CommandOps
  <1>3. Stopped(NameOf[o])
    BY <1>2 DEF Stopped
  <1>4. \A p \in Object : \/ object'[p] = object[p]
                          \/ /\ object'[p].status \in {"stoped", "stopping"}
                             /\ object[p].status \in {"wait", "started"}
                             /\ NameOf[p] = NameOf[o] /\ object'[p].node = object[p].node
    BY StopOps
  <1>5. ObjectsKept(object) /\ StopsNamed
        /\ (alive /\ lost = {} => Owned(object, nodes, running, toServer, ran))
    BY DEF DoneInv
  <1>6. \A name : Stopped(name)' = Stopped(name)
    BY <1>2 DEF Stopped
  <1>7. ObjectsGiven(object)'
    <2>1. ToSet(modules)' = ToSet(modules)
      BY <1>1
    <2>2. ASSUME NEW p \in Object
          PROVE  /\ object'[p].status = "new" => object'[p].node = NoNode
                 /\ object'[p].node # NoNode => p \in ToSet(modules)
                 /\ object'[p].status \in {"stopping", "stoped"} => Stopped(NameOf[p])
      BY <1>3, <1>4, <1>5 DEF ObjectsKept, ObjectsGiven
    <2> QED
      BY <1>6, <2>1, <2>2 DEF ObjectsGiven
  <1>8. \A i \in DOMAIN posted' : posted'[i].id = "stop" => Stopped(posted'[i].name)
    <2>1. PICK more \in Seq(Signal) :
             /\ posted' = posted \o more
             /\ \A i \in DOMAIN more : more[i].id = "stop" /\ more[i].name = NameOf[o]
      BY StopPosts
    <2>2. posted \in Seq(Signal)
      BY DEF ScriptTypeOK
    <2>3. \A i \in DOMAIN posted' : \/ i \in DOMAIN posted /\ posted'[i] = posted[i]
                                    \/ \E j \in DOMAIN more : posted'[i] = more[j]
      BY <2>1, <2>2, JoinOps
    <2> QED
      BY <1>3, <1>5, <2>1, <2>3 DEF StopsNamed
  <1>9. ASSUME lost = {}
        PROVE  Owned(object', nodes, running, toServer, ran')
    <2>1. Owned(object, nodes, running, toServer, ran) /\ running \in [Node -> SUBSET Object]
      BY <1>2, <1>5, <1>9 DEF ScriptTypeOK
    <2>2. \A q \in Object : ~Stopped(NameOf[q]) => object'[q] = object[q]
      BY <1>3, <1>4
    <2>3. ASSUME NEW q \in Object, NEW p \in Object, NEW k \in Node, ~Stopped(NameOf[q]),
                 p \in Unended(object', k, NameOf[q])
          PROVE  p \in Unended(object, k, NameOf[q])
      <3>1. NameOf[p] = NameOf[q]
        BY <2>3 DEF Unended
      <3>2. object'[p] = object[p]
        BY <2>2, <2>3, <3>1
      <3> QED
        BY <2>3, <3>2 DEF Unended
    <2>4. SharedHeld(object', nodes)
      BY <2>1, <2>2 DEF Owned, SharedHeld
    <2> DEFINE obj == object'
               finished == ran'
    <2>5. /\ \A q \in Object : ~Stopped(NameOf[q]) /\ object[q].status = "started" =>
                obj[q] = object[q] /\ (q \in ran => q \in finished)
          /\ \A q, p \in Object, k \in Node :
                ~Stopped(NameOf[q]) /\ object[q].status = "started"
                /\ p \in Unended(obj, k, NameOf[q]) => p \in Unended(object, k, NameOf[q])
          /\ SharedHeld(obj, nodes)
      BY <1>1, <2>2, <2>3, <2>4
    <2> HIDE DEF obj, finished
    <2>6. Owned(obj, nodes, running, toServer, finished)
      BY <2>1, <2>5, ObjectsOwned
    <2> QED
      BY <2>6 DEF obj, finished
  <1>10. /\ \A p \in Object : object'[p].status # "new" =>
               object[p].status # "new" \/ Starts(script.commands[pc], p)
         /\ \A p \in Object : object[p].status = "done" =>
               object'[p].status = "done" \/ Starts(script.commands[pc], p)
         /\ \A p \in Object : object'[p].status = "done" =>
               object[p].status = "done" /\ (p \in ran => p \in ran')
    <2>1. \A p \in Object : /\ object'[p].status # "new" => object[p].status # "new"
                            /\ object[p].status = "done" <=> object'[p].status = "done"
      BY <1>4
    <2> QED
      BY <1>1, <2>1
  <1>11. "stop" # "wait"
    OBVIOUS
  <1> QED
    BY <1>1, <1>7, <1>8, <1>9, <1>10, <1>11, CommandDone

LEMMA ReturnDone ==
    ASSUME ScriptTypeOK, DoneInv, Return
    PROVE  DoneInv'
  <1>1. /\ UNCHANGED <<script, posted, object, modules, alive, nodes, running, toNode, toServer,
                       ran, lost>>
        /\ pc' = pc + 1 /\ pc = Len(script.commands) + 1
    BY DEF Return, Returning, processVars, serverVars, wireVars, historyVars
  <1>2. /\ Len(script.commands) \in Nat /\ DOMAIN script.commands = 1..Len(script.commands)
    <2>1. script.commands \in Seq([op : Ops, obj : Object])
      BY ScriptAssumption DEF ScriptTypeOK
    <2> QED
      BY <2>1
  <1>3. /\ ~Over /\ \A i \in DOMAIN script.commands : i < pc /\ i < pc'
    BY <1>1, <1>2 DEF Over
  <1>4. ObjectsKept(object) /\ StopsNamed /\ DoneRan
        /\ (alive /\ lost = {} => Owned(object, nodes, running, toServer, ran))
    BY DEF DoneInv
  <1>5. \A name : Stopped(name)' = Stopped(name)
    BY <1>1 DEF Stopped
  <1>6. ObjectsGiven(object)'
    BY <1>1, <1>4, <1>5 DEF ObjectsKept, ObjectsGiven
  <1>7. ObjectsStarted(object)'
    BY <1>1, <1>3, <1>4 DEF ObjectsKept, ObjectsStarted
  <1>8. ObjectsAwaited(object)'
    BY <1>1, <1>3, <1>4 DEF ObjectsKept, ObjectsAwaited
  <1>9. StopsNamed' /\ DoneRan'
    BY <1>1, <1>4, <1>5 DEF StopsNamed, DoneRan
  <1>10. (alive /\ lost = {} => Owned(object, nodes, running, toServer, ran))'
    BY <1>1, <1>4, <1>5 DEF Owned, ProgramOwned, ReportOwned, SharedHeld, Unended
  <1> QED
    BY <1>6, <1>7, <1>8, <1>9, <1>10 DEF DoneInv, ObjectsKept

LEMMA ThreadDone ==
    ASSUME ScriptTypeOK, NodesKept, Orderly, DoneInv, ScriptThread
    PROVE  DoneInv'
  <1>1. modules \in Seq(Object)
    BY DEF ScriptTypeOK
  <1>2. ASSUME NEW o \in Object, modules' = modules \/ modules' = Append(modules, o)
        PROVE  \A p \in ToSet(modules) : p \in ToSet(modules')
    <2>1. \A i \in DOMAIN modules : i \in DOMAIN modules' /\ modules'[i] = modules[i]
      BY <1>1, <1>2, AppendOps
    <2> QED
      BY <2>1 DEF ToSet
  <1>3. ASSUME NEW o \in Object, New(o)
        PROVE  DoneInv'
    <2>1. /\ Command("new", o) /\ UNCHANGED <<object, posted, ran>>
          /\ modules' = Append(modules, o) /\ "new" # "wait"
      BY <1>3 DEF New
    <2> QED
      BY <1>2, <2>1, QuietDone
  <1>4. ASSUME NEW o \in Object, Start(o)
        PROVE  DoneInv'
    <2>1. /\ Command("start", o) /\ object' = Waiting(object, {o})
          /\ posted' = Append(posted, NewSignal) /\ ran' = ran \ {o}
          /\ "start" \in {"start", "startElement"}
      BY <1>4 DEF Start
    <2>2. modules' = modules
      BY <1>4 DEF Start
    <2> QED
      BY <1>2, <2>1, <2>2, StartingDone
  <1>5. ASSUME NEW o \in Object, StartElement(o)
        PROVE  DoneInv'
    <2>1. /\ Command("startElement", o) /\ object' = Waiting(object, {o})
          /\ posted' = Append(posted, NewSignal) /\ ran' = ran \ {o}
          /\ "startElement" \in {"start", "startElement"}
      BY <1>5 DEF StartElement
    <2>2. modules' = Append(modules, o)
      BY <1>5 DEF StartElement
    <2> QED
      BY <1>2, <2>1, <2>2, StartingDone
  <1>6. ASSUME NEW o \in Object, WaitForFinished(o)
        PROVE  DoneInv'
    <2>1. /\ Command("wait", o) /\ UNCHANGED <<object, posted, ran>>
          /\ modules' = modules /\ object[o].status = "done"
      BY <1>6 DEF WaitForFinished
    <2> QED
      BY <1>2, <2>1, QuietDone
  <1> QED
    BY <1>3, <1>4, <1>5, <1>6, StopDone, ReturnDone DEF ScriptThread

LEMMA InitDone ==
    ASSUME ScriptInit
    PROVE  DoneInv
  <1>1. /\ object = [o \in Object |-> [status |-> "new", node |-> NoNode]]
        /\ posted = <<NewSignal>> /\ lost = {} /\ pc = 1
        /\ running = [n \in Node |-> {}] /\ toNode = [n \in Node |-> <<>>]
        /\ toServer = [n \in Node |-> <<>>] /\ script \in Scripts
    BY DEF ScriptInit
  <1>2. \A o \in Object : object[o].status = "new" /\ object[o].node = NoNode
    BY <1>1
  <1>3. /\ script.commands \in Seq([op : Ops, obj : Object])
        /\ script.onFinish \in [Object -> SUBSET Object]
    BY <1>1, ScriptAssumption
  <1>4. ObjectsGiven(object)
    BY <1>2 DEF ObjectsGiven
  <1>5. ObjectsStarted(object)
    BY <1>2, <1>3 DEF ObjectsStarted
  <1>6. ObjectsAwaited(object)
    <2>1. \A k \in DOMAIN script.commands : ~(k < pc)
      BY <1>1, <1>3
    <2> QED
      BY <2>1 DEF ObjectsAwaited
  <1>7. StopsNamed
    BY <1>1 DEF StopsNamed, NewSignal
  <1>8. SharedHeld(object, nodes)
    BY <1>2 DEF SharedHeld
  <1>9. Owned(object, nodes, running, toServer, ran)
    BY <1>1, <1>8 DEF Owned
  <1>10. DoneRan
    BY <1>2 DEF DoneRan
  <1> QED
    BY <1>4, <1>5, <1>6, <1>7, <1>9, <1>10 DEF DoneInv, ObjectsKept

LEMMA NextDone ==
    ASSUME ScriptTypeOK, QueueInv, Orderly, DoneInv, [ScriptNext]_vars
    PROVE  DoneInv' /\ Orderly'
  <1>1. UNCHANGED script
    <2>1. ASSUME NEW n \in Node, NodeStep(n) \/ NodeConnected(n) \/ NodeDisconnected(n)
          PROVE  UNCHANGED script
      BY <2>1 DEF NodeStep, ProgramEnds, StopProgram, NodeConnected, NodeDisconnected
    <2>2. CASE MainThread
      BY <2>2 DEF MainThread, NewModulesAvailable, StopModuleOnNode, EndModuleSuccess,
                  EndModuleFailed, StopModuleSuccess, Hears
    <2>3. CASE ScriptThread
      BY <2>3 DEF ScriptThread, New, Start, StartElement, WaitForFinished, Stop, Return, Command
    <2> QED
      BY <2>1, <2>2, <2>3 DEF ScriptNext, StopProcess, vars
  <1>2. \A name : Stopped(name)' = Stopped(name)
    BY <1>1 DEF Stopped
  <1>3. Orderly'
    BY <1>1, <1>2 DEF Orderly
  <1>4. NodesKept
    BY DEF QueueInv
  <1>5. ASSUME NEW n \in Node, NodeStep(n) \/ NodeConnected(n) \/ NodeDisconnected(n)
        PROVE  DoneInv'
    BY <1>5, ProgramDone, StopProgramDone, ConnectedDone, DisconnectedDone DEF NodeStep
  <1>6. CASE UNCHANGED vars
    <2>1. UNCHANGED <<script, pc, posted, object, modules, alive, nodes, running, toNode, toServer,
                      ran, lost>>
      BY <1>6 DEF vars, processVars, serverVars, wireVars, historyVars
    <2>2. ObjectsKept(object) /\ StopsNamed /\ DoneRan
          /\ (alive /\ lost = {} => Owned(object, nodes, running, toServer, ran))
      BY DEF DoneInv
    <2>3. ObjectsKept(object)' /\ StopsNamed' /\ DoneRan'
      BY <1>2, <2>1, <2>2 DEF ObjectsKept, ObjectsGiven, ObjectsStarted, ObjectsAwaited, Over,
                              StopsNamed, DoneRan
    <2>4. (alive /\ lost = {} => Owned(object, nodes, running, toServer, ran))'
      BY <1>2, <2>1, <2>2 DEF Owned, ProgramOwned, ReportOwned, SharedHeld, Unended
    <2> QED
      BY <1>3, <2>3, <2>4 DEF DoneInv
  <1>7. CASE ScriptThread
    BY <1>3, <1>4, <1>7, ThreadDone
  <1>8. CASE MainThread
    BY <1>3, <1>8, MainDone
  <1>9. CASE StopProcess
    BY <1>3, <1>9, StopProcessDone
  <1> QED
    BY <1>3, <1>5, <1>6, <1>7, <1>8, <1>9 DEF ScriptNext

---------------------------------------------------------------------------
(* The theorems.                                                           *)

\* The server's record of a script's process, of its nodes and of what is under
\* way between them keeps its shape, whatever the script, the nodes and the
\* order of commands, signals and reports: in particular a module that is told
\* to stop is on a node (stopModuleByName).
THEOREM ScriptsKeepTheirTypes == ScriptSpec => []ScriptTypeOK
  <1>1. ScriptInit => ScriptTypeOK /\ QueueInv
    BY InitTyped
  <1>2. ScriptTypeOK /\ QueueInv /\ [ScriptNext]_vars => (ScriptTypeOK /\ QueueInv)'
    BY NextKeeps
  <1> QED
    BY <1>1, <1>2, PTL DEF ScriptSpec

\* A busy node is awaited; all_nodes_free is up to date as long as no node was
\* lost; and the loop of checkProcessQueue comes to every module that waits
\* beside a free node: by newModulesAvailable_signal if no node is busy, by the
\* report of one that is.
THEOREM QueueComes == ScriptSpec => []QueueInv
  <1>1. ScriptInit => ScriptTypeOK /\ QueueInv
    BY InitTyped
  <1>2. ScriptTypeOK /\ QueueInv /\ [ScriptNext]_vars => (ScriptTypeOK /\ QueueInv)'
    BY NextKeeps
  <1> QED
    BY <1>1, <1>2, PTL DEF ScriptSpec

\* There are no dead situations (newModulesAvailable_slot): whatever the script
\* and the nodes, as long as no node is lost, a module that waits beside a free
\* node that offers it has something under way that will run the loop: a signal
\* of its script, or the program, the order or the report of a busy node.
THEOREM NoDeadSituations == ScriptSpec => []NoDeadSituation
  <1>1. ScriptTypeOK /\ QueueInv => NoDeadSituation
    <2> SUFFICES ASSUME ScriptTypeOK, QueueInv, alive, ~fault,
                        \A n \in Node : nodes[n].state # "gone",
                        NEW o \in With("wait"), NEW n \in Node,
                        IsFree(nodes, n), NameOf[o] \in Offers[n]
                 PROVE  \/ posted # <<>>
                        \/ \E i \in Node : \/ running[i] # {} \/ toNode[i] # <<>>
                                           \/ toServer[i] # <<>>
      BY DEF NoDeadSituation
    <2>1. CASE \E i \in DOMAIN posted : posted[i].id = "new"
      BY <2>1
    <2>2. CASE ~AllFree(nodes)
      <3>1. PICK i \in Node : nodes[i].busy
        BY <2>2 DEF AllFree
      <3>2. Awaited(nodes[i], running[i], toNode[i], toServer[i])
        BY <3>1 DEF QueueInv, BusyAwaited, NodeAwaited
      <3> QED
        BY <3>2 DEF Awaited
    <2> QED
      BY <2>1, <2>2 DEF QueueInv, LoopComes
  <1> QED
    BY <1>1, ScriptsKeepTheirTypes, QueueComes, PTL

\* For a script that stops, and starts again, only by names that are its own
\* (Orderly): as long as no module failed and no node was lost, a module the
\* script no longer waits for (waitForFinished) has run to its end since its
\* last start, whatever the order of commands, signals and reports; for a report
\* names a module and a node only, and finishModuleExecutionOnNode ends every
\* object that fits.
THEOREM DoneModulesRan == ScriptSpec /\ Orderly => []DoneRan
  <1>1. ScriptInit => ScriptTypeOK /\ QueueInv /\ DoneInv
    BY InitTyped, InitDone
  <1>2. ScriptTypeOK /\ QueueInv /\ DoneInv /\ Orderly /\ [ScriptNext]_vars
           => (ScriptTypeOK /\ QueueInv /\ DoneInv /\ Orderly)'
    BY NextKeeps, NextDone
  <1>3. DoneInv => DoneRan
    BY DEF DoneInv
  <1> QED
    BY <1>1, <1>2, <1>3, PTL DEF ScriptSpec
===============================================================================
