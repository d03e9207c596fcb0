------------------------- MODULE ModuleUpdateProofs -------------------------
(***************************************************************************)
(* Proof that a program that runs is the version the server's sum names,   *)
(* on every client of a host, and that updates never take a job from the   *)
(* general one: UpdateInv is inductive.                                    *)
(***************************************************************************)
EXTENDS ModuleUpdate, TLAPS, WellFoundedInduction

---------------------------------------------------------------------------
(* The inductive invariant.                                                *)

\* Messages of an id, on a channel.
None(q, ids) == \A msg \in ToSet(q) : msg.id \notin ids
One(q, ids) == \A i, j \in DOMAIN q : q[i].id \in ids /\ q[j].id \in ids => i = j
Precede(q, id, ids) == \A i, j \in DOMAIN q : q[i].id = id /\ q[j].id \in ids => i < j

Orders == {"120", "121"}
Replies == {"md5_error", "refused", "ready", "ended"}

\* Everything a node and a client may send.
NodeMessage ==
    [id : {"110"}, unknown : SUBSET Module]
        \cup [id : {"111", "120"}, module : Module, version : Version]
        \cup [id : {"112"}]
        \cup [id : {"121"}, module : Module]

ClientMessage == [id : {"110"}, versions : Versions] \cup [id : Replies, module : Module]

\* A job goes from an order to its answer, from the answer to the next order
\* and on to the program: it is in one place, and wherever it is, the node is
\* busy with it.
OneThread(cl, n, in, out) ==
    /\ One(in, Orders) /\ One(out, Replies)
    /\ None(in, Orders) \/ None(out, Replies)
    /\ cl.running # NoVersion => None(in, Orders) /\ None(out, Replies)
    /\ n.job = NoJob => /\ None(in, Orders) /\ None(out, Replies)
                        /\ cl.running = NoVersion /\ cl.prepared = NoVersion

\* What is on the way, prepared or run is of the job the node is busy with, and
\* nothing is prepared before the order to prepare or after a refusal.
CarriesJob(cl, n, in, out) ==
    /\ \A msg \in ToSet(in) : msg.id \in Orders => msg.module = n.job.module
    /\ \A msg \in ToSet(in) :
         msg.id = "120" => msg.version = n.job.version /\ cl.prepared = NoVersion
    /\ \A msg \in ToSet(out) : msg.id \in Replies => msg.module = n.job.module
    /\ \A msg \in ToSet(out) :
         msg.id \in Replies \ {"ready"} => cl.prepared = NoVersion
    /\ cl.prepared # NoVersion => cl.prepared = n.job.version
    /\ cl.running # NoVersion => cl.running = n.job.version /\ cl.prepared = NoVersion
    /\ cl.prepared # NoVersion \/ cl.running # NoVersion => cl.exec = n.job.module

Thread(cl, n, in, out) == OneThread(cl, n, in, out) /\ CarriesJob(cl, n, in, out)

\* The archive of a module is sent, under way, or was unpacked and the list
\* that tells the server so has not arrived.
Upgrading(n, in, out) ==
    n.upload # NoUpload \/ ~None(in, {"111"}) \/ ~None(out, {"110"})

\* An update is in one place too, and while it is, the node has no module and
\* no job; the list that arrives is what the client has.
OneUpdate(cl, n, in, out) ==
    /\ One(in, {"111"}) /\ One(out, {"110"})
    /\ n.upload # NoUpload => None(in, {"111"}) /\ None(out, {"110"})
    /\ None(in, {"111"}) \/ None(out, {"110"})
    /\ Upgrading(n, in, out) => n.listed = Nothing /\ n.job = NoJob
    /\ \A msg \in ToSet(out) : msg.id = "110" => msg.versions = cl.loaded

\* The answer to a list comes before the orders of the jobs it allows.
AnswerFirst(cl, n, in, out) ==
    /\ \A msg \in ToSet(in) : msg.id = "110" =>
         /\ ~Upgrading(n, in, out)
         /\ cl.running = NoVersion /\ None(out, Replies) /\ None(in, {"121"})
         /\ \A m \in msg.unknown : n.listed[m] = NoVersion
    /\ Precede(in, "110", Orders)

\* What the node may use the client has, and a job can end.
JobCanEnd(cl, n, in, out) ==
    /\ \A m \in Module :
         n.listed[m] # NoVersion => n.connected /\ cl.loaded[m] # NoVersion
    /\ n.job # NoJob =>
         /\ n.connected /\ n.listed[n.job.module] # NoVersion
         /\ cl.running # NoVersion \/ ~None(in, Orders) \/ ~None(out, Replies)

Updated(cl, n, in, out) ==
    /\ OneUpdate(cl, n, in, out)
    /\ AnswerFirst(cl, n, in, out)
    /\ JobCanEnd(cl, n, in, out)

ClientState == [loaded : Versions,
                prepared : Version \cup {NoVersion},
                running : Version \cup {NoVersion},
                exec : Module \cup {NoModule},
                timers : Nat]

Upload == [module : Module, version : Version]

NodeState == [listed : Versions, accepted : BOOLEAN, connected : BOOLEAN,
              last : Module \cup {NoModule}, failed : SUBSET Module,
              upload : {NoUpload} \cup Upload,
              job : Job \cup {NoJob},
              prev : Process \cup {NoProcess}]

\* The general node alone is sent archives, the others alone are told to wait.
Typed(c, cl, n, in, out) ==
    /\ cl \in ClientState /\ n \in NodeState
    /\ in \in Seq(NodeMessage) /\ out \in Seq(ClientMessage)
    /\ n.upload # NoUpload => c = General
    /\ \A msg \in ToSet(in) : /\ msg.id = "111" => c = General
                              /\ msg.id = "112" => c # General
    /\ c = General => cl.timers = 0

Connection(c, cl, n, in, out) ==
    /\ Typed(c, cl, n, in, out)
    /\ Thread(cl, n, in, out)
    /\ c = General => Updated(cl, n, in, out)

Shared ==
    /\ files \in [Module -> Version]
    /\ directory \in Versions
    /\ allow \in BOOLEAN /\ lost \in BOOLEAN
    /\ given \in 0..MaxJobs
    /\ fault \in Cpu \cup {NoCpu}
    /\ fault # General

\* Every connection carries one job, and the general one no update beside it.
UpdateInv ==
    /\ Shared
    /\ client \in [Cpu -> ClientState] /\ node \in [Cpu -> NodeState]
    /\ toClient \in [Cpu -> Seq(NodeMessage)] /\ toNode \in [Cpu -> Seq(ClientMessage)]
    /\ \A c \in Cpu : Connection(c, client[c], node[c], toClient[c], toNode[c])

---------------------------------------------------------------------------
(* Data.                                                                   *)

\* The natural numbers are well founded, as a fact about a set of pairs.
LEMMA LessThanWellFounded ==
    \E R : IsWellFoundedOn(R, Nat) /\ \A y, x \in Nat : <<y, x>> \in R <=> y < x
  <1>1. IsWellFoundedOn(OpToRel(<, Nat), Nat)
    BY NatLessThanWellFounded
  <1>2. \A y, x \in Nat : <<y, x>> \in OpToRel(<, Nat) <=> y < x
    BY DEF OpToRel
  <1> QED
    BY <1>1, <1>2, Zenon

\* A set of numbers that is not empty has a least one.
LEMMA LeastIsMember ==
    ASSUME NEW S \in SUBSET Nat, S # {}
    PROVE  Min(S) \in S
  <1>1. PICK R : IsWellFoundedOn(R, Nat) /\ \A y, x \in Nat : <<y, x>> \in R <=> y < x
    BY LessThanWellFounded
  <1>2. \A y, x \in Nat : <<y, x>> \in R <=> y < x
    BY <1>1
  <1>3. IsWellFoundedOn(R, Nat) /\ S \subseteq Nat
    BY <1>1
  <1>4. \E x \in S : \A y \in S : ~ (<<y, x>> \in R)
    BY <1>3, WFMin, Zenon
  <1>5. PICK x \in S : \A y \in S : ~ (<<y, x>> \in R)
    BY <1>4
  <1>6. \A y \in S : ~(y < x)
    BY <1>2, <1>5
  <1>7. \A y \in S : x <= y
    BY <1>6
  <1> QED
    BY <1>7 DEF Min

\* What is sent on a channel joins what is there.
LEMMA Sent ==
    ASSUME NEW T, NEW q \in Seq(T), NEW e \in T
    PROVE  /\ Append(q, e) \in Seq(T)
           /\ \A msg \in ToSet(Append(q, e)) : msg \in ToSet(q) \/ msg = e
           /\ \A ids : /\ None(q, ids) /\ e.id \notin ids => None(Append(q, e), ids)
                       /\ None(Append(q, e), ids) => None(q, ids) /\ e.id \notin ids
                       /\ One(q, ids) /\ (None(q, ids) \/ e.id \notin ids)
                             => One(Append(q, e), ids)
  <1>1. /\ Append(q, e) \in Seq(T) /\ Len(q) \in Nat
        /\ DOMAIN Append(q, e) = 1..(Len(q) + 1) /\ DOMAIN q = 1..Len(q)
    OBVIOUS
  <1>2. \A i \in DOMAIN q : i \in DOMAIN Append(q, e) /\ Append(q, e)[i] = q[i]
    OBVIOUS
  <1>3. Len(q) + 1 \in DOMAIN Append(q, e) /\ Append(q, e)[Len(q) + 1] = e
    OBVIOUS
  <1>4. \A i \in DOMAIN Append(q, e) : i \in DOMAIN q \/ i = Len(q) + 1
    BY <1>1
  <1> DEFINE r == Append(q, e)
             n == Len(q) + 1
  <1> HIDE DEF r, n
  <1>5. /\ \A msg \in ToSet(r) : msg \in ToSet(q) \/ msg = e
        /\ ToSet(q) \subseteq ToSet(r) /\ e \in ToSet(r)
    BY <1>2, <1>3, <1>4 DEF ToSet, r, n
  <1>6. ASSUME NEW ids
        PROVE  /\ None(q, ids) /\ e.id \notin ids => None(r, ids)
               /\ None(r, ids) => None(q, ids) /\ e.id \notin ids
               /\ One(q, ids) /\ (None(q, ids) \/ e.id \notin ids) => One(r, ids)
    <2>1. /\ None(q, ids) /\ e.id \notin ids => None(r, ids)
          /\ None(r, ids) => None(q, ids) /\ e.id \notin ids
      BY <1>5 DEF None
    <2>2. ASSUME One(q, ids), None(q, ids) \/ e.id \notin ids
          PROVE  One(r, ids)
      <3>1. None(q, ids) => \A i \in DOMAIN q : q[i].id \notin ids
        BY DEF None, ToSet
      <3> SUFFICES ASSUME NEW i \in DOMAIN r, NEW j \in DOMAIN r,
                          r[i].id \in ids, r[j].id \in ids
                   PROVE  i = j
        BY DEF One
      <3>2. /\ (i \in DOMAIN q /\ r[i] = q[i]) \/ (i = n /\ r[i] = e)
            /\ (j \in DOMAIN q /\ r[j] = q[j]) \/ (j = n /\ r[j] = e)
        BY <1>2, <1>3, <1>4 DEF r, n
      <3> QED
        BY <2>2, <3>1, <3>2 DEF One
    <2> QED
      BY <2>1, <2>2
  <1> QED
    BY <1>1, <1>5, <1>6 DEF r

\* What is received leaves the channel.
LEMMA Received ==
    ASSUME NEW T, NEW q \in Seq(T), q # <<>>
    PROVE  /\ Tail(q) \in Seq(T)
           /\ Head(q) \in T /\ Head(q) \in ToSet(q)
           /\ \A msg \in ToSet(Tail(q)) : msg \in ToSet(q)
           /\ \A ids : /\ None(q, ids) => None(Tail(q), ids) /\ Head(q).id \notin ids
                       /\ None(Tail(q), ids) /\ Head(q).id \notin ids => None(q, ids)
                       /\ One(q, ids) => One(Tail(q), ids)
                       /\ One(q, ids) /\ Head(q).id \in ids => None(Tail(q), ids)
  <1> DEFINE r == Tail(q)
  <1>1. /\ r \in Seq(T) /\ Head(q) \in T
        /\ 1 \in DOMAIN q /\ q[1] = Head(q)
    OBVIOUS
  <1>2. \A i \in DOMAIN r : /\ i \in Nat /\ i + 1 \in DOMAIN q /\ i + 1 # 1
                            /\ r[i] = q[i + 1]
    OBVIOUS
  <1>3. \A i \in DOMAIN q : i = 1 \/ (i - 1 \in DOMAIN r /\ r[i - 1] = q[i])
    OBVIOUS
  <1>4. \A i, j \in DOMAIN r : i + 1 = j + 1 => i = j
    BY <1>2
  <1> HIDE DEF r
  <1>5. /\ Head(q) \in ToSet(q)
        /\ \A msg \in ToSet(r) : msg \in ToSet(q)
        /\ \A msg \in ToSet(q) : msg = Head(q) \/ msg \in ToSet(r)
    BY <1>1, <1>2, <1>3 DEF ToSet
  <1>6. ASSUME NEW ids
        PROVE  /\ None(q, ids) => None(r, ids) /\ Head(q).id \notin ids
               /\ None(r, ids) /\ Head(q).id \notin ids => None(q, ids)
               /\ One(q, ids) => One(r, ids)
               /\ One(q, ids) /\ Head(q).id \in ids => None(r, ids)
    <2>1. /\ None(q, ids) => None(r, ids) /\ Head(q).id \notin ids
          /\ None(r, ids) /\ Head(q).id \notin ids => None(q, ids)
      BY <1>5 DEF None
    <2>2. One(q, ids) => One(r, ids)
      BY <1>2, <1>4 DEF One
    <2>3. ASSUME One(q, ids), Head(q).id \in ids
          PROVE  None(r, ids)
      <3>1. \A i \in DOMAIN r : r[i].id \notin ids
        BY <1>1, <1>2, <2>3 DEF One
      <3> QED
        BY <3>1 DEF None, ToSet
    <2> QED
      BY <2>1, <2>2, <2>3
  <1> QED
    BY <1>1, <1>5, <1>6 DEF r

\* The order of what is on a channel is kept.
LEMMA OrderKept ==
    ASSUME NEW T, NEW q \in Seq(T), NEW id, NEW ids, Precede(q, id, ids)
    PROVE  /\ \A e \in T : e.id # id \/ (None(q, ids) /\ e.id \notin ids)
                                => Precede(Append(q, e), id, ids)
           /\ q # <<>> => Precede(Tail(q), id, ids)
           /\ q # <<>> /\ Head(q).id \in ids => None(q, {id})
  <1>1. ASSUME NEW e \in T, e.id # id \/ (None(q, ids) /\ e.id \notin ids)
        PROVE  Precede(Append(q, e), id, ids)
    <2> DEFINE r == Append(q, e)
               n == Len(q) + 1
    <2>1. n \in Nat /\ \A i \in DOMAIN q : i \in Nat /\ i < n
      OBVIOUS
    <2>2. \A i \in DOMAIN r : (i \in DOMAIN q /\ r[i] = q[i]) \/ (i = n /\ r[i] = e)
      OBVIOUS
    <2> HIDE DEF r, n
    <2> SUFFICES ASSUME NEW i \in DOMAIN r, NEW j \in DOMAIN r,
                        r[i].id = id, r[j].id \in ids
                 PROVE  i < j
      BY DEF Precede, r
    <2>3. None(q, ids) => \A k \in DOMAIN q : q[k].id \notin ids
      BY DEF None, ToSet
    <2>4. i \in DOMAIN q /\ r[i] = q[i]
      BY <1>1, <2>2, <2>3
    <2> QED
      BY <2>1, <2>2, <2>4 DEF Precede
  <1>2. ASSUME q # <<>>
        PROVE  Precede(Tail(q), id, ids)
    <2> DEFINE r == Tail(q)
    <2>1. \A i \in DOMAIN r : i \in Nat /\ i + 1 \in DOMAIN q /\ r[i] = q[i + 1]
      BY <1>2
    <2> HIDE DEF r
    <2>2. Precede(r, id, ids)
      BY <2>1 DEF Precede
    <2> QED
      BY <2>2 DEF r
  <1>3. ASSUME q # <<>>, Head(q).id \in ids
        PROVE  None(q, {id})
    <2>1. /\ 1 \in DOMAIN q /\ q[1] = Head(q)
          /\ \A i \in DOMAIN q : i \in Nat /\ ~(i < 1)
      BY <1>3
    <2>2. \A i \in DOMAIN q : q[i].id # id
      BY <1>3, <2>1 DEF Precede
    <2> QED
      BY <2>2 DEF None, ToSet
  <1> QED
    BY <1>1, <1>2, <1>3

\* The kinds of messages differ.
LEMMA Ids ==
    /\ "120" \in Orders /\ "121" \in Orders
    /\ "110" \notin Orders /\ "111" \notin Orders /\ "112" \notin Orders
    /\ "110" \notin Replies /\ "ready" \in Replies /\ "ended" \in Replies
    /\ "md5_error" \in Replies /\ "refused" \in Replies
  BY DEF Orders, Replies

---------------------------------------------------------------------------
(* What a client does to its connection.                                   *)

\* The answer to the list: no program of the general client is stopped.
LEMMA ListAnsweredSafe ==
    ASSUME NEW c \in Cpu, NEW cl, NEW n, NEW in, NEW out, NEW new,
           Connection(c, cl, n, in, out),
           in # <<>>, Head(in).id = "110",
           new \in ClientState, new.timers = cl.timers, new.exec = cl.exec,
           \A m \in Module : new.loaded[m] =
               IF m \in Head(in).unknown THEN NoVersion ELSE cl.loaded[m],
           \/ new.prepared = cl.prepared /\ new.running = cl.running
           \/ new.prepared = NoVersion /\ new.running = NoVersion
    PROVE  Connection(c, new, n, Tail(in), out)
  <1> DEFINE rest == Tail(in)
  <1>0. Typed(c, cl, n, in, out) /\ Thread(cl, n, in, out)
    BY DEF Connection
  <1>1. in \in Seq(NodeMessage)
    BY <1>0 DEF Typed
  <1>2. /\ rest \in Seq(NodeMessage) /\ Head(in) \in NodeMessage /\ Head(in) \in ToSet(in)
        /\ \A msg \in ToSet(rest) : msg \in ToSet(in)
        /\ \A ids : /\ None(in, ids) => None(rest, ids)
                    /\ None(rest, ids) /\ "110" \notin ids => None(in, ids)
                    /\ One(in, ids) => One(rest, ids)
    BY <1>1, Received
  <1> HIDE DEF rest
  <1>3. Typed(c, new, n, rest, out)
    BY <1>0, <1>2 DEF Typed
  <1>4. Thread(new, n, rest, out)
    BY <1>0, <1>2 DEF Thread, OneThread, CarriesJob
  <1>5. ASSUME c = General
        PROVE  Updated(new, n, rest, out)
    <2>1. /\ OneUpdate(cl, n, in, out) /\ AnswerFirst(cl, n, in, out)
          /\ JobCanEnd(cl, n, in, out)
      BY <1>5 DEF Connection, Updated
    <2>2. ~Upgrading(n, in, out)
      BY <1>2, <2>1 DEF AnswerFirst
    <2>3. n.upload = NoUpload /\ None(rest, {"111"}) /\ None(out, {"110"})
      BY <1>2, <2>2 DEF Upgrading
    <2>4. OneUpdate(new, n, rest, out)
      BY <1>2, <2>1, <2>3 DEF OneUpdate, Upgrading, None
    <2>5. AnswerFirst(new, n, rest, out)
      <3>1. Precede(rest, "110", Orders)
        BY <1>1, <2>1, OrderKept DEF AnswerFirst, rest
      <3> QED
        BY <1>2, <2>1, <2>3, <3>1 DEF AnswerFirst, Upgrading
    <2>6. JobCanEnd(new, n, rest, out)
      <3>1. \A m \in Head(in).unknown : n.listed[m] = NoVersion
        BY <1>2, <2>1 DEF AnswerFirst
      <3>2. \A ids : None(rest, ids) /\ "110" \notin ids => None(in, ids)
        BY <1>2
      <3>3. cl.running = NoVersion
        BY <1>2, <2>1 DEF AnswerFirst
      <3> QED
        BY <2>1, <3>1, <3>2, <3>3, Ids DEF JobCanEnd
    <2> QED
      BY <2>4, <2>5, <2>6 DEF Updated
  <1> QED
    BY <1>3, <1>4, <1>5 DEF Connection, rest

\* The modules are read again and the list is sent, by the general client
\* after an archive and by the others after a wait.
LEMMA ListSentSafe ==
    ASSUME NEW c \in Cpu, NEW cl, NEW n, NEW in, NEW out, NEW new, NEW dir,
           Connection(c, cl, n, in, out),
           dir \in Versions,
           new \in ClientState, new.loaded = dir, new.prepared = NoVersion,
           new.running = NoVersion, c = General => new.timers = cl.timers,
           c = General => /\ n.listed = Nothing /\ n.job = NoJob /\ n.upload = NoUpload
                          /\ None(in, {"111", "110"}) /\ None(out, {"110"})
    PROVE  Connection(c, new, n, in, Append(out, List(dir)))
  <1> DEFINE more == Append(out, List(dir))
  <1>0. Typed(c, cl, n, in, out) /\ Thread(cl, n, in, out)
    BY DEF Connection
  <1>1. out \in Seq(ClientMessage)
    BY <1>0 DEF Typed
  <1>2. List(dir) \in ClientMessage /\ List(dir).id = "110" /\ List(dir).versions = dir
    BY DEF List, ClientMessage
  <1>3. /\ more \in Seq(ClientMessage)
        /\ \A msg \in ToSet(more) : msg \in ToSet(out) \/ msg = List(dir)
        /\ \A ids : /\ None(out, ids) /\ "110" \notin ids => None(more, ids)
                    /\ None(more, ids) => None(out, ids)
                    /\ One(out, ids) /\ (None(out, ids) \/ "110" \notin ids)
                          => One(more, ids)
    BY <1>1, <1>2, Sent
  <1> HIDE DEF more
  <1>4. Typed(c, new, n, in, more)
    BY <1>0, <1>3 DEF Typed
  <1>5. Thread(new, n, in, more)
    BY <1>0, <1>2, <1>3, Ids DEF Thread, OneThread, CarriesJob
  <1>6. ASSUME c = General
        PROVE  Updated(new, n, in, more)
    <2>1. /\ OneUpdate(cl, n, in, out) /\ AnswerFirst(cl, n, in, out)
          /\ JobCanEnd(cl, n, in, out)
      BY <1>6 DEF Connection, Updated
    <2>2. \A msg \in ToSet(more) : msg.id = "110" => msg.versions = dir
      BY <1>2, <1>3, <1>6 DEF None
    <2>3. None(in, {"111"}) /\ \A msg \in ToSet(in) : msg.id # "110"
      BY <1>6 DEF None
    <2>4. OneUpdate(new, n, in, more)
      BY <1>3, <1>6, <2>1, <2>2, <2>3 DEF OneUpdate, Upgrading
    <2>5. AnswerFirst(new, n, in, more)
      BY <2>1, <2>3 DEF AnswerFirst
    <2>6. JobCanEnd(new, n, in, more)
      BY <1>6 DEF JobCanEnd, Nothing
    <2> QED
      BY <2>4, <2>5, <2>6 DEF Updated
  <1> QED
    BY <1>4, <1>5, <1>6 DEF Connection, more

\* An archive arrives, which only the general client is sent.
LEMMA ArchiveReceivedSafe ==
    ASSUME NEW c \in Cpu, NEW cl, NEW n, NEW in, NEW out,
           Connection(c, cl, n, in, out),
           in # <<>>, Head(in).id = "111"
    PROVE  /\ Connection(c, cl, n, Tail(in), out)
           /\ c = General /\ n.listed = Nothing /\ n.job = NoJob /\ n.upload = NoUpload
           /\ None(Tail(in), {"111", "110"}) /\ None(out, {"110"})
  <1> DEFINE rest == Tail(in)
  <1>0. Typed(c, cl, n, in, out) /\ Thread(cl, n, in, out)
    BY DEF Connection
  <1>1. in \in Seq(NodeMessage)
    BY <1>0 DEF Typed
  <1>2. /\ rest \in Seq(NodeMessage) /\ Head(in) \in ToSet(in)
        /\ \A msg \in ToSet(rest) : msg \in ToSet(in)
        /\ \A ids : /\ None(in, ids) => None(rest, ids)
                    /\ None(in, ids) => "111" \notin ids
                    /\ None(rest, ids) /\ "111" \notin ids => None(in, ids)
                    /\ One(in, ids) => One(rest, ids)
                    /\ One(in, ids) /\ "111" \in ids => None(rest, ids)
    BY <1>1, Received
  <1>9. Precede(in, "110", Orders) => Precede(rest, "110", Orders)
    BY <1>1, OrderKept
  <1> HIDE DEF rest
  <1>3. c = General
    BY <1>0, <1>2 DEF Typed
  <1>4. /\ OneUpdate(cl, n, in, out) /\ AnswerFirst(cl, n, in, out)
        /\ JobCanEnd(cl, n, in, out)
    BY <1>3 DEF Connection, Updated
  <1>5. ~None(in, {"111"})
    BY <1>2
  <1>6. /\ n.listed = Nothing /\ n.job = NoJob /\ n.upload = NoUpload
        /\ None(rest, {"111"}) /\ None(out, {"110"})
    BY <1>2, <1>4, <1>5 DEF OneUpdate, Upgrading
  <1>7. \A msg \in ToSet(in) : msg.id # "110"
    BY <1>4, <1>5 DEF AnswerFirst, Upgrading
  <1>8. None(rest, {"111", "110"})
    BY <1>2, <1>6, <1>7 DEF None
  <1>10. Typed(c, cl, n, rest, out)
    BY <1>0, <1>2 DEF Typed
  <1>11. Thread(cl, n, rest, out)
    BY <1>0, <1>2, Ids DEF Thread, OneThread, CarriesJob
  <1>12. OneUpdate(cl, n, rest, out)
    BY <1>2, <1>4, <1>6 DEF OneUpdate, Upgrading
  <1>13. AnswerFirst(cl, n, rest, out)
    BY <1>2, <1>4, <1>7, <1>9 DEF AnswerFirst
  <1>14. JobCanEnd(cl, n, rest, out)
    BY <1>6 DEF JobCanEnd, Nothing
  <1> QED
    BY <1>3, <1>6, <1>8, <1>10, <1>11, <1>12, <1>13, <1>14 DEF Connection, Updated, rest

\* The order to wait, which the general client never gets.
LEMMA WaitSafe ==
    ASSUME NEW c \in Cpu, NEW cl, NEW n, NEW in, NEW out, NEW new,
           Connection(c, cl, n, in, out),
           in # <<>>, Head(in).id = "112",
           new = [cl EXCEPT !.timers = @ + 1]
    PROVE  Connection(c, new, n, Tail(in), out)
  <1> DEFINE rest == Tail(in)
  <1>0. Typed(c, cl, n, in, out) /\ Thread(cl, n, in, out)
    BY DEF Connection
  <1>1. in \in Seq(NodeMessage) /\ cl \in ClientState
    BY <1>0 DEF Typed
  <1>2. /\ rest \in Seq(NodeMessage) /\ Head(in) \in ToSet(in)
        /\ \A msg \in ToSet(rest) : msg \in ToSet(in)
        /\ \A ids : /\ None(in, ids) => None(rest, ids)
                    /\ One(in, ids) => One(rest, ids)
    BY <1>1, Received
  <1> HIDE DEF rest
  <1>3. c # General
    BY <1>0, <1>2 DEF Typed
  <1>4. /\ new \in ClientState /\ new.prepared = cl.prepared /\ new.running = cl.running
        /\ new.exec = cl.exec
    BY <1>1 DEF ClientState
  <1>5. Typed(c, new, n, rest, out)
    BY <1>0, <1>2, <1>3, <1>4 DEF Typed
  <1>6. Thread(new, n, rest, out)
    BY <1>0, <1>2, <1>4 DEF Thread, OneThread, CarriesJob
  <1> QED
    BY <1>3, <1>5, <1>6 DEF Connection, rest

\* What an order that arrives tells of the job, and what it leaves.
LEMMA OrderFacts ==
    ASSUME NEW c \in Cpu, NEW cl, NEW n, NEW in, NEW out,
           Connection(c, cl, n, in, out),
           in # <<>>, Head(in).id \in Orders
    PROVE  /\ n.job \in Job /\ Head(in).module = n.job.module
           /\ Head(in).id = "120" => /\ Head(in).version = n.job.version
                                     /\ cl.prepared = NoVersion
           /\ cl.running = NoVersion /\ None(out, Replies) /\ None(Tail(in), Orders)
           /\ cl.prepared # NoVersion => /\ cl.prepared = n.job.version
                                         /\ cl.exec = n.job.module
           /\ Typed(c, cl, n, Tail(in), out)
           /\ \A ids : None(in, ids) => None(Tail(in), ids)
           /\ \A msg \in ToSet(Tail(in)) : msg \in ToSet(in)
           /\ c = General =>
                 /\ n.connected /\ cl.loaded[n.job.module] # NoVersion
                 /\ None(Tail(in), {"111"}) /\ None(out, {"110"}) /\ n.upload = NoUpload
                 /\ None(Tail(in), {"110"})
                 /\ AnswerFirst(cl, n, in, out) /\ JobCanEnd(cl, n, in, out)
                 /\ Precede(Tail(in), "110", Orders)
  <1> DEFINE rest == Tail(in)
  <1>0. Typed(c, cl, n, in, out) /\ Thread(cl, n, in, out)
    BY DEF Connection
  <1>1. in \in Seq(NodeMessage)
    BY <1>0 DEF Typed
  <1>2. /\ rest \in Seq(NodeMessage) /\ Head(in) \in ToSet(in)
        /\ \A msg \in ToSet(rest) : msg \in ToSet(in)
        /\ \A ids : /\ None(in, ids) => None(rest, ids)
                    /\ None(in, ids) => Head(in).id \notin ids
                    /\ One(in, ids) /\ Head(in).id \in ids => None(rest, ids)
    BY <1>1, Received
  <1>3. /\ Precede(in, "110", Orders) => None(in, {"110"})
        /\ Precede(in, "110", Orders) => Precede(rest, "110", Orders)
    BY <1>1, OrderKept
  <1> HIDE DEF rest
  <1>4. ~None(in, Orders)
    BY <1>2
  <1>5. /\ n.job # NoJob
        /\ cl.running = NoVersion /\ None(out, Replies) /\ None(rest, Orders)
    BY <1>0, <1>2, <1>4 DEF Thread, OneThread
  <1>6. n.job \in Job
    BY <1>0, <1>5 DEF Typed, NodeState
  <1>7. /\ Head(in).module = n.job.module
        /\ Head(in).id = "120" => /\ Head(in).version = n.job.version
                                  /\ cl.prepared = NoVersion
        /\ cl.prepared # NoVersion => /\ cl.prepared = n.job.version
                                      /\ cl.exec = n.job.module
    BY <1>0, <1>2 DEF Thread, CarriesJob
  <1>8. Typed(c, cl, n, rest, out)
    BY <1>0, <1>2 DEF Typed
  <1>9. ASSUME c = General
        PROVE  /\ n.connected /\ cl.loaded[n.job.module] # NoVersion
               /\ None(rest, {"111"}) /\ None(out, {"110"}) /\ n.upload = NoUpload
               /\ None(rest, {"110"})
               /\ AnswerFirst(cl, n, in, out) /\ JobCanEnd(cl, n, in, out)
               /\ Precede(rest, "110", Orders)
    <2>1. /\ OneUpdate(cl, n, in, out) /\ AnswerFirst(cl, n, in, out)
          /\ JobCanEnd(cl, n, in, out)
      BY <1>9 DEF Connection, Updated
    <2>2. n.connected /\ cl.loaded[n.job.module] # NoVersion
      BY <1>5, <1>6, <2>1 DEF JobCanEnd, Job
    <2>3. ~Upgrading(n, in, out)
      BY <1>5, <2>1 DEF OneUpdate
    <2>4. Precede(in, "110", Orders)
      BY <2>1 DEF AnswerFirst
    <2> QED
      BY <1>2, <1>3, <2>1, <2>2, <2>3, <2>4 DEF Upgrading
  <1> QED
    BY <1>2, <1>5, <1>6, <1>7, <1>8, <1>9 DEF rest

\* An order is answered.
LEMMA OrderAnsweredSafe ==
    ASSUME NEW c \in Cpu, NEW cl, NEW n, NEW in, NEW out, NEW new, NEW id \in Replies,
           Connection(c, cl, n, in, out),
           in # <<>>, Head(in).id \in Orders,
           new \in ClientState, new.loaded = cl.loaded, new.timers = cl.timers,
           new.running = cl.running,
           \/ new.prepared = NoVersion
           \/ id = "ready" /\ new.prepared = n.job.version /\ new.exec = n.job.module
    PROVE  Connection(c, new, n, Tail(in), Append(out, Reply(id, Head(in).module)))
  <1> DEFINE rest == Tail(in)
             reply == Reply(id, Head(in).module)
             more == Append(out, reply)
  <1>1. /\ n.job \in Job /\ Head(in).module = n.job.module
        /\ cl.running = NoVersion /\ None(out, Replies) /\ None(rest, Orders)
        /\ Typed(c, cl, n, rest, out)
        /\ \A msg \in ToSet(rest) : msg \in ToSet(in)
        /\ c = General =>
                 /\ n.connected
                 /\ None(rest, {"111"}) /\ None(out, {"110"}) /\ n.upload = NoUpload
                 /\ None(rest, {"110"})
                 /\ AnswerFirst(cl, n, in, out) /\ JobCanEnd(cl, n, in, out)
                 /\ Precede(rest, "110", Orders)
    BY OrderFacts
  <1>2. out \in Seq(ClientMessage)
    BY <1>1 DEF Typed
  <1>3. /\ reply \in ClientMessage /\ reply.id = id /\ reply.module = n.job.module
        /\ id # "110"
    BY <1>1, Ids DEF ClientMessage, Reply, Job
  <1> HIDE DEF rest, reply
  <1>4. /\ more \in Seq(ClientMessage)
        /\ \A msg \in ToSet(more) : msg \in ToSet(out) \/ msg = reply
        /\ \A ids : /\ None(out, ids) /\ id \notin ids => None(more, ids)
                    /\ None(more, ids) => id \notin ids
                    /\ One(out, ids) /\ (None(out, ids) \/ id \notin ids)
                          => One(more, ids)
    BY <1>2, <1>3, Sent
  <1> HIDE DEF more
  <1>5. Typed(c, new, n, rest, more)
    BY <1>1, <1>4 DEF Typed
  <1>6. Thread(cl, n, in, out)
    BY DEF Connection
  <1>7. /\ \A msg \in ToSet(rest) : msg.id \notin Orders
        /\ \A msg \in ToSet(more) : msg.id \in Replies => msg = reply
        /\ n.job # NoJob
    BY <1>1, <1>4, JobAssumption DEF None
  <1>8. OneThread(new, n, rest, more)
    BY <1>1, <1>4, <1>6, <1>7 DEF Thread, OneThread, One, None, ToSet
  <1>9. CarriesJob(new, n, rest, more)
    BY <1>1, <1>3, <1>6, <1>7, Ids DEF Thread, CarriesJob
  <1>10. ASSUME c = General
         PROVE  Updated(new, n, rest, more)
    <2>1. None(more, {"110"}) /\ ~None(more, Replies)
      BY <1>1, <1>3, <1>4, <1>10
    <2>2. \A msg \in ToSet(more) : msg.id # "110"
      BY <2>1 DEF None
    <2>3. \A msg \in ToSet(rest) : msg.id # "110"
      BY <1>1, <1>10 DEF None
    <2>4. OneUpdate(new, n, rest, more)
      BY <1>1, <1>10, <2>1, <2>2 DEF OneUpdate, Upgrading, One, None, ToSet
    <2>5. AnswerFirst(new, n, rest, more)
      BY <1>1, <1>10, <2>3 DEF AnswerFirst
    <2>6. JobCanEnd(new, n, rest, more)
      BY <1>1, <1>10, <2>1 DEF JobCanEnd
    <2> QED
      BY <2>4, <2>5, <2>6 DEF Updated
  <1> QED
    BY <1>5, <1>8, <1>9, <1>10 DEF Connection, Thread, rest, more, reply

\* The order to start is followed.
LEMMA StartedSafe ==
    ASSUME NEW c \in Cpu, NEW cl, NEW n, NEW in, NEW out, NEW new,
           Connection(c, cl, n, in, out),
           in # <<>>, Head(in).id \in Orders, cl.prepared # NoVersion,
           new \in ClientState, new.loaded = cl.loaded, new.timers = cl.timers,
           new.exec = cl.exec, new.prepared = NoVersion, new.running = cl.prepared
    PROVE  Connection(c, new, n, Tail(in), out)
  <1> DEFINE rest == Tail(in)
  <1>1. /\ n.job \in Job /\ Head(in).module = n.job.module
        /\ cl.prepared = n.job.version /\ cl.exec = n.job.module
        /\ cl.running = NoVersion /\ None(out, Replies) /\ None(rest, Orders)
        /\ Typed(c, cl, n, rest, out)
        /\ \A msg \in ToSet(rest) : msg \in ToSet(in)
        /\ c = General =>
                 /\ n.connected
                 /\ None(rest, {"111"}) /\ None(out, {"110"}) /\ n.upload = NoUpload
                 /\ None(rest, {"110"})
                 /\ AnswerFirst(cl, n, in, out) /\ JobCanEnd(cl, n, in, out)
                 /\ Precede(rest, "110", Orders)
    BY OrderFacts
  <1> HIDE DEF rest
  <1>2. Typed(c, new, n, rest, out)
    BY <1>1 DEF Typed
  <1>3. /\ \A msg \in ToSet(rest) : msg.id \notin Orders
        /\ \A msg \in ToSet(out) : msg.id \notin Replies
        /\ n.job # NoJob
    BY <1>1, JobAssumption DEF None
  <1>4. Thread(new, n, rest, out)
    BY <1>1, <1>3, Ids DEF Thread, OneThread, CarriesJob, One, None, ToSet
  <1>5. ASSUME c = General
        PROVE  Updated(new, n, rest, out)
    <2>1. \A msg \in ToSet(rest) \cup ToSet(out) : msg.id # "110"
      BY <1>1, <1>5 DEF None
    <2>2. OneUpdate(new, n, rest, out)
      BY <1>1, <1>5, <2>1 DEF OneUpdate, Upgrading, One, None, ToSet
    <2>3. AnswerFirst(new, n, rest, out)
      BY <1>1, <1>5, <2>1 DEF AnswerFirst
    <2>4. JobCanEnd(new, n, rest, out)
      BY <1>1, <1>5 DEF JobCanEnd
    <2> QED
      BY <2>2, <2>3, <2>4 DEF Updated
  <1> QED
    BY <1>2, <1>4, <1>5 DEF Connection, rest

\* A client that reads modules[-1] is not the general one; it sends nothing.
LEMMA OrderLostSafe ==
    ASSUME NEW c \in Cpu, NEW cl, NEW n, NEW in, NEW out,
           Connection(c, cl, n, in, out),
           in # <<>>, Head(in).id \in Orders, cl.loaded[Head(in).module] = NoVersion
    PROVE  c # General /\ Connection(c, cl, n, Tail(in), out)
  <1> DEFINE rest == Tail(in)
  <1>1. /\ Head(in).module = n.job.module
        /\ None(out, Replies) /\ None(rest, Orders)
        /\ Typed(c, cl, n, rest, out)
        /\ \A msg \in ToSet(rest) : msg \in ToSet(in)
        /\ c = General => cl.loaded[n.job.module] # NoVersion
    BY OrderFacts
  <1> HIDE DEF rest
  <1>2. \A msg \in ToSet(rest) : msg.id \notin Orders
    BY <1>1 DEF None
  <1>3. One(rest, Orders)
    BY <1>2 DEF One, ToSet
  <1>4. Thread(cl, n, in, out)
    BY DEF Connection
  <1>5. Thread(cl, n, rest, out)
    BY <1>1, <1>2, <1>3, <1>4, Ids DEF Thread, OneThread, CarriesJob
  <1> QED
    BY <1>1, <1>5 DEF Connection, rest

\* The program ends and the node is told.
LEMMA ProgramEndsSafe ==
    ASSUME NEW c \in Cpu, NEW cl, NEW n, NEW in, NEW out, NEW new,
           Connection(c, cl, n, in, out),
           cl.running # NoVersion,
           new = [cl EXCEPT !.running = NoVersion]
    PROVE  Connection(c, new, n, in, Append(out, Reply("ended", cl.exec)))
  <1> DEFINE reply == Reply("ended", cl.exec)
             more == Append(out, reply)
  <1>0. Typed(c, cl, n, in, out) /\ Thread(cl, n, in, out)
    BY DEF Connection
  <1>1. /\ n.job # NoJob /\ None(in, Orders) /\ None(out, Replies)
        /\ cl.prepared = NoVersion /\ cl.exec = n.job.module
    BY <1>0 DEF Thread, OneThread, CarriesJob
  <1>2. n.job \in Job /\ out \in Seq(ClientMessage) /\ cl \in ClientState
    BY <1>0, <1>1 DEF Typed, NodeState
  <1>3. reply \in ClientMessage /\ reply.id = "ended" /\ reply.module = n.job.module
    BY <1>1, <1>2, Ids DEF ClientMessage, Reply, Job
  <1> HIDE DEF reply
  <1>4. /\ more \in Seq(ClientMessage)
        /\ \A msg \in ToSet(more) : msg \in ToSet(out) \/ msg = reply
        /\ \A ids : /\ None(out, ids) /\ "ended" \notin ids => None(more, ids)
                    /\ None(more, ids) => None(out, ids) /\ "ended" \notin ids
                    /\ One(out, ids) /\ (None(out, ids) \/ "ended" \notin ids)
                          => One(more, ids)
    BY <1>2, <1>3, Sent
  <1> HIDE DEF more
  <1>5. /\ new \in ClientState /\ new.running = NoVersion /\ new.prepared = NoVersion
        /\ new.loaded = cl.loaded /\ new.timers = cl.timers
    BY <1>1, <1>2 DEF ClientState
  <1>6. Typed(c, new, n, in, more)
    BY <1>0, <1>4, <1>5 DEF Typed
  <1>7. \A msg \in ToSet(more) : msg.id \in Replies => msg = reply
    BY <1>1, <1>4 DEF None
  <1>8. Thread(new, n, in, more)
    BY <1>0, <1>1, <1>3, <1>4, <1>5, <1>7, Ids DEF Thread, OneThread, CarriesJob
  <1>9. ASSUME c = General
        PROVE  Updated(new, n, in, more)
    <2>1. /\ OneUpdate(cl, n, in, out) /\ AnswerFirst(cl, n, in, out)
          /\ JobCanEnd(cl, n, in, out)
      BY <1>9 DEF Connection, Updated
    <2>2. n.upload = NoUpload /\ None(in, {"111"}) /\ None(out, {"110"})
      BY <1>1, <2>1 DEF OneUpdate, Upgrading
    <2>3. None(more, {"110"}) /\ ~None(more, Replies)
      BY <1>4, <2>2, Ids
    <2>4. OneUpdate(new, n, in, more)
      BY <1>4, <1>5, <2>1, <2>2, <2>3 DEF OneUpdate, Upgrading, None
    <2>5. \A msg \in ToSet(in) : msg.id # "110"
      BY <2>1 DEF AnswerFirst
    <2>6. AnswerFirst(new, n, in, more)
      BY <2>1, <2>5 DEF AnswerFirst
    <2>7. JobCanEnd(new, n, in, more)
      BY <1>5, <2>1, <2>3 DEF JobCanEnd
    <2> QED
      BY <2>4, <2>6, <2>7 DEF Updated
  <1> QED
    BY <1>6, <1>8, <1>9 DEF Connection, more, reply

---------------------------------------------------------------------------
(* What the server does to a connection.                                   *)

\* A list that arrives: what it leaves, and the general client's is current.
LEMMA ListFacts ==
    ASSUME NEW c \in Cpu, NEW cl, NEW n, NEW in, NEW out,
           Connection(c, cl, n, in, out),
           out # <<>>, Head(out).id = "110"
    PROVE  /\ Head(out).versions \in Versions
           /\ Typed(c, cl, n, in, Tail(out)) /\ Thread(cl, n, in, Tail(out))
           /\ in \in Seq(NodeMessage) /\ n \in NodeState
           /\ c = General =>
                 /\ n.job = NoJob /\ n.upload = NoUpload
                 /\ None(in, {"111"}) /\ None(in, {"110"}) /\ None(in, Orders)
                 /\ None(Tail(out), {"110"}) /\ None(Tail(out), Replies)
                 /\ cl.running = NoVersion
                 /\ Head(out).versions = cl.loaded
                 /\ Precede(in, "110", Orders)
  <1> DEFINE rest == Tail(out)
  <1>0. Typed(c, cl, n, in, out) /\ Thread(cl, n, in, out)
    BY DEF Connection
  <1>1. out \in Seq(ClientMessage) /\ in \in Seq(NodeMessage) /\ n \in NodeState
    BY <1>0 DEF Typed
  <1>2. /\ rest \in Seq(ClientMessage) /\ Head(out) \in ClientMessage
        /\ Head(out) \in ToSet(out)
        /\ \A msg \in ToSet(rest) : msg \in ToSet(out)
        /\ \A ids : /\ None(out, ids) => None(rest, ids)
                    /\ None(out, ids) => "110" \notin ids
                    /\ One(out, ids) => One(rest, ids)
                    /\ One(out, ids) /\ "110" \in ids => None(rest, ids)
    BY <1>1, Received
  <1>3. Head(out).versions \in Versions
    BY <1>2, Ids DEF ClientMessage
  <1> HIDE DEF rest
  <1>4. Typed(c, cl, n, in, rest)
    BY <1>0, <1>2 DEF Typed
  <1>5. Thread(cl, n, in, rest)
    BY <1>0, <1>2, Ids DEF Thread, OneThread, CarriesJob
  <1>6. ASSUME c = General
        PROVE  /\ n.job = NoJob /\ n.upload = NoUpload
               /\ None(in, {"111"}) /\ None(in, {"110"}) /\ None(in, Orders)
               /\ None(rest, {"110"}) /\ None(rest, Replies)
               /\ cl.running = NoVersion
               /\ Head(out).versions = cl.loaded
               /\ Precede(in, "110", Orders)
    <2>1. /\ OneUpdate(cl, n, in, out) /\ AnswerFirst(cl, n, in, out)
      BY <1>6 DEF Connection, Updated
    <2>2. ~None(out, {"110"})
      BY <1>2
    <2>3. n.job = NoJob /\ n.upload = NoUpload /\ None(in, {"111"}) /\ None(rest, {"110"})
      BY <1>2, <2>1, <2>2 DEF OneUpdate, Upgrading
    <2>4. None(in, Orders) /\ None(rest, Replies) /\ cl.running = NoVersion
      BY <1>5, <2>3 DEF Thread, OneThread
    <2>5. None(in, {"110"}) /\ Precede(in, "110", Orders)
      BY <2>1, <2>2 DEF AnswerFirst, Upgrading, None
    <2>6. Head(out).versions = cl.loaded
      BY <1>2, <2>1 DEF OneUpdate
    <2> QED
      BY <2>3, <2>4, <2>5, <2>6
  <1> QED
    BY <1>1, <1>3, <1>4, <1>5, <1>6 DEF rest

\* The list is accepted.
LEMMA ListAcceptedSafe ==
    ASSUME NEW c \in Cpu, NEW cl, NEW n, NEW in, NEW out, NEW new,
           NEW unknown \in SUBSET Module,
           Connection(c, cl, n, in, out),
           out # <<>>, Head(out).id = "110",
           new \in NodeState, new.job = n.job, new.upload = n.upload, new.connected,
           \A m \in Module : new.listed[m] # NoVersion =>
               Head(out).versions[m] # NoVersion /\ m \notin unknown
    PROVE  Connection(c, cl, new, Append(in, Known(unknown)), Tail(out))
  <1> DEFINE rest == Tail(out)
             msg1 == Known(unknown)
             more == Append(in, msg1)
  <1>1. /\ Typed(c, cl, n, in, rest) /\ Thread(cl, n, in, rest)
        /\ in \in Seq(NodeMessage)
        /\ c = General =>
              /\ n.job = NoJob /\ n.upload = NoUpload
              /\ None(in, {"111"}) /\ None(in, {"110"}) /\ None(in, Orders)
              /\ None(rest, {"110"}) /\ None(rest, Replies)
              /\ cl.running = NoVersion
              /\ Head(out).versions = cl.loaded
              /\ Precede(in, "110", Orders)
    BY ListFacts
  <1> HIDE DEF rest
  <1>2. msg1 \in NodeMessage /\ msg1.id = "110" /\ msg1.unknown = unknown
    BY DEF Known, NodeMessage
  <1> HIDE DEF msg1
  <1>3. /\ more \in Seq(NodeMessage)
        /\ \A msg \in ToSet(more) : msg \in ToSet(in) \/ msg = msg1
        /\ \A ids : /\ None(in, ids) /\ "110" \notin ids => None(more, ids)
                    /\ One(in, ids) /\ "110" \notin ids => One(more, ids)
    BY <1>1, <1>2, Sent
  <1>4. Precede(in, "110", Orders) /\ None(in, Orders) => Precede(more, "110", Orders)
    BY <1>1, <1>2, OrderKept, Ids
  <1> HIDE DEF more
  <1>5. Typed(c, cl, new, more, rest)
    BY <1>1, <1>2, <1>3 DEF Typed
  <1>6. Thread(cl, new, more, rest)
    BY <1>1, <1>2, <1>3, Ids DEF Thread, OneThread, CarriesJob
  <1>7. ASSUME c = General
        PROVE  Updated(cl, new, more, rest)
    <2>1. None(more, {"111"}) /\ None(more, Orders) /\ ~Upgrading(new, more, rest)
      BY <1>1, <1>3, <1>7, Ids DEF Upgrading
    <2>2. \A msg \in ToSet(rest) : msg.id # "110"
      BY <1>1, <1>7 DEF None
    <2>3. OneUpdate(cl, new, more, rest)
      BY <1>1, <1>7, <2>1, <2>2 DEF OneUpdate, One, None, ToSet
    <2>4. None(more, {"121"})
      BY <2>1, Ids DEF None
    <2>5. \A msg \in ToSet(in) : msg.id # "110"
      BY <1>1, <1>7 DEF None
    <2>6. \A msg \in ToSet(more) : msg.id = "110" => msg.unknown = unknown
      BY <1>2, <1>3, <2>5
    <2>7. AnswerFirst(cl, new, more, rest)
      BY <1>1, <1>4, <1>7, <2>1, <2>4, <2>6 DEF AnswerFirst
    <2>8. JobCanEnd(cl, new, more, rest)
      BY <1>1, <1>7 DEF JobCanEnd
    <2> QED
      BY <2>3, <2>7, <2>8 DEF Updated
  <1> QED
    BY <1>5, <1>6, <1>7 DEF Connection, more, rest, msg1

\* An archive is sent to the general node, which has neither a job nor, from
\* now on, a module.
LEMMA UploadingSafe ==
    ASSUME NEW cl, NEW n, NEW in, NEW out, NEW new,
           Typed(General, cl, n, in, out),
           new \in NodeState, new.job = NoJob, new.listed = Nothing,
           cl.running = NoVersion, cl.prepared = NoVersion,
           None(in, Orders), None(out, Replies),
           None(in, {"111"}), None(in, {"110"}), None(out, {"110"})
    PROVE  Connection(General, cl, new, in, out)
  <1>1. Typed(General, cl, new, in, out)
    BY DEF Typed
  <1>2. /\ \A msg \in ToSet(in) : msg.id \notin Orders /\ msg.id # "110" /\ msg.id # "111"
        /\ \A msg \in ToSet(out) : msg.id \notin Replies /\ msg.id # "110"
    BY DEF None
  <1>3. Thread(cl, new, in, out)
    BY <1>2, Ids DEF Thread, OneThread, CarriesJob, One, ToSet
  <1>4. /\ One(in, {"111"}) /\ One(out, {"110"}) /\ Precede(in, "110", Orders)
    BY <1>2 DEF One, Precede, ToSet
  <1>5. OneUpdate(cl, new, in, out)
    BY <1>2, <1>4 DEF OneUpdate
  <1>6. AnswerFirst(cl, new, in, out)
    BY <1>2, <1>4 DEF AnswerFirst
  <1>7. JobCanEnd(cl, new, in, out)
    BY DEF JobCanEnd, Nothing
  <1> QED
    BY <1>1, <1>3, <1>5, <1>6, <1>7 DEF Connection, Updated

\* Another node is told to wait.
LEMMA WaitOrderedSafe ==
    ASSUME NEW c \in Cpu, NEW cl, NEW n, NEW in, NEW out, NEW new,
           c # General, Typed(c, cl, n, in, out), Thread(cl, n, in, out),
           new \in NodeState, new.upload \in {n.upload, NoUpload},
           \/ new.job = n.job
           \/ /\ None(in, Orders) /\ None(out, Replies)
              /\ cl.running = NoVersion /\ cl.prepared = NoVersion
    PROVE  /\ Connection(c, cl, new, in, out)
           /\ Connection(c, cl, new, Append(in, WaitForGeneral), out)
  <1> DEFINE more == Append(in, WaitForGeneral)
  <1>1. in \in Seq(NodeMessage)
    BY DEF Typed
  <1>2. WaitForGeneral \in NodeMessage /\ WaitForGeneral.id = "112"
    BY DEF WaitForGeneral, NodeMessage
  <1>3. /\ more \in Seq(NodeMessage)
        /\ \A msg \in ToSet(more) : msg \in ToSet(in) \/ msg = WaitForGeneral
        /\ \A ids : /\ None(in, ids) /\ "112" \notin ids => None(more, ids)
                    /\ One(in, ids) /\ "112" \notin ids => One(more, ids)
    BY <1>1, <1>2, Sent
  <1> HIDE DEF more
  <1>4. Typed(c, cl, new, in, out) /\ Typed(c, cl, new, more, out)
    BY <1>2, <1>3 DEF Typed
  <1>5. Thread(cl, new, in, out)
    <2>1. CASE new.job = n.job
      BY <2>1 DEF Thread, OneThread, CarriesJob
    <2>2. CASE /\ None(in, Orders) /\ None(out, Replies)
               /\ cl.running = NoVersion /\ cl.prepared = NoVersion
      BY <2>2, Ids DEF Thread, OneThread, CarriesJob, None
    <2> QED
      BY <2>1, <2>2
  <1>6. Thread(cl, new, more, out)
    BY <1>2, <1>3, <1>5, Ids DEF Thread, OneThread, CarriesJob
  <1> QED
    BY <1>4, <1>5, <1>6 DEF Connection, more

\* The end of an upload.
LEMMA UploadedSafe ==
    ASSUME NEW c \in Cpu, NEW cl, NEW n, NEW in, NEW out, NEW new,
           Connection(c, cl, n, in, out),
           n.upload # NoUpload, new = [n EXCEPT !.upload = NoUpload]
    PROVE  /\ Connection(c, cl, new, in, out)
           /\ Connection(c, cl, new,
                         Append(in, Archive(n.upload.module, n.upload.version)), out)
  <1> DEFINE msg1 == Archive(n.upload.module, n.upload.version)
             more == Append(in, msg1)
  <1>0. Typed(c, cl, n, in, out) /\ Thread(cl, n, in, out)
    BY DEF Connection
  <1>1. c = General /\ in \in Seq(NodeMessage) /\ n \in NodeState
    BY <1>0 DEF Typed
  <1>2. n.upload \in Upload
    BY <1>1 DEF NodeState
  <1>3. msg1 \in NodeMessage /\ msg1.id = "111"
    BY <1>2 DEF Archive, NodeMessage, Upload
  <1> HIDE DEF msg1
  <1>4. /\ more \in Seq(NodeMessage)
        /\ \A msg \in ToSet(more) : msg \in ToSet(in) \/ msg = msg1
        /\ \A ids : /\ None(in, ids) /\ "111" \notin ids => None(more, ids)
                    /\ None(more, ids) => "111" \notin ids
                    /\ One(in, ids) /\ (None(in, ids) \/ "111" \notin ids)
                         => One(more, ids)
    BY <1>1, <1>3, Sent
  <1>5. Precede(in, "110", Orders) => Precede(more, "110", Orders)
    BY <1>1, <1>3, OrderKept
  <1> HIDE DEF more
  <1>6. /\ new \in NodeState /\ new.upload = NoUpload /\ new.listed = n.listed
        /\ new.job = n.job
    BY <1>1 DEF NodeState
  <1>7. Typed(c, cl, new, in, out) /\ Typed(c, cl, new, more, out)
    BY <1>0, <1>1, <1>3, <1>4, <1>6 DEF Typed
  <1>8. Thread(cl, new, in, out) /\ Thread(cl, new, more, out)
    BY <1>0, <1>3, <1>4, <1>6, Ids DEF Thread, OneThread, CarriesJob
  <1>9. /\ OneUpdate(cl, n, in, out) /\ AnswerFirst(cl, n, in, out)
        /\ JobCanEnd(cl, n, in, out)
    BY <1>1 DEF Connection, Updated
  <1>10. /\ None(in, {"111"}) /\ None(out, {"110"}) /\ n.listed = Nothing
         /\ n.job = NoJob
    BY <1>9 DEF OneUpdate, Upgrading
  <1>11. OneUpdate(cl, new, in, out) /\ OneUpdate(cl, new, more, out)
    BY <1>4, <1>6, <1>9, <1>10 DEF OneUpdate, Upgrading
  <1>12. \A msg \in ToSet(in) : msg.id # "110"
    BY <1>9 DEF AnswerFirst, Upgrading
  <1>13. AnswerFirst(cl, new, in, out) /\ AnswerFirst(cl, new, more, out)
    BY <1>3, <1>4, <1>5, <1>9, <1>12 DEF AnswerFirst
  <1>14. JobCanEnd(cl, new, in, out) /\ JobCanEnd(cl, new, more, out)
    BY <1>6, <1>10 DEF JobCanEnd, Nothing
  <1> QED
    BY <1>7, <1>8, <1>11, <1>13, <1>14 DEF Connection, Updated, more, msg1

\* A job is given.
LEMMA JobGivenSafe ==
    ASSUME NEW c \in Cpu, NEW cl, NEW n, NEW in, NEW out, NEW new,
           NEW m \in Module, NEW v \in Version,
           Connection(c, cl, n, in, out),
           n.job = NoJob, n.listed[m] # NoVersion,
           new \in NodeState, new.upload = n.upload, new.connected = n.connected,
           new.job \in Job, new.job.module = m, new.job.version = v,
           new.listed = [n.listed EXCEPT ![m] = v]
    PROVE  Connection(c, cl, new, Append(in, PrepareOrder(m, v)), out)
  <1> DEFINE msg1 == PrepareOrder(m, v)
             more == Append(in, msg1)
  <1>0. Typed(c, cl, n, in, out) /\ Thread(cl, n, in, out)
    BY DEF Connection
  <1>1. in \in Seq(NodeMessage) /\ n \in NodeState
    BY <1>0 DEF Typed
  <1>2. /\ msg1 \in NodeMessage /\ msg1.id = "120" /\ msg1.module = m
        /\ msg1.version = v
    BY DEF PrepareOrder, NodeMessage
  <1> HIDE DEF msg1
  <1>3. /\ more \in Seq(NodeMessage)
        /\ \A msg \in ToSet(more) : msg \in ToSet(in) \/ msg = msg1
        /\ \A ids : /\ None(in, ids) /\ "120" \notin ids => None(more, ids)
                    /\ None(more, ids) => None(in, ids) /\ "120" \notin ids
                    /\ One(in, ids) /\ (None(in, ids) \/ "120" \notin ids)
                         => One(more, ids)
    BY <1>1, <1>2, Sent
  <1>4. Precede(in, "110", Orders) => Precede(more, "110", Orders)
    BY <1>1, <1>2, OrderKept
  <1> HIDE DEF more
  <1>5. /\ None(in, Orders) /\ None(out, Replies)
        /\ cl.running = NoVersion /\ cl.prepared = NoVersion
    BY <1>0 DEF Thread, OneThread
  <1>6. /\ new.job # NoJob
        /\ \A k \in Module : new.listed[k] # NoVersion => n.listed[k] # NoVersion
        /\ new.listed[m] # NoVersion
    BY <1>1, JobAssumption, HostAssumption DEF NodeState, Versions, Version
  <1>7. Typed(c, cl, new, more, out)
    BY <1>0, <1>2, <1>3 DEF Typed
  <1>8. /\ \A msg \in ToSet(more) : msg.id \in Orders => msg = msg1
        /\ \A msg \in ToSet(out) : msg.id \notin Replies
    BY <1>3, <1>5 DEF None
  <1>9. Thread(cl, new, more, out)
    BY <1>0, <1>2, <1>3, <1>5, <1>6, <1>8, Ids DEF Thread, OneThread, CarriesJob
  <1>10. ASSUME c = General
         PROVE  Updated(cl, new, more, out)
    <2>1. /\ OneUpdate(cl, n, in, out) /\ AnswerFirst(cl, n, in, out)
          /\ JobCanEnd(cl, n, in, out)
      BY <1>10 DEF Connection, Updated
    <2>2. n.upload = NoUpload /\ None(in, {"111"}) /\ None(out, {"110"})
      BY <2>1 DEF OneUpdate, Upgrading, Nothing
    <2>3. None(more, {"111"}) /\ ~None(more, Orders)
      BY <1>3, <2>2, Ids
    <2>4. OneUpdate(cl, new, more, out)
      BY <1>3, <2>1, <2>2, <2>3 DEF OneUpdate, Upgrading
    <2>5. ~Upgrading(new, more, out)
      BY <2>2, <2>3 DEF Upgrading
    <2>6. \A msg \in ToSet(more) : msg.id = "110" => msg \in ToSet(in)
      BY <1>2, <1>3
    <2>7. \A msg \in ToSet(in) : msg.id = "110" => msg.unknown \subseteq Module
      <3>1. \A msg \in ToSet(in) : msg \in NodeMessage
        BY <1>1 DEF ToSet
      <3> QED
        BY <3>1 DEF NodeMessage
    <2>8. \A msg \in ToSet(more) : msg.id = "110" =>
            \A k \in msg.unknown : new.listed[k] = NoVersion
      BY <1>6, <2>1, <2>6, <2>7 DEF AnswerFirst
    <2>9. None(in, {"121"}) => None(more, {"121"})
      BY <1>3
    <2>10. AnswerFirst(cl, new, more, out)
      BY <1>4, <2>1, <2>5, <2>6, <2>8, <2>9 DEF AnswerFirst
    <2>11. JobCanEnd(cl, new, more, out)
      BY <1>6, <2>1, <2>3 DEF JobCanEnd
    <2> QED
      BY <2>4, <2>10, <2>11 DEF Updated
  <1> QED
    BY <1>7, <1>9, <1>10 DEF Connection, more, msg1

\* What an answer that arrives tells of the job, and what it leaves.
LEMMA AnswerFacts ==
    ASSUME NEW c \in Cpu, NEW cl, NEW n, NEW in, NEW out,
           Connection(c, cl, n, in, out),
           out # <<>>, Head(out).id \in Replies
    PROVE  /\ n.job \in Job /\ Head(out).module = n.job.module
           /\ Head(out).id # "ready" => cl.prepared = NoVersion
           /\ cl.running = NoVersion /\ None(in, Orders) /\ None(Tail(out), Replies)
           /\ Typed(c, cl, n, in, Tail(out)) /\ Thread(cl, n, in, Tail(out))
           /\ in \in Seq(NodeMessage) /\ n \in NodeState
           /\ c = General =>
                 /\ n.connected /\ n.listed[n.job.module] # NoVersion
                 /\ n.upload = NoUpload
                 /\ None(in, {"111"}) /\ None(in, {"110"}) /\ None(Tail(out), {"110"})
                 /\ \A m \in Module : n.listed[m] # NoVersion => cl.loaded[m] # NoVersion
  <1> DEFINE rest == Tail(out)
  <1>0. Typed(c, cl, n, in, out) /\ Thread(cl, n, in, out)
    BY DEF Connection
  <1>1. out \in Seq(ClientMessage) /\ in \in Seq(NodeMessage) /\ n \in NodeState
    BY <1>0 DEF Typed
  <1>2. /\ rest \in Seq(ClientMessage) /\ Head(out) \in ToSet(out)
        /\ \A msg \in ToSet(rest) : msg \in ToSet(out)
        /\ \A ids : /\ None(out, ids) => None(rest, ids)
                    /\ None(out, ids) => Head(out).id \notin ids
                    /\ One(out, ids) => One(rest, ids)
                    /\ One(out, ids) /\ Head(out).id \in ids => None(rest, ids)
    BY <1>1, Received
  <1> HIDE DEF rest
  <1>3. ~None(out, Replies)
    BY <1>2
  <1>4. /\ n.job # NoJob
        /\ cl.running = NoVersion /\ None(in, Orders) /\ None(rest, Replies)
    BY <1>0, <1>2, <1>3 DEF Thread, OneThread
  <1>5. n.job \in Job
    BY <1>1, <1>4 DEF NodeState
  <1>6. /\ Head(out).module = n.job.module
        /\ Head(out).id # "ready" => cl.prepared = NoVersion
    BY <1>0, <1>2 DEF Thread, CarriesJob
  <1>7. Typed(c, cl, n, in, rest)
    BY <1>0, <1>2 DEF Typed
  <1>8. Thread(cl, n, in, rest)
    BY <1>0, <1>2 DEF Thread, OneThread, CarriesJob
  <1>9. ASSUME c = General
        PROVE  /\ n.connected /\ n.listed[n.job.module] # NoVersion
               /\ n.upload = NoUpload
               /\ None(in, {"111"}) /\ None(in, {"110"}) /\ None(rest, {"110"})
               /\ \A m \in Module : n.listed[m] # NoVersion => cl.loaded[m] # NoVersion
    <2>1. /\ OneUpdate(cl, n, in, out) /\ AnswerFirst(cl, n, in, out)
          /\ JobCanEnd(cl, n, in, out)
      BY <1>9 DEF Connection, Updated
    <2>2. /\ n.connected /\ n.listed[n.job.module] # NoVersion
          /\ \A m \in Module : n.listed[m] # NoVersion => cl.loaded[m] # NoVersion
      BY <1>4, <2>1 DEF JobCanEnd
    <2>3. ~Upgrading(n, in, out)
      BY <1>4, <2>1 DEF OneUpdate
    <2>4. None(in, {"110"})
      BY <1>3, <2>1 DEF AnswerFirst, None
    <2> QED
      BY <1>2, <2>2, <2>3, <2>4 DEF Upgrading
  <1> QED
    BY <1>1, <1>2, <1>4, <1>5, <1>6, <1>7, <1>8, <1>9 DEF rest

\* The job is over.
LEMMA JobOverSafe ==
    ASSUME NEW c \in Cpu, NEW cl, NEW n, NEW in, NEW out, NEW new,
           Connection(c, cl, n, in, out),
           out # <<>>, Head(out).id \in Replies \ {"ready"},
           new \in NodeState, new.upload \in {n.upload, NoUpload},
           new.connected = n.connected,
           \/ n.connected /\ new.job = NoJob
           \/ ~n.connected /\ new.job = n.job,
           \A m \in Module : new.listed[m] # NoVersion => n.listed[m] # NoVersion
    PROVE  Connection(c, cl, new, in, Tail(out))
  <1> DEFINE rest == Tail(out)
  <1>1. /\ cl.prepared = NoVersion
        /\ cl.running = NoVersion /\ None(in, Orders) /\ None(rest, Replies)
        /\ Typed(c, cl, n, in, rest) /\ Thread(cl, n, in, rest)
        /\ n \in NodeState
        /\ c = General =>
                 /\ n.connected
                 /\ n.upload = NoUpload
                 /\ None(in, {"111"}) /\ None(in, {"110"}) /\ None(rest, {"110"})
                 /\ \A m \in Module : n.listed[m] # NoVersion => cl.loaded[m] # NoVersion
    BY AnswerFacts
  <1> HIDE DEF rest
  <1>2. CASE c # General
    BY <1>1, <1>2, WaitOrderedSafe DEF rest
  <1>3. CASE c = General
    <2>1. Typed(c, cl, new, in, rest)
      BY <1>1 DEF Typed
    <2>2. Thread(cl, new, in, rest)
      BY <1>1, <1>3, Ids DEF Thread, OneThread, CarriesJob, None
    <2>3. /\ \A msg \in ToSet(in) : msg.id \notin Orders /\ msg.id # "110" /\ msg.id # "111"
          /\ \A msg \in ToSet(rest) : msg.id # "110"
      BY <1>1, <1>3 DEF None
    <2>4. /\ One(in, {"111"}) /\ One(rest, {"110"}) /\ Precede(in, "110", Orders)
      BY <2>3 DEF One, Precede, ToSet
    <2>5. OneUpdate(cl, new, in, rest)
      BY <1>1, <1>3, <2>3, <2>4 DEF OneUpdate, Upgrading
    <2>6. AnswerFirst(cl, new, in, rest)
      BY <2>3, <2>4 DEF AnswerFirst
    <2>7. JobCanEnd(cl, new, in, rest)
      BY <1>1, <1>3 DEF JobCanEnd
    <2> QED
      BY <2>1, <2>2, <2>5, <2>6, <2>7 DEF Connection, Updated, rest
  <1> QED
    BY <1>2, <1>3

\* The order to start follows the answer that it can.
LEMMA StartOrderedSafe ==
    ASSUME NEW c \in Cpu, NEW cl, NEW n, NEW in, NEW out,
           Connection(c, cl, n, in, out),
           out # <<>>, Head(out).id \in Replies
    PROVE  Connection(c, cl, n, Append(in, StartOrder(Head(out).module)), Tail(out))
  <1> DEFINE rest == Tail(out)
             msg1 == StartOrder(Head(out).module)
             more == Append(in, msg1)
  <1>1. /\ n.job \in Job /\ Head(out).module = n.job.module
        /\ cl.running = NoVersion /\ None(in, Orders) /\ None(rest, Replies)
        /\ Typed(c, cl, n, in, rest) /\ Thread(cl, n, in, rest)
        /\ in \in Seq(NodeMessage) /\ n \in NodeState
        /\ c = General =>
                 /\ n.connected /\ n.listed[n.job.module] # NoVersion
                 /\ n.upload = NoUpload
                 /\ None(in, {"111"}) /\ None(in, {"110"}) /\ None(rest, {"110"})
                 /\ \A m \in Module : n.listed[m] # NoVersion => cl.loaded[m] # NoVersion
    BY AnswerFacts
  <1>2. msg1 \in NodeMessage /\ msg1.id = "121" /\ msg1.module = n.job.module
    BY <1>1 DEF StartOrder, NodeMessage, Job
  <1> HIDE DEF rest, msg1
  <1>3. /\ more \in Seq(NodeMessage)
        /\ \A msg \in ToSet(more) : msg \in ToSet(in) \/ msg = msg1
        /\ \A ids : /\ None(in, ids) /\ "121" \notin ids => None(more, ids)
                    /\ None(more, ids) => None(in, ids) /\ "121" \notin ids
                    /\ One(in, ids) /\ (None(in, ids) \/ "121" \notin ids)
                         => One(more, ids)
    BY <1>1, <1>2, Sent
  <1> HIDE DEF more
  <1>4. Typed(c, cl, n, more, rest)
    BY <1>1, <1>2, <1>3 DEF Typed
  <1>5. /\ \A msg \in ToSet(more) : msg.id \in Orders => msg = msg1
        /\ n.job # NoJob
    BY <1>1, <1>3, JobAssumption DEF None
  <1>6. Thread(cl, n, more, rest)
    BY <1>1, <1>2, <1>3, <1>5, Ids DEF Thread, OneThread, CarriesJob
  <1>7. ASSUME c = General
        PROVE  Updated(cl, n, more, rest)
    <2>1. None(more, {"111"}) /\ None(more, {"110"}) /\ ~None(more, Orders)
      BY <1>1, <1>3, <1>7, Ids
    <2>2. /\ \A msg \in ToSet(more) : msg.id # "110" /\ msg.id # "111"
          /\ \A msg \in ToSet(rest) : msg.id # "110"
      BY <1>1, <1>7, <2>1 DEF None
    <2>3. One(more, {"111"}) /\ One(rest, {"110"}) /\ Precede(more, "110", Orders)
      BY <2>2 DEF One, Precede, ToSet
    <2>4. OneUpdate(cl, n, more, rest)
      BY <1>1, <1>7, <2>1, <2>2, <2>3 DEF OneUpdate, Upgrading
    <2>5. AnswerFirst(cl, n, more, rest)
      BY <2>2, <2>3 DEF AnswerFirst
    <2>6. JobCanEnd(cl, n, more, rest)
      BY <1>1, <1>7, <2>1 DEF JobCanEnd
    <2> QED
      BY <2>4, <2>5, <2>6 DEF Updated
  <1> QED
    BY <1>4, <1>6, <1>7 DEF Connection, more, rest, msg1

---------------------------------------------------------------------------
(* The steps.                                                              *)

\* A step that changes one connection.
LEMMA OneConnection ==
    ASSUME UpdateInv, Shared', NEW c \in Cpu,
           NEW cl, NEW n, NEW in, NEW out,
           Connection(c, cl, n, in, out),
           client' = [client EXCEPT ![c] = cl], node' = [node EXCEPT ![c] = n],
           toClient' = [toClient EXCEPT ![c] = in], toNode' = [toNode EXCEPT ![c] = out]
    PROVE  UpdateInv'
  <1>1. /\ cl \in ClientState /\ n \in NodeState /\ in \in Seq(NodeMessage)
        /\ out \in Seq(ClientMessage)
    BY DEF Connection, Typed
  <1>2. /\ client' \in [Cpu -> ClientState] /\ node' \in [Cpu -> NodeState]
        /\ toClient' \in [Cpu -> Seq(NodeMessage)]
        /\ toNode' \in [Cpu -> Seq(ClientMessage)]
    BY <1>1 DEF UpdateInv
  <1>3. ASSUME NEW d \in Cpu
        PROVE  Connection(d, client'[d], node'[d], toClient'[d], toNode'[d])
    <2>1. CASE d = c
      <3>1. client'[d] = cl /\ node'[d] = n /\ toClient'[d] = in /\ toNode'[d] = out
        BY <2>1 DEF UpdateInv
      <3> QED
        BY <2>1, <3>1
    <2>2. CASE d # c
      <3>1. /\ client'[d] = client[d] /\ node'[d] = node[d]
            /\ toClient'[d] = toClient[d] /\ toNode'[d] = toNode[d]
        BY <2>2 DEF UpdateInv
      <3>2. Connection(d, client[d], node[d], toClient[d], toNode[d])
        BY DEF UpdateInv
      <3> QED
        BY <3>1, <3>2
    <2> QED
      BY <2>1, <2>2
  <1> QED
    BY <1>2, <1>3 DEF UpdateInv

\* What a step leaves alone, written as a change.
LEMMA Unchanged ==
    ASSUME UpdateInv, NEW c \in Cpu
    PROVE  /\ Connection(c, client[c], node[c], toClient[c], toNode[c])
           /\ client[c] \in ClientState /\ node[c] \in NodeState
           /\ toClient[c] \in Seq(NodeMessage) /\ toNode[c] \in Seq(ClientMessage)
           /\ client = [client EXCEPT ![c] = client[c]]
           /\ node = [node EXCEPT ![c] = node[c]]
           /\ toClient = [toClient EXCEPT ![c] = toClient[c]]
           /\ toNode = [toNode EXCEPT ![c] = toNode[c]]
  BY DEF UpdateInv

\* The actions of a client.
LEMMA ListAnsweredKeeps ==
    ASSUME UpdateInv, NEW c \in Cpu, ListAnswered(c)
    PROVE  UpdateInv'
  <1> DEFINE in == toClient[c]
             cl == client[c]
             unknown == Head(in).unknown
             gone == cl.exec \in unknown
             new == [cl EXCEPT !.loaded = [m \in Module |-> IF m \in unknown THEN NoVersion
                                                                             ELSE @[m]],
                               !.prepared = IF gone THEN NoVersion ELSE @,
                               !.running = IF gone THEN NoVersion ELSE @]
  <1>1. /\ in # <<>> /\ Head(in).id = "110"
        /\ toClient' = [toClient EXCEPT ![c] = Tail(in)]
        /\ client' = [client EXCEPT ![c] = new]
        /\ UNCHANGED <<files, directory, allow, node, toNode, given, lost, fault>>
    BY Unchanged DEF ListAnswered, ClientGets
  <1>2. cl \in ClientState
    BY Unchanged
  <1>3. /\ new \in ClientState /\ new.timers = cl.timers /\ new.exec = cl.exec
        /\ \A m \in Module : new.loaded[m] =
               IF m \in Head(in).unknown THEN NoVersion ELSE cl.loaded[m]
        /\ \/ new.prepared = cl.prepared /\ new.running = cl.running
           \/ new.prepared = NoVersion /\ new.running = NoVersion
    BY <1>2 DEF ClientState, Versions
  <1>4. Connection(c, cl, node[c], in, toNode[c])
    BY Unchanged
  <1> HIDE DEF new, in, cl
  <1>5. Connection(c, new, node[c], Tail(in), toNode[c])
    BY <1>1, <1>3, <1>4, ListAnsweredSafe
  <1>6. Shared'
    BY <1>1 DEF UpdateInv, Shared
  <1>7. node' = [node EXCEPT ![c] = node[c]] /\ toNode' = [toNode EXCEPT ![c] = toNode[c]]
    BY <1>1, Unchanged
  <1>8. toClient' = [toClient EXCEPT ![c] = Tail(in)] /\ client' = [client EXCEPT ![c] = new]
    BY <1>1
  <1> QED
    BY <1>5, <1>6, <1>7, <1>8, OneConnection

\* The client unpacks the archive of a new version (updateModuleFromArchive).
LEMMA UpdateModuleFromArchiveKeeps ==
    ASSUME UpdateInv, NEW c \in Cpu, UpdateModuleFromArchive(c)
    PROVE  UpdateInv'
  <1> DEFINE in == toClient[c]
             cl == client[c]
             out == toNode[c]
             m == Head(in).module
  <1>1. /\ in # <<>> /\ Head(in).id = "111"
        /\ toClient' = [toClient EXCEPT ![c] = Tail(in)]
        /\ UNCHANGED <<files, allow, node, given, fault>>
    BY DEF UpdateModuleFromArchive, ClientGets
  <1>2. /\ cl \in ClientState /\ in \in Seq(NodeMessage)
        /\ Connection(c, cl, node[c], in, out)
    BY Unchanged
  <1>3. Head(in) \in NodeMessage
    BY <1>1, <1>2
  <1>4. m \in Module /\ Head(in).version \in Version
    BY <1>1, <1>3 DEF NodeMessage
  <1>5. directory \in Versions /\ NoVersion \in Version \cup {NoVersion}
    BY DEF UpdateInv, Shared
  <1>6. node' = [node EXCEPT ![c] = node[c]]
    BY <1>1, Unchanged
  <1>7. /\ Connection(c, cl, node[c], Tail(in), out)
        /\ c = General /\ node[c].listed = Nothing /\ node[c].job = NoJob
        /\ node[c].upload = NoUpload
        /\ None(Tail(in), {"111", "110"}) /\ None(out, {"110"})
    <2>1. in # <<>> /\ Head(in).id = "111"
      BY <1>1
    <2> HIDE DEF in, cl, out
    <2> QED
      BY <1>2, <2>1, ArchiveReceivedSafe
  <1>8. CASE /\ directory' = [directory EXCEPT ![m] = Head(in).version]
             /\ SendList(c, cl, directory', toNode)
             /\ UNCHANGED lost
    <2> DEFINE new == InitModules(cl, directory')
               more == Append(out, List(directory'))
    <2>1. directory' \in Versions
      BY <1>4, <1>5, <1>8 DEF Versions
    <2>2. /\ new \in ClientState /\ new.loaded = directory' /\ new.prepared = NoVersion
          /\ new.running = NoVersion /\ new.timers = cl.timers
      BY <1>2, <2>1 DEF InitModules, ClientState
    <2>3. client' = [client EXCEPT ![c] = new] /\ toNode' = [toNode EXCEPT ![c] = more]
      BY <1>8, Unchanged DEF SendList
    <2>4. Shared'
      BY <1>1, <1>8, <2>1 DEF UpdateInv, Shared
    <2> HIDE DEF new
    <2>5. Connection(c, new, node[c], Tail(in), more)
      <3>1. PICK dir \in Versions : dir = directory'
        BY <2>1
      <3>2. Connection(c, new, node[c], Tail(in), Append(out, List(dir)))
        BY <1>7, <2>2, <3>1, ListSentSafe
      <3> QED
        BY <3>1, <3>2
    <2> QED
      BY <1>1, <1>6, <2>3, <2>4, <2>5, OneConnection
  <1>9. CASE /\ directory' = [directory EXCEPT ![m] = NoVersion]
             /\ lost' = TRUE
             /\ UNCHANGED <<client, toNode>>
    <2>1. directory' \in Versions
      BY <1>4, <1>5, <1>9 DEF Versions
    <2>2. Shared'
      BY <1>1, <1>9, <2>1 DEF UpdateInv, Shared
    <2>3. client' = [client EXCEPT ![c] = cl] /\ toNode' = [toNode EXCEPT ![c] = out]
      BY <1>9, Unchanged
    <2> QED
      BY <1>1, <1>6, <1>7, <2>2, <2>3, OneConnection
  <1> QED
    BY <1>8, <1>9 DEF UpdateModuleFromArchive

\* The client orders the wait before it tries again.
LEMMA WaitOrderedKeeps ==
    ASSUME UpdateInv, NEW c \in Cpu, WaitOrdered(c)
    PROVE  UpdateInv'
  <1> DEFINE in == toClient[c]
             cl == client[c]
             new == [cl EXCEPT !.timers = @ + 1]
  <1>1. /\ in # <<>> /\ Head(in).id = "112"
        /\ toClient' = [toClient EXCEPT ![c] = Tail(in)]
        /\ UNCHANGED <<files, directory, allow, node, toNode, given, lost, fault>>
    BY DEF WaitOrdered, ClientGets
  <1>2. client' = [client EXCEPT ![c] = new]
    BY Zenon DEF WaitOrdered
  <1>3. Connection(c, cl, node[c], in, toNode[c])
    BY Unchanged
  <1> HIDE DEF in, cl
  <1>4. Connection(c, new, node[c], Tail(in), toNode[c])
    BY <1>1, <1>3, WaitSafe
  <1>5. Shared'
    BY <1>1 DEF UpdateInv, Shared
  <1>6. node' = [node EXCEPT ![c] = node[c]] /\ toNode' = [toNode EXCEPT ![c] = toNode[c]]
    BY <1>1, Unchanged
  <1> HIDE DEF new
  <1>7. toClient' = [toClient EXCEPT ![c] = Tail(in)]
    BY <1>1
  <1> QED
    BY <1>2, <1>4, <1>5, <1>6, <1>7, OneConnection

\* The timer of that wait fires.
LEMMA TimerFiresKeeps ==
    ASSUME UpdateInv, NEW c \in Cpu, TimerFires(c)
    PROVE  UpdateInv'
  <1> DEFINE cl == client[c]
             out == toNode[c]
             waited == [cl EXCEPT !.timers = @ - 1]
             new == InitModules(waited, directory)
             more == Append(out, List(directory))
  <1>1. /\ cl.timers > 0
        /\ SendList(c, waited, directory, toNode)
        /\ UNCHANGED <<files, directory, allow, node, toClient, given, lost, fault>>
    BY Zenon DEF TimerFires
  <1>2. cl \in ClientState /\ Connection(c, cl, node[c], toClient[c], out)
    BY Unchanged
  <1>3. directory \in Versions
    BY DEF UpdateInv, Shared
  <1>4. cl.timers \in Nat
    BY <1>2 DEF ClientState
  <1>5. c # General
    BY <1>1, <1>2, <1>4 DEF Connection, Typed
  <1>6. /\ new \in ClientState /\ new.loaded = directory /\ new.prepared = NoVersion
        /\ new.running = NoVersion
    <2>1. cl.timers - 1 \in Nat
      BY <1>1, <1>4
    <2>2. waited \in ClientState
      BY <1>2, <2>1 DEF ClientState
    <2> HIDE DEF waited
    <2> QED
      BY <1>3, <2>2 DEF InitModules, ClientState
  <1>7. client' = [client EXCEPT ![c] = new] /\ toNode' = [toNode EXCEPT ![c] = more]
    BY <1>1 DEF SendList
  <1> HIDE DEF new
  <1>8. Connection(c, new, node[c], toClient[c], more)
    BY <1>2, <1>3, <1>5, <1>6, ListSentSafe
  <1>9. Shared'
    BY <1>1 DEF UpdateInv, Shared
  <1>10. /\ node' = [node EXCEPT ![c] = node[c]]
         /\ toClient' = [toClient EXCEPT ![c] = toClient[c]]
    BY <1>1, Unchanged
  <1> QED
    BY <1>7, <1>8, <1>9, <1>10, OneConnection

\* Request 120 reaches the client (prepareForStartModule).
LEMMA PrepareForStartModuleKeeps ==
    ASSUME UpdateInv, NEW c \in Cpu, PrepareForStartModule(c)
    PROVE  UpdateInv'
  <1> DEFINE in == toClient[c]
             out == toNode[c]
             cl == client[c]
             m == Head(in).module
             new == [cl EXCEPT !.exec = m]
             ready == [new EXCEPT !.prepared = directory[m]]
  <1>1. in # <<>> /\ Head(in).id = "120" /\ Head(in).id \in Orders
    BY Ids DEF PrepareForStartModule, ClientGets
  <1>2. /\ toClient' = [toClient EXCEPT ![c] = Tail(in)]
        /\ UNCHANGED <<files, directory, allow, node, given, lost>>
    BY DEF PrepareForStartModule, ClientGets
  <1>3. \/ /\ new.loaded[m] = NoVersion /\ fault' = c
           /\ UNCHANGED <<client, toNode>>
        \/ /\ client' = [client EXCEPT ![c] = new]
           /\ toNode' = [toNode EXCEPT ![c] = Append(out, Reply("md5_error", m))]
           /\ UNCHANGED fault
        \/ /\ client' = [client EXCEPT ![c] = new]
           /\ toNode' = [toNode EXCEPT ![c] = Append(out, Reply("refused", m))]
           /\ UNCHANGED fault
        \/ /\ new.loaded[m] = Head(in).version /\ Copied(new, m)
           /\ client' = [client EXCEPT ![c] = ready]
           /\ toNode' = [toNode EXCEPT ![c] = Append(out, Reply("ready", m))]
           /\ UNCHANGED fault
    <2>1. toNode[c] = out
      OBVIOUS
    <2> QED
      BY Zenon DEF PrepareForStartModule
  <1>4. /\ cl \in ClientState /\ directory \in Versions
        /\ Connection(c, cl, node[c], in, out)
    BY Unchanged DEF UpdateInv, Shared
  <1>5. /\ node[c].job \in Job /\ m = node[c].job.module
        /\ Head(in).version = node[c].job.version
        /\ cl.prepared = NoVersion
    <2> HIDE DEF in, cl, out
    <2> QED
      BY <1>1, <1>4, OrderFacts DEF m
  <1>6. m \in Module
    BY <1>5 DEF Job
  <1>7. /\ new \in ClientState /\ new.loaded = cl.loaded /\ new.timers = cl.timers
        /\ new.running = cl.running /\ new.prepared = NoVersion
    BY <1>4, <1>5, <1>6 DEF ClientState
  <1>8. directory[m] \in Version \cup {NoVersion}
    BY <1>4, <1>6 DEF Versions
  <1>9. /\ ready \in ClientState /\ ready.loaded = cl.loaded /\ ready.timers = cl.timers
        /\ ready.running = cl.running /\ ready.prepared = directory[m] /\ ready.exec = m
    BY <1>4, <1>6, <1>8 DEF ClientState
  <1>10. node' = [node EXCEPT ![c] = node[c]] /\ toClient' = [toClient EXCEPT ![c] = Tail(in)]
    BY <1>2, Unchanged
  <1>11. fault' = fault \/ (fault' = c /\ c # General) => Shared'
    BY <1>2 DEF UpdateInv, Shared
  <1> HIDE DEF in, cl, out, new, ready
  <1>12. CASE new.loaded[m] = NoVersion /\ fault' = c /\ UNCHANGED <<client, toNode>>
    <2>1. c # General /\ Connection(c, cl, node[c], Tail(in), out)
      BY <1>1, <1>4, <1>7, <1>12, OrderLostSafe DEF m
    <2>2. client' = [client EXCEPT ![c] = cl] /\ toNode' = [toNode EXCEPT ![c] = out]
      BY <1>12, Unchanged DEF cl, out
    <2>3. Shared'
      BY <1>11, <1>12, <2>1
    <2> QED
      BY <1>10, <2>1, <2>2, <2>3, OneConnection
  <1>13. ASSUME NEW id \in {"md5_error", "refused"},
                client' = [client EXCEPT ![c] = new],
                toNode' = [toNode EXCEPT ![c] = Append(out, Reply(id, m))],
                UNCHANGED fault
         PROVE  UpdateInv'
    <2>1. id \in Replies
      BY Ids
    <2>2. Connection(c, new, node[c], Tail(in), Append(out, Reply(id, m)))
      BY <1>1, <1>4, <1>7, <2>1, OrderAnsweredSafe DEF m
    <2>3. Shared'
      BY <1>11, <1>13
    <2> QED
      BY <1>10, <1>13, <2>2, <2>3, OneConnection
  <1>14. CASE /\ new.loaded[m] = Head(in).version /\ Copied(new, m)
              /\ client' = [client EXCEPT ![c] = ready]
              /\ toNode' = [toNode EXCEPT ![c] = Append(out, Reply("ready", m))]
              /\ UNCHANGED fault
    <2>1. ready.prepared = node[c].job.version /\ ready.exec = node[c].job.module
      BY <1>5, <1>9, <1>14 DEF Copied
    <2>2. Connection(c, ready, node[c], Tail(in), Append(out, Reply("ready", m)))
      BY <1>1, <1>4, <1>9, <2>1, Ids, OrderAnsweredSafe DEF m
    <2>3. Shared'
      BY <1>11, <1>14
    <2>4. /\ client' = [client EXCEPT ![c] = ready]
          /\ toNode' = [toNode EXCEPT ![c] = Append(out, Reply("ready", m))]
      BY <1>14
    <2> QED
      BY <1>10, <2>2, <2>3, <2>4, OneConnection
  <1> QED
    BY <1>3, <1>12, <1>13, <1>14

\* The input of the module reaches the client (receivedInputParameters).
LEMMA ReceivedInputParametersKeeps ==
    ASSUME UpdateInv, NEW c \in Cpu, ReceivedInputParameters(c)
    PROVE  UpdateInv'
  <1> DEFINE in == toClient[c]
             out == toNode[c]
             cl == client[c]
             m == Head(in).module
             new == [cl EXCEPT !.running = cl.prepared, !.prepared = NoVersion]
  <1>1. in # <<>> /\ Head(in).id \in Orders
    BY Ids DEF ReceivedInputParameters, ClientGets
  <1>2. /\ toClient' = [toClient EXCEPT ![c] = Tail(in)]
        /\ UNCHANGED <<files, directory, allow, node, given, lost>>
    BY DEF ReceivedInputParameters, ClientGets
  <1>3. /\ cl \in ClientState /\ Connection(c, cl, node[c], in, out)
        /\ client \in [Cpu -> ClientState]
    BY Unchanged DEF UpdateInv
  <1>4. [client EXCEPT ![c].running = cl.prepared, ![c].prepared = NoVersion]
            = [client EXCEPT ![c] = new]
    BY <1>3
  <1>5. \/ /\ cl.loaded[m] = NoVersion /\ fault' = c
           /\ UNCHANGED <<client, toNode>>
        \/ /\ cl.prepared = NoVersion
           /\ toNode' = [toNode EXCEPT ![c] = Append(out, Reply("refused", m))]
           /\ UNCHANGED <<client, fault>>
        \/ /\ cl.prepared # NoVersion
           /\ client' = [client EXCEPT ![c] = new]
           /\ UNCHANGED <<toNode, fault>>
    BY <1>4, Unchanged, Zenon DEF ReceivedInputParameters
  <1>6. /\ new \in ClientState /\ new.loaded = cl.loaded /\ new.timers = cl.timers
        /\ new.running = cl.prepared /\ new.prepared = NoVersion /\ new.exec = cl.exec
    BY <1>3 DEF ClientState
  <1>7. node' = [node EXCEPT ![c] = node[c]] /\ toClient' = [toClient EXCEPT ![c] = Tail(in)]
    BY <1>2, Unchanged
  <1>8. fault' = fault \/ (fault' = c /\ c # General) => Shared'
    BY <1>2 DEF UpdateInv, Shared
  <1>9. UNCHANGED client => client' = [client EXCEPT ![c] = cl]
    BY Unchanged
  <1>10. UNCHANGED toNode => toNode' = [toNode EXCEPT ![c] = out]
    BY Unchanged
  <1> HIDE DEF in, cl, out, new
  <1>11. CASE cl.loaded[m] = NoVersion /\ fault' = c /\ UNCHANGED <<client, toNode>>
    <2>1. c # General /\ Connection(c, cl, node[c], Tail(in), out)
      BY <1>1, <1>3, <1>11, OrderLostSafe DEF m
    <2>2. Shared'
      BY <1>8, <1>11, <2>1
    <2>3. client' = [client EXCEPT ![c] = cl] /\ toNode' = [toNode EXCEPT ![c] = out]
      BY <1>9, <1>10, <1>11
    <2> QED
      BY <1>7, <2>1, <2>2, <2>3, OneConnection
  <1>12. CASE /\ cl.prepared = NoVersion
              /\ toNode' = [toNode EXCEPT ![c] = Append(out, Reply("refused", m))]
              /\ UNCHANGED <<client, fault>>
    <2>1. Connection(c, cl, node[c], Tail(in), Append(out, Reply("refused", m)))
      BY <1>1, <1>3, <1>12, Ids, OrderAnsweredSafe DEF m
    <2>2. Shared'
      BY <1>8, <1>12
    <2>3. /\ client' = [client EXCEPT ![c] = cl]
          /\ toNode' = [toNode EXCEPT ![c] = Append(out, Reply("refused", m))]
      BY <1>9, <1>12
    <2> QED
      BY <1>7, <2>1, <2>2, <2>3, OneConnection
  <1>13. CASE /\ cl.prepared # NoVersion
              /\ client' = [client EXCEPT ![c] = new]
              /\ UNCHANGED <<toNode, fault>>
    <2>1. Connection(c, new, node[c], Tail(in), out)
      BY <1>1, <1>3, <1>6, <1>13, StartedSafe
    <2>2. Shared'
      BY <1>8, <1>13
    <2>3. client' = [client EXCEPT ![c] = new] /\ toNode' = [toNode EXCEPT ![c] = out]
      BY <1>10, <1>13
    <2> QED
      BY <1>7, <2>1, <2>2, <2>3, OneConnection
  <1> QED
    BY <1>5, <1>11, <1>12, <1>13

\* The program of the module ends.
LEMMA ProgramEndsKeeps ==
    ASSUME UpdateInv, NEW c \in Cpu, ProgramEnds(c)
    PROVE  UpdateInv'
  <1> DEFINE cl == client[c]
             out == toNode[c]
             new == [cl EXCEPT !.running = NoVersion]
             more == Append(out, Reply("ended", cl.exec))
  <1>1. /\ cl.running # NoVersion
        /\ UNCHANGED <<files, directory, allow, node, toClient, given, lost, fault>>
    BY DEF ProgramEnds
  <1>2. client' = [client EXCEPT ![c] = new] /\ toNode' = [toNode EXCEPT ![c] = more]
    BY Zenon DEF ProgramEnds
  <1>3. Connection(c, cl, node[c], toClient[c], out)
    BY Unchanged
  <1>4. Connection(c, new, node[c], toClient[c], more)
    <2>1. cl.running # NoVersion
      BY <1>1
    <2> HIDE DEF cl, out
    <2> QED
      BY <1>3, <2>1, ProgramEndsSafe
  <1>5. Shared'
    BY <1>1 DEF UpdateInv, Shared
  <1>6. /\ node' = [node EXCEPT ![c] = node[c]]
        /\ toClient' = [toClient EXCEPT ![c] = toClient[c]]
    BY <1>1, Unchanged
  <1> HIDE DEF new, more
  <1> QED
    BY <1>2, <1>4, <1>5, <1>6, OneConnection

\* The actions of the server.
LEMMA ArchiveUploadedKeeps ==
    ASSUME UpdateInv, NEW c \in Cpu, ArchiveUploaded(c)
    PROVE  UpdateInv'
  <1> DEFINE n == node[c]
             in == toClient[c]
             new == [n EXCEPT !.upload = NoUpload]
             more == Append(in, Archive(n.upload.module, n.upload.version))
  <1>1. /\ n.upload # NoUpload
        /\ UNCHANGED <<files, directory, allow, client, toNode, given, fault>>
        /\ lost' \in {lost, TRUE}
    BY DEF ArchiveUploaded
  <1>2. node' = [node EXCEPT ![c] = new]
    BY Zenon DEF ArchiveUploaded
  <1>3. toClient' = [toClient EXCEPT ![c] = more] \/ toClient' = toClient
    BY Zenon DEF ArchiveUploaded, Tells
  <1>4. Connection(c, client[c], n, in, toNode[c])
    BY Unchanged
  <1>5. /\ Connection(c, client[c], new, in, toNode[c])
        /\ Connection(c, client[c], new, more, toNode[c])
    <2>1. n.upload # NoUpload
      BY <1>1
    <2> HIDE DEF n, in
    <2> QED
      BY <1>4, <2>1, UploadedSafe
  <1>6. Shared'
    BY <1>1 DEF UpdateInv, Shared
  <1>7. /\ client' = [client EXCEPT ![c] = client[c]]
        /\ toNode' = [toNode EXCEPT ![c] = toNode[c]]
    BY <1>1, Unchanged
  <1>8. toClient = [toClient EXCEPT ![c] = in]
    BY Unchanged
  <1> HIDE DEF new, more, in
  <1>9. CASE toClient' = toClient
    <2>1. toClient' = [toClient EXCEPT ![c] = in]
      BY <1>8, <1>9
    <2> QED
      BY <1>2, <1>5, <1>6, <1>7, <2>1, OneConnection
  <1>10. CASE toClient' = [toClient EXCEPT ![c] = more]
    BY <1>2, <1>5, <1>6, <1>7, <1>10, OneConnection
  <1> QED
    BY <1>3, <1>9, <1>10

\* Sending an archive from a node of any state.
LEMMA UploadingNode ==
    ASSUME NEW n \in NodeState, NEW m \in Module, files \in [Module -> Version]
    PROVE  /\ Uploading(n, m) \in NodeState /\ Uploading(n, m).job = n.job
           /\ Uploading(n, m).listed = Nothing
  <1>1. [module |-> m, version |-> files[m]] \in Upload
    BY DEF Upload
  <1>2. Nothing \in Versions
    BY DEF Nothing, Versions
  <1> QED
    BY <1>1, <1>2 DEF Uploading, NodeState

\* A list with differing modules: the walk stops at one that may be updated,
\* or accepts what does not differ.
LEMMA ReceiveModulesListRequestKeeps ==
    ASSUME UpdateInv, NEW c \in Cpu, ReceiveModulesListRequest(c)
    PROVE  UpdateInv'
  <1> DEFINE out == toNode[c]
             in == toClient[c]
             cl == client[c]
             n == node[c]
             theirs == Head(out).versions
             differing == { i \in DOMAIN Listing :
                              theirs[Listing[i]] \notin {NoVersion, files[Listing[i]]} }
             again == { i \in differing : Listing[i] = n.last }
             outdated == IF allow
                         THEN { i \in differing \ again : Listing[i] \notin n.failed }
                         ELSE {}
             Accepted(upto) == [m \in Module |->
                                  IF \E i \in upto \ differing : Listing[i] = m
                                  THEN theirs[m] ELSE NoVersion]
             GivenUp(upto) == n.failed \cup { Listing[i] : i \in again \cap upto }
             stop == Min(outdated)
             walked == 1..(stop - 1)
             found == [n EXCEPT !.listed = Accepted(walked), !.accepted = FALSE,
                                !.failed = GivenUp(walked), !.last = Listing[stop]]
             unknown == { Listing[i] : i \in differing }
             accepted == [n EXCEPT !.listed = Accepted(DOMAIN Listing), !.accepted = TRUE,
                                   !.failed = GivenUp(DOMAIN Listing), !.connected = TRUE]
  <1>1. /\ out # <<>> /\ Head(out).id = "110"
        /\ toNode' = [toNode EXCEPT ![c] = Tail(out)]
        /\ UNCHANGED <<files, directory, allow, client, given, lost, fault>>
    BY DEF ReceiveModulesListRequest, NodeGets
  <1>2. \/ outdated # {} /\ UpdateModuleOnTheNode(c, found, Listing[stop])
        \/ /\ node' = [node EXCEPT ![c] = accepted]
           /\ Tells(c, Known(unknown))
    BY Zenon DEF ReceiveModulesListRequest
  <1>3. /\ n \in NodeState /\ Connection(c, cl, n, in, out) /\ out \in Seq(ClientMessage)
        /\ files \in [Module -> Version]
    BY Unchanged DEF UpdateInv, Shared
  <1>4. out # <<>> /\ Head(out).id = "110"
    BY <1>1
  <1>5. /\ theirs \in Versions
        /\ Typed(c, cl, n, in, Tail(out)) /\ Thread(cl, n, in, Tail(out))
        /\ c = General =>
                 /\ n.job = NoJob
                 /\ None(in, {"111"}) /\ None(in, {"110"}) /\ None(in, Orders)
                 /\ None(Tail(out), {"110"}) /\ None(Tail(out), Replies)
                 /\ cl.running = NoVersion
    <2> HIDE DEF out, in, cl, n
    <2> QED
      BY <1>3, <1>4, ListFacts DEF theirs
  <1>6. /\ DOMAIN Listing \in SUBSET Nat /\ DOMAIN Listing = 1..Len(Listing)
        /\ \A i \in DOMAIN Listing : Listing[i] \in Module
        /\ \A m \in Module : \E i \in DOMAIN Listing : Listing[i] = m
    BY HostAssumption DEF Module, ToSet
  <1>7. differing \subseteq DOMAIN Listing /\ outdated \subseteq DOMAIN Listing
    OBVIOUS
  <1>8. \A upto : Accepted(upto) \in Versions
    BY <1>5 DEF Versions
  <1>9. \A upto : GivenUp(upto) \in SUBSET Module
    BY <1>3, <1>6, <1>7 DEF NodeState
  <1>10. unknown \in SUBSET Module
    BY <1>6, <1>7
  <1>11. \A m \in Module : Accepted(DOMAIN Listing)[m] # NoVersion =>
            theirs[m] # NoVersion /\ m \notin unknown
    BY <1>6, <1>7, HostAssumption
  <1>12. /\ client' = [client EXCEPT ![c] = cl]
         /\ toNode' = [toNode EXCEPT ![c] = Tail(out)]
    BY <1>1, Unchanged
  <1>13. Shared'
    BY <1>1 DEF UpdateInv, Shared
  <1>14. CASE outdated # {} /\ UpdateModuleOnTheNode(c, found, Listing[stop])
    <2>1. stop \in DOMAIN Listing
      BY <1>6, <1>7, <1>14, LeastIsMember
    <2>2. Listing[stop] \in Module
      BY <1>6, <2>1
    <2> HIDE DEF stop, Accepted, GivenUp, walked
    <2>3. found \in NodeState /\ found.job = n.job /\ found.upload = n.upload
      <3>1. Accepted(walked) \in Versions /\ GivenUp(walked) \in SUBSET Module
        BY <1>8, <1>9
      <3> QED
        BY <1>3, <2>2, <3>1 DEF NodeState
    <2> DEFINE up == Uploading(found, Listing[stop])
    <2>4. up \in NodeState /\ up.job = n.job /\ up.listed = Nothing
      <3> HIDE DEF found
      <3> QED
        BY <1>3, <2>2, <2>3, UploadingNode
    <2> HIDE DEF found, up, out, in, cl, n
    <2>5. CASE c = General /\ node' = [node EXCEPT ![c] = up] /\ UNCHANGED toClient
      <3>1. cl.prepared = NoVersion
        BY <1>5, <2>5 DEF Thread, OneThread
      <3>2. Connection(c, cl, up, in, Tail(out))
        BY <1>5, <2>4, <2>5, <3>1, UploadingSafe
      <3>3. toClient' = [toClient EXCEPT ![c] = in] /\ node' = [node EXCEPT ![c] = up]
        BY <2>5, Unchanged DEF in
      <3> QED
        BY <1>12, <1>13, <3>2, <3>3, OneConnection
    <2>6. CASE /\ c # General /\ node' = [node EXCEPT ![c] = found]
               /\ toClient' = [toClient EXCEPT ![c] = Append(in, WaitForGeneral)]
      <3>1. Connection(c, cl, found, Append(in, WaitForGeneral), Tail(out))
        BY <1>5, <2>3, <2>6, WaitOrderedSafe
      <3> QED
        BY <1>12, <1>13, <2>6, <3>1, OneConnection
    <2> QED
      BY <1>14, <2>5, <2>6 DEF UpdateModuleOnTheNode, Tells, up, in
  <1>15. CASE node' = [node EXCEPT ![c] = accepted] /\ Tells(c, Known(unknown))
    <2>1. /\ accepted \in NodeState /\ accepted.job = n.job
          /\ accepted.upload = n.upload /\ accepted.connected
          /\ accepted.listed = Accepted(DOMAIN Listing)
      <3>1. /\ Accepted(DOMAIN Listing) \in Versions
            /\ GivenUp(DOMAIN Listing) \in SUBSET Module
        BY <1>8, <1>9
      <3> HIDE DEF Accepted, GivenUp
      <3> QED
        BY <1>3, <3>1 DEF NodeState
    <2>2. \A m \in Module : accepted.listed[m] # NoVersion =>
            theirs[m] # NoVersion /\ m \notin unknown
      BY <1>11, <2>1
    <2>3. toClient' = [toClient EXCEPT ![c] = Append(in, Known(unknown))]
      BY <1>15 DEF Tells
    <2> HIDE DEF accepted, unknown, out, in, cl, n
    <2>4. Connection(c, cl, accepted, Append(in, Known(unknown)), Tail(out))
      BY <1>3, <1>4, <1>10, <2>1, <2>2, ListAcceptedSafe DEF theirs
    <2>5. node' = [node EXCEPT ![c] = accepted]
      BY <1>15
    <2> QED
      BY <1>12, <1>13, <2>3, <2>4, <2>5, OneConnection
  <1> QED
    BY <1>2, <1>14, <1>15

\* The server asks a client to prepare a module (prepareModule).
LEMMA PrepareModuleKeeps ==
    ASSUME UpdateInv, NEW c \in Cpu, NEW p \in Process, NEW m \in Module,
           PrepareModule(c, p, m)
    PROVE  UpdateInv'
  <1> DEFINE n == node[c]
             in == toClient[c]
             v == IF p # n.prev THEN files[m] ELSE n.listed[m]
             job == [process |-> p, module |-> m, version |-> v]
             new == [n EXCEPT !.listed = [@ EXCEPT ![m] = v], !.job = job]
             more == Append(in, PrepareOrder(m, v))
  <1>1. /\ given < MaxJobs /\ n.job = NoJob /\ n.listed[m] # NoVersion
        /\ UNCHANGED <<files, directory, allow, client, toNode, lost, fault>>
        /\ given' = given + 1
        /\ Tells(c, PrepareOrder(m, v))
    BY DEF PrepareModule
  <1>2. /\ n \in NodeState /\ node \in [Cpu -> NodeState]
        /\ Connection(c, client[c], n, in, toNode[c])
        /\ files \in [Module -> Version]
    BY Unchanged DEF UpdateInv, Shared
  <1>3. node' = [node EXCEPT ![c] = new]
    <2>1. node' = [node EXCEPT ![c].listed[m] = v, ![c].job = job]
      BY Zenon DEF PrepareModule
    <2> HIDE DEF v, job
    <2> QED
      BY <1>2, <2>1
  <1>4. v \in Version
    BY <1>1, <1>2 DEF NodeState, Versions
  <1>5. job \in Job /\ job.module = m /\ job.version = v
    BY <1>4 DEF Job
  <1> HIDE DEF v, job
  <1>6. /\ new \in NodeState /\ new.upload = n.upload /\ new.connected = n.connected
        /\ new.job = job /\ new.listed = [n.listed EXCEPT ![m] = v]
    BY <1>2, <1>4, <1>5 DEF NodeState, Versions
  <1>7. toClient' = [toClient EXCEPT ![c] = more]
    BY <1>1 DEF Tells
  <1>8. /\ client' = [client EXCEPT ![c] = client[c]]
        /\ toNode' = [toNode EXCEPT ![c] = toNode[c]]
    BY <1>1, Unchanged
  <1>9. Shared'
    BY <1>1, HostAssumption DEF UpdateInv, Shared
  <1>10. n.job = NoJob /\ n.listed[m] # NoVersion
    BY <1>1
  <1> HIDE DEF new, n, in
  <1>11. Connection(c, client[c], new, more, toNode[c])
    BY <1>2, <1>4, <1>5, <1>6, <1>10, JobGivenSafe
  <1> HIDE DEF more
  <1> QED
    BY <1>3, <1>7, <1>8, <1>9, <1>11, OneConnection

\* A node that is cleared once its signals are connected.
LEMMA ReportedNode ==
    ASSUME NEW n \in NodeState
    PROVE  /\ Reported(n) \in NodeState /\ Reported(n).upload \in {n.upload, NoUpload}
           /\ Reported(n).connected = n.connected /\ Reported(n).listed = n.listed
           /\ \/ n.connected /\ Reported(n).job = NoJob
              \/ ~n.connected /\ Reported(n) = n
  BY DEF Reported, Cleared, NodeState

\* The job is given back before the archive is sent.
LEMMA Md5ErrorKeeps ==
    ASSUME UpdateInv, NEW c \in Cpu, Md5Error(c)
    PROVE  UpdateInv'
  <1> DEFINE out == toNode[c]
             in == toClient[c]
             cl == client[c]
             n == node[c]
             m == Head(out).module
             back == Reported(n)
  <1>1. /\ out # <<>> /\ Head(out).id = "md5_error"
        /\ toNode' = [toNode EXCEPT ![c] = Tail(out)]
        /\ UNCHANGED <<files, directory, allow, client, given, lost>>
    BY DEF Md5Error, NodeGets
  <1>2. \/ Unlisted(c, m)
        \/ UpdateModuleOnTheNode(c, back, m) /\ UNCHANGED fault
    BY Zenon DEF Md5Error, GivenBackAndUpdated
  <1>3. /\ n \in NodeState /\ Connection(c, cl, n, in, out)
        /\ files \in [Module -> Version]
    BY Unchanged DEF UpdateInv, Shared
  <1>4. out # <<>> /\ Head(out).id \in Replies \ {"ready"}
    BY <1>1, Ids
  <1> HIDE DEF out, in, cl, n
  <1>5. /\ n.job \in Job /\ m = n.job.module
        /\ cl.prepared = NoVersion
        /\ cl.running = NoVersion /\ None(in, Orders) /\ None(Tail(out), Replies)
        /\ Typed(c, cl, n, in, Tail(out)) /\ Thread(cl, n, in, Tail(out))
        /\ c = General =>
                 /\ n.connected /\ n.listed[n.job.module] # NoVersion
                 /\ None(in, {"111"}) /\ None(in, {"110"}) /\ None(Tail(out), {"110"})
    BY <1>3, <1>4, AnswerFacts DEF m
  <1>6. m \in Module
    BY <1>5 DEF Job
  <1>7. /\ back \in NodeState /\ back.upload \in {n.upload, NoUpload}
        /\ \/ n.connected /\ back.job = NoJob
           \/ ~n.connected /\ back = n
    BY <1>3, ReportedNode
  <1> HIDE DEF m, back
  <1>8. /\ client' = [client EXCEPT ![c] = cl]
        /\ toNode' = [toNode EXCEPT ![c] = Tail(out)]
    BY <1>1, Unchanged DEF cl
  <1>9. fault' = fault \/ (fault' = c /\ c # General) => Shared'
    BY <1>1 DEF UpdateInv, Shared
  <1>10. CASE Unlisted(c, m)
    <2>1. /\ n.listed[m] = NoVersion /\ fault' = c
          /\ UNCHANGED <<node, toClient>>
      BY <1>10 DEF Unlisted, n
    <2>2. c # General
      BY <1>5, <2>1
    <2>3. Connection(c, cl, n, in, Tail(out))
      BY <1>3, <1>5, <2>2, WaitOrderedSafe
    <2>4. node' = [node EXCEPT ![c] = n] /\ toClient' = [toClient EXCEPT ![c] = in]
      BY <2>1, Unchanged DEF n, in
    <2>5. Shared'
      BY <1>9, <2>1, <2>2
    <2> QED
      BY <1>8, <2>3, <2>4, <2>5, OneConnection
  <1>11. CASE UpdateModuleOnTheNode(c, back, m) /\ UNCHANGED fault
    <2>1. Shared'
      BY <1>9, <1>11
    <2> DEFINE up == Uploading(back, m)
    <2>2. CASE c = General /\ node' = [node EXCEPT ![c] = up] /\ UNCHANGED toClient
      <3>1. up \in NodeState /\ up.job = NoJob /\ up.listed = Nothing
        BY <1>3, <1>5, <1>6, <1>7, <2>2, UploadingNode
      <3> HIDE DEF up
      <3>2. Connection(c, cl, up, in, Tail(out))
        BY <1>5, <2>2, <3>1, UploadingSafe
      <3>3. toClient' = [toClient EXCEPT ![c] = in] /\ node' = [node EXCEPT ![c] = up]
        BY <2>2, Unchanged DEF in
      <3> QED
        BY <1>8, <2>1, <3>2, <3>3, OneConnection
    <2>3. CASE /\ c # General /\ node' = [node EXCEPT ![c] = back]
               /\ toClient' = [toClient EXCEPT ![c] = Append(in, WaitForGeneral)]
      <3>1. Connection(c, cl, back, Append(in, WaitForGeneral), Tail(out))
        BY <1>5, <1>7, <2>3, WaitOrderedSafe
      <3> QED
        BY <1>8, <2>1, <2>3, <3>1, OneConnection
    <2> QED
      BY <1>11, <2>2, <2>3 DEF UpdateModuleOnTheNode, Tells, in
  <1> QED
    BY <1>2, <1>10, <1>11

\* The server reads that the preparation failed.
LEMMA PrepareFailedKeeps ==
    ASSUME UpdateInv, NEW c \in Cpu, PrepareFailed(c)
    PROVE  UpdateInv'
  <1> DEFINE out == toNode[c]
             in == toClient[c]
             cl == client[c]
             n == node[c]
             m == Head(out).module
             new == IF n.connected THEN [Cleared(n) EXCEPT !.listed[m] = NoVersion] ELSE n
  <1>1. /\ out # <<>> /\ Head(out).id = "refused"
        /\ toNode' = [toNode EXCEPT ![c] = Tail(out)]
        /\ UNCHANGED <<files, directory, allow, client, toClient, given, lost, fault>>
    BY DEF PrepareFailed, NodeGets
  <1>2. node' = [node EXCEPT ![c] = new]
    BY Zenon DEF PrepareFailed
  <1>3. n \in NodeState /\ Connection(c, cl, n, in, out)
    BY Unchanged
  <1>4. out # <<>> /\ Head(out).id \in Replies \ {"ready"}
    BY <1>1, Ids
  <1>5. Shared'
    BY <1>1 DEF UpdateInv, Shared
  <1>6. /\ client' = [client EXCEPT ![c] = cl] /\ toClient' = [toClient EXCEPT ![c] = in]
        /\ toNode' = [toNode EXCEPT ![c] = Tail(out)]
    BY <1>1, Unchanged
  <1> HIDE DEF out, in, cl, n
  <1>7. m \in Module
    BY <1>3, <1>4, AnswerFacts DEF m, Job
  <1>8. /\ new \in NodeState /\ new.upload \in {n.upload, NoUpload}
        /\ new.connected = n.connected
        /\ \/ n.connected /\ new.job = NoJob
           \/ ~n.connected /\ new.job = n.job
        /\ \A k \in Module : new.listed[k] # NoVersion => n.listed[k] # NoVersion
    <2>1. CASE ~n.connected
      BY <1>3, <2>1
    <2>2. CASE n.connected
      <3> DEFINE cleared == Cleared(n)
                 listed == [n.listed EXCEPT ![m] = NoVersion]
      <3>1. /\ cleared \in NodeState /\ cleared.upload = NoUpload
            /\ cleared.listed = n.listed /\ cleared.job = NoJob
            /\ cleared.connected = n.connected
        BY <1>3 DEF Cleared, NodeState
      <3>2. /\ listed \in Versions
            /\ \A k \in Module : listed[k] # NoVersion => n.listed[k] # NoVersion
        BY <1>3, <1>7 DEF NodeState, Versions
      <3> HIDE DEF cleared
      <3>3. new = [cleared EXCEPT !.listed[m] = NoVersion]
        BY <2>2 DEF cleared
      <3>4. /\ new.listed = listed /\ new.job = NoJob /\ new.upload = NoUpload
            /\ new.connected = n.connected /\ new \in NodeState
        BY <3>1, <3>2, <3>3 DEF NodeState
      <3> HIDE DEF new, listed
      <3> QED
        BY <2>2, <3>2, <3>4
    <2> QED
      BY <2>1, <2>2
  <1> HIDE DEF new
  <1>9. Connection(c, cl, new, in, Tail(out))
    BY <1>3, <1>4, <1>8, JobOverSafe
  <1> QED
    BY <1>2, <1>5, <1>6, <1>9, OneConnection

\* The server reads that the preparation succeeded.
LEMMA PrepareSucceededKeeps ==
    ASSUME UpdateInv, NEW c \in Cpu, PrepareSucceeded(c)
    PROVE  UpdateInv'
  <1> DEFINE out == toNode[c]
             in == toClient[c]
             cl == client[c]
             n == node[c]
             m == Head(out).module
             more == Append(in, StartOrder(m))
  <1>1. /\ out # <<>> /\ Head(out).id = "ready"
        /\ toNode' = [toNode EXCEPT ![c] = Tail(out)]
        /\ UNCHANGED <<files, directory, allow, client, given, lost>>
    BY DEF PrepareSucceeded, NodeGets
  <1>2. \/ n.listed[m] = NoVersion /\ fault' = c /\ UNCHANGED <<node, toClient>>
        \/ toClient' = [toClient EXCEPT ![c] = more] /\ UNCHANGED <<node, fault>>
    BY DEF PrepareSucceeded, Unlisted, Tells
  <1>3. n \in NodeState /\ Connection(c, cl, n, in, out)
    BY Unchanged
  <1>4. out # <<>> /\ Head(out).id \in Replies
    BY <1>1, Ids
  <1>5. fault' = fault \/ (fault' = c /\ c # General) => Shared'
    BY <1>1 DEF UpdateInv, Shared
  <1>6. /\ client' = [client EXCEPT ![c] = cl]
        /\ toNode' = [toNode EXCEPT ![c] = Tail(out)]
        /\ UNCHANGED node => node' = [node EXCEPT ![c] = n]
        /\ UNCHANGED toClient => toClient' = [toClient EXCEPT ![c] = in]
    BY <1>1, Unchanged
  <1> HIDE DEF out, in, cl, n
  <1>7. CASE n.listed[m] = NoVersion /\ fault' = c /\ UNCHANGED <<node, toClient>>
    <2>1. /\ m = n.job.module
          /\ Typed(c, cl, n, in, Tail(out)) /\ Thread(cl, n, in, Tail(out))
          /\ c = General => n.listed[n.job.module] # NoVersion
      BY <1>3, <1>4, AnswerFacts DEF m
    <2>2. c # General
      BY <1>7, <2>1
    <2>3. Connection(c, cl, n, in, Tail(out))
      BY <1>3, <2>1, <2>2, WaitOrderedSafe
    <2>4. Shared'
      BY <1>5, <1>7, <2>2
    <2>5. node' = [node EXCEPT ![c] = n] /\ toClient' = [toClient EXCEPT ![c] = in]
      BY <1>6, <1>7
    <2>6. /\ client' = [client EXCEPT ![c] = cl]
          /\ toNode' = [toNode EXCEPT ![c] = Tail(out)]
      BY <1>6
    <2> QED
      BY <2>3, <2>4, <2>5, <2>6, OneConnection
  <1>8. CASE toClient' = [toClient EXCEPT ![c] = more] /\ UNCHANGED <<node, fault>>
    <2>1. Connection(c, cl, n, more, Tail(out))
      BY <1>3, <1>4, StartOrderedSafe DEF m
    <2>2. Shared'
      BY <1>5, <1>8
    <2>3. /\ node' = [node EXCEPT ![c] = n] /\ client' = [client EXCEPT ![c] = cl]
          /\ toNode' = [toNode EXCEPT ![c] = Tail(out)]
          /\ toClient' = [toClient EXCEPT ![c] = more]
      BY <1>6, <1>8
    <2> HIDE DEF more
    <2> QED
      BY <2>1, <2>2, <2>3, OneConnection
  <1> QED
    BY <1>2, <1>7, <1>8

\* The server reads the result of a module (moduleExecutionEnded).
LEMMA ModuleExecutionEndedKeeps ==
    ASSUME UpdateInv, NEW c \in Cpu, ModuleExecutionEnded(c)
    PROVE  UpdateInv'
  <1> DEFINE out == toNode[c]
             in == toClient[c]
             cl == client[c]
             n == node[c]
             new == [Reported(n) EXCEPT !.prev = n.job.process]
  <1>1. /\ out # <<>> /\ Head(out).id = "ended"
        /\ toNode' = [toNode EXCEPT ![c] = Tail(out)]
        /\ UNCHANGED <<files, directory, allow, client, toClient, given, lost, fault>>
    BY DEF ModuleExecutionEnded, NodeGets
  <1>2. node' = [node EXCEPT ![c] = new]
    BY Zenon DEF ModuleExecutionEnded
  <1>3. n \in NodeState /\ Connection(c, cl, n, in, out)
    BY Unchanged
  <1>4. out # <<>> /\ Head(out).id \in Replies \ {"ready"}
    BY <1>1, Ids
  <1>5. Shared'
    BY <1>1 DEF UpdateInv, Shared
  <1>6. /\ client' = [client EXCEPT ![c] = cl] /\ toClient' = [toClient EXCEPT ![c] = in]
        /\ toNode' = [toNode EXCEPT ![c] = Tail(out)]
    BY <1>1, Unchanged
  <1> HIDE DEF out, in, cl, n
  <1>7. n.job \in Job
    BY <1>3, <1>4, AnswerFacts
  <1>8. n.job.process \in Process
    BY <1>7 DEF Job
  <1>9. /\ new \in NodeState /\ new.upload \in {n.upload, NoUpload}
        /\ new.connected = n.connected
        /\ \/ n.connected /\ new.job = NoJob
           \/ ~n.connected /\ new.job = n.job
        /\ new.listed = n.listed
    <2> DEFINE back == Reported(n)
    <2>1. /\ back \in NodeState /\ back.upload \in {n.upload, NoUpload}
          /\ back.connected = n.connected /\ back.listed = n.listed
          /\ \/ n.connected /\ back.job = NoJob
             \/ ~n.connected /\ back = n
      BY <1>3, ReportedNode
    <2> HIDE DEF back
    <2>2. new = [back EXCEPT !.prev = n.job.process]
      BY DEF back
    <2> HIDE DEF new
    <2> QED
      BY <1>8, <2>1, <2>2 DEF NodeState
  <1> HIDE DEF new
  <1>10. Connection(c, cl, new, in, Tail(out))
    BY <1>3, <1>4, <1>9, JobOverSafe
  <1> QED
    BY <1>2, <1>5, <1>6, <1>10, OneConnection

\* The module's files are replaced on the server.
LEMMA FilesReplacedKeeps ==
    ASSUME UpdateInv, NEW m \in Module, FilesReplaced(m)
    PROVE  UpdateInv'
  <1>1. files' \in [Module -> Version]
    BY HostAssumption DEF UpdateInv, Shared, FilesReplaced, Version
  <1>2. Shared'
    BY <1>1 DEF UpdateInv, Shared, FilesReplaced
  <1> QED
    BY <1>2 DEF UpdateInv, FilesReplaced

---------------------------------------------------------------------------
(* The invariant and what follows from it.                                 *)

\* The initial states satisfy the invariant.
LEMMA UpdateInitSafe == UpdateInit => UpdateInv
  <1> SUFFICES ASSUME UpdateInit PROVE UpdateInv
    OBVIOUS
  <1> DEFINE out == <<List(directory)>>
  <1>1. 0 \in Version
    BY HostAssumption DEF Version
  <1>2. directory \in Versions /\ Nothing \in Versions
    BY <1>1 DEF UpdateInit, Versions, Nothing
  <1>3. Shared
    <2>1. 0 \in 0..MaxJobs /\ NoCpu # General
      BY HostAssumption
    <2> QED
      BY <1>2, <2>1, Zenon DEF UpdateInit, Shared
  <1>4. List(directory) \in ClientMessage /\ List(directory).id = "110"
        /\ List(directory).versions = directory
    BY <1>2 DEF List, ClientMessage
  <1>5. NewClient \in ClientState /\ NewNode \in NodeState
    BY <1>2 DEF NewClient, NewNode, ClientState, NodeState
  <1>6. /\ out \in Seq(ClientMessage) /\ DOMAIN out = {1} /\ out[1] = List(directory)
        /\ ToSet(out) = {List(directory)}
    BY <1>4 DEF ToSet
  <1>7. <<>> \in Seq(NodeMessage) /\ ToSet(<<>>) = {} /\ DOMAIN <<>> = {}
    BY DEF ToSet
  <1> HIDE DEF out
  <1>8. ASSUME NEW c \in Cpu
        PROVE  Connection(c, NewClient, NewNode, <<>>, out)
    <2>1. Typed(c, NewClient, NewNode, <<>>, out)
      BY <1>5, <1>6, <1>7 DEF Typed, NewNode, NewClient
    <2>2. Thread(NewClient, NewNode, <<>>, out)
      BY <1>4, <1>6, <1>7, Ids
      DEF Thread, OneThread, CarriesJob, One, None, NewNode, NewClient
    <2>3. OneUpdate(NewClient, NewNode, <<>>, out)
      BY <1>4, <1>6, <1>7 DEF OneUpdate, One, None, NewNode, NewClient
    <2>4. AnswerFirst(NewClient, NewNode, <<>>, out)
      BY <1>7 DEF AnswerFirst, Precede
    <2>5. JobCanEnd(NewClient, NewNode, <<>>, out)
      BY DEF JobCanEnd, NewNode, Nothing
    <2> QED
      BY <2>1, <2>2, <2>3, <2>4, <2>5 DEF Connection, Updated
  <1> QED
    BY <1>3, <1>5, <1>6, <1>7, <1>8 DEF UpdateInit, UpdateInv, out

\* Every step keeps the invariant.
LEMMA UpdateStep == UpdateInv /\ [UpdateNext]_updateVars => UpdateInv'
  <1> SUFFICES ASSUME UpdateInv, [UpdateNext]_updateVars PROVE UpdateInv'
    OBVIOUS
  <1>1. ASSUME NEW c \in Cpu, ClientHandles(c)
        PROVE  UpdateInv'
    BY <1>1, ListAnsweredKeeps, UpdateModuleFromArchiveKeeps, WaitOrderedKeeps,
       PrepareForStartModuleKeeps, ReceivedInputParametersKeeps DEF ClientHandles
  <1>2. ASSUME NEW c \in Cpu, NodeHandles(c)
        PROVE  UpdateInv'
    BY <1>2, ReceiveModulesListRequestKeeps, Md5ErrorKeeps, PrepareFailedKeeps,
       PrepareSucceededKeeps, ModuleExecutionEndedKeeps DEF NodeHandles
  <1>3. ASSUME NEW c \in Cpu, TimerFires(c) \/ ProgramEnds(c) \/ ArchiveUploaded(c)
        PROVE  UpdateInv'
    BY <1>3, TimerFiresKeeps, ProgramEndsKeeps, ArchiveUploadedKeeps
  <1>4. CASE UNCHANGED updateVars
    BY <1>4 DEF updateVars, UpdateInv, Shared
  <1> QED
    BY <1>1, <1>2, <1>3, <1>4, PrepareModuleKeeps, FilesReplacedKeeps DEF UpdateNext

\* What the invariant says of the properties of the runs.
LEMMA UpdateInvImplies ==
    UpdateInv => UpdateTypeOK /\ RunsTheServersVersion /\ GeneralKeepsJobs
  <1> SUFFICES ASSUME UpdateInv
               PROVE  UpdateTypeOK /\ RunsTheServersVersion /\ GeneralKeepsJobs
    OBVIOUS
  <1>1. \A c \in Cpu : /\ Typed(c, client[c], node[c], toClient[c], toNode[c])
                       /\ Thread(client[c], node[c], toClient[c], toNode[c])
    BY DEF UpdateInv, Connection
  <1>2. RunsTheServersVersion
    BY <1>1 DEF RunsTheServersVersion, Thread, OneThread, CarriesJob
  <1>3. GeneralKeepsJobs
    <2>1. General \in Cpu
      BY HostAssumption
    <2>2. JobCanEnd(client[General], node[General], toClient[General], toNode[General])
      BY <2>1 DEF UpdateInv, Connection, Updated
    <2>3. ASSUME node[General].job # NoJob
          PROVE  node[General].connected /\ Alive(General)
      <3>1. /\ node[General].connected
            /\ \/ client[General].running # NoVersion
               \/ ~None(toClient[General], Orders)
               \/ ~None(toNode[General], Replies)
        BY <2>2, <2>3 DEF JobCanEnd
      <3>2. ~None(toClient[General], Orders) =>
              \E i \in DOMAIN toClient[General] : toClient[General][i].id \in {"120", "121"}
        BY DEF None, ToSet, Orders
      <3>3. ~None(toNode[General], Replies) =>
              \E i \in DOMAIN toNode[General] : toNode[General][i].id # "110"
        BY Ids DEF None, ToSet
      <3> QED
        BY <3>1, <3>2, <3>3 DEF Alive
    <2> QED
      BY <2>3 DEF GeneralKeepsJobs, UpdateInv, Shared
  <1>4. UpdateTypeOK
    <2>1. ASSUME NEW c \in Cpu, NEW i \in DOMAIN toNode[c]
          PROVE  toNode[c][i] \in Message(toNode[c][i].id)
      <3>1. toNode[c][i] \in ClientMessage
        BY DEF UpdateInv
      <3> QED
        BY <3>1, Ids DEF ClientMessage, Message
    <2>2. ASSUME NEW c \in Cpu, NEW i \in DOMAIN toClient[c],
                 toClient[c][i].id \in {"111", "112"}
          PROVE  toClient[c][i].id = "111" <=> c = General
      <3>1. toClient[c][i] \in ToSet(toClient[c])
        BY DEF ToSet
      <3> QED
        BY <1>1, <2>2, <3>1 DEF Typed
    <2>3. \A c \in Cpu : node[c].upload # NoUpload => c = General
      BY <1>1 DEF Typed
    <2> QED
      BY <2>1, <2>2, <2>3 DEF UpdateTypeOK, UpdateInv, Shared, ClientState, NodeState, Upload
  <1> QED
    BY <1>2, <1>3, <1>4

\* Every connection carries one job at a time, and that of the general client
\* no update beside a job, in every state (src/server/node.cpp:410-1053, src/client/client.cpp:445-1001).
THEOREM ConnectionsCarryOneJob == UpdateSpec => []UpdateInv
  BY UpdateInitSafe, UpdateStep, PTL DEF UpdateSpec

\* Everything has its type, and only the general client is sent archives.
THEOREM UpdateTypesCorrect == UpdateSpec => []UpdateTypeOK
  BY ConnectionsCarryOneJob, UpdateInvImplies, PTL

\* A program that runs is the version whose sum came with its job's order,
\* however the package, the directory and the lists change meanwhile.
THEOREM ProgramsAreTheServers == UpdateSpec => []RunsTheServersVersion
  BY ConnectionsCarryOneJob, UpdateInvImplies, PTL

\* Updates take no job from the general node and never let its handlers look up
\* a module that is not there.
THEOREM GeneralJobsSurviveUpdates == UpdateSpec => []GeneralKeepsJobs
  BY ConnectionsCarryOneJob, UpdateInvImplies, PTL
=============================================================================
