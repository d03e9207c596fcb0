------------------------- MODULE FileTransferProofs -------------------------
(***************************************************************************)
(* Proofs about the file transfer.  While every file can be opened, the    *)
(* owners take turns and the connection stands, the protocol implements    *)
(* the queue of TransferQueue: TurnsInv is inductive, and every step is a  *)
(* step of the queue or changes nothing of it.  Whatever is missing,       *)
(* refused, stopped or lost, the types are kept, and while the owners take *)
(* turns DeliveryInv is inductive: a reported success is a file delivered, *)
(* and each transfer is reported once.                                     *)
(***************************************************************************)
EXTENDS FileTransfer, WellFoundedInduction, TLAPS

\* What the theorems assume of the constants.
Calm == Missing = {} /\ MaxLosses = 0 /\ Faults \subseteq {"clear", "differ"}

QueueStep == Queue!QueueNext \/ UNCHANGED Queue!queueVars

---------------------------------------------------------------------------
(* Data.                                                                   *)

\* A connection has two ends.
LEMMA Ends ==
    ASSUME NEW e \in End
    PROVE  /\ Peer(e) \in End /\ Peer(e) # e /\ Peer(Peer(e)) = e
           /\ \A x \in End : x = e \/ x = Peer(e)
  BY DEF End, Peer

\* A socket that has opened a file.
LEMMA StartedSocket ==
    ASSUME NEW s \in Socket, NEW f \in File
    PROVE  /\ Started(s, f) \in Socket
           /\ Started(s, f).busy
           /\ Started(s, f).name = Out(f)
           /\ Started(s, f).dev = Reading(f)
           /\ Started(s, f).queue = s.queue
  <1>1. Reading(f) \in Dev /\ Out(f) \in Name
    BY DEF Dev, Name, Reading, Out
  <1> QED
    BY <1>1 DEF Started, Socket

\* A socket with another queue.
LEMMA QueueReplaced ==
    ASSUME NEW s \in Socket, NEW q \in Seq(File)
    PROVE  LET t == [s EXCEPT !.queue = q]
           IN  /\ t \in Socket /\ t.queue = q /\ t.busy = s.busy
               /\ t.dev = s.dev /\ t.name = s.name /\ FileOf(t) = FileOf(s)
  BY DEF Socket, FileOf

\* An idle socket goes on with the first file of its queue.
LEMMA CheckedCalm ==
    ASSUME Missing = {}, NEW s \in Socket
    PROVE  /\ s.busy \/ s.queue = <<>> => Checked(s) = s
           /\ ~s.busy /\ s.queue # <<>> =>
                 /\ Checked(s).busy
                 /\ Checked(s).dev = Reading(Head(s.queue))
                 /\ Checked(s).name = Out(Head(s.queue))
                 /\ Checked(s).queue = Tail(s.queue)
                 /\ Checked(s) \in Socket
                 /\ Head(s.queue) \in File
  <1> SUFFICES ASSUME ~s.busy, s.queue # <<>>
               PROVE  /\ Checked(s).busy
                      /\ Checked(s).dev = Reading(Head(s.queue))
                      /\ Checked(s).name = Out(Head(s.queue))
                      /\ Checked(s).queue = Tail(s.queue)
                      /\ Checked(s) \in Socket
                      /\ Head(s.queue) \in File
    BY DEF Checked
  <1> DEFINE q == s.queue
  <1>1. q \in Seq(File) /\ Len(q) \in Nat /\ 1 \in 1..Len(q) /\ DOMAIN q = 1..Len(q)
    BY DEF Socket
  <1>2. Openable(q) = 1..Len(q)
    BY <1>1 DEF Openable
  <1>3. First(Openable(q)) = 1
    BY <1>1, <1>2 DEF First
  <1>4. q[1] = Head(q) /\ SubSeq(q, 1 + 1, Len(q)) = Tail(q) /\ Head(q) \in File
        /\ Tail(q) \in Seq(File)
    BY <1>1
  <1>5. Checked(s) = [Started(s, q[1]) EXCEPT !.queue = SubSeq(q, 1 + 1, Len(q))]
    BY <1>1, <1>2, <1>3 DEF Checked
  <1> HIDE DEF q
  <1>6. Checked(s) = [busy |-> TRUE, dev |-> Reading(Head(q)), name |-> Out(Head(q)),
                      queue |-> Tail(q)]
    BY <1>4, <1>5 DEF Started, Socket
  <1>7. Reading(Head(q)) \in Dev /\ Out(Head(q)) \in Name
    BY <1>4 DEF Dev, Name, Reading, Out
  <1> QED
    BY <1>4, <1>6, <1>7 DEF Socket, q

\* Two messages.
LEMMA PairJoined ==
    ASSUME NEW a, NEW b
    PROVE  <<a>> \o <<b>> = <<a, b>>
  <1> DEFINE M == {a, b}
             u == <<a>> \o <<b>>
             v == <<a, b>>
  <1>1. u \in Seq(M) /\ v \in Seq(M)
    OBVIOUS
  <1>2. Len(u) = 2 /\ Len(v) = 2
    OBVIOUS
  <1>3. u[1] = a /\ u[2] = b /\ v[1] = a /\ v[2] = b
    OBVIOUS
  <1>4. \A i \in 1..2 : u[i] = v[i]
    BY <1>3
  <1> HIDE DEF u, v
  <1>5. u = v
    BY <1>1, <1>2, <1>4
  <1> QED
    BY <1>5 DEF u, v

\* One more report.
LEMMA ReportAppended ==
    ASSUME NEW q \in Seq(Name \X BOOLEAN), NEW n \in Name, NEW ok \in BOOLEAN
    PROVE  /\ Append(q, <<n, ok>>) \in Seq(Name \X BOOLEAN)
           /\ Report(Append(q, <<n, ok>>)) = Append(Report(q), <<n[2], ok>>)
  <1> DEFINE X == { r[1][2] : r \in Name \X BOOLEAN } \X BOOLEAN
             r == Report(q)
             t == Append(q, <<n, ok>>)
  <1>1. t \in Seq(Name \X BOOLEAN) /\ Len(t) = Len(q) + 1 /\ t[Len(q) + 1] = <<n, ok>>
        /\ \A i \in 1..Len(q) : t[i] = q[i]
    OBVIOUS
  <1>2. \A i \in 1..Len(q) : r[i] = <<q[i][1][2], q[i][2]>> /\ r[i] \in X
    BY DEF Report
  <1>3. r = [i \in 1..Len(q) |-> r[i]]
    BY DEF Report
  <1>4. r \in Seq(X) /\ Len(r) = Len(q)
    BY <1>2, <1>3
  <1>5. Report(t) = [i \in 1..(Len(q) + 1) |-> <<t[i][1][2], t[i][2]>>]
    BY <1>1 DEF Report
  <1>6. Append(r, <<n[2], ok>>) = [i \in 1..(Len(q) + 1) |->
                                     IF i = Len(q) + 1 THEN <<n[2], ok>> ELSE r[i]]
    BY <1>4
  <1>7. ASSUME NEW i \in 1..(Len(q) + 1)
        PROVE  <<t[i][1][2], t[i][2]>> = IF i = Len(q) + 1 THEN <<n[2], ok>> ELSE r[i]
    BY <1>1, <1>2
  <1> HIDE DEF t, r
  <1> QED
    BY <1>1, <1>5, <1>6, <1>7 DEF t, r

---------------------------------------------------------------------------
(* States.                                                                 *)

\* An end whose turn it is rests, or is the one that sends.
LEMMA OneSender ==
    ASSUME TransferAssumption, TurnsInv, NEW e \in End, FileOf(sock[Peer(e)]) = NoFile
    PROVE  IF sock[e].busy THEN \E f \in File : Sending(e, f) ELSE Rest
  <1>1. ASSUME NEW x \in End, NEW f \in File, Sending(x, f)
        PROVE  x = e
    <2>1. FileOf(sock[x]) = f /\ f # NoFile
      BY <1>1 DEF Sending, FileOf, Out, TransferAssumption
    <2> QED
      BY <2>1, Ends
  <1> QED
    BY <1>1 DEF TurnsInv, Rest, Sending

\* The message that is under way in each phase.
LEMMA PhaseMessage ==
    ASSUME NEW x, NEW p, NEW f, NEW n \in 1..6, Phase(x, p, f, n)
    PROVE  /\ n = 1 => wire[x] = <<>> /\ Head(wire[p]).id = "request10"
           /\ n \in {2, 3} => wire[p] = <<>> /\ Head(wire[x]).id = "answer10"
           /\ n = 4 => wire[x] = <<>> /\ Head(wire[p]).id = "block"
           /\ n = 5 => wire[x] = <<>> /\ Head(wire[p]).id = "request11"
           /\ n = 6 => wire[p] = <<>> /\ Head(wire[x]).id = "answer11"
  <1>1. \A m1, m2 : Head(<<m1>>) = m1 /\ Head(<<m1, m2>>) = m1
    OBVIOUS
  <1>2. CASE n = 1
    BY <1>1, <1>2 DEF Phase, Request10
  <1>3. CASE n \in {2, 3}
    BY <1>1, <1>3 DEF Phase, Answer10
  <1>4. CASE n = 4
    <2>1. wire[x] = <<>> /\ \E sum \in {<<"whole", f>>, <<"other", NoFile>>} :
             wire[p] = <<Block(f), Request11(sum)>>
      BY <1>4 DEF Phase
    <2>2. Head(wire[p]) = Block(f)
      BY <1>1, <2>1
    <2> QED
      BY <1>4, <2>1, <2>2 DEF Block
  <1>5. CASE n = 5
    <2>1. wire[x] = <<>> /\ \E sum \in {<<"whole", f>>, <<"other", NoFile>>} :
             wire[p] = <<Request11(sum)>>
      BY <1>5 DEF Phase
    <2>2. \E sum : Head(wire[p]) = Request11(sum)
      BY <1>1, <2>1
    <2> QED
      BY <1>5, <2>1, <2>2 DEF Request11
  <1>6. CASE n = 6
    <2>1. wire[p] = <<>> /\ \E ok \in BOOLEAN : wire[x] = <<Answer11(ok)>>
      BY <1>6 DEF Phase
    <2>2. \E ok \in BOOLEAN : Head(wire[x]) = Answer11(ok)
      BY <1>1, <2>1
    <2> QED
      BY <1>6, <2>1, <2>2 DEF Answer11
  <1> QED
    BY <1>2, <1>3, <1>4, <1>5, <1>6

\* A message tells the phase of the transfer it belongs to.
LEMMA MessagePhase ==
    ASSUME TurnsInv, NEW e \in End, NEW id, Reads(e, id)
    PROVE  /\ id \in {"request10", "block", "request11"} =>
                 \E f \in File : /\ Sending(Peer(e), f)
                                 /\ \/ id = "request10" /\ Phase(Peer(e), e, f, 1)
                                    \/ id = "block" /\ Phase(Peer(e), e, f, 4)
                                    \/ id = "request11" /\ Phase(Peer(e), e, f, 5)
           /\ id \in {"answer10", "answer11"} =>
                 \E f \in File : /\ Sending(e, f)
                                 /\ \/ id = "answer10" /\ Phase(e, Peer(e), f, 2)
                                    \/ id = "answer10" /\ Phase(e, Peer(e), f, 3)
                                    \/ id = "answer11" /\ Phase(e, Peer(e), f, 6)
           /\ id # "close"
  <1>1. wire[e] # <<>> /\ Head(wire[e]).id = id
    BY DEF Reads
  <1>2. PICK x \in End, f \in File : Sending(x, f)
    BY <1>1 DEF TurnsInv, Rest
  <1>3. PICK n \in 1..6 : Phase(x, Peer(x), f, n)
    BY <1>2 DEF Sending
  <1>4. n \in {1, 2, 3, 4, 5, 6}
    OBVIOUS
  <1>5. CASE x = e
    <2>1. n \in {2, 3, 6} /\ (n \in {2, 3} => id = "answer10") /\ (n = 6 => id = "answer11")
      BY <1>1, <1>3, <1>4, <1>5, PhaseMessage
    <2> QED
      BY <1>2, <1>3, <1>5, <2>1
  <1>6. CASE x = Peer(e)
    <2>1. Peer(x) = e
      BY <1>6, Ends
    <2>2. /\ n \in {1, 4, 5}
          /\ n = 1 => id = "request10"
          /\ n = 4 => id = "block"
          /\ n = 5 => id = "request11"
      BY <1>1, <1>3, <1>4, <2>1, PhaseMessage
    <2> QED
      BY <1>2, <1>3, <1>6, <2>1, <2>2
  <1> QED
    BY <1>5, <1>6, Ends

\* What the queue sees of a step that changes one socket and no file or report.
LEMMA SocketStep ==
    ASSUME TurnsInv, NEW e \in End, NEW t \in Socket, sock' = [sock EXCEPT ![e] = t],
           UNCHANGED <<stored, told>>
    PROVE  /\ Current' = [Current EXCEPT ![e] = FileOf(t)]
           /\ Waiting' = [Waiting EXCEPT ![e] = t.queue]
           /\ UNCHANGED <<Arrived, Reports>>
           /\ Current[e] = FileOf(sock[e]) /\ Waiting[e] = sock[e].queue
           /\ sock' \in [End -> Socket]
  BY DEF TurnsInv, Current, Waiting, Arrived, Reports

\* What e writes arrives, behind what is under way.
LEMMA WrittenCalm ==
    ASSUME TurnsInv, NEW e \in End, NEW msgs
    PROVE  Written(e, msgs) = [wire EXCEPT ![Peer(e)] = @ \o msgs]
  BY Ends DEF TurnsInv, Written

---------------------------------------------------------------------------
(* The owners' calls.                                                      *)

\* A transfer starts while the other end has nothing to send.
LEMMA StartSafe ==
    ASSUME TurnsInv, NEW e \in End, ~sock[Peer(e)].busy, sock[Peer(e)].queue = <<>>,
           NEW f \in File, NEW t \in Socket,
           t.busy, t.name = Out(f), t.dev = Reading(f),
           sock' = [sock EXCEPT ![e] = t],
           wire' = [x \in End |-> IF x = e THEN <<>> ELSE <<Request10(f)>>],
           asked' \subseteq File,
           told' \in [End -> Seq(Name \X BOOLEAN)],
           UNCHANGED <<online, losses, stored>>
    PROVE  TurnsInv'
  <1>1. Sending(e, f)'
    <2>1. Phase(e, Peer(e), f, 1)'
      BY Ends DEF Phase, TurnsInv
    <2> QED
      BY <2>1, Ends DEF Sending, TurnsInv
  <1>2. sock' \in [End -> Socket] /\ DOMAIN wire' = End /\ wire' = [x \in End |-> wire'[x]]
    BY DEF TurnsInv
  <1> QED
    BY <1>1, <1>2 DEF TurnsInv

\* A call while a transfer is under way leaves it as it is.
LEMMA QueuedSafe ==
    ASSUME TurnsInv, NEW e \in End, NEW f \in File, Sending(e, f),
           NEW q \in Seq(File),
           sock' = [sock EXCEPT ![e] = [sock[e] EXCEPT !.queue = q]],
           asked' \subseteq File,
           UNCHANGED <<wire, online, losses, stored, told>>
    PROVE  TurnsInv'
  <1>1. /\ sock'[e] = [sock[e] EXCEPT !.queue = q]
        /\ sock'[Peer(e)] = sock[Peer(e)]
        /\ sock[e] \in Socket
    BY Ends DEF TurnsInv
  <1>2. sock' \in [End -> Socket]
    BY <1>1 DEF TurnsInv, Socket
  <1>3. /\ sock'[e].busy = sock[e].busy
        /\ sock'[e].dev = sock[e].dev
        /\ sock'[e].name = sock[e].name
    BY <1>1 DEF Socket
  <1>4. \A n \in 1..6 : Phase(e, Peer(e), f, n) => Phase(e, Peer(e), f, n)'
    BY <1>1, <1>3 DEF Phase
  <1>5. Sending(e, f)'
    BY <1>1, <1>3, <1>4 DEF Sending
  <1> QED
    BY <1>2, <1>5 DEF TurnsInv

\* sendFile of one file
LEMMA SendFileSafe ==
    ASSUME Calm, TransferAssumption, TurnsInv, NEW e \in End, NEW f \in File, SendFile(e, f)
    PROVE  TurnsInv' /\ QueueStep
  <1> DEFINE s == sock[e]
             t == Prepared(s, f)
  <1>1. /\ FileOf(sock[Peer(e)]) = NoFile /\ sock[Peer(e)].queue = <<>>
        /\ sock' = [sock EXCEPT ![e] = t]
        /\ wire' = [wire EXCEPT ![Peer(e)] = @ \o Opened(s, t)]
        /\ asked' \subseteq File
        /\ UNCHANGED <<online, losses, stored, told>>
    BY WrittenCalm DEF SendFile, Turn, Calm, TurnsInv
  <1>2. s \in Socket
    BY DEF TurnsInv
  <1>3. CASE s.busy
    <2>1. PICK g \in File : Sending(e, g)
      BY <1>1, <1>3, OneSender
    <2> DEFINE q == Append(s.queue, f)
    <2>2. t = [s EXCEPT !.queue = q] /\ q \in Seq(File) /\ t \in Socket
      BY <1>2, <1>3, SMTT(30) DEF Prepared, Socket
    <2>3. Opened(s, t) = <<>>
      BY <1>3 DEF Opened
    <2>4. UNCHANGED wire
      <3>1. Peer(e) \in End /\ wire[Peer(e)] \o <<>> = wire[Peer(e)]
        BY <2>1, Ends DEF Sending, Phase
      <3> QED
        BY <1>1, <2>3, <3>1 DEF TurnsInv
    <2>5. TurnsInv'
      BY <1>1, <2>1, <2>2, <2>4, QueuedSafe
    <2>6. FileOf(s) = g /\ FileOf(t) = g /\ t.queue = q /\ g # NoFile
      BY <1>2, <2>1, <2>2 DEF FileOf, Sending, Out, Socket, TransferAssumption
    <2> HIDE DEF t
    <2>7. /\ Current' = [Current EXCEPT ![e] = g] /\ Current[e] = g
          /\ Waiting' = [Waiting EXCEPT ![e] = q] /\ Waiting[e] = s.queue
          /\ UNCHANGED <<Arrived, Reports>>
      <3>1. /\ Current' = [Current EXCEPT ![e] = FileOf(t)] /\ Current[e] = FileOf(s)
            /\ Waiting' = [Waiting EXCEPT ![e] = t.queue] /\ Waiting[e] = s.queue
            /\ UNCHANGED <<Arrived, Reports>>
        BY <1>1, <2>2, SocketStep
      <3> QED
        BY <2>6, <3>1
    <2>8. Current' = Current
      BY <2>7 DEF Current
    <2>9. Queue!Ask(e, f)
      BY <2>6, <2>7, <2>8 DEF Queue!Ask
    <2> QED
      BY <2>5, <2>9 DEF QueueStep, Queue!QueueNext
  <1>4. CASE ~s.busy
    <2>1. Rest
      BY <1>1, <1>4, OneSender
    <2>2. t = Started(s, f)
      BY <1>4 DEF Prepared, Calm
    <2>3. /\ t.busy /\ t.name = Out(f) /\ t.dev = Reading(f) /\ t.queue = s.queue
          /\ t \in Socket
      BY <1>2, <2>2, StartedSocket
    <2>4. Opened(s, t) = <<Request10(f)>>
      BY <1>4, <2>3 DEF Opened, Out
    <2> HIDE DEF t
    <2>5. wire' = [x \in End |-> IF x = e THEN <<>> ELSE <<Request10(f)>>]
      <3>1. Peer(e) \in End /\ wire[Peer(e)] = <<>> /\ <<>> \o <<Request10(f)>> = <<Request10(f)>>
        BY <2>1, Ends DEF Rest
      <3>2. wire' = [wire EXCEPT ![Peer(e)] = <<Request10(f)>>]
        BY <1>1, <2>4, <3>1
      <3>3. DOMAIN wire = End /\ wire = [x \in End |-> wire[x]]
        BY DEF TurnsInv
      <3>4. wire[e] = <<>> /\ \A x \in End : x = e \/ x = Peer(e)
        BY <2>1, Ends DEF Rest
      <3> QED
        BY <3>1, <3>2, <3>3, <3>4, Ends
    <2>6. TurnsInv'
      <3>1. told' \in [End -> Seq(Name \X BOOLEAN)]
        BY <1>1 DEF TurnsInv
      <3> QED
        BY <1>1, <2>1, <2>3, <2>5, <3>1, Ends, StartSafe, ZenonT(60) DEF Rest
    <2>7. FileOf(t) = f /\ t.queue = s.queue
      BY <2>3 DEF FileOf, Out
    <2>8. Queue!Nothing
      BY <2>1 DEF Queue!Nothing, Current, FileOf, Rest
    <2>9. Waiting' = Waiting
      BY <1>1, <2>3, <2>7, SocketStep DEF Waiting
    <2>10. Queue!Ask(e, f)
      BY <1>1, <2>3, <2>7, <2>8, <2>9, SocketStep DEF Queue!Ask
    <2> QED
      BY <2>6, <2>10 DEF QueueStep, Queue!QueueNext
  <1> QED
    BY <1>3, <1>4

\* sendFile of a list
LEMMA SendFilesSafe ==
    ASSUME Calm, TransferAssumption, TurnsInv, NEW e \in End, NEW f \in File, NEW g \in File,
           SendFiles(e, f, g)
    PROVE  TurnsInv' /\ QueueStep
  <1> DEFINE all == sock[e].queue \o <<f, g>>
             s == [sock[e] EXCEPT !.queue = all]
             t == Checked(s)
  <1>1. /\ FileOf(sock[Peer(e)]) = NoFile /\ sock[Peer(e)].queue = <<>>
        /\ sock' = [sock EXCEPT ![e] = t]
        /\ wire' = [wire EXCEPT ![Peer(e)] = @ \o Opened(s, t)]
        /\ asked' \subseteq File
        /\ UNCHANGED <<online, losses, stored, told>>
    BY WrittenCalm DEF SendFiles, Turn, Calm, TurnsInv
  <1>2. /\ sock[e] \in Socket
        /\ all \in Seq(File) /\ all # <<>>
    BY DEF TurnsInv, Socket
  <1>3. s \in Socket /\ s.busy = sock[e].busy /\ s.queue = all /\ FileOf(s) = FileOf(sock[e])
    BY <1>2 DEF Socket, FileOf
  <1>4. CASE sock[e].busy
    <2>1. PICK h \in File : Sending(e, h)
      BY <1>1, <1>4, OneSender
    <2>2. t = s
      BY <1>3, <1>4, CheckedCalm DEF Calm
    <2>3. UNCHANGED wire
      <3>1. Peer(e) \in End /\ wire[Peer(e)] \o <<>> = wire[Peer(e)]
        BY <2>1, Ends DEF Sending, Phase
      <3> QED
        BY <1>1, <1>3, <1>4, <2>2, <3>1 DEF TurnsInv, Opened
    <2> HIDE DEF all
    <2>4. TurnsInv'
      BY <1>1, <1>2, <2>1, <2>2, <2>3, QueuedSafe
    <2>5. FileOf(sock[e]) = h /\ h # NoFile
      BY <1>2, <2>1 DEF FileOf, Sending, Out, Socket, TransferAssumption
    <2> HIDE DEF s, t
    <2>6. /\ Current' = [Current EXCEPT ![e] = h] /\ Current[e] = h
          /\ Waiting' = [Waiting EXCEPT ![e] = all] /\ Waiting[e] = sock[e].queue
          /\ UNCHANGED <<Arrived, Reports>>
      <3>1. /\ Current' = [Current EXCEPT ![e] = FileOf(t)] /\ Current[e] = FileOf(sock[e])
            /\ Waiting' = [Waiting EXCEPT ![e] = t.queue] /\ Waiting[e] = sock[e].queue
            /\ UNCHANGED <<Arrived, Reports>>
        BY <1>1, <1>3, <2>2, SocketStep
      <3> QED
        BY <1>3, <2>2, <2>5, <3>1
    <2>7. Current' = Current
      BY <2>6 DEF Current
    <2>8. Queue!AskAll(e, f, g)
      BY <2>5, <2>6, <2>7 DEF Queue!AskAll, all
    <2> QED
      BY <2>4, <2>8 DEF QueueStep, Queue!QueueNext
  <1>5. CASE ~sock[e].busy
    <2>1. Rest
      BY <1>1, <1>5, OneSender
    <2> HIDE DEF all
    <2>2. /\ t.busy /\ t.name = Out(Head(all)) /\ t.dev = Reading(Head(all))
          /\ t.queue = Tail(all) /\ t \in Socket /\ Head(all) \in File
      BY <1>2, <1>3, <1>5, CheckedCalm DEF Calm
    <2> HIDE DEF s, t
    <2>3. Opened(s, t) = <<Request10(Head(all))>>
      <3>1. ~s.busy /\ t.busy /\ t.name[2] = Head(all)
        BY <1>3, <1>5, <2>2 DEF Out
      <3> QED
        BY <3>1 DEF Opened
    <2>4. wire' = [x \in End |-> IF x = e THEN <<>> ELSE <<Request10(Head(all))>>]
      <3>1. Peer(e) \in End /\ wire[Peer(e)] = <<>>
            /\ <<>> \o <<Request10(Head(all))>> = <<Request10(Head(all))>>
        BY <2>1, Ends DEF Rest
      <3>2. wire' = [wire EXCEPT ![Peer(e)] = <<Request10(Head(all))>>]
        BY <1>1, <2>3, <3>1
      <3>3. DOMAIN wire = End /\ wire = [x \in End |-> wire[x]]
        BY DEF TurnsInv
      <3>4. wire[e] = <<>> /\ \A x \in End : x = e \/ x = Peer(e)
        BY <2>1, Ends DEF Rest
      <3> QED
        BY <3>1, <3>2, <3>3, <3>4, Ends
    <2>5. TurnsInv'
      <3>1. told' \in [End -> Seq(Name \X BOOLEAN)]
        BY <1>1 DEF TurnsInv
      <3> QED
        BY <1>1, <2>1, <2>2, <2>4, <3>1, Ends, StartSafe, ZenonT(60) DEF Rest
    <2>6. FileOf(t) = Head(all)
      BY <2>2 DEF FileOf, Out
    <2>7. Queue!Nothing
      BY <2>1 DEF Queue!Nothing, Current, FileOf, Rest
    <2>8. /\ Current' = [Current EXCEPT ![e] = Head(all)]
          /\ Waiting' = [Waiting EXCEPT ![e] = Tail(all)] /\ Waiting[e] = sock[e].queue
          /\ UNCHANGED <<Arrived, Reports>>
      <3>1. /\ Current' = [Current EXCEPT ![e] = FileOf(t)]
            /\ Waiting' = [Waiting EXCEPT ![e] = t.queue] /\ Waiting[e] = sock[e].queue
            /\ UNCHANGED <<Arrived, Reports>>
        BY <1>1, <2>2, SocketStep
      <3> QED
        BY <2>2, <2>6, <3>1
    <2>9. Queue!AskAll(e, f, g)
      BY <2>7, <2>8 DEF Queue!AskAll, all
    <2> QED
      BY <2>5, <2>9 DEF QueueStep, Queue!QueueNext
  <1> QED
    BY <1>4, <1>5

\* Forgetting the queue of the server's end.
LEMMA ClearSafe ==
    ASSUME TurnsInv, ClearFilesQueue
    PROVE  TurnsInv' /\ QueueStep
  <1> DEFINE e == "server"
             t == [sock[e] EXCEPT !.queue = <<>>]
  <1>1. /\ e \in End /\ sock[e] \in Socket
        /\ sock' = [sock EXCEPT ![e] = t]
        /\ UNCHANGED <<wire, online, losses, stored, asked, told>>
    BY DEF ClearFilesQueue, TurnsInv, End
  <1>2. /\ t \in Socket /\ t.queue = <<>> /\ t.busy = sock[e].busy
        /\ t.dev = sock[e].dev /\ t.name = sock[e].name /\ FileOf(t) = FileOf(sock[e])
    <2>1. <<>> \in Seq(File)
      OBVIOUS
    <2>2. \A s \in Socket, q \in Seq(File) :
            LET u == [s EXCEPT !.queue = q]
            IN  /\ u \in Socket /\ u.queue = q /\ u.busy = s.busy
                /\ u.dev = s.dev /\ u.name = s.name /\ FileOf(u) = FileOf(s)
      BY QueueReplaced
    <2> QED
      BY <1>1, <2>1, <2>2, Zenon
  <1> HIDE DEF t
  <1>3. \A x \in End : /\ sock'[x].busy = sock[x].busy
                       /\ sock'[x].dev = sock[x].dev
                       /\ sock'[x].name = sock[x].name
                       /\ sock[x].queue = <<>> => sock'[x].queue = <<>>
    BY <1>1, <1>2 DEF TurnsInv
  <1>4. Rest => Rest'
    BY <1>1, <1>3 DEF Rest
  <1>5. ASSUME NEW x \in End, NEW f \in File, Sending(x, f)
        PROVE  Sending(x, f)'
    <2>1. Peer(x) \in End
      BY Ends
    <2>2. \A n \in 1..6 : Phase(x, Peer(x), f, n) => Phase(x, Peer(x), f, n)'
      BY <1>1, <1>3, <2>1 DEF Phase
    <2> QED
      BY <1>3, <1>5, <2>1, <2>2 DEF Sending
  <1>6. sock' \in [End -> Socket]
    BY <1>1, <1>2 DEF TurnsInv
  <1>7. TurnsInv'
    BY <1>1, <1>4, <1>5, <1>6 DEF TurnsInv
  <1>8. /\ Current' = [Current EXCEPT ![e] = FileOf(t)] /\ Current[e] = FileOf(sock[e])
        /\ Waiting' = [Waiting EXCEPT ![e] = t.queue]
        /\ UNCHANGED <<Arrived, Reports>>
    BY <1>1, <1>2, SocketStep
  <1>9. Current' = Current
    BY <1>2, <1>8 DEF Current
  <1>10. Queue!Clear(e)
    BY <1>2, <1>8, <1>9 DEF Queue!Clear
  <1> QED
    BY <1>1, <1>7, <1>10 DEF QueueStep, Queue!QueueNext

---------------------------------------------------------------------------
(* Messages.                                                               *)

\* What a handler leaves on both wires.
LEMMA HandledWire ==
    ASSUME TurnsInv, NEW e \in End, NEW s, NEW t, NEW msgs, Handled(e, s, t, msgs)
    PROVE  /\ sock' = [sock EXCEPT ![e] = t]
           /\ wire' = [x \in End |-> IF x = e THEN Tail(wire[e])
                                     ELSE wire[x] \o (msgs \o Opened(s, t))]
           /\ UNCHANGED <<online, losses>>
  <1> DEFINE more == msgs \o Opened(s, t)
             w == [x \in End |-> IF x = e THEN Tail(wire[e])
                                 ELSE IF x = Peer(e) THEN wire[x] \o more ELSE wire[x]]
  <1>1. /\ wire' = [Written(e, more) EXCEPT ![e] = Tail(@)]
        /\ sock' = [sock EXCEPT ![e] = t]
        /\ UNCHANGED <<online, losses>>
    BY DEF Handled
  <1> HIDE DEF more
  <1>2. Written(e, more) = [wire EXCEPT ![Peer(e)] = @ \o more]
    BY WrittenCalm
  <1>3. DOMAIN wire = End /\ e \in End /\ Peer(e) \in End /\ e # Peer(e)
    BY Ends DEF TurnsInv
  <1>4. [[wire EXCEPT ![Peer(e)] = @ \o more] EXCEPT ![e] = Tail(@)] = w
    BY <1>3
  <1>5. w = [x \in End |-> IF x = e THEN Tail(wire[e]) ELSE wire[x] \o more]
    BY <1>3, Ends
  <1> QED
    BY <1>1, <1>2, <1>4, <1>5 DEF more

\* The receiver's step keeps the transfer, in its next phase.
LEMMA ReceiverSafe ==
    ASSUME TransferAssumption, TurnsInv, NEW e \in End, NEW f \in File, Sending(Peer(e), f),
           NEW t \in Socket, sock' = [sock EXCEPT ![e] = t], t.queue = <<>>,
           DOMAIN wire' = End, wire' = [x \in End |-> wire'[x]],
           UNCHANGED <<online, losses, asked, told>>,
           NEW v \in Content, stored' = [stored EXCEPT ![e][f] = v],
           \E n \in 1..6 : Phase(Peer(e), e, f, n)',
           FileOf(t) = NoFile, FileOf(sock[e]) = NoFile
    PROVE  TurnsInv' /\ QueueStep
  <1> DEFINE x == Peer(e)
  <1>1. x \in End /\ x # e /\ Peer(x) = e /\ \A y \in End : y = x \/ y = e
    BY Ends
  <1>2. sock'[x] = sock[x] /\ sock'[e] = t /\ sock' \in [End -> Socket]
    BY <1>1 DEF TurnsInv
  <1>3. Sending(x, f)'
    BY <1>1, <1>2 DEF Sending
  <1>4. stored' \in [End -> [File -> Content]]
    BY DEF TurnsInv
  <1>5. TurnsInv'
    BY <1>1, <1>2, <1>3, <1>4 DEF TurnsInv
  <1>6. Current' = Current /\ Waiting' = Waiting /\ Reports' = Reports
    <2>1. sock[e].queue = <<>>
      BY <1>1 DEF Sending
    <2>2. \A y \in End : FileOf(sock'[y]) = FileOf(sock[y]) /\ sock'[y].queue = sock[y].queue
      BY <1>1, <1>2, <2>1
    <2> QED
      BY <2>2 DEF Current, Waiting, Reports
  <1>7. Current[x] = f
    <2>1. sock[x].busy /\ sock[x].name[1] = "out" /\ sock[x].name[2] = f
      BY <1>1 DEF Sending, Out
    <2> QED
      BY <1>1, <2>1 DEF Current, FileOf
  <1>8. Arrived' = [Arrived EXCEPT ![x] = IF v = "whole" THEN @ \union {f} ELSE @ \ {f}]
    <2>1. \A g \in File : stored'[e][g] = IF g = f THEN v ELSE stored[e][g]
      BY DEF TurnsInv
    <2>2. stored'[x] = stored[x]
      BY <1>1 DEF TurnsInv
    <2>3. Arrived'[x] = IF v = "whole" THEN Arrived[x] \union {f} ELSE Arrived[x] \ {f}
      BY <1>1, <2>1 DEF Arrived
    <2>4. Arrived'[e] = Arrived[e]
      BY <1>1, <2>2 DEF Arrived
    <2>5. /\ Arrived = [y \in End |-> Arrived[y]]
          /\ Arrived' = [y \in End |-> Arrived'[y]]
      BY DEF Arrived
    <2> QED
      BY <1>1, <2>3, <2>4, <2>5
  <1> HIDE DEF x
  <1>9. CASE v = "whole"
    <2>1. Queue!Arrive(x)
      BY <1>6, <1>7, <1>8, <1>9 DEF Queue!Arrive, TransferAssumption
    <2> QED
      BY <1>1, <1>5, <2>1 DEF QueueStep, Queue!QueueNext
  <1>10. CASE v # "whole"
    <2>1. Queue!Arrive(x)
      BY <1>6, <1>7, <1>8, <1>10 DEF Queue!Arrive, TransferAssumption
    <2> QED
      BY <1>1, <1>5, <2>1 DEF QueueStep, Queue!QueueNext
  <1> QED
    BY <1>9, <1>10

\* What a handler leaves on the wires when it takes the only message and
\* answers one, or none and opens no file.
LEMMA AnsweredWire ==
    ASSUME TurnsInv, NEW e \in End, NEW s, NEW t, NEW msgs, Handled(e, s, t, msgs),
           s.busy \/ ~t.busy,
           NEW m, wire[e] = <<m>>, wire[Peer(e)] = <<>>,
           msgs = <<>> \/ (\E a : msgs = <<a>>) \/ (\E a, b : msgs = <<a, b>>)
    PROVE  /\ sock' = [sock EXCEPT ![e] = t]
           /\ wire'[e] = <<>> /\ wire'[Peer(e)] = msgs
           /\ wire' = [x \in End |-> IF x = e THEN <<>> ELSE msgs]
           /\ DOMAIN wire' = End /\ wire' = [x \in End |-> wire'[x]]
           /\ UNCHANGED <<online, losses>>
  <1>1. /\ sock' = [sock EXCEPT ![e] = t]
        /\ wire' = [x \in End |-> IF x = e THEN Tail(wire[e])
                                  ELSE wire[x] \o (msgs \o Opened(s, t))]
        /\ UNCHANGED <<online, losses>>
    BY HandledWire
  <1>2. Tail(wire[e]) = <<>>
    OBVIOUS
  <1>3. Opened(s, t) = <<>>
    BY DEF Opened
  <1>4. <<>> \o (msgs \o <<>>) = msgs
    OBVIOUS
  <1>5. \A x \in End : x # e => wire[x] \o (msgs \o Opened(s, t)) = msgs
    BY <1>3, <1>4, Ends
  <1>6. wire' = [x \in End |-> IF x = e THEN <<>> ELSE msgs]
    BY <1>1, <1>2, <1>5
  <1> QED
    BY <1>1, <1>6, Ends

\* Request 10: the file is opened for writing, or refused.
LEMMA ReceiveFileRequestSafe ==
    ASSUME Calm, TransferAssumption, TurnsInv, NEW e \in End, ReceiveFileRequest(e)
    PROVE  TurnsInv' /\ QueueStep
  <1> DEFINE x == Peer(e)
  <1>1. PICK f \in File : Sending(x, f) /\ Phase(x, e, f, 1)
    BY MessagePhase DEF ReceiveFileRequest
  <1>2. x \in End /\ x # e /\ Peer(x) = e
    BY Ends
  <1>3. /\ wire[e] = <<Request10(f)>> /\ wire[x] = <<>>
        /\ sock[x].dev = Reading(f) /\ ~sock[e].busy
    BY <1>1 DEF Phase
  <1>4. Head(wire[e]).file = f
    BY <1>3 DEF Request10
  <1>5. sock[e] \in Socket /\ sock[e].queue = <<>> /\ FileOf(sock[e]) = NoFile
    BY <1>1, <1>2, <1>3 DEF Sending, FileOf, TurnsInv
  <1> DEFINE s == [sock[e] EXCEPT !.busy = TRUE, !.dev = Writing(f), !.name = In(f)]
             refused == [s EXCEPT !.busy = FALSE, !.dev = NoDev]
  <1>6. /\ s \in Socket /\ s.busy /\ s.dev = Writing(f) /\ s.name = In(f) /\ s.queue = <<>>
        /\ FileOf(s) = NoFile
    <2>1. Writing(f) \in Dev /\ In(f) \in Name
      BY DEF Writing, In, Dev, Name
    <2> QED
      BY <1>5, <2>1 DEF Socket, FileOf, In
  <1>7. CASE f \in Refused
    <2>1. /\ refused \in Socket /\ ~refused.busy /\ refused.queue = <<>>
          /\ FileOf(refused) = NoFile
      <3>1. NoDev \in Dev
        BY DEF Dev
      <3> HIDE DEF s
      <3> QED
        BY <1>6, <3>1 DEF Socket, FileOf
    <2>2. Checked(refused) = refused
      BY <2>1, CheckedCalm DEF Calm
    <2>3. Handled(e, refused, refused, <<Answer10(FALSE)>>) /\ UNCHANGED <<stored, asked, told>>
      BY <1>4, <1>7, <2>2 DEF ReceiveFileRequest
    <2> HIDE DEF s, refused
    <2>4. /\ sock' = [sock EXCEPT ![e] = refused]
          /\ wire'[e] = <<>> /\ wire'[x] = <<Answer10(FALSE)>>
          /\ DOMAIN wire' = End /\ wire' = [y \in End |-> wire'[y]]
          /\ UNCHANGED <<online, losses>>
      <3> DEFINE a == Answer10(FALSE)
      <3>1. Handled(e, refused, refused, <<a>>) /\ wire[e] = <<Request10(f)>> /\ wire[x] = <<>>
        BY <1>3, <2>3
      <3> HIDE DEF a
      <3>2. /\ sock' = [sock EXCEPT ![e] = refused]
            /\ wire'[e] = <<>> /\ wire'[x] = <<a>>
            /\ DOMAIN wire' = End /\ wire' = [y \in End |-> wire'[y]]
            /\ UNCHANGED <<online, losses>>
        BY <3>1, AnsweredWire
      <3> QED
        BY <3>2 DEF a
    <2>5. sock'[x].dev = Reading(f) /\ ~sock'[e].busy
      BY <1>2, <1>3, <2>1, <2>4 DEF TurnsInv
    <2>6. \E n \in 1..6 : Phase(x, e, f, n)'
      <3>1. Phase(x, e, f, 2)'
        BY <2>4, <2>5 DEF Phase
      <3> QED
        BY <3>1
    <2>7. stored[e][f] \in Content /\ stored' = [stored EXCEPT ![e][f] = stored[e][f]]
      BY <2>3 DEF TurnsInv
    <2>8. PICK v \in Content : stored' = [stored EXCEPT ![e][f] = v]
      BY <2>7
    <2>9. UNCHANGED <<asked, told>>
      BY <2>3
    <2> QED
      BY <1>1, <1>5, <2>1, <2>4, <2>6, <2>8, <2>9, ReceiverSafe
  <1>8. CASE f \notin Refused
    <2>1. Handled(e, s, s, <<Answer10(TRUE)>>) /\ UNCHANGED <<asked, told>>
          /\ stored' = [stored EXCEPT ![e][f] = "empty"]
      BY <1>4, <1>8 DEF ReceiveFileRequest
    <2> HIDE DEF s
    <2>2. /\ sock' = [sock EXCEPT ![e] = s]
          /\ wire'[e] = <<>> /\ wire'[x] = <<Answer10(TRUE)>>
          /\ DOMAIN wire' = End /\ wire' = [y \in End |-> wire'[y]]
          /\ UNCHANGED <<online, losses>>
      <3> DEFINE a == Answer10(TRUE)
      <3>1. Handled(e, s, s, <<a>>) /\ wire[e] = <<Request10(f)>> /\ wire[x] = <<>>
        BY <1>3, <2>1
      <3> HIDE DEF a
      <3>2. /\ sock' = [sock EXCEPT ![e] = s]
            /\ wire'[e] = <<>> /\ wire'[x] = <<a>>
            /\ DOMAIN wire' = End /\ wire' = [y \in End |-> wire'[y]]
            /\ UNCHANGED <<online, losses>>
        BY <3>1, AnsweredWire
      <3> QED
        BY <3>2 DEF a
    <2>3. /\ sock'[x].dev = Reading(f)
          /\ sock'[e].busy /\ sock'[e].dev = Writing(f) /\ sock'[e].name = In(f)
      BY <1>2, <1>3, <1>6, <2>2 DEF TurnsInv
    <2>4. stored'[e][f] = "empty"
      BY <2>1 DEF TurnsInv
    <2>5. \E n \in 1..6 : Phase(x, e, f, n)'
      <3>1. Phase(x, e, f, 3)'
        BY <2>2, <2>3, <2>4 DEF Phase
      <3> QED
        BY <3>1
    <2>6. "empty" \in Content
      BY DEF Content
    <2> QED
      BY <1>1, <1>5, <1>6, <2>1, <2>2, <2>5, <2>6, ReceiverSafe
  <1> QED
    BY <1>7, <1>8

\* The blocks: the file is whole.
LEMMA ReceiveBlockSafe ==
    ASSUME TransferAssumption, TurnsInv, NEW e \in End, ReceiveBlock(e)
    PROVE  TurnsInv' /\ QueueStep
  <1> DEFINE x == Peer(e)
  <1>1. PICK f \in File : Sending(x, f) /\ Phase(x, e, f, 4)
    BY MessagePhase DEF ReceiveBlock
  <1>2. x \in End /\ x # e /\ Peer(x) = e
    BY Ends
  <1>3. PICK sum \in {<<"whole", f>>, <<"other", NoFile>>} :
            wire[e] = <<Block(f), Request11(sum)>>
    BY <1>1 DEF Phase
  <1>4. /\ wire[x] = <<>> /\ sock[e].busy /\ sock[e].dev = Writing(f)
        /\ sock[e].name = In(f) /\ stored[e][f] = "empty"
    BY <1>1 DEF Phase
  <1>5. Head(wire[e]).file = f /\ Tail(wire[e]) = <<Request11(sum)>>
    BY <1>3 DEF Block
  <1>6. sock[e] \in Socket /\ sock[e].queue = <<>> /\ FileOf(sock[e]) = NoFile
    BY <1>1, <1>2, <1>4 DEF Sending, FileOf, TurnsInv, In
  <1>7. /\ Handled(e, sock[e], sock[e], <<>>) /\ UNCHANGED <<asked, told>>
        /\ stored' = [stored EXCEPT ![e][f] = "whole"]
    <2>1. sock[e].dev[1] = "write" /\ sock[e].dev[2] = f
      BY <1>4 DEF Writing
    <2>2. stored' = [stored EXCEPT ![e][f] = IF f = f /\ @ = "empty" THEN "whole" ELSE "other"]
      BY <1>5, <2>1 DEF ReceiveBlock
    <2>3. stored' = [stored EXCEPT ![e][f] = "whole"]
      BY <1>4, <2>2 DEF TurnsInv
    <2> QED
      BY <2>3 DEF ReceiveBlock
  <1>8. /\ sock' = [sock EXCEPT ![e] = sock[e]]
        /\ wire'[e] = <<Request11(sum)>> /\ wire'[x] = <<>>
        /\ DOMAIN wire' = End /\ wire' = [y \in End |-> wire'[y]]
        /\ UNCHANGED <<online, losses>>
    <2>1. Opened(sock[e], sock[e]) = <<>>
      BY <1>4 DEF Opened
    <2>2. /\ sock' = [sock EXCEPT ![e] = sock[e]]
          /\ wire' = [y \in End |-> IF y = e THEN Tail(wire[e])
                                    ELSE wire[y] \o (<<>> \o Opened(sock[e], sock[e]))]
          /\ UNCHANGED <<online, losses>>
      BY <1>7, HandledWire
    <2>3. wire[x] \o (<<>> \o <<>>) = <<>>
      BY <1>4
    <2>4. wire'[e] = Tail(wire[e])
          /\ wire'[x] = wire[x] \o (<<>> \o Opened(sock[e], sock[e]))
          /\ DOMAIN wire' = End /\ wire' = [y \in End |-> wire'[y]]
      BY <1>2, <2>2
    <2> QED
      BY <1>5, <2>1, <2>2, <2>3, <2>4
  <1>9. sock' = sock
    BY <1>8 DEF TurnsInv
  <1>10. stored'[e][f] = "whole"
    BY <1>7 DEF TurnsInv
  <1>11. \E n \in 1..6 : Phase(x, e, f, n)'
    <2>1. Phase(x, e, f, 5)'
      BY <1>4, <1>8, <1>9, <1>10 DEF Phase
    <2> QED
      BY <2>1
  <1>12. "whole" \in Content
    BY DEF Content
  <1> QED
    BY <1>1, <1>6, <1>7, <1>8, <1>11, <1>12, ReceiverSafe

\* Request 11: a file whose sum differs is removed.
LEMMA ReceiveFileDoneSafe ==
    ASSUME Calm, TransferAssumption, TurnsInv, NEW e \in End, ReceiveFileDone(e)
    PROVE  TurnsInv' /\ QueueStep
  <1> DEFINE x == Peer(e)
             closed == Dropped(sock[e])
             same == Same(e, Head(wire[e]).sum)
             v == IF same THEN "whole" ELSE "none"
  <1>1. PICK f \in File : Sending(x, f) /\ Phase(x, e, f, 5)
    BY MessagePhase DEF ReceiveFileDone
  <1>2. x \in End /\ x # e /\ Peer(x) = e
    BY Ends
  <1>3. PICK sum \in {<<"whole", f>>, <<"other", NoFile>>} : wire[e] = <<Request11(sum)>>
    BY <1>1 DEF Phase
  <1>4. wire[x] = <<>> /\ sock[e].busy /\ sock[e].name = In(f) /\ stored[e][f] = "whole"
    BY <1>1 DEF Phase
  <1>5. sock[e] \in Socket /\ sock[e].queue = <<>> /\ FileOf(sock[e]) = NoFile
    BY <1>1, <1>2, <1>4 DEF Sending, FileOf, TurnsInv, In
  <1>6. closed \in Socket /\ ~closed.busy /\ closed.queue = <<>> /\ FileOf(closed) = NoFile
    <2>1. NoDev \in Dev /\ NoName \in Name
      BY DEF Dev, Name
    <2> QED
      BY <1>5, <2>1 DEF Dropped, Socket, FileOf
  <1>7. Checked(closed) = closed
    BY <1>6, CheckedCalm DEF Calm
  <1>8. same \in BOOLEAN
    BY DEF Same
  <1>9. /\ Handled(e, closed, closed, <<Answer11(same)>>) /\ UNCHANGED <<asked, told>>
        /\ stored' = [stored EXCEPT ![e][f] = v]
    <2>1. sock[e].name[1] = "in" /\ sock[e].name[2] = f
      BY <1>4 DEF In
    <2>2. stored' = IF ~same THEN [stored EXCEPT ![e][f] = "none"] ELSE stored
      BY <2>1 DEF ReceiveFileDone
    <2>3. stored = [stored EXCEPT ![e][f] = "whole"]
      BY <1>4 DEF TurnsInv
    <2> QED
      BY <1>7, <2>2, <2>3 DEF ReceiveFileDone
  <1> HIDE DEF closed, same
  <1>10. /\ sock' = [sock EXCEPT ![e] = closed]
         /\ wire'[e] = <<>> /\ wire'[x] = <<Answer11(same)>>
         /\ DOMAIN wire' = End /\ wire' = [y \in End |-> wire'[y]]
         /\ UNCHANGED <<online, losses>>
    BY <1>3, <1>4, <1>6, <1>9, AnsweredWire
  <1>11. ~sock'[e].busy
    BY <1>6, <1>10 DEF TurnsInv
  <1>12. stored'[e][f] = v /\ v \in Content
    BY <1>9 DEF TurnsInv, Content
  <1>13. \E n \in 1..6 : Phase(x, e, f, n)'
    <2>1. Phase(x, e, f, 6)'
      BY <1>8, <1>10, <1>11, <1>12 DEF Phase
    <2> QED
      BY <2>1
  <1> HIDE DEF v
  <1> QED
    BY <1>1, <1>5, <1>6, <1>9, <1>10, <1>12, <1>13, ReceiverSafe

\* What the sender's handlers leave on the wires when a transfer ends.
LEMMA FollowWire ==
    ASSUME TurnsInv, NEW e \in End, NEW s, NEW t, Handled(e, s, t, <<>>), ~s.busy,
           NEW m, wire[e] = <<m>>, wire[Peer(e)] = <<>>
    PROVE  /\ sock' = [sock EXCEPT ![e] = t]
           /\ ~t.busy => wire' = [x \in End |-> <<>>]
           /\ \A g : t.busy /\ t.name = Out(g) =>
                wire' = [x \in End |-> IF x = e THEN <<>> ELSE <<Request10(g)>>]
           /\ UNCHANGED <<online, losses>>
  <1>1. /\ sock' = [sock EXCEPT ![e] = t]
        /\ wire' = [x \in End |-> IF x = e THEN Tail(wire[e])
                                  ELSE wire[x] \o (<<>> \o Opened(s, t))]
        /\ UNCHANGED <<online, losses>>
    BY HandledWire
  <1>2. Tail(wire[e]) = <<>>
    OBVIOUS
  <1>3. ASSUME ~t.busy
        PROVE  wire' = [x \in End |-> <<>>]
    <2>1. Opened(s, t) = <<>>
      BY <1>3 DEF Opened
    <2>2. <<>> \o (<<>> \o <<>>) = <<>>
      OBVIOUS
    <2>3. \A x \in End : x # e => wire[x] \o (<<>> \o Opened(s, t)) = <<>>
      BY <2>1, <2>2, Ends
    <2> QED
      BY <1>1, <1>2, <2>3
  <1>4. ASSUME NEW g, t.busy, t.name = Out(g)
        PROVE  wire' = [x \in End |-> IF x = e THEN <<>> ELSE <<Request10(g)>>]
    <2>1. t.name[2] = g
      BY <1>4 DEF Out
    <2>2. Opened(s, t) = <<Request10(g)>>
      BY <1>4, <2>1 DEF Opened
    <2>3. <<>> \o (<<>> \o <<Request10(g)>>) = <<Request10(g)>>
      OBVIOUS
    <2>4. \A x \in End : x # e => wire[x] \o (<<>> \o Opened(s, t)) = <<Request10(g)>>
      BY <2>2, <2>3, Ends
    <2> QED
      BY <1>1, <1>2, <2>4
  <1> QED
    BY <1>1, <1>3, <1>4

\* A transfer ends: the socket rests, or goes on with another file.
LEMMA FinishSafe ==
    ASSUME TransferAssumption, TurnsInv, NEW e \in End, NEW f \in File, Sending(e, f),
           ~sock[Peer(e)].busy, NEW m, wire[e] = <<m>>, wire[Peer(e)] = <<>>,
           NEW s, ~s.busy, NEW t \in Socket, Handled(e, s, t, <<>>),
           NEW ok \in BOOLEAN, ok => stored[Peer(e)][f] = "whole", Tell(e, ok),
           asked' \subseteq File, UNCHANGED stored,
           \/ ~t.busy /\ t.queue = sock[e].queue /\ (t.queue = <<>> \/ ~ok)
           \/ \E g \in File :
                 /\ t.busy /\ t.name = Out(g) /\ t.dev = Reading(g)
                 /\ \/ sock[e].queue # <<>> /\ g = Head(sock[e].queue)
                                            /\ t.queue = Tail(sock[e].queue)
                    \/ ~ok /\ t.queue = sock[e].queue
    PROVE  TurnsInv' /\ QueueStep
  <1> DEFINE p == Peer(e)
  <1>1. p \in End /\ p # e /\ \A x \in End : x = e \/ x = p
    BY Ends
  <1>2. /\ sock' = [sock EXCEPT ![e] = t]
        /\ ~t.busy => wire' = [x \in End |-> <<>>]
        /\ \A g : t.busy /\ t.name = Out(g) =>
             wire' = [x \in End |-> IF x = e THEN <<>> ELSE <<Request10(g)>>]
        /\ UNCHANGED <<online, losses>>
    BY FollowWire
  <1>3. /\ sock[e] \in Socket /\ sock[e].busy /\ sock[e].name = Out(f) /\ Out(f) \in Name
        /\ sock[p].queue = <<>>
    BY DEF Sending, TurnsInv, Out, Name
  <1>4. told[e] \in Seq(Name \X BOOLEAN) /\ told' = [told EXCEPT ![e] = Append(@, <<Out(f), ok>>)]
    BY <1>3 DEF Tell, TurnsInv
  <1>5. /\ Append(told[e], <<Out(f), ok>>) \in Seq(Name \X BOOLEAN)
        /\ Report(Append(told[e], <<Out(f), ok>>)) = Append(Report(told[e]), <<Out(f)[2], ok>>)
    BY <1>3, <1>4, ReportAppended
  <1>6. told' \in [End -> Seq(Name \X BOOLEAN)]
    BY <1>4, <1>5 DEF TurnsInv
  <1>7. Out(f)[2] = f /\ f # NoFile
    BY DEF Out, TransferAssumption
  <1>8. Reports' = [Reports EXCEPT ![e] = Append(@, <<f, ok>>)]
    <2>1. \A x \in End : Reports[x] = Report(told[x]) /\ Reports'[x] = Report(told'[x])
      BY DEF Reports
    <2>2. told'[e] = Append(told[e], <<Out(f), ok>>) /\ told'[p] = told[p]
      BY <1>1, <1>4 DEF TurnsInv
    <2>3. Reports'[e] = Append(Reports[e], <<f, ok>>) /\ Reports'[p] = Reports[p]
      BY <1>1, <1>5, <1>7, <2>1, <2>2
    <2>4. Reports = [x \in End |-> Reports[x]] /\ Reports' = [x \in End |-> Reports'[x]]
      BY DEF Reports
    <2> QED
      BY <1>1, <2>3, <2>4
  <1>9. /\ Current' = [Current EXCEPT ![e] = FileOf(t)] /\ Current[e] = f
        /\ Waiting' = [Waiting EXCEPT ![e] = t.queue] /\ Waiting[e] = sock[e].queue
    <2>1. /\ Current' = [Current EXCEPT ![e] = FileOf(t)] /\ Current[e] = FileOf(sock[e])
          /\ Waiting' = [Waiting EXCEPT ![e] = t.queue] /\ Waiting[e] = sock[e].queue
      BY <1>2 DEF TurnsInv, Current, Waiting
    <2>2. FileOf(sock[e]) = f
      BY <1>3, <1>7 DEF FileOf, Out
    <2> QED
      BY <2>1, <2>2
  <1>10. Arrived' = Arrived /\ (ok => f \in Arrived[e])
    BY DEF Arrived
  <1>11. CASE ~t.busy /\ t.queue = sock[e].queue /\ (t.queue = <<>> \/ ~ok)
    <2>1. wire' = [x \in End |-> <<>>] /\ sock' \in [End -> Socket]
      BY <1>2, <1>11 DEF TurnsInv
    <2>2. Rest'
      <3>1. ~sock'[e].busy /\ ~sock'[p].busy
        BY <1>1, <1>2, <1>11 DEF TurnsInv
      <3> QED
        BY <1>1, <2>1, <3>1 DEF Rest
    <2>3. DOMAIN wire' = End /\ wire' = [x \in End |-> wire'[x]]
      BY <2>1
    <2>4. TurnsInv'
      BY <1>2, <1>6, <2>1, <2>2, <2>3 DEF TurnsInv
    <2>5. FileOf(t) = NoFile
      BY <1>11 DEF FileOf
    <2>6. Waiting' = Waiting
      BY <1>9, <1>11 DEF Waiting
    <2>7. Queue!Follow(e, ok)
      BY <1>9, <1>11, <2>5, <2>6 DEF Queue!Follow
    <2>8. Queue!Finish(e, ok)
      BY <1>7, <1>8, <1>9, <1>10, <2>7 DEF Queue!Finish
    <2> QED
      BY <2>4, <2>8 DEF QueueStep, Queue!QueueNext
  <1>12. CASE \E g \in File :
                 /\ t.busy /\ t.name = Out(g) /\ t.dev = Reading(g)
                 /\ \/ sock[e].queue # <<>> /\ g = Head(sock[e].queue)
                                            /\ t.queue = Tail(sock[e].queue)
                    \/ ~ok /\ t.queue = sock[e].queue
    <2>1. PICK g \in File :
                 /\ t.busy /\ t.name = Out(g) /\ t.dev = Reading(g)
                 /\ \/ sock[e].queue # <<>> /\ g = Head(sock[e].queue)
                                            /\ t.queue = Tail(sock[e].queue)
                    \/ ~ok /\ t.queue = sock[e].queue
      BY <1>12
    <2>2. wire' = [x \in End |-> IF x = e THEN <<>> ELSE <<Request10(g)>>]
      BY <1>2, <2>1
    <2>3. TurnsInv'
      BY <1>2, <1>3, <1>6, <2>1, <2>2, StartSafe
    <2>4. FileOf(t) = g
      BY <2>1 DEF FileOf, Out
    <2>5. Queue!Follow(e, ok)
      <3>1. CASE sock[e].queue # <<>> /\ g = Head(sock[e].queue) /\ t.queue = Tail(sock[e].queue)
        BY <1>9, <2>4, <3>1 DEF Queue!Follow
      <3>2. CASE ~ok /\ t.queue = sock[e].queue
        <4>1. Waiting' = Waiting
          BY <1>9, <3>2 DEF Waiting
        <4> QED
          BY <1>9, <2>4, <3>2, <4>1 DEF Queue!Follow
      <3> QED
        BY <2>1, <3>1, <3>2
    <2>6. Queue!Finish(e, ok)
      BY <1>7, <1>8, <1>9, <1>10, <2>5 DEF Queue!Finish
    <2> QED
      BY <2>3, <2>6 DEF QueueStep, Queue!QueueNext
  <1> QED
    BY <1>11, <1>12

\* The socket once a transfer has failed or is done.
LEMMA IdleSocket ==
    ASSUME NEW s \in Socket
    PROVE  LET failed == [s EXCEPT !.busy = FALSE, !.dev = NoDev]
               closed == Dropped(s)
           IN  /\ failed \in Socket /\ ~failed.busy /\ failed.queue = s.queue
               /\ closed \in Socket /\ ~closed.busy /\ closed.queue = s.queue
  <1>1. NoDev \in Dev /\ NoName \in Name
    BY DEF Dev, Name
  <1> QED
    BY <1>1 DEF Socket, Dropped

\* The end of a transfer and checkFileSendingQueue
LEMMA CheckedFinish ==
    ASSUME Calm, TransferAssumption, TurnsInv, NEW e \in End, NEW f \in File, Sending(e, f),
           ~sock[Peer(e)].busy, NEW m, wire[e] = <<m>>, wire[Peer(e)] = <<>>,
           NEW s \in Socket, ~s.busy, s.queue = sock[e].queue,
           Handled(e, s, Checked(s), <<>>),
           NEW ok \in BOOLEAN, ok => stored[Peer(e)][f] = "whole", Tell(e, ok),
           UNCHANGED <<stored, asked>>
    PROVE  TurnsInv' /\ QueueStep
  <1> DEFINE t == Checked(s)
  <1>1. asked' \subseteq File /\ UNCHANGED stored
    BY DEF TurnsInv
  <1>2. CASE s.queue = <<>>
    <2>1. t = s
      BY <1>2, CheckedCalm DEF Calm
    <2>2. Handled(e, s, s, <<>>)
      BY <2>1
    <2>3. ~s.busy /\ s.queue = sock[e].queue /\ (s.queue = <<>> \/ ~ok)
      BY <1>2
    <2> QED
      BY <1>1, <2>2, <2>3, FinishSafe
  <1>3. CASE s.queue # <<>>
    <2>1. /\ t.busy /\ t.dev = Reading(Head(s.queue)) /\ t.name = Out(Head(s.queue))
          /\ t.queue = Tail(s.queue) /\ t \in Socket /\ Head(s.queue) \in File
      BY <1>3, CheckedCalm DEF Calm
    <2> HIDE DEF t
    <2>2. \E g \in File :
             /\ t.busy /\ t.name = Out(g) /\ t.dev = Reading(g)
             /\ sock[e].queue # <<>> /\ g = Head(sock[e].queue) /\ t.queue = Tail(sock[e].queue)
      BY <1>3, <2>1
    <2>3. Handled(e, s, t, <<>>)
      BY DEF t
    <2> QED
      BY <1>1, <2>1, <2>2, <2>3, FinishSafe
  <1> QED
    BY <1>2, <1>3

\* Answer 10: the blocks go out, or the file was refused.
LEMMA RemoteHostReadySafe ==
    ASSUME Calm, TransferAssumption, TurnsInv, NEW e \in End, SendFileRemoteHostReady(e)
    PROVE  TurnsInv' /\ QueueStep
  <1> DEFINE p == Peer(e)
             s == sock[e]
             failed == [s EXCEPT !.busy = FALSE, !.dev = NoDev]
             sent == [s EXCEPT !.dev = NoDev]
  <1>1. PICK f \in File : Sending(e, f) /\ (Phase(e, p, f, 2) \/ Phase(e, p, f, 3))
    BY MessagePhase DEF SendFileRemoteHostReady
  <1>2. p \in End /\ p # e
    BY Ends
  <1>3. /\ s \in Socket /\ s.busy /\ s.name = Out(f) /\ s.dev = Reading(f)
        /\ wire[p] = <<>> /\ UNCHANGED stored
    BY <1>1, SMTT(30) DEF Sending, Phase, TurnsInv, SendFileRemoteHostReady, Answer10
  <1>4. failed \in Socket /\ ~failed.busy /\ failed.queue = s.queue
    BY <1>3, IdleSocket
  <1>5. CASE Phase(e, p, f, 2)
    <2>1. wire[e] = <<Answer10(FALSE)>> /\ ~sock[p].busy
      BY <1>5 DEF Phase, Answer10
    <2>2. ~Head(wire[e]).ok
      BY <2>1 DEF Answer10
    <2>3. /\ Tell(e, FALSE)
          /\ \/ Handled(e, failed, Checked(failed), <<>>) /\ UNCHANGED asked
             \/ \E g \in File \ asked :
                   /\ Handled(e, failed, Prepared(failed, g), <<>>)
                   /\ asked' = asked \union {g}
      BY <2>2 DEF SendFileRemoteHostReady
    <2> HIDE DEF failed
    <2>4. \E m : wire[e] = <<m>>
      BY <2>1
    <2>5. CASE Handled(e, failed, Checked(failed), <<>>) /\ UNCHANGED asked
      BY <1>1, <1>3, <1>4, <2>1, <2>3, <2>4, <2>5, CheckedFinish
    <2>6. ASSUME NEW g \in File, Handled(e, failed, Prepared(failed, g), <<>>),
                 asked' = asked \union {g}
          PROVE  TurnsInv' /\ QueueStep
      <3> DEFINE t == Started(failed, g)
      <3>1. Prepared(failed, g) = t
        BY <1>4 DEF Prepared, Calm
      <3>2. t \in Socket /\ t.busy /\ t.name = Out(g) /\ t.dev = Reading(g) /\ t.queue = s.queue
        BY <1>4, StartedSocket
      <3>3. Handled(e, failed, t, <<>>)
        BY <2>6, <3>1
      <3> HIDE DEF t
      <3>4. asked' \subseteq File
        BY <2>6 DEF TurnsInv
      <3>5. \E h \in File : /\ t.busy /\ t.name = Out(h) /\ t.dev = Reading(h)
                            /\ t.queue = sock[e].queue
        BY <3>2
      <3> QED
        BY <1>1, <1>3, <1>4, <2>1, <2>3, <2>4, <3>2, <3>3, <3>4, <3>5, FinishSafe
    <2> QED
      BY <2>3, <2>5, <2>6
  <1>6. CASE Phase(e, p, f, 3)
    <2>1. /\ wire[e] = <<Answer10(TRUE)>>
          /\ sock[p].dev = Writing(f) /\ sock[p].busy /\ sock[p].name = In(f)
          /\ stored[p][f] = "empty"
      BY <1>6 DEF Phase, Answer10
    <2>2. Head(wire[e]).ok
      BY <2>1 DEF Answer10
    <2>3. s.dev # NoDev /\ s.dev[1] = "read" /\ s.dev[2] = f /\ Sum(s.name) = <<"whole", f>>
      BY <1>3 DEF Reading, NoDev, Sum, Out
    <2>4. /\ UNCHANGED <<asked, told>>
          /\ \E sum \in {Sum(s.name)} \union
                        IF "differ" \in Faults THEN {<<"other", NoFile>>} ELSE {} :
                Handled(e, sent, sent, <<Block(s.dev[2])>> \o <<Request11(sum)>>)
      BY <2>2, <2>3 DEF SendFileRemoteHostReady
    <2>5. PICK sum \in {<<"whole", f>>, <<"other", NoFile>>} :
             Handled(e, sent, sent, <<Block(s.dev[2])>> \o <<Request11(sum)>>)
      BY <2>3, <2>4
    <2> DEFINE msgs == <<Block(f), Request11(sum)>>
    <2>6. <<Block(s.dev[2])>> \o <<Request11(sum)>> = msgs
      BY <2>3, PairJoined
    <2>7. Handled(e, sent, sent, msgs) /\ \E a, b : msgs = <<a, b>>
      BY <2>5, <2>6
    <2>8. /\ sent \in Socket /\ sent.busy /\ sent.name = s.name /\ sent.queue = s.queue
          /\ FileOf(sent) = FileOf(s)
      <3>1. NoDev \in Dev
        BY DEF Dev
      <3> QED
        BY <1>3, <3>1 DEF Socket, FileOf
    <2> HIDE DEF sent, msgs
    <2>9. /\ sock' = [sock EXCEPT ![e] = sent]
          /\ wire'[e] = <<>> /\ wire'[p] = msgs
          /\ DOMAIN wire' = End /\ wire' = [x \in End |-> wire'[x]]
          /\ UNCHANGED <<online, losses>>
      BY <1>3, <2>1, <2>7, <2>8, AnsweredWire
    <2>10. sock'[e] = sent /\ sock'[p] = sock[p] /\ sock' \in [End -> Socket]
      BY <1>2, <2>8, <2>9 DEF TurnsInv
    <2>11. Phase(e, p, f, 4)'
      BY <1>3, <2>1, <2>9, <2>10 DEF Phase, msgs
    <2>12. Sending(e, f)'
      BY <1>1, <1>3, <2>8, <2>10, <2>11 DEF Sending
    <2>13. TurnsInv'
      BY <1>3, <2>4, <2>9, <2>10, <2>12 DEF TurnsInv
    <2>14. UNCHANGED Queue!queueVars
      <3>1. \A x \in End : FileOf(sock'[x]) = FileOf(sock[x]) /\ sock'[x].queue = sock[x].queue
        BY <2>8, <2>10, Ends
      <3> QED
        BY <1>3, <2>4, <3>1 DEF Queue!queueVars, Current, Waiting, Arrived, Reports
    <2> QED
      BY <2>13, <2>14 DEF QueueStep
  <1> QED
    BY <1>1, <1>5, <1>6

\* Answer 11: the transfer is reported.
LEMMA RemoteHostDoneCheckSafe ==
    ASSUME Calm, TransferAssumption, TurnsInv, NEW e \in End, SendFileRemoteHostDoneCheck(e)
    PROVE  TurnsInv' /\ QueueStep
  <1> DEFINE p == Peer(e)
             s == sock[e]
             failed == [s EXCEPT !.busy = FALSE, !.dev = NoDev]
             closed == Dropped(s)
  <1>1. PICK f \in File : Sending(e, f) /\ Phase(e, p, f, 6)
    BY MessagePhase DEF SendFileRemoteHostDoneCheck
  <1>2. PICK ok \in BOOLEAN : wire[e] = <<Answer11(ok)>> /\ (ok => stored[p][f] = "whole")
    BY <1>1 DEF Phase
  <1>3. s \in Socket /\ wire[p] = <<>> /\ ~sock[p].busy
    BY <1>1 DEF Phase, TurnsInv
  <1>4. Head(wire[e]).ok = ok
    BY <1>2 DEF Answer11
  <1>5. /\ failed \in Socket /\ ~failed.busy /\ failed.queue = s.queue
        /\ closed \in Socket /\ ~closed.busy /\ closed.queue = s.queue
    BY <1>3, IdleSocket
  <1>6. /\ IF ok THEN Handled(e, closed, Checked(closed), <<>>)
                 ELSE Handled(e, failed, failed, <<>>)
        /\ Tell(e, ok) /\ UNCHANGED <<stored, asked>>
    BY <1>4 DEF SendFileRemoteHostDoneCheck
  <1>7. \E m : wire[e] = <<m>>
    BY <1>2
  <1> HIDE DEF failed, closed
  <1>8. CASE ok
    BY <1>1, <1>2, <1>3, <1>5, <1>6, <1>7, <1>8, CheckedFinish
  <1>9. CASE ~ok
    <2>1. asked' \subseteq File
      BY <1>6 DEF TurnsInv
    <2> QED
      BY <1>1, <1>2, <1>3, <1>5, <1>6, <1>7, <1>9, <2>1, FinishSafe
  <1> QED
    BY <1>8, <1>9

---------------------------------------------------------------------------
(* The specification.                                                      *)

\* Every step keeps the phases, and is a step of the queue or none.
LEMMA NextSafe ==
    ASSUME Calm, TransferAssumption, TurnsInv, [TransferNext]_transferVars
    PROVE  TurnsInv' /\ QueueStep
  <1>1. ASSUME NEW e \in End, NEW f \in File, SendFile(e, f)
        PROVE  TurnsInv' /\ QueueStep
    BY <1>1, SendFileSafe
  <1>2. ASSUME NEW e \in End, NEW f \in File, NEW g \in File, SendFiles(e, f, g)
        PROVE  TurnsInv' /\ QueueStep
    BY <1>2, SendFilesSafe
  <1>3. CASE ClearFilesQueue
    BY <1>3, ClearSafe
  <1>4. ~StopFileSending
    BY DEF StopFileSending, Calm
  <1>5. ASSUME NEW e \in End, Message(e)
        PROVE  TurnsInv' /\ QueueStep
    BY <1>5, ReceiveFileRequestSafe, RemoteHostReadySafe, ReceiveBlockSafe,
       ReceiveFileDoneSafe, RemoteHostDoneCheckSafe DEF Message
  <1>6. ~Connection
    <2>1. ~Lose
      BY DEF Lose, Calm, TurnsInv
    <2>2. ~Reconnect
      BY DEF Reconnect, TurnsInv, End
    <2>3. ASSUME NEW e \in End, CloseConnection(e)
          PROVE  FALSE
      BY <2>3, MessagePhase DEF CloseConnection
    <2> QED
      BY <2>1, <2>2, <2>3 DEF Connection
  <1>7. CASE UNCHANGED transferVars
    <2>1. UNCHANGED <<sock, wire, online, losses, stored, asked, told>>
      BY <1>7 DEF transferVars
    <2>2. TurnsInv'
      <3>1. Rest => Rest'
        BY <2>1 DEF Rest
      <3>2. ASSUME NEW e \in End, NEW f \in File, Sending(e, f)
            PROVE  Sending(e, f)'
        <4>1. \A n \in 1..6 : Phase(e, Peer(e), f, n) => Phase(e, Peer(e), f, n)'
          BY <2>1 DEF Phase
        <4> QED
          BY <2>1, <3>2, <4>1 DEF Sending
      <3> QED
        BY <2>1, <3>1, <3>2 DEF TurnsInv
    <2>3. UNCHANGED Queue!queueVars
      BY <2>1 DEF Queue!queueVars, Current, Waiting, Arrived, Reports
    <2> QED
      BY <2>2, <2>3 DEF QueueStep
  <1> QED
    BY <1>1, <1>2, <1>3, <1>4, <1>5, <1>6, <1>7 DEF TransferNext, Owner

\* Two idle sockets are an empty queue.
LEMMA InitSafe ==
    ASSUME TransferAssumption, TransferInit, MaxLosses \in Nat
    PROVE  TurnsInv /\ Queue!QueueInit
  <1>1. NewSocket \in Socket /\ FileOf(NewSocket) = NoFile /\ NewSocket.queue = <<>>
    BY DEF NewSocket, Socket, FileOf, Dev, Name
  <1>2. <<>> \in Seq(Name \X BOOLEAN) /\ Report(<<>>) = <<>>
    BY DEF Report
  <1>3. TurnsInv
    <2>1. Rest
      BY DEF TransferInit, Rest, NewSocket
    <2> QED
      BY <1>1, <1>2, <2>1 DEF TransferInit, TurnsInv, Content
  <1>4. Queue!QueueInit
    <2>1. Current = [e \in End |-> NoFile] /\ Waiting = [e \in End |-> <<>>]
      BY <1>1 DEF TransferInit, Current, Waiting
    <2>2. Arrived = [e \in End |-> {}]
      BY Ends DEF TransferInit, Arrived
    <2>3. Reports = [e \in End |-> <<>>]
      BY <1>2 DEF TransferInit, Reports
    <2> QED
      BY <2>1, <2>2, <2>3 DEF Queue!QueueInit
  <1> QED
    BY <1>3, <1>4

\* The phases of the protocol: owners that take turns on a connection that
\* stands keep at most one transfer under way, with one message of it.
THEOREM OneTransferAtATime ==
    ASSUME Calm, TransferAssumption
    PROVE  TransferSpec => []TurnsInv
  <1>1. TransferInit => TurnsInv
    BY InitSafe DEF TransferAssumption
  <1>2. TurnsInv /\ [TransferNext]_transferVars => TurnsInv'
    BY NextSafe
  <1> QED
    BY <1>1, <1>2, PTL DEF TransferSpec

\* A busy socket always waits for a message that is under way: no sendFile is
\* left in a queue that nothing looks at (socket.cpp, sendFile and
\* checkFileSendingQueue).
THEOREM BusySocketsAreAwaited ==
    ASSUME Calm, TransferAssumption
    PROVE  TransferSpec => []BusyIsAwaited
  <1>1. TurnsInv => BusyIsAwaited
    <2> SUFFICES ASSUME TurnsInv, NEW e \in End, sock[e].busy
                 PROVE  \E x \in End : wire[x] # <<>>
      BY DEF BusyIsAwaited
    <2>1. PICK x \in End, f \in File : Sending(x, f)
      BY DEF TurnsInv, Rest
    <2>2. PICK n \in 1..6 : Phase(x, Peer(x), f, n)
      BY <2>1 DEF Sending
    <2>3. Peer(x) \in End /\ n \in {1, 2, 3, 4, 5, 6}
      BY Ends
    <2>4. \A a, b : <<a>> # <<>> /\ <<a, b>> # <<>>
      OBVIOUS
    <2> QED
      BY <2>2, <2>3, <2>4 DEF Phase
  <1> QED
    BY <1>1, OneTransferAtATime, PTL

\* The messages of a transfer implement a queue of files: one transfer at a
\* time, each reported once, in order, and as a success only of a file that
\* has arrived (sendFile to sendFileRemoteHostDoneCheck in socket.cpp).
THEOREM TransfersAreAQueue ==
    ASSUME Calm, TransferAssumption
    PROVE  TransferSpec => Queue!QueueSafeSpec
  <1>1. TransferInit => Queue!QueueInit
    BY InitSafe DEF TransferAssumption
  <1>2. TurnsInv /\ [TransferNext]_transferVars => [Queue!QueueNext]_(Queue!queueVars)
    BY NextSafe DEF QueueStep
  <1> QED
    BY <1>1, <1>2, OneTransferAtATime, PTL DEF TransferSpec, Queue!QueueSafeSpec

---------------------------------------------------------------------------
(* Sockets.                                                                *)

\* Where a socket that was idle is busy, it has opened a file.
Starts(s, t) ==
    ~s.busy /\ t.busy =>
        \E f \in File : FileOf(t) = f /\ t.name = Out(f) /\ t.dev = Reading(f)

\* The order of the numbers, as a relation.
LEMMA NumbersAreWellFounded ==
    \E R : IsWellFoundedOn(R, Nat) /\ \A k, m \in Nat : <<k, m>> \in R <=> k < m
  <1>1. IsWellFoundedOn(OpToRel(<, Nat), Nat)
    BY NatLessThanWellFounded
  <1>2. \A k, m \in Nat : <<k, m>> \in OpToRel(<, Nat) <=> k < m
    BY DEF OpToRel
  <1> QED
    BY <1>1, <1>2

\* First of a set of places.
LEMMA FirstPlace ==
    ASSUME NEW S \in SUBSET Nat, S # {}
    PROVE  First(S) \in S /\ \A k \in S : First(S) <= k
  <1>1. PICK R : IsWellFoundedOn(R, Nat) /\ \A k, m \in Nat : <<k, m>> \in R <=> k < m
    BY NumbersAreWellFounded
  <1>2. IsWellFoundedOn(R, Nat) /\ S \subseteq Nat
    BY <1>1
  <1>3. \A k, m \in Nat : <<k, m>> \in R <=> k < m
    BY <1>1
  <1>4. \E m \in S : \A k \in S : ~ (<<k, m>> \in R)
    BY <1>2, WFMin, Zenon
  <1>5. PICK m \in S : \A k \in S : ~ (<<k, m>> \in R)
    BY <1>4
  <1>6. \A k \in S : ~(k < m)
    BY <1>3, <1>5
  <1>7. \E i \in S : \A j \in S : i <= j
    BY <1>6
  <1> QED
    BY <1>7 DEF First

\* The rest of a queue.
LEMMA QueueRest ==
    ASSUME NEW q \in Seq(File), NEW i \in 1..Len(q)
    PROVE  LET r == SubSeq(q, i + 1, Len(q))
           IN  /\ r \in Seq(File) /\ Len(r) = Len(q) - i
               /\ \A k \in 1..Len(r) : r[k] = q[i + k] /\ i + k \in 1..Len(q) /\ i + k # i
  <1>1. Len(q) \in Nat /\ i \in Nat /\ i + 1 \in Nat
    OBVIOUS
  <1>2. CASE i = Len(q)
    <2>1. SubSeq(q, i + 1, Len(q)) = <<>>
      BY <1>1, <1>2
    <2> QED
      BY <1>1, <1>2, <2>1
  <1>3. CASE i < Len(q)
    <2> DEFINE r == SubSeq(q, i + 1, Len(q))
    <2>1. r \in Seq(File)
      BY <1>1
    <2>2. Len(r) = Len(q) - i
      BY <1>1, <1>3
    <2>3. \A k \in 1..(Len(q) - i) : r[k] = q[i + k]
      BY <1>1, <1>3
    <2> QED
      BY <1>1, <2>1, <2>2, <2>3
  <1> QED
    BY <1>1, <1>2, <1>3

\* A socket that has no file.
LEMMA DroppedSocket ==
    ASSUME NEW s \in Socket
    PROVE  /\ Dropped(s) \in Socket
           /\ ~Dropped(s).busy /\ Dropped(s).queue = s.queue
           /\ Dropped(s).dev = NoDev /\ FileOf(Dropped(s)) = NoFile
           /\ Owed(Dropped(s)) \subseteq Owed(s)
           /\ Once(s) /\ NoFile \notin File => Once(Dropped(s))
  <1>1. /\ Dropped(s) \in Socket
        /\ ~Dropped(s).busy /\ Dropped(s).queue = s.queue
    BY IdleSocket
  <1>2. Dropped(s).dev = NoDev
    BY DEF Dropped, Socket
  <1>3. FileOf(Dropped(s)) = NoFile
    BY <1>1 DEF FileOf
  <1>4. s.queue \in Seq(File) /\ ToSet(s.queue) \subseteq File
    BY DEF Socket, ToSet
  <1> QED
    BY <1>1, <1>2, <1>3, <1>4 DEF Owed, Once

\* checkFileSendingQueue: a socket rests, or sends a file of its queue.
LEMMA CheckedSocket ==
    ASSUME TransferAssumption, NEW s \in Socket
    PROVE  /\ Checked(s) \in Socket
           /\ s.busy \/ s.queue = <<>> => Checked(s) = s
           /\ Once(s) => Once(Checked(s))
           /\ Owed(Checked(s)) \subseteq Owed(s)
           /\ Starts(s, Checked(s))
  <1> DEFINE q == s.queue
             t == Checked(s)
  <1>1. q \in Seq(File) /\ Len(q) \in Nat /\ DOMAIN q = 1..Len(q) /\ ToSet(q) \subseteq File
    BY DEF Socket, ToSet
  <1>2. CASE s.busy \/ q = <<>>
    BY <1>2 DEF Checked, Starts
  <1>3. CASE ~s.busy /\ q # <<>> /\ Openable(q) = {}
    <2>1. t = [busy |-> FALSE, dev |-> NoDev, name |-> NoName, queue |-> <<>>]
      BY <1>3 DEF Checked, Dropped, Socket
    <2>2. NoName \in Name /\ NoDev \in Dev /\ <<>> \in Seq(File) /\ ToSet(<<>>) = {}
      BY DEF Name, Dev, ToSet
    <2> HIDE DEF t
    <2>3. t \in Socket /\ ~t.busy /\ FileOf(t) = NoFile /\ t.queue = <<>>
      BY <2>1, <2>2 DEF Socket, FileOf
    <2>4. Once(t) /\ Owed(t) = {}
      BY <2>2, <2>3 DEF Once, Owed
    <2> QED
      BY <1>3, <2>3, <2>4 DEF t, q, Starts
  <1>4. CASE ~s.busy /\ q # <<>> /\ Openable(q) # {}
    <2> DEFINE i == First(Openable(q))
               r == SubSeq(q, i + 1, Len(q))
               f == q[i]
    <2>1. Openable(q) \in SUBSET Nat
      BY <1>1 DEF Openable
    <2>2. i \in Openable(q)
      BY <1>4, <2>1, FirstPlace
    <2> HIDE DEF i, q
    <2>3. i \in DOMAIN q
      BY <2>2 DEF Openable
    <2>3a. i \in 1..Len(q) /\ f \in File
      BY <1>1, <2>3
    <2>4. /\ r \in Seq(File) /\ Len(r) = Len(q) - i
          /\ \A k \in 1..Len(r) : r[k] = q[i + k] /\ i + k \in 1..Len(q) /\ i + k # i
      BY <1>1, <2>3a, QueueRest
    <2>5. t = [busy |-> TRUE, dev |-> Reading(f), name |-> Out(f), queue |-> r]
      BY <1>4 DEF Checked, Started, Socket, i, q
    <2>6. Reading(f) \in Dev /\ Out(f) \in Name /\ f # NoFile
      BY <2>3a DEF Dev, Name, Reading, Out, TransferAssumption
    <2> HIDE DEF f, r, t
    <2>7. t \in Socket /\ t.queue = r /\ t.busy /\ t.name = Out(f) /\ t.dev = Reading(f)
      BY <2>4, <2>5, <2>6 DEF Socket
    <2>8. FileOf(t) = f
      BY <2>7 DEF FileOf, Out
    <2>9. DOMAIN r = 1..Len(r)
      BY <2>4
    <2>10. ToSet(r) \subseteq ToSet(q) /\ f \in ToSet(q)
      BY <1>1, <2>3, <2>4, <2>9 DEF ToSet, f
    <2>11. Owed(t) \subseteq Owed(s)
      BY <2>7, <2>8, <2>10 DEF Owed, q
    <2>12. ASSUME Once(s)
           PROVE  Once(t)
      <3>1. \A k, m \in DOMAIN q : q[k] = q[m] => k = m
        BY <2>12 DEF Once, q
      <3>2. \A k \in DOMAIN r : r[k] # f
        BY <1>1, <2>3, <2>4, <2>9, <3>1 DEF f
      <3>3. ASSUME NEW k \in 1..Len(r), NEW m \in 1..Len(r), r[k] = r[m]
            PROVE  k = m
        <4>1. q[i + k] = q[i + m] /\ i + k \in DOMAIN q /\ i + m \in DOMAIN q
          BY <1>1, <2>4, <3>3
        <4>2. i + k = i + m /\ i \in Nat
          BY <2>3a, <3>1, <4>1
        <4> QED
          BY <4>2
      <3>4. f \notin ToSet(r)
        BY <3>2 DEF ToSet
      <3> QED
        BY <2>7, <2>8, <2>9, <3>3, <3>4 DEF Once
    <2>13. Starts(s, t)
      BY <2>3a, <2>7, <2>8 DEF Starts
    <2> QED
      BY <1>4, <2>7, <2>11, <2>12, <2>13 DEF t, q
  <1> QED
    BY <1>2, <1>3, <1>4

\* A queue with one more file.
LEMMA QueueJoined ==
    ASSUME NEW q \in Seq(File), NEW f \in File
    PROVE  /\ Append(q, f) \in Seq(File)
           /\ ToSet(Append(q, f)) = ToSet(q) \union {f}
           /\ /\ \A i, j \in DOMAIN q : q[i] = q[j] => i = j
              /\ f \notin ToSet(q)
              => LET r == Append(q, f)
                 IN  \A i, j \in DOMAIN r : r[i] = r[j] => i = j
  <1> DEFINE r == Append(q, f)
  <1>1. /\ r \in Seq(File) /\ Len(q) \in Nat /\ Len(r) = Len(q) + 1
        /\ r[Len(q) + 1] = f /\ \A i \in 1..Len(q) : r[i] = q[i]
        /\ DOMAIN q = 1..Len(q) /\ DOMAIN r = 1..(Len(q) + 1)
    OBVIOUS
  <1> HIDE DEF r
  <1>2. ToSet(r) = ToSet(q) \union {f}
    <2>1. \A i \in 1..(Len(q) + 1) : i = Len(q) + 1 \/ i \in 1..Len(q)
      BY <1>1
    <2> QED
      BY <1>1, <2>1 DEF ToSet
  <1>3. ASSUME \A i, j \in DOMAIN q : q[i] = q[j] => i = j, f \notin ToSet(q)
        PROVE  \A i, j \in DOMAIN r : r[i] = r[j] => i = j
    <2>1. \A i \in 1..Len(q) : q[i] # f
      BY <1>1, <1>3 DEF ToSet
    <2> QED
      BY <1>1, <1>3, <2>1
  <1> QED
    BY <1>1, <1>2, <1>3 DEF r

\* sendFile of one file (prepareForSendFileToRemoteHost)
LEMMA PreparedSocket ==
    ASSUME TransferAssumption, NEW s \in Socket, NEW f \in File
    PROVE  /\ Prepared(s, f) \in Socket
           /\ s.busy => /\ Prepared(s, f).busy
                        /\ Prepared(s, f).name = s.name /\ Prepared(s, f).dev = s.dev
           /\ Once(s) /\ f \notin Owed(s) => Once(Prepared(s, f))
           /\ Owed(Prepared(s, f)) \subseteq Owed(s) \union {f}
           /\ Starts(s, Prepared(s, f))
  <1> DEFINE t == Prepared(s, f)
  <1>1. s.queue \in Seq(File) /\ f # NoFile
    BY DEF Socket, TransferAssumption
  <1>2. CASE s.busy
    <2> DEFINE q == Append(s.queue, f)
    <2>1. q \in Seq(File) /\ t = [s EXCEPT !.queue = q]
      BY <1>1, <1>2, QueueJoined DEF Prepared, Socket
    <2> HIDE DEF q, t
    <2>2. /\ t \in Socket /\ t.queue = q /\ t.busy = s.busy
          /\ t.dev = s.dev /\ t.name = s.name /\ FileOf(t) = FileOf(s)
      BY <2>1, QueueReplaced
    <2>3. ToSet(q) = ToSet(s.queue) \union {f}
      BY <1>1, QueueJoined DEF q
    <2>4. Owed(t) \subseteq Owed(s) \union {f}
      BY <2>2, <2>3 DEF Owed
    <2>5. ASSUME Once(s), f \notin Owed(s)
          PROVE  Once(t)
      <3>1. f \notin ToSet(s.queue) /\ FileOf(s) # f
        BY <1>1, <2>5 DEF Owed
      <3>2. \A i, j \in DOMAIN q : q[i] = q[j] => i = j
        BY <1>1, <2>5, <3>1, QueueJoined DEF Once, q
      <3> QED
        BY <2>2, <2>3, <2>5, <3>1, <3>2 DEF Once
    <2> QED
      BY <1>2, <2>2, <2>4, <2>5 DEF Starts, t
  <1>3. CASE ~s.busy /\ f \in Missing
    <2> DEFINE d == Dropped(s)
    <2>1. t = Checked(d)
      BY <1>3 DEF Prepared
    <2>2. /\ d \in Socket /\ ~d.busy /\ Owed(d) \subseteq Owed(s)
          /\ Once(s) => Once(d)
      BY DroppedSocket DEF TransferAssumption
    <2> HIDE DEF d
    <2>3. /\ t \in Socket /\ Owed(t) \subseteq Owed(d) /\ (Once(d) => Once(t)) /\ Starts(d, t)
      BY <2>1, <2>2, CheckedSocket
    <2> QED
      BY <1>3, <2>2, <2>3 DEF Starts
  <1>4. CASE ~s.busy /\ f \notin Missing
    <2>1. t = Started(s, f)
      BY <1>4 DEF Prepared
    <2>2. /\ t \in Socket /\ t.busy /\ t.name = Out(f) /\ t.dev = Reading(f)
          /\ t.queue = s.queue
      BY <2>1, StartedSocket
    <2> HIDE DEF t
    <2>3. FileOf(t) = f
      BY <2>2 DEF FileOf, Out
    <2>4. Owed(t) \subseteq Owed(s) \union {f}
      BY <2>2, <2>3 DEF Owed
    <2>5. Once(s) /\ f \notin Owed(s) => Once(t)
      BY <2>2, <2>3 DEF Owed, Once
    <2> QED
      BY <1>4, <2>2, <2>3, <2>4, <2>5 DEF Starts, t
  <1> QED
    BY <1>2, <1>3, <1>4

\* A list of files joins a queue.
LEMMA TwoJoined ==
    ASSUME NEW q \in Seq(File), NEW f \in File, NEW g \in File, f # g
    PROVE  LET r == q \o <<f, g>>
           IN  /\ r \in Seq(File)
               /\ ToSet(r) = ToSet(q) \union {f, g}
               /\ /\ \A i, j \in DOMAIN q : q[i] = q[j] => i = j
                  /\ f \notin ToSet(q) /\ g \notin ToSet(q)
                  => \A i, j \in DOMAIN r : r[i] = r[j] => i = j
  <1> DEFINE a == Append(q, f)
             b == Append(a, g)
             r == q \o <<f, g>>
  <1>1. r = b
    <2>1. <<f, g>> \in Seq(File) /\ Len(<<f, g>>) = 2 /\ <<f, g>>[1] = f /\ <<f, g>>[2] = g
      OBVIOUS
    <2>2. /\ r \in Seq(File) /\ Len(r) = Len(q) + 2
          /\ \A i \in 1..Len(q) : r[i] = q[i]
          /\ r[Len(q) + 1] = f /\ r[Len(q) + 2] = g
      BY <2>1
    <2>3. /\ b \in Seq(File) /\ Len(b) = Len(q) + 2
          /\ \A i \in 1..Len(q) : b[i] = q[i]
          /\ b[Len(q) + 1] = f /\ b[Len(q) + 2] = g
      OBVIOUS
    <2> HIDE DEF r, b
    <2>4. \A i \in 1..(Len(q) + 2) : i \in 1..Len(q) \/ i = Len(q) + 1 \/ i = Len(q) + 2
      OBVIOUS
    <2>5. \A i \in 1..Len(r) : r[i] = b[i]
      BY <2>2, <2>3, <2>4
    <2> QED
      BY <2>2, <2>3, <2>5
  <1>2. /\ a \in Seq(File) /\ ToSet(a) = ToSet(q) \union {f}
        /\ /\ \A i, j \in DOMAIN q : q[i] = q[j] => i = j
           /\ f \notin ToSet(q)
           => \A i, j \in DOMAIN a : a[i] = a[j] => i = j
    BY QueueJoined
  <1> HIDE DEF a, r
  <1>3. /\ b \in Seq(File) /\ ToSet(b) = ToSet(a) \union {g}
        /\ /\ \A i, j \in DOMAIN a : a[i] = a[j] => i = j
           /\ g \notin ToSet(a)
           => \A i, j \in DOMAIN b : b[i] = b[j] => i = j
    BY <1>2, QueueJoined
  <1> HIDE DEF b
  <1> QED
    BY <1>1, <1>2, <1>3 DEF r

\* sendFile of a list
LEMMA ListedSocket ==
    ASSUME TransferAssumption, NEW s \in Socket, NEW f \in File, NEW g \in File, f # g,
           NEW u, FileOf(u) = FileOf(s), u.queue = s.queue \o <<f, g>>
    PROVE  /\ Owed(u) \subseteq Owed(s) \union {f, g}
           /\ Once(s) /\ f \notin Owed(s) /\ g \notin Owed(s) => Once(u)
  <1> DEFINE q == s.queue \o <<f, g>>
  <1>1. s.queue \in Seq(File) /\ f # NoFile /\ g # NoFile
    BY DEF Socket, TransferAssumption
  <1>2. /\ ToSet(q) = ToSet(s.queue) \union {f, g}
        /\ /\ \A i, j \in DOMAIN s.queue : s.queue[i] = s.queue[j] => i = j
           /\ f \notin ToSet(s.queue) /\ g \notin ToSet(s.queue)
           => \A i, j \in DOMAIN q : q[i] = q[j] => i = j
    BY <1>1, TwoJoined
  <1>3. u.queue = q
    OBVIOUS
  <1> HIDE DEF q
  <1>4. Owed(u) \subseteq Owed(s) \union {f, g}
    BY <1>2, <1>3 DEF Owed
  <1>5. ASSUME Once(s), f \notin Owed(s), g \notin Owed(s)
        PROVE  Once(u)
    <2>1. f \notin ToSet(s.queue) /\ g \notin ToSet(s.queue) /\ FileOf(s) # f /\ FileOf(s) # g
      BY <1>1, <1>5 DEF Owed
    <2> QED
      BY <1>2, <1>3, <1>5, <2>1 DEF Once
  <1> QED
    BY <1>4, <1>5

---------------------------------------------------------------------------
(* Types, for every value of the constants.                                *)

\* The messages.
LEMMA MessageTypes ==
    /\ \A f \in File : Request10(f) \in TransferMessage /\ Block(f) \in TransferMessage
    /\ \A ok \in BOOLEAN : Answer10(ok) \in TransferMessage /\ Answer11(ok) \in TransferMessage
    /\ \A sum \in SumValue : Request11(sum) \in TransferMessage
    /\ Close \in TransferMessage
  <1>1. ASSUME NEW f \in File
        PROVE  Request10(f) \in TransferMessage /\ Block(f) \in TransferMessage
    BY DEF Request10, Block, TransferMessage
  <1>2. ASSUME NEW ok \in BOOLEAN
        PROVE  Answer10(ok) \in TransferMessage /\ Answer11(ok) \in TransferMessage
    BY DEF Answer10, Answer11, TransferMessage
  <1>3. ASSUME NEW sum \in SumValue
        PROVE  Request11(sum) \in TransferMessage
    BY DEF Request11, TransferMessage
  <1>4. Close \in TransferMessage
    BY DEF TransferMessage
  <1> QED
    BY <1>1, <1>2, <1>3, <1>4

\* What a message carries.
LEMMA MessageFields ==
    ASSUME NEW m \in TransferMessage
    PROVE  /\ m.id \in {"request10", "block"} => m.file \in File
           /\ m.id \in {"answer10", "answer11"} => m.ok \in BOOLEAN
           /\ m.id = "request11" => m.sum \in SumValue
  BY DEF TransferMessage, Close

\* What a file opened by a call or by the queue makes the socket write.
LEMMA OpenedTyped ==
    ASSUME NEW s, NEW t, Starts(s, t)
    PROVE  /\ Opened(s, t) \in Seq(TransferMessage)
           /\ s.busy \/ ~t.busy => Opened(s, t) = <<>>
           /\ ~s.busy /\ t.busy => \E f \in File : /\ FileOf(t) = f /\ t.dev = Reading(f)
                                                  /\ Opened(s, t) = <<Request10(f)>>
  <1>1. CASE s.busy \/ ~t.busy
    BY <1>1 DEF Opened
  <1>2. CASE ~s.busy /\ t.busy
    <2>1. PICK f \in File : FileOf(t) = f /\ t.name = Out(f) /\ t.dev = Reading(f)
      BY <1>2 DEF Starts
    <2>2. Opened(s, t) = <<Request10(f)>> /\ Request10(f) \in TransferMessage
      BY <1>2, <2>1, MessageTypes DEF Opened, Out
    <2> QED
      BY <1>2, <2>1, <2>2
  <1> QED
    BY <1>1, <1>2

\* What is written goes to the other end, if anywhere.
LEMMA WrittenTyped ==
    ASSUME wire \in [End -> Seq(TransferMessage)], NEW e \in End,
           NEW msgs \in Seq(TransferMessage)
    PROVE  /\ Written(e, msgs) \in [End -> Seq(TransferMessage)]
           /\ Written(e, msgs)[e] = wire[e]
           /\ Written(e, msgs)[Peer(e)] \in {wire[Peer(e)], wire[Peer(e)] \o msgs}
  <1>1. Peer(e) \in End /\ Peer(e) # e
    BY Ends
  <1>2. wire[Peer(e)] \o msgs \in Seq(TransferMessage)
    BY <1>1
  <1> QED
    BY <1>1, <1>2 DEF Written

\* A message that was handled.
LEMMA HandledTyped ==
    ASSUME wire \in [End -> Seq(TransferMessage)], sock \in [End -> Socket],
           NEW e \in End, wire[e] # <<>>,
           NEW s, NEW t \in Socket, Starts(s, t), NEW msgs \in Seq(TransferMessage),
           Handled(e, s, t, msgs)
    PROVE  /\ sock' = [sock EXCEPT ![e] = t] /\ sock' \in [End -> Socket]
           /\ wire' \in [End -> Seq(TransferMessage)]
           /\ wire'[e] = Tail(wire[e])
           /\ wire'[Peer(e)] \in {wire[Peer(e)], wire[Peer(e)] \o (msgs \o Opened(s, t))}
           /\ UNCHANGED <<online, losses>>
  <1> DEFINE all == msgs \o Opened(s, t)
  <1>1. all \in Seq(TransferMessage)
    BY OpenedTyped
  <1>2. sock' = [sock EXCEPT ![e] = t] /\ wire' = [Written(e, all) EXCEPT ![e] = Tail(@)]
        /\ UNCHANGED <<online, losses>>
    BY DEF Handled
  <1> HIDE DEF all
  <1>3. /\ Written(e, all) \in [End -> Seq(TransferMessage)]
        /\ Written(e, all)[e] = wire[e]
        /\ Written(e, all)[Peer(e)] \in {wire[Peer(e)], wire[Peer(e)] \o all}
    BY <1>1, WrittenTyped
  <1>4. Tail(wire[e]) \in Seq(TransferMessage)
    OBVIOUS
  <1>5. Peer(e) \in End /\ Peer(e) # e
    BY Ends
  <1> QED
    BY <1>2, <1>3, <1>4, <1>5 DEF all

\* A socket without a file of its own owes what is in its queue.
LEMMA NothingOfItsOwn ==
    ASSUME TransferAssumption, NEW s \in Socket, NEW t \in Socket,
           t.queue = s.queue, FileOf(t) = NoFile
    PROVE  Owed(t) \subseteq Owed(s) /\ (Once(s) => Once(t))
  <1>1. ToSet(s.queue) \subseteq File
    BY DEF Socket, ToSet
  <1> QED
    BY <1>1 DEF Owed, Once, TransferAssumption

\* A socket that has opened a file for writing, and one that could not.
LEMMA ReceiverSocket ==
    ASSUME TransferAssumption, NEW s \in Socket, NEW f \in File
    PROVE  LET r == [s EXCEPT !.busy = TRUE, !.dev = Writing(f), !.name = In(f)]
               refused == [r EXCEPT !.busy = FALSE, !.dev = NoDev]
           IN  /\ r \in Socket /\ r.busy /\ r.dev = Writing(f) /\ r.name = In(f)
               /\ r.queue = s.queue /\ FileOf(r) = NoFile
               /\ refused \in Socket /\ ~refused.busy
               /\ refused.queue = s.queue /\ FileOf(refused) = NoFile
  <1> DEFINE r == [s EXCEPT !.busy = TRUE, !.dev = Writing(f), !.name = In(f)]
             refused == [r EXCEPT !.busy = FALSE, !.dev = NoDev]
  <1>1. Writing(f) \in Dev /\ In(f) \in Name
    BY DEF Dev, Name, Writing, In
  <1>2. /\ r \in Socket /\ r.busy /\ r.dev = Writing(f) /\ r.name = In(f)
        /\ r.queue = s.queue
    BY <1>1 DEF Socket
  <1>3. FileOf(r) = NoFile
    BY <1>2 DEF FileOf, In
  <1> HIDE DEF r
  <1>4. refused \in Socket /\ ~refused.busy /\ refused.queue = r.queue
    BY <1>2, IdleSocket
  <1> HIDE DEF refused
  <1>5. FileOf(refused) = NoFile
    BY <1>4 DEF FileOf
  <1> QED
    BY <1>2, <1>3, <1>4, <1>5 DEF refused, r

\* A socket that has given up, and one that has sent its blocks.
LEMMA ClosedSocket ==
    ASSUME NEW s \in Socket
    PROVE  LET failed == [s EXCEPT !.busy = FALSE, !.dev = NoDev]
               sent == [s EXCEPT !.dev = NoDev]
           IN  /\ failed \in Socket /\ ~failed.busy
               /\ failed.queue = s.queue /\ FileOf(failed) = NoFile
               /\ sent \in Socket /\ sent.busy = s.busy /\ sent.dev = NoDev
               /\ sent.name = s.name /\ sent.queue = s.queue
               /\ FileOf(sent) = FileOf(s)
  <1> DEFINE failed == [s EXCEPT !.busy = FALSE, !.dev = NoDev]
             sent == [s EXCEPT !.dev = NoDev]
  <1>1. failed \in Socket /\ ~failed.busy /\ failed.queue = s.queue
    BY IdleSocket
  <1>2. /\ sent \in Socket /\ sent.busy = s.busy /\ sent.dev = NoDev
        /\ sent.name = s.name /\ sent.queue = s.queue
    BY DEF Socket, Dev
  <1> HIDE DEF failed, sent
  <1>3. FileOf(failed) = NoFile /\ FileOf(sent) = FileOf(s)
    BY <1>1, <1>2 DEF FileOf
  <1> QED
    BY <1>1, <1>2, <1>3 DEF failed, sent

\* The sum of a file to send, and its blocks.
LEMMA SumTyped ==
    ASSUME NEW s \in Socket
    PROVE  /\ Sum(s.name) \in SumValue /\ <<"other", NoFile>> \in SumValue
           /\ s.dev[1] = "read" => s.dev[2] \in File
  <1>1. s.name \in Name /\ s.dev \in Dev
    BY DEF Socket
  <1>2. <<"none", NoFile>> \in SumValue /\ <<"other", NoFile>> \in SumValue
    BY DEF SumValue
  <1>3. \A f \in File : <<"whole", f>> \in SumValue
    BY DEF SumValue, Content
  <1>4. s.name[1] = "out" => s.name[2] \in File
    BY <1>1 DEF Name, NoName
  <1>5. Sum(s.name) \in SumValue
    BY <1>2, <1>3, <1>4 DEF Sum
  <1>6. s.dev[1] = "read" => s.dev[2] \in File
    BY <1>1 DEF Dev, NoDev
  <1> QED
    BY <1>2, <1>5, <1>6

---------------------------------------------------------------------------
\* The owners' calls keep the types.
LEMMA OwnerTyped ==
    ASSUME TransferAssumption, TransferTypeOK, Owner
    PROVE  TransferTypeOK'
  <1>1. ASSUME NEW e \in End, NEW f \in File, SendFile(e, f)
        PROVE  TransferTypeOK'
    <2> DEFINE s == sock[e]
               t == Prepared(s, f)
    <2>1. s \in Socket
      BY DEF TransferTypeOK
    <2>2. t \in Socket /\ Starts(s, t)
      BY <2>1, PreparedSocket
    <2>3. /\ sock' = [sock EXCEPT ![e] = t] /\ wire' = Written(e, Opened(s, t))
          /\ asked' = asked \union {f} /\ UNCHANGED <<online, losses, stored, told>>
      BY <1>1 DEF SendFile
    <2> HIDE DEF t
    <2>4. wire' \in [End -> Seq(TransferMessage)]
      <3>1. Opened(s, t) \in Seq(TransferMessage)
        BY <2>2, OpenedTyped
      <3> QED
        BY <2>3, <3>1, WrittenTyped DEF TransferTypeOK
    <2> QED
      BY <2>2, <2>3, <2>4 DEF TransferTypeOK
  <1>2. ASSUME NEW e \in End, NEW f \in File, NEW g \in File, SendFiles(e, f, g)
        PROVE  TransferTypeOK'
    <2> DEFINE s == [sock[e] EXCEPT !.queue = @ \o <<f, g>>]
               t == Checked(s)
    <2>1. sock[e] \in Socket /\ f # g
      BY <1>2 DEF TransferTypeOK, SendFiles
    <2>2. s \in Socket
      <3> DEFINE q == sock[e].queue \o <<f, g>>
      <3>1. q \in Seq(File) /\ s = [sock[e] EXCEPT !.queue = q]
        BY <2>1, TwoJoined DEF Socket
      <3> QED
        BY <2>1, <3>1, QueueReplaced
    <2>3. /\ sock' = [sock EXCEPT ![e] = t] /\ wire' = Written(e, Opened(s, t))
          /\ asked' = asked \union {f, g} /\ UNCHANGED <<online, losses, stored, told>>
      BY <1>2 DEF SendFiles
    <2> HIDE DEF s
    <2>4. t \in Socket /\ Starts(s, t)
      BY <2>2, CheckedSocket
    <2> HIDE DEF t
    <2>5. wire' \in [End -> Seq(TransferMessage)]
      <3>1. Opened(s, t) \in Seq(TransferMessage)
        BY <2>4, OpenedTyped
      <3> QED
        BY <2>3, <3>1, WrittenTyped DEF TransferTypeOK
    <2> QED
      BY <2>3, <2>4, <2>5 DEF TransferTypeOK
  <1>3. CASE ClearFilesQueue
    <2>1. sock["server"] \in Socket /\ <<>> \in Seq(File)
      BY DEF TransferTypeOK, End
    <2>2. [sock["server"] EXCEPT !.queue = <<>>] \in Socket
      BY <2>1, QueueReplaced
    <2> QED
      BY <1>3, <2>2 DEF ClearFilesQueue, TransferTypeOK
  <1>4. CASE StopFileSending
    <2> DEFINE c == sock["client"]
               t == [c EXCEPT !.dev = NoDev, !.queue = <<>>]
    <2>1. c \in Socket /\ <<>> \in Seq(File) /\ NoDev \in Dev
      BY DEF TransferTypeOK, End, Dev
    <2>2. t \in Socket
      BY <2>1 DEF Socket
    <2>3. sock' = [sock EXCEPT !["client"] = t]
      BY <1>4 DEF StopFileSending
    <2> HIDE DEF t
    <2>4. sock' \in [End -> Socket]
      BY <2>2, <2>3 DEF TransferTypeOK
    <2> QED
      BY <1>4, <2>4 DEF StopFileSending, TransferTypeOK
  <1> QED
    BY <1>1, <1>2, <1>3, <1>4 DEF Owner

\* Reports keep their type.
LEMMA ToldTyped ==
    ASSUME TransferTypeOK, NEW e \in End, NEW ok \in BOOLEAN, Tell(e, ok)
    PROVE  told' \in [End -> Seq(Name \X BOOLEAN)]
  <1>1. sock[e].name \in Name /\ told[e] \in Seq(Name \X BOOLEAN)
    BY DEF TransferTypeOK, Socket
  <1>2. Append(told[e], <<sock[e].name, ok>>) \in Seq(Name \X BOOLEAN)
    BY <1>1
  <1> QED
    BY <1>2 DEF Tell, TransferTypeOK

\* The messages keep the types.
LEMMA MessageTyped ==
    ASSUME TransferAssumption, TransferTypeOK, NEW e \in End, Message(e)
    PROVE  TransferTypeOK'
  <1> DEFINE s == sock[e]
             m == Head(wire[e])
  <1>1. s \in Socket /\ sock \in [End -> Socket] /\ wire \in [End -> Seq(TransferMessage)]
    BY DEF TransferTypeOK
  <1>2. ASSUME wire[e] # <<>>
        PROVE  m \in TransferMessage
    BY <1>1, <1>2
  <1>3. <<>> \in Seq(TransferMessage) /\ \A a \in TransferMessage : <<a>> \in Seq(TransferMessage)
    OBVIOUS
  <1> HIDE DEF m
  <1>4. CASE ReceiveFileRequest(e)
    <2> DEFINE f == m.file
               r == [s EXCEPT !.busy = TRUE, !.dev = Writing(f), !.name = In(f)]
               refused == [r EXCEPT !.busy = FALSE, !.dev = NoDev]
    <2>1. wire[e] # <<>> /\ f \in File
      BY <1>2, <1>4, MessageFields DEF ReceiveFileRequest, Reads, m
    <2>2. r \in Socket /\ r.busy /\ refused \in Socket /\ ~refused.busy
      BY <1>1, <2>1, ReceiverSocket
    <2>3. <<Answer10(FALSE)>> \in Seq(TransferMessage) /\ <<Answer10(TRUE)>> \in Seq(TransferMessage)
      BY <1>3, MessageTypes
    <2>4. UNCHANGED <<asked, told>>
      BY <1>4 DEF ReceiveFileRequest
    <2>5. \/ /\ Handled(e, refused, Checked(refused), <<Answer10(FALSE)>>)
             /\ UNCHANGED stored
          \/ /\ Handled(e, r, r, <<Answer10(TRUE)>>)
             /\ stored' = [stored EXCEPT ![e][f] = "empty"]
      BY <1>4 DEF ReceiveFileRequest, m
    <2> HIDE DEF refused, r, f
    <2>6. CASE /\ Handled(e, refused, Checked(refused), <<Answer10(FALSE)>>)
               /\ UNCHANGED stored
      <3>1. Checked(refused) \in Socket /\ Starts(refused, Checked(refused))
        BY <2>2, CheckedSocket
      <3>2. /\ sock' \in [End -> Socket] /\ wire' \in [End -> Seq(TransferMessage)]
            /\ UNCHANGED <<online, losses>>
        BY <1>1, <2>1, <2>3, <2>6, <3>1, HandledTyped
      <3> QED
        BY <2>4, <2>6, <3>2 DEF TransferTypeOK
    <2>7. CASE /\ Handled(e, r, r, <<Answer10(TRUE)>>)
               /\ stored' = [stored EXCEPT ![e][f] = "empty"]
      <3>1. Starts(r, r)
        BY DEF Starts
      <3>2. /\ sock' \in [End -> Socket] /\ wire' \in [End -> Seq(TransferMessage)]
            /\ UNCHANGED <<online, losses>>
        BY <1>1, <2>1, <2>2, <2>3, <2>7, <3>1, HandledTyped
      <3> QED
        BY <2>1, <2>4, <2>7, <3>2 DEF TransferTypeOK, Content
    <2> QED
      BY <2>5, <2>6, <2>7
  <1>5. CASE SendFileRemoteHostReady(e)
    <2> DEFINE failed == [s EXCEPT !.busy = FALSE, !.dev = NoDev]
               sent == [s EXCEPT !.dev = NoDev]
               blocks == IF s.dev[1] = "read" THEN <<Block(s.dev[2])>> ELSE <<>>
    <2>1. /\ failed \in Socket /\ ~failed.busy /\ sent \in Socket /\ sent.busy = s.busy
      BY <1>1, ClosedSocket
    <2>2. wire[e] # <<>>
      BY <1>5 DEF SendFileRemoteHostReady, Reads
    <2>3. blocks \in Seq(TransferMessage)
      BY <1>1, <1>3, SumTyped, MessageTypes
    <2>4. ASSUME NEW t \in Socket, NEW u \in Socket, Starts(t, u), NEW q \in Seq(TransferMessage),
                 Handled(e, t, u, q), UNCHANGED stored, asked' \subseteq File,
                 told' \in [End -> Seq(Name \X BOOLEAN)]
          PROVE  TransferTypeOK'
      <3>1. /\ sock' \in [End -> Socket] /\ wire' \in [End -> Seq(TransferMessage)]
            /\ UNCHANGED <<online, losses>>
        BY <1>1, <2>2, <2>4, HandledTyped
      <3> QED
        BY <2>4, <3>1 DEF TransferTypeOK
    <2>5. asked \subseteq File /\ told \in [End -> Seq(Name \X BOOLEAN)] /\ UNCHANGED stored
      BY <1>5 DEF TransferTypeOK, SendFileRemoteHostReady
    <2>6. CASE ~m.ok
      <3>1. /\ Tell(e, FALSE)
            /\ \/ /\ Handled(e, failed, Checked(failed), <<>>)
                  /\ UNCHANGED asked
               \/ \E f \in File \ asked :
                     /\ Handled(e, failed, Prepared(failed, f), <<>>)
                     /\ asked' = asked \union {f}
        BY <1>5, <2>6 DEF SendFileRemoteHostReady, m
      <3> HIDE DEF failed
      <3>2. told' \in [End -> Seq(Name \X BOOLEAN)]
        BY <3>1, ToldTyped
      <3>3. CASE Handled(e, failed, Checked(failed), <<>>) /\ UNCHANGED asked
        <4>1. Checked(failed) \in Socket /\ Starts(failed, Checked(failed))
          BY <2>1, CheckedSocket
        <4> QED
          BY <1>3, <2>1, <2>4, <2>5, <3>2, <3>3, <4>1
      <3>4. ASSUME NEW f \in File \ asked, Handled(e, failed, Prepared(failed, f), <<>>),
                   asked' = asked \union {f}
            PROVE  TransferTypeOK'
        <4>1. Prepared(failed, f) \in Socket /\ Starts(failed, Prepared(failed, f))
          BY <2>1, PreparedSocket
        <4> QED
          BY <1>3, <2>1, <2>4, <2>5, <3>2, <3>4, <4>1
      <3> QED
        BY <3>1, <3>3, <3>4
    <2>7. CASE m.ok
      <3>1. /\ UNCHANGED <<asked, told>>
            /\ \/ Handled(e, s, s, <<>>)
               \/ \E sum \in {Sum(s.name)} \union
                             IF "differ" \in Faults THEN {<<"other", NoFile>>} ELSE {} :
                     Handled(e, sent, sent, blocks \o <<Request11(sum)>>)
        BY <1>5, <2>7 DEF SendFileRemoteHostReady, m
      <3>2. Starts(s, s) /\ Starts(sent, sent)
        BY DEF Starts
      <3> HIDE DEF sent, blocks
      <3>3. CASE Handled(e, s, s, <<>>)
        BY <1>1, <1>3, <2>4, <2>5, <3>1, <3>2, <3>3
      <3>4. ASSUME NEW sum \in {Sum(s.name)} \union
                               IF "differ" \in Faults THEN {<<"other", NoFile>>} ELSE {},
                   Handled(e, sent, sent, blocks \o <<Request11(sum)>>)
            PROVE  TransferTypeOK'
        <4>1. sum \in SumValue
          BY <1>1, SumTyped
        <4>2. <<Request11(sum)>> \in Seq(TransferMessage)
          BY <1>3, <4>1, MessageTypes
        <4>3. blocks \o <<Request11(sum)>> \in Seq(TransferMessage)
          BY <2>3, <4>2
        <4> QED
          BY <2>1, <2>4, <2>5, <3>1, <3>2, <3>4, <4>3
      <3> QED
        BY <3>1, <3>3, <3>4
    <2> QED
      BY <2>6, <2>7
  <1>6. CASE ReceiveBlock(e)
    <2>1. wire[e] # <<>> /\ Handled(e, s, s, <<>>) /\ UNCHANGED <<asked, told>>
      BY <1>6 DEF ReceiveBlock, Reads
    <2>2. Starts(s, s)
      BY DEF Starts
    <2>3. /\ sock' \in [End -> Socket] /\ wire' \in [End -> Seq(TransferMessage)]
          /\ UNCHANGED <<online, losses>>
      BY <1>1, <1>3, <2>1, <2>2, HandledTyped
    <2>4. stored' \in [End -> [File -> Content]]
      <3>1. s.dev[1] = "write" => s.dev[2] \in File
        BY <1>1 DEF Socket, Dev, NoDev
      <3>2. stored \in [End -> [File -> Content]] /\ {"whole", "other"} \subseteq Content
        BY DEF TransferTypeOK, Content
      <3>3. \/ UNCHANGED stored
            \/ /\ s.dev[1] = "write"
               /\ \E c \in {"whole", "other"} : stored' = [stored EXCEPT ![e][s.dev[2]] = c]
        BY <1>6 DEF ReceiveBlock
      <3> QED
        BY <3>1, <3>2, <3>3
    <2> QED
      BY <2>1, <2>3, <2>4 DEF TransferTypeOK
  <1>7. CASE ReceiveFileDone(e)
    <2> DEFINE closed == Dropped(s)
               same == Same(e, m.sum)
    <2>1. /\ wire[e] # <<>> /\ Handled(e, closed, Checked(closed), <<Answer11(same)>>)
          /\ UNCHANGED <<asked, told>>
          /\ stored' = IF ~same /\ s.name[1] = "in"
                       THEN [stored EXCEPT ![e][s.name[2]] = "none"] ELSE stored
      BY <1>7 DEF ReceiveFileDone, Reads, m
    <2>2. closed \in Socket /\ same \in BOOLEAN
      BY <1>1, DroppedSocket DEF Same
    <2> HIDE DEF closed, same
    <2>3. Checked(closed) \in Socket /\ Starts(closed, Checked(closed))
      BY <2>2, CheckedSocket
    <2>4. <<Answer11(same)>> \in Seq(TransferMessage)
      BY <1>3, <2>2, MessageTypes
    <2>5. /\ sock' \in [End -> Socket] /\ wire' \in [End -> Seq(TransferMessage)]
          /\ UNCHANGED <<online, losses>>
      BY <1>1, <2>1, <2>3, <2>4, HandledTyped
    <2>6. s.name[1] = "in" => s.name[2] \in File
      BY <1>1 DEF Socket, Name, NoName
    <2> QED
      BY <2>1, <2>5, <2>6 DEF TransferTypeOK, Content
  <1>8. CASE SendFileRemoteHostDoneCheck(e)
    <2> DEFINE failed == [s EXCEPT !.busy = FALSE, !.dev = NoDev]
               closed == Dropped(s)
    <2>1. /\ wire[e] # <<>> /\ UNCHANGED <<stored, asked>> /\ Tell(e, m.ok)
          /\ \/ Handled(e, closed, Checked(closed), <<>>)
             \/ Handled(e, failed, failed, <<>>)
      BY <1>8 DEF SendFileRemoteHostDoneCheck, Reads, m
    <2>2. m.ok \in BOOLEAN
      BY <1>2, <1>8, MessageFields DEF SendFileRemoteHostDoneCheck, Reads, m
    <2>3. closed \in Socket /\ failed \in Socket /\ Starts(failed, failed)
      BY <1>1, DroppedSocket, ClosedSocket DEF Starts
    <2> HIDE DEF closed, failed
    <2>4. Checked(closed) \in Socket /\ Starts(closed, Checked(closed))
      BY <2>3, CheckedSocket
    <2>5. /\ sock' \in [End -> Socket] /\ wire' \in [End -> Seq(TransferMessage)]
          /\ UNCHANGED <<online, losses>>
      BY <1>1, <1>3, <2>1, <2>3, <2>4, HandledTyped
    <2>6. told' \in [End -> Seq(Name \X BOOLEAN)]
      BY <2>1, <2>2, ToldTyped
    <2> QED
      BY <2>1, <2>5, <2>6 DEF TransferTypeOK
  <1> QED
    BY <1>4, <1>5, <1>6, <1>7, <1>8 DEF Message

\* What is left of a wire when the connection is lost.
LEMMA CutTyped ==
    ASSUME NEW w \in Seq(TransferMessage), NEW c \in Prefix(w)
    PROVE  /\ c \in Seq(TransferMessage) /\ Append(c, Close) \in Seq(TransferMessage)
           /\ Len(c) <= Len(w) /\ \A i \in 1..Len(c) : c[i] = w[i]
  <1>1. PICK k \in 0..Len(w) : c = SubSeq(w, 1, k)
    BY DEF Prefix
  <1>2. Len(w) \in Nat /\ k \in Nat /\ k <= Len(w)
    OBVIOUS
  <1>3. c \in Seq(TransferMessage) /\ Len(c) = k /\ \A i \in 1..k : c[i] = w[i]
    BY <1>1, <1>2
  <1> QED
    BY <1>2, <1>3, MessageTypes

\* The connection keeps the types.
LEMMA ConnectionTyped ==
    ASSUME TransferAssumption, TransferTypeOK, Connection
    PROVE  TransferTypeOK'
  <1>1. CASE Lose
    <2>1. PICK c \in Prefix(wire["client"]), s \in Prefix(wire["server"]) :
             wire' = [e \in End |-> Append(IF e = "client" THEN c ELSE s, Close)]
      BY <1>1 DEF Lose
    <2>2. /\ wire["client"] \in Seq(TransferMessage)
          /\ wire["server"] \in Seq(TransferMessage)
      BY DEF TransferTypeOK, End
    <2>3. Append(c, Close) \in Seq(TransferMessage) /\ Append(s, Close) \in Seq(TransferMessage)
      BY <2>1, <2>2, CutTyped
    <2>4. wire' \in [End -> Seq(TransferMessage)]
      BY <2>1, <2>3
    <2>5. losses' \in 0..MaxLosses
      BY <1>1 DEF Lose, TransferTypeOK, TransferAssumption
    <2> QED
      BY <1>1, <2>4, <2>5 DEF Lose, TransferTypeOK
  <1>2. CASE Reconnect
    <2>1. NewSocket \in Socket /\ <<>> \in Seq(TransferMessage)
      BY DEF NewSocket, Socket, Dev, Name
    <2> QED
      BY <1>2, <2>1 DEF Reconnect, TransferTypeOK
  <1>3. ASSUME NEW e \in End, CloseConnection(e)
        PROVE  TransferTypeOK'
    <2>1. sock[e] \in Socket /\ <<>> \in Seq(TransferMessage)
      BY DEF TransferTypeOK
    <2>2. [sock[e] EXCEPT !.dev = NoDev] \in Socket
      BY <2>1, ClosedSocket
    <2> QED
      BY <1>3, <2>1, <2>2 DEF CloseConnection, TransferTypeOK
  <1> QED
    BY <1>1, <1>2, <1>3 DEF Connection

\* Sockets, wires, stored files and reports have their types, whatever the
\* owners and the connection do (class DiscompSocket).
THEOREM TransferTypesCorrect ==
    ASSUME TransferAssumption
    PROVE  TransferSpec => []TransferTypeOK
  <1>1. TransferInit => TransferTypeOK
    <2>1. NewSocket \in Socket /\ \A S : <<>> \in Seq(S)
      BY DEF NewSocket, Socket, Dev, Name
    <2> QED
      BY <2>1 DEF TransferInit, TransferTypeOK, TransferAssumption, Content
  <1>2. TransferTypeOK /\ [TransferNext]_transferVars => TransferTypeOK'
    <2>1. TransferTypeOK /\ UNCHANGED transferVars => TransferTypeOK'
      BY DEF transferVars, TransferTypeOK
    <2> QED
      BY <2>1, OwnerTyped, MessageTyped, ConnectionTyped DEF TransferNext
  <1> QED
    BY <1>1, <1>2, PTL DEF TransferSpec

---------------------------------------------------------------------------
(* What can be read of a wire.                                             *)

\* v holds no more of what can be read than w.
Shorter(w, v) ==
    /\ Nothing(w) => Nothing(v)
    /\ \A m : Only(w, m) => Only(v, m) \/ Nothing(v)
    /\ \A m, n : Pair(w, m, n) => Pair(v, m, n) \/ Only(v, m) \/ Nothing(v)

\* What is written where nothing was to read.
LEMMA Behind ==
    ASSUME NEW w \in Seq(TransferMessage), Nothing(w),
           NEW m \in TransferMessage, NEW n \in TransferMessage
    PROVE  /\ w \o <<>> = w
           /\ Only(w \o <<m>>, m) \/ Nothing(w \o <<m>>)
           /\ Pair(w \o <<m, n>>, m, n) \/ Nothing(w \o <<m, n>>)
  <1>1. w \o <<>> = w
    OBVIOUS
  <1>2. /\ Len(w \o <<m>>) = Len(w) + 1 /\ (w \o <<m>>)[Len(w) + 1] = m
        /\ \A i \in 1..Len(w) : (w \o <<m>>)[i] = w[i]
    OBVIOUS
  <1>3. /\ Len(w \o <<m, n>>) = Len(w) + 2
        /\ (w \o <<m, n>>)[Len(w) + 1] = m /\ (w \o <<m, n>>)[Len(w) + 2] = n
        /\ \A i \in 1..Len(w) : (w \o <<m, n>>)[i] = w[i]
    OBVIOUS
  <1>4. Len(w) \in Nat /\ (0 < Len(w) => w[1] = Close)
    BY DEF Nothing, Readable
  <1>5. CASE Len(w) = 0
    BY <1>1, <1>2, <1>3, <1>5 DEF Only, Pair, Readable
  <1>6. CASE Len(w) > 0
    BY <1>1, <1>2, <1>3, <1>4, <1>6 DEF Nothing, Readable
  <1> QED
    BY <1>4, <1>5, <1>6

\* What a lost connection leaves of a wire.
LEMMA CutShorter ==
    ASSUME NEW w \in Seq(TransferMessage), NEW c \in Prefix(w)
    PROVE  Shorter(w, Append(c, Close))
  <1> DEFINE v == Append(c, Close)
  <1>1. /\ c \in Seq(TransferMessage) /\ Len(c) <= Len(w) /\ Len(w) \in Nat /\ Len(c) \in Nat
        /\ \A i \in 1..Len(c) : c[i] = w[i]
    BY CutTyped
  <1>2. /\ Len(v) = Len(c) + 1 /\ v[Len(c) + 1] = Close
        /\ \A i \in 1..Len(c) : v[i] = w[i]
    BY <1>1, MessageTypes
  <1> HIDE DEF v
  <1>3. \A k \in Nat : k <= Len(c) /\ Readable(w, k) => Readable(v, k)
    BY <1>1, <1>2 DEF Readable
  <1>4. Readable(v, Len(c))
    BY <1>1, <1>2 DEF Readable
  <1>5. Len(c) >= 1 => v[1] = w[1]
    BY <1>1, <1>2
  <1>6. Len(c) >= 2 => v[2] = w[2]
    BY <1>1, <1>2
  <1>7. Len(c) = 0 \/ Len(c) = 1 \/ Len(c) >= 2
    <2>1. \A n \in Nat : n = 0 \/ n = 1 \/ n >= 2
      OBVIOUS
    <2> QED
      BY <1>1, <2>1
  <1>8. Nothing(w) => Nothing(v)
    BY <1>1, <1>3 DEF Nothing
  <1>9. ASSUME NEW m, Only(w, m)
        PROVE  Only(v, m) \/ Nothing(v)
    BY <1>3, <1>4, <1>5, <1>7, <1>9 DEF Only, Nothing
  <1>10. ASSUME NEW m, NEW n, Pair(w, m, n)
         PROVE  Pair(v, m, n) \/ Only(v, m) \/ Nothing(v)
    BY <1>3, <1>4, <1>5, <1>6, <1>7, <1>10 DEF Pair, Only, Nothing
  <1> QED
    BY <1>8, <1>9, <1>10 DEF Shorter, v

\* What remains when the first message has been read.
LEMMA TailReadable ==
    ASSUME NEW w \in Seq(TransferMessage), w # <<>>
    PROVE  /\ Tail(w) \in Seq(TransferMessage) /\ Head(w) = w[1]
           /\ \A m : Only(w, m) => Nothing(Tail(w))
           /\ \A m, n : Pair(w, m, n) => Only(Tail(w), n)
           /\ Nothing(w) => Head(w) = Close
  <1>1. /\ Len(w) \in Nat /\ Len(w) > 0 /\ Len(Tail(w)) = Len(w) - 1
        /\ \A i \in 1..(Len(w) - 1) : Tail(w)[i] = w[i + 1]
        /\ Tail(w) \in Seq(TransferMessage) /\ Head(w) = w[1]
    OBVIOUS
  <1>2. ASSUME NEW m, Only(w, m)
        PROVE  Nothing(Tail(w))
    BY <1>1, <1>2 DEF Only, Nothing, Readable
  <1>3. ASSUME NEW m, NEW n, Pair(w, m, n)
        PROVE  Only(Tail(w), n)
    BY <1>1, <1>3 DEF Only, Pair, Readable
  <1>4. Nothing(w) => Head(w) = Close
    BY <1>1 DEF Nothing, Readable
  <1> QED
    BY <1>1, <1>2, <1>3, <1>4

---------------------------------------------------------------------------
(* The file that is on its way.                                            *)

\* What is to read of each wire belongs to the file an end is sending.
LEMMA MessageOfFile ==
    ASSUME TransferTypeOK, Flow, NEW e \in End, wire[e] # <<>>, Head(wire[e]).id # "close"
    PROVE  LET m == Head(wire[e])
               p == Peer(e)
           IN  \/ \E f \in File :
                     /\ Sends(p, f) /\ Nothing(wire[p])
                     /\ \/ m = Request10(f) /\ Only(wire[e], m)
                        \/ /\ m = Block(f)
                           /\ \/ Only(wire[e], m)
                              \/ \E sum \in Sums(f) : Pair(wire[e], m, Request11(sum))
                           /\ Receiving(e, f) /\ stored[e][f] = "empty"
                        \/ /\ \E sum \in Sums(f) : m = Request11(sum)
                           /\ Only(wire[e], m)
                           /\ Receiving(e, f) /\ stored[e][f] \in {"empty", "whole"}
               \/ \E f \in File :
                     /\ Sends(e, f) /\ Nothing(wire[p]) /\ Only(wire[e], m)
                     /\ \/ m = Answer10(FALSE)
                        \/ m = Answer10(TRUE) /\ Receiving(p, f) /\ stored[p][f] = "empty"
                        \/ \E ok \in BOOLEAN :
                              m = Answer11(ok) /\ (ok => stored[p][f] = "whole")
  <1> DEFINE m == Head(wire[e])
             p == Peer(e)
  <1>1. wire[e] \in Seq(TransferMessage) /\ m = wire[e][1] /\ Close.id = "close"
    BY TailReadable DEF TransferTypeOK, Close
  <1>2. ~Nothing(wire[e])
    BY <1>1, TailReadable
  <1>3. PICK x \in End, f \in File : Sends(x, f) /\ Underway(x, Peer(x), f)
    BY <1>2 DEF Flow, Quiet
  <1>4. CASE x = e
    <2>1. Underway(e, p, f)
      BY <1>3, <1>4
    <2>2. /\ Nothing(wire[p])
          /\ \/ Only(wire[e], Answer10(FALSE))
             \/ Only(wire[e], Answer10(TRUE)) /\ Receiving(p, f) /\ stored[p][f] = "empty"
             \/ \E ok \in BOOLEAN : Only(wire[e], Answer11(ok)) /\ (ok => stored[p][f] = "whole")
      BY <1>2, <2>1 DEF Underway
    <2>3. \A n : Only(wire[e], n) => m = n
      BY <1>1 DEF Only
    <2> HIDE DEF m, p
    <2>4. /\ Only(wire[e], m)
          /\ \/ m = Answer10(FALSE)
             \/ m = Answer10(TRUE) /\ Receiving(p, f) /\ stored[p][f] = "empty"
             \/ \E ok \in BOOLEAN : m = Answer11(ok) /\ (ok => stored[p][f] = "whole")
      BY <2>2, <2>3
    <2> QED
      BY <1>3, <1>4, <2>2, <2>4 DEF m, p
  <1>5. CASE x = Peer(e)
    <2>1. Peer(x) = e /\ Underway(p, e, f) /\ Sends(p, f)
      BY <1>3, <1>5, Ends
    <2>2. /\ Nothing(wire[p])
          /\ \/ Only(wire[e], Request10(f))
             \/ /\ \/ Only(wire[e], Block(f))
                   \/ \E sum \in Sums(f) : Pair(wire[e], Block(f), Request11(sum))
                /\ Receiving(e, f) /\ stored[e][f] = "empty"
             \/ /\ \E sum \in Sums(f) : Only(wire[e], Request11(sum))
                /\ Receiving(e, f) /\ stored[e][f] \in {"empty", "whole"}
      BY <1>2, <2>1 DEF Underway
    <2>3. (\A n : Only(wire[e], n) => m = n) /\ \A n, q : Pair(wire[e], n, q) => m = n
      BY <1>1 DEF Only, Pair
    <2> HIDE DEF m, p
    <2>4. \/ m = Request10(f) /\ Only(wire[e], m)
          \/ /\ m = Block(f)
             /\ \/ Only(wire[e], m)
                \/ \E sum \in Sums(f) : Pair(wire[e], m, Request11(sum))
             /\ Receiving(e, f) /\ stored[e][f] = "empty"
          \/ /\ \E sum \in Sums(f) : m = Request11(sum)
             /\ Only(wire[e], m)
             /\ Receiving(e, f) /\ stored[e][f] \in {"empty", "whole"}
      BY <2>2, <2>3
    <2> QED
      BY <2>1, <2>2, <2>4 DEF m, p
  <1> QED
    BY <1>3, <1>4, <1>5, Ends

\* The same, by the kind of the message.
LEMMA MessageByKind ==
    ASSUME TransferTypeOK, Flow, NEW e \in End, wire[e] # <<>>
    PROVE  LET m == Head(wire[e])
               p == Peer(e)
           IN  /\ m.id = "request10" =>
                     \E f \in File :
                        /\ Sends(p, f) /\ Nothing(wire[p])
                        /\ m = Request10(f) /\ Only(wire[e], m)
               /\ m.id = "block" =>
                     \E f \in File :
                        /\ Sends(p, f) /\ Nothing(wire[p]) /\ m = Block(f)
                        /\ \/ Only(wire[e], m)
                           \/ \E sum \in Sums(f) : Pair(wire[e], m, Request11(sum))
                        /\ Receiving(e, f) /\ stored[e][f] = "empty"
               /\ m.id = "request11" =>
                     \E f \in File :
                        /\ Sends(p, f) /\ Nothing(wire[p])
                        /\ \E sum \in Sums(f) : m = Request11(sum)
                        /\ Only(wire[e], m)
                        /\ Receiving(e, f) /\ stored[e][f] \in {"empty", "whole"}
               /\ m.id = "answer10" =>
                     \E f \in File :
                        /\ Sends(e, f) /\ Nothing(wire[p]) /\ Only(wire[e], m)
                        /\ \/ m = Answer10(FALSE)
                           \/ m = Answer10(TRUE) /\ Receiving(p, f) /\ stored[p][f] = "empty"
               /\ m.id = "answer11" =>
                     \E f \in File :
                        /\ Sends(e, f) /\ Nothing(wire[p]) /\ Only(wire[e], m)
                        /\ \E ok \in BOOLEAN : m = Answer11(ok) /\ (ok => stored[p][f] = "whole")
  <1> DEFINE m == Head(wire[e])
             p == Peer(e)
  <1>1. CASE m.id = "close"
    BY <1>1
  <1>2. CASE m.id # "close"
    <2>1. \/ \E f \in File :
                /\ Sends(p, f) /\ Nothing(wire[p])
                /\ \/ m = Request10(f) /\ Only(wire[e], m)
                   \/ /\ m = Block(f)
                      /\ \/ Only(wire[e], m)
                         \/ \E sum \in Sums(f) : Pair(wire[e], m, Request11(sum))
                      /\ Receiving(e, f) /\ stored[e][f] = "empty"
                   \/ /\ \E sum \in Sums(f) : m = Request11(sum)
                      /\ Only(wire[e], m)
                      /\ Receiving(e, f) /\ stored[e][f] \in {"empty", "whole"}
          \/ \E f \in File :
                /\ Sends(e, f) /\ Nothing(wire[p]) /\ Only(wire[e], m)
                /\ \/ m = Answer10(FALSE)
                   \/ m = Answer10(TRUE) /\ Receiving(p, f) /\ stored[p][f] = "empty"
                   \/ \E ok \in BOOLEAN :
                         m = Answer11(ok) /\ (ok => stored[p][f] = "whole")
      BY <1>2, MessageOfFile
    <2>2. /\ \A f : Request10(f).id = "request10" /\ Block(f).id = "block"
          /\ \A sum : Request11(sum).id = "request11"
          /\ \A ok : Answer11(ok).id = "answer11"
      BY DEF Request10, Block, Request11, Answer11
    <2>3. Answer10(FALSE).id = "answer10" /\ Answer10(TRUE).id = "answer10"
      BY DEF Answer10
    <2> HIDE DEF m, p
    <2>4. ASSUME m.id = "request10"
          PROVE  \E f \in File : /\ Sends(p, f) /\ Nothing(wire[p])
                                 /\ m = Request10(f) /\ Only(wire[e], m)
      BY <2>1, <2>2, <2>3, <2>4
    <2>5. ASSUME m.id = "block"
          PROVE  \E f \in File :
                    /\ Sends(p, f) /\ Nothing(wire[p]) /\ m = Block(f)
                    /\ \/ Only(wire[e], m)
                       \/ \E sum \in Sums(f) : Pair(wire[e], m, Request11(sum))
                    /\ Receiving(e, f) /\ stored[e][f] = "empty"
      BY <2>1, <2>2, <2>3, <2>5
    <2>6. ASSUME m.id = "request11"
          PROVE  \E f \in File :
                    /\ Sends(p, f) /\ Nothing(wire[p])
                    /\ \E sum \in Sums(f) : m = Request11(sum)
                    /\ Only(wire[e], m)
                    /\ Receiving(e, f) /\ stored[e][f] \in {"empty", "whole"}
      BY <2>1, <2>2, <2>3, <2>6
    <2>7. ASSUME m.id = "answer10"
          PROVE  \E f \in File :
                    /\ Sends(e, f) /\ Nothing(wire[p]) /\ Only(wire[e], m)
                    /\ \/ m = Answer10(FALSE)
                       \/ m = Answer10(TRUE) /\ Receiving(p, f) /\ stored[p][f] = "empty"
      BY <2>1, <2>2, <2>3, <2>7
    <2>8. ASSUME m.id = "answer11"
          PROVE  \E f \in File :
                    /\ Sends(e, f) /\ Nothing(wire[p]) /\ Only(wire[e], m)
                    /\ \E ok \in BOOLEAN : m = Answer11(ok) /\ (ok => stored[p][f] = "whole")
      BY <2>1, <2>2, <2>3, <2>8
    <2> QED
      BY <2>4, <2>5, <2>6, <2>7, <2>8 DEF m, p
  <1> QED
    BY <1>1, <1>2

\* Sockets that only close their file, and wires that only lose messages.
LEMMA FlowKept ==
    ASSUME Flow, UNCHANGED stored,
           \A e \in End : /\ Shorter(wire[e], wire'[e])
                          /\ sock'[e].busy = sock[e].busy /\ sock'[e].name = sock[e].name
                          /\ sock'[e].dev \in {sock[e].dev, NoDev}
    PROVE  Flow'
  <1>1. CASE Quiet
    BY <1>1 DEF Quiet, Flow, Shorter
  <1>2. ASSUME NEW e \in End, NEW f \in File, Sends(e, f), Underway(e, Peer(e), f)
        PROVE  Flow'
    <2> DEFINE p == Peer(e)
    <2>1. p \in End /\ \A x \in End : x = e \/ x = p
      BY Ends
    <2>2. Sends(e, f)'
      BY <1>2 DEF Sends, FileOf
    <2>3. Receiving(p, f) => Receiving(p, f)'
      BY <2>1 DEF Receiving
    <2>4. Shorter(wire[e], wire'[e]) /\ Shorter(wire[p], wire'[p])
      BY <2>1
    <2>5. Underway(e, p, f)
      BY <1>2
    <2> HIDE DEF p
    <2>6. Underway(e, p, f)' \/ (Nothing(wire[e])' /\ Nothing(wire[p])')
      <3>1. CASE Only(wire[p], Request10(f)) /\ Nothing(wire[e])
        BY <2>4, <3>1 DEF Shorter, Underway
      <3>2. CASE Only(wire[e], Answer10(FALSE)) /\ Nothing(wire[p])
        BY <2>4, <3>2 DEF Shorter, Underway
      <3>3. CASE /\ Only(wire[e], Answer10(TRUE)) /\ Nothing(wire[p])
                 /\ Receiving(p, f) /\ stored[p][f] = "empty"
        BY <2>3, <2>4, <3>3 DEF Shorter, Underway
      <3>4. CASE /\ Only(wire[p], Block(f)) /\ Nothing(wire[e])
                 /\ Receiving(p, f) /\ stored[p][f] = "empty"
        BY <2>3, <2>4, <3>4 DEF Shorter, Underway
      <3>5. ASSUME NEW sum \in Sums(f), Pair(wire[p], Block(f), Request11(sum)),
                   Nothing(wire[e]), Receiving(p, f), stored[p][f] = "empty"
            PROVE  Underway(e, p, f)' \/ (Nothing(wire[e])' /\ Nothing(wire[p])')
        BY <2>3, <2>4, <3>5 DEF Shorter, Underway
      <3>6. ASSUME NEW sum \in Sums(f), Only(wire[p], Request11(sum)),
                   Nothing(wire[e]), Receiving(p, f), stored[p][f] \in {"empty", "whole"}
            PROVE  Underway(e, p, f)' \/ (Nothing(wire[e])' /\ Nothing(wire[p])')
        BY <2>3, <2>4, <3>6 DEF Shorter, Underway
      <3>7. ASSUME NEW ok \in BOOLEAN, Only(wire[e], Answer11(ok)),
                   ok => stored[p][f] = "whole", Nothing(wire[p])
            PROVE  Underway(e, p, f)' \/ (Nothing(wire[e])' /\ Nothing(wire[p])')
        BY <2>4, <3>7 DEF Shorter, Underway
      <3> QED
        BY <2>5, <3>1, <3>2, <3>3, <3>4, <3>5, <3>6, <3>7 DEF Underway
    <2> QED
      BY <1>2, <2>1, <2>2, <2>6 DEF Flow, Quiet, p
  <1> QED
    BY <1>1, <1>2 DEF Flow

\* Nothing is to read, and a socket may open a file.
LEMMA FlowStarts ==
    ASSUME NEW e \in End, NEW s, NEW t \in Socket, Starts(s, t), sock'[e] = t,
           NEW w \in Seq(TransferMessage), Nothing(w),
           wire'[Peer(e)] \in {w, w \o Opened(s, t)}, Nothing(wire[e])'
    PROVE  Flow'
  <1> DEFINE p == Peer(e)
  <1>1. p \in End /\ \A x \in End : x = e \/ x = p
    BY Ends
  <1>2. w \o <<>> = w
    BY MessageTypes, Behind
  <1>3. CASE Nothing(wire[p])'
    BY <1>1, <1>3 DEF Flow, Quiet
  <1>4. CASE ~Nothing(wire[p])'
    <2>1. wire'[p] # w
      BY <1>4
    <2>2. ~s.busy /\ t.busy
      BY <1>2, <2>1, OpenedTyped
    <2>3. PICK f \in File : /\ FileOf(t) = f /\ t.dev = Reading(f)
                            /\ Opened(s, t) = <<Request10(f)>>
      BY <2>2, OpenedTyped
    <2>4. Only(wire'[p], Request10(f))
      BY <1>4, <2>1, <2>3, MessageTypes, Behind, ZenonT(60)
    <2>5. Sends(e, f)' /\ Underway(e, p, f)'
      BY <2>3, <2>4 DEF Sends, Underway
    <2> QED
      BY <2>5 DEF Flow
  <1> QED
    BY <1>3, <1>4

---------------------------------------------------------------------------
(* What has been reported, and what has still to be.                       *)

\* A step without a report: a socket owes no more than before, and what the
\* owner has asked for now.
LEMMA AccountedKept ==
    ASSUME Accounted, NEW e \in End, NEW t, sock' = [sock EXCEPT ![e] = t],
           sock \in [End -> Socket],
           UNCHANGED told, asked \subseteq asked',
           Once(sock[e]) => Once(t), Owed(t) \subseteq Owed(sock[e]) \union (asked' \ asked)
    PROVE  Accounted'
  <1>1. ASSUME NEW x \in End
        PROVE  /\ Owed(sock'[x]) \subseteq Owed(sock[x]) \union (asked' \ asked)
               /\ Once(sock'[x])
    BY DEF Accounted
  <1>2. ASSUME NEW x \in End
        PROVE  /\ Owed(sock'[x]) \subseteq asked'
               /\ \A i \in DOMAIN told[x] :
                     \E f \in asked' \ Owed(sock'[x]) : told[x][i][1] = Out(f)
    <2>1. Owed(sock[x]) \subseteq asked
      BY DEF Accounted
    <2>2. ASSUME NEW i \in DOMAIN told[x]
          PROVE  \E f \in asked' \ Owed(sock'[x]) : told[x][i][1] = Out(f)
      <3>1. PICK f \in asked \ Owed(sock[x]) : told[x][i][1] = Out(f)
        BY DEF Accounted
      <3>2. f \in asked' /\ f \notin Owed(sock'[x])
        BY <1>1, <3>1
      <3> QED
        BY <3>1, <3>2
    <2> QED
      BY <1>1, <2>1, <2>2
  <1> QED
    BY <1>1, <1>2 DEF Accounted

\* A step with a report about a file the socket no longer owes.
LEMMA AccountedTold ==
    ASSUME Accounted, NEW e \in End, NEW t, sock' = [sock EXCEPT ![e] = t],
           sock \in [End -> Socket], told \in [End -> Seq(Name \X BOOLEAN)],
           NEW g \in Owed(sock[e]), NEW ok \in BOOLEAN, g \notin Owed(t),
           g \in File,
           told' = [told EXCEPT ![e] = Append(@, <<Out(g), ok>>)], asked \subseteq asked',
           Once(t), Owed(t) \subseteq Owed(sock[e]) \union (asked' \ asked)
    PROVE  Accounted'
  <1>1. ASSUME NEW x \in End
        PROVE  /\ Owed(sock'[x]) \subseteq Owed(sock[x]) \union (asked' \ asked)
               /\ Once(sock'[x])
    BY DEF Accounted
  <1>2. ASSUME NEW x \in End
        PROVE  /\ Owed(sock'[x]) \subseteq asked'
               /\ \A i \in DOMAIN told[x] :
                     \E f \in asked' \ Owed(sock'[x]) : told[x][i][1] = Out(f)
    <2>1. Owed(sock[x]) \subseteq asked
      BY DEF Accounted
    <2>2. ASSUME NEW i \in DOMAIN told[x]
          PROVE  \E f \in asked' \ Owed(sock'[x]) : told[x][i][1] = Out(f)
      <3>1. PICK f \in asked \ Owed(sock[x]) : told[x][i][1] = Out(f)
        BY DEF Accounted
      <3>2. f \in asked' /\ f \notin Owed(sock'[x])
        BY <1>1, <3>1
      <3> QED
        BY <3>1, <3>2
    <2> QED
      BY <1>1, <2>1, <2>2
  <1>3. g \in asked' \ Owed(sock'[e])
    BY DEF Accounted
  <1>4. /\ \A x \in End : x # e => told'[x] = told[x]
        /\ told'[e] = Append(told[e], <<Out(g), ok>>)
    OBVIOUS
  <1>5. Out(g) \in Name
    BY DEF Name, Out
  <1>6. ASSUME NEW i \in DOMAIN told'[e]
        PROVE  (i \in DOMAIN told[e] /\ told'[e][i] = told[e][i]) \/ told'[e][i] = <<Out(g), ok>>
    BY <1>4, <1>5
  <1>7. \A i \in DOMAIN told'[e] :
           \E f \in asked' \ Owed(sock'[e]) : told'[e][i][1] = Out(f)
    BY <1>2, <1>3, <1>6
  <1> QED
    BY <1>1, <1>2, <1>4, <1>7 DEF Accounted

\* What was reported stays true while only files still owed change.
LEMMA IntactKept ==
    ASSUME Accounted, DeliveredIntact, ToldOnce, UNCHANGED told, asked \subseteq File,
           \A e \in End, f \in File :
               stored'[Peer(e)][f] # stored[Peer(e)][f] => f \in Owed(sock[e])
    PROVE  DeliveredIntact' /\ ToldOnce'
  <1>1. ToldOnce'
    BY DEF ToldOnce
  <1>2. ASSUME NEW e \in End, NEW i \in DOMAIN told[e], told[e][i][2]
        PROVE  /\ told[e][i][1][1] = "out"
               /\ stored'[Peer(e)][told[e][i][1][2]] = "whole"
    <2>1. PICK f \in asked \ Owed(sock[e]) : told[e][i][1] = Out(f)
      BY DEF Accounted
    <2>2. stored'[Peer(e)][f] = stored[Peer(e)][f]
      BY <2>1
    <2> QED
      BY <1>2, <2>1, <2>2 DEF DeliveredIntact, Out
  <1> QED
    BY <1>1, <1>2 DEF DeliveredIntact

\* A report about a file that was still owed.
LEMMA IntactTold ==
    ASSUME Accounted, DeliveredIntact, ToldOnce, UNCHANGED stored,
           told \in [End -> Seq(Name \X BOOLEAN)],
           NEW e \in End, NEW g \in Owed(sock[e]), NEW ok \in BOOLEAN, g \in File,
           ok => stored[Peer(e)][g] = "whole",
           told' = [told EXCEPT ![e] = Append(@, <<Out(g), ok>>)]
    PROVE  DeliveredIntact' /\ ToldOnce'
  <1> DEFINE q == told[e]
             r == told'[e]
             n == Len(q) + 1
  <1>1. Out(g) \in Name /\ Out(g)[1] = "out" /\ Out(g)[2] = g
    BY DEF Name, Out
  <1>2. /\ \A x \in End : x # e => told'[x] = told[x]
        /\ r = Append(q, <<Out(g), ok>>)
    OBVIOUS
  <1>3. /\ DOMAIN q = 1..Len(q) /\ DOMAIN r = 1..n /\ Len(q) \in Nat
        /\ \A i \in 1..Len(q) : r[i] = q[i]
        /\ r[n] = <<Out(g), ok>>
    BY <1>1, <1>2
  <1>4. ASSUME NEW i \in DOMAIN q
        PROVE  q[i][1] # Out(g)
    <2>1. PICK f \in asked \ Owed(sock[e]) : q[i][1] = Out(f)
      BY DEF Accounted
    <2> QED
      BY <2>1 DEF Out
  <1> HIDE DEF q, r
  <1>5. DeliveredIntact'
    <2>1. ASSUME NEW i \in 1..n, r[i][2]
          PROVE  r[i][1][1] = "out" /\ stored[Peer(e)][r[i][1][2]] = "whole"
      <3>1. CASE i = n
        BY <1>1, <1>3, <2>1, <3>1
      <3>2. CASE i # n
        <4>1. i \in DOMAIN q /\ r[i] = q[i]
          BY <1>3, <3>2
        <4> QED
          BY <2>1, <4>1 DEF DeliveredIntact, q
      <3> QED
        BY <3>1, <3>2
    <2>2. \A i \in DOMAIN told'[e] : told'[e][i][2] =>
             told'[e][i][1][1] = "out" /\ stored[Peer(e)][told'[e][i][1][2]] = "whole"
      BY <1>3, <2>1 DEF r
    <2> QED
      BY <1>2, <2>2 DEF DeliveredIntact
  <1>6. ToldOnce'
    <2>1. ASSUME NEW i \in 1..n, NEW j \in 1..n, r[i][1][1] = "out", r[i][1] = r[j][1]
          PROVE  i = j
      <3>1. \A k \in 1..n : k = n \/ (k \in DOMAIN q /\ r[k] = q[k])
        BY <1>3
      <3>2. \A k, m \in DOMAIN q : q[k][1][1] = "out" /\ q[k][1] = q[m][1] => k = m
        BY DEF ToldOnce, q
      <3>3. r[n][1] = Out(g)
        BY <1>3
      <3> QED
        BY <1>4, <2>1, <3>1, <3>2, <3>3
    <2>2. \A i, j \in DOMAIN told'[e] :
             told'[e][i][1][1] = "out" /\ told'[e][i][1] = told'[e][j][1] => i = j
      BY <1>3, <2>1 DEF r
    <2> QED
      BY <1>2, <2>2 DEF ToldOnce
  <1> QED
    BY <1>5, <1>6

---------------------------------------------------------------------------
(* The owners' calls.                                                      *)

\* The end that sends is not idle, and the other one is.
LEMMA OneIsIdle ==
    ASSUME TransferAssumption, OneSide, NEW e \in End, NEW f \in File, FileOf(sock[e]) = f
    PROVE  Idle(Peer(e)) /\ f \in Owed(sock[e])
  <1>1. f # NoFile
    BY DEF TransferAssumption
  <1> QED
    BY <1>1, Ends DEF OneSide, Idle, Owed

\* A call of the owner whose turn it is.
LEMMA CallFlow ==
    ASSUME TransferAssumption, TransferTypeOK, Flow, NEW e \in End, Idle(Peer(e)),
           NEW s \in Socket, NEW t \in Socket, Starts(s, t), s.busy = sock[e].busy,
           s.busy => t.busy /\ t.name = sock[e].name /\ t.dev = sock[e].dev,
           sock' = [sock EXCEPT ![e] = t], wire' = Written(e, Opened(s, t)),
           UNCHANGED stored
    PROVE  Flow' /\ OneSide'
  <1> DEFINE p == Peer(e)
  <1>1. p \in End /\ p # e /\ \A x \in End : x = e \/ x = p
    BY Ends
  <1>2. sock'[e] = t /\ sock'[p] = sock[p]
    BY <1>1 DEF TransferTypeOK
  <1>3. OneSide'
    BY <1>1, <1>2 DEF OneSide, Idle
  <1>4. wire \in [End -> Seq(TransferMessage)] /\ Opened(s, t) \in Seq(TransferMessage)
    BY OpenedTyped DEF TransferTypeOK
  <1>5. wire'[e] = wire[e] /\ wire'[p] \in {wire[p], wire[p] \o Opened(s, t)}
    BY <1>4, WrittenTyped
  <1>6. CASE s.busy
    <2>1. Opened(s, t) = <<>>
      BY <1>6, OpenedTyped
    <2>2. wire[p] \o <<>> = wire[p]
      BY <1>1, <1>4
    <2>3. wire'[e] = wire[e] /\ wire'[p] = wire[p]
      BY <1>5, <2>1, <2>2
    <2>4. \A w : Shorter(w, w)
      BY DEF Shorter
    <2>5. \A x \in End : /\ Shorter(wire[x], wire'[x])
                         /\ sock'[x].busy = sock[x].busy /\ sock'[x].name = sock[x].name
                         /\ sock'[x].dev \in {sock[x].dev, NoDev}
      BY <1>1, <1>2, <1>6, <2>3, <2>4
    <2> QED
      BY <1>3, <2>5, FlowKept
  <1>7. CASE ~s.busy
    <2>1. \A x \in End : FileOf(sock[x]) = NoFile
      BY <1>1, <1>7 DEF Idle, FileOf
    <2>2. Quiet
      BY <2>1 DEF Flow, Sends, TransferAssumption
    <2>3. Nothing(wire[p]) /\ Nothing(wire[e])' /\ wire[p] \in Seq(TransferMessage)
      BY <1>1, <1>4, <1>5, <2>2 DEF Quiet
    <2> QED
      BY <1>2, <1>3, <1>5, <2>3, FlowStarts
  <1> QED
    BY <1>6, <1>7

\* The part of DeliveryInv that is not about types.
Delivery == OneSide /\ Flow /\ Accounted /\ DeliveredIntact /\ ToldOnce

\* Where the idle end stays idle, one end is.
LEMMA OneSideKept ==
    ASSUME OneSide, sock \in [End -> Socket], NEW e \in End, NEW t,
           sock' = [sock EXCEPT ![e] = t],
           Idle(e) => FileOf(t) = NoFile /\ t.queue = <<>>
    PROVE  OneSide'
  BY DEF OneSide, Idle

\* A wire that nobody touched, and one that was emptied.
LEMMA ShorterItself ==
    ASSUME NEW w
    PROVE  Shorter(w, w) /\ Shorter(w, <<>>)
  BY DEF Shorter, Nothing, Readable

\* The calls of the owners.
LEMMA OwnerDelivery ==
    ASSUME TransferAssumption, "cross" \notin Faults, TransferTypeOK, Delivery, Owner
    PROVE  Delivery'
  <1>1. ASSUME NEW x \in End, NEW g \in File
        PROVE  stored[Peer(x)][g] = stored[Peer(x)][g]
    OBVIOUS
  <1>2. asked \subseteq File
    BY DEF TransferTypeOK
  <1>3. ASSUME NEW e \in End, NEW f \in File, SendFile(e, f)
        PROVE  Delivery'
    <2> DEFINE s == sock[e]
               t == Prepared(s, f)
    <2>1. s \in Socket /\ Idle(Peer(e)) /\ f \notin asked
      BY <1>3 DEF TransferTypeOK, SendFile, Turn, Idle
    <2>2. /\ sock' = [sock EXCEPT ![e] = t] /\ wire' = Written(e, Opened(s, t))
          /\ asked' = asked \union {f} /\ UNCHANGED <<online, losses, stored, told>>
      BY <1>3 DEF SendFile
    <2>3. Once(s) /\ f \notin Owed(s)
      BY <2>1 DEF Delivery, Accounted
    <2>4. /\ t \in Socket /\ Starts(s, t) /\ Once(t) /\ Owed(t) \subseteq Owed(s) \union {f}
          /\ s.busy => t.busy /\ t.name = s.name /\ t.dev = s.dev
      BY <2>1, <2>3, PreparedSocket
    <2> HIDE DEF t
    <2>5. Flow' /\ OneSide'
      BY <2>1, <2>2, <2>4, CallFlow DEF Delivery
    <2>6. Accounted'
      BY <2>1, <2>2, <2>4, AccountedKept DEF Delivery, TransferTypeOK
    <2>7. DeliveredIntact' /\ ToldOnce'
      BY <1>2, <2>2, IntactKept DEF Delivery
    <2> QED
      BY <2>5, <2>6, <2>7 DEF Delivery
  <1>4. ASSUME NEW e \in End, NEW f \in File, NEW g \in File, SendFiles(e, f, g)
        PROVE  Delivery'
    <2> DEFINE s == [sock[e] EXCEPT !.queue = @ \o <<f, g>>]
               t == Checked(s)
    <2>1. /\ sock[e] \in Socket /\ Idle(Peer(e)) /\ f \notin asked /\ g \notin asked /\ f # g
      BY <1>4 DEF TransferTypeOK, SendFiles, Turn, Idle
    <2>2. /\ sock' = [sock EXCEPT ![e] = t] /\ wire' = Written(e, Opened(s, t))
          /\ asked' = asked \union {f, g} /\ UNCHANGED <<online, losses, stored, told>>
      BY <1>4 DEF SendFiles
    <2>3. Once(sock[e]) /\ f \notin Owed(sock[e]) /\ g \notin Owed(sock[e])
      BY <2>1 DEF Delivery, Accounted
    <2>4. /\ s \in Socket /\ s.busy = sock[e].busy
          /\ s.name = sock[e].name /\ s.dev = sock[e].dev
          /\ Owed(s) \subseteq Owed(sock[e]) \union {f, g} /\ Once(s)
      <3> DEFINE q == sock[e].queue \o <<f, g>>
      <3>1. q \in Seq(File) /\ s = [sock[e] EXCEPT !.queue = q]
        BY <2>1, TwoJoined DEF Socket
      <3>2. q = sock[e].queue \o <<f, g>>
        OBVIOUS
      <3> HIDE DEF s, q
      <3>3. /\ s \in Socket /\ s.queue = q /\ s.busy = sock[e].busy
            /\ s.dev = sock[e].dev /\ s.name = sock[e].name /\ FileOf(s) = FileOf(sock[e])
        BY <2>1, <3>1, QueueReplaced
      <3> QED
        BY <2>1, <2>3, <3>2, <3>3, ListedSocket
    <2> HIDE DEF s
    <2>5. /\ t \in Socket /\ Starts(s, t) /\ Once(t) /\ Owed(t) \subseteq Owed(s)
          /\ s.busy => t = s
      BY <2>4, CheckedSocket
    <2> HIDE DEF t
    <2>6. s.busy => t.busy /\ t.name = sock[e].name /\ t.dev = sock[e].dev
      BY <2>4, <2>5
    <2>7. Flow' /\ OneSide'
      BY <2>1, <2>2, <2>4, <2>5, <2>6, CallFlow DEF Delivery
    <2>8. Accounted'
      <3>1. Owed(t) \subseteq Owed(sock[e]) \union (asked' \ asked)
        BY <2>1, <2>2, <2>4, <2>5
      <3> QED
        BY <2>2, <2>5, <3>1, AccountedKept DEF Delivery, TransferTypeOK
    <2>9. DeliveredIntact' /\ ToldOnce'
      BY <1>2, <2>2, IntactKept DEF Delivery
    <2> QED
      BY <2>7, <2>8, <2>9 DEF Delivery
  <1>5. ASSUME NEW e \in End, NEW t \in Socket, sock' = [sock EXCEPT ![e] = t],
               t.busy = sock[e].busy, t.name = sock[e].name, t.dev \in {sock[e].dev, NoDev},
               t.queue = <<>>, UNCHANGED <<wire, stored, asked, told>>
        PROVE  Delivery'
    <2>1. FileOf(t) = FileOf(sock[e]) /\ sock \in [End -> Socket]
      BY <1>5 DEF FileOf, TransferTypeOK
    <2>2. OneSide'
      BY <1>5, <2>1, OneSideKept DEF Delivery, Idle
    <2>3. Flow'
      <3>1. \A x \in End : /\ Shorter(wire[x], wire'[x])
                           /\ sock'[x].busy = sock[x].busy /\ sock'[x].name = sock[x].name
                           /\ sock'[x].dev \in {sock[x].dev, NoDev}
        BY <1>5, <2>1, ShorterItself
      <3> QED
        BY <1>5, <3>1, FlowKept DEF Delivery
    <2>4. Accounted'
      <3>1. ToSet(<<>>) = {}
        BY DEF ToSet
      <3>2. Once(t) /\ Owed(t) \subseteq Owed(sock[e])
        BY <1>5, <2>1, <3>1 DEF Once, Owed
      <3> QED
        BY <1>5, <2>1, <3>2, AccountedKept DEF Delivery
    <2>5. DeliveredIntact' /\ ToldOnce'
      BY <1>2, <1>5, IntactKept DEF Delivery
    <2> QED
      BY <2>2, <2>3, <2>4, <2>5 DEF Delivery
  <1>6. CASE ClearFilesQueue
    <2> DEFINE t == [sock["server"] EXCEPT !.queue = <<>>]
    <2>1. "server" \in End /\ sock["server"] \in Socket /\ <<>> \in Seq(File)
      BY DEF TransferTypeOK, End
    <2>2. /\ t \in Socket /\ t.queue = <<>> /\ t.busy = sock["server"].busy
          /\ t.dev = sock["server"].dev /\ t.name = sock["server"].name
      BY <2>1, QueueReplaced
    <2>3. sock' = [sock EXCEPT !["server"] = t] /\ UNCHANGED <<wire, stored, asked, told>>
      BY <1>6 DEF ClearFilesQueue
    <2> HIDE DEF t
    <2> QED
      BY <1>5, <2>1, <2>2, <2>3
  <1>7. CASE StopFileSending
    <2> DEFINE t == [sock["client"] EXCEPT !.dev = NoDev, !.queue = <<>>]
    <2>1. "client" \in End /\ sock["client"] \in Socket /\ <<>> \in Seq(File) /\ NoDev \in Dev
      BY DEF TransferTypeOK, End, Dev
    <2>2. /\ t \in Socket /\ t.queue = <<>> /\ t.busy = sock["client"].busy
          /\ t.dev = NoDev /\ t.name = sock["client"].name
      BY <2>1 DEF Socket
    <2>3. sock' = [sock EXCEPT !["client"] = t] /\ UNCHANGED <<wire, stored, asked, told>>
      BY <1>7 DEF StopFileSending
    <2> HIDE DEF t
    <2> QED
      BY <1>5, <2>1, <2>2, <2>3
  <1> QED
    BY <1>3, <1>4, <1>6, <1>7 DEF Owner

\* The connection.
LEMMA ConnectionDelivery ==
    ASSUME TransferAssumption, TransferTypeOK, Delivery, Connection
    PROVE  Delivery'
  <1>1. asked \subseteq File /\ sock \in [End -> Socket]
    BY DEF TransferTypeOK
  <1>2. DeliveredIntact' /\ ToldOnce' /\ UNCHANGED <<stored, asked, told>>
    <2>1. UNCHANGED <<stored, asked, told>>
      BY DEF Connection, Lose, Reconnect, CloseConnection
    <2> QED
      BY <1>1, <2>1, IntactKept DEF Delivery
  <1>3. CASE Lose
    <2>1. PICK c \in Prefix(wire["client"]), s \in Prefix(wire["server"]) :
             wire' = [e \in End |-> Append(IF e = "client" THEN c ELSE s, Close)]
      BY <1>3 DEF Lose
    <2>2. /\ wire["client"] \in Seq(TransferMessage)
          /\ wire["server"] \in Seq(TransferMessage)
      BY DEF TransferTypeOK, End
    <2>3. /\ Shorter(wire["client"], Append(c, Close))
          /\ Shorter(wire["server"], Append(s, Close))
      BY <2>1, <2>2, CutShorter
    <2>4. \A e \in End : Shorter(wire[e], wire'[e])
      BY <2>1, <2>3 DEF End
    <2>5. UNCHANGED sock
      BY <1>3 DEF Lose
    <2>6. Flow'
      BY <1>2, <2>4, <2>5, FlowKept DEF Delivery
    <2>7. OneSide'
      BY <2>5 DEF Delivery, OneSide, Idle
    <2>8. Accounted'
      BY <1>2, <2>5 DEF Delivery, Accounted
    <2> QED
      BY <1>2, <2>6, <2>7, <2>8 DEF Delivery
  <1>4. CASE Reconnect
    <2>1. "server" \in End /\ sock' = [sock EXCEPT !["server"] = NewSocket]
      BY <1>4 DEF Reconnect, End
    <2>2. FileOf(NewSocket) = NoFile /\ NewSocket.queue = <<>>
      BY DEF NewSocket, FileOf
    <2>3. OneSide'
      BY <1>1, <2>1, <2>2, OneSideKept DEF Delivery
    <2>4. Flow'
      <3>1. wire' = [e \in End |-> <<>>] /\ Len(<<>>) = 0
        BY <1>4 DEF Reconnect
      <3> QED
        BY <3>1 DEF Flow, Quiet, Nothing, Readable
    <2>5. Accounted'
      <3>1. ToSet(<<>>) = {}
        BY DEF ToSet
      <3>2. Once(NewSocket) /\ Owed(NewSocket) = {}
        BY <2>2, <3>1 DEF Once, Owed
      <3> QED
        BY <1>1, <1>2, <2>1, <3>2, AccountedKept DEF Delivery
    <2> QED
      BY <1>2, <2>3, <2>4, <2>5 DEF Delivery
  <1>5. ASSUME NEW e \in End, CloseConnection(e)
        PROVE  Delivery'
    <2> DEFINE t == [sock[e] EXCEPT !.dev = NoDev]
    <2>1. sock' = [sock EXCEPT ![e] = t] /\ wire' = [wire EXCEPT ![e] = <<>>]
      BY <1>5 DEF CloseConnection
    <2>2. /\ t \in Socket /\ t.busy = sock[e].busy /\ t.dev = NoDev
          /\ t.name = sock[e].name /\ t.queue = sock[e].queue /\ FileOf(t) = FileOf(sock[e])
      BY <1>1, ClosedSocket
    <2> HIDE DEF t
    <2>3. OneSide'
      BY <1>1, <2>1, <2>2, OneSideKept DEF Delivery, Idle
    <2>4. Flow'
      <3>1. \A x \in End : /\ Shorter(wire[x], wire'[x])
                           /\ sock'[x].busy = sock[x].busy /\ sock'[x].name = sock[x].name
                           /\ sock'[x].dev \in {sock[x].dev, NoDev}
        BY <1>1, <2>1, <2>2, ShorterItself DEF TransferTypeOK
      <3> QED
        BY <1>2, <3>1, FlowKept DEF Delivery
    <2>5. Accounted'
      <3>1. (Once(sock[e]) => Once(t)) /\ Owed(t) \subseteq Owed(sock[e])
        BY <2>2 DEF Once, Owed
      <3> QED
        BY <1>1, <1>2, <2>1, <3>1, AccountedKept DEF Delivery
    <2> QED
      BY <1>2, <2>3, <2>4, <2>5 DEF Delivery
  <1> QED
    BY <1>3, <1>4, <1>5 DEF Connection

---------------------------------------------------------------------------
(* The messages.                                                           *)

\* What a socket that sends a file looks like.
LEMMA SenderSocket ==
    ASSUME TransferAssumption, NEW s \in Socket, NEW g \in File, FileOf(s) = g
    PROVE  /\ s.busy /\ s.name = Out(g)
           /\ \A t \in Socket :
                 Once(s) /\ t.queue = s.queue /\ FileOf(t) = NoFile => g \notin Owed(t)
  <1>1. s.busy /\ s.name[1] = "out" /\ s.name[2] = g /\ s.name \in Name
    BY DEF FileOf, TransferAssumption, Socket
  <1>2. s.name = Out(g)
    BY <1>1 DEF Name, NoName, Out
  <1>3. ASSUME NEW t \in Socket, Once(s), t.queue = s.queue, FileOf(t) = NoFile
        PROVE  g \notin Owed(t)
    BY <1>3 DEF Once, Owed
  <1> QED
    BY <1>1, <1>2, <1>3

\* The other end answers a message about the file that is sent.
LEMMA ReplyFlow ==
    ASSUME NEW e \in End, NEW f \in File, Sends(e, f)',
           NEW x \in End, Nothing(wire'[Peer(x)]),
           NEW w \in Seq(TransferMessage), Nothing(w), NEW m \in TransferMessage,
           wire'[x] \in {w, w \o <<m>>},
           Only(wire'[x], m) => Underway(e, Peer(e), f)'
    PROVE  Flow'
  <1>1. Only(wire'[x], m) \/ Nothing(wire'[x])
    BY Behind
  <1>2. CASE Only(wire'[x], m)
    BY <1>2 DEF Flow
  <1>3. CASE Nothing(wire'[x])
    BY <1>3, Ends DEF Flow, Quiet
  <1> QED
    BY <1>1, <1>2, <1>3

\* The receiver of a file reads a message about it and answers.
LEMMA AnswerDelivery ==
    ASSUME TransferAssumption, TransferTypeOK, Delivery, NEW e \in End, NEW g \in File,
           Sends(Peer(e), g), Nothing(wire[Peer(e)]),
           wire[e] # <<>>, Only(wire[e], Head(wire[e])),
           NEW t \in Socket, t.queue = <<>>, FileOf(t) = NoFile, NEW m \in TransferMessage,
           Handled(e, t, t, <<m>>), UNCHANGED <<asked, told>>,
           \A x \in End, f \in File : stored'[x][f] # stored[x][f] => x = e /\ f = g,
           /\ sock'[e] = t /\ Nothing(wire'[e]) /\ Only(wire'[Peer(e)], m)
           => Underway(Peer(e), e, g)'
    PROVE  Delivery'
  <1> DEFINE p == Peer(e)
  <1>1. p \in End /\ p # e /\ Peer(p) = e /\ \A x \in End : x = e \/ x = p
    BY Ends
  <1>2. /\ sock \in [End -> Socket] /\ wire \in [End -> Seq(TransferMessage)]
        /\ asked \subseteq File
    BY DEF TransferTypeOK
  <1>3. Idle(e) /\ g \in Owed(sock[p])
    BY <1>1, OneIsIdle DEF Delivery, Sends
  <1>4. Starts(t, t) /\ <<m>> \in Seq(TransferMessage)
    BY DEF Starts
  <1>5. Opened(t, t) = <<>> /\ <<m>> \o <<>> = <<m>>
    BY <1>4 DEF Opened
  <1>6. /\ sock' = [sock EXCEPT ![e] = t] /\ wire'[e] = Tail(wire[e])
        /\ wire'[p] \in {wire[p], wire[p] \o (<<m>> \o Opened(t, t))}
    BY <1>2, <1>4, HandledTyped
  <1>7. /\ sock'[e] = t /\ sock'[p] = sock[p]
        /\ wire'[p] \in {wire[p], wire[p] \o <<m>>}
    BY <1>1, <1>2, <1>5, <1>6
  <1>8. Nothing(wire'[e])
    BY <1>2, <1>6, TailReadable
  <1>9. Sends(p, g)'
    BY <1>7 DEF Sends
  <1>10. Flow'
    BY <1>1, <1>2, <1>7, <1>8, <1>9, ReplyFlow
  <1>11. OneSide'
    BY <1>2, <1>6, OneSideKept DEF Delivery
  <1>12. Accounted'
    <2>1. t.queue = sock[e].queue
      BY <1>3 DEF Idle
    <2>2. Owed(t) \subseteq Owed(sock[e]) /\ (Once(sock[e]) => Once(t))
      BY <1>2, <2>1, NothingOfItsOwn
    <2> QED
      BY <1>2, <1>6, <2>2, AccountedKept DEF Delivery
  <1>13. DeliveredIntact' /\ ToldOnce'
    <2>1. ASSUME NEW x \in End, NEW f \in File, stored'[Peer(x)][f] # stored[Peer(x)][f]
          PROVE  f \in Owed(sock[x])
      <3>1. Peer(x) = e /\ f = g /\ Peer(x) \in End
        BY <2>1, Ends
      <3>2. x = p
        BY <3>1, <1>1
      <3> QED
        BY <1>3, <3>1, <3>2
    <2> QED
      BY <1>2, <2>1, IntactKept DEF Delivery
  <1> QED
    BY <1>10, <1>11, <1>12, <1>13 DEF Delivery

\* The sender of a file reads how it ended, reports it and goes on.
LEMMA ReportDelivery ==
    ASSUME TransferAssumption, TransferTypeOK, Delivery, NEW e \in End, NEW g \in File,
           Sends(e, g), Nothing(wire[Peer(e)]), wire[e] # <<>>, Only(wire[e], Head(wire[e])),
           NEW ok \in BOOLEAN, ok => stored[Peer(e)][g] = "whole", Tell(e, ok),
           NEW u \in Socket, u.queue = sock[e].queue, FileOf(u) = NoFile,
           NEW t \in Socket, Starts(u, t), Once(u) => Once(t),
           Owed(t) \subseteq Owed(u) \union (asked' \ asked),
           Handled(e, u, t, <<>>), asked \subseteq asked', UNCHANGED stored
    PROVE  Delivery'
  <1> DEFINE p == Peer(e)
  <1>1. p \in End /\ p # e /\ \A x \in End : x = e \/ x = p
    BY Ends
  <1>2. /\ sock \in [End -> Socket] /\ wire \in [End -> Seq(TransferMessage)]
        /\ told \in [End -> Seq(Name \X BOOLEAN)]
        /\ <<>> \in Seq(TransferMessage)
    BY DEF TransferTypeOK
  <1>3. FileOf(sock[e]) = g /\ g # NoFile /\ g \in Owed(sock[e])
    BY OneIsIdle DEF Delivery, Sends, TransferAssumption
  <1>4. /\ Once(sock[e]) /\ Owed(sock[e]) \subseteq asked
    BY DEF Delivery, Accounted
  <1>5. sock[e].name = Out(g) /\ g \notin Owed(u)
    BY <1>2, <1>3, <1>4, SenderSocket
  <1>6. Owed(u) \subseteq Owed(sock[e]) /\ Once(u)
    BY <1>2, <1>4, NothingOfItsOwn
  <1>7. /\ sock' = [sock EXCEPT ![e] = t] /\ wire'[e] = Tail(wire[e])
        /\ wire'[p] \in {wire[p], wire[p] \o (<<>> \o Opened(u, t))}
    BY <1>2, HandledTyped
  <1>8. <<>> \o Opened(u, t) = Opened(u, t)
    BY OpenedTyped
  <1>9. Nothing(wire'[e])
    BY <1>2, <1>7, TailReadable
  <1>10. Flow'
    BY <1>1, <1>2, <1>7, <1>8, <1>9, FlowStarts
  <1>11. OneSide'
    BY <1>2, <1>3, <1>7, OneSideKept DEF Delivery, Idle
  <1>12. told' = [told EXCEPT ![e] = Append(@, <<Out(g), ok>>)]
    BY <1>5 DEF Tell
  <1>13. Accounted'
    <2>1. g \notin Owed(t)
      BY <1>3, <1>4, <1>5
    <2>2. Owed(t) \subseteq Owed(sock[e]) \union (asked' \ asked) /\ Once(t)
      BY <1>6
    <2> QED
      BY <1>2, <1>3, <1>7, <1>12, <2>1, <2>2, AccountedTold DEF Delivery
  <1>14. DeliveredIntact' /\ ToldOnce'
    BY <1>2, <1>3, <1>12, IntactTold DEF Delivery
  <1> QED
    BY <1>10, <1>11, <1>13, <1>14 DEF Delivery

\* Request 10: the other end opens the file, or refuses it.
LEMMA RequestDelivery ==
    ASSUME TransferAssumption, TransferTypeOK, Delivery, NEW e \in End, ReceiveFileRequest(e)
    PROVE  Delivery'
  <1> DEFINE p == Peer(e)
             m == Head(wire[e])
  <1>1. wire[e] # <<>> /\ m.id = "request10"
    BY DEF ReceiveFileRequest, Reads
  <1>2. PICK g \in File : /\ Sends(p, g) /\ Nothing(wire[p])
                          /\ m = Request10(g) /\ Only(wire[e], m)
    BY <1>1, MessageByKind DEF Delivery
  <1>3. m.file = g
    BY <1>2 DEF Request10
  <1>4. Idle(e) /\ sock[e] \in Socket
    <2>1. Peer(p) = e /\ p \in End
      BY Ends
    <2> QED
      BY <1>2, <2>1, OneIsIdle DEF Delivery, Sends, TransferTypeOK
  <1> DEFINE r == [sock[e] EXCEPT !.busy = TRUE, !.dev = Writing(g), !.name = In(g)]
             refused == [r EXCEPT !.busy = FALSE, !.dev = NoDev]
  <1>5. /\ r \in Socket /\ r.busy /\ r.dev = Writing(g) /\ r.name = In(g)
        /\ r.queue = sock[e].queue /\ FileOf(r) = NoFile
        /\ refused \in Socket /\ ~refused.busy
        /\ refused.queue = sock[e].queue /\ FileOf(refused) = NoFile
    BY <1>4, ReceiverSocket
  <1>6. /\ UNCHANGED <<asked, told>>
        /\ \/ Handled(e, refused, Checked(refused), <<Answer10(FALSE)>>) /\ UNCHANGED stored
           \/ /\ Handled(e, r, r, <<Answer10(TRUE)>>)
              /\ stored' = [stored EXCEPT ![e][g] = "empty"]
    BY <1>3 DEF ReceiveFileRequest
  <1> HIDE DEF refused, r, m
  <1>7. r.queue = <<>> /\ refused.queue = <<>>
    BY <1>4, <1>5 DEF Idle
  <1>8. Only(wire[e], Head(wire[e]))
    BY <1>2 DEF m
  <1>9. CASE Handled(e, refused, Checked(refused), <<Answer10(FALSE)>>) /\ UNCHANGED stored
    <2>1. Checked(refused) = refused
      BY <1>5, <1>7, CheckedSocket
    <2>2. Handled(e, refused, refused, <<Answer10(FALSE)>>)
      BY <1>9, <2>1
    <2>3. Answer10(FALSE) \in TransferMessage
      BY MessageTypes
    <2>4. /\ sock'[e] = refused /\ Nothing(wire'[e]) /\ Only(wire'[p], Answer10(FALSE))
          => Underway(p, e, g)'
      BY DEF Underway
    <2> QED
      BY <1>1, <1>2, <1>5, <1>6, <1>7, <1>8, <1>9, <2>2, <2>3, <2>4, AnswerDelivery
  <1>10. CASE /\ Handled(e, r, r, <<Answer10(TRUE)>>)
              /\ stored' = [stored EXCEPT ![e][g] = "empty"]
    <2>1. Answer10(TRUE) \in TransferMessage
      BY MessageTypes
    <2>2. /\ stored'[e][g] = "empty"
          /\ \A x \in End, f \in File : stored'[x][f] # stored[x][f] => x = e /\ f = g
      BY <1>10 DEF TransferTypeOK
    <2>3. ASSUME sock'[e] = r, Nothing(wire'[e]), Only(wire'[p], Answer10(TRUE))
          PROVE  Underway(p, e, g)'
      <3>1. Receiving(e, g)'
        BY <1>5, <2>3 DEF Receiving
      <3> QED
        BY <2>2, <2>3, <3>1 DEF Underway
    <2> QED
      BY <1>1, <1>2, <1>5, <1>6, <1>7, <1>8, <1>10, <2>1, <2>2, <2>3, AnswerDelivery
  <1> QED
    BY <1>6, <1>9, <1>10

\* Blocks are appended to the file that is open.
LEMMA BlockDelivery ==
    ASSUME TransferAssumption, TransferTypeOK, Delivery, NEW e \in End, ReceiveBlock(e)
    PROVE  Delivery'
  <1> DEFINE p == Peer(e)
             m == Head(wire[e])
             s == sock[e]
  <1>1. /\ wire[e] # <<>> /\ m.id = "block"
        /\ Handled(e, s, s, <<>>) /\ UNCHANGED <<asked, told>>
    BY DEF ReceiveBlock, Reads
  <1>2. PICK g \in File :
           /\ Sends(p, g) /\ Nothing(wire[p]) /\ m = Block(g)
           /\ \/ Only(wire[e], m)
              \/ \E sum \in Sums(g) : Pair(wire[e], m, Request11(sum))
           /\ Receiving(e, g) /\ stored[e][g] = "empty"
    BY <1>1, MessageByKind DEF Delivery
  <1>3. m.file = g
    BY <1>2 DEF Block
  <1>4. p \in End /\ p # e /\ Peer(p) = e /\ \A x \in End : x = e \/ x = p
    BY Ends
  <1>5. /\ sock \in [End -> Socket] /\ wire \in [End -> Seq(TransferMessage)]
        /\ stored \in [End -> [File -> Content]] /\ asked \subseteq File
        /\ <<>> \in Seq(TransferMessage)
    BY DEF TransferTypeOK
  <1>6. g \in Owed(sock[p])
    BY <1>2, <1>4, OneIsIdle DEF Delivery, Sends
  <1>7. s.dev = Writing(g) \/ s.dev[1] # "write"
    BY <1>2 DEF Receiving, Writing, NoDev
  <1>8. /\ \A x \in End, f \in File : stored'[x][f] # stored[x][f] => x = e /\ f = g
        /\ stored'[e][g] \in {"empty", "whole"}
    <2>1. CASE s.dev = Writing(g)
      <3>1. stored' = [stored EXCEPT ![e][g] = "whole"]
        <4>1. s.dev[1] = "write" /\ s.dev[2] = g
          BY <2>1 DEF Writing
        <4>2. stored' = [stored EXCEPT ![e][s.dev[2]] =
                            IF s.dev[2] = m.file /\ @ = "empty" THEN "whole" ELSE "other"]
          BY <4>1 DEF ReceiveBlock
        <4>3. stored' = [stored EXCEPT ![e][g] =
                            IF g = g /\ @ = "empty" THEN "whole" ELSE "other"]
          BY <1>3, <4>1, <4>2, Zenon
        <4> QED
          BY <1>2, <1>5, <4>3
      <3> QED
        BY <1>5, <3>1
    <2>2. CASE s.dev[1] # "write"
      <3>1. stored' = stored
        BY <2>2 DEF ReceiveBlock
      <3> QED
        BY <1>2, <3>1
    <2> QED
      BY <1>7, <2>1, <2>2
  <1>9. Starts(s, s) /\ Opened(s, s) = <<>> /\ <<>> \o <<>> = <<>>
    BY DEF Starts, Opened
  <1> HIDE DEF m
  <1>10. sock' = sock /\ wire'[e] = Tail(wire[e]) /\ wire'[p] = wire[p]
    <2>1. /\ sock' = [sock EXCEPT ![e] = s] /\ wire'[e] = Tail(wire[e])
          /\ wire'[p] \in {wire[p], wire[p] \o (<<>> \o Opened(s, s))}
      BY <1>1, <1>5, <1>9, HandledTyped
    <2>2. wire[p] \o <<>> = wire[p]
      BY <1>4, <1>5
    <2> QED
      BY <1>5, <1>9, <2>1, <2>2
  <1>11. Flow'
    <2>1. CASE Only(wire[e], m)
      <3>1. Nothing(wire'[e])
        BY <1>1, <1>5, <1>10, <2>1, TailReadable
      <3> QED
        BY <1>2, <1>4, <1>10, <3>1 DEF Flow, Quiet
    <2>2. ASSUME NEW sum \in Sums(g), Pair(wire[e], m, Request11(sum))
          PROVE  Flow'
      <3>1. Only(wire'[e], Request11(sum))
        BY <1>1, <1>5, <1>10, <2>2, TailReadable
      <3>2. Nothing(wire'[p]) /\ Receiving(e, g)' /\ Sends(p, g)'
        BY <1>2, <1>10 DEF Receiving, Sends
      <3>3. Underway(p, e, g)'
        BY <1>8, <3>1, <3>2 DEF Underway
      <3> QED
        BY <1>4, <3>2, <3>3 DEF Flow
    <2> QED
      BY <1>2, <2>1, <2>2
  <1>12. OneSide' /\ Accounted'
    BY <1>1, <1>10 DEF Delivery, OneSide, Idle, Accounted
  <1>13. DeliveredIntact' /\ ToldOnce'
    <2>1. ASSUME NEW x \in End, NEW f \in File, stored'[Peer(x)][f] # stored[Peer(x)][f]
          PROVE  f \in Owed(sock[x])
      <3>1. Peer(x) = e /\ f = g
        BY <1>8, <2>1, Ends
      <3>2. x = p
        BY <3>1, <1>4
      <3> QED
        BY <1>6, <3>1, <3>2
    <2> QED
      BY <1>1, <1>5, <2>1, IntactKept DEF Delivery
  <1> QED
    BY <1>11, <1>12, <1>13 DEF Delivery

\* Request 11: the receiver compares the sums.
LEMMA DoneDelivery ==
    ASSUME TransferAssumption, TransferTypeOK, Delivery, NEW e \in End, ReceiveFileDone(e)
    PROVE  Delivery'
  <1> DEFINE p == Peer(e)
             m == Head(wire[e])
             closed == Dropped(sock[e])
             same == Same(e, m.sum)
  <1>1. /\ wire[e] # <<>> /\ m.id = "request11"
        /\ Handled(e, closed, Checked(closed), <<Answer11(same)>>)
        /\ stored' = IF ~same /\ sock[e].name[1] = "in"
                     THEN [stored EXCEPT ![e][sock[e].name[2]] = "none"] ELSE stored
        /\ UNCHANGED <<asked, told>>
    BY DEF ReceiveFileDone, Reads
  <1>2. PICK g \in File :
           /\ Sends(p, g) /\ Nothing(wire[p])
           /\ \E sum \in Sums(g) : m = Request11(sum)
           /\ Only(wire[e], m)
           /\ Receiving(e, g) /\ stored[e][g] \in {"empty", "whole"}
    BY <1>1, MessageByKind DEF Delivery
  <1>3. m.sum \in Sums(g)
    BY <1>2 DEF Request11
  <1>4. Idle(e) /\ sock[e] \in Socket
    <2>1. Peer(p) = e /\ p \in End
      BY Ends
    <2> QED
      BY <1>2, <2>1, OneIsIdle DEF Delivery, Sends, TransferTypeOK
  <1>5. sock[e].name[1] = "in" /\ sock[e].name[2] = g
    BY <1>2 DEF Receiving, In
  <1>6. same = (m.sum = <<stored[e][g], g>>)
    BY <1>2, <1>5 DEF Same, StoredSum
  <1>7. same => stored[e][g] = "whole"
    <2>1. m.sum = <<"whole", g>> \/ m.sum = <<"other", NoFile>>
      BY <1>3 DEF Sums
    <2>2. m.sum = <<stored[e][g], g>> => m.sum[1] = stored[e][g] /\ m.sum[2] = g
      OBVIOUS
    <2>3. <<"whole", g>>[1] = "whole" /\ <<"other", NoFile>>[2] = NoFile /\ g # NoFile
      BY DEF TransferAssumption
    <2> HIDE DEF m, same
    <2> QED
      BY <1>6, <2>1, <2>2, <2>3
  <1>8. closed \in Socket /\ ~closed.busy /\ closed.queue = sock[e].queue /\ FileOf(closed) = NoFile
    BY <1>4, DroppedSocket
  <1>9. same \in BOOLEAN /\ Only(wire[e], Head(wire[e]))
    BY <1>2 DEF Same
  <1>10. /\ \A x \in End, f \in File : stored'[x][f] # stored[x][f] => x = e /\ f = g
         /\ same => stored'[e][g] = "whole"
    <2>1. stored \in [End -> [File -> Content]]
      BY DEF TransferTypeOK
    <2> HIDE DEF same
    <2> QED
      BY <1>1, <1>5, <1>7, <2>1
  <1> HIDE DEF closed, same, m
  <1>11. closed.queue = <<>>
    BY <1>4, <1>8 DEF Idle
  <1>12. Checked(closed) = closed
    BY <1>8, <1>11, CheckedSocket
  <1>13. PICK ok \in BOOLEAN : ok = same
    BY <1>9
  <1>14. Handled(e, closed, closed, <<Answer11(ok)>>) /\ Answer11(ok) \in TransferMessage
    BY <1>1, <1>12, <1>13, MessageTypes
  <1>15. /\ sock'[e] = closed /\ Nothing(wire'[e]) /\ Only(wire'[p], Answer11(ok))
         => Underway(p, e, g)'
    BY <1>10, <1>13 DEF Underway
  <1> QED
    BY <1>1, <1>2, <1>8, <1>9, <1>10, <1>11, <1>14, <1>15, AnswerDelivery

\* Two messages, one after the other.
LEMMA TwoMessages ==
    ASSUME NEW b \in TransferMessage, NEW q \in TransferMessage
    PROVE  <<b>> \o <<q>> = <<b, q>> /\ <<b, q>> \in Seq(TransferMessage)
  <1> DEFINE x == <<b>> \o <<q>>
             y == <<b, q>>
  <1>1. <<b>> \in Seq(TransferMessage) /\ <<q>> \in Seq(TransferMessage)
    OBVIOUS
  <1>2. x \in Seq(TransferMessage) /\ Len(x) = 2 /\ x[1] = b /\ x[2] = q
    BY <1>1
  <1>3. y \in Seq(TransferMessage) /\ Len(y) = 2 /\ y[1] = b /\ y[2] = q
    OBVIOUS
  <1> HIDE DEF x, y
  <1>4. \A i \in 1..Len(x) : x[i] = y[i]
    <2>1. \A i \in 1..2 : i = 1 \/ i = 2
      OBVIOUS
    <2> QED
      BY <1>2, <1>3, <2>1
  <1>5. x = y
    BY <1>2, <1>3, <1>4
  <1> QED
    BY <1>3, <1>5 DEF x, y

\* Answer 10: the sender sends its blocks, or gives the file up.
LEMMA ReadyDelivery ==
    ASSUME TransferAssumption, TransferTypeOK, Delivery, NEW e \in End,
           SendFileRemoteHostReady(e)
    PROVE  Delivery'
  <1> DEFINE p == Peer(e)
             m == Head(wire[e])
             s == sock[e]
             failed == [s EXCEPT !.busy = FALSE, !.dev = NoDev]
             sent == [s EXCEPT !.dev = NoDev]
             blocks == IF s.dev[1] = "read" THEN <<Block(s.dev[2])>> ELSE <<>>
  <1>1. wire[e] # <<>> /\ m.id = "answer10" /\ UNCHANGED stored
    BY DEF SendFileRemoteHostReady, Reads
  <1>2. PICK g \in File :
           /\ Sends(e, g) /\ Nothing(wire[p]) /\ Only(wire[e], m)
           /\ \/ m = Answer10(FALSE)
              \/ m = Answer10(TRUE) /\ Receiving(p, g) /\ stored[p][g] = "empty"
    BY <1>1, MessageByKind DEF Delivery
  <1>3. p \in End /\ p # e /\ \A x \in End : x = e \/ x = p
    BY Ends
  <1>4. /\ sock \in [End -> Socket] /\ wire \in [End -> Seq(TransferMessage)]
        /\ s \in Socket /\ asked \subseteq File
    BY DEF TransferTypeOK
  <1>5. /\ failed \in Socket /\ ~failed.busy /\ failed.queue = s.queue /\ FileOf(failed) = NoFile
        /\ sent \in Socket /\ sent.busy = s.busy /\ sent.dev = NoDev
        /\ sent.name = s.name /\ sent.queue = s.queue /\ FileOf(sent) = FileOf(s)
    BY <1>4, ClosedSocket
  <1>6. FileOf(s) = g /\ g # NoFile /\ s.name = Out(g) /\ s.busy
    BY <1>2, <1>4, SenderSocket DEF Sends, TransferAssumption
  <1>7. Once(s) /\ Owed(s) \subseteq asked
    BY DEF Delivery, Accounted
  <1>8. Only(wire[e], Head(wire[e]))
    BY <1>2
  <1>9. CASE m = Answer10(FALSE)
    <2>1. ~m.ok
      BY <1>9 DEF Answer10
    <2>2. /\ Tell(e, FALSE)
          /\ \/ /\ Handled(e, failed, Checked(failed), <<>>)
                /\ UNCHANGED asked
             \/ \E f \in File \ asked :
                   /\ Handled(e, failed, Prepared(failed, f), <<>>)
                   /\ asked' = asked \union {f}
      BY <2>1 DEF SendFileRemoteHostReady
    <2> HIDE DEF failed, m
    <2>3. CASE Handled(e, failed, Checked(failed), <<>>) /\ UNCHANGED asked
      <3> DEFINE t == Checked(failed)
      <3>1. /\ t \in Socket /\ Starts(failed, t) /\ (Once(failed) => Once(t))
            /\ Owed(t) \subseteq Owed(failed)
        BY <1>5, CheckedSocket
      <3>2. Handled(e, failed, t, <<>>)
        BY <2>3
      <3> HIDE DEF t
      <3>3. Owed(t) \subseteq Owed(failed) \union (asked' \ asked) /\ asked \subseteq asked'
        BY <2>3, <3>1
      <3> QED
        BY <1>1, <1>2, <1>5, <1>8, <2>2, <3>1, <3>2, <3>3, ReportDelivery
    <2>4. ASSUME NEW f \in File \ asked, Handled(e, failed, Prepared(failed, f), <<>>),
                 asked' = asked \union {f}
          PROVE  Delivery'
      <3> DEFINE t == Prepared(failed, f)
      <3>1. Owed(failed) \subseteq Owed(s)
        BY <1>4, <1>5, NothingOfItsOwn
      <3>2. f \notin Owed(failed)
        BY <1>7, <2>4, <3>1
      <3>3. /\ t \in Socket /\ Starts(failed, t) /\ (Once(failed) => Once(t))
            /\ Owed(t) \subseteq Owed(failed) \union {f}
        BY <1>5, <3>2, PreparedSocket
      <3>4. Handled(e, failed, t, <<>>)
        BY <2>4
      <3> HIDE DEF t
      <3>5. Owed(t) \subseteq Owed(failed) \union (asked' \ asked) /\ asked \subseteq asked'
        BY <2>4, <3>3
      <3> QED
        BY <1>1, <1>2, <1>5, <1>8, <2>2, <3>3, <3>4, <3>5, ReportDelivery
    <2> QED
      BY <2>2, <2>3, <2>4
  <1>10. CASE m = Answer10(TRUE) /\ Receiving(p, g) /\ stored[p][g] = "empty"
    <2>1. m.ok
      BY <1>10 DEF Answer10
    <2>2. /\ UNCHANGED <<asked, told>>
          /\ IF s.dev = NoDev
             THEN Handled(e, s, s, <<>>)
             ELSE \E sum \in {Sum(s.name)} \union
                             IF "differ" \in Faults THEN {<<"other", NoFile>>} ELSE {} :
                     Handled(e, sent, sent, blocks \o <<Request11(sum)>>)
      BY <2>1 DEF SendFileRemoteHostReady
    <2>3. DeliveredIntact' /\ ToldOnce'
      <3>1. ASSUME NEW x \in End, NEW f \in File
            PROVE  stored'[Peer(x)][f] = stored[Peer(x)][f]
        BY <1>1
      <3> QED
        BY <1>4, <2>2, <3>1, IntactKept DEF Delivery
    <2> HIDE DEF failed, sent, m
    <2>4. ASSUME NEW t \in Socket, sock' = [sock EXCEPT ![e] = t], t.queue = s.queue,
                 FileOf(t) = FileOf(s), Flow'
          PROVE  Delivery'
      <3>1. OneSide'
        BY <1>4, <1>6, <2>4, OneSideKept DEF Delivery, Idle
      <3>2. Accounted'
        <4>1. Once(t) /\ Owed(t) = Owed(s)
          BY <1>7, <2>4 DEF Once, Owed
        <4> QED
          BY <1>4, <2>2, <2>4, <4>1, AccountedKept DEF Delivery
      <3> QED
        BY <2>3, <2>4, <3>1, <3>2 DEF Delivery
    <2>5. CASE s.dev = NoDev
      <3>1. Handled(e, s, s, <<>>) /\ Starts(s, s) /\ <<>> \in Seq(TransferMessage)
        BY <2>2, <2>5 DEF Starts
      <3>2. Opened(s, s) = <<>> /\ <<>> \o <<>> = <<>>
        BY DEF Opened
      <3>3. /\ sock' = [sock EXCEPT ![e] = s] /\ wire'[e] = Tail(wire[e])
            /\ wire'[p] \in {wire[p], wire[p] \o (<<>> \o Opened(s, s))}
        BY <1>1, <1>4, <3>1, HandledTyped
      <3>4. wire'[p] = wire[p]
        <4>1. wire[p] \o <<>> = wire[p]
          BY <1>3, <1>4
        <4> QED
          BY <3>2, <3>3, <4>1
      <3>5. Nothing(wire'[e])
        BY <1>1, <1>2, <1>4, <3>3, TailReadable
      <3>6. Flow'
        BY <1>2, <1>3, <3>4, <3>5 DEF Flow, Quiet
      <3> QED
        BY <1>4, <2>4, <3>3, <3>6
    <2>6. CASE s.dev # NoDev
      <3>1. s.dev = Reading(g) /\ blocks = <<Block(g)>>
        BY <1>2, <2>6 DEF Sends, Reading
      <3>2. PICK sum \in {Sum(s.name)} \union
                         IF "differ" \in Faults THEN {<<"other", NoFile>>} ELSE {} :
               Handled(e, sent, sent, blocks \o <<Request11(sum)>>)
        BY <2>2, <2>6
      <3>3. sum \in Sums(g) /\ sum \in SumValue
        <4>1. Sum(s.name) = <<"whole", g>>
          BY <1>6 DEF Sum, Out
        <4> QED
          BY <3>2, <4>1 DEF Sums, SumValue, Content
      <3> DEFINE b == Block(g)
                 q == Request11(sum)
      <3>4. b \in TransferMessage /\ q \in TransferMessage
        BY <3>3, MessageTypes
      <3>5. Handled(e, sent, sent, <<b>> \o <<q>>)
        BY <3>1, <3>2
      <3> HIDE DEF b, q, blocks
      <3>6. <<b>> \o <<q>> = <<b, q>> /\ <<b, q>> \in Seq(TransferMessage)
        BY <3>4, TwoMessages
      <3>7. /\ Starts(sent, sent) /\ Opened(sent, sent) = <<>>
            /\ <<b, q>> \o <<>> = <<b, q>>
        BY <3>6 DEF Starts, Opened
      <3>8. Handled(e, sent, sent, <<b, q>>)
        BY <3>5, <3>6
      <3>9. /\ sock' = [sock EXCEPT ![e] = sent] /\ wire'[e] = Tail(wire[e])
            /\ wire'[p] \in {wire[p], wire[p] \o (<<b, q>> \o Opened(sent, sent))}
        <4> DEFINE msgs == <<b, q>>
        <4>1. msgs \in Seq(TransferMessage) /\ Handled(e, sent, sent, msgs)
          BY <3>6, <3>8
        <4> HIDE DEF msgs
        <4>2. /\ sock' = [sock EXCEPT ![e] = sent] /\ wire'[e] = Tail(wire[e])
              /\ wire'[p] \in {wire[p], wire[p] \o (msgs \o Opened(sent, sent))}
          <5>1. /\ wire[e] # <<>> /\ sent \in Socket /\ Starts(sent, sent)
                /\ wire \in [End -> Seq(TransferMessage)] /\ sock \in [End -> Socket]
            BY <1>1, <1>4, <1>5, <3>7
          <5> QED
            BY <4>1, <5>1, HandledTyped
        <4> QED
          BY <4>2 DEF msgs
      <3>10. wire'[p] \in {wire[p], wire[p] \o <<b, q>>}
        BY <3>7, <3>9
      <3>11. sock'[e] = sent /\ sock'[p] = sock[p]
        BY <1>3, <1>4, <3>9
      <3>12. Nothing(wire'[e])
        BY <1>1, <1>2, <1>4, <3>9, TailReadable
      <3>13. Pair(wire'[p], b, q) \/ Nothing(wire'[p])
        <4>1. wire[p] \in Seq(TransferMessage) /\ Nothing(wire[p])
          BY <1>2, <1>3, <1>4
        <4>2. Pair(wire[p] \o <<b, q>>, b, q) \/ Nothing(wire[p] \o <<b, q>>)
          BY <3>4, <4>1, Behind
        <4> QED
          BY <3>10, <4>1, <4>2
      <3>14. Flow'
        <4>1. CASE Nothing(wire'[p])
          BY <1>3, <3>12, <4>1 DEF Flow, Quiet
        <4>2. CASE Pair(wire'[p], b, q)
          <5>1. Receiving(p, g)' /\ stored'[p][g] = "empty"
            BY <1>1, <1>10, <3>11 DEF Receiving
          <5>2. Sends(e, g)'
            BY <1>5, <1>6, <3>11 DEF Sends
          <5>3. Underway(e, p, g)'
            BY <3>3, <3>12, <4>2, <5>1 DEF Underway, b, q
          <5> QED
            BY <5>2, <5>3 DEF Flow
        <4> QED
          BY <3>13, <4>1, <4>2
      <3> QED
        BY <1>5, <2>4, <3>9, <3>14
    <2> QED
      BY <2>5, <2>6
  <1> QED
    BY <1>2, <1>9, <1>10

\* Answer 11: the sender hears how the file has arrived.
LEMMA CheckDelivery ==
    ASSUME TransferAssumption, TransferTypeOK, Delivery, NEW e \in End,
           SendFileRemoteHostDoneCheck(e)
    PROVE  Delivery'
  <1> DEFINE p == Peer(e)
             m == Head(wire[e])
             s == sock[e]
             failed == [s EXCEPT !.busy = FALSE, !.dev = NoDev]
             closed == Dropped(s)
  <1>1. /\ wire[e] # <<>> /\ m.id = "answer11" /\ UNCHANGED <<stored, asked>>
        /\ Tell(e, m.ok)
        /\ IF m.ok THEN Handled(e, closed, Checked(closed), <<>>)
                   ELSE Handled(e, failed, failed, <<>>)
    BY DEF SendFileRemoteHostDoneCheck, Reads
  <1>2. PICK g \in File :
           /\ Sends(e, g) /\ Nothing(wire[p]) /\ Only(wire[e], m)
           /\ \E ok \in BOOLEAN : m = Answer11(ok) /\ (ok => stored[p][g] = "whole")
    BY <1>1, MessageByKind DEF Delivery
  <1>3. PICK ok \in BOOLEAN : m.ok = ok /\ (ok => stored[p][g] = "whole")
    BY <1>2 DEF Answer11
  <1>4. s \in Socket
    BY DEF TransferTypeOK
  <1>5. /\ failed \in Socket /\ failed.queue = s.queue /\ FileOf(failed) = NoFile
        /\ closed \in Socket /\ closed.queue = s.queue /\ FileOf(closed) = NoFile
    BY <1>4, ClosedSocket, DroppedSocket
  <1>6. Tell(e, ok) /\ Only(wire[e], Head(wire[e]))
    BY <1>1, <1>2, <1>3
  <1> HIDE DEF failed, closed, m
  <1>7. CASE ok
    <2> DEFINE t == Checked(closed)
    <2>1. /\ t \in Socket /\ Starts(closed, t) /\ (Once(closed) => Once(t))
          /\ Owed(t) \subseteq Owed(closed)
      BY <1>5, CheckedSocket
    <2>2. Handled(e, closed, t, <<>>)
      BY <1>1, <1>3, <1>7
    <2> HIDE DEF t
    <2>3. Owed(t) \subseteq Owed(closed) \union (asked' \ asked) /\ asked \subseteq asked'
      BY <1>1, <2>1
    <2> QED
      BY <1>1, <1>2, <1>3, <1>5, <1>6, <2>1, <2>2, <2>3, ReportDelivery
  <1>8. CASE ~ok
    <2>1. Handled(e, failed, failed, <<>>)
      BY <1>1, <1>3, <1>8
    <2>2. Starts(failed, failed)
      BY DEF Starts
    <2>3. Owed(failed) \subseteq Owed(failed) \union (asked' \ asked) /\ asked \subseteq asked'
      BY <1>1
    <2> QED
      BY <1>1, <1>2, <1>3, <1>5, <1>6, <2>1, <2>2, <2>3, ReportDelivery
  <1> QED
    BY <1>7, <1>8

\* Every step, and the beginning.
LEMMA DeliveryStep ==
    ASSUME TransferAssumption, "cross" \notin Faults
    PROVE  DeliveryInv /\ [TransferNext]_transferVars => DeliveryInv'
  <1>1. DeliveryInv <=> TransferTypeOK /\ Delivery
    BY DEF DeliveryInv, Delivery
  <1>2. DeliveryInv' <=> TransferTypeOK' /\ Delivery'
    BY DEF DeliveryInv, Delivery
  <1>3. ASSUME TransferTypeOK, Delivery, [TransferNext]_transferVars
        PROVE  Delivery'
    <2>1. CASE UNCHANGED transferVars
      <3>1. UNCHANGED <<sock, wire, stored, asked, told>>
        BY <2>1 DEF transferVars
      <3>2. OneSide'
        BY <1>3, <3>1 DEF Delivery, OneSide, Idle
      <3>3. Flow'
        BY <1>3, <3>1, ShorterItself, FlowKept DEF Delivery
      <3>4. Accounted'
        BY <1>3, <3>1 DEF Delivery, Accounted
      <3>5. DeliveredIntact' /\ ToldOnce'
        BY <1>3, <3>1 DEF Delivery, DeliveredIntact, ToldOnce
      <3> QED
        BY <3>2, <3>3, <3>4, <3>5 DEF Delivery
    <2>2. ASSUME NEW e \in End, Message(e)
          PROVE  Delivery'
      BY <1>3, <2>2, RequestDelivery, ReadyDelivery, BlockDelivery, DoneDelivery, CheckDelivery
         DEF Message
    <2> QED
      BY <1>3, <2>1, <2>2, OwnerDelivery, ConnectionDelivery DEF TransferNext
  <1>4. ASSUME TransferTypeOK, [TransferNext]_transferVars
        PROVE  TransferTypeOK'
    <2>1. UNCHANGED transferVars => TransferTypeOK'
      BY <1>4 DEF transferVars, TransferTypeOK
    <2> QED
      BY <1>4, <2>1, OwnerTyped, MessageTyped, ConnectionTyped DEF TransferNext
  <1> QED
    BY <1>1, <1>2, <1>3, <1>4

\* The initial states satisfy the invariant.
LEMMA DeliveryInit ==
    ASSUME TransferAssumption
    PROVE  TransferInit => DeliveryInv
  <1> SUFFICES ASSUME TransferInit PROVE DeliveryInv
    OBVIOUS
  <1>1. TransferTypeOK
    <2>1. NewSocket \in Socket /\ \A S : <<>> \in Seq(S)
      BY DEF NewSocket, Socket, Dev, Name
    <2> QED
      BY <2>1 DEF TransferInit, TransferTypeOK, TransferAssumption, Content
  <1>2. \A e \in End : sock[e] = NewSocket /\ wire[e] = <<>> /\ told[e] = <<>>
    BY DEF TransferInit
  <1>3. /\ NewSocket.queue = <<>> /\ FileOf(NewSocket) = NoFile
        /\ ToSet(<<>>) = {} /\ Len(<<>>) = 0
    BY DEF NewSocket, FileOf, ToSet
  <1>4. OneSide /\ Flow
    <2>1. "server" \in End
      BY DEF End
    <2> QED
      BY <1>2, <1>3, <2>1 DEF OneSide, Idle, Flow, Quiet, Nothing, Readable
  <1>5. Accounted /\ DeliveredIntact /\ ToldOnce
    <2>1. Owed(NewSocket) = {} /\ Once(NewSocket)
      BY <1>3 DEF Owed, Once
    <2> QED
      BY <1>2, <2>1 DEF Accounted, DeliveredIntact, ToldOnce
  <1> QED
    BY <1>1, <1>4, <1>5 DEF DeliveryInv

\* While the owners take turns only one end has anything to send, and what
\* can be read belongs to the file it is sending (class DiscompSocket).
THEOREM OneSideAtATime ==
    ASSUME TransferAssumption, "cross" \notin Faults
    PROVE  TransferSpec => []DeliveryInv
  <1>1. TransferInit => DeliveryInv
    BY DeliveryInit
  <1>2. DeliveryInv /\ [TransferNext]_transferVars => DeliveryInv'
    BY DeliveryStep
  <1> QED
    BY <1>1, <1>2, PTL DEF TransferSpec

\* While the owners take turns, fileSendingDone_signal reports success only
\* of a file of the sender's, and the other end has all of it.
THEOREM SuccessIsDelivery ==
    ASSUME TransferAssumption, "cross" \notin Faults
    PROVE  TransferSpec => []DeliveredIntact
  <1>1. DeliveryInv => DeliveredIntact
    BY DEF DeliveryInv
  <1> QED
    BY <1>1, OneSideAtATime, PTL

\* While the owners take turns, the end of a transfer is reported once.
THEOREM ReportedOnce ==
    ASSUME TransferAssumption, "cross" \notin Faults
    PROVE  TransferSpec => []ToldOnce
  <1>1. DeliveryInv => ToldOnce
    BY DEF DeliveryInv
  <1> QED
    BY <1>1, OneSideAtATime, PTL
=============================================================================
