----------------------------- MODULE FileTransfer -----------------------------
(***************************************************************************)
(* The file transfer protocol of class DiscompSocket (src/lib/socket.cpp)  *)
(* between the server's socket of a node and the client's socket.  Both    *)
(* ends run the same code, and one set of fields (file_sending_busy,       *)
(* file_data_dev, file_current_name) serves sending and receiving.         *)
(*                                                                         *)
(* The sender of a file asks with request 10, sends its blocks on answer   *)
(* 10, then request 11 with the MD5 sum; the receiver compares and answers *)
(* 11.  What the owners of the sockets do with the outcome is left open.   *)
(***************************************************************************)
EXTENDS Naturals, Sequences, SequencesExt

CONSTANTS File,         \* files that may be sent, each of them once
          NoFile,
          Missing,      \* files that are gone when their turn comes
          Refused,      \* files the other end cannot open for writing
          Faults,       \* which of the events below happen
          MaxLosses     \* bound: connections lost

(* cross    an owner sends while a file of the other end is on its way     *)
(* stop     the client's owner stops sending and clears the queue          *)
(* clear    the server's owner clears the queue                            *)
(* differ   a file changes while it is being sent                          *)
ASSUME TransferAssumption ==
    /\ NoFile \notin File
    /\ Missing \subseteq File
    /\ Refused \subseteq File
    /\ Faults \subseteq {"cross", "stop", "clear", "differ"}
    /\ MaxLosses \in Nat

End == {"server", "client"}

Peer(e) == IF e = "server" THEN "client" ELSE "server"

VARIABLES sock,         \* the fields of both sockets
          wire,         \* wire[e]: what is on its way to e, in order
          online,       \* the ends that have not seen the connection close
          losses,       \* connections lost so far
          stored,       \* stored[e][f]: what e has of f in its directory
          asked,        \* files passed to sendFile (history)
          told          \* told[e]: the arguments of fileSendingDone_signal (history)

transferVars == <<sock, wire, online, losses, stored, asked, told>>

Content == {"none", "empty", "whole", "other"}

(* file_current_name: the path of a file to send, the relative name of one *)
(* to receive, or empty.                                                   *)
NoName == <<"none", NoFile>>
Out(f) == <<"out", f>>
In(f) == <<"in", f>>

(* file_data_dev *)
NoDev == <<"none", NoFile>>
Reading(f) == <<"read", f>>
Writing(f) == <<"write", f>>

NewSocket == [busy |-> FALSE, dev |-> NoDev, name |-> NoName, queue |-> <<>>]

(* Messages.  The blocks of a file are one message. *)
Request10(f) == [id |-> "request10", file |-> f]
Answer10(ok) == [id |-> "answer10", ok |-> ok]
Block(f) == [id |-> "block", file |-> f]
Request11(sum) == [id |-> "request11", sum |-> sum]
Answer11(ok) == [id |-> "answer11", ok |-> ok]
Close == [id |-> "close"]

TransferInit ==
    /\ sock = [e \in End |-> NewSocket]
    /\ wire = [e \in End |-> <<>>]
    /\ online = End
    /\ losses = 0
    /\ stored = [e \in End |-> [f \in File |-> "none"]]
    /\ asked = {}
    /\ told = [e \in End |-> <<>>]

---------------------------------------------------------------------------
(* Starting a transfer.                                                    *)

\* Mutant: file_current_name is not set.
StartedUnnamed(s, f) == [s EXCEPT !.busy = TRUE, !.dev = Reading(f)]

\* prepareForSendFileToRemoteHost for a file that can be opened
Started(s, f) == [s EXCEPT !.busy = TRUE, !.dev = Reading(f), !.name = Out(f)]

\* Mutant: file_sending_busy is not reset.
DroppedBusy(s) == [s EXCEPT !.dev = NoDev, !.name = NoName]

Dropped(s) == [s EXCEPT !.busy = FALSE, !.dev = NoDev, !.name = NoName]

Openable(q) == { i \in DOMAIN q : q[i] \notin Missing }

First(I) == CHOOSE i \in I : \A j \in I : i <= j

\* Mutant: the next file waits for another sendFile.
CheckedNever(s) == s

\* checkFileSendingQueue: files that cannot be opened are dropped in silence.
Checked(s) ==
    IF s.busy \/ s.queue = <<>> THEN s
    ELSE IF Openable(s.queue) = {} THEN [Dropped(s) EXCEPT !.queue = <<>>]
    ELSE LET i == First(Openable(s.queue))
         IN  [Started(s, s.queue[i]) EXCEPT
                !.queue = SubSeq(s.queue, i + 1, Len(s.queue))]

\* prepareForSendFileToRemoteHost
Prepared(s, f) ==
    IF s.busy THEN [s EXCEPT !.queue = Append(@, f)]
    ELSE IF f \in Missing THEN Checked(Dropped(s))
    ELSE Started(s, f)

\* Request 10 goes out when a file was opened between the states s and t.
Opened(s, t) ==
    IF ~s.busy /\ t.busy THEN <<Request10(t.name[2])>> ELSE <<>>

\* sendDataToRemoteHost: what e writes is lost when its connection is closed.
Written(e, msgs) ==
    IF e \in online /\ Peer(e) \in online THEN [wire EXCEPT ![Peer(e)] = @ \o msgs]
                                         ELSE wire

---------------------------------------------------------------------------
(* Calls of the owners.                                                    *)

\* The file a socket is sending
FileOf(s) == IF s.busy /\ s.name[1] = "out" THEN s.name[2] ELSE NoFile

\* The owners take turns: inputs before the module runs, outputs after.
Turn(e) ==
    "cross" \in Faults \/ (FileOf(sock[Peer(e)]) = NoFile /\ sock[Peer(e)].queue = <<>>)

\* sendFile of one file
SendFile(e, f) ==
    /\ Turn(e)
    /\ e \in online
    /\ f \notin asked
    /\ asked' = asked \union {f}
    /\ LET s == sock[e]
           t == Prepared(s, f)
       IN  /\ sock' = [sock EXCEPT ![e] = t]
           /\ wire' = Written(e, Opened(s, t))
    /\ UNCHANGED <<online, losses, stored, told>>

\* sendFile of a list
SendFiles(e, f, g) ==
    /\ Turn(e)
    /\ e \in online
    /\ f # g /\ {f, g} \intersect asked = {}
    /\ asked' = asked \union {f, g}
    /\ LET s == [sock[e] EXCEPT !.queue = @ \o <<f, g>>]
           t == Checked(s)
       IN  /\ sock' = [sock EXCEPT ![e] = t]
           /\ wire' = Written(e, Opened(s, t))
    /\ UNCHANGED <<online, losses, stored, told>>

\* clearFilesQueue
ClearFilesQueue ==
    /\ "clear" \in Faults
    /\ sock["server"].queue # <<>>
    /\ sock' = [sock EXCEPT !["server"].queue = <<>>]
    /\ UNCHANGED <<wire, online, losses, stored, asked, told>>

\* stopFileSending, then clearFilesQueue: file_sending_busy stays.
StopFileSending ==
    /\ "stop" \in Faults
    /\ sock' = [sock EXCEPT !["client"].dev = NoDev, !["client"].queue = <<>>]
    /\ UNCHANGED <<wire, online, losses, stored, asked, told>>

---------------------------------------------------------------------------
(* Messages.                                                               *)

Reads(e, id) ==
    /\ wire[e] # <<>>
    /\ Head(wire[e]).id = id

\* Mutant: the message stays in the buffer and is read again.
HandledTwice(e, s, t, msgs) ==
    /\ sock' = [sock EXCEPT ![e] = t]
    /\ \/ wire' = [Written(e, msgs \o Opened(s, t)) EXCEPT ![e] = Tail(@)]
       \/ wire' = Written(e, msgs \o Opened(s, t))
    /\ UNCHANGED <<online, losses>>

\* e has read its first message, becomes t once its handler and then
\* checkFileSendingQueue are done, and has answered msgs by then.
Handled(e, s, t, msgs) ==
    /\ sock' = [sock EXCEPT ![e] = t]
    /\ wire' = [Written(e, msgs \o Opened(s, t)) EXCEPT ![e] = Tail(@)]
    /\ UNCHANGED <<online, losses>>

\* fileSendingDone_signal
Tell(e, ok) == told' = [told EXCEPT ![e] = Append(@, <<sock[e].name, ok>>)]

\* receiveFileRequestFromRemoteHost, whatever this end is doing
ReceiveFileRequest(e) ==
    /\ Reads(e, "request10")
    /\ LET f == Head(wire[e]).file
           s == [sock[e] EXCEPT !.busy = TRUE, !.dev = Writing(f), !.name = In(f)]
           refused == [s EXCEPT !.busy = FALSE, !.dev = NoDev]
       IN  IF f \in Refused
           THEN /\ Handled(e, refused, Checked(refused), <<Answer10(FALSE)>>)
                /\ UNCHANGED stored
           ELSE /\ Handled(e, s, s, <<Answer10(TRUE)>>)
                /\ stored' = [stored EXCEPT ![e][f] = "empty"]
    /\ UNCHANGED <<asked, told>>

\* File::getMD5 of the path in file_current_name
Sum(name) == IF name[1] = "out" THEN <<"whole", name[2]>> ELSE <<"none", NoFile>>

\* File::getMD5 of file_current_name in the directory for incoming files
StoredSum(e, name) ==
    IF name[1] = "in" /\ stored[e][name[2]] # "none"
    THEN <<stored[e][name[2]], name[2]>>
    ELSE <<"none", NoFile>>

\* sendFileRemoteHostReady and sendBinaryDataToRemoteHost.  A file opened
\* for writing is at its end: no block is sent.  When a file is refused the
\* client sends the archive of the module's directory in its slot, before
\* the queue is checked.
SendFileRemoteHostReady(e) ==
    /\ Reads(e, "answer10")
    /\ LET s == sock[e]
           failed == [s EXCEPT !.busy = FALSE, !.dev = NoDev]
           sent == [s EXCEPT !.dev = NoDev]
           blocks == IF s.dev[1] = "read" THEN <<Block(s.dev[2])>> ELSE <<>>
       IN  IF ~Head(wire[e]).ok
           THEN /\ Tell(e, FALSE)
                /\ \/ /\ Handled(e, failed, Checked(failed), <<>>)
                      /\ UNCHANGED asked
                   \/ /\ e = "client"
                      /\ \E f \in File \ asked :
                            /\ Handled(e, failed, Prepared(failed, f), <<>>)
                            /\ asked' = asked \union {f}
           ELSE /\ UNCHANGED <<asked, told>>
                /\ IF s.dev = NoDev
                   THEN Handled(e, s, s, <<>>)
                   ELSE \E sum \in {Sum(s.name)} \union
                                   IF "differ" \in Faults THEN {<<"other", NoFile>>} ELSE {} :
                            Handled(e, sent, sent, blocks \o <<Request11(sum)>>)
    /\ UNCHANGED stored

\* A block is appended to the file that is open.
ReceiveBlock(e) ==
    /\ Reads(e, "block")
    /\ LET f == Head(wire[e]).file
           d == sock[e].dev
       IN  stored' = IF d[1] = "write"
                     THEN [stored EXCEPT ![e][d[2]] =
                              IF d[2] = f /\ @ = "empty" THEN "whole" ELSE "other"]
                     ELSE stored
    /\ Handled(e, sock[e], sock[e], <<>>)
    /\ UNCHANGED <<asked, told>>

\* Mutant: the sums are not compared.
SameAlways(e, sum) == TRUE

Same(e, sum) == sum = StoredSum(e, sock[e].name)

\* receiveFileFromRemoteHostDone
ReceiveFileDone(e) ==
    /\ Reads(e, "request11")
    /\ LET s == sock[e]
           closed == Dropped(s)
           same == Same(e, Head(wire[e]).sum)
       IN  /\ Handled(e, closed, Checked(closed), <<Answer11(same)>>)
           /\ stored' = IF ~same /\ s.name[1] = "in"
                        THEN [stored EXCEPT ![e][s.name[2]] = "none"]
                        ELSE stored
    /\ UNCHANGED <<asked, told>>

\* sendFileRemoteHostDoneCheck.  After a refused check the queue is not looked at.
SendFileRemoteHostDoneCheck(e) ==
    /\ Reads(e, "answer11")
    /\ LET s == sock[e]
           ok == Head(wire[e]).ok
           failed == [s EXCEPT !.busy = FALSE, !.dev = NoDev]
           closed == Dropped(s)
       IN  /\ IF ok THEN Handled(e, closed, Checked(closed), <<>>)
                    ELSE Handled(e, failed, failed, <<>>)
           /\ Tell(e, ok)
    /\ UNCHANGED <<stored, asked>>

---------------------------------------------------------------------------
(* The connection.                                                         *)

Prefix(s) == { SubSeq(s, 1, k) : k \in 0..Len(s) }

Lose ==
    /\ losses < MaxLosses
    /\ online = End
    /\ \A e \in End : Close \notin ToSet(wire[e])
    /\ losses' = losses + 1
    /\ \E c \in Prefix(wire["client"]), s \in Prefix(wire["server"]) :
          wire' = [e \in End |-> Append(IF e = "client" THEN c ELSE s, Close)]
    /\ UNCHANGED <<sock, online, stored, asked, told>>

\* closeConnection_slot and socketError_slot close the file only.
CloseConnection(e) ==
    /\ Reads(e, "close")
    /\ online' = online \ {e}
    /\ sock' = [sock EXCEPT ![e].dev = NoDev]
    /\ wire' = [wire EXCEPT ![e] = <<>>]
    /\ UNCHANGED <<losses, stored, asked, told>>

\* The client connects again with the same socket; the server accepts the
\* connection with a new one.
Reconnect ==
    /\ online = {}
    /\ online' = End
    /\ sock' = [sock EXCEPT !["server"] = NewSocket]
    /\ wire' = [e \in End |-> <<>>]
    /\ UNCHANGED <<losses, stored, asked, told>>

---------------------------------------------------------------------------

Owner ==
    \/ \E e \in End, f \in File : SendFile(e, f)
    \/ \E e \in End, f, g \in File : SendFiles(e, f, g)
    \/ ClearFilesQueue
    \/ StopFileSending

Message(e) ==
    \/ ReceiveFileRequest(e)
    \/ SendFileRemoteHostReady(e)
    \/ ReceiveBlock(e)
    \/ ReceiveFileDone(e)
    \/ SendFileRemoteHostDoneCheck(e)

Connection == Lose \/ Reconnect \/ \E e \in End : CloseConnection(e)

TransferNext == Owner \/ Connection \/ \E e \in End : Message(e)

TransferSpec == TransferInit /\ [][TransferNext]_transferVars

\* The sockets' event loops take what arrives.
FairTransferSpec ==
    /\ TransferSpec
    /\ \A e \in End : WF_transferVars(Message(e))

---------------------------------------------------------------------------
(* Properties.                                                             *)

Name == ({"out", "in"} \X File) \union {NoName}

Dev == ({"read", "write"} \X File) \union {NoDev}

SumValue == (Content \X File) \union {<<"none", NoFile>>, <<"other", NoFile>>}

TransferMessage ==
    [id : {"request10", "block"}, file : File] \union
    [id : {"answer10", "answer11"}, ok : BOOLEAN] \union
    [id : {"request11"}, sum : SumValue] \union {Close}

Socket == [busy : BOOLEAN, dev : Dev, name : Name, queue : Seq(File)]

TransferTypeOK ==
    /\ sock \in [End -> Socket]
    /\ wire \in [End -> Seq(TransferMessage)]
    /\ online \in SUBSET End
    /\ losses \in 0..MaxLosses
    /\ stored \in [End -> [File -> Content]]
    /\ asked \in SUBSET File
    /\ told \in [End -> Seq(Name \X BOOLEAN)]

(* The queue the socket implements: while every file can be read, the      *)
(* owners take turns and the connection stands.                            *)
Report(q) == [i \in DOMAIN q |-> <<q[i][1][2], q[i][2]>>]

Current == [e \in End |-> FileOf(sock[e])]
Waiting == [e \in End |-> sock[e].queue]
Arrived == [e \in End |-> { f \in File : stored[Peer(e)][f] = "whole" }]
Reports == [e \in End |-> Report(told[e])]

Queue == INSTANCE TransferQueue WITH
    current <- Current, queue <- Waiting, arrived <- Arrived, reports <- Reports

\* Requests 10 and 11 and their answers implement a queue of files: the end
\* of every transfer is reported to its sender, once and in order, as a
\* success only of a file that has arrived, and the next one follows
\* (sendFile, checkFileSendingQueue, sendFileRemoteHostDoneCheck).
QueueImplemented == Queue!QueueSpec

\* fileSendingDone_signal reports success only of the sender's own file, and
\* the other end then has all of it, whatever stopped, changed or broke in
\* between: both directions share one file_data_dev and one file_current_name.
\* Only where transfers cross and files are refused as well can the answer
\* about one file be read as the answer about another (README).
DeliveredIntact ==
    \A e \in End : \A i \in DOMAIN told[e] :
        told[e][i][2] => /\ told[e][i][1][1] = "out"
                         /\ stored[Peer(e)][told[e][i][1][2]] = "whole"

\* No transfer is reported twice, and no report is attributed to a file whose
\* transfer has been reported: the name of a transfer that failed stays in
\* file_current_name, where a late answer, a refused file or a new connection
\* could find it.
ToldOnce ==
    \A e \in End : \A i, j \in DOMAIN told[e] :
        told[e][i][1][1] = "out" /\ told[e][i][1] = told[e][j][1] => i = j

\* A socket that is busy waits for something: file_sending_busy is set only
\* while a message about the transfer is under way.  Otherwise every later
\* sendFile is put into a queue that nothing looks at again.
BusyIsAwaited ==
    online = End /\ (\E e \in End : sock[e].busy) => \E e \in End : wire[e] # <<>>

---------------------------------------------------------------------------
(* The inductive invariant behind BusyIsAwaited and the refinement, for    *)
(* owners that take turns on a connection that stands: at most one end     *)
(* sends, and its transfer is in one of the phases of the protocol.        *)

\* Nothing is under way, and no socket is busy.
Rest ==
    \A e \in End : wire[e] = <<>> /\ ~sock[e].busy

\* What p has of f when its file is open, and the message of phase n.
Phase(e, p, f, n) ==
    \/ /\ n = 1 /\ wire[p] = <<Request10(f)>> /\ wire[e] = <<>>
       /\ sock[e].dev = Reading(f) /\ ~sock[p].busy
    \/ /\ n = 2 /\ wire[e] = <<Answer10(FALSE)>> /\ wire[p] = <<>>
       /\ sock[e].dev = Reading(f) /\ ~sock[p].busy
    \/ /\ n = 3 /\ wire[e] = <<Answer10(TRUE)>> /\ wire[p] = <<>>
       /\ sock[e].dev = Reading(f) /\ sock[p].dev = Writing(f)
       /\ sock[p].busy /\ sock[p].name = In(f) /\ stored[p][f] = "empty"
    \/ /\ n = 4 /\ wire[e] = <<>>
       /\ \E sum \in {<<"whole", f>>, <<"other", NoFile>>} :
             wire[p] = <<Block(f), Request11(sum)>>
       /\ sock[p].dev = Writing(f)
       /\ sock[p].busy /\ sock[p].name = In(f) /\ stored[p][f] = "empty"
    \/ /\ n = 5 /\ wire[e] = <<>>
       /\ \E sum \in {<<"whole", f>>, <<"other", NoFile>>} :
             wire[p] = <<Request11(sum)>>
       /\ sock[p].busy /\ sock[p].name = In(f) /\ stored[p][f] = "whole"
    \/ /\ n = 6 /\ wire[p] = <<>> /\ ~sock[p].busy
       /\ \E ok \in BOOLEAN : wire[e] = <<Answer11(ok)>> /\ (ok => stored[p][f] = "whole")

\* e sends f, which the other end, without files of its own, receives.
Sending(e, f) ==
    /\ sock[e].busy /\ sock[e].name = Out(f)
    /\ sock[Peer(e)].queue = <<>>
    /\ \E n \in 1..6 : Phase(e, Peer(e), f, n)

TurnsInv ==
    /\ sock \in [End -> Socket]
    /\ DOMAIN wire = End /\ wire = [e \in End |-> wire[e]]
    /\ online = End /\ losses = 0
    /\ asked \subseteq File
    /\ stored \in [End -> [File -> Content]]
    /\ told \in [End -> Seq(Name \X BOOLEAN)]
    /\ Rest \/ \E e \in End, f \in File : Sending(e, f)

---------------------------------------------------------------------------
(* The inductive invariant behind DeliveredIntact and ToldOnce, for owners *)
(* that take turns, whatever files are missing, refused, changed, stopped  *)
(* or lost with a connection: at most one end has anything to send, and    *)
(* what can still be read belongs to the file it is sending.               *)

\* k messages of w can be read before the connection closes.
Readable(w, k) == k <= Len(w) /\ (k < Len(w) => w[k + 1] = Close)

Nothing(w) == Readable(w, 0)
Only(w, m) == Readable(w, 1) /\ w[1] = m
Pair(w, m, n) == Readable(w, 2) /\ w[1] = m /\ w[2] = n

Idle(e) == FileOf(sock[e]) = NoFile /\ sock[e].queue = <<>>

Receiving(p, f) == sock[p].busy /\ sock[p].name = In(f) /\ sock[p].dev \in {Writing(f), NoDev}

Sums(f) == {<<"whole", f>>, <<"other", NoFile>>}

\* The file f of e, its messages, and what p has of it.
Underway(e, p, f) ==
    \/ Only(wire[p], Request10(f)) /\ Nothing(wire[e])
    \/ Only(wire[e], Answer10(FALSE)) /\ Nothing(wire[p])
    \/ /\ Only(wire[e], Answer10(TRUE)) /\ Nothing(wire[p])
       /\ Receiving(p, f) /\ stored[p][f] = "empty"
    \/ /\ \/ Only(wire[p], Block(f))
          \/ \E sum \in Sums(f) : Pair(wire[p], Block(f), Request11(sum))
       /\ Nothing(wire[e])
       /\ Receiving(p, f) /\ stored[p][f] = "empty"
    \/ /\ \E sum \in Sums(f) : Only(wire[p], Request11(sum))
       /\ Nothing(wire[e])
       /\ Receiving(p, f) /\ stored[p][f] \in {"empty", "whole"}
    \/ /\ \E ok \in BOOLEAN : Only(wire[e], Answer11(ok)) /\ (ok => stored[p][f] = "whole")
       /\ Nothing(wire[p])

Quiet == \A e \in End : Nothing(wire[e])

Sends(e, f) == FileOf(sock[e]) = f /\ sock[e].dev \in {Reading(f), NoDev}

OneSide == \E p \in End : Idle(p)

Flow == Quiet \/ \E e \in End, f \in File : Sends(e, f) /\ Underway(e, Peer(e), f)

\* The files whose transfer e has still to report.
Owed(s) == ToSet(s.queue) \union ({FileOf(s)} \ {NoFile})

\* Each of them is in one place.
Once(s) ==
    /\ \A i, j \in DOMAIN s.queue : s.queue[i] = s.queue[j] => i = j
    /\ FileOf(s) \notin ToSet(s.queue)

Accounted ==
    \A e \in End :
        /\ Owed(sock[e]) \subseteq asked
        /\ Once(sock[e])
        /\ \A i \in DOMAIN told[e] :
              \E f \in asked \ Owed(sock[e]) : told[e][i][1] = Out(f)

DeliveryInv ==
    /\ TransferTypeOK
    /\ OneSide
    /\ Flow
    /\ Accounted
    /\ DeliveredIntact
    /\ ToldOnce
=============================================================================
