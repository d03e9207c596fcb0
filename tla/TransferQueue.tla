---------------------------- MODULE TransferQueue ----------------------------
(***************************************************************************)
(* What DiscompSocket promises to the two programs it connects: one file   *)
(* at a time is on its way, the others wait in a queue, and the end of     *)
(* every transfer is reported to the program that asked for it, with       *)
(* success only if the file has arrived.  How the two ends agree on that   *)
(* is the matter of FileTransfer.                                          *)
(***************************************************************************)
EXTENDS Sequences

CONSTANTS End,          \* the two ends of a connection
          File,         \* files
          NoFile

VARIABLES current,      \* current[e]: the file e is sending, or NoFile
          queue,        \* queue[e]: the files that wait for it
          arrived,      \* arrived[e]: the files of e that the other end has
          reports       \* reports[e]: what e was told, pairs of file and outcome

queueVars == <<current, queue, arrived, reports>>

Nothing == \A e \in End : current[e] = NoFile

QueueInit ==
    /\ current = [e \in End |-> NoFile]
    /\ queue = [e \in End |-> <<>>]
    /\ arrived = [e \in End |-> {}]
    /\ reports = [e \in End |-> <<>>]

\* One file: it is sent now, unless another one is on its way.
Ask(e, f) ==
    /\ \/ /\ Nothing
          /\ current' = [current EXCEPT ![e] = f]
          /\ UNCHANGED queue
       \/ /\ current[e] # NoFile
          /\ queue' = [queue EXCEPT ![e] = Append(@, f)]
          /\ UNCHANGED current
    /\ UNCHANGED <<arrived, reports>>

\* A list of files: behind those that wait.
AskAll(e, f, g) ==
    /\ LET all == queue[e] \o <<f, g>>
       IN  \/ /\ Nothing
              /\ current' = [current EXCEPT ![e] = Head(all)]
              /\ queue' = [queue EXCEPT ![e] = Tail(all)]
           \/ /\ current[e] # NoFile
              /\ queue' = [queue EXCEPT ![e] = all]
              /\ UNCHANGED current
    /\ UNCHANGED <<arrived, reports>>

\* The other end has the file, or gives it up again.
Arrive(e) ==
    /\ current[e] # NoFile
    /\ \/ arrived' = [arrived EXCEPT ![e] = @ \union {current[e]}]
       \/ arrived' = [arrived EXCEPT ![e] = @ \ {current[e]}]
    /\ UNCHANGED <<current, queue, reports>>

\* The file to send after the one that ends: the first that waits.  After a
\* failure the program may send another one first, and a queue may rest.
Follow(e, ok) ==
    \/ /\ queue[e] # <<>>
       /\ current' = [current EXCEPT ![e] = Head(queue[e])]
       /\ queue' = [queue EXCEPT ![e] = Tail(@)]
    \/ /\ queue[e] = <<>> \/ ~ok
       /\ current' = [current EXCEPT ![e] = NoFile]
       /\ UNCHANGED queue
    \/ /\ ~ok
       /\ \E f \in File : current' = [current EXCEPT ![e] = f]
       /\ UNCHANGED queue

\* A transfer ends and is reported.
Finish(e, ok) ==
    /\ current[e] # NoFile
    /\ ok => current[e] \in arrived[e]
    /\ reports' = [reports EXCEPT ![e] = Append(@, <<current[e], ok>>)]
    /\ Follow(e, ok)
    /\ UNCHANGED arrived

Clear(e) ==
    /\ queue' = [queue EXCEPT ![e] = <<>>]
    /\ UNCHANGED <<current, arrived, reports>>

QueueNext ==
    \E e \in End :
        \/ \E f \in File : Ask(e, f)
        \/ \E f, g \in File : AskAll(e, f, g)
        \/ Arrive(e)
        \/ \E ok \in BOOLEAN : Finish(e, ok)
        \/ Clear(e)

QueueSafeSpec == QueueInit /\ [][QueueNext]_queueVars

\* Every transfer ends.
QueueSpec ==
    /\ QueueSafeSpec
    /\ \A e \in End : WF_queueVars(\E ok \in BOOLEAN : Finish(e, ok))
=============================================================================
