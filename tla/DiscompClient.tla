---------------------------- MODULE DiscompClient ----------------------------
(***************************************************************************)
(* The client program that runs modules on a computing node: class         *)
(* DiscompClient (src/client/client.cpp) with DiscompModule                *)
(* (src/lib/module.cpp).  One client serves one connection at a time and   *)
(* reconnects after a loss under a new connection number.                  *)
(*                                                                         *)
(* A file transfer is one step, DiscompSocket's block protocol being left  *)
(* out; but it takes time, so a request may come between its start and its *)
(* end, and one that is cut short leaves the socket busy for ever.         *)
(***************************************************************************)
EXTENDS DiscompNet

CONSTANTS Client,         \* the client programs
          ClientModules   \* ClientModules[c]: the modules installed on c

ASSUME ClientAssumption == ClientModules \in [Client -> SUBSET Module]

VARIABLES client,         \* the state of every client program
          ran             \* the jobs whose program ran to its end (history)

clientVars == <<client, ran>>

\* No message waits in tmp_protocol_msg for its archive to be sent.
NoMsg == [id |-> 0]

NewClient ==
    [conn |-> 0,                              \* 0: not connected
     exec |-> NoModule,                       \* current_module_exec
     job |-> [m \in Module |-> NoJob],        \* the last job m was prepared for
     run |-> [m \in Module |-> NoJob],        \* the job m's program runs, if any
     temp |-> {},                             \* modules with a temp_module_dir
     into |-> NoModule,                       \* whose one is file_incoming_dir
     ready |-> {},                            \* modules whose input files have come
     files |-> FALSE,                         \* files_for_send is not empty
     msg |-> NoMsg,                           \* tmp_protocol_msg, its archive under way
     stuck |-> "no"]                          \* file_sending_busy with no transfer:
                                              \* "alone", or the server's socket too: "both"

ClientInit ==
    /\ client = [c \in Client |-> NewClient]
    /\ ran = {}

Connection(c) == client[c].conn

Online(c) == Connection(c) # 0

\* Written to a socket that is not connected, a message is lost.
Reply(c, m) == IF Online(c) THEN ToServer(Connection(c), m) ELSE UNCHANGED toServer

Answer(id, m, status) == Msg(id, m, status, NoJob)

\* A transfer of the client's own is under way.
Sending(cl) == cl.files \/ cl.msg # NoMsg

\* Input files are expected: one may be on its way.
Receiving(cl) == cl.into \in HasInputs \ cl.ready

\* A transfer begun without a connection gets no answer.
Begun(cl) ==
    IF cl.conn = 0 /\ Sending(cl)
    THEN [cl EXCEPT !.files = FALSE, !.msg = NoMsg, !.stuck = "alone"]
    ELSE cl

\* clearModuleTempEnviroment
TempCleared(cl, m) == [cl EXCEPT !.temp = @ \ {m}, !.into = NoModule]

Gets(c, id) ==
    /\ Online(c)
    /\ toNode[Connection(c)] # <<>>
    /\ Head(toNode[Connection(c)]).id = id
    /\ toNode' = [toNode EXCEPT ![Connection(c)] = Tail(@)]
    /\ UNCHANGED link

Silent == UNCHANGED toServer

---------------------------------------------------------------------------
(* Connecting.                                                             *)

\* connectedToServer_slot and sendAuthorizationRequest, on connection n
Connected(c, n) ==
    /\ ~Online(c)
    /\ client' = [client EXCEPT ![c].conn = n]
    /\ toServer' = [toServer EXCEPT ![n] = <<Answer(100, NoModule, 1)>>]
    /\ UNCHANGED ran

\* InitModules stops the current module and recreates all of them.
Reinitialised(cl) ==
    [cl EXCEPT !.job = NewClient.job, !.run = NewClient.run, !.temp = {},
               !.into = NoModule, !.ready = {}]

\* checkAuthorization and sendModulesListToServer
CheckAuthorization(c) ==
    /\ Gets(c, 100)
    /\ client' = [client EXCEPT ![c] = Reinitialised(@)]
    /\ Reply(c, ModulesList(ClientModules[c]))
    /\ UNCHANGED ran

\* closeConnection_slot of the socket, then connectionClosed_slot.  The file
\* on its way is closed, file_sending_busy stays; a file being received
\* leaves it set as well.
ConnectionClosed(c) ==
    /\ Online(c)
    /\ link[Connection(c)] = "closed"
    /\ \E s \in {"no", "alone"} :
          /\ s = "no" => client[c].stuck = "no" /\ ~Sending(client[c])
          /\ s = "alone" => \/ client[c].stuck # "no"
                            \/ Sending(client[c]) \/ Receiving(client[c])
          /\ client' = [client EXCEPT ![c].conn = 0, ![c].files = FALSE,
                                      ![c].msg = NoMsg, ![c].stuck = s]
    /\ toNode' = [toNode EXCEPT ![Connection(c)] = <<>>]
    /\ UNCHANGED <<ran, link, toServer>>

---------------------------------------------------------------------------
(* Running a job.                                                          *)

\* Mutant: the message is dropped with the temporary directory.
ArchivedLost(cl, m, message) == TempCleared(cl, m)

\* sendFailedModuleTempDirToServer: the message leaves with the archive of
\* the temporary directory; without one it can only replace a message that
\* still waits for its own archive.
Archived(cl, m, message) ==
    IF m \in cl.temp THEN [TempCleared(cl, m) EXCEPT !.msg = message]
    ELSE IF cl.msg # NoMsg THEN [cl EXCEPT !.msg = message]
    ELSE cl

\* prepareForStartModule
PrepareForStartModule(c) ==
    LET req == Head(toNode[Connection(c)])
        m == req.name
    IN  /\ Gets(c, 120)
        /\ \/ /\ client' = [client EXCEPT ![c].exec = m, ![c].job[m] = req.job,
                                          ![c].temp = @ \union {m},
                                          ![c].into = m, ![c].ready = @ \ {m}]
              /\ Reply(c, Answer(120, m, 1))
           \/ /\ "prepareFail" \in May
              /\ client' = [client EXCEPT ![c].exec = m, ![c].job[m] = req.job,
                                          ![c].into = NoModule]
              /\ Reply(c, Answer(120, m, 0))
        /\ UNCHANGED ran

\* The input files of m arrive in the directory set for incoming files, and
\* receiving a file ends with file_sending_busy reset.
ReceivedFiles(c, m) ==
    /\ Online(c) /\ client[c].stuck # "both"
    /\ client' = [client EXCEPT ![c].stuck = "no",
                                ![c].ready = IF client[c].into = m THEN @ \union {m}
                                                                  ELSE @]
    /\ UNCHANGED ran

\* A file that could not be written is refused.
RefusedFile(c) ==
    /\ Online(c) /\ client[c].stuck # "both"
    /\ client' = [client EXCEPT ![c].stuck = "no"]
    /\ UNCHANGED ran

IsReady(cl, m) == m \in HasInputs => (m \in cl.temp /\ m \in cl.ready)

\* receivedInputParameters and startModule
ReceivedInputParameters(c) ==
    LET cl == client[c]
        m == Head(toNode[Connection(c)]).name
        exited == [cl EXCEPT !.run[m] = NoJob]
    IN  /\ Gets(c, 121)
        /\ IF ~IsReady(cl, m)
           THEN /\ client' = [client EXCEPT ![c] = TempCleared(cl, m)]
                /\ Reply(c, Answer(121, m, 0))
           ELSE \/ /\ m \in cl.temp
                   /\ client' = [client EXCEPT ![c].run[m] = cl.job[m]]
                   /\ Reply(c, Answer(122, m, 1))
                \/ \* an unknown parameter
                   /\ "startFail" \in May
                   /\ client' = [client EXCEPT ![c] = TempCleared(cl, m)]
                   /\ Reply(c, Answer(121, m, 0))
                \/ \* a bad command, or no such program to run
                   /\ "startFail" \in May \/ m \notin cl.temp
                   /\ \E id \in {122, 123} :
                         client' = [client EXCEPT ![c] =
                                       Archived(exited, m, Answer(id, m, 0))]
                   /\ Silent
        /\ UNCHANGED ran

Running(c, m) == client[c].run[m] # NoJob

\* Mutant: the program of a module that failed goes on.
ExitedNot(cl, m) == cl

Exited(cl, m) == [cl EXCEPT !.run[m] = NoJob]

\* allOutputParametersSent names current_module_exec, whatever has finished.
AllOutputParametersSent(c, cl) ==
    /\ client' = [client EXCEPT ![c] =
                     [TempCleared(cl, cl.exec) EXCEPT !.files = FALSE]]
    /\ Reply(c, Answer(123, cl.exec, 1))

\* startProcessExited and sendModuleOutputParametersToServer_slot, status 1
ModuleFinished(c, m) ==
    /\ Running(c, m)
    /\ ran' = ran \union {client[c].run[m]}
    /\ LET cl == Exited(client[c], m)
       IN  \/ /\ m \in HasOutputs
              /\ client' = [client EXCEPT ![c] = Begun([cl EXCEPT !.files = TRUE])]
              /\ Silent
           \/ /\ m \in HasOutputs
              /\ "outputMissing" \in May
              /\ client' = [client EXCEPT ![c] = Begun(
                     [Archived(cl, m, Answer(123, m, 0)) EXCEPT !.files = FALSE])]
              /\ Silent
           \/ /\ m \notin HasOutputs
              /\ AllOutputParametersSent(c, cl)
    /\ UNCHANGED <<link, toNode>>

\* startProcessExitedError, then startProcessExited: a crash raises both.
\* A module without output parameters is then reported as finished.
ModuleCrashed(c, m) ==
    /\ "crash" \in May
    /\ Running(c, m)
    /\ LET cl == Begun(Archived(Exited(client[c], m), m, Answer(123, m, 0)))
       IN  IF m \in HasOutputs
           THEN /\ client' = [client EXCEPT ![c] = [cl EXCEPT !.files = FALSE]]
                /\ Silent
           ELSE AllOutputParametersSent(c, cl)
    /\ UNCHANGED <<ran, link, toNode>>

\* Mutant: a program that takes too long is reported but not killed.
ProcessExecutionTimeoutAlive(c, m) ==
    /\ "timeout" \in May
    /\ Running(c, m)
    /\ Reply(c, Answer(123, m, 2))
    /\ UNCHANGED <<client, ran, link, toNode>>

\* processExecutionTimeout and sendModuleOutputParametersToServer_slot, status 2
ProcessExecutionTimeout(c, m) ==
    /\ "timeout" \in May
    /\ Running(c, m)
    /\ client' = [client EXCEPT ![c].run[m] = NoJob]
    /\ Reply(c, Answer(123, m, 2))
    /\ UNCHANGED <<ran, link, toNode>>

---------------------------------------------------------------------------
(* Ends of file transfers.                                                 *)

Transfers(c) == Online(c) /\ link[Connection(c)] = "open" /\ client[c].stuck = "no"

\* outputParameterSendFileDone_slot for the last file
OutputParametersSent(c) ==
    /\ Transfers(c) /\ client[c].files
    /\ AllOutputParametersSent(c, client[c])
    /\ UNCHANGED <<ran, link, toNode>>

\* outputParameterSendFileDone_slot for a file the server refused
OutputParameterSendFailed(c) ==
    /\ "outputSendFail" \in May
    /\ Transfers(c) /\ client[c].files
    /\ LET cl == client[c]
       IN  client' = [client EXCEPT ![c] =
               [Archived(cl, cl.exec, Answer(123, cl.exec, 0)) EXCEPT !.files = FALSE]]
    /\ UNCHANGED <<ran, netVars>>

\* sendFailedModuleTempDirToServerDone_slot
ArchiveSent(c) ==
    /\ Transfers(c) /\ client[c].msg # NoMsg
    /\ client' = [client EXCEPT ![c].msg = NoMsg]
    /\ Reply(c, client[c].msg)
    /\ UNCHANGED <<ran, link, toNode>>

\* A transfer cut short by stopFileSending leaves both sockets busy; one
\* whose bytes are all written still completes.
Interrupted(cl) ==
    [cl EXCEPT !.files = FALSE, !.msg = NoMsg,
               !.stuck = IF @ = "no" THEN "both" ELSE @]

\* receivedRequestOnStopModule
ReceivedRequestOnStopModule(c) ==
    LET m == Head(toNode[Connection(c)]).name
        cl == TempCleared([client[c] EXCEPT !.run[m] = NoJob], m)
        late == "stopRace" \in May /\ cl.stuck = "no"
    IN  /\ Gets(c, 124)
        /\ \E after \in IF Sending(cl)
                        THEN {Interrupted(cl)} \union IF late THEN {cl} ELSE {}
                        ELSE {cl} :
              client' = [client EXCEPT ![c] = after]
        /\ \E status \in {1} \union IF "stopFail" \in May THEN {0} ELSE {} :
              Reply(c, Answer(124, m, status))
        /\ UNCHANGED ran
=============================================================================
