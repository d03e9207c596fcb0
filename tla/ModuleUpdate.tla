----------------------------- MODULE ModuleUpdate -----------------------------
(***************************************************************************)
(* Keeping the modules of a computing node up to date: the list of modules *)
(* (request 110), the archive of an outdated one (answer 111), the order   *)
(* to wait for it (request 112) and the comparison before a job (request   *)
(* 120), in src/server/node.cpp and src/client/client.cpp.                 *)
(*                                                                         *)
(* One host runs a client per CPU.  All of them use one directory of       *)
(* modules; only the client of CPU 0, the general one, is sent archives.   *)
(* Which job a node gets, and when, is left open (DiscompServer has it),   *)
(* and every module has input files.  A vector indexed by -1 ends all.     *)
(***************************************************************************)
EXTENDS Naturals, Sequences, FiniteSetsExt, SequencesExt

CONSTANTS Cpu, General,         \* the clients of the host, and that of CPU 0
          Listing,              \* the modules in the order of the directory
          Process,              \* the processes whose jobs nodes get
          NoVersion, NoModule, NoJob, NoProcess, NoCpu,
          Troubles,             \* of {"upload", "extract"}
          MaxVersion,           \* bound: versions of a module's files
          MaxJobs               \* bound: jobs given

ASSUME HostAssumption ==
    /\ General \in Cpu /\ NoCpu \notin Cpu
    /\ MaxVersion \in Nat /\ MaxJobs \in Nat
    /\ NoVersion \notin Nat
    /\ Listing \in Seq(ToSet(Listing))
    /\ \A i, j \in DOMAIN Listing : Listing[i] = Listing[j] => i = j
    /\ NoModule \notin ToSet(Listing)

VARIABLES files,        \* the versions in the server's packages
          directory,    \* the versions in ModulesDirectory of the host
          allow,        \* AllowUpdateModules of the host
          node,         \* the DiscompNode of every client
          client,       \* the DiscompClient of every CPU
          toNode, toClient,     \* messages under way
          given,        \* jobs given so far (bounded)
          lost,         \* an archive did not arrive or open (history)
          fault         \* the connection whose handler read modules[-1]

updateVars == <<files, directory, allow, node, client, toNode, toClient,
                given, lost, fault>>

Module == ToSet(Listing)
Version == 0..MaxVersion
Versions == [Module -> Version \cup {NoVersion}]

Nothing == [m \in Module |-> NoVersion]
NoUpload == [module |-> NoModule, version |-> NoVersion]

Job == [process : Process, module : Module, version : Version]

ASSUME JobAssumption == NoJob \notin Job

---------------------------------------------------------------------------
(* Messages.                                                               *)

List(loaded) == [id |-> "110", versions |-> loaded]

Reply(id, m) == [id |-> id, module |-> m]

\* The server's answer and orders; only the fields an id uses are given.
Known(unknown) == [id |-> "110", unknown |-> unknown]
Archive(m, v) == [id |-> "111", module |-> m, version |-> v]
WaitForGeneral == [id |-> "112"]
PrepareOrder(m, v) == [id |-> "120", module |-> m, version |-> v]
StartOrder(m) == [id |-> "121", module |-> m]

NodeGets(c, id) ==
    /\ fault = NoCpu
    /\ toNode[c] # <<>> /\ Head(toNode[c]).id = id
    /\ toNode' = [toNode EXCEPT ![c] = Tail(@)]

ClientGets(c, id) ==
    /\ fault = NoCpu
    /\ toClient[c] # <<>> /\ Head(toClient[c]).id = id
    /\ toClient' = [toClient EXCEPT ![c] = Tail(@)]

Tells(c, msg) == toClient' = [toClient EXCEPT ![c] = Append(@, msg)]

---------------------------------------------------------------------------
(* The clients.                                                            *)

NewClient == [loaded |-> directory, prepared |-> NoVersion, running |-> NoVersion,
              exec |-> NoModule, timers |-> 0]

\* InitModules: what runs is stopped, what is prepared is forgotten, and the
\* modules are read from the directory again.
InitModules(cl, dir) ==
    [cl EXCEPT !.loaded = dir, !.prepared = NoVersion, !.running = NoVersion]

\* sendModulesListToServer, by a client that has read the directory dir.
SendList(c, cl, dir, queue) ==
    /\ client' = [client EXCEPT ![c] = InitModules(cl, dir)]
    /\ toNode' = [queue EXCEPT ![c] = Append(@, List(dir))]

\* checkSendModulesListToServer: an unknown module is deleted, with its program.
ListAnswered(c) ==
    /\ ClientGets(c, "110")
    /\ LET unknown == Head(toClient[c]).unknown
           cl == client[c]
           gone == cl.exec \in unknown
       IN  client' = [client EXCEPT ![c] =
             [cl EXCEPT !.loaded = [m \in Module |-> IF m \in unknown THEN NoVersion
                                                                      ELSE @[m]],
                        !.prepared = IF gone THEN NoVersion ELSE @,
                        !.running = IF gone THEN NoVersion ELSE @]]
    /\ UNCHANGED <<files, directory, allow, node, toNode, given, lost, fault>>

\* updateModuleFromArchive
UpdateModuleFromArchive(c) ==
    /\ ClientGets(c, "111")
    /\ LET msg == Head(toClient[c])
       IN  \/ /\ directory' = [directory EXCEPT ![msg.module] = msg.version]
              /\ SendList(c, client[c], directory', toNode)
              /\ UNCHANGED lost
           \/ /\ "extract" \in Troubles
              /\ directory' = [directory EXCEPT ![msg.module] = NoVersion]
              /\ lost' = TRUE
              /\ UNCHANGED <<client, toNode>>
    /\ UNCHANGED <<files, allow, node, given, fault>>

\* Request 112: a timer of ten seconds is set.
WaitOrdered(c) ==
    /\ ClientGets(c, "112")
    /\ client' = [client EXCEPT ![c].timers = @ + 1]
    /\ UNCHANGED <<files, directory, allow, node, toNode, given, lost, fault>>

\* sendModulesListToServer_slot, when the ten seconds are over.
TimerFires(c) ==
    /\ fault = NoCpu
    /\ client[c].timers > 0
    /\ SendList(c, [client[c] EXCEPT !.timers = @ - 1], directory, toNode)
    /\ UNCHANGED <<files, directory, allow, node, toClient, given, lost, fault>>

\* Mutant: the copy is not compared.
CopiedAnyhow(cl, m) == cl.loaded[m] # NoVersion

\* createModuleTempEnvroment: the copy must have the sum of what was loaded.
Copied(cl, m) == directory[m] = cl.loaded[m]

\* prepareForStartModule
PrepareForStartModule(c) ==
    /\ ClientGets(c, "120")
    /\ LET msg == Head(toClient[c])
           m == msg.module
           cl == [client[c] EXCEPT !.exec = m]
           Answers(id) == toNode' = [toNode EXCEPT ![c] = Append(@, Reply(id, m))]
       IN  \/ /\ cl.loaded[m] = NoVersion
              /\ fault' = c
              /\ UNCHANGED <<client, toNode>>
           \/ /\ cl.loaded[m] \notin {NoVersion, msg.version}
              /\ client' = [client EXCEPT ![c] = cl]
              /\ Answers("md5_error")
              /\ UNCHANGED fault
           \/ /\ cl.loaded[m] = msg.version /\ ~Copied(cl, m)
              /\ client' = [client EXCEPT ![c] = cl]
              /\ Answers("refused")
              /\ UNCHANGED fault
           \/ /\ cl.loaded[m] = msg.version /\ Copied(cl, m)
              /\ client' = [client EXCEPT ![c] = [cl EXCEPT !.prepared = directory[m]]]
              /\ Answers("ready")
              /\ UNCHANGED fault
    /\ UNCHANGED <<files, directory, allow, node, given, lost>>

\* receivedInputParameters and startModule: without its directory a module has
\* no input files and is not ready.
ReceivedInputParameters(c) ==
    /\ ClientGets(c, "121")
    /\ LET m == Head(toClient[c]).module
           cl == client[c]
       IN  \/ /\ cl.loaded[m] = NoVersion
              /\ fault' = c
              /\ UNCHANGED <<client, toNode>>
           \/ /\ cl.loaded[m] # NoVersion /\ cl.prepared = NoVersion
              /\ toNode' = [toNode EXCEPT ![c] = Append(@, Reply("refused", m))]
              /\ UNCHANGED <<client, fault>>
           \/ /\ cl.loaded[m] # NoVersion /\ cl.prepared # NoVersion
              /\ client' = [client EXCEPT ![c].running = cl.prepared,
                                          ![c].prepared = NoVersion]
              /\ UNCHANGED <<toNode, fault>>
    /\ UNCHANGED <<files, directory, allow, node, given, lost>>

\* The program ends and its outputs and request 123 are sent.
ProgramEnds(c) ==
    /\ fault = NoCpu
    /\ client[c].running # NoVersion
    /\ client' = [client EXCEPT ![c].running = NoVersion]
    /\ toNode' = [toNode EXCEPT ![c] = Append(@, Reply("ended", client[c].exec))]
    /\ UNCHANGED <<files, directory, allow, node, toClient, given, lost, fault>>

---------------------------------------------------------------------------
(* The server's nodes.                                                     *)

NewNode == [listed |-> Nothing,           \* modules with their md5 that jobs may use
            accepted |-> FALSE,           \* the last list was answered (history)
            connected |-> FALSE,          \* nodeConnected_slot connected its signals
            last |-> NoModule,            \* upgrade_last_module
            failed |-> {},                \* upgrade_failed_modules
            upload |-> NoUpload,          \* the archive under way
            job |-> NoJob,                \* busy, and with what
            prev |-> NoProcess]           \* previous_process_id

\* clearNodeState: the end of an upload would tell nobody any more.
Cleared(n) == [n EXCEPT !.job = NoJob, !.upload = NoUpload]

\* A signal reaches the server's slots, which clear the node, once connected.
Reported(n) == IF n.connected THEN Cleared(n) ELSE n

\* Mutant: the modules stay while the archive is sent.
UploadingListed(n, m) ==
    [n EXCEPT !.upload = [module |-> m, version |-> files[m]],
              !.accepted = FALSE]

\* updateModuleOnTheNode on the general node: its modules are forgotten.
Uploading(n, m) ==
    [n EXCEPT !.upload = [module |-> m, version |-> files[m]],
              !.listed = Nothing,
              !.accepted = FALSE]

\* Mutant: the number of the CPU is not looked at.
UpdateAnyNode(c, n, m) ==
    /\ node' = [node EXCEPT ![c] = Uploading(n, m)]
    /\ UNCHANGED toClient

\* updateModuleOnTheNode, on the node that has the state n.
UpdateModuleOnTheNode(c, n, m) ==
    \/ /\ c = General
       /\ node' = [node EXCEPT ![c] = Uploading(n, m)]
       /\ UNCHANGED toClient
    \/ /\ c # General
       /\ node' = [node EXCEPT ![c] = n]
       /\ Tells(c, WaitForGeneral)

\* receiveModulesListRequest goes through the list and stops at the first
\* outdated module that may be updated.  A module that was updated last and
\* differs again is never updated any more.
ReceiveModulesListRequest(c) ==
    /\ NodeGets(c, "110")
    /\ LET theirs == Head(toNode[c]).versions
           n == node[c]
           differing == { i \in DOMAIN Listing :
                            theirs[Listing[i]] \notin {NoVersion, files[Listing[i]]} }
           again == { i \in differing : Listing[i] = n.last }
           outdated == IF allow
                       THEN { i \in differing \ again : Listing[i] \notin n.failed }
                       ELSE {}
           Accepted(upto) == [m \in Module |->
                                IF \E i \in upto \ differing : Listing[i] = m
                                THEN theirs[m] ELSE NoVersion]
           GivenUp(upto) == n.failed \cup { Listing[i] : i \in again \cap upto }
       IN  \/ /\ outdated # {}
              /\ LET stop == Min(outdated)
                     walked == 1..(stop - 1)
                 IN  UpdateModuleOnTheNode(c,
                        [n EXCEPT !.listed = Accepted(walked), !.accepted = FALSE,
                                  !.failed = GivenUp(walked), !.last = Listing[stop]],
                        Listing[stop])
           \/ /\ outdated = {}
              /\ node' = [node EXCEPT ![c] =
                    [n EXCEPT !.listed = Accepted(DOMAIN Listing), !.accepted = TRUE,
                              !.failed = GivenUp(DOMAIN Listing), !.connected = TRUE]]
              /\ Tells(c, Known({ Listing[i] : i \in differing }))
    /\ UNCHANGED <<files, directory, allow, client, given, lost, fault>>

\* updateModuleArchiveUploaded_slot
ArchiveUploaded(c) ==
    /\ fault = NoCpu
    /\ node[c].upload # NoUpload
    /\ node' = [node EXCEPT ![c].upload = NoUpload]
    /\ LET u == node[c].upload
       IN  \/ /\ Tells(c, Archive(u.module, u.version))
              /\ UNCHANGED lost
           \/ /\ "upload" \in Troubles
              /\ lost' = TRUE
              /\ UNCHANGED toClient
    /\ UNCHANGED <<files, directory, allow, client, toNode, given, fault>>

\* checkProcessQueue gives c a job of process p, and prepareModule orders it:
\* the sum is computed again for the first job of another process.
PrepareModule(c, p, m) ==
    /\ fault = NoCpu
    /\ given < MaxJobs
    /\ node[c].job = NoJob /\ node[c].listed[m] # NoVersion
    /\ LET v == IF p # node[c].prev THEN files[m] ELSE node[c].listed[m]
       IN  /\ node' = [node EXCEPT
                         ![c].listed[m] = v,
                         ![c].job = [process |-> p, module |-> m, version |-> v]]
           /\ Tells(c, PrepareOrder(m, v))
    /\ given' = given + 1
    /\ UNCHANGED <<files, directory, allow, client, toNode, lost, fault>>

\* The handler of the answer to 120 looks the module up first.
Unlisted(c, m) ==
    /\ node[c].listed[m] = NoVersion
    /\ fault' = c
    /\ UNCHANGED <<node, toClient>>

\* Mutant: the update is begun first, and clearNodeState stops waiting for it.
UpdatedAndGivenBack(c, m) ==
    IF c = General
    THEN /\ node' = [node EXCEPT ![c] = Reported(Uploading(@, m))]
         /\ UNCHANGED toClient
    ELSE UpdateModuleOnTheNode(c, Reported(node[c]), m)

\* prepareModuleFailed_slot clears the node, then the module is updated.
GivenBackAndUpdated(c, m) == UpdateModuleOnTheNode(c, Reported(node[c]), m)

\* checkPrepareForStartModule, for status 0 and substatus md5_error.
Md5Error(c) ==
    /\ NodeGets(c, "md5_error")
    /\ LET m == Head(toNode[c]).module
       IN  \/ Unlisted(c, m)
           \/ /\ node[c].listed[m] # NoVersion
              /\ GivenBackAndUpdated(c, m)
              /\ UNCHANGED fault
    /\ UNCHANGED <<files, directory, allow, client, given, lost>>

\* Status 0: prepareModuleFailed_slot, and addFailedModule ends the module here.
PrepareFailed(c) ==
    /\ NodeGets(c, "refused")
    /\ LET m == Head(toNode[c]).module
       IN  node' = [node EXCEPT ![c] =
             IF @.connected THEN [Cleared(@) EXCEPT !.listed[m] = NoVersion] ELSE @]
    /\ UNCHANGED <<files, directory, allow, client, toClient, given, lost, fault>>

\* Status 1: the input files and request 121 are sent.
PrepareSucceeded(c) ==
    /\ NodeGets(c, "ready")
    /\ LET m == Head(toNode[c]).module
       IN  \/ Unlisted(c, m)
           \/ /\ node[c].listed[m] # NoVersion
              /\ Tells(c, StartOrder(m))
              /\ UNCHANGED <<node, fault>>
    /\ UNCHANGED <<files, directory, allow, client, given, lost>>

\* moduleExecutionEnded, and endModuleSuccess_slot.  The module is listed: the
\* list that does not have it would have stopped the program when it was sent.
ModuleExecutionEnded(c) ==
    /\ NodeGets(c, "ended")
    /\ node' = [node EXCEPT ![c] = [Reported(@) EXCEPT !.prev = node[c].job.process]]
    /\ UNCHANGED <<files, directory, allow, client, toClient, given, lost, fault>>

\* The files of a module in the server's package are replaced.
FilesReplaced(m) ==
    /\ fault = NoCpu
    /\ files[m] < MaxVersion
    /\ files' = [files EXCEPT ![m] = @ + 1]
    /\ UNCHANGED <<directory, allow, node, client, toNode, toClient, given, lost, fault>>

---------------------------------------------------------------------------

\* Every client was authorized and has sent its list.
UpdateInit ==
    /\ files \in [Module -> Version]
    /\ directory = [m \in Module |-> 0]
    /\ allow \in BOOLEAN
    /\ node = [c \in Cpu |-> NewNode]
    /\ client = [c \in Cpu |-> NewClient]
    /\ toNode = [c \in Cpu |-> <<List(directory)>>]
    /\ toClient = [c \in Cpu |-> <<>>]
    /\ given = 0
    /\ lost = FALSE
    /\ fault = NoCpu

ClientHandles(c) ==
    \/ ListAnswered(c)
    \/ UpdateModuleFromArchive(c)
    \/ WaitOrdered(c)
    \/ PrepareForStartModule(c)
    \/ ReceivedInputParameters(c)

NodeHandles(c) ==
    \/ ReceiveModulesListRequest(c)
    \/ Md5Error(c)
    \/ PrepareFailed(c)
    \/ PrepareSucceeded(c)
    \/ ModuleExecutionEnded(c)

UpdateNext ==
    \/ \E c \in Cpu :
         \/ ClientHandles(c)
         \/ NodeHandles(c)
         \/ TimerFires(c)
         \/ ProgramEnds(c)
         \/ ArchiveUploaded(c)
         \/ \E p \in Process, m \in Module : PrepareModule(c, p, m)
    \/ \E m \in Module : FilesReplaced(m)

UpdateSpec == UpdateInit /\ [][UpdateNext]_updateVars

\* The event loops of the server and of each client run, a timer is over some
\* time and a transfer ends.  Programs, jobs and edits of packages may not come.
FairUpdateSpec ==
    /\ UpdateSpec
    /\ \A c \in Cpu :
         /\ WF_updateVars(ClientHandles(c))
         /\ WF_updateVars(NodeHandles(c))
         /\ WF_updateVars(TimerFires(c))
         /\ WF_updateVars(ArchiveUploaded(c))

---------------------------------------------------------------------------
(* Properties.                                                             *)

Message(id) ==
    CASE id = "110" -> [id : {"110"}, versions : Versions]
      [] OTHER -> [id : {id}, module : Module]

\* Everything has its type; only the general node is sent archives, and every
\* message carries what its receiver reads of it.
UpdateTypeOK ==
    /\ files \in [Module -> Version]
    /\ directory \in Versions
    /\ allow \in BOOLEAN /\ lost \in BOOLEAN
    /\ given \in 0..MaxJobs
    /\ fault \in Cpu \cup {NoCpu}
    /\ client \in [Cpu -> [loaded : Versions,
                           prepared : Version \cup {NoVersion},
                           running : Version \cup {NoVersion},
                           exec : Module \cup {NoModule},
                           timers : Nat]]
    /\ node \in [Cpu -> [listed : Versions, accepted : BOOLEAN, connected : BOOLEAN,
                         last : Module \cup {NoModule}, failed : SUBSET Module,
                         upload : {NoUpload} \cup
                             [module : Module, version : Version],
                         job : Job \cup {NoJob},
                         prev : Process \cup {NoProcess}]]
    /\ \A c \in Cpu : node[c].upload # NoUpload => c = General
    /\ \A c \in Cpu : \A i \in DOMAIN toNode[c] :
         toNode[c][i] \in Message(toNode[c][i].id)
    /\ \A c \in Cpu : \A i \in DOMAIN toClient[c] :
         toClient[c][i].id \in {"111", "112"} => (toClient[c][i].id = "111" <=> c = General)

\* A program that runs is the version whose sum the server sent with its job,
\* although another client may replace the files between the reading of the
\* list, the job's order and the copy.
RunsTheServersVersion ==
    \A c \in Cpu : client[c].running # NoVersion =>
        /\ node[c].job # NoJob
        /\ client[c].running = node[c].job.version

\* An order, an answer or a program of the job of c exists: it can still end.
Alive(c) ==
    \/ client[c].running # NoVersion
    \/ \E i \in DOMAIN toNode[c] : toNode[c][i].id # "110"
    \/ \E i \in DOMAIN toClient[c] : toClient[c][i].id \in {"120", "121"}

\* Updates never take a job away from the general node, nor its module from
\* under a handler: modules are forgotten while the archive is sent, so no job
\* is there when the client reads its modules again.
GeneralKeepsJobs ==
    /\ node[General].job # NoJob => node[General].connected /\ Alive(General)
    /\ fault # General

\* The same of every client of the host: false, as the clients that wait for
\* the general one are given jobs while they wait.
EveryNodeKeepsJobs ==
    \A c \in Cpu : node[c].job # NoJob => node[c].connected /\ Alive(c)

\* A module is given up only after an archive failed: false, as one whose
\* update takes longer than the ten seconds, or that changes twice, is too.
GivenUpMeansFailed == (\E c \in Cpu : node[c].failed # {}) => lost

\* A node whose list was refused, or whose modules were forgotten for an
\* update, has a list accepted later, whatever is replaced meanwhile, unless an
\* archive is lost or a handler reads modules[-1].
UpdateEnds ==
    \A c \in Cpu :
        ~node[c].accepted ~> (node[c].accepted \/ lost \/ fault # NoCpu)
===============================================================================
