# Verification of Discomp

Discomp is a server that hands out the modules of calculating processes to
client programs on many machines.  This directory holds TLA+ specifications
translated from the C++ sources in `src/src`: of its scheduling core, and,
each on its own, of the file transfers, the control points, the processes that
are scripts and the updates of modules; the configurations TLC checks them
with; and proofs for TLAPS.  Line numbers below
are those of `src/src/...`.

## The system

| Part | State it keeps | Operations | Hard behaviour |
|---|---|---|---|
| Server (`server/server.cpp`) | vectors `nodes` (a pointer is cleared when its node leaves, an index is never reused) and `processes`, `process_counter` | slots for every signal of a node or a process, `checkProcessQueue` at the end of most of them, requests of users | handlers nested in handlers, a process deleted inside its own method, cleared pointers, wakeups |
| Node (`server/node.cpp`), one thread per connection | `busy`, `stoping_module_execution`, `process_id`, `current_module_exec`, the modules and which of them failed, files being sent | sends requests 120 (prepare), 121 (inputs sent), 124 (stop); receives answers and requests 100, 110, 123 | answers that cross a stop, failures at every step of a job |
| Process (`server/process.cpp`, `process_stage.cpp`) | the current stage and, for each of its slots, status and node | give a job to a node, end it, give it back, stop modules, enter a stage, complete | list expansion, stage barrier, event handlers that call back |
| Client (`client/client.cpp`, `lib/module.cpp`) | current module, temporary directories, running program, files being sent, a message waiting for its archive | prepare, receive inputs, start, end, fail, time out, stop, reconnect | programs that end while a stop or a new connection arrives |
| Socket (`lib/socket.cpp`) | message buffer, `file_sending_busy`, queue of files | whole messages in order; files in blocks, one at a time | a lost connection, a transfer cut short |
| Plan handlers (`process_plugin*.cpp`) | none of the schedule's own | `stopModule`, `stopListModule`, `gotoStage` | run inside the handler that ended a module |
| User requests (`server/rpc_thread.cpp`) | sessions | start and stop a process, disconnect a node, clear failed modules | come between any two other events |
| Control points (`server/process_controlpoint.cpp`) | the file `controlpoints.xml` | create, delete, resume | the server stops between two steps of writing the file |
| JavaScript processes (`server/process_js.cpp`, `module_js.cpp`) | the engine, the vector of module objects and their status | `start`, `startElement`, `stop`, the waiting calls, event handlers | a thread of its own beside the main thread, wakeups, a handler while the script runs |
| Module updates (`client/client.cpp`, `server/node.cpp`) | on the host a directory shared by all clients, on the client what it loaded, on the node `modules`, `upgrade_last_module`, `upgrade_failed_modules` | list of modules (110), archive (111), order to wait (112), checksum with request 120 | files that change under a job, several clients and one directory |
| Monitoring, web interface, HTTP server, CLIPS, helpers | | | not modelled: input and output without a protocol |

A job goes like this.  `checkProcessQueue` asks each process, oldest first, for
a job for each free node (`giveJobToNode`).  The node sends request 120, the
client makes a temporary directory and answers, the server sends the input
files and request 121, the client starts the program and answers 122.  When
the program ends the client sends the output files and request 123, or the
archive of the directory and request 123 with status 0.  The server ends or
gives back the job, runs the plan's handler, frees the node and checks the
queue again.  Request 124 stops a module; until its answer comes the node
drops every other message.

What makes the parts correct:

* server and nodes: a started module and the node that works for it never lose
  each other; a node works on one job; every stop is answered once; a busy
  node has a reason to be busy; no free node is left while a module it could
  run waits; no handler uses a deleted object.
* process: a stage is entered when all modules of the one before have ended,
  empty lists are skipped, a report ends the reporting node's slot only.
* client: one program at a time, none that nobody waits for, and a report of
  success only of a program that ended.
* transfers: each is reported to its sender once, in order, and as a success
  only if the file has arrived; none waits for ever.
* control points: no module is skipped by a resume, and none is run again that
  the file could have saved.
* scripts: what a script starts is run, what it waits for ends.
* updates: the version that runs is the one the server gave with the job, and a
  node whose list was refused has one accepted later.
* all together: a process ends.

`PROJECT.json` lists under `hazards` where each of these is at risk.

## The modules

The core:

| Module | Models | Notes |
|---|---|---|
| `DiscompModules` | names, and the set `May` of events of the environment | a run chooses which events happen |
| `DiscompProcess` | class `DiscompProcess` | no variables: each method is an operator from a process `[name, stage, slots]` to a process |
| `DiscompNet` | connections as the handlers see them | `toNode[n]`, `toServer[n]` are the messages on the way; `Lose(n)` drops a suffix of each and queues the close |
| `DiscompServer` | `DiscompServer` and `DiscompNode` | one action per handler, `GiveJob`/`EndScan` for the loop of `checkProcessQueue` |
| `DiscompClient` | `DiscompClient` with `DiscompModule` | one action per request, per end of a program and per end of a transfer |
| `Discomp` | the composition, fairness, properties | |
| `DiscompInvariant` | the inductive invariants `JobsInv`, `WaitsInv`, `StopsInv`, `TalksInv`, `CarriedInv`, `SoundInv`, `WorkInv` | named conjuncts, one comment each |
| `DiscompProcessProofs` | lemmas about the operators of `DiscompProcess` | used by both components that have a process |
| `DiscompProofs` | lemmas about the server's handlers, messages and clients, theorem `TypeCorrect`; lemmas about `JobsInv`, theorems `JobsStaySafe`, `JobsHaveNodes`, `NodesAreNotShared` | the modules below build on it |
| `DiscompWaitProofs` | lemmas about `WaitsInv` and `StopsInv`, theorems `WaitsAreAwaited`, `BusyNodesHaveJobs`, `StopsAreAnswered`, `StopsAreNamed`, `StoppingModulesHaveNodes`; lemmas about `SoundInv` and `WorkInv`, theorems `NoHandlerFaults`, `NoWorkIsLeft` | |
| `DiscompTalkProofs` | lemmas about `TalksInv` and `CarriedInv`, theorems `ClientsTakeTurns`, `ClientsRunOneProgram`, `ClientsCarryTheirJobs`, `CreditedJobsRan`, `ProgramsAreWanted` | on top of `DiscompWaitProofs` |

Beside the core:

| Module | Models | Notes |
|---|---|---|
| `TransferQueue` | what `DiscompSocket` promises of a file | an abstract specification: a queue per end, one file at a time, a report for each |
| `FileTransfer` | requests 10 and 11 and the blocks of `DiscompSocket`, both ends | implements `TransferQueue` (`Queue == INSTANCE ... WITH`) |
| `FileTransferProofs` | lemmas, one per handler; the theorems on `TurnsInv`, on types and on `DeliveryInv` | |
| `ControlPoint` | `DiscompProcessControlPoint` at every place `process.cpp` calls it | extends `DiscompProcess` |
| `ControlPointProofs` | lemmas about points and writes; the theorems on `PointInv`, `ResumeInv` and `CurrentInv` | |
| `ProcessJS` | `DiscompProcessJS`, `DiscompModuleJS`, and what the server does for them | nodes reduced to what a script sees of them; the inductive invariants `QueueInv` and `DoneInv` |
| `ProcessJSProofs` | lemmas, one per step of thread, server and nodes; the theorems on types, `QueueInv`, `NoDeadSituation` and `DoneRan` | |
| `ModuleUpdate` | requests 110, 111, 112 and the checksum of 120 on one host | |
| `ModuleUpdateProofs` | lemmas, one per action; the theorems on `UpdateInv` | |

`DiscompServer` extends `DiscompProcess` and `DiscompNet`; `Discomp` extends
`DiscompServer` and `DiscompClient` and joins their actions.  `DiscompProofs`
and `MCDiscomp` extend `DiscompInvariant`, which extends `Discomp`.  The modules
`MC...` hold plans, scripts and symmetry for TLC.

### How state and steps of the core correspond to the code

* All slots of `DiscompServer`, `DiscompNode` and `DiscompProcess` run in the
  server's main thread, one at a time, so a handler is one action.  The socket
  of a node lives in its own thread and posts to the main thread; `toServer[n]`
  is the wire and that event queue together.  The closing of a connection is an
  event in the same queue (`Closed`).
* The loop of `checkProcessQueue` is the tail of its handler.  It is cut into
  one step per process and free node, in the order of the loop (`Offers`,
  `Later`); `Idle` keeps every other handler out until it ends, so only the
  clients' own steps come in between.  `scan.again` and `scan.free` hold what
  is left of the handler in which a process completed: free its node, and run
  the loop once more.
* Deleting an object that is in use and reading a cleared pointer set `fault`;
  the model stops there and promises nothing about what follows.  Configurations
  therefore say `CHECK_DEADLOCK FALSE`; besides, a system whose processes are
  done and whose numbers of connections and processes are used up rightly rests.
* `slots` are those of the current stage.  `<<i, 0>>` is the i-th entry of the
  plan and `<<i, e>>` its e-th clone; `Before` is the order of the vector, in
  which clones follow all entries.  An empty list ends the expansion of the
  stage (`process.cpp:879`), so a list behind it keeps its number -1
  (`LostElement`) and its module gets an input path that does not exist.
* `nodes[n].lost` holds the modules whose input path was last set from such an
  element, `nodes[n].sending` the module whose `files_for_send` is not empty.
* On the client, `into` is the directory files are received in, `ready` the
  modules whose input files are there, `msg` is `tmp_protocol_msg` with its
  archive under way, `stuck` the mark `file_sending_busy` with no transfer
  behind it: on this side only, or on both.
* `credited` and `ran` are history: jobs marked done on a report of success,
  and jobs whose program ended by itself.  A `Job` is a process, a stage and a
  slot; messages carry it for the properties only.

### The other components

**File transfers.**  Both ends run the same code with one set of fields
(`file_sending_busy`, `file_data_dev`, `file_current_name`, the queue), so
`sock[e]` serves sending and receiving, as in `socket.cpp`.  A handler and the
`checkFileSendingQueue` behind it are one action; the blocks of a file are one
message.  `Calls of the owners` are those of `DiscompNode` and `DiscompClient`;
`Turn` says that an owner sends only while the other end has nothing to send, as
the inputs and the outputs of a job do not overlap, unless `cross` is among the
`Faults`.

**Control points.**  A handler changes the process at once and leaves the steps
of writing in `todo`; `Write` makes them one by one, and nothing else happens
before they are made, but `Crash` may come between any two.  `GiveJob` calls
`checkCurrentStageIsDone` before it looks for a module, as `giveJobToNode` does
(`process.cpp:927`): that is how a stage without any work is left.  `File::save`
truncates and then writes, hence the step `Torn`.  `DiscompProcess` is used as
it stands: stages, lists, plan handlers and jumps are those of the core.

**Scripts.**  The script is a list of commands; each call into the engine that
the source makes atomic is an action of the script's thread.  Signals to the main
thread are queued in `posted`.  `checkProcessQueue` is a whole handler here
(`CheckProcessQueue`), since only the main thread runs it: `Gives` relates the
queue to the module each free node in turn is given.  An object is made once,
before any other command names it (`ScriptAssumption`).  A completed process
is destroyed in that loop, which then goes on with `processes[0]`; without another
process (`Company = FALSE`) that sets `fault`, whether or not a node is free.

**Updates.**  `files` is the package directory of the server, `directory` that of
the host, `client[c].loaded` what the client read last, `node[c].listed` what
the server's node took over of it; a version stands for an MD5 sum.  `connected` says
whether the node's signals have reached the server's slots: a node is put into
`nodes` before its list was ever accepted.  After an archive (111), and ten
seconds after an order to wait (112), a client reads its modules again and sends
the list: `InitModules` (`client.cpp:73`) kills what runs then.

### Abstractions

The core:

* A file transfer is one step that takes place at some later time; a job's
  files are transferred together.  One that is cut short by a stop leaves the
  sockets busy (`Interrupted`), or, with `stopRace`, completes all the same.
* Server and clients agree on the installed modules; `ModuleUpdate` is about
  how they come to.
* The parameters of modules are reduced to what the schedule can tell:
  `HasInputs`, `HasOutputs`, `Unfed` (an input that no parameter of the plan
  defines) and the events for missing files.
* The number of elements of a list is fixed by the plan.
* Handlers on a stage's or module's `onStart`, and a stage's `onFinish`, are
  left out; those on a module's `onFinish` and `onStop` may stop modules by name
  or list element, in any number of calls, and then go back once to any stage up
  to the current one.  Stops that follow a jump and second jumps are left out;
  stops of one handler reach a node in the order of the slots.
* Every process starts at its first stage: the attribute `start_stage` of a
  plan (`process.cpp:362`) is not read.
* A client that loses its connection drops the files it has queued.  The code
  keeps the queue of the client's socket (`socket.cpp:194`); `FileTransfer`
  models that, and what comes of a report that is late for it.
* Programs started with `cmd_start_detached` (`module.cpp:669`, `837`) are not
  modelled: the client does not hold such a program, so a stop or a timeout does
  not end it, and its module is over when its output files are there.
  `OneProgramPerClient` and `ProgramIsWanted` speak of attached programs.
* A module whose program still runs and that is started again loses the old
  program silently, as its `QProcess` is replaced.
* After an object of a disconnected node is deleted by the event loop its
  queued events vanish (`ReapNode`), at any time.

The others:

* `FileTransfer`: what the owners do with a report is left open, except that a
  client whose output file is refused sends its archive.  A file opened for
  writing has no blocks to send.
* `ControlPoint`: nodes are reduced to whether a module is given, lost or ended.
* `ProcessJS`: preparing and starting a module on a node are one step; `onStart`
  handlers and the queue inside a handler are left out, and so are the script's
  accesses to the vector `modules` while the main thread reads it, which no
  lock orders, and the counter `module_js.cpp:91` reads before it is set.
* `ModuleUpdate`: which job a node gets, and when, is left open; every module
  has input files; reading and replacing a directory are one step each;
  installing a module by a user (`rpc_thread.cpp:609`) is left out.

## The runs

The runs of the core use `MCDiscomp`.  Unless said otherwise: two clients that
have both modules `a` and `b`, `b` has input files, `a` has output files, two
connections and one process.  Two clients with the same modules are
interchangeable, since the server knows them by the number of their connection
only; runs of invariants alone use that symmetry, those with liveness do not.

| Run | Plan and bounds | Events | Distinct states | Checks |
|---|---|---|---|---|
| `jobs` | two processes at once: a list of two, an empty list, a single module; an empty list beside a list of two, a single module | a program that does not start or takes too long, an output file that is not accepted; fair | 390,213 | `TypeOK`, `JobHasNode`, `OneJobPerNode`, `WorkConserving`, `DoneJobsRan`, `OneProgramPerClient`, `ProgramIsWanted`, `ProcessEnds` |
| `stops` | one stage of three jobs, more than nodes | the user's stop, the plan's stops and jumps | 977,680 | `JobHasNode`, `StopAnswered`, `StoppingHasNode`, `BusyNodeHasJob`, `ProgramIsWanted`, `WorkConserving` |
| `breaks` | a list of two, a single module | lost connections, the user's stop | 151,003 | `JobHasNode`, `BusyNodeHasJob`, `StopAnswered`, `NoUndefinedBehaviour`, `JobsInv` |
| `everything` | one of two processes, two modules one after the other or a list of two; one client and connection | all sixteen; fair | 245,372 | `BusyNodeHasJob`, `StopEnds` |
| `transfers` | four files in any order from either end, one of them refused | a cleared queue, a file that changes; fair | 23,341 | `TransferTypeOK`, `BusyIsAwaited`, `TurnsInv`, `QueueImplemented` |
| `transfer_faults` | four files, one of them gone, two lost connections | crossing files, a stop, a cleared queue, a file that changes | 625,153 | `DeliveredIntact`, `ToldOnce` |
| `control_points` | three stages: a list of two beside an empty list, an empty list alone, two modules side by side; two stops of the server | the user's stop, the plan's stops and jumps, timeouts, lost nodes | 72,909 | `PointTypeOK`, `NothingSkipped`, `PointIsCurrent`, `ResumePossible`, `PointInv` |
| `scripts` | three scripts (a loop, a search that stops its rivals, one of events), three objects, two nodes | failures, lost nodes, the user's stop; another process in the queue; fair | 101,110 | `ScriptTypeOK`, `NoDeadSituation`, `DoneRan`, `ScriptEnds` |
| `updates` | two clients of a host, two modules, one replacement of each, two jobs of two processes | a lost archive, an archive that cannot be unpacked; fair | 246,798 | `UpdateTypeOK`, `RunsTheServersVersion`, `GeneralKeepsJobs`, `UpdateEnds` |

Bounds: `MaxConn` bounds the connections accepted and `MaxStarts` the processes
started in one life of the server.  Two nodes and three jobs are enough for
each way two jobs can meet: on two nodes, one after the other on one node, one
waiting while the nodes are busy, and for a handler that ends one job while a
second runs and a third is being stopped.  Two connections with one client
make one reconnection.  `MaxLosses` bounds lost connections of a transfer: after
two, the client's socket, which is kept, has met a new server's socket in every
state.  With four files, two can wait while one is sent and one comes from the
other end.  `MaxCrashes = 2` lets the server stop while it writes what a resumed
process saved.  `MaxVersion` and `MaxJobs` bound the replacements of a module's
files and the jobs given: one replacement during a job, an update or an upload
is every case of a sum that is stale where it is used, and each module
starts at either version.

What the properties say is in the comments beside them.  Each is paired in
`PROJECT.json` with a mutant of the model, a plausible mistake in the code it
would catch: a slot not reset, a node not freed, a stage entered early, a stop
sent twice, a report matched by name only, a file left busy, a point not
written, a sum not compared, an update begun before the node is given back.

The configurations say `CHECK_DEADLOCK FALSE`: a system whose processes, files
or jobs are done rightly rests, and the models stop where the code's behaviour
is undefined.

### Fairness

* `Fairness` in `Discomp.tla`: the main thread takes its next event, each client
  handles its next message, sockets move bytes, started programs end and clients
  connect while a connection number is left.  These are Qt event loops and a
  timer that reconnects (`client.cpp:1097`).
* `FairTransferSpec`: both sockets' event loops take what arrives.
* `FairScriptSpec`: the two threads and the nodes run, and every node connects.
* `FairUpdateSpec`: the event loops run, a timer is over some time, an upload ends.

Nothing is assumed of users, failures, timeouts, crashes and lost connections.

### The refinement

`QueueImplemented` in run `transfers` is `Queue!QueueSpec`, the whole of
`TransferQueue` with its liveness: the file a socket is busy with is `current`,
its queue `queue`, what the other end has complete `arrived`, and the calls of
`fileSendingDone_signal` are `reports`.  Of the messages of a transfer the
blocks complete the file and request 11 may remove it again (`Arrive`), the
answers that end the transfer are `Finish`, and the others are stutters.  A
success is reported only of a file that has arrived.  `Follow` says what comes next, and keeps two oddities
of the code: after a refused file the owner's own next file goes ahead of the
queue, and after a failed check the queue rests until the next `sendFile`.

### What the code does differently

Three runs expect a violation, of what a comment or a message of the source says:

* `lost_output`: an output file that is not on the server when its module
  reports success.  `endModuleFailed_slot` has a branch for error 0 and 2, the
  node reports error 1: the node is freed and the module stays started.
* `empty_last`: a plan whose last stage is an empty list completes in
  `giveJobToNode`, which then reads the deleted process.
* `early_event`: a module that ends while the script of its process still runs
  has its `onFinish` handler refused, with an `ASSERT` in the log
  (`process_js.cpp:310`), and nothing runs it later.

The same properties show more, with other events; to see one, change the
constants in the configuration of a passing run:

| Property | Constants | What happens |
|---|---|---|
| `DoneJobsRan` | run `jobs`, `May = {"crash"}` | a crash raises two signals; without output files the second makes the server mark the module done (`module.cpp:898`) |
| `WorkConserving` | `break` | `nodeDisconnected_slot` gives jobs back without checking the queue, so a free node may stay without work (`server.cpp:211`) |
| `WorkConserving` | `clearFailed`, `startFail` | cleared modules wait until some other event (`server.cpp:986`) |
| `WorkConserving` | plan `SideBySide`, `HasInputs = {a}`, `Unfed = {a}` | `giveJobToNode` gives up at the first slot whose input is not defined (`process.cpp:948`) |
| `NoUndefinedBehaviour` | `clearFailed`, `break`, `startFail` | the loop of `clearFailedModulesForNodes` meets a cleared pointer |
| `StoppingHasNode` | `pluginStop`, `break` | a module being stopped on a lost node stays so (`process.cpp:992`) |
| `StopAnswered` | plan `SideBySide`, `pluginStop`, `inputSendFail` | a refused input file frees a node that is being stopped (`node.cpp:734`) |
| `JobHasNode` | plan `ThreeJobs`, `HasInputs = {a, b}`, `pluginStop`, `inputSendFail` | the node freed that way gets a new job, which the late answer to the stop ends (`node.cpp:734`) |
| `DoneJobsRan` | `pluginStop`, `stopRace`, or `break` | the end of an old transfer is reported for the module that is current then (`client.cpp:927`) |
| `OneProgramPerClient`, `ProgramIsWanted` | plan `SideBySide`, two connections, `break` or `rpcDisconnect` | a client whose connection ends keeps its program (`connectionClosed_slot` stops none, `client.cpp:218`), connects again, and is given another job |
| `OneProgramPerClient` | plan `ThreeJobs`, one client and connection, `HasInputs = {a, b}`, `HasOutputs = {a}`, `crash` | a module without outputs reports a crash twice, and the second report ends the next job of its node while that runs |
| `OneProgramPerClient` | one connection, `stopProcess` and `stopRace` | the end of a transfer that was to be stopped is reported for the program that is started next |
| `OneProgramPerClient` | plan `ThreeJobs`, `pluginStop` and `outputLost` | a result without its files frees the node and leaves its slot started (run `lost_output`); a stop for that slot reaches the node's next job, and two jobs come to one client |
| `ProcessEnds` | `stopProcess`, one client and connection, `MaxStarts = 2` | a stop during a transfer leaves both sockets busy (`socket.cpp:776`) |
| `BusyIsAwaited` | run `transfers`, `Faults = {"stop"}` | `stopFileSending` leaves `file_sending_busy`, "file is already sending" (`socket.h:88`), on both sockets: later files wait for ever |
| `ResumePossible` without `intact` | run `control_points` | a stop of the server between removing the old file and closing the new one leaves none: the process starts again from nothing (`process_controlpoint.cpp:119`) |
| `DeliveredIntact` | run `transfer_faults` with `f5` and `f6` added to `MCFileTransfer`, `Refused = {f5}` | where transfers cross, a refused file lets a second request 10 out while the first is unanswered; the answers are then taken for each other, and an end reports the success of a file it is receiving (`socket.cpp`: neither answer names its file) |
| `PointIsCurrent` | run `control_points`, plan `<< <<a, b>>, <<a, List(b, 0)>> >>`, `May = {"pluginStop"}` or `{"timeout"}` | an empty list behind the first stage beside other work ends the rebuilding of the stage before the file is written (`process.cpp:874`): a resume runs the modules of the stage before it again |
| `WorkConserving`, `ProcessEnds` | run `jobs`, plan `<< <<One(a)>>, <<List(a, 0)>>, <<List(a, 0)>>, <<One(b)>> >>` | `checkCurrentStageIsDone` goes one stage further per call: the process rests in the second empty stage though the comment says "if list is empty, then skip this stage" (`process.cpp:873`) |
| `WorkConserving` | two processes, an empty list in a middle stage | a process rests in a finished stage without a free node until a node comes or is freed |
| `DoneRan` | one node; modules `x`, `y` of one name; a script that runs and awaits `x`, starts `y` and starts `x` again | the report of `y` marks `x` done while it waits: a module keeps `executed_on_node` when it is started again, and a report names no object (`process_js.cpp:592`) |
| `DoneRan` | a script that starts `x` twice without a wait | the report of the first run marks it done |
| `DoneRan` | one node; `x` of one name, `y`, `z` of another; a script that starts all and stops `x` | a stop is a signal of the script's thread; `x` ends and `y` is started before it is served; the client answers it, the node is freed beside the running `y`, gets `z`, and the report of `y` marks both done (`process_js.cpp:409`, `server.cpp:937`) |
| `EveryNodeKeepsJobs` | run `updates` | a client that waits for the general one is given jobs, and its restart when the ten seconds are over kills them (`client.cpp:73`) |
| `GivenUpMeansFailed` | run `updates` | a module whose update takes longer than ten seconds is never updated again, as `upgrade_last_module` is not reset (`node.cpp`) |

Other things a reader of the code should know that the models show:

* A control point saves every status but done as waiting, so a module that a
  handler stopped runs after a resume (`process_controlpoint.cpp:107`); the sum
  of the plan that the file carries is not compared; and the file of a completed
  process stays until its start script removes it.
* For a script, `clearJobOnNode` and `moduleMaxTimeReached` are empty
  (`process_js.cpp:572`): a module whose node is lost or whose time is over stays
  started, and a script that waits for it waits for ever.  `newModulesAvailable_slot`
  runs the queue only while all nodes were free when the loop last ended.
* A node's sum of a module is computed again only for the first job of
  another process (`node.cpp:576`).

So the passing runs leave out what would let one known case hide all others:
`jobs` has no crash and no stop, `breaks` checks no property of reported results,
`stops` no lost connection, `transfers` no stop.  `everything` keeps all
of them for the properties that survive.

## What is proved

All theorems hold for every value of the constants (any plans, modules, clients,
numbers of connections and processes) under the assumptions the modules state:
`ModulesAssumption`, `PlanAssumption`, `NetAssumption`, `ServerAssumption`, and in the
other components the one of their own.  Each was model-checked before it was proved.

**`TypeCorrect`: `Spec => []TypeOK`.**  `TypeOK` types the server, every message
under way and every client, and is inductive.  Its hard part is that a process
keeps exactly the slots of its current stage through any sequence of handler,
plan handler and jump.  That is shown operator by operator for `DiscompProcess`
(`WithSlotsIsProcess`, `EnterStageIsProcess`, `SettleIsProcess`,
`SlotOpsAreProcesses`), then for the two ends handlers share (`GiveUpJobTyped`,
`EndJobTyped`), then one case per action.

**`JobsHaveNodes`: `Spec => []JobHasNode`** and **`NodesAreNotShared`:
`Spec => []OneJobPerNode`**, if `May` has neither
`outputLost` nor `inputSendFail`; every other event, broken connections, crashes
and the plan's jumps included, may happen.  Neither hypothesis can be dropped:
run `lost_output` shows the first, the table above the second.

`JobHasNode` alone is not inductive.  A handler could free a node, or the answer to
a stop could end a job, that the invariant says nothing of.  `JobsInv`
(`DiscompInvariant`) adds what rules that out, and run `breaks` checks it:

* `JobsPlaced` is the property per process, with the node's `busy`, `stoping`,
  `process_id` and current module, and `Spread` keeps slots of a process apart;
* `NodesBusy`: a node with a process, or waiting for a stop, is busy, so
  `checkProcessQueue` never offers it;
* `FreeingSafe`: the node that the running handler will free when the loop ends
  belongs to no live process.  Handlers that complete a process run the loop
  before they clear their own node (`server.cpp:717`);
* `StopsOnce`: on a connection at most one stop or its answer is under way, and
  none when the node does not wait for it, so that the answer which frees a node
  cannot meet its next job;
* `Unused`: connections above `conns` are untouched, so a new node starts clean.

The proof has one lemma per shared end of the handlers (`EndJobSafe`,
`HandlerSafe`), then the loop (`GiveJobSafe`, `EndScanSafe`), then users, clients and
sockets.  The steps are compared with two relations: the wire gets no new stop, or a
node and its processes only lose jobs.  `JobsInv` promises nothing once `fault` is
set; `FaultStays` shows that no step takes it back, and both properties say the same.

**`PointsStaySafe`: `PointSpec => []PointInv`**, and from it **`ResumeSkipsNothing`:
`PointSpec => []NothingSkipped`** and `PointTypesCorrect`, for a scheme with any
stages and lists, under `PlanAssumption` and `CrashAssumption`, for any events and
number of stops of the server.  `NothingSkipped` speaks of the process only, and
is not inductive: a crash drops the process and a resume takes one from the file.  So
`PointInv` says the same, that what is behind has run, was stopped or is empty,
of three places: the process, the file, and every write that is still to come
(`WritesSafe`).  A step of `Write` moves a safe point into the file, a crash
drops the pending ones, a resume reads a safe one, and a handler adds safe ones
since each is made from the process it leaves behind.  The list part needs that
`InOrder` numbers the slots of a stage without gaps, and that entering a stage
and expanding its lists, as a resume does, gives that numbering again.  The
theorems take `Scheme = {only}`: one process owns one file.

**`BusyNodesHaveJobs`: `Spec => []BusyNodeHasJob`** and **`StopsAreAnswered`:
`Spec => []StopAnswered`**, under the two hypotheses of `JobsHaveNodes`.  `WaitsInv` is the
other half of `JobsInv`, the reasons a node has to be busy: `BusyAwaits`, it works
for a started module, waits for a stop, or is about to be freed; `StopsCome`, a stop it
waits for is on the wire, or its answer is, or the handler that read the answer
runs.  `JobsInv` bounds what there is from above, and its lemmas say that a step takes
jobs and stops away; here they say of each node that a step leaves it
something to wait for (`StillWaits`), and that the wire loses no stop but to
its reader.  The last step of each handler frees the node it took from its process.

**`StoppingModulesHaveNodes`: `Spec => []StoppingHasNode`**, under the hypotheses of
`JobsHaveNodes` and if no connection is lost or cut by the user; the table above shows
what a lost one does.  A slot leaves `stopping` only by the answer to its stop, so
`StopsInv` needs more than the property: the node of such a slot belongs to the slot's
process, and every stop or answer on its connection names its current module
(`StopsNamed`), or the answer would free the node and leave the slot.  A handler that
ends a job ends all slots of its module on its node (`FinishLeaves`), a stop goes
only to nodes that work (`StopProcessStops`, `EndJobStops`), and the handlers that
free a node on a failure are not run while it is being stopped.

**`ClientsRunOneProgram`: `Spec => []OneProgramPerClient`**, if no connection is lost or
cut by the user, no file is refused or lost, no program crashes, and no transfer
completes that a stop request was to end.  The property is about clients, which
know nothing of each other's jobs; what keeps it is that the client and its node take
turns.  `TalksInv` (theorem `ClientsTakeTurns`) says so of each connection, by what its node
does:

* `Rests`: a node that is not busy, or is about to be freed, has a client that runs
  nothing and sends nothing, and a connection on which nothing is under way but
  the greeting (`Greets`).  This makes the next job safe;
* `Serves`: while the node works, either a request or a file is on its way and the
  client is still, or the client runs the node's module, sends its files or has
  reported; a report that is not `GoesOn` is the client's last word;
* `Stops`: a node that is being stopped has the request as the last message on its way,
  and what the client does belongs to the module it names, or the answer as the
  last message back, and then the client is still.

There is one lemma per request and per step of a client (`...Joined`), and one per
place where a handler frees, stops or feeds a node; `JobsInv` supplies that the node
a handler frees is its own, and the first two facts of `StopsOnce` that no
second stop is sent.  Each hypothesis but one excludes a violation that TLC finds (table
above); without the refused input no counterexample was found, but `JobsInv`,
on which the proof rests, needs it.

**`CreditedJobsRan`: `Spec => []DoneJobsRan`** and **`ProgramsAreWanted`: `Spec =>
[]ProgramIsWanted`**, under the same hypotheses.  A message names a module, never a
process, a stage or a slot; that a late report is not taken for another job of the
same module rests on the turns above.  `CarriedInv` (theorem `ClientsCarryTheirJobs`)
adds to them which job it is.  Of each slot started on a connected client's node it says
(`Carries`): a request 120 on its way is for this job, or the client has recorded it;
whatever the client runs is this job; files it sends, and a success 123 on its way
back, are of a job that ran.  `GiveJobCarries` establishes it: the node is free, so its
client is still and nothing is under way.  All other server steps only let go of
started slots (`StartsNone`), send no request 120 and read reports (`Quietly`), so what was
carried stays carried (`QuietCarries`).  A client step is followed for the one
connection that works (`CarrierCarries`).  Three facts finish `DoneJobsRan`: a slot
that waits has no node (`Nowhere`), a slot that stops is on a node that is stopped
(`StopsInv`), and each connection has its client (`Manned`); so the slots a success marks
are started, and their job is the one that ran (`CreditsRan`).  `ProgramIsWanted`
needs `WaitsInv` besides: a busy node that is not being stopped has a started slot, and then the
program is its job.

**`NoHandlerFaults`: `Spec => []NoUndefinedBehaviour`**, if the last stage of
every plan has a module or a list that is not empty (`LastStagesHaveWork`), the
user disconnects no node, and failed modules are not cleared while connections break.
`SoundInv` says that no live process is completed, so none completes inside
`giveJobToNode` or a jump, and `ClosesOnce`, that a close is the last event of its
node.  Each hypothesis excludes a fault of the code: `empty_last` shows the first;
disconnecting destroys a node whose close is still to come; the table shows the
third.

**`NoWorkIsLeft`: `Spec => []WorkConserving`**, if every stage of every plan has work
(`StagesHaveWork`), all inputs are defined (`Unfed = {}`), no node leaves and failed
modules are not cleared.  `WorkInv` states what the loop has reached: for processes and nodes it has
passed (`Passed`), a free node has nothing that it could run.  `Offers` takes the least pair
behind the loop's position; that there is one is shown by well-founded induction
over the order of the loop.  The hypotheses are those of the table above.

**`ResultsCanBeResumed`: `PointSpec => []ResumePossible`**, with no hypothesis:
every handler leaves a point behind all it writes (`ResumeInv`).
**`PointsAreCurrent`: `PointSpec => []PointIsCurrent`**, for one scheme in which
each stage but the first has no work at all or no empty list (`LaterStagesFilled`); the table
shows why.  `CurrentInv` says
that the last of the pending writes, or the file when there is none, leads a resume back to
the stage and the done modules of the process as it is.  Nothing is said of a process that
rests in a stage without any work: no point is written for it before the next call of
`giveJobToNode` moves it on.

**`TransferTypesCorrect`: `TransferSpec => []TransferTypeOK`**, with no hypothesis:
whatever the owners do, and however often the connection is lost.

**`OneTransferAtATime`: `TransferSpec => []TurnsInv`**, if `Missing = {}`,
`MaxLosses = 0` and no owner crosses or stops, with any files, refusals, cleared
queues and files that change (`Calm`).  From it **`BusySocketsAreAwaited`:
`TransferSpec => []BusyIsAwaited`** and
**`TransfersAreAQueue`: `TransferSpec => Queue!QueueSafeSpec`**, the safety part of the
refinement.  `TurnsInv` says that both sockets rest or that one end's file is in
one of six phases: asked for, refused, opened, on its way, complete, checked.
`Phase` ties in each of them the message under way to the fields of both sockets
and to what the receiver has stored, which is what a handler reads.  There is one lemma
per handler; the receiver's share `ReceiverSafe` (its step is `Arrive`) and the
sender's share `FinishSafe` (its step is `Finish`).  The assumptions are needed: the
runs and the table above show `BusyIsAwaited` violated by a stop, and a lost
connection ends a transfer without a report.

**`SuccessIsDelivery`: `TransferSpec => []DeliveredIntact`** and **`ReportedOnce`:
`TransferSpec => []ToldOnce`**, while the owners take turns (`"cross" \notin Faults`), now
with files that are gone, refused or change, stops, cleared queues and any
number of lost connections.  `DeliveryInv` (theorem `OneSideAtATime`) is weaker than
`TurnsInv` and survives all of these:

* `OneSide`: at most one end has a file to send or any waiting;
* `Flow`: what can still be read, up to the close of the connection, belongs to the
  file that end sends and is in one of the phases of the protocol (`Underway`), or nothing can be
  read.  Cutting a wire only moves it back (`Shorter`, `CutShorter`), which is
  what makes a lost connection harmless;
* `Accounted`: a file that was reported is owed by no socket, in neither its
  name nor its queue, and each file owed is in one place.  So a name that outlives
  its transfer, or its connection, is never reported again.

That the owners take turns cannot be dropped: the table shows `DeliveredIntact`
violated when transfers cross and a file is refused.

**`ConnectionsCarryOneJob`: `UpdateSpec => []UpdateInv`**, for any clients of a host
and any modules, and from it **`ProgramsAreTheServers`: `UpdateSpec =>
[]RunsTheServersVersion`**, **`GeneralJobsSurviveUpdates`: `UpdateSpec =>
[]GeneralKeepsJobs`** and `UpdateTypesCorrect`, under `HostAssumption` and `JobAssumption`.
`UpdateInv` describes one connection at a time (`Connection`): what may be
under way together, and that a client that prepares or runs a module has the job
its node has.  What the clients share, the directory, only matters where it is
copied, and there the sum is compared (`Copied`).  For the general client it says more:
no job while a list of it or an archive is under way.

**`NoDeadSituations`: `ScriptSpec => []NoDeadSituation`** and **`ScriptsKeepTheirTypes`:
`ScriptSpec => []ScriptTypeOK`**, for any script, nodes and troubles, under
`ScriptAssumption`.  The first is what the comment in `newModulesAvailable_slot` is
about.  It is not inductive: that something is under way does not say that it will run
the loop, since that slot does so only if `all_nodes_free`.  `QueueInv` (theorem
`QueueComes`) says what does, as long as no node was lost: the mark is up to date, and
where a module waits beside a free node either a signal of its script is posted or some
node is busy (`LoopComes`).  And a busy node is awaited (`BusyAwaited`): what it runs, was
asked or has answered includes what will end its work.  That needs
`nodes[n].stoping` in it, since of a node that is being stopped only the answer to
its stop is heard, and that an object which waits was started by a command (`WaitsStarted`).
The loop is treated once, for any objects and nodes it is run with (`QueueOps`, `LoopKeeps`).

**`DoneModulesRan`: `ScriptSpec /\ Orderly => []DoneRan`**: what a script waited for has run.
A report names a module and a node; it ends every object that fits, so the property
depends on what the script does with names, and `Orderly` says what it must not do:

* start a module again without a wait for it, or while others have its name;
* stop anything, if modules share a name that it does not stop;
* start what a handler starts by any other means.

The first three of these (the wait, a name of its own, the stop) each exclude a violation that
TLC finds (table above); the scripts of run `scripts` are orderly.  `DoneInv` is
inductive.  `ObjectsKept` ties the status of each object to the script's position: which
were started, which were waited for and not started since.  `Owned` says of each program
that it belongs to the one object its report will end, and that no report of its
name is on the way (`ProgramOwned`); of each report that it is the only one of its name,
that it ends one object, and, if it says so, that the object's program ended (`ReportOwned`); and that
a node which was given an object of a shared name works for it until that is done
(`SharedHeld`), so it is given no second one.  Names that the script stops are left out of
`Owned`, and of the property: a stopped module is done without having run.  `StopsNamed`
makes sure that only these names are on their way as stops or answers.

TLC checked `QueueInv` in run `scripts` and in 3.6 million states of enumerated
scripts; `DoneInv` in the same run, for all orderly scripts of three commands over
two objects, of one name (491,384 states) or two (304,487), and in more than 4
million states of scripts of four commands with failures, lost nodes and the user's stop.

`WaitsInv`, `StopsInv`, `TalksInv`, `CarriedInv`, `SoundInv`, `WorkInv`, `ResumeInv`, `CurrentInv`, `UpdateInv`
and `DeliveryInv` were checked by TLC before they were proved: as further invariants of the
runs `stops` and `breaks`; `WaitsInv`, `StopsInv`, `TalksInv` and `CarriedInv` together with the plan
`SideBySide`, two clients and connections, and the user's stop, plan stops, jumps, failed starts,
timeouts and refused outputs (3,423,449 states); the others in the runs
`control_points`, `updates`, and `transfers` with `Faults = {"stop", "clear", "differ"}` and
files that are missing and refused (up to five files, one lost connection:
1,031,594 states).

Only model-checked: transfers that cross, and all liveness properties, `QueueImplemented`'s included, since fairness and
ENABLED are beyond the prover.

## Not modelled

* Vendored code: the CLIPS engine (`lib/clips`) and the mongoose web server make
  up about 160,000 of the 179,659 lines of the repository's implementation.  They
  are libraries; nothing of the schedule happens in them, and the server uses of
  CLIPS only whether a rule base says yes.  Discomp's own C++ has about
  19,300 lines, and most of what is left of it after the parts above are forms
  of input and output: parsing plans and packages, RPC listings, monitoring,
  statistics, logs, archives, the web interface.
* Module parameters: whether a parameter is defined depends on files and XML;
  the models keep the outcome.
* Splitting the byte stream into messages (`socket.cpp`, `readyRead`), sessions
  and packages (`rpc_thread.cpp`), `startSingleProcess`.
* Handlers of stages, `onStart` handlers and nested event queues of scripts.

## Plan

1. `JobPool`, an abstract specification of what a process promises (a slot is
   handed out, given back or ended; a stage opens when the one before is done),
   which `Discomp` implements and a script's vector as well.
2. Stage handlers and `startSingleProcess` in `DiscompProcess`.
3. Installation of a module by a user, which changes a node from another
   thread than the handlers of `ModuleUpdate`.
