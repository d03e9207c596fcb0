--------------------------- MODULE DiscompModules ---------------------------
(***************************************************************************)
(* What the server and the clients have in common: the modules they know   *)
(* by name, what the specification of a module says of its parameters, and *)
(* the events of the environment a model may contain.                      *)
(***************************************************************************)

CONSTANTS Module,       \* module names
          NoModule,     \* the empty module name
          HasInputs,    \* modules with input parameters
          HasOutputs,   \* modules with output parameters
          May           \* which of the events below the environment produces

(* break          a connection is lost                                     *)
(* rpcDisconnect  a user disconnects a node                                *)
(* stopProcess    a user stops a process                                   *)
(* clearFailed    a user clears the failed modules                         *)
(* pluginStop     an event handler of a plan stops modules                 *)
(* gotoStage      an event handler of a plan goes back to a stage          *)
(* prepareFail    a client cannot create the temporary directory           *)
(* inputSendFail  a client cannot store an input file                      *)
(* startFail      a client cannot start the module's program               *)
(* crash          the program crashes                                      *)
(* timeout        the program exceeds its maximal time                     *)
(* outputMissing  the program ends without its output files                *)
(* outputSendFail the server cannot store an output file                   *)
(* outputLost     an output file is not found on the server                *)
(* stopFail       the module's stop command fails                          *)
(* stopRace       a file on its way when its module is stopped completes   *)
Events == {"break", "rpcDisconnect", "stopProcess", "clearFailed", "pluginStop",
           "gotoStage", "prepareFail", "inputSendFail", "startFail", "crash",
           "timeout", "outputMissing", "outputSendFail", "outputLost",
           "stopFail", "stopRace"}

ASSUME ModulesAssumption ==
    /\ NoModule \notin Module
    /\ HasInputs \subseteq Module
    /\ HasOutputs \subseteq Module
    /\ May \subseteq Events
=============================================================================
