------------------------------ MODULE MCProcessJS ------------------------------
(* Small instances of ProcessJS: a plain module and a list on two nodes. *)
EXTENDS ProcessJS

CONSTANTS x, y, z       \* objects: a plain module and two elements of a list

Cmd(op, o) == [op |-> op, obj |-> o]

Quiet == [o \in Object |-> {}]

Names == [o \in Object |-> IF o = x THEN "plain" ELSE "list"]

TwoNodes == <<{"plain", "list"}, {"plain", "list"}>>

\* A module is run, a list after it, and the module once more.
Loop == [edp |-> FALSE, onFinish |-> Quiet,
         commands |-> <<Cmd("new", x), Cmd("start", x), Cmd("startElement", y),
                        Cmd("startElement", z), Cmd("wait", x), Cmd("start", x),
                        Cmd("wait", y), Cmd("wait", z), Cmd("wait", x)>>]

\* The first result ends the search.
Search == [edp |-> FALSE, onFinish |-> Quiet,
           commands |-> <<Cmd("new", x), Cmd("startElement", y), Cmd("startElement", z),
                          Cmd("wait", y), Cmd("stop", z), Cmd("start", x)>>]

\* In EDP mode the module's handler starts the list.
Events == [edp |-> TRUE, onFinish |-> [Quiet EXCEPT ![x] = {y}],
           commands |-> <<Cmd("new", x), Cmd("new", y), Cmd("start", x)>>]

AllScripts == {Loop, Search, Events}

OnlyEvents == {Events}
=============================================================================
