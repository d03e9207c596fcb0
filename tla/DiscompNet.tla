----------------------------- MODULE DiscompNet -----------------------------
(***************************************************************************)
(* The TCP connections between the server and the client programs, as the  *)
(* handlers of DiscompNode and DiscompClient see them: a DiscompSocket     *)
(* delivers whole XML messages in order to the slots of its owner, in both *)
(* directions, until the connection closes (src/lib/socket.cpp).           *)
(*                                                                         *)
(* Connection n is the n-th element of the server's vector nodes; the      *)
(* vector only grows, so an index is never reused.                         *)
(***************************************************************************)
EXTENDS DiscompModules, Naturals, Sequences

CONSTANTS NoJob,        \* the tag of a message that belongs to no job
          MaxConn       \* bound: connections accepted in one life of the server

ASSUME NetAssumption == MaxConn \in Nat

Conn == 1..MaxConn

VARIABLES link,         \* link[n]: "none", "open" or "closed"
          toNode,       \* toNode[n]: messages on their way to the client
          toServer      \* toServer[n]: events queued for DiscompNode n

netVars == <<link, toNode, toServer>>

(* A message is the id of its request or answer, the module it names, its  *)
(* status attribute and, for the properties only, the job it is about.     *)
Msg(id, name, status, job) ==
    [id |-> id, name |-> name, status |-> status, job |-> job]

\* Request 110 carries the installed modules.
ModulesList(mods) == [id |-> 110, mods |-> mods]

\* connectionClosed_signal, queued behind the messages already read.
Closed == [id |-> 0]

Prefixes(s) == { SubSeq(s, 1, k) : k \in 0..Len(s) }

\* sendDataToRemoteHost: written to the socket, lost when it is closed.
Sent(chan, n, m) ==
    IF link[n] = "open" THEN [chan EXCEPT ![n] = Append(@, m)] ELSE chan

ToNode(n, m) == toNode' = Sent(toNode, n, m)

ToServer(n, m) == toServer' = Sent(toServer, n, m)

NetInit ==
    /\ link = [n \in Conn |-> "none"]
    /\ toNode = [n \in Conn |-> <<>>]
    /\ toServer = [n \in Conn |-> <<>>]

\* Mutant: an error and a close each signal the end of the connection.
LoseTwice(n) ==
    /\ link[n] = "open"
    /\ link' = [link EXCEPT ![n] = "closed"]
    /\ toServer' = [toServer EXCEPT ![n] = @ \o <<Closed, Closed>>]
    /\ toNode' = [toNode EXCEPT ![n] = <<>>]

\* The connection is lost: what was read is delivered, then the close.
Lose(n) ==
    /\ link[n] = "open"
    /\ link' = [link EXCEPT ![n] = "closed"]
    /\ \E kept \in Prefixes(toServer[n]) :
          toServer' = [toServer EXCEPT ![n] = Append(kept, Closed)]
    /\ \E kept \in Prefixes(toNode[n]) : toNode' = [toNode EXCEPT ![n] = kept]
=============================================================================
