------------------------------ MODULE WsAcceptor ------------------------------
(***************************************************************************)
(* The socket.io acceptor (rpc-server/acceptors/ws-acceptor).  A whitelist *)
(* is asked for each connection, and answers at once, or later while the   *)
(* connection is used.                                                     *)
(***************************************************************************)
EXTENDS AcceptorState

Init == New("ws")

Accept == Admit(TRUE)

\* The whitelist rejects the connection while it is asked, in the 'connection'
\* event: nobody listens to its 'disconnect' yet, so its socket stays known.
AcceptRejected ==
  /\ Idle /\ started /\ ~stoped
  /\ curId <= MaxConns
  /\ curId' = curId + 1
  /\ sockets' = [k \in DOMAIN sockets \union {curId} |->
                   IF k = curId THEN curId ELSE sockets[k]]
  /\ UNCHANGED <<gateway, open, waiting, msgQueues, running, serving, history>>

\* The whitelist answers ipFilter later, with an error or a list the address is on ...
Permit(c) ==
  /\ Idle /\ c \in waiting
  /\ waiting' = waiting \ {c}
  /\ UNCHANGED <<gateway, curId, open, sockets, msgQueues, running, serving,
                 history>>

\* ... or is not on: disconnect emits 'disconnect' at once.
Reject(c) == Idle /\ c \in waiting /\ Leave(c)

\* The 'disconnect' event.
SocketClose(c) == Idle /\ Leave(c)

Message(c, alone, n) == c \in open /\ Arrive(c, alone, n)
ProcessMsg == Call
MessageDone == Return

\* The catch of the handler only logs.
Throw == DropRest /\ UNCHANGED <<written, crashed>>

Flush == FlushQueues

Next ==
  \/ Accept \/ AcceptRejected \/ Flush \/ ProcessMsg \/ MessageDone \/ Throw
  \/ \E c \in Conns :
       \/ Permit(c) \/ Reject(c) \/ SocketClose(c)
       \/ \E alone \in BOOLEAN, n \in 1 .. MaxBatch : Message(c, alone, n)
       \/ \E id \in Ids : Answer(c, id)
=============================================================================
