----------------------------- MODULE Ws2Acceptor -----------------------------
(***************************************************************************)
(* The acceptor over plain web sockets (acceptors/ws2-acceptor).           *)
(* send throws on a web socket that is not open.                           *)
(***************************************************************************)
EXTENDS AcceptorState

Init == New("ws2")

Accept == Admit(TRUE)

\* A connection is closed with a handshake: sending on it throws from now on,
\* while its socket is known, and requests arrive, until the 'close' event.
Closing(c) ==
  /\ Idle /\ c \in open
  /\ open' = open \ {c}
  /\ waiting' = waiting \ {c}
  /\ UNCHANGED <<gateway, curId, sockets, msgQueues, running, serving, history>>

\* The whitelist answers ipFilter, which closes a connection that is not on it.
Rejected(c) == c \in waiting /\ Closing(c)
Permitted(c) ==
  /\ Idle /\ c \in waiting
  /\ waiting' = waiting \ {c}
  /\ UNCHANGED <<gateway, curId, open, sockets, msgQueues, running, serving,
                 history>>

\* The 'close' event.
SocketClose(c) ==
  /\ Idle /\ c \in Range(sockets)
  /\ open' = open \ {c}
  /\ waiting' = waiting \ {c}
  /\ sockets' = Restrict(sockets, DOMAIN sockets \ {c})
  /\ msgQueues' = Restrict(msgQueues, DOMAIN msgQueues \ {c})
  /\ UNCHANGED <<gateway, curId, running, serving, history>>

Message(c, alone, n) == c \in Range(sockets) /\ Arrive(c, alone, n)
ProcessMsg == Call
MessageDone == Return

\* The catch of the handler only logs.
Throw == DropRest /\ UNCHANGED <<written, crashed>>

\* A service calls back.  Without a queue this throws if the connection is not
\* open, and nobody catches it but the handler that may be running.
ReplyOpen(c, id) == (bufferMsg \/ c \in open) /\ Answer(c, id)
ReplyToClosed(c, id) ==
  /\ ~bufferMsg /\ c \notin open /\ <<c, id>> \in serving /\ ~crashed
  /\ serving' = serving \ {<<c, id>>}
  /\ answered' = [answered EXCEPT ![c] = Append(@, id)]
  /\ crashed' = (conn = 0)
  /\ UNCHANGED <<gateway, links, msgQueues, conn, single, rest, called, received,
                 written, failed, dropped>>

\* The queue of a socket that is closing makes the timer throw.
FlushThrows ==
  /\ Idle /\ interval
  /\ crashed' = TRUE
  /\ UNCHANGED <<gateway, links, msgQueues, conn, single, rest, called, serving,
                 history>>
Flush ==
  IF \E c \in Range(sockets) \ open : c \in DOMAIN msgQueues /\ msgQueues[c] # <<>>
    THEN FlushThrows ELSE FlushQueues

Next ==
  \/ Accept \/ Flush \/ ProcessMsg \/ MessageDone \/ Throw
  \/ \E c \in Conns :
       \/ Closing(c) \/ Rejected(c) \/ Permitted(c) \/ SocketClose(c)
       \/ \E alone \in BOOLEAN, n \in 1 .. MaxBatch : Message(c, alone, n)
       \/ \E id \in Ids : ReplyOpen(c, id) \/ ReplyToClosed(c, id)
=============================================================================
