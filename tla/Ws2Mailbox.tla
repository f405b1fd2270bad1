----------------------------- MODULE Ws2Mailbox -----------------------------
(***************************************************************************)
(* The mailbox over plain web sockets (rpc-client/mailboxes/ws2-mailbox).  *)
(* Its 'close' event comes once, when the socket is gone for good, after   *)
(* close() was called on it or not.  Writing to a socket that is not open  *)
(* throws.                                                                 *)
(***************************************************************************)
EXTENDS MailboxState

Init == New("ws2")

Connect == Dial

Open ==
  /\ Idle /\ socket = "dialing" /\ ~connected
  /\ Established
  /\ keepaliveTimer' = TRUE
  /\ Tell("ok")
  /\ socket' = "up"
  /\ UNCHANGED <<options, calls, pingAge, batch, loop, crashed, wire, received,
                 cuts, answers>>

\* close: the socket closes with a handshake, until when messages may arrive.
Closing ==
  IF closed THEN UNCHANGED <<mailbox, pingAge, socket>> ELSE
    /\ closed' = TRUE /\ connected' = FALSE
    /\ interval' = FALSE /\ keepaliveTimer' = FALSE
    /\ pingAge' = -1
    /\ socket' = IF socket \in {"ending", "down"} THEN socket ELSE "closing"

Close ==
  /\ ~closed /\ socket # "none" /\ ~crashed
  /\ Closing
  /\ UNCHANGED <<options, told, calls, batch, loop, crashed, wire, received, cuts,
                 answers>>

\* The connect callback is called with the error, the first time or once more;
\* a socket reports one error.
SocketError ==
  /\ Idle /\ socket \in {"dialing", "up", "dead", "closing", "ending"}
  /\ "error" \notin Range(told)
  /\ Tell("error")
  /\ Closing
  /\ UNCHANGED <<options, calls, batch, loop, crashed, wire, received, cuts,
                 answers>>

\* The closing handshake of the server arrives, until whose end the mailbox knows
\* nothing of it.
CloseFrame ==
  /\ Idle /\ socket = "up" /\ s2c = <<>>
  /\ socket' = "ending"
  /\ UNCHANGED <<options, mailbox, told, calls, pingAge, batch, loop, crashed, wire,
                 received, cuts, answers>>

\* 'close': every request there is now is called back, then the mailbox closes.
SocketClose ==
  /\ Idle /\ socket \in {"dialing", "up", "dead", "closing", "ending"}
  /\ socket' = "down" /\ c2s' = <<>> /\ s2c' = <<>>
  /\ CutAll("emit")
  /\ UNCHANGED <<options, mailbox, told, calls, pingAge, batch, crashed, received,
                 cuts, answers>>

\* The error is passed as the first argument, the tracer: the callback sees a
\* call without an error and without a result.
CutCall == CutNext("cut")

CloseDone ==
  /\ CutEnds
  /\ Closing
  /\ UNCHANGED <<options, told, calls, batch, crashed, wire, received, cuts,
                 answers>>

Writable == socket \in {"up", "dead"}

\* checkKeepAlive, every 30 s: a ping that was not answered since the last
\* tick is older than the 10 s it may be.  ping throws as well.
CheckKeepAliveOnce ==  \* mutant: a missing pong is waited for
  /\ Idle /\ keepaliveTimer /\ ~closed
  /\ pingAge' = 0
  /\ UNCHANGED <<options, mailbox, told, calls, batch, loop, crashed, socket, wire,
                 received, cuts, answers>>
CheckKeepAlive ==
  /\ Idle /\ keepaliveTimer /\ ~closed
  /\ \/ pingAge # -1 /\ Closing /\ UNCHANGED crashed
     \/ /\ pingAge = -1 /\ Writable
        /\ pingAge' = 0 /\ UNCHANGED <<mailbox, socket, crashed>>
     \/ /\ pingAge = -1 /\ ~Writable
        /\ crashed' = TRUE /\ UNCHANGED <<mailbox, socket, pingAge>>
  /\ UNCHANGED <<options, told, calls, batch, loop, wire, received, cuts, answers>>

Pong ==
  /\ Idle /\ socket = "up" /\ pingAge # -1
  /\ pingAge' = -1
  /\ UNCHANGED <<options, mailbox, told, calls, batch, loop, crashed, socket, wire,
                 received, cuts, answers>>

\* The call stays registered, and the exception takes the process with it if the
\* caller of send does not catch it.
SendThrows ==
  /\ Register /\ ~bufferMsg /\ ~Writable
  /\ crashed' \in BOOLEAN
  /\ UNCHANGED <<options, mailbox, told, queue, pingAge, batch, loop, socket, wire,
                 received, cuts, answers>>
Send == ((bufferMsg \/ Writable) /\ SendCall) \/ SendThrows

FlushThrows ==
  /\ Idle /\ interval /\ ~closed /\ queue # <<>> /\ ~Writable
  /\ crashed' = TRUE
  /\ UNCHANGED <<options, mailbox, told, calls, pingAge, batch, loop, socket, wire,
                 received, cuts, answers>>
Flush == (Writable /\ FlushQueue) \/ FlushThrows

\* The 'message' event, and processMsg for each of its replies.
Message == Arrive
ProcessMsg == DropReply \/ CallBack \/ CallBackThrows

\* setCbTimeout: the timer deletes the request, and calls nobody back.
CallbackTimeout(id) == Expire(id) /\ UNCHANGED <<log, crashed>>

Next ==
  \/ Connect \/ Open \/ Close \/ SocketError
  \/ CloseFrame \/ SocketClose \/ CutCall \/ CloseDone
  \/ CheckKeepAlive \/ Pong
  \/ Send \/ Flush \/ Message \/ ProcessMsg
  \/ \E id \in Ids : CallbackTimeout(id)
=============================================================================
