----------------------------- MODULE TcpMailbox -----------------------------
(***************************************************************************)
(* The tcp mailbox (rpc-client/mailboxes/tcp-mailbox).  No handler of it   *)
(* catches an exception, and it has no keepalive.  It needs a tracer, which *)
(* its connect and send use without a check (lines 36, 114).               *)
(***************************************************************************)
EXTENDS MailboxState

Init == New("tcp")

Connect == Dial

\* The callback of net.connect; it also runs on a mailbox that was closed.
ConnectDone ==
  /\ Idle /\ socket = "dialing"
  /\ Established
  /\ Tell("ok")
  /\ socket' = IF closed THEN "closing" ELSE "up"
  /\ UNCHANGED <<options, keepaliveTimer, calls, pingAge, batch, loop, crashed,
                 wire, received, cuts, answers>>

\* close: the socket is ended, what the server still sends is read.
Closing ==
  /\ closed' = TRUE /\ connected' = FALSE /\ interval' = FALSE
  /\ socket' = IF socket = "up" THEN "closing" ELSE socket
  /\ UNCHANGED keepaliveTimer

Close ==
  /\ ~closed /\ socket # "none" /\ ~crashed
  /\ Closing
  /\ UNCHANGED <<options, told, calls, pingAge, batch, loop, crashed, wire,
                 received, cuts, answers>>

\* A socket error: on a connected mailbox it is emitted as 'error', which
\* nobody listens to, so that it is thrown.
SocketError ==
  /\ Idle /\ socket \in {"dialing", "up", "dead", "closing"}
  /\ socket' = "down" /\ c2s' = <<>> /\ s2c' = <<>>
  /\ IF connected THEN crashed' = TRUE /\ UNCHANGED told
                  ELSE Tell("error") /\ UNCHANGED crashed
  /\ UNCHANGED <<options, mailbox, calls, pingAge, batch, loop, received, cuts,
                 answers>>

\* The server has ended the connection: 'close' is emitted.
End ==
  /\ Idle /\ socket \in {"up", "closing"} /\ s2c = <<>>
  /\ IF Listening /\ ~closed
       THEN closed' = TRUE /\ connected' = FALSE /\ interval' = FALSE
       ELSE UNCHANGED <<closed, connected, interval>>
  /\ socket' = "down" /\ c2s' = <<>>
  /\ UNCHANGED <<options, keepaliveTimer, told, calls, pingAge, batch, loop,
                 crashed, s2c, received, cuts, answers>>

Send == SendCall
Flush == FlushQueue

\* A packet arrives; processMsgs calls processMsg for each of its replies.
Data == Arrive
ProcessMsg ==
  \/ DropReply
  \/ CallBack
  \/ TakeReply /\ batch' = <<>> /\ crashed' = TRUE

\* setCbTimeout: the timer deletes the request, reads a logger that the module
\* does not declare, and throws before it would call back.
CallbackTimeout(id) == Expire(id) /\ crashed' = TRUE /\ UNCHANGED log

Next ==
  \/ Connect \/ ConnectDone \/ Close \/ SocketError \/ End
  \/ Send \/ Flush \/ Data \/ ProcessMsg
  \/ \E id \in Ids : CallbackTimeout(id)
=============================================================================
