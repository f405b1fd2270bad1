------------------------------ MODULE WsMailbox ------------------------------
(***************************************************************************)
(* The socket.io mailbox (rpc-client/mailboxes/ws-mailbox).  The client of *)
(* socket.io emits 'disconnect' also for its own disconnect(), while that  *)
(* call runs, so that close calls back all requests.                       *)
(***************************************************************************)
EXTENDS MailboxState

Init == New("ws")

Connect == Dial

ConnectDone ==
  /\ Idle /\ socket = "dialing" /\ ~connected
  /\ Established
  /\ Tell("ok")
  /\ socket' = "up"
  /\ UNCHANGED <<options, keepaliveTimer, calls, pingAge, batch, loop, crashed,
                 wire, received, cuts, answers>>

\* The connection is no more, with what is on the wire.
Gone == socket' = "down" /\ c2s' = <<>> /\ s2c' = <<>>

MarkClosed ==
  /\ closed' = TRUE /\ connected' = FALSE /\ interval' = FALSE
  /\ UNCHANGED keepaliveTimer

\* Closes the mailbox, then does what the caller of close does next.
CloseThen(then) ==
  /\ MarkClosed
  /\ Gone
  /\ IF socket \in {"up", "dead"} THEN CutAll(then) ELSE UNCHANGED loop

Close ==
  /\ ~closed /\ socket # "none" /\ ~crashed
  /\ CloseThen("emit")
  /\ UNCHANGED <<options, told, calls, pingAge, batch, crashed, received, cuts,
                 answers>>

\* 'close' is emitted, then the connect callback is called with the error, the
\* first time or once more.
SocketError ==
  /\ Idle /\ socket \in {"dialing", "up", "dead"}
  /\ IF Listening /\ ~closed
       THEN CloseThen("tell") /\ UNCHANGED told
       ELSE Gone /\ Tell("error") /\ UNCHANGED <<mailbox, loop>>
  /\ UNCHANGED <<options, calls, pingAge, batch, crashed, received, cuts, answers>>

\* 'disconnect': every request there is now is called back, and 'close' is
\* emitted; neither the requests nor their timers are deleted.
Disconnect ==
  /\ Idle /\ socket \in {"up", "dead"}
  /\ Gone
  /\ CutAll("emit")
  /\ UNCHANGED <<options, mailbox, told, calls, pingAge, batch, crashed, received,
                 cuts, answers>>

CutCallOk == CutNext("ok")  \* mutant: the error is passed as the result
CutCall == CutNext("disconnect")

DisconnectDone ==
  /\ CutEnds
  /\ IF after = "emit" /\ Listening /\ ~closed THEN MarkClosed
                                               ELSE UNCHANGED mailbox
  /\ IF after = "tell" THEN Tell("error") ELSE UNCHANGED told
  /\ UNCHANGED <<options, calls, pingAge, batch, crashed, socket, wire, received,
                 cuts, answers>>

Send == SendCall
Flush == FlushQueue

\* The 'message' event, and processMsg for each of its replies.
Message == Arrive
ProcessMsg == DropReply \/ CallBack \/ CallBackThrows

CallbackTimeout(id) == ExpireAndAnswer(id)

Next ==
  \/ Connect \/ ConnectDone \/ Close \/ SocketError
  \/ Disconnect \/ CutCall \/ DisconnectDone
  \/ Send \/ Flush \/ Message \/ ProcessMsg
  \/ \E id \in Ids : CallbackTimeout(id)
=============================================================================
