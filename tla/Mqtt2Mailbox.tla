---------------------------- MODULE Mqtt2Mailbox ----------------------------
(***************************************************************************)
(* The mqtt2 mailbox (rpc-client/mailboxes/mqtt2-mailbox): mqtt with       *)
(* messages coded as bytes, which need the map of services that the server *)
(* sends first, in a handshake.  Each message travels alone.  The connect  *)
(* timer is not modelled: it emits 'close' before anybody listens.         *)
(***************************************************************************)
EXTENDS MailboxState

Init == New("mqtt2")

Connect == Dial

\* The callback of socket.connect, also on a mailbox that was closed meanwhile.
\* The connect callback of the station has to wait for the handshake.
ConnectDone ==
  /\ Idle /\ socket \in {"dialing", "down"} /\ ~connected /\ ~keepaliveTimer
  /\ told = <<>> /\ (socket = "down" => closed)
  /\ Established
  /\ keepaliveTimer' = TRUE
  /\ socket' = IF socket = "dialing" THEN "up" ELSE socket
  /\ UNCHANGED <<options, told, calls, pingAge, batch, loop, crashed, wire,
                 received, cuts, answers>>

\* The handshake arrives: upgradeHandshake, and the connect callback.
Handshake ==
  /\ Idle /\ socket = "up" /\ connected /\ told = <<>>
  /\ Tell("ok")
  /\ UNCHANGED <<options, mailbox, calls, pingAge, batch, loop, crashed, socket,
                 wire, received, cuts, answers>>

\* close, which may be called again.
Closing ==
  /\ closed' = TRUE /\ connected' = FALSE
  /\ interval' = FALSE /\ keepaliveTimer' = FALSE
  /\ socket' = "down" /\ c2s' = <<>> /\ s2c' = <<>>

EmitClose ==
  IF Listening THEN Closing ELSE UNCHANGED <<mailbox, socket, wire>>

Close ==
  /\ ~closed /\ socket # "none" /\ ~crashed
  /\ Closing
  /\ UNCHANGED <<options, told, calls, pingAge, batch, loop, crashed, received,
                 cuts, answers>>

\* Emits 'close' and closes; the connect callback is not called.
SocketError ==
  /\ Idle /\ socket \in {"dialing", "up", "dead"}
  /\ Closing
  /\ UNCHANGED <<options, told, calls, pingAge, batch, loop, crashed, received,
                 cuts, answers>>

\* A DISCONNECT packet of the server.
Disconnect ==
  /\ Idle /\ socket = "up"
  /\ cuts < MaxCuts /\ cuts' = cuts + 1
  /\ CutAll("emit")
  /\ UNCHANGED <<options, mailbox, told, calls, pingAge, batch, crashed, socket,
                 wire, received, answers>>

CutCall == CutNext("disconnect")

DisconnectDone ==
  /\ CutEnds
  /\ EmitClose
  /\ UNCHANGED <<options, told, calls, pingAge, batch, crashed, received, cuts,
                 answers>>

CheckKeepAliveSilent ==  \* mutant: 'close' is not emitted
  /\ Idle /\ keepaliveTimer /\ ~closed
  /\ pingAge' = pingAge + 1
  /\ UNCHANGED <<options, mailbox, told, calls, batch, loop, crashed, socket, wire,
                 received, cuts, answers>>

\* checkKeepAlive: two ticks after a ping, it may or may not be too old; then
\* 'close' is emitted, and close left to the station.
CheckKeepAlive ==
  /\ Idle /\ keepaliveTimer /\ ~closed
  /\ \/ /\ pingAge < 2
        /\ pingAge' = pingAge + 1
        /\ UNCHANGED <<mailbox, socket, wire>>
     \/ /\ pingAge >= 1
        /\ pingAge' = -1
        /\ EmitClose
  /\ UNCHANGED <<options, told, calls, batch, loop, crashed, received, cuts,
                 answers>>

\* The ping is answered: the next tick sends a new one.
PingResp ==
  /\ Idle /\ socket = "up" /\ pingAge # -1
  /\ pingAge' = -1
  /\ UNCHANGED <<options, mailbox, told, calls, batch, loop, crashed, socket, wire,
                 received, cuts, answers>>

Send == SendCall

\* flush publishes the array of coded messages, which is no payload: writing it
\* throws, or fails in the stream, and none of them arrives.
Flush ==
  /\ Idle /\ interval /\ ~closed /\ queue # <<>>
  /\ \/ queue' = <<>> /\ UNCHANGED crashed
     \/ crashed' = TRUE /\ UNCHANGED queue
  /\ UNCHANGED <<options, mailbox, told, curId, requests, timeout, pingAge, batch,
                 loop, socket, wire, received, cuts, answers>>

\* The 'publish' event of a reply, and processMsg.
Publish == Arrive
ProcessMsg == DropReply \/ CallBack

CallbackTimeout(id) == ExpireAndAnswer(id)

Next ==
  \/ Connect \/ ConnectDone \/ Handshake \/ Close \/ SocketError
  \/ Disconnect \/ CutCall \/ DisconnectDone
  \/ CheckKeepAlive \/ PingResp
  \/ Send \/ Flush \/ Publish \/ ProcessMsg
  \/ \E id \in Ids : CallbackTimeout(id)
=============================================================================
