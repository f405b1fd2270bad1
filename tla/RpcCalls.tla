------------------------------ MODULE RpcCalls ------------------------------
(***************************************************************************)
(* What a mailbox promises its callers: a call that was accepted gets one  *)
(* final answer; before it there may be notices (of a connection that      *)
(* broke), after it there is nothing.  Nothing is said of the transport.   *)
(***************************************************************************)
EXTENDS Sequences

CONSTANTS
  Calls,    \* the calls there may be
  Outcomes, \* what a callback may be called with
  Notices   \* the outcomes that are not final

VARIABLES
  accepted,  \* the calls that send has taken
  answers    \* answers[c]: what the callback of c was called with

vars == <<accepted, answers>>

Init ==
  /\ accepted = {}
  /\ answers = [c \in Calls |-> <<>>]

Accept(c) ==
  /\ c \notin accepted
  /\ accepted' = accepted \union {c}
  /\ UNCHANGED answers

Answered(c) == \E i \in DOMAIN answers[c] : answers[c][i] \notin Notices

Tell(c, outcome) ==
  /\ c \in accepted
  /\ ~Answered(c)
  /\ answers' = [answers EXCEPT ![c] = Append(@, outcome)]
  /\ UNCHANGED accepted

Notify(c) == \E outcome \in Notices : Tell(c, outcome)

Answer(c) == \E outcome \in Outcomes \ Notices : Tell(c, outcome)

Next == \E c \in Calls : Accept(c) \/ Notify(c) \/ Answer(c)

SafeSpec == Init /\ [][Next]_vars

Spec == SafeSpec /\ \A c \in Calls : WF_vars(Answer(c))
=============================================================================
