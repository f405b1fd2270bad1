--------------------------- MODULE MCMailStation ---------------------------
(***************************************************************************)
(* MailStation for TLC.                                                    *)
(***************************************************************************)
EXTENDS MailStation, TLC

\* The calls are alike, and so are the servers.
Symmetry == Permutations(Calls) \union Permutations(Servers)

\* An mqtt mailbox, and a tcp one, which needs a tracer.
Mqtt(mode, filters) ==
  [failMode |-> mode, tracing |-> FALSE, filters |-> filters,
   reportsFailure |-> FALSE, echoesClose |-> FALSE, notifies |-> TRUE]
Tcp(mode) ==
  [failMode |-> mode, tracing |-> TRUE, filters |-> FALSE,
   reportsFailure |-> TRUE, echoesClose |-> TRUE, notifies |-> FALSE]

\* What the stations of a run are created with.
Mixed        == {Mqtt("failfast", TRUE), Tcp("failback")}
MqttFailfast == {Mqtt("failfast", FALSE)}
MqttFailover == {Mqtt("failover", FALSE)}
TcpFailover  == {Tcp("failover")}
=============================================================================
