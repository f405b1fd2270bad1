----------------------------- MODULE ServerList -----------------------------
(***************************************************************************)
(* The servers a station knows (rpc-client/mailstation): their infos and   *)
(* the lists by type that the routers choose from, which all calls and     *)
(* routers share.  Which servers are online matters to the dispatch of a   *)
(* call only, which MailStation models.                                    *)
(***************************************************************************)
EXTENDS Integers, Sequences, FiniteSets, Functions, SequencesExt, Lists

CONSTANTS
  Types,    \* the types of servers
  Servers,  \* their ids
  TypeOf,   \* TypeOf[s]: the type of server s
  Weights   \* weights that infos carry; a missing one is 0

ASSUME ServersAssumption ==
  /\ IsFiniteSet(Servers) /\ TypeOf \in [Servers -> Types]
  /\ Weights \subseteq Nat /\ IsFiniteSet(Weights) /\ Weights # {}

VARIABLES
  servers,    \* servers[s]: the weight in the info of s
  serversMap  \* serversMap[t]: the list of type t; a missing one is empty

station == <<servers, serversMap>>

StationTypeOK ==
  /\ DOMAIN servers \subseteq Servers /\ Range(servers) \subseteq Weights
  /\ serversMap \in [Types -> Seq(DOMAIN servers)]

-----------------------------------------------------------------------------
(* A list of infos is a sequence of records [id, weight], of which no two  *)
(* have the same id.                                                       *)

IdsOf(infos) == [i \in DOMAIN infos |-> infos[i].id]

WeightIn(infos, s) == infos[CHOOSE i \in DOMAIN infos : infos[i].id = s].weight

ListsOf(infos) ==
  [t \in Types |-> Without(IdsOf(infos), {s \in Servers : TypeOf[s] # t})]

\* A new station that was given its first servers with addServers.
StationInit(infos) ==
  /\ servers = [s \in Range(IdsOf(infos)) |-> WeightIn(infos, s)]
  /\ serversMap = ListsOf(infos)

\* this.servers[id] = serverInfo
WithInfo(s, weight) ==
  [i \in DOMAIN servers \union {s} |-> IF i = s THEN weight ELSE servers[i]]

\* addServer: a server that is in its list keeps its place.
AddServer(s, weight) ==
  LET list == serversMap[TypeOf[s]] IN
    /\ servers' = WithInfo(s, weight)
    /\ serversMap' = IF Contains(list, s) THEN serversMap
                     ELSE [serversMap EXCEPT ![TypeOf[s]] = Append(list, s)]

\* replaceServers, with clearStation: infos of other servers stay, and no
\* event is emitted.
ReplaceServers(infos) ==
  LET ids == Range(IdsOf(infos)) IN
    /\ servers' = [s \in DOMAIN servers \union ids |->
                     IF s \in ids THEN WeightIn(infos, s) ELSE servers[s]]
    /\ serversMap' = ListsOf(infos)

\* failover: the failed server is spliced out of the list that all share.
Splice(s) ==
  /\ Contains(serversMap[TypeOf[s]], s)
  /\ serversMap' = [serversMap EXCEPT ![TypeOf[s]] =
                      Without(@, {s})]
  /\ UNCHANGED servers
=============================================================================
