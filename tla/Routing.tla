------------------------------ MODULE Routing ------------------------------
(***************************************************************************)
(* How a client chooses the server of a call (rpc-client/router), while    *)
(* the lists of servers change: round robin, weighted round robin, least   *)
(* active, consistent hash and random, and the default route.              *)
(*                                                                         *)
(* A router passes the server to its callback, which sends the call and    *)
(* may, when that fails at once, call the user back, who may make another  *)
(* call or change the servers before the router goes on.  Two routers      *)
(* store their state after that: a route is a step, and what it stores     *)
(* then is a step of its own.  A type without servers, and weights of      *)
(* which none is positive, are answered with an error and change nothing.  *)
(***************************************************************************)
EXTENDS ServerList, HashRing

CONSTANTS
  Schedules,  \* the values of routerType that are checked
  Hashes,     \* bound: the hashes of the fields of calls
  MaxRoutes,  \* bound: calls
  MaxNested,  \* bound: calls in whose callbacks a call is made
  MaxChanges  \* bound: changes of the servers

ASSUME RoutingAssumption ==
  /\ Schedules \subseteq {"rr", "wrr", "la", "ch", "rd", "df"}
  /\ Hashes \subseteq Nat
  /\ MaxRoutes \in Nat /\ MaxNested \in Nat /\ MaxChanges \in Nat
  /\ NoNode \notin Servers

\* Digests do not collide.
ASSUME RingAssumption ==
  /\ Replicas \in Nat \ {0}
  /\ HashOf \in [Servers \X (0 .. Replicas - 1) -> Nat]
  /\ IsInjective(HashOf)

VARIABLES
  schedule,   \* client.routerType; "df" if there is none
  rrParam,    \* rrParam[t]: the index of the next server; a missing one is 0
  wrrParam,   \* wrrParam[t]: index and weight of the last route
  laParam,    \* laParam[t]: the counts of the servers; of others it counts NaN
  chParam,    \* chParam[t]: the hash ring, once there is one
  storing,    \* what the routes that are in their callbacks will store
  \* bounds and histories
  routes, changes,
  recent,     \* recent[t]: the routes since the list of type t changed
  load,       \* load[s]: how many calls the least active router gave s
  gone        \* gone[t]: servers removed since the ring of type t was created

params    == <<rrParam, wrrParam, laParam, chParam>>
histories == <<recent, load, gone>>
vars      == <<station, schedule, params, storing, routes, changes, histories>>

-----------------------------------------------------------------------------

TypeOK ==
  /\ StationTypeOK
  /\ schedule \in Schedules
  /\ rrParam \in [Types -> Nat]
  /\ \A t \in Types : wrrParam[t].index \in -1 .. Cardinality(Servers) - 1
                        /\ wrrParam[t].weight \in Nat
  /\ \A t \in DOMAIN laParam :
       /\ DOMAIN laParam[t] \subseteq Servers
       /\ \A s \in DOMAIN laParam[t] : laParam[t][s] <= load[s]
  /\ DOMAIN chParam \subseteq Types
  /\ \A t \in DOMAIN chParam :
       /\ chParam[t].nodes \in Seq(Servers)
       /\ Range(chParam[t].keys) = DOMAIN chParam[t].ring
       /\ Range(chParam[t].nodes) = Range(chParam[t].ring)
  /\ Len(storing) <= MaxNested + 1
  /\ routes \in 0 .. MaxRoutes /\ changes \in 0 .. MaxChanges

\* Bound: weights differ where they matter.
WeightsNow == IF schedule = "wrr" THEN Weights ELSE {Max(Weights)}

\* Lists of infos, each of another server.
IdLists == SetToAllKPermutations(Servers)
InfoLists ==
  UNION {{[i \in DOMAIN ids |-> [id |-> ids[i], weight |-> weight[ids[i]]]] :
            weight \in [Range(ids) -> WeightsNow]} : ids \in IdLists}

Init ==
  /\ schedule \in Schedules
  /\ \E infos \in InfoLists : StationInit(infos)
  /\ rrParam = [t \in Types |-> 0]
  /\ wrrParam = [t \in Types |-> [index |-> -1, weight |-> 0]]
  /\ laParam = <<>> /\ chParam = <<>>
  /\ storing = <<>>
  /\ routes = 0 /\ changes = 0
  /\ recent = [t \in Types |-> <<>>]
  /\ load = [s \in Servers |-> 0]
  /\ gone = [t \in Types |-> {}]

-----------------------------------------------------------------------------
(* Routes.                                                                 *)

\* f[k] is v from now on.
With(f, k, v) == [x \in DOMAIN f \union {k} |-> IF x = k THEN v ELSE f[x]]

\* A call of type t may be made, also from the callback of another one.
MayRoute(t) ==
  /\ routes < MaxRoutes /\ Len(storing) <= MaxNested
  /\ serversMap[t] # <<>>

\* The router of a call of type t passes server s to its callback.
RouteTo(t, s) ==
  /\ routes' = routes + 1
  /\ recent' = [recent EXCEPT ![t] =
                  Append(@, [server |-> s,
                             nested |-> \E i \in DOMAIN storing :
                                          storing[i].type = t])]
  /\ UNCHANGED <<station, schedule, changes>>

\* The callback returns, and the router stores what it has to.
StoreAfter(t, value) == storing' = Append(storing, [type |-> t, value |-> value])

\* rrRoute, up to its callback.
Rr(t) ==
  LET list == serversMap[t] index == rrParam[t] IN
    /\ RouteTo(t, list[(index % Len(list)) + 1])
    /\ StoreAfter(t, index + 1)
    /\ UNCHANGED <<params, load, gone>>

RrDoneNested ==  \* mutant: the index is stepped, not stored
  LET frame == Last(storing) IN
    /\ rrParam' = [rrParam EXCEPT ![frame.type] = @ + 1]
    /\ storing' = Front(storing)
    /\ UNCHANGED <<station, schedule, wrrParam, laParam, chParam, routes, changes,
                   histories>>
RrDone ==
  LET frame == Last(storing) IN
    /\ rrParam' = [rrParam EXCEPT ![frame.type] = frame.value]
    /\ storing' = Front(storing)
    /\ UNCHANGED <<station, schedule, wrrParam, laParam, chParam, routes, changes,
                   histories>>

MaxWeight(t) == Max({0} \union {servers[s] : s \in Range(serversMap[t])})

WrrNextKeepsWeight(t, from) ==  \* mutant: the weight is never lowered
  LET list == serversMap[t]
      next[index \in -1 .. Cardinality(Servers)] ==
        LET i == (index + 1) % Len(list) IN
          IF servers[list[i + 1]] >= MaxWeight(t)
            THEN [index |-> i, weight |-> MaxWeight(t)] ELSE next[i]
  IN  next[from.index]

\* The loop of wrrRoute, from the index and the weight of the last route, which
\* may have been stored for another list: the next server whose weight is at
\* least the current one, which goes down from round to round.
WrrNext(t, from) ==
  LET list == serversMap[t]
      top == Max({from.weight, MaxWeight(t)})
      next[last \in (-1 .. Cardinality(Servers)) \X (0 .. top)] ==
        LET i == (last[1] + 1) % Len(list)
            w == IF i # 0 THEN last[2]
                 ELSE IF last[2] - 1 <= 0 THEN MaxWeight(t) ELSE last[2] - 1
        IN  IF servers[list[i + 1]] >= w
              THEN [index |-> i, weight |-> w] ELSE next[<<i, w>>]
  IN  next[<<from.index, from.weight>>]

\* wrrRoute: without a positive weight it fails, at the end of a round.
Wrr(t) ==
  /\ MaxWeight(t) > 0
  /\ LET next == WrrNext(t, wrrParam[t]) IN
       /\ wrrParam' = [wrrParam EXCEPT ![t] = next]
       /\ RouteTo(t, serversMap[t][next.index + 1])
  /\ UNCHANGED <<rrParam, laParam, chParam, storing, load, gone>>

\* The count of server s: 0 when it is missing or NaN.  (The count of a server
\* that was not in the list of the first route is stored under a wrong key, and
\* is NaN after the first route to it.)
CountOf(counts, s) == IF s \in DOMAIN counts THEN counts[s] ELSE 0

LeastActiveOrNext(t, counts) ==  \* mutant: servers with one more are taken too
  {s \in Range(serversMap[t]) :
     \A other \in Range(serversMap[t]) :
       CountOf(counts, s) <= CountOf(counts, other) + 1}
LeastActive(t, counts) ==
  {s \in Range(serversMap[t]) :
     \A other \in Range(serversMap[t]) :
       CountOf(counts, s) <= CountOf(counts, other)}

\* laRoute
La(t) ==
  LET counts == IF t \in DOMAIN laParam THEN laParam[t]
                ELSE [s \in Range(serversMap[t]) |-> 0]
  IN  \E s \in LeastActive(t, counts) :
        /\ laParam' = With(laParam, t, [c \in DOMAIN counts |->
                             IF c = s THEN counts[c] + 1 ELSE counts[c]])
        /\ RouteTo(t, s)
        /\ load' = [load EXCEPT ![s] = @ + 1]
        /\ UNCHANGED <<rrParam, wrrParam, chParam, storing, gone>>

\* chRoute with the ring there is, or with a new one, which hears of servers
\* from now on and is stored after the callback.
Ch(t, hash) ==
  /\ IF t \in DOMAIN chParam
       THEN /\ RouteTo(t, GetNode(chParam[t], hash))
            /\ UNCHANGED <<storing, gone>>
       ELSE LET con == NewRing(serversMap[t]) IN
              /\ RouteTo(t, GetNode(con, hash))
              /\ StoreAfter(t, con)
              /\ gone' = [gone EXCEPT ![t] = {}]
  /\ UNCHANGED <<params, load>>

ChDone ==
  LET frame == Last(storing) IN
    /\ chParam' = With(chParam, frame.type, frame.value)
    /\ storing' = Front(storing)
    /\ UNCHANGED <<station, schedule, rrParam, wrrParam, laParam, routes, changes,
                   histories>>

\* rdRoute, and defRoute, which chooses by the uid of the session.
Rd(t) ==
  /\ \E s \in Range(serversMap[t]) : RouteTo(t, s)
  /\ UNCHANGED <<params, storing, load, gone>>

\* getRouteTarget
GetRouteTarget(t) ==
  /\ MayRoute(t)
  /\ \/ schedule = "rr" /\ Rr(t)
     \/ schedule = "wrr" /\ Wrr(t)
     \/ schedule = "la" /\ La(t)
     \/ schedule = "ch" /\ \E hash \in Hashes : Ch(t, hash)
     \/ schedule \in {"rd", "df"} /\ Rd(t)

Stored ==
  /\ storing # <<>>
  /\ \/ schedule = "rr" /\ RrDone
     \/ schedule = "ch" /\ ChDone

-----------------------------------------------------------------------------
(* The servers change.                                                     *)

HasRing(t) ==
  \/ t \in DOMAIN chParam
  \/ schedule = "ch" /\ \E i \in DOMAIN storing : storing[i].type = t

\* The rings hear of the servers of all types.
RingsHear(s, added) ==
  LET Heard(ring) == IF added THEN AddNode(ring, s)
                     ELSE RemoveNode(ring, s)
  IN /\ chParam' = [t \in DOMAIN chParam |-> Heard(chParam[t])]
     /\ storing' = IF schedule # "ch" THEN storing
                   ELSE [i \in DOMAIN storing |->
                           [storing[i] EXCEPT !.value = Heard(@)]]

Change ==
  /\ changes < MaxChanges /\ changes' = changes + 1
  /\ recent' = [t \in Types |->
                  IF serversMap'[t] = serversMap[t]
                     /\ \A s \in Range(serversMap[t]) : servers'[s] = servers[s]
                    THEN recent[t] ELSE <<>>]
  /\ UNCHANGED <<schedule, rrParam, wrrParam, laParam, routes, load>>

ServerAdded(s, weight) ==
  /\ AddServer(s, weight)
  /\ RingsHear(s, TRUE)
  /\ gone' = [t \in Types |-> gone[t] \ {s}]
  /\ Change

\* removeServer leaves the info and the place in the list.
ServerRemoved(s) ==
  /\ UNCHANGED station
  /\ RingsHear(s, FALSE)
  /\ gone' = [t \in Types |-> IF HasRing(t) THEN gone[t] \union {s} ELSE {}]
  /\ Change

\* Bound: not in a callback.
ServersReplaced(infos) ==
  /\ storing = <<>>
  /\ ReplaceServers(infos)
  /\ Change
  /\ UNCHANGED <<chParam, storing, gone>>

FailedOver(s) ==
  /\ Splice(s)
  /\ Change
  /\ UNCHANGED <<chParam, storing, gone>>

-----------------------------------------------------------------------------

Next ==
  \/ \E t \in Types : GetRouteTarget(t)
  \/ Stored
  \/ \E s \in Servers :
       \/ \E weight \in WeightsNow : ServerAdded(s, weight)
       \/ ServerRemoved(s) \/ FailedOver(s)
  \/ \E infos \in InfoLists : ServersReplaced(infos)

Spec == Init /\ [][Next]_vars

-----------------------------------------------------------------------------
(* Properties.                                                             *)

\* The servers of the outermost calls of type t, since the list changed.
Outermost(t) ==
  LET calls == Without(recent[t], {route \in Range(recent[t]) : route.nested})
  IN  [i \in DOMAIN calls |-> calls[i].server]

\* Round robin: as many outermost calls in a row as there are servers go to as
\* many servers, although the index is stored after the callback (router 65-69)
\* and the calls made there are routed in between: such a call goes to the
\* server of the call it is made in, like a retry that is to avoid it.
Rotates ==
  schedule = "rr" =>
    \A t \in Types :
      LET calls == Outermost(t) IN
        \A i, j \in DOMAIN calls :
          i < j /\ j < i + Len(serversMap[t]) => calls[i] # calls[j]

\* The turns of the servers of a list: as many as their weights add up to.
Turns(t) == UNION {{s} \X (1 .. servers[s]) : s \in Range(serversMap[t])}

\* Weighted round robin: while the list and its weights stay, each run of as
\* many calls as the weights add up to gives each server as many calls as its
\* weight, whatever index and weight another list has left (router 90-128).
Proportional ==
  schedule = "wrr" =>
    \A t \in Types :
      LET weight == Cardinality(Turns(t)) IN
        \A first \in 1 .. Len(recent[t]) - weight + 1 :
          \A s \in Range(serversMap[t]) :
            Cardinality({i \in first .. first + weight - 1 :
                           recent[t][i].server = s}) = servers[s]

\* Least active: no call widens the gap between two servers of the list that
\* were in the list of the first call, whatever servers left and came back in
\* between (router 148-176).  Servers that came later get every call.
NeverWidens ==
  [][routes' # routes =>
       \A t \in DOMAIN laParam :
         \A s, other \in DOMAIN laParam[t] \intersect Range(serversMap[t]) :
           load'[s] - load'[other] <= Max({1, load[s] - load[other]})]_vars

\* One hash for each place between, on, before and after the replicas.
Places == 0 .. Max(Range(HashOf)) + 1

AllRings == {chParam[t] : t \in DOMAIN chParam}

\* Consistent hash: the binary search over the sorted keys finds the replica at
\* or below every hash, or else the last one (consistentHash 61-90), after any
\* servers were added and removed.  After a server was added twice it searches
\* a part of the keys only.
RingLookup ==
  \A ring \in AllRings : IsInjective(ring.nodes) =>
    \A hash \in Places :
      GetNode(ring, hash) = Owner(ring.nodes, hash)

\* No hash leads to a server that was removed since the ring was created, also
\* if it had been added twice (consistentHash 32-50).
RemovedNotRouted ==
  \A t \in DOMAIN chParam : \A hash \in Places :
    GetNode(chParam[t], hash) \notin gone[t]

\* A call is routed to a server of the type it is for.
RightType ==
  \A t \in Types : \A i \in DOMAIN recent[t] :
    recent[t][i].server # NoNode => TypeOf[recent[t][i].server] = t
=============================================================================
