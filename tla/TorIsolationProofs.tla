-------------------------- MODULE TorIsolationProofs --------------------------
(***************************************************************************)
(* Proofs about TorIsolation: its types, that no circuit carries two       *)
(* groups, that a request reaches its endpoint, and that the groups        *)
(* implement IsolatedSessions, for any numbers of values, requests,        *)
(* connections, circuits and groups.                                       *)
(*                                                                         *)
(* Unlinkable is not inductive: what a circuit carries next is decided by  *)
(* the pool of an idle connection, which may have outlived the value it    *)
(* was dialled for.  The invariant says that group, token and pool are one *)
(* number throughout, that the circuit of every open connection was built  *)
(* for the pool that holds it, and that a circuit has carried nothing but  *)
(* the group it was built for.                                             *)
(***************************************************************************)
EXTENDS TorIsolation, TLAPS

GroupsOK ==
  /\ groups \in 0..MaxGroups
  /\ tokens = groups
  /\ connector = [i \in 1..groups |-> i]

Client == [token : 1..groups, http : 1..groups, url : Urls \cup {None}, group : 1..groups]
HandleOK ==
  /\ handle \in [Handles -> Client \cup {None}]
  /\ \A h \in Handles : handle[h] # None =>
       handle[h].token = handle[h].group /\ handle[h].http = handle[h].group

Call == [http : 1..groups, url : Urls, group : 1..groups,
         phase : {"waiting", "sent", "body"}, conn : Conns \cup {None}]
RequestOK ==
  /\ request \in [Requests -> Call \cup {None}]
  /\ \A r \in Requests : request[r] # None =>
       /\ request[r].http = request[r].group
       /\ request[r].phase = "waiting" => request[r].conn = None

ConnOK ==
  /\ conn \in [Conns -> Connection \cup {None}]
  /\ \A c \in Conns : conn[c] # None =>
       /\ conn[c].http \in 1..groups
       /\ circuit[conn[c].circuit] = conn[c].http
       /\ conn[c].endpoint = Endpoint(conn[c].url)

CircuitOK ==
  /\ circuit \in [Circuits -> (1..groups) \cup {None}]
  /\ carried \in [Circuits -> SUBSET (1..groups)]
  /\ \A k \in Circuits : \A g \in carried[k] : circuit[k] = g

\* A connection that carries a request is lent to it alone.
LentOK ==
  \A r \in Requests : request[r] # None /\ request[r].phase # "waiting" =>
    /\ request[r].conn \in Conns
    /\ conn[request[r].conn] # None
    /\ ~ conn[request[r].conn].idle
    /\ conn[request[r].conn].url = request[r].url
    /\ \A other \in Requests \ {r} : request[other] # None =>
         request[other].conn # request[r].conn

IInv == GroupsOK /\ HandleOK /\ RequestOK /\ ConnOK /\ CircuitOK /\ LentOK
-----------------------------------------------------------------------------
\* A URL's endpoint is a host and a port, the default one when it names none.
LEMMA EndpointType ==
  ASSUME NEW url \in Urls
  PROVE  /\ Endpoint(url) \in [host : Hosts, port : Nat]
         /\ Endpoint(url) = [host |-> url.host,
              port |-> IF url.port = None THEN DefaultPort[url.scheme] ELSE url.port]
<1>1. DefaultPort["http"] = 80 /\ DefaultPort["https"] = 443
  BY DEF DefaultPort
<1>2. CASE url.scheme = "http"
  <2>1. "http" # "https"
    OBVIOUS
  <2>2. Port(url) = IF url.port = None THEN DefaultPort[url.scheme] ELSE url.port
    BY <1>1, <1>2, <2>1 DEF Port
  <2>3. Port(url) \in Nat
    BY <1>1, <1>2, <2>2, TorAssumption
  <2> QED
    BY <2>2, <2>3 DEF Endpoint, Hosts
<1>3. CASE url.scheme = "https"
  <2>2. Port(url) = IF url.port = None THEN DefaultPort[url.scheme] ELSE url.port
    BY <1>1, <1>3 DEF Port
  <2>3. Port(url) \in Nat
    BY <1>1, <1>3, <2>2, TorAssumption
  <2> QED
    BY <2>2, <2>3 DEF Endpoint, Hosts
<1> QED
  BY <1>2, <1>3, TorAssumption

\* None is no number, no connection and no connection's name.
LEMMA NoneIsNothing == /\ \A n \in Nat : n # None
                       /\ \A c \in Conns : c # None
                       /\ \A x \in Connection : x # None
BY TorAssumption, NoneAssumption

LEMMA InitIInv == Init => IInv
<1> SUFFICES ASSUME Init PROVE IInv
  OBVIOUS
<1> USE DEF Init
<1>1. GroupsOK
  <2>1. connector = [i \in 1..0 |-> i]
    OBVIOUS
  <2> QED
    BY <2>1, TorAssumption DEF GroupsOK
<1>2. HandleOK /\ RequestOK /\ ConnOK /\ CircuitOK /\ LentOK
  BY DEF HandleOK, RequestOK, ConnOK, CircuitOK, LentOK
<1> QED
  BY <1>1, <1>2 DEF IInv

\* Every number of a group stays one when a group is added.
LEMMA NewGroup ==
  ASSUME IInv, groups < MaxGroups, groups' = groups + 1, tokens' = tokens + 1,
         connector' = Append(connector, tokens + 1),
         NEW h \in Handles,
         handle' = [handle EXCEPT ![h] = TorRpc(tokens + 1, Len(connector) + 1, groups + 1)],
         UNCHANGED <<request, conn, circuit, carried>>
  PROVE  IInv'
<1> USE TorAssumption
<1>1. groups \in Nat /\ tokens = groups /\ Len(connector) = groups /\ 1..groups \subseteq 1..groups'
  BY DEF IInv, GroupsOK
<1>2. GroupsOK'
  <2>1. connector' = [i \in 1..(groups + 1) |-> i]
    BY <1>1 DEF IInv, GroupsOK
  <2> QED
    BY <1>1, <2>1 DEF IInv, GroupsOK
<1>3. HandleOK'
  <2>1. TorRpc(tokens + 1, Len(connector) + 1, groups + 1) =
          [token |-> groups', http |-> groups', url |-> None, group |-> groups']
    BY <1>1 DEF TorRpc
  <2>2. [token |-> groups', http |-> groups', url |-> None, group |-> groups'] \in Client'
    BY <1>1 DEF Client
  <2>3. Client \subseteq Client'
    BY <1>1 DEF Client
  <2>4. handle' \in [Handles -> Client' \cup {None}]
    BY <2>1, <2>2, <2>3 DEF IInv, HandleOK
  <2> QED
    BY <2>1, <2>4 DEF IInv, HandleOK
<1>4. RequestOK'
  <2>1. Call \subseteq Call'
    BY <1>1 DEF Call
  <2> QED
    BY <2>1 DEF IInv, RequestOK
<1>5. ConnOK'
  BY <1>1 DEF IInv, ConnOK
<1>6. CircuitOK'
  BY <1>1 DEF IInv, CircuitOK
<1>7. LentOK'
  BY DEF IInv, LentOK
<1> QED
  BY <1>2, <1>3, <1>4, <1>5, <1>6, <1>7 DEF IInv

\* What changes the values only, and makes no group, leaves the rest as it was.
LEMMA HandleChanges ==
  ASSUME IInv, HandleOK', UNCHANGED <<tokens, connector, groups, request, conn, circuit, carried>>
  PROVE  IInv'
BY DEF IInv, GroupsOK, RequestOK, Call, ConnOK, CircuitOK, LentOK

\* What leaves values, groups and circuits alone.
LEMMA RequestChanges ==
  ASSUME IInv, RequestOK', ConnOK', LentOK', UNCHANGED <<handleVars, circuit, carried>>
  PROVE  IInv'
BY DEF IInv, GroupsOK, HandleOK, Client, CircuitOK, handleVars

LEMMA NextIInv == IInv /\ [Next]_vars => IInv'
<1> SUFFICES ASSUME IInv, [Next]_vars PROVE IInv'
  OBVIOUS
<1> USE TorAssumption, NoneIsNothing
<1>1. ASSUME NEW h \in Handles, Connect(h) PROVE IInv'
  BY <1>1, NewGroup DEF Connect
<1>2. ASSUME NEW h \in Handles, NEW new \in Handles, Isolated(h, new) PROVE IInv'
  BY <1>2, NewGroup DEF Isolated, IsolatedToken, IsolatedPool
<1>3. ASSUME NEW h \in Handles, Drop(h) PROVE IInv'
  <2>1. HandleOK'
    BY <1>3 DEF Drop, IInv, HandleOK, Client
  <2> QED
    BY <1>3, <2>1, HandleChanges DEF Drop
<1>4. ASSUME NEW h \in Handles, NEW new \in Handles, Clone(h, new) PROVE IInv'
  <2>1. HandleOK'
    BY <1>4 DEF Clone, IInv, HandleOK, Client
  <2> QED
    BY <1>4, <2>1, HandleChanges DEF Clone
<1>5. ASSUME NEW h \in Handles, NEW new \in Handles, NEW url \in Urls, RpcClient(h, new, url)
      PROVE  IInv'
  <2> DEFINE client == [token |-> handle[h].token, http |-> handle[h].http, url |-> url,
                        group |-> handle[h].group]
  <2>1. handle[h] \in Client /\ handle[h].token = handle[h].group /\ handle[h].http = handle[h].group
    BY <1>5 DEF RpcClient, IsTor, IInv, HandleOK
  <2>2. client \in Client /\ client.token = client.group /\ client.http = client.group
    BY <2>1 DEF Client
  <2>3. HandleOK'
    <3>1. Client' = Client
      BY <1>5 DEF RpcClient, Client
    <3>2. handle' = [handle EXCEPT ![new] = client]
      BY <1>5 DEF RpcClient
    <3> HIDE DEF client
    <3> QED
      BY <2>2, <3>1, <3>2 DEF IInv, HandleOK
  <2> QED
    BY <1>5, <2>3, HandleChanges DEF RpcClient
<1>6. ASSUME NEW r \in Requests, NEW h \in Handles, NEW url \in Urls, Issue(r, h, url) PROVE IInv'
  <2> DEFINE call == Asked(handle[h].http, url, handle[h].group, "waiting", None)
  <2>1. handle[h] \in Client /\ handle[h].http = handle[h].group
    BY <1>6 DEF Issue, IInv, HandleOK
  <2>2. call \in Call /\ call.http = call.group /\ call.phase = "waiting" /\ call.conn = None
    BY <2>1 DEF Client, Call, Asked
  <2>3. request' = [request EXCEPT ![r] = call] /\ UNCHANGED <<handleVars, conn, circuit, carried>>
    BY <1>6 DEF Issue
  <2> HIDE DEF call
  <2>4. RequestOK'
    BY <2>2, <2>3 DEF IInv, RequestOK, Call, handleVars
  <2>5. ConnOK'
    BY <2>3 DEF IInv, ConnOK, handleVars
  <2>6. LentOK'
    BY <2>2, <2>3 DEF IInv, LentOK, RequestOK
  <2> QED
    BY <2>3, <2>4, <2>5, <2>6, RequestChanges
<1>7. ASSUME NEW r \in Requests, NEW c \in Conns, Checkout(r, c) PROVE IInv'
  <2> DEFINE call == Asked(request[r].http, request[r].url, request[r].group, "sent", c)
             lent == [http |-> conn[c].http, url |-> conn[c].url, endpoint |-> conn[c].endpoint,
                      circuit |-> conn[c].circuit, idle |-> FALSE]
  <2>1. request[r] \in Call /\ request[r].http = request[r].group
    BY <1>7 DEF Checkout, InPhase, IInv, RequestOK
  <2>2. conn[c] \in Connection /\ conn[c].http \in 1..groups
        /\ circuit[conn[c].circuit] = conn[c].http /\ conn[c].endpoint = Endpoint(conn[c].url)
        /\ conn[c] # None /\ conn[c].idle
    BY <1>7 DEF Checkout, IInv, ConnOK
  <2>3. call \in Call /\ call.http = call.group /\ call.phase = "sent" /\ call.conn = c
        /\ call.url = request[r].url
    BY <2>1 DEF Call, Asked
  <2>4. lent \in Connection /\ lent.http = conn[c].http /\ lent.url = conn[c].url
        /\ lent.endpoint = conn[c].endpoint /\ lent.circuit = conn[c].circuit /\ lent.idle = FALSE
    BY <2>2 DEF Connection
  <2>5. /\ request' = [request EXCEPT ![r] = call]
        /\ conn' = [conn EXCEPT ![c] = lent]
        /\ carried' = [carried EXCEPT ![conn[c].circuit] = @ \cup {request[r].group}]
        /\ UNCHANGED <<handleVars, circuit>>
        /\ conn[c].http = request[r].http /\ conn[c].url = request[r].url
    BY <1>7 DEF Checkout, Multiplexed
  <2>6. call.phase # "waiting"
    BY <2>3
  <2> HIDE DEF call, lent
  <2>7. GroupsOK' /\ HandleOK'
    BY <2>5 DEF IInv, GroupsOK, HandleOK, Client, handleVars
  <2>8. RequestOK'
    BY <2>3, <2>5, <2>6 DEF IInv, RequestOK, Call, handleVars
  <2>9. ConnOK'
    BY <2>2, <2>4, <2>5 DEF IInv, ConnOK, handleVars
  <2>10. CircuitOK'
    <3>1. conn[c].circuit \in Circuits
      BY <2>2 DEF Connection
    <3>2. request[r].group \in 1..groups /\ circuit[conn[c].circuit] = request[r].group
      BY <2>1, <2>2, <2>5 DEF Call
    <3> QED
      BY <2>5, <3>1, <3>2 DEF IInv, CircuitOK, handleVars
  <2>11. LentOK'
    <3>1. lent # None
      BY <2>4
    <3>2. ASSUME NEW other \in Requests \ {r}, request[other] # None
          PROVE  request[other].conn # c
      BY <2>2, <3>2 DEF IInv, LentOK, RequestOK
    <3>3. ASSUME NEW q \in Requests, request'[q] # None, request'[q].phase # "waiting"
          PROVE  /\ request'[q].conn \in Conns
                 /\ conn'[request'[q].conn] # None
                 /\ ~ conn'[request'[q].conn].idle
                 /\ conn'[request'[q].conn].url = request'[q].url
                 /\ \A other \in Requests \ {q} : request'[other] # None =>
                      request'[other].conn # request'[q].conn
      <4>1. CASE q = r
        BY <2>3, <2>4, <2>5, <3>1, <3>2, <4>1 DEF IInv, ConnOK, RequestOK
      <4>2. CASE q # r
        <5>1. request'[q] = request[q] /\ request[q].conn # c /\ request[q].conn \in Conns
          BY <2>5, <3>2, <3>3, <4>2 DEF IInv, LentOK, RequestOK
        <5>2. conn'[request[q].conn] = conn[request[q].conn]
          BY <2>5, <5>1 DEF IInv, ConnOK
        <5> QED
          BY <2>3, <2>5, <3>3, <4>2, <5>1, <5>2 DEF IInv, LentOK, RequestOK
      <4> QED
        BY <4>1, <4>2
    <3> QED
      BY <3>3 DEF LentOK
  <2> QED
    BY <2>7, <2>8, <2>9, <2>10, <2>11 DEF IInv
<1>8. ASSUME NEW r \in Requests, NEW c \in Conns, NEW k \in Circuits, Dial(r, c, k) PROVE IInv'
  <2> DEFINE open == [http |-> request[r].http, url |-> request[r].url,
                      endpoint |-> Endpoint(request[r].url), circuit |-> k, idle |-> TRUE]
  <2>1. request[r] \in Call
    BY <1>8 DEF Dial, InPhase, IInv, RequestOK
  <2>2. request[r].http \in 1..groups /\ connector[request[r].http] = request[r].http
    BY <2>1 DEF Call, IInv, GroupsOK
  <2>3. open \in Connection /\ open.http = request[r].http /\ open.url = request[r].url
        /\ open.endpoint = Endpoint(open.url) /\ open.circuit = k
    <3>1. request[r].url \in Urls
      BY <2>1 DEF Call
    <3> QED
      BY <2>2, <3>1, EndpointType DEF Connection
  <2>4. /\ circuit[k] \in {None, request[r].http}
        /\ circuit' = [circuit EXCEPT ![k] = request[r].http]
        /\ conn[c] = None
        /\ conn' = [conn EXCEPT ![c] = open]
        /\ UNCHANGED <<handleVars, request, carried>>
    BY <1>8, <2>2 DEF Dial
  <2> HIDE DEF open
  <2>5. GroupsOK' /\ HandleOK' /\ RequestOK'
    BY <2>4 DEF IInv, GroupsOK, HandleOK, Client, RequestOK, Call, handleVars
  <2>6. ConnOK'
    <3>1. ASSUME NEW d \in Conns, conn[d] # None
          PROVE  circuit'[conn[d].circuit] = conn[d].http
      <4>1. conn[d].circuit \in Circuits /\ conn[d].http \in 1..groups
            /\ circuit[conn[d].circuit] = conn[d].http /\ groups \in Nat
        BY <3>1 DEF IInv, ConnOK, Connection, GroupsOK
      <4> QED
        BY <2>4, <4>1 DEF IInv, CircuitOK
    <3>2. circuit'[k] = request[r].http
      BY <2>4 DEF IInv, CircuitOK
    <3>3. groups' = groups
      BY <2>4 DEF handleVars
    <3> QED
      BY <2>2, <2>3, <2>4, <3>1, <3>2, <3>3 DEF IInv, ConnOK
  <2>7. CircuitOK'
    <3>1. ASSUME NEW g \in carried[k] PROVE g = request[r].http
      BY <2>4, <3>1 DEF IInv, CircuitOK, GroupsOK
    <3> QED
      BY <2>2, <2>4, <3>1 DEF IInv, CircuitOK, handleVars
  <2>8. LentOK'
    BY <2>4 DEF IInv, LentOK, ConnOK
  <2> QED
    BY <2>5, <2>6, <2>7, <2>8 DEF IInv
<1>9. ASSUME NEW r \in Requests, Respond(r) PROVE IInv'
  <2> DEFINE call == Asked(request[r].http, request[r].url, request[r].group, "body",
                           request[r].conn)
  <2>1. request[r] \in Call /\ request[r].http = request[r].group /\ request[r] # None
        /\ request[r].phase # "waiting"
    BY <1>9 DEF Respond, InPhase, IInv, RequestOK
  <2>2. call \in Call /\ call.http = call.group /\ call.phase # "waiting"
        /\ call.conn = request[r].conn /\ call.url = request[r].url
    BY <2>1 DEF Call, Asked
  <2>3. request' = [request EXCEPT ![r] = call] /\ UNCHANGED <<handleVars, conn, circuit, carried>>
    BY <1>9 DEF Respond
  <2> HIDE DEF call
  <2>4. RequestOK'
    BY <2>2, <2>3 DEF IInv, RequestOK, Call, handleVars
  <2>5. ConnOK'
    BY <2>3 DEF IInv, ConnOK, handleVars
  <2>6. LentOK'
    BY <2>1, <2>2, <2>3 DEF IInv, LentOK, RequestOK
  <2> QED
    BY <2>3, <2>4, <2>5, <2>6, RequestChanges
<1>10. ASSUME NEW r \in Requests, Collect(r) PROVE IInv'
  <2> DEFINE c == request[r].conn
             idle == [http |-> conn[c].http, url |-> conn[c].url, endpoint |-> conn[c].endpoint,
                      circuit |-> conn[c].circuit, idle |-> TRUE]
  <2>1. request[r] # None /\ request[r].phase # "waiting"
    BY <1>10 DEF Collect, InPhase
  <2>2. c \in Conns /\ conn[c] # None /\ conn[c] \in Connection
        /\ \A other \in Requests \ {r} : request[other] # None => request[other].conn # c
    BY <2>1 DEF IInv, LentOK, ConnOK
  <2>3. idle \in Connection /\ idle.http = conn[c].http /\ idle.url = conn[c].url
        /\ idle.endpoint = conn[c].endpoint /\ idle.circuit = conn[c].circuit
    BY <2>2 DEF Connection
  <2>4. request' = [request EXCEPT ![r] = None] /\ conn' = [conn EXCEPT ![c] = idle]
        /\ UNCHANGED <<handleVars, circuit, carried>>
    BY <1>10 DEF Collect
  <2> HIDE DEF c, idle
  <2>5. RequestOK'
    BY <2>4 DEF IInv, RequestOK, Call, handleVars
  <2>6. ConnOK'
    BY <2>2, <2>3, <2>4 DEF IInv, ConnOK, handleVars
  <2>7. LentOK'
    BY <2>2, <2>4 DEF IInv, LentOK, RequestOK, ConnOK
  <2> QED
    BY <2>4, <2>5, <2>6, <2>7, RequestChanges
<1>11. ASSUME NEW r \in Requests, GiveUp(r) PROVE IInv'
  <2>1. RequestOK' /\ ConnOK' /\ LentOK'
    BY <1>11 DEF GiveUp, IInv, RequestOK, Call, ConnOK, LentOK, handleVars
  <2> QED
    BY <1>11, <2>1, RequestChanges DEF GiveUp
<1>12. ASSUME NEW r \in Requests, Abort(r) PROVE IInv'
  <2> DEFINE c == request[r].conn
  <2>1. request[r] # None /\ request[r].phase # "waiting"
    BY <1>12 DEF Abort, InPhase
  <2>2. c \in Conns /\ \A other \in Requests \ {r} : request[other] # None => request[other].conn # c
    BY <2>1 DEF IInv, LentOK
  <2>3. request' = [request EXCEPT ![r] = None] /\ conn' = [conn EXCEPT ![c] = None]
        /\ UNCHANGED <<handleVars, circuit, carried>>
    BY <1>12 DEF Abort
  <2> HIDE DEF c
  <2>4. RequestOK' /\ ConnOK'
    BY <2>3 DEF IInv, RequestOK, Call, ConnOK, handleVars
  <2>5. LentOK'
    BY <2>2, <2>3 DEF IInv, LentOK, RequestOK, ConnOK
  <2> QED
    BY <2>3, <2>4, <2>5, RequestChanges
<1>13. ASSUME NEW c \in Conns, Close(c) PROVE IInv'
  <2>1. RequestOK' /\ ConnOK'
    BY <1>13 DEF Close, IInv, RequestOK, Call, ConnOK, handleVars
  <2>2. LentOK'
    BY <1>13 DEF Close, IInv, LentOK, ConnOK
  <2> QED
    BY <1>13, <2>1, <2>2, RequestChanges DEF Close
<1>14. CASE UNCHANGED vars
  BY <1>14 DEF vars, IInv, GroupsOK, HandleOK, Client, RequestOK, Call, ConnOK, CircuitOK, LentOK
<1> QED
  BY <1>1, <1>2, <1>3, <1>4, <1>5, <1>6, <1>7, <1>8, <1>9, <1>10, <1>11, <1>12, <1>13, <1>14 DEF Next

THEOREM Invariance == Spec => []IInv
BY InitIInv, NextIInv, PTL DEF Spec
-----------------------------------------------------------------------------
\* Every variable has its type in every reachable state, and a request in flight
\* has a connection of its own, open and lent to it alone (exchange, pool).
THEOREM TypeCorrect == Spec => []TypeOK
<1>1. IInv => TypeOK
  <2> SUFFICES ASSUME IInv PROVE TypeOK
    OBVIOUS
  <2> USE TorAssumption
  <2>1. groups \in 0..MaxGroups /\ groups \in Nat /\ tokens = groups /\ DOMAIN connector = 1..groups
    BY DEF IInv, GroupsOK
  <2>2. connector \in Seq(1..tokens)
    BY <2>1 DEF IInv, GroupsOK
  <2>3. handle \in [Handles -> Handle \cup {None}]
    <3>1. Client = Handle
      BY <2>1 DEF Client, Handle
    <3> QED
      BY <3>1 DEF IInv, HandleOK
  <2>4. ASSUME NEW r \in Taken(request)
        PROVE  /\ request[r].http \in DOMAIN connector
               /\ request[r].group \in 1..groups
               /\ request[r].phase \in {"sent", "body"} =>
                    /\ request[r].conn \in Taken(conn)
                    /\ ~ conn[request[r].conn].idle
                    /\ \A other \in Taken(request) \ {r} : request[other].conn # request[r].conn
    <3>1. r \in Requests /\ request[r] # None /\ request[r] \in Call
          /\ DOMAIN request = Requests /\ DOMAIN conn = Conns
      BY <2>4 DEF Taken, IInv, RequestOK, ConnOK
    <3>2. request[r].http \in DOMAIN connector /\ request[r].group \in 1..groups
      BY <2>1, <3>1 DEF Call
    <3>3. ASSUME request[r].phase \in {"sent", "body"}
          PROVE  /\ request[r].conn \in Taken(conn)
                 /\ ~ conn[request[r].conn].idle
                 /\ \A other \in Taken(request) \ {r} : request[other].conn # request[r].conn
      <4>1. request[r].phase # "waiting"
        BY <3>3
      <4> QED
        BY <3>1, <4>1 DEF Taken, IInv, LentOK
    <3> QED
      BY <3>2, <3>3
  <2>5. ASSUME NEW c \in Taken(conn)
        PROVE  conn[c].http \in DOMAIN connector /\ circuit[conn[c].circuit] # None
    BY <2>1, <2>5, NoneIsNothing DEF Taken, IInv, ConnOK
  <2>6. carried \in [Circuits -> SUBSET (1..groups)]
    BY DEF IInv, CircuitOK
  <2> QED
    BY <2>1, <2>2, <2>3, <2>4, <2>5, <2>6 DEF TypeOK
<1> QED
  BY Invariance, <1>1, PTL

\* Values of one group share client and pool, those of different groups neither
\* (TorRpc::isolated, Clone).
THEOREM ValuesKeepTheirGroup == Spec => []GroupsAreClients
<1>1. IInv => GroupsAreClients
  BY DEF IInv, HandleOK, GroupsAreClients, Taken
<1> QED
  BY Invariance, <1>1, PTL

\* No circuit ever carries requests of two groups, however connections outlive
\* the values they were dialled for (TorRpc::isolated, pool, TorConnector).
THEOREM CircuitsAreUnlinkable == Spec => []Unlinkable
<1>1. IInv => Unlinkable
  BY DEF IInv, CircuitOK, Unlinkable
<1> QED
  BY Invariance, <1>1, PTL

\* A request travels to the host and port its URL names, on a connection kept
\* from an earlier request too (TorConnector::call).
THEOREM EndpointsReached == Spec => []ReachesEndpoint
<1>1. IInv => ReachesEndpoint
  <2> SUFFICES ASSUME IInv, NEW r \in Taken(request), request[r].conn # None
               PROVE  conn[request[r].conn].endpoint =
                        [host |-> request[r].url.host,
                         port |-> IF request[r].url.port = None
                                  THEN DefaultPort[request[r].url.scheme]
                                  ELSE request[r].url.port]
    BY DEF ReachesEndpoint
  <2>1. r \in Requests /\ request[r] # None /\ request[r] \in Call /\ request[r].phase # "waiting"
    BY DEF Taken, IInv, RequestOK
  <2>2. conn[request[r].conn].endpoint = Endpoint(request[r].url)
    BY <2>1 DEF IInv, LentOK, ConnOK
  <2>3. request[r].url \in Urls
    BY <2>1 DEF Call
  <2> QED
    BY <2>2, <2>3, EndpointType
<1> QED
  BY Invariance, <1>1, PTL
-----------------------------------------------------------------------------
(* The refinement: making a group opens a session, and a connection taken *)
(* for a request sends on its circuit.  Every other step is a stutter.    *)

Used == [g \in 1..groups |-> {k \in Circuits : g \in carried[k]}]

LEMMA InitRefines == Init => Sessions!Init
BY DEF Init, Sessions!Init

\* A new group is a session that has used no circuit yet.
LEMMA OpenRefines ==
  ASSUME IInv, IInv', groups' = groups + 1, UNCHANGED carried
  PROVE  Sessions!Open
<1>1. groups \in Nat /\ 1..groups \subseteq 1..groups'
  BY TorAssumption DEF IInv, GroupsOK
<1>2. ASSUME NEW s \in 1..groups'
      PROVE  {k \in Circuits : s \in carried'[k]} = IF s \in 1..groups THEN Used[s] ELSE {}
  <2>1. CASE s \in 1..groups
    BY <2>1 DEF Used
  <2>2. CASE s \notin 1..groups
    BY <2>2 DEF IInv, CircuitOK
  <2> QED
    BY <2>1, <2>2
<1> QED
  BY <1>2 DEF Sessions!Open, Used

\* What adds no group and sends nothing is not seen.
LEMMA StutterRefines ==
  ASSUME UNCHANGED <<groups, carried>>
  PROVE  UNCHANGED Sessions!vars
BY DEF Sessions!vars

\* A request sent is traffic of its group on a circuit no other group has used.
LEMMA SendRefines ==
  ASSUME IInv, NEW r \in Requests, NEW c \in Conns, Checkout(r, c)
  PROVE  \E session \in 1..groups, k \in Circuits : Sessions!Send(session, k)
<1>1. request[r] \in Call /\ request[r].http = request[r].group
  BY DEF Checkout, InPhase, IInv, RequestOK
<1>2. conn[c] \in Connection /\ circuit[conn[c].circuit] = conn[c].http
  BY DEF Checkout, IInv, ConnOK
<1> PICK g \in 1..groups : g = request[r].group
  BY <1>1 DEF Call
<1> PICK k \in Circuits : k = conn[c].circuit
  BY <1>2 DEF Connection
<1>3. circuit[k] = g
  BY <1>1, <1>2 DEF Checkout
<1>4. carried' = [carried EXCEPT ![k] = @ \cup {g}] /\ groups' = groups
  BY DEF Checkout, handleVars
<1>5. carried \in [Circuits -> SUBSET (1..groups)] /\ \A s \in carried[k] : s = g
  BY <1>3 DEF IInv, CircuitOK
<1>6. \A other \in 1..groups \ {g} : k \notin Used[other]
  BY <1>3, <1>5 DEF Used
<1>7. Used' = [Used EXCEPT ![g] = @ \cup {k}]
  <2>1. ASSUME NEW s \in 1..groups
        PROVE  {j \in Circuits : s \in carried'[j]} =
                 IF s = g THEN {j \in Circuits : s \in carried[j]} \cup {k}
                 ELSE {j \in Circuits : s \in carried[j]}
    BY <1>3, <1>4, <1>5
  <2>2. Used' = [s \in 1..groups |-> {j \in Circuits : s \in carried'[j]}]
    BY <1>4 DEF Used
  <2>3. [Used EXCEPT ![g] = @ \cup {k}] =
          [s \in 1..groups |-> IF s = g THEN {j \in Circuits : s \in carried[j]} \cup {k}
                               ELSE {j \in Circuits : s \in carried[j]}]
    BY DEF Used
  <2> QED
    BY <2>1, <2>2, <2>3
<1>8. Sessions!Send(g, k)
  BY <1>3, <1>4, <1>6, <1>7 DEF Sessions!Send, Used
<1> QED
  BY <1>8

\* Isolation groups are sessions that keep to circuits of their own
\* (TorRpc::isolated).
THEOREM Refinement == Spec => ImplementsSessions
<1>1. IInv /\ IInv' /\ [Next]_vars => [Sessions!Next]_(Sessions!vars)
  <2> SUFFICES ASSUME IInv, IInv', [Next]_vars
               PROVE  Sessions!Next \/ UNCHANGED Sessions!vars
    BY DEF Sessions!vars
  <2>1. ASSUME NEW h \in Handles, Connect(h) \/ \E new \in Handles : Isolated(h, new)
        PROVE  Sessions!Next
    <3>1. groups' = groups + 1 /\ UNCHANGED carried
      BY <2>1 DEF Connect, Isolated
    <3> QED
      BY <3>1, OpenRefines DEF Sessions!Next
  <2>2. ASSUME NEW r \in Requests, NEW c \in Conns, Checkout(r, c)
        PROVE  Sessions!Next
    BY <2>2, SendRefines DEF Sessions!Next
  <2>3. CASE \/ \E h \in Handles : Drop(h)
             \/ \E h, new \in Handles : Clone(h, new) \/ \E url \in Urls : RpcClient(h, new, url)
             \/ \E r \in Requests :
                  \/ \E h \in Handles, url \in Urls : Issue(r, h, url)
                  \/ \E c \in Conns, k \in Circuits : Dial(r, c, k)
                  \/ Respond(r) \/ Collect(r) \/ GiveUp(r) \/ Abort(r)
             \/ \E c \in Conns : Close(c)
             \/ UNCHANGED vars
    <3>1. UNCHANGED <<groups, carried>>
      BY <2>3 DEF Drop, Clone, RpcClient, Issue, Dial, Respond, Collect, GiveUp, Abort, Close,
                  vars, handleVars
    <3> QED
      BY <3>1, StutterRefines
  <2> QED
    BY <2>1, <2>2, <2>3 DEF Next
<1> QED
  BY Invariance, InitRefines, <1>1, PTL DEF Spec, ImplementsSessions, Sessions!Spec
===============================================================================
