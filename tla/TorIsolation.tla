---------------------------- MODULE TorIsolation ----------------------------
(***************************************************************************)
(* JSON-RPC and HTTP over Tor in isolation groups (crates/tor-rpc).  A     *)
(* TorRpc holds a Tor client, whose isolation token decides which circuits *)
(* its streams may share, and an HTTP connection pool that dials through   *)
(* that client and keeps idle connections for reuse.  Values are cloned,   *)
(* isolated, turned into RPC clients and dropped; requests wait, dial,     *)
(* reuse connections, break and are cancelled in any order.                *)
(*                                                                         *)
(* Arti gives a stream any circuit of its client's token.  hyper keeps a   *)
(* pool's connections apart by scheme and authority and lends one to one   *)
(* request at a time.  A definition D_Suffix is D with a plausible bug.    *)
(***************************************************************************)
EXTENDS Naturals, Sequences

CONSTANTS
  Handles,      \* names for the TorRpc values and RPC clients in use
  Requests,     \* names for the requests under way
  Conns,        \* names for the open connections
  Circuits,     \* the circuits Tor may build
  Urls,         \* the URLs asked for: scheme, host, and a port or None
  MaxGroups,    \* bound on the number of isolation groups
  None

ASSUME TorAssumption ==
  /\ None \notin Nat
  /\ MaxGroups \in Nat
  /\ \A url \in Urls : /\ url.scheme \in {"http", "https"}
                       /\ url.port \in Nat \cup {None}

\* What stands for "none" is none of the things it may stand for.
Hosts == {url.host : url \in Urls}
Connection == [http : Nat, url : Urls, endpoint : [host : Hosts, port : Nat],
               circuit : Circuits, idle : BOOLEAN]
ASSUME NoneAssumption == None \notin Connection \cup Conns

VARIABLES
  handle,     \* what each name holds: [token, http, url, group], or None
  tokens,     \* isolation tokens made so far
  connector,  \* for each HTTP pool made so far, the token it dials with
  groups,     \* isolation groups the caller has asked for so far
  request,    \* a request under way: [http, url, group, phase, conn], or None
  conn,       \* an open connection: [http, url, endpoint, circuit, idle], or None
  circuit,    \* the token a circuit was built for, or None
  carried     \* the groups whose requests a circuit has carried

vars == <<handle, tokens, connector, groups, request, conn, circuit, carried>>
handleVars == <<handle, tokens, connector, groups>>

Free(slots) == {n \in DOMAIN slots : slots[n] = None}
Taken(slots) == {n \in DOMAIN slots : slots[n] # None}

Init ==
  /\ handle = [h \in Handles |-> None]
  /\ tokens = 0
  /\ connector = <<>>
  /\ groups = 0
  /\ request = [r \in Requests |-> None]
  /\ conn = [c \in Conns |-> None]
  /\ circuit = [k \in Circuits |-> None]
  /\ carried = [k \in Circuits |-> {}]
-----------------------------------------------------------------------------
(* TorRpc values and the clients made from them. *)

\* A TorRpc with the given client and HTTP pool: `group` records what the
\* caller was promised, and is no part of the code.
TorRpc(token, http, group) == [token |-> token, http |-> http, url |-> None, group |-> group]

\* The names that hold a TorRpc rather than an RPC client.
IsTor(h) == handle[h] # None /\ handle[h].url = None

\* connect, once it has bootstrapped: a client of its own and a pool that dials
\* through it.
Connect(h) ==
  /\ handle[h] = None
  /\ groups < MaxGroups
  /\ groups' = groups + 1
  /\ tokens' = tokens + 1
  /\ connector' = Append(connector, tokens + 1)
  /\ handle' = [handle EXCEPT ![h] = TorRpc(tokens + 1, Len(connector) + 1, groups + 1)]
  /\ UNCHANGED <<request, conn, circuit, carried>>

\* isolated: a client with a new token and a new pool of its own.
IsolatedToken_Parent(h) == handle[h].token
IsolatedToken(h) == tokens + 1
IsolatedPool_Parent(h) == handle[h].http
IsolatedPool(h) == Len(connector) + 1
Isolated(h, new) ==
  /\ IsTor(h) /\ handle[new] = None
  /\ groups < MaxGroups
  /\ groups' = groups + 1
  /\ tokens' = tokens + 1
  /\ connector' = Append(connector, IsolatedToken(h))
  /\ handle' = [handle EXCEPT ![new] = TorRpc(IsolatedToken(h), IsolatedPool(h), groups + 1)]
  /\ UNCHANGED <<request, conn, circuit, carried>>

\* Clone, derived: the clone shares client and pool.
Clone(h, new) ==
  /\ handle[h] # None /\ handle[new] = None
  /\ handle' = [handle EXCEPT ![new] = handle[h]]
  /\ UNCHANGED <<tokens, connector, groups, request, conn, circuit, carried>>

\* rpc_client and provider: bound to one URL, over the pool of the TorRpc.
RpcClient(h, new, url) ==
  /\ IsTor(h) /\ handle[new] = None
  /\ handle' = [handle EXCEPT ![new] =
       [token |-> handle[h].token, http |-> handle[h].http, url |-> url, group |-> handle[h].group]]
  /\ UNCHANGED <<tokens, connector, groups, request, conn, circuit, carried>>

Drop(h) ==
  /\ handle[h] # None
  /\ handle' = [handle EXCEPT ![h] = None]
  /\ UNCHANGED <<tokens, connector, groups, request, conn, circuit, carried>>
-----------------------------------------------------------------------------
(* Requests. *)

\* get, post, request, http and send on a TorRpc, or a call of an RPC client.
Asked(http, url, group, phase, c) ==
  [http |-> http, url |-> url, group |-> group, phase |-> phase, conn |-> c]

Issue(r, h, url) ==
  /\ request[r] = None
  /\ handle[h] # None
  /\ handle[h].url \in {None, url}
  /\ request' = [request EXCEPT ![r] =
       Asked(handle[h].http, url, handle[h].group, "waiting", None)]
  /\ UNCHANGED <<handleVars, conn, circuit, carried>>

InPhase(r, phase) == request[r] # None /\ request[r].phase = phase

\* pool: connections speak HTTP/1.1 only (enable_http1), so one that carries a
\* request is not there for another.
Multiplexed_Http2 == TRUE
Multiplexed == FALSE

\* An idle connection of the request's pool to the URL's scheme and authority
\* carries the request.
Checkout(r, c) ==
  /\ InPhase(r, "waiting")
  /\ conn[c] # None /\ conn[c].idle
  /\ conn[c].http = request[r].http
  /\ conn[c].url = request[r].url
  /\ conn' = [conn EXCEPT ![c] = [http |-> conn[c].http, url |-> conn[c].url,
                                  endpoint |-> conn[c].endpoint,
                                  circuit |-> conn[c].circuit, idle |-> Multiplexed]]
  /\ request' = [request EXCEPT ![r] = Asked(request[r].http, request[r].url,
                                             request[r].group, "sent", c)]
  /\ carried' = [carried EXCEPT ![conn[c].circuit] = @ \cup {request[r].group}]
  /\ UNCHANGED <<handleVars, circuit>>

\* TorConnector: the URL's port, or that of its scheme, dialled by the pool's
\* client on a circuit of its token.  The connection goes to the pool; a request
\* that was waiting for it takes it there.
Port_Http(url) == IF url.port # None THEN url.port ELSE 80
Port(url) == IF url.port # None THEN url.port ELSE IF url.scheme = "https" THEN 443 ELSE 80
Endpoint(url) == [host |-> url.host, port |-> Port(url)]

Dial(r, c, k) ==
  /\ InPhase(r, "waiting")
  /\ conn[c] = None
  /\ circuit[k] \in {None, connector[request[r].http]}
  /\ circuit' = [circuit EXCEPT ![k] = connector[request[r].http]]
  /\ conn' = [conn EXCEPT ![c] = [http |-> request[r].http, url |-> request[r].url,
                                  endpoint |-> Endpoint(request[r].url),
                                  circuit |-> k, idle |-> TRUE]]
  /\ UNCHANGED <<handleVars, request, carried>>

\* The head of the response is there, of whatever status.
Respond(r) ==
  /\ InPhase(r, "sent")
  /\ request' = [request EXCEPT ![r] = Asked(request[r].http, request[r].url,
                                             request[r].group, "body", request[r].conn)]
  /\ UNCHANGED <<handleVars, conn, circuit, carried>>

\* exchange collects the body, and the connection is idle again.  The status is
\* looked at afterwards (request).
Collect(r) ==
  /\ InPhase(r, "body")
  /\ LET c == request[r].conn
     IN  conn' = [conn EXCEPT ![c] = [http |-> conn[c].http, url |-> conn[c].url,
                                      endpoint |-> conn[c].endpoint,
                                      circuit |-> conn[c].circuit, idle |-> TRUE]]
  /\ request' = [request EXCEPT ![r] = None]
  /\ UNCHANGED <<handleVars, circuit, carried>>

\* The dial fails, or the caller drops the request before it is sent.
GiveUp(r) ==
  /\ InPhase(r, "waiting")
  /\ request' = [request EXCEPT ![r] = None]
  /\ UNCHANGED <<handleVars, conn, circuit, carried>>

\* The caller drops a request in flight, or its connection breaks: a connection
\* with an unread response is closed.
Abort(r) ==
  /\ InPhase(r, "sent") \/ InPhase(r, "body")
  /\ conn' = [conn EXCEPT ![request[r].conn] = None]
  /\ request' = [request EXCEPT ![r] = None]
  /\ UNCHANGED <<handleVars, circuit, carried>>

\* An idle connection is closed by the server, by the pool or with its circuit.
Close(c) ==
  /\ conn[c] # None /\ conn[c].idle
  /\ conn' = [conn EXCEPT ![c] = None]
  /\ UNCHANGED <<handleVars, request, circuit, carried>>

Next ==
  \/ \E h \in Handles : Connect(h) \/ Drop(h)
  \/ \E h, new \in Handles :
       Isolated(h, new) \/ Clone(h, new) \/ \E url \in Urls : RpcClient(h, new, url)
  \/ \E r \in Requests :
       \/ \E h \in Handles, url \in Urls : Issue(r, h, url)
       \/ \E c \in Conns : Checkout(r, c) \/ \E k \in Circuits : Dial(r, c, k)
       \/ Respond(r) \/ Collect(r) \/ GiveUp(r) \/ Abort(r)
  \/ \E c \in Conns : Close(c)

Spec == Init /\ [][Next]_vars
-----------------------------------------------------------------------------
Handle == [token : 1..tokens, http : DOMAIN connector, url : Urls \cup {None}, group : 1..groups]

\* Every variable has its type, and a request in flight has a connection of its
\* own, open and lent to it alone.
TypeOK ==
  /\ groups \in 0..MaxGroups
  /\ tokens \in Nat /\ connector \in Seq(1..tokens)
  /\ handle \in [Handles -> Handle \cup {None}]
  /\ \A r \in Taken(request) :
       /\ request[r].http \in DOMAIN connector
       /\ request[r].group \in 1..groups
       /\ request[r].phase \in {"sent", "body"} =>
            /\ request[r].conn \in Taken(conn)
            /\ ~ conn[request[r].conn].idle
            /\ \A other \in Taken(request) \ {r} : request[other].conn # request[r].conn
  /\ \A c \in Taken(conn) : conn[c].http \in DOMAIN connector /\ circuit[conn[c].circuit] # None
  /\ carried \in [Circuits -> SUBSET (1..groups)]

\* Values of one group share their client and their connection pool, values of
\* different groups share neither, however they were cloned, isolated from one
\* another or turned into RPC clients (lib.rs: "Cloning the returned value shares
\* that group").
GroupsAreClients ==
  \A h1, h2 \in Taken(handle) :
    /\ handle[h1].group = handle[h2].group <=> handle[h1].token = handle[h2].token
    /\ handle[h1].group = handle[h2].group <=> handle[h1].http = handle[h2].http

\* No circuit ever carries requests of two groups, whichever connections are kept
\* and reused after the values they were made with are gone (lib.rs: "its streams
\* do not share circuits with the parent or with any other isolated client").
Unlinkable == \A k \in Circuits : \A g1, g2 \in carried[k] : g1 = g2

\* A request travels on a connection to the host and port its URL names: those of
\* its scheme when it names none.
DefaultPort == [http |-> 80, https |-> 443]
ReachesEndpoint ==
  \A r \in Taken(request) : request[r].conn # None =>
    LET url == request[r].url
    IN  conn[request[r].conn].endpoint =
          [host |-> url.host, port |-> IF url.port = None THEN DefaultPort[url.scheme] ELSE url.port]

\* Seen from outside, the groups are sessions that keep to circuits of their own.
Sessions == INSTANCE IsolatedSessions WITH
              sessions <- groups,
              used <- [g \in 1..groups |-> {k \in Circuits : g \in carried[k]}]
ImplementsSessions == Sessions!Spec
===============================================================================
