------------------------------- MODULE ForkKit -------------------------------
(***************************************************************************)
(* The child processes that crates/fork-kit starts for tests: a bundler    *)
(* (alto.rs) and a relayer stack of redis, server and worker (relayer.rs). *)
(* A spawn tries one port after the other; it waits for a line of its      *)
(* child's output, or polls a port until something answers there, under a  *)
(* timeout.  Tests run side by side, are cancelled, and drop what they     *)
(* started; a process dies some time after it was killed.                  *)
(*                                                                         *)
(* A definition D_Suffix is D with a plausible bug.                        *)
(***************************************************************************)
EXTENDS Naturals, FiniteSets

CONSTANTS
  Altos,        \* the spawns of a bundler
  Relayers,     \* the spawns of a relayer stack
  Casts,        \* the sets of spawns that may run side by side
  AltoPort,     \* DEFAULT_PORT of alto.rs
  RelayerPort,  \* DEFAULT_PORT of relayer.rs
  MaxAttempts,  \* MAX_START_ATTEMPTS
  Foreign       \* ports on which something else may be listening

Builders == Altos \cup Relayers

ASSUME KitAssumption ==
  /\ Altos \cap Relayers = {} /\ Casts \subseteq SUBSET Builders
  /\ {AltoPort, RelayerPort, MaxAttempts} \subseteq Nat \ {0}
  /\ Foreign \subseteq Nat

VARIABLES
  taken,    \* the ports something else listens on
  phase,    \* where each spawn is
  attempt,  \* and which attempt it is at
  child,    \* what became of each of its children
  killed,   \* processes that were killed and still listen
  orphans   \* processes nobody will kill

vars == <<taken, phase, attempt, child, killed, orphans>>

Roles(b) == IF b \in Altos THEN {"alto"} ELSE {"redis", "server", "worker"}
Servers(b) == Roles(b) \ {"worker"}
PortOf(b, role) ==
  CASE role = "alto"   -> AltoPort + attempt[b] - 1
    [] role = "redis"  -> RelayerPort + attempt[b]
    [] role = "server" -> RelayerPort + attempt[b] - 1
    [] role = "worker" -> 0

\* The processes of b, each with the port it has bound, if it has: a worker never does.
Process(b, role) ==
  [by |-> b, role |-> role, port |-> IF child[b][role] = "up" THEN PortOf(b, role) ELSE 0]
Alive(b) == {Process(b, role) : role \in {r \in Roles(b) : child[b][r] \in {"starting", "up"}}}
Processes == (UNION {Alive(b) : b \in Builders}) \cup killed \cup orphans
               \cup {[by |-> "foreign", role |-> "any", port |-> p] : p \in taken}
On(port) == {process \in Processes : process.port = port}

NoChildren(b) == [role \in Roles(b) |-> "none"]

Init ==
  /\ taken \in SUBSET Foreign
  /\ \E cast \in Casts : phase = [b \in Builders |-> IF b \in cast THEN "idle" ELSE "ended"]
  /\ attempt = [b \in Builders |-> 1]
  /\ child = [b \in Builders |-> NoChildren(b)]
  /\ killed = {}
  /\ orphans = {}
-----------------------------------------------------------------------------
(* The processes themselves. *)

\* A server binds its port, and exits if another has it.
Start(b, role) ==
  /\ child[b][role] = "starting"
  /\ child' = [child EXCEPT ![b][role] = IF On(PortOf(b, role)) # {} THEN "unbound" ELSE "up"]
  /\ UNCHANGED <<taken, phase, attempt, killed, orphans>>

Crash(b, role) ==
  /\ role \in Servers(b) /\ child[b][role] = "up"
  /\ child' = [child EXCEPT ![b][role] = "crashed"]
  /\ UNCHANGED <<taken, phase, attempt, killed, orphans>>

\* A killed process is gone.
Die(process) ==
  /\ process \in killed
  /\ killed' = killed \ {process}
  /\ UNCHANGED <<taken, phase, attempt, child, orphans>>
-----------------------------------------------------------------------------
(* What becomes of the children of an attempt or an instance that ends. *)

\* Every command is given kill_on_drop: a child is killed when it is dropped.
KillOnDrop_Unset == FALSE
KillOnDrop == TRUE

\* start_kill is called for the children in toKill; all of them are dropped.  One
\* that is killed before it binds never does.
Discard(b, toKill) ==
  LET dropped == {process \in Alive(b) : process.role \notin toKill}
      kept == IF KillOnDrop THEN {} ELSE dropped
  IN  /\ killed' = killed \cup {process \in Alive(b) \ kept : process.port # 0}
      /\ orphans' = orphans \cup kept
      /\ child' = [child EXCEPT ![b] = NoChildren(b)]

\* spawn: the next attempt is one port further; the last one's error is returned.
LastAttempt_Beyond(b) == attempt[b] > MaxAttempts
LastAttempt(b) == attempt[b] = MaxAttempts
Fail(b, toKill) ==
  /\ Discard(b, toKill)
  /\ IF LastAttempt(b)
     THEN phase' = [phase EXCEPT ![b] = "failed"] /\ UNCHANGED attempt
     ELSE /\ phase' = [phase EXCEPT ![b] = "idle"]
          /\ attempt' = [attempt EXCEPT ![b] = @ + 1]
  /\ UNCHANGED taken

\* The children of b run on, and b goes on to the next phase.
Advance(b, to) ==
  /\ phase' = [phase EXCEPT ![b] = to]
  /\ UNCHANGED <<taken, attempt, child, killed, orphans>>

\* A command is started, or it can not be: an error at once, which drops the
\* children started before it.
Spawn(b, role, to) ==
  \/ /\ child' = [child EXCEPT ![b][role] = IF role = "worker" THEN "up" ELSE "starting"]
     /\ phase' = [phase EXCEPT ![b] = to]
     /\ UNCHANGED <<taken, attempt, killed, orphans>>
  \/ Fail(b, {})
-----------------------------------------------------------------------------
(* alto.rs: the child prints a line once its server has bound. *)

SpawnAlto(b) ==
  /\ b \in Altos /\ phase[b] = "idle"
  /\ Spawn(b, "alto", "starting")

\* The line is read from the child's own output; the child may have exited since.
Marked(b) == child[b]["alto"] \in {"up", "crashed"}
AltoReady(b) ==
  /\ b \in Altos /\ phase[b] = "starting"
  /\ Marked(b)
  /\ Advance(b, "running")

\* The child exits before it prints the line, or the time is up.
AltoFails(b) ==
  /\ b \in Altos /\ phase[b] = "starting"
  /\ Fail(b, {"alto"})
-----------------------------------------------------------------------------
(* relayer.rs: redis, until its port accepts, then the server and the worker, *)
(* until a relayer answers on the server's port.                              *)

SpawnRedis(b) ==
  /\ b \in Relayers /\ phase[b] = "idle"
  /\ Spawn(b, "redis", "redis")

\* wait_for_redis: a connection to the port succeeds, whoever accepts it.
RedisAccepts(b) ==
  /\ b \in Relayers /\ phase[b] = "redis"
  /\ On(PortOf(b, "redis")) # {}
  /\ Advance(b, "server")

\* wait_for_redis: its own deadline, READY_TIMEOUT after it began.
DeadlinePassed_Never == FALSE
DeadlinePassed == TRUE
RedisTimesOut(b) ==
  /\ b \in Relayers /\ phase[b] = "redis"
  /\ DeadlinePassed
  /\ Fail(b, {"redis"})

SpawnServer(b) ==
  /\ b \in Relayers /\ phase[b] = "server"
  /\ Spawn(b, "server", "worker")

SpawnWorker(b) ==
  /\ b \in Relayers /\ phase[b] = "worker"
  /\ Spawn(b, "worker", "starting")

\* wait_ready: a status is answered on the port, by whichever relayer's server
\* listens there; a server needs the redis it was given to answer.
Answers_Accepts(port) == On(port) # {}
Answers(port) ==
  /\ \E l \in On(port) : l.role = "server"
  /\ On(port + 1) # {}
RelayerReady(b) ==
  /\ b \in Relayers /\ phase[b] = "starting"
  /\ Answers(PortOf(b, "server"))
  /\ Advance(b, "running")

RelayerTimesOut(b) ==
  /\ b \in Relayers /\ phase[b] = "starting"
  /\ Fail(b, Roles(b))
-----------------------------------------------------------------------------
\* The test ends: the instance is dropped, which kills its children, or the spawn
\* under way is.
End(b) ==
  /\ phase[b] \notin {"ended", "failed"}
  /\ Discard(b, IF phase[b] = "running" THEN Roles(b) ELSE {})
  /\ phase' = [phase EXCEPT ![b] = "ended"]
  /\ UNCHANGED <<taken, attempt>>

Step(b) ==
  \/ SpawnAlto(b) \/ AltoReady(b) \/ AltoFails(b)
  \/ SpawnRedis(b) \/ RedisAccepts(b) \/ RedisTimesOut(b)
  \/ SpawnServer(b) \/ SpawnWorker(b) \/ RelayerReady(b) \/ RelayerTimesOut(b)

Next ==
  \/ \E b \in Builders : Step(b) \/ End(b) \/ \E role \in Roles(b) : Start(b, role) \/ Crash(b, role)
  \/ \E process \in killed : Die(process)

\* A spawn is polled and its timeouts pass, a test with its instance ends, and a
\* killed process dies.
Fairness ==
  /\ \A b \in Builders : WF_vars(Step(b)) /\ WF_vars(phase[b] = "running" /\ End(b))
  /\ WF_vars(\E process \in killed : Die(process))

Spec == Init /\ [][Next]_vars /\ Fairness
-----------------------------------------------------------------------------
\* Every variable has its type, and a port has one listener (Start).
TypeOK ==
  /\ taken \subseteq Foreign
  /\ phase \in [Builders -> {"idle", "redis", "server", "worker", "starting", "running", "failed", "ended"}]
  /\ attempt \in [Builders -> 1..MaxAttempts]
  /\ \A b \in Builders : child[b] \in [Roles(b) -> {"none", "starting", "up", "unbound", "crashed"}]
  /\ \A p, q \in Processes : p.port = q.port => p = q \/ p.port = 0

\* A bundler handed to a test is the test's own: whatever else listens on the ports
\* it tried, its own child has bound its port.  A relayer stack becomes ready while
\* nobody else is on its ports only if its own server and its own redis are up,
\* though neither wait names the process it waits for (try_spawn of alto.rs,
\* wait_for_redis and wait_ready of relayer.rs).
Strangers(b) == (UNION {On(PortOf(b, role)) : role \in Servers(b)}) \ Alive(b)
ReadyIsOwn ==
  /\ [](\A b \in Altos : phase[b] = "running" => child[b]["alto"] \in {"up", "crashed"})
  /\ [][\A b \in Relayers : RelayerReady(b) /\ Strangers(b) = {} =>
          \A role \in Servers(b) : child[b][role] = "up"]_vars

\* A spawn ends: an instance, or the error of the last attempt (spawn, try_spawn).
SpawnEnds ==
  \A b \in Builders : phase[b] = "idle" ~> phase[b] \in {"running", "failed", "ended"}

\* When all tests have ended, whatever they were cancelled in, none of the processes
\* they started runs on (kill_on_drop, Drop).
NothingLeft ==
  (\A b \in Builders : phase[b] \in {"failed", "ended"})
    ~> (killed \cup orphans = {} /\ \A b \in Builders : Alive(b) = {})
===============================================================================
