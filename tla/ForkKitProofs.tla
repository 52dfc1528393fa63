---------------------------- MODULE ForkKitProofs ----------------------------
(***************************************************************************)
(* Proofs about ForkKit: its types, that a port has one listener, that     *)
(* what a spawn hands to a test is the test's own, and that no process is  *)
(* ever left without somebody to kill it, for any spawns, ports and number *)
(* of attempts.                                                            *)
(*                                                                         *)
(* A listener is known by the port it has bound.  No step but Start gives  *)
(* a process a port, and none hands the port of one process to another:    *)
(* what an attempt leaves behind keeps the port it had, although the       *)
(* attempt that follows is one port further.                               *)
(***************************************************************************)
EXTENDS ForkKit, TLAPS

Phases == {"idle", "redis", "server", "worker", "starting", "running", "failed", "ended"}
Statuses == {"none", "starting", "up", "unbound", "crashed"}

SpawnsOK ==
  /\ taken \subseteq Foreign
  /\ phase \in [Builders -> Phases]
  /\ attempt \in [Builders -> 1..MaxAttempts]

ChildOK ==
  /\ child = [b \in Builders |-> child[b]]
  /\ \A b \in Builders : child[b] \in [Roles(b) -> Statuses]

PortsUnique == \A p, q \in Processes : p.port = q.port => p = q \/ p.port = 0

\* A bundler that runs has printed its line, and so has bound its port.
AltosUp == \A b \in Altos : phase[b] = "running" => child[b]["alto"] \in {"up", "crashed"}

NoOrphans == orphans = {}

IInv == SpawnsOK /\ ChildOK /\ PortsUnique /\ AltosUp /\ NoOrphans
-----------------------------------------------------------------------------
(* The operators. *)

LEMMA RolesOf ==
  ASSUME NEW b \in Builders
  PROVE  /\ b \in Altos => Roles(b) = {"alto"}
         /\ b \in Relayers => Roles(b) = {"redis", "server", "worker"}
BY KitAssumption DEF Roles, Builders

\* A process with a port is a child that is up, a killed one, an orphan or foreign.
Strays == killed \cup orphans \cup {[by |-> "foreign", role |-> "any", port |-> p] : p \in taken}
LEMMA ListenerCases ==
  ASSUME NEW p
  PROVE  p \in Processes /\ p.port # 0 <=>
           /\ p.port # 0
           /\ \/ p \in Strays
              \/ \E b \in Builders : \E role \in Roles(b) :
                   child[b][role] = "up" /\ p = [by |-> b, role |-> role, port |-> PortOf(b, role)]
<1>1. ASSUME p \in Processes, p.port # 0, p \notin Strays
      PROVE  \E b \in Builders : \E role \in Roles(b) :
               child[b][role] = "up" /\ p = [by |-> b, role |-> role, port |-> PortOf(b, role)]
  <2>1. PICK b \in Builders : p \in Alive(b)
    BY <1>1 DEF Processes, Strays
  <2>2. PICK role \in Roles(b) : p = Process(b, role)
    BY <2>1 DEF Alive
  <2>3. child[b][role] = "up"
    BY <1>1, <2>2 DEF Process
  <2> QED
    BY <2>2, <2>3 DEF Process
<1>2. ASSUME NEW b \in Builders, NEW role \in Roles(b), child[b][role] = "up",
             p = [by |-> b, role |-> role, port |-> PortOf(b, role)]
      PROVE  p \in Processes
  <2>1. p \in Alive(b)
    BY <1>2 DEF Alive, Process
  <2> QED
    BY <2>1 DEF Processes
<1>3. p \in Strays => p \in Processes
  BY DEF Strays, Processes
<1> QED
  BY <1>1, <1>2, <1>3

\* A step that gives no process a port keeps one listener to a port.
LEMMA NothingBinds ==
  ASSUME PortsUnique, \A p : p \in Processes' /\ p.port # 0 => p \in Processes
  PROVE  PortsUnique'
BY DEF PortsUnique

\* It is enough that no stray and no child that is up was not one before.
LEMMA StraysOrUp ==
  ASSUME PortsUnique,
         \A p : p \in Strays' /\ p.port # 0 => p \in Processes,
         \A b \in Builders : \A role \in Roles(b) :
           child'[b][role] = "up" /\ PortOf(b, role)' # 0
             => child[b][role] = "up" /\ PortOf(b, role)' = PortOf(b, role)
  PROVE  PortsUnique'
<1> SUFFICES ASSUME NEW p, p \in Processes', p.port # 0 PROVE p \in Processes
  BY NothingBinds
<1>1. CASE p \in Strays'
  BY <1>1
<1>2. CASE \E b \in Builders : \E role \in Roles(b) :
             child'[b][role] = "up" /\ p = [by |-> b, role |-> role, port |-> PortOf(b, role)']
  <2>0. PICK b \in Builders : \E role \in Roles(b) :
               child'[b][role] = "up" /\ p = [by |-> b, role |-> role, port |-> PortOf(b, role)']
    BY <1>2
  <2>1. PICK role \in Roles(b) :
               child'[b][role] = "up" /\ p = [by |-> b, role |-> role, port |-> PortOf(b, role)']
    BY <2>0
  <2>2. child[b][role] = "up" /\ p = [by |-> b, role |-> role, port |-> PortOf(b, role)]
    BY <2>1
  <2> QED
    BY <2>2, ListenerCases
<1>3. p \in Strays' \/ \E b \in Builders : \E role \in Roles(b) :
             child'[b][role] = "up" /\ p = [by |-> b, role |-> role, port |-> PortOf(b, role)']
  <2>1. CASE p \in Strays'
    BY <2>1
  <2>2. CASE p \notin Strays'
    <3>1. PICK b \in Builders : p \in Alive(b)'
      BY <2>2 DEF Processes, Strays
    <3>2. PICK role \in Roles(b) : p = Process(b, role)'
      BY <3>1 DEF Alive, Roles
    <3>3. child'[b][role] = "up"
      BY <3>2 DEF Process
    <3> QED
      BY <3>2, <3>3 DEF Process
  <2> QED
    BY <2>1, <2>2
<1> QED
  BY <1>1, <1>2, <1>3
-----------------------------------------------------------------------------
LEMMA InitIInv == Init => IInv
<1> SUFFICES ASSUME Init PROVE IInv
  OBVIOUS
<1> USE DEF Init
<1>1. SpawnsOK /\ NoOrphans
  BY KitAssumption DEF SpawnsOK, Phases, NoOrphans
<1>2. ChildOK
  BY DEF ChildOK, NoChildren, Statuses
<1>3. PortsUnique
  <2>1. ASSUME NEW p \in Processes, p.port # 0
        PROVE  p \in {[by |-> "foreign", role |-> "any", port |-> t] : t \in taken}
    <3>1. \A b \in Builders : \A role \in Roles(b) : child[b][role] # "up"
      BY DEF NoChildren
    <3> QED
      BY <2>1, <3>1, ListenerCases DEF Strays
  <2> QED
    BY <2>1 DEF PortsUnique
<1>4. AltosUp
  BY DEF AltosUp, Builders
<1> QED
  BY <1>1, <1>2, <1>3, <1>4 DEF IInv

\* What an attempt or an instance leaves behind is killed, and keeps its port.
LEMMA DiscardIInv ==
  ASSUME IInv, NEW b \in Builders, NEW toKill, Discard(b, toKill), SpawnsOK',
         phase' = [phase EXCEPT ![b] = phase'[b]], phase'[b] # "running",
         attempt' = [attempt EXCEPT ![b] = attempt'[b]], UNCHANGED taken
  PROVE  IInv'
<1>1. /\ killed' = killed \cup {process \in Alive(b) : process.port # 0}
      /\ orphans' = {}
      /\ child' = [child EXCEPT ![b] = NoChildren(b)]
  BY DEF Discard, KillOnDrop, IInv, NoOrphans
<1>2. ChildOK'
  BY <1>1 DEF IInv, ChildOK, NoChildren, Statuses
<1>3. child'[b] = NoChildren(b) /\ \A c \in Builders \ {b} : child'[c] = child[c]
  BY <1>1 DEF IInv, ChildOK
<1>4. \A c \in Builders \ {b} : phase'[c] = phase[c] /\ attempt'[c] = attempt[c]
  BY DEF IInv, SpawnsOK
<1>5. PortsUnique'
  <2>1. \A p : p \in Strays' /\ p.port # 0 => p \in Processes
    BY <1>1 DEF Strays, Processes
  <2>2. ASSUME NEW c \in Builders, NEW role \in Roles(c), child'[c][role] = "up"
        PROVE  child[c][role] = "up" /\ PortOf(c, role)' = PortOf(c, role)
    <3>1. c # b
      BY <1>3, <2>2 DEF NoChildren
    <3> QED
      BY <1>3, <1>4, <2>2, <3>1 DEF PortOf
  <2> QED
    BY <2>1, <2>2, StraysOrUp DEF IInv
<1>6. AltosUp'
  BY <1>3, <1>4 DEF IInv, AltosUp, Builders
<1> QED
  BY <1>1, <1>2, <1>5, <1>6 DEF IInv, NoOrphans

LEMMA FailIInv ==
  ASSUME IInv, NEW b \in Builders, NEW toKill, Fail(b, toKill)
  PROVE  IInv'
<1>1. Discard(b, toKill) /\ UNCHANGED taken
  BY DEF Fail
<1>2. CASE LastAttempt(b)
  <2>1. phase' = [phase EXCEPT ![b] = "failed"] /\ UNCHANGED attempt
    BY <1>2 DEF Fail
  <2>2. SpawnsOK' /\ phase'[b] = "failed" /\ attempt'[b] = attempt[b]
    BY <1>1, <2>1 DEF IInv, SpawnsOK, Phases
  <2>3. attempt' = [attempt EXCEPT ![b] = attempt'[b]]
    BY <2>1 DEF IInv, SpawnsOK
  <2> QED
    BY <1>1, <2>1, <2>2, <2>3, DiscardIInv
<1>3. CASE ~ LastAttempt(b)
  <2>1. phase' = [phase EXCEPT ![b] = "idle"] /\ attempt' = [attempt EXCEPT ![b] = attempt[b] + 1]
    BY <1>3 DEF Fail
  <2>2. attempt[b] + 1 \in 1..MaxAttempts
    BY <1>3, KitAssumption DEF IInv, SpawnsOK, LastAttempt
  <2>3. SpawnsOK' /\ phase'[b] = "idle" /\ attempt'[b] = attempt[b] + 1
    BY <1>1, <2>1, <2>2 DEF IInv, SpawnsOK, Phases
  <2> QED
    BY <1>1, <2>1, <2>3, DiscardIInv
<1> QED
  BY <1>2, <1>3

LEMMA EndIInv ==
  ASSUME IInv, NEW b \in Builders, End(b)
  PROVE  IInv'
<1>1. /\ \E toKill : Discard(b, toKill)
      /\ phase' = [phase EXCEPT ![b] = "ended"] /\ UNCHANGED <<taken, attempt>>
  BY DEF End
<1>2. SpawnsOK' /\ phase'[b] = "ended"
  BY <1>1 DEF IInv, SpawnsOK, Phases
<1>3. attempt' = [attempt EXCEPT ![b] = attempt'[b]]
  BY <1>1 DEF IInv, SpawnsOK
<1> QED
  BY <1>1, <1>2, <1>3, DiscardIInv

\* One phase follows another and the children run on; a bundler that becomes ready
\* has bound its port.
LEMMA AdvanceIInv ==
  ASSUME IInv, NEW b \in Builders, NEW to \in Phases, Advance(b, to),
         b \in Altos /\ to = "running" => child[b]["alto"] \in {"up", "crashed"}
  PROVE  IInv'
<1> USE DEF Advance
<1>1. SpawnsOK' /\ ChildOK' /\ NoOrphans'
  BY DEF IInv, SpawnsOK, ChildOK, NoOrphans
<1>2. PortsUnique'
  BY StraysOrUp, ListenerCases DEF IInv, Strays, PortOf, Processes
<1>3. AltosUp'
  BY DEF IInv, AltosUp, SpawnsOK, Builders
<1> QED
  BY <1>1, <1>2, <1>3 DEF IInv

\* One child of one spawn changes, and binds no port.
LEMMA ChildIInv ==
  ASSUME IInv, NEW b \in Builders, NEW role \in Roles(b), NEW status \in Statuses,
         child' = [child EXCEPT ![b][role] = status],
         status # "up" \/ role = "worker", SpawnsOK',
         phase'[b] # "running" \/ status = "crashed" \/ child[b][role] = "starting",
         phase' = [phase EXCEPT ![b] = phase'[b]], phase'[b] = "running" => phase[b] = "running",
         UNCHANGED <<taken, attempt, killed, orphans>>
  PROVE  IInv'
<1>1. ChildOK'
  BY DEF IInv, ChildOK
<1>2. /\ child'[b][role] = status
      /\ \A c \in Builders : \A r \in Roles(c) : c # b \/ r # role => child'[c][r] = child[c][r]
  BY DEF IInv, ChildOK
<1>3. PortsUnique'
  <2>1. \A p : p \in Strays' => p \in Processes
    BY DEF Strays, Processes
  <2>2. ASSUME NEW c \in Builders, NEW r \in Roles(c), child'[c][r] = "up", PortOf(c, r)' # 0
        PROVE  child[c][r] = "up" /\ PortOf(c, r)' = PortOf(c, r)
    <3>1. PortOf(c, r)' = PortOf(c, r)
      BY DEF PortOf
    <3>2. c # b \/ r # role
      BY <1>2, <2>2 DEF PortOf
    <3> QED
      BY <1>2, <2>2, <3>1, <3>2
  <2> QED
    BY <2>1, <2>2, StraysOrUp DEF IInv
<1>4. AltosUp'
  <2> SUFFICES ASSUME NEW a \in Altos, phase'[a] = "running"
               PROVE  child'[a]["alto"] \in {"up", "crashed"}
    BY DEF AltosUp
  <2>1. a \in Builders /\ "alto" \in Roles(a) /\ phase[a] = "running"
    BY RolesOf DEF Builders, IInv, SpawnsOK
  <2>2. child[a]["alto"] \in {"up", "crashed"}
    BY <2>1 DEF IInv, AltosUp
  <2> QED
    BY <1>2, <2>1, <2>2
<1> QED
  BY <1>1, <1>3, <1>4 DEF IInv, NoOrphans

LEMMA SpawnIInv ==
  ASSUME IInv, NEW b \in Builders, NEW role \in Roles(b), NEW to \in Phases \ {"running"},
         Spawn(b, role, to)
  PROVE  IInv'
<1>1. CASE Fail(b, {})
  BY <1>1, FailIInv
<1>2. CASE ~ Fail(b, {})
  <2> DEFINE status == IF role = "worker" THEN "up" ELSE "starting"
  <2>1. /\ child' = [child EXCEPT ![b][role] = status]
        /\ phase' = [phase EXCEPT ![b] = to]
        /\ UNCHANGED <<taken, attempt, killed, orphans>>
    BY <1>2 DEF Spawn
  <2>2. status \in Statuses /\ (status # "up" \/ role = "worker")
    BY DEF Statuses
  <2> HIDE DEF status
  <2>3. SpawnsOK' /\ phase'[b] = to
    BY <2>1 DEF IInv, SpawnsOK
  <2> QED
    BY <2>1, <2>2, <2>3, ChildIInv
<1> QED
  BY <1>1, <1>2

\* A server that binds has the port to itself.
LEMMA StartIInv ==
  ASSUME IInv, NEW b \in Builders, NEW role \in Roles(b), Start(b, role)
  PROVE  IInv'
<1>0. SpawnsOK' /\ phase' = [phase EXCEPT ![b] = phase'[b]] /\ UNCHANGED <<taken, phase, attempt, killed, orphans>>
  BY DEF Start, IInv, SpawnsOK
<1>1. CASE On(PortOf(b, role)) # {}
  <2>1. child' = [child EXCEPT ![b][role] = "unbound"] /\ child[b][role] = "starting"
    BY <1>1 DEF Start
  <2> QED
    BY <1>0, <2>1, ChildIInv DEF Statuses
<1>2. CASE On(PortOf(b, role)) = {}
  <2>1. child' = [child EXCEPT ![b][role] = "up"]
    BY <1>2 DEF Start
  <2>2. ChildOK'
    BY <2>1 DEF IInv, ChildOK, Statuses
  <2>3. /\ child'[b][role] = "up"
        /\ \A c \in Builders : \A r \in Roles(c) : c # b \/ r # role => child'[c][r] = child[c][r]
    BY <2>1 DEF IInv, ChildOK
  <2> DEFINE new == [by |-> b, role |-> role, port |-> PortOf(b, role)]
  <2>4. ASSUME NEW p \in Processes', p.port # 0
        PROVE  p \in Processes \/ p = new
    <3>1. CASE \E c \in Builders : p \in Alive(c)'
      <4>1. PICK c \in Builders : p \in Alive(c)'
        BY <3>1
      <4>2. PICK r \in Roles(c) : p = Process(c, r)'
        BY <4>1 DEF Alive, Roles
      <4>3. child'[c][r] = "up" /\ p = [by |-> c, role |-> r, port |-> PortOf(c, r)]
        BY <1>0, <2>4, <4>2 DEF Process, PortOf
      <4>4. CASE c = b /\ r = role
        BY <4>3, <4>4
      <4>5. CASE c # b \/ r # role
        BY <2>3, <2>4, <4>3, <4>5, ListenerCases
      <4> QED
        BY <4>4, <4>5
    <3>2. CASE ~ \E c \in Builders : p \in Alive(c)'
      BY <1>0, <2>4, <3>2 DEF Processes
    <3> QED
      BY <3>1, <3>2
  <2>5. \A p \in Processes : p.port # new.port
    BY <1>2 DEF On
  <2> HIDE DEF new
  <2>6. PortsUnique'
    BY <2>4, <2>5 DEF IInv, PortsUnique
  <2>7. AltosUp'
    <3> SUFFICES ASSUME NEW a \in Altos, phase'[a] = "running"
                 PROVE  child'[a]["alto"] \in {"up", "crashed"}
      BY DEF AltosUp
    <3>1. a \in Builders /\ "alto" \in Roles(a) /\ child[a]["alto"] \in {"up", "crashed"}
      BY <1>0, RolesOf DEF Builders, IInv, AltosUp
    <3> QED
      BY <2>3, <3>1
  <2> QED
    BY <1>0, <2>2, <2>6, <2>7 DEF IInv, NoOrphans
<1> QED
  BY <1>1, <1>2

LEMMA NextIInv == IInv /\ [Next]_vars => IInv'
<1> SUFFICES ASSUME IInv, [Next]_vars PROVE IInv'
  OBVIOUS
<1>1. ASSUME NEW b \in Builders, Step(b) PROVE IInv'
  <2>1. CASE SpawnAlto(b)
    <3>1. "alto" \in Roles(b)
      BY <2>1, RolesOf DEF SpawnAlto
    <3> QED
      BY <2>1, <3>1, SpawnIInv DEF SpawnAlto, Phases
  <2>2. CASE AltoReady(b)
    BY <2>2, AdvanceIInv DEF AltoReady, Marked, Phases
  <2>3. CASE AltoFails(b)
    BY <2>3, FailIInv DEF AltoFails
  <2>4. CASE SpawnRedis(b)
    <3>1. "redis" \in Roles(b)
      BY <2>4, RolesOf DEF SpawnRedis
    <3> QED
      BY <2>4, <3>1, SpawnIInv DEF SpawnRedis, Phases
  <2>5. CASE RedisAccepts(b)
    BY <2>5, AdvanceIInv DEF RedisAccepts, Phases
  <2>6. CASE RedisTimesOut(b)
    BY <2>6, FailIInv DEF RedisTimesOut
  <2>7. CASE SpawnServer(b)
    <3>1. "server" \in Roles(b)
      BY <2>7, RolesOf DEF SpawnServer
    <3> QED
      BY <2>7, <3>1, SpawnIInv DEF SpawnServer, Phases
  <2>8. CASE SpawnWorker(b)
    <3>1. "worker" \in Roles(b)
      BY <2>8, RolesOf DEF SpawnWorker
    <3> QED
      BY <2>8, <3>1, SpawnIInv DEF SpawnWorker, Phases
  <2>9. CASE RelayerReady(b)
    <3>1. b \notin Altos
      BY <2>9, KitAssumption DEF RelayerReady
    <3> QED
      BY <2>9, <3>1, AdvanceIInv DEF RelayerReady, Phases
  <2>10. CASE RelayerTimesOut(b)
    BY <2>10, FailIInv DEF RelayerTimesOut
  <2> QED
    BY <1>1, <2>1, <2>2, <2>3, <2>4, <2>5, <2>6, <2>7, <2>8, <2>9, <2>10 DEF Step
<1>2. ASSUME NEW b \in Builders, End(b) PROVE IInv'
  BY <1>2, EndIInv
<1>3. ASSUME NEW b \in Builders, NEW role \in Roles(b), Start(b, role) PROVE IInv'
  BY <1>3, StartIInv
<1>4. ASSUME NEW b \in Builders, NEW role \in Roles(b), Crash(b, role) PROVE IInv'
  <2>1. SpawnsOK' /\ phase' = [phase EXCEPT ![b] = phase'[b]] /\ phase' = phase
    BY <1>4 DEF Crash, IInv, SpawnsOK
  <2> QED
    BY <1>4, <2>1, ChildIInv DEF Crash, Statuses
<1>5. ASSUME NEW process \in killed, Die(process) PROVE IInv'
  <2>1. SpawnsOK' /\ ChildOK' /\ AltosUp' /\ NoOrphans'
    BY <1>5 DEF Die, IInv, SpawnsOK, ChildOK, AltosUp, NoOrphans
  <2>2. \A p : p \in Strays' => p \in Processes
    BY <1>5 DEF Die, Strays, Processes
  <2>3. PortsUnique'
    BY <1>5, <2>2, StraysOrUp DEF Die, IInv, PortOf
  <2> QED
    BY <2>1, <2>3 DEF IInv
<1>6. CASE UNCHANGED vars
  <2>1. SpawnsOK' /\ ChildOK' /\ AltosUp' /\ NoOrphans'
    BY <1>6 DEF vars, IInv, SpawnsOK, ChildOK, AltosUp, NoOrphans
  <2>2. \A p : p \in Strays' => p \in Processes
    BY <1>6 DEF vars, Strays, Processes
  <2>3. PortsUnique'
    BY <1>6, <2>2, StraysOrUp DEF vars, IInv, PortOf
  <2> QED
    BY <2>1, <2>3 DEF IInv
<1> QED
  BY <1>1, <1>2, <1>3, <1>4, <1>5, <1>6 DEF Next

THEOREM Invariance == Spec => []IInv
BY InitIInv, NextIInv, PTL DEF Spec
-----------------------------------------------------------------------------
\* Every variable has its type, and no two processes, of whichever spawn and whether
\* killed or running, listen on one port.
THEOREM TypeCorrect == Spec => []TypeOK
<1>1. IInv => TypeOK
  BY DEF IInv, SpawnsOK, Phases, ChildOK, Statuses, PortsUnique, TypeOK
<1> QED
  BY Invariance, <1>1, PTL

\* No process is left without a handle that kills it (kill_on_drop, Drop).
THEOREM NothingOrphaned == Spec => []NoOrphans
BY Invariance, PTL DEF IInv

\* A bundler that is handed to a test has bound its port itself; and a relayer stack
\* becomes ready, while nobody else is on its ports, only when its own server and
\* its own redis are up.
THEOREM ReadyIsOwnHolds == Spec => ReadyIsOwn
<1>1. IInv => AltosUp
  BY DEF IInv
<1>2. IInv =>
        \A b \in Relayers : RelayerReady(b) /\ Strangers(b) = {} =>
           \A role \in Servers(b) : child[b][role] = "up"
  <2> SUFFICES ASSUME IInv, NEW b \in Relayers, RelayerReady(b), Strangers(b) = {},
                      NEW role \in Servers(b)
               PROVE  child[b][role] = "up"
    OBVIOUS
  <2> DEFINE port == PortOf(b, "server")
  <2>1. b \in Builders /\ Roles(b) = {"redis", "server", "worker"}
    BY RolesOf DEF Builders
  <2>2. attempt[b] \in Nat /\ attempt[b] >= 1
    BY <2>1 DEF IInv, SpawnsOK
  <2>3. /\ port = RelayerPort + attempt[b] - 1 /\ PortOf(b, "redis") = RelayerPort + attempt[b]
        /\ PortOf(b, "worker") = 0
    BY DEF PortOf
  <2>4. RelayerPort \in Nat \ {0}
    BY KitAssumption
  <2>5. port \in Nat /\ port # 0 /\ PortOf(b, "redis") = port + 1
    BY <2>2, <2>3, <2>4
  <2>6. Servers(b) = {"redis", "server"}
    BY <2>1 DEF Servers
  <2>7. \A r \in Servers(b) : On(PortOf(b, r)) \subseteq Alive(b)
    BY DEF Strangers
  <2>8. \A p \in Alive(b) : p.port # 0 =>
          \E r \in Roles(b) : child[b][r] = "up" /\ p.role = r /\ p.port = PortOf(b, r)
    BY DEF Alive, Process
  <2>9. CASE role = "server"
    <3>1. PICK l \in On(port) : l.role = "server"
      BY DEF RelayerReady, Answers
    <3>2. l \in Alive(b) /\ l.port = port
      BY <2>6, <2>7, <3>1 DEF On
    <3> QED
      BY <2>5, <2>8, <2>9, <3>1, <3>2
  <2>10. CASE role = "redis"
    <3>1. PICK l : l \in On(PortOf(b, "redis"))
      BY <2>5 DEF RelayerReady, Answers
    <3>2. l \in Alive(b) /\ l.port = port + 1
      BY <2>5, <2>6, <2>7, <3>1 DEF On
    <3>3. PICK r \in Roles(b) : child[b][r] = "up" /\ l.port = PortOf(b, r)
      BY <2>5, <2>8, <3>2
    <3>4. r = "redis"
      BY <2>1, <2>3, <2>5, <3>2, <3>3
    <3> QED
      BY <2>10, <3>3, <3>4
  <2> QED
    BY <2>6, <2>9, <2>10
<1> QED
  BY Invariance, <1>1, <1>2, PTL DEF ReadyIsOwn, AltosUp, Spec
=============================================================================
