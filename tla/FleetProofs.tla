----------------------------- MODULE FleetProofs -----------------------------
(***************************************************************************)
(* Theorems about the machines of a server, for any machines, materials    *)
(* and clients, any number of edits, crashes and files that cannot be      *)
(* written or removed.                                                     *)
(*                                                                         *)
(* Four copies of a configuration are written by hands that do not wait    *)
(* for each other.  The invariant says of each machine what its copies and *)
(* rows have to do with each other in every state of its actor             *)
(* (MachineOK), and of each client's form, with the copies it was filled   *)
(* in from (EditOK).                                                       *)
(***************************************************************************)
EXTENDS MachineFleet, TLAPS

Fields == {"none", "name", "pluginVersion", "video", "material", "feed", "toolVersion"}

IsConfig(config) ==
  \/ config = NoConfig
  \/ /\ DOMAIN config = Fields /\ ~config.none
     /\ config.name \in Nat /\ config.pluginVersion \in Nat /\ config.toolVersion \in Nat
     /\ config.feed \in Int /\ config.material \in Materials \cup {NoMaterial}

RequestOK(r) ==
  /\ r.op \in {"none", "edit", "material"}
  /\ r.op = "edit" =>
       /\ DOMAIN r = {"op", "step", "machine", "seen", "change", "value"}
       /\ r.machine \in Machines /\ IsConfig(r.seen) /\ ~r.seen.none
       /\ r.step \in {"read", "sent"}
       /\ r.step = "sent" =>
            /\ r.change \in {"name", "video", "tool", "load"}
            /\ r.change = "name" => r.value \in Nat
            /\ r.change \in {"tool", "load"} => r.value \in Materials \cup {NoMaterial}
  /\ r.op = "material" =>
       /\ DOMAIN r = {"op", "step", "material", "read", "todo"}
       /\ r.material \in Materials /\ r.todo \subseteq Machines
       /\ r.step \in {"read", "hooks"}

FleetTyped ==
  /\ DOMAIN files = Machines /\ DOMAIN memories = Machines /\ DOMAIN drivers = Machines
  /\ \A m \in Machines : IsConfig(files[m]) /\ IsConfig(memories[m]) /\ IsConfig(drivers[m])
  /\ DOMAIN targets = Machines /\ DOMAIN registered = Machines /\ DOMAIN late = Machines
  /\ actors \in [Machines -> {"absent", "starting", "up", "stopping", "noop"}]
  /\ resolvers \in [Machines -> {"unused", "no", "saved", "committed", "started", "removing"}]
  /\ queues \in [Machines -> {0, 1}]
  /\ sockets \in [Machines -> {"down", "up", "closed"}]
  /\ resets \in [Machines -> SUBSET {"mail", "driver"}]
  /\ served \subseteq Machines
  /\ DOMAIN materials = Materials
  /\ DOMAIN clients = Clients /\ \A c \in Clients : RequestOK(clients[c])
  /\ history \in [{"failed", "cut", "kept", "revived", "skipped", "deleted", "blind"}
                    -> SUBSET Machines]

-----------------------------------------------------------------------------
Used(config) == <<config.name, config.video, config.feed>>

\* The driver runs with the file's configuration, or has been told to reset.
Fits(m) ==
  \/ Used(drivers[m]) = Used(files[m]) \/ "driver" \in resets[m]
  \/ m \in history.cut \cup history.deleted \cup history.failed

\* The actor has data only while it is up; a machine that is not deleted has had
\* its file ever since it was made.
ActorOK(m) ==
  /\ actors[m] \in {"absent", "starting", "noop"} => memories[m].none
  /\ actors[m] = "up" => ~files[m].none /\ queues[m] = 1
  /\ actors[m] = "stopping" => m \in history.deleted
  /\ files[m].none /\ m \notin history.deleted =>
       memories[m].none /\ drivers[m].none /\ queues[m] = 0
  /\ resolvers[m] \in {"saved", "committed"} => actors[m] = "absent"
  /\ resolvers[m] = "saved" => queues[m] = 0 /\ ~files[m].none

\* The copies agree while nothing has failed.
CopiesOK(m) ==
  /\ m \notin history.failed /\ ~memories[m].none /\ ~files[m].none =>
       memories[m] = files[m]
  /\ resolvers[m] # "saved" /\ m \notin history.cut \cup history.failed =>
       /\ ~files[m].none => registered[m] = files[m].name
       /\ ~memories[m].none => registered[m] = memories[m].name
  /\ ~files[m].none /\ m \in history.deleted => m \in history.kept \cup history.revived

\* A reset that is still in the mailbox reaches the driver, as long as the socket
\* is up; without one no driver runs that edits could leave behind.
DriverOK(m) ==
  /\ sockets[m] = "closed" => drivers[m].none
  /\ ~memories[m].none /\ sockets[m] # "up" => drivers[m].none \/ m \in history.deleted
  /\ ~files[m].none /\ ~drivers[m].none =>
       Fits(m) \/ ("mail" \in resets[m] /\ sockets[m] = "up")

MachineOK(m) == ActorOK(m) /\ CopiesOK(m) /\ DriverOK(m)

\* A later configuration than the one that was seen has a later version wherever
\* it differs.
Seen(seen, config) ==
  /\ seen.pluginVersion <= config.pluginVersion
  /\ seen.pluginVersion = config.pluginVersion => seen.name = config.name
  /\ seen.toolVersion <= config.toolVersion
  /\ seen.toolVersion = config.toolVersion =>
       seen.material = config.material /\ seen.feed = config.feed

EditOK(c) ==
  clients[c].op = "edit" =>
    LET m == clients[c].machine IN
    /\ files[m].none => m \in history.deleted
    /\ m \notin history.failed =>
         /\ ~memories[m].none => Seen(clients[c].seen, memories[m])
         /\ ~files[m].none => Seen(clients[c].seen, files[m])

\* The target is that of the material, or is about to be looked up.
TargetOK(m) ==
  Configured(m) =>
    \/ targets[m] = TargetOf(memories[m])
    \/ m \in history.skipped
    \/ \E c \in Clients : /\ clients[c].op = "material" /\ clients[c].step = "hooks"
                          /\ m \in clients[c].todo
                          /\ clients[c].material = memories[m].material

FleetInv ==
  /\ FleetTyped
  /\ \A m \in Machines : MachineOK(m) /\ TargetOK(m)
  /\ \A c \in Clients : EditOK(c)
  /\ NothingOverwrittenUnseen

(***************************************************************************)
(* What a step leaves alone.                                               *)
(***************************************************************************)
\* A step that m has no part in.
Aside(m) ==
  /\ files'[m] = files[m] /\ memories'[m] = memories[m] /\ drivers'[m] = drivers[m]
  /\ actors'[m] = actors[m] /\ resolvers'[m] = resolvers[m]
  /\ queues'[m] = queues[m] /\ registered'[m] = registered[m]
  /\ sockets'[m] = sockets[m] /\ resets'[m] = resets[m]
  /\ m \in history'.deleted <=> m \in history.deleted

\* What is excused stays excused.
Excuses ==
  /\ history.failed \subseteq history'.failed /\ history.cut \subseteq history'.cut
  /\ history.kept \subseteq history'.kept /\ history.revived \subseteq history'.revived
  /\ history.deleted \subseteq history'.deleted

LEMMA MachineAside ==
  ASSUME NEW m, MachineOK(m), Aside(m), Excuses
  PROVE  MachineOK(m)'
<1>1. ActorOK(m)'
  BY DEF MachineOK, ActorOK, Aside, Excuses
<1>2. CopiesOK(m)'
  BY DEF MachineOK, CopiesOK, Aside, Excuses
<1>3. DriverOK(m)'
  BY DEF MachineOK, DriverOK, Fits, Used, Aside, Excuses
<1>4. QED BY <1>1, <1>2, <1>3 DEF MachineOK

LEMMA EditAside ==
  ASSUME NEW c, EditOK(c), clients'[c] = clients[c] \/ clients'[c].op # "edit", Excuses,
         clients[c].op = "edit" => LET m == clients[c].machine IN
           /\ files'[m] = files[m]
           /\ memories'[m] = memories[m] \/ memories'[m].none
  PROVE  EditOK(c)'
BY DEF EditOK, Excuses, Seen

LEMMA TargetAside ==
  ASSUME NEW m, TargetOK(m), UNCHANGED <<materials, clients>>,
         targets'[m] = targets[m], memories'[m] = memories[m] \/ memories'[m].none,
         m \in history.skipped => m \in history'.skipped
  PROVE  TargetOK(m)'
BY DEF TargetOK, TargetOf, Configured

\* A step of one machine, which tells no other of it.
LEMMA OneMachine ==
  ASSUME FleetInv, NEW m \in Machines, FleetTyped', Excuses, MachineOK(m)',
         \A n \in Machines \ {m} : Aside(n),
         \A c \in Clients : EditOK(c)',
         \A n \in Machines : TargetOK(n)',
         history'.blind = history.blind
  PROVE  FleetInv'
<1>1. \A n \in Machines : MachineOK(n)'
  BY MachineAside DEF FleetInv
<1>2. NothingOverwrittenUnseen'
  BY DEF FleetInv, NothingOverwrittenUnseen, Excuses
<1>3. QED BY <1>1, <1>2 DEF FleetInv

-----------------------------------------------------------------------------
(***************************************************************************)
(* The actor and its driver.                                               *)
(***************************************************************************)
-----------------------------------------------------------------------------
(***************************************************************************)
(* The actor and its driver, and the resolvers.                            *)
(***************************************************************************)
LEMMA StartSafe ==
  ASSUME FleetInv, NEW m \in Machines, StartMachine(m)
  PROVE  FleetInv'
<1>1. FleetTyped'
  BY DEF StartMachine, FleetInv, FleetTyped, IsConfig, WithQueueEnsured, WithQueue, configVars, driverVars
<1>2. UNCHANGED <<materials, clients, history, files, memories, targets>>
  BY DEF StartMachine, FleetInv, FleetTyped, NoConfig, WithQueueEnsured, WithQueue, configVars, driverVars
<1>3. Excuses /\ history'.blind = history.blind
  BY <1>2 DEF Excuses, FleetInv, FleetTyped
<1>4. \A n \in Machines \ {m} : Aside(n)
  BY <1>2 DEF StartMachine, Aside, FleetInv, FleetTyped, WithQueueEnsured, WithQueue, configVars, driverVars
<1>5. MachineOK(m)'
  <2>1. ActorOK(m)'
    BY DEF StartMachine, FleetInv, FleetTyped, MachineOK, ActorOK, NoConfig, WithQueueEnsured, WithQueue, configVars, driverVars
  <2>2. CopiesOK(m)'
    BY DEF StartMachine, FleetInv, FleetTyped, MachineOK, ActorOK, CopiesOK, NoConfig, WithQueueEnsured, WithQueue, configVars, driverVars
  <2>3. DriverOK(m)'
    BY DEF StartMachine, FleetInv, FleetTyped, MachineOK, ActorOK, DriverOK, Fits, Used,
       NoConfig, WithQueueEnsured, WithQueue, configVars, driverVars
  <2>4. QED BY <2>1, <2>2, <2>3 DEF MachineOK
<1>6. \A c \in Clients : EditOK(c)'
  BY <1>2, <1>3, EditAside DEF FleetInv, FleetTyped, RequestOK
<1>7. \A n \in Machines : TargetOK(n)'
  BY <1>2, TargetAside DEF FleetInv
<1>8. QED BY <1>1, <1>3, <1>4, <1>5, <1>6, <1>7, OneMachine

LEMMA DriverExitsSafe ==
  ASSUME FleetInv, NEW m \in Machines, DriverExits(m)
  PROVE  FleetInv'
<1>1. FleetTyped'
  BY DEF DriverExits, FleetInv, FleetTyped, IsConfig, configVars, actorVars, rowVars
<1>2. UNCHANGED <<materials, clients, history, files, memories, targets>>
  BY DEF DriverExits, FleetInv, FleetTyped, NoConfig, configVars, actorVars, rowVars
<1>3. Excuses /\ history'.blind = history.blind
  BY <1>2 DEF Excuses, FleetInv, FleetTyped
<1>4. \A n \in Machines \ {m} : Aside(n)
  BY <1>2 DEF DriverExits, Aside, FleetInv, FleetTyped, configVars, actorVars, rowVars
<1>5. MachineOK(m)'
  <2>1. ActorOK(m)'
    BY DEF DriverExits, FleetInv, FleetTyped, MachineOK, ActorOK, NoConfig, configVars, actorVars, rowVars
  <2>2. CopiesOK(m)'
    BY DEF DriverExits, FleetInv, FleetTyped, MachineOK, ActorOK, CopiesOK, NoConfig, configVars, actorVars, rowVars
  <2>3. DriverOK(m)'
    BY DEF DriverExits, FleetInv, FleetTyped, MachineOK, ActorOK, DriverOK, Fits, Used,
       NoConfig, configVars, actorVars, rowVars
  <2>4. QED BY <2>1, <2>2, <2>3 DEF MachineOK
<1>6. \A c \in Clients : EditOK(c)'
  BY <1>2, <1>3, EditAside DEF FleetInv, FleetTyped, RequestOK
<1>7. \A n \in Machines : TargetOK(n)'
  BY <1>2, TargetAside DEF FleetInv
<1>8. QED BY <1>1, <1>3, <1>4, <1>5, <1>6, <1>7, OneMachine

LEMMA SendResetSafe ==
  ASSUME FleetInv, NEW m \in Machines, SendReset(m)
  PROVE  FleetInv'
<1>1. FleetTyped'
  BY DEF SendReset, FleetInv, FleetTyped, IsConfig, rowVars
<1>2. /\ UNCHANGED <<materials, clients, history, files, targets>>
      /\ \A n \in Machines : memories'[n] = memories[n] \/ memories'[n].none
  BY DEF SendReset, FleetInv, FleetTyped, NoConfig, rowVars
<1>3. Excuses /\ history'.blind = history.blind
  BY <1>2 DEF Excuses, FleetInv, FleetTyped
<1>4. \A n \in Machines \ {m} : Aside(n)
  BY <1>2 DEF SendReset, Aside, FleetInv, FleetTyped, rowVars
<1>5. MachineOK(m)'
  <2>1. ActorOK(m)'
    BY DEF SendReset, FleetInv, FleetTyped, MachineOK, ActorOK, NoConfig, rowVars
  <2>2. CopiesOK(m)'
    BY DEF SendReset, FleetInv, FleetTyped, MachineOK, ActorOK, CopiesOK, NoConfig, rowVars
  <2>3. DriverOK(m)'
    BY DEF SendReset, FleetInv, FleetTyped, MachineOK, ActorOK, DriverOK, Fits, Used,
       NoConfig, rowVars
  <2>4. QED BY <2>1, <2>2, <2>3 DEF MachineOK
<1>6. \A c \in Clients : EditOK(c)'
  BY <1>2, <1>3, EditAside DEF FleetInv, FleetTyped, RequestOK
<1>7. \A n \in Machines : TargetOK(n)'
  BY <1>2, TargetAside DEF FleetInv
<1>8. QED BY <1>1, <1>3, <1>4, <1>5, <1>6, <1>7, OneMachine

LEMMA AddDeviceSafe ==
  ASSUME FleetInv, NEW m \in Machines, AddDevice(m)
  PROVE  FleetInv'
<1>1. FleetTyped'
  BY DEF AddDevice, FleetInv, FleetTyped, IsConfig, configVars, actorVars, rowVars
<1>2. UNCHANGED <<materials, clients, history, files, memories, targets>>
  BY DEF AddDevice, FleetInv, FleetTyped, NoConfig, configVars, actorVars, rowVars
<1>3. Excuses /\ history'.blind = history.blind
  BY <1>2 DEF Excuses, FleetInv, FleetTyped
<1>4. \A n \in Machines \ {m} : Aside(n)
  BY <1>2 DEF AddDevice, Aside, FleetInv, FleetTyped, configVars, actorVars, rowVars
<1>5. MachineOK(m)'
  <2>1. ActorOK(m)'
    BY DEF AddDevice, FleetInv, FleetTyped, MachineOK, ActorOK, NoConfig, configVars, actorVars, rowVars
  <2>2. CopiesOK(m)'
    BY DEF AddDevice, FleetInv, FleetTyped, MachineOK, ActorOK, CopiesOK, NoConfig, configVars, actorVars, rowVars
  <2>3. DriverOK(m)'
    BY DEF AddDevice, FleetInv, FleetTyped, MachineOK, ActorOK, DriverOK, Fits, Used,
       NoConfig, configVars, actorVars, rowVars
  <2>4. QED BY <2>1, <2>2, <2>3 DEF MachineOK
<1>6. \A c \in Clients : EditOK(c)'
  BY <1>2, <1>3, EditAside DEF FleetInv, FleetTyped, RequestOK
<1>7. \A n \in Machines : TargetOK(n)'
  BY <1>2, TargetAside DEF FleetInv
<1>8. QED BY <1>1, <1>3, <1>4, <1>5, <1>6, <1>7, OneMachine

LEMMA StopActorSafe ==
  ASSUME FleetInv, NEW m \in Machines, StopMachineActor(m)
  PROVE  FleetInv'
<1>1. FleetTyped'
  BY DEF StopMachineActor, FleetInv, FleetTyped, IsConfig, rowVars
<1>2. /\ UNCHANGED <<materials, clients, history, files, targets>>
      /\ \A n \in Machines : memories'[n] = memories[n] \/ memories'[n].none
  BY DEF StopMachineActor, FleetInv, FleetTyped, NoConfig, rowVars
<1>3. Excuses /\ history'.blind = history.blind
  BY <1>2 DEF Excuses, FleetInv, FleetTyped
<1>4. \A n \in Machines \ {m} : Aside(n)
  BY <1>2 DEF StopMachineActor, Aside, FleetInv, FleetTyped, rowVars
<1>5. MachineOK(m)'
  <2>1. ActorOK(m)'
    BY DEF StopMachineActor, FleetInv, FleetTyped, MachineOK, ActorOK, NoConfig, rowVars
  <2>2. CopiesOK(m)'
    BY DEF StopMachineActor, FleetInv, FleetTyped, MachineOK, ActorOK, CopiesOK, NoConfig, rowVars
  <2>3. DriverOK(m)'
    BY DEF StopMachineActor, FleetInv, FleetTyped, MachineOK, ActorOK, DriverOK, Fits, Used,
       NoConfig, rowVars
  <2>4. QED BY <2>1, <2>2, <2>3 DEF MachineOK
<1>6. \A c \in Clients : EditOK(c)'
  BY <1>2, <1>3, EditAside DEF FleetInv, FleetTyped, RequestOK
<1>7. \A n \in Machines : TargetOK(n)'
  BY <1>2, TargetAside DEF FleetInv
<1>8. QED BY <1>1, <1>3, <1>4, <1>5, <1>6, <1>7, OneMachine

LEMMA CreateCommitsSafe ==
  ASSUME FleetInv, NEW m \in Machines, CreateCommits(m)
  PROVE  FleetInv'
<1>1. FleetTyped'
  BY DEF CreateCommits, FleetInv, FleetTyped, MachineOK, ActorOK, IsConfig, WithQueue,
     Registered, configVars, driverVars
<1>2. UNCHANGED <<materials, clients, history, files, memories, targets>>
  BY DEF CreateCommits, FleetInv, FleetTyped, NoConfig, WithQueue, Registered, configVars, driverVars
<1>3. Excuses /\ history'.blind = history.blind
  BY <1>2 DEF Excuses, FleetInv, FleetTyped
<1>4. \A n \in Machines \ {m} : Aside(n)
  BY <1>2 DEF CreateCommits, Aside, FleetInv, FleetTyped, WithQueue, Registered, configVars, driverVars
<1>5. MachineOK(m)'
  <2>1. ActorOK(m)'
    BY DEF CreateCommits, FleetInv, FleetTyped, MachineOK, ActorOK, NoConfig, WithQueue, Registered, configVars, driverVars
  <2>2. CopiesOK(m)'
    BY DEF CreateCommits, FleetInv, FleetTyped, MachineOK, ActorOK, CopiesOK, NoConfig, WithQueue, Registered, configVars, driverVars
  <2>3. DriverOK(m)'
    BY DEF CreateCommits, FleetInv, FleetTyped, MachineOK, ActorOK, DriverOK, Fits, Used,
       NoConfig, WithQueue, Registered, configVars, driverVars
  <2>4. QED BY <2>1, <2>2, <2>3 DEF MachineOK
<1>6. \A c \in Clients : EditOK(c)'
  BY <1>2, <1>3, EditAside DEF FleetInv, FleetTyped, RequestOK
<1>7. \A n \in Machines : TargetOK(n)'
  BY <1>2, TargetAside DEF FleetInv
<1>8. QED BY <1>1, <1>3, <1>4, <1>5, <1>6, <1>7, OneMachine

LEMMA CreateStartsSafe ==
  ASSUME FleetInv, NEW m \in Machines, CreateStarts(m)
  PROVE  FleetInv'
<1>1. FleetTyped'
  BY DEF CreateStarts, FleetInv, FleetTyped, IsConfig, configVars, rowVars, driverVars
<1>2. UNCHANGED <<materials, clients, history, files, memories, targets>>
  BY DEF CreateStarts, FleetInv, FleetTyped, NoConfig, configVars, rowVars, driverVars
<1>3. Excuses /\ history'.blind = history.blind
  BY <1>2 DEF Excuses, FleetInv, FleetTyped
<1>4. \A n \in Machines \ {m} : Aside(n)
  BY <1>2 DEF CreateStarts, Aside, FleetInv, FleetTyped, configVars, rowVars, driverVars
<1>5. MachineOK(m)'
  <2>1. ActorOK(m)'
    BY DEF CreateStarts, FleetInv, FleetTyped, MachineOK, ActorOK, NoConfig, configVars, rowVars, driverVars
  <2>2. CopiesOK(m)'
    BY DEF CreateStarts, FleetInv, FleetTyped, MachineOK, ActorOK, CopiesOK, NoConfig, configVars, rowVars, driverVars
  <2>3. DriverOK(m)'
    BY DEF CreateStarts, FleetInv, FleetTyped, MachineOK, ActorOK, DriverOK, Fits, Used,
       NoConfig, configVars, rowVars, driverVars
  <2>4. QED BY <2>1, <2>2, <2>3 DEF MachineOK
<1>6. \A c \in Clients : EditOK(c)'
  BY <1>2, <1>3, EditAside DEF FleetInv, FleetTyped, RequestOK
<1>7. \A n \in Machines : TargetOK(n)'
  BY <1>2, TargetAside DEF FleetInv
<1>8. QED BY <1>1, <1>3, <1>4, <1>5, <1>6, <1>7, OneMachine

LEMMA ServeSafe ==
  ASSUME FleetInv, NEW m \in Machines, Serve(m)
  PROVE  FleetInv'
<1>1. FleetTyped'
  BY DEF Serve, FleetInv, FleetTyped, IsConfig, configVars, rowVars, driverVars
<1>2. UNCHANGED <<materials, clients, history, files, memories, targets>>
  BY DEF Serve, FleetInv, FleetTyped, NoConfig, configVars, rowVars, driverVars
<1>3. Excuses /\ history'.blind = history.blind
  BY <1>2 DEF Excuses, FleetInv, FleetTyped
<1>4. \A n \in Machines \ {m} : Aside(n)
  BY <1>2 DEF Serve, Aside, FleetInv, FleetTyped, configVars, rowVars, driverVars
<1>5. MachineOK(m)'
  <2>1. ActorOK(m)'
    BY DEF Serve, FleetInv, FleetTyped, MachineOK, ActorOK, NoConfig, configVars, rowVars, driverVars
  <2>2. CopiesOK(m)'
    BY DEF Serve, FleetInv, FleetTyped, MachineOK, ActorOK, CopiesOK, NoConfig, configVars, rowVars, driverVars
  <2>3. DriverOK(m)'
    BY DEF Serve, FleetInv, FleetTyped, MachineOK, ActorOK, DriverOK, Fits, Used,
       NoConfig, configVars, rowVars, driverVars
  <2>4. QED BY <2>1, <2>2, <2>3 DEF MachineOK
<1>6. \A c \in Clients : EditOK(c)'
  BY <1>2, <1>3, EditAside DEF FleetInv, FleetTyped, RequestOK
<1>7. \A n \in Machines : TargetOK(n)'
  BY <1>2, TargetAside DEF FleetInv
<1>8. QED BY <1>1, <1>3, <1>4, <1>5, <1>6, <1>7, OneMachine

\* The actor's data is read from the file again, if it is read at all.
LEMMA ReadAgain ==
  ASSUME FleetInv, NEW m \in Machines,
         UNCHANGED <<files, materials, clients>>, Excuses,
         \A n \in Machines \ {m} : /\ memories'[n] = memories[n] /\ targets'[n] = targets[n]
                                   /\ n \in history.skipped => n \in history'.skipped,
         \/ memories'[m] = files[m] /\ targets'[m] = TargetOf(files[m])
         \/ memories'[m].none
         \/ /\ memories'[m] = memories[m] /\ targets'[m] = targets[m]
            /\ m \in history.skipped => m \in history'.skipped
  PROVE  (\A c \in Clients : EditOK(c)') /\ (\A n \in Machines : TargetOK(n)')
<1>1. ASSUME NEW c \in Clients
      PROVE  EditOK(c)'
  <2>1. EditOK(c) /\ RequestOK(clients[c]) /\ clients'[c] = clients[c]
    BY DEF FleetInv, FleetTyped
  <2>2. CASE clients[c].op = "edit" /\ clients[c].machine = m
    BY <2>1, <2>2 DEF EditOK, Excuses, Seen
  <2>3. CASE clients[c].op = "edit" /\ clients[c].machine # m
    BY <2>1, <2>3 DEF EditOK, Excuses, Seen, RequestOK
  <2>4. CASE clients[c].op # "edit"
    BY <2>1, <2>4 DEF EditOK
  <2>5. QED BY <2>2, <2>3, <2>4
<1>2. ASSUME NEW n \in Machines
      PROVE  TargetOK(n)'
  <2>1. TargetOK(n)
    BY DEF FleetInv
  <2>2. CASE n = m
    BY <2>1, <2>2 DEF TargetOK, TargetOf, Configured
  <2>3. CASE n # m
    BY <2>1, <2>3 DEF TargetOK, TargetOf, Configured
  <2>4. QED BY <2>2, <2>3
<1>3. QED BY <1>1, <1>2

LEMMA ConnectSafe ==
  ASSUME FleetInv, NEW m \in Machines, ConnectMachine(m)
  PROVE  FleetInv'
<1>1. CASE Configured(m)
  <2>1. /\ drivers' = IF drivers[m].none THEN [drivers EXCEPT ![m] = files[m]] ELSE drivers
        /\ sockets' = [sockets EXCEPT ![m] = "up"]
        /\ UNCHANGED <<files, memories, targets, actorVars, rowVars, resets, materials,
                       clients, history>>
    BY <1>1 DEF ConnectMachine
  <2>2. FleetTyped'
    BY <2>1 DEF FleetInv, FleetTyped, IsConfig, actorVars, rowVars
  <2>3. Excuses /\ history'.blind = history.blind
    BY <2>1 DEF Excuses
  <2>4. \A n \in Machines \ {m} : Aside(n)
    BY <2>1 DEF Aside, FleetInv, FleetTyped, actorVars, rowVars
  <2>5. MachineOK(m)'
    <3>1. ActorOK(m)' /\ CopiesOK(m)'
      BY <1>1, <2>1 DEF ConnectMachine, FleetInv, FleetTyped, MachineOK, ActorOK, CopiesOK,
         actorVars, rowVars, Configured
    <3>2. DriverOK(m)'
      BY <2>1 DEF FleetInv, FleetTyped, MachineOK, DriverOK, Fits, Used
    <3>3. QED BY <3>1, <3>2 DEF MachineOK
  <2>6. (\A c \in Clients : EditOK(c)') /\ (\A n \in Machines : TargetOK(n)')
    BY <2>1, <2>3, ReadAgain
  <2>7. QED BY <2>2, <2>3, <2>4, <2>5, <2>6, OneMachine
<1>2. CASE ~Configured(m)
  <2>1. /\ drivers' = IF drivers[m].none THEN [drivers EXCEPT ![m] = files[m]] ELSE drivers
        /\ sockets' = [sockets EXCEPT ![m] = "up"]
        /\ memories' = [memories EXCEPT ![m] = files[m]]
        /\ targets' = [targets EXCEPT ![m] = TargetOf(files[m])]
        /\ history' = [history EXCEPT !.skipped = @ \ {m}]
        /\ actors[m] = "up"
        /\ UNCHANGED <<files, actorVars, rowVars, resets, materials, clients>>
    BY <1>2 DEF ConnectMachine, DataReset
  <2>2. FleetTyped'
    BY <2>1 DEF FleetInv, FleetTyped, IsConfig, actorVars, rowVars
  <2>3. Excuses /\ history'.blind = history.blind
        /\ history'.skipped = history.skipped \ {m}
    BY <2>1 DEF Excuses, FleetInv, FleetTyped
  <2>4. \A n \in Machines \ {m} : Aside(n)
    BY <2>1 DEF Aside, FleetInv, FleetTyped, actorVars, rowVars
  <2>5. MachineOK(m)'
    <3>1. ActorOK(m)'
      BY <2>1 DEF FleetInv, FleetTyped, MachineOK, ActorOK, actorVars, rowVars
    <3>2. CopiesOK(m)'
      BY <2>1 DEF FleetInv, FleetTyped, MachineOK, ActorOK, CopiesOK, actorVars, rowVars
    <3>3. DriverOK(m)'
      BY <2>1 DEF FleetInv, FleetTyped, MachineOK, DriverOK, Fits, Used
    <3>4. QED BY <3>1, <3>2, <3>3 DEF MachineOK
  <2>6. (\A c \in Clients : EditOK(c)') /\ (\A n \in Machines : TargetOK(n)')
    <3>1. /\ memories'[m] = files[m] /\ targets'[m] = TargetOf(files[m])
          /\ \A n \in Machines \ {m} : memories'[n] = memories[n] /\ targets'[n] = targets[n]
      BY <2>1 DEF FleetInv, FleetTyped
    <3>2. QED BY <2>1, <2>3, <3>1, ReadAgain
  <2>7. QED BY <2>2, <2>3, <2>4, <2>5, <2>6, OneMachine
<1>3. QED BY <1>1, <1>2

LEMMA ClosedSafe ==
  ASSUME FleetInv, NEW m \in Machines, HandleSocketClosed(m)
  PROVE  FleetInv'
<1>1. files[m].none => FALSE
  BY DEF HandleSocketClosed, FleetInv, MachineOK, ActorOK
<1>2. /\ sockets' = [sockets EXCEPT ![m] = "down"]
      /\ memories' = [memories EXCEPT ![m] = files[m]]
      /\ targets' = [targets EXCEPT ![m] = TargetOf(files[m])]
      /\ history' = [history EXCEPT !.skipped = @ \ {m}]
      /\ actors[m] = "up" /\ sockets[m] = "closed"
      /\ UNCHANGED <<files, actorVars, rowVars, drivers, resets, materials, clients>>
  BY <1>1 DEF HandleSocketClosed, DataReset, actorVars
<1>3. FleetTyped'
  BY <1>2 DEF FleetInv, FleetTyped, IsConfig, actorVars, rowVars
<1>4. Excuses /\ history'.blind = history.blind
      /\ history'.skipped = history.skipped \ {m}
  BY <1>2 DEF Excuses, FleetInv, FleetTyped
<1>5. \A n \in Machines \ {m} : Aside(n)
  BY <1>2 DEF Aside, FleetInv, FleetTyped, actorVars, rowVars
<1>6. MachineOK(m)'
  <2>1. ActorOK(m)'
    BY <1>2 DEF FleetInv, FleetTyped, MachineOK, ActorOK, actorVars, rowVars
  <2>2. CopiesOK(m)'
    BY <1>2 DEF FleetInv, FleetTyped, MachineOK, ActorOK, CopiesOK, actorVars, rowVars
  <2>3. DriverOK(m)'
    BY <1>2 DEF FleetInv, FleetTyped, MachineOK, DriverOK, Fits, Used
  <2>4. QED BY <2>1, <2>2, <2>3 DEF MachineOK
<1>7. (\A c \in Clients : EditOK(c)') /\ (\A n \in Machines : TargetOK(n)')
  <2>1. /\ memories'[m] = files[m] /\ targets'[m] = TargetOf(files[m])
        /\ \A n \in Machines \ {m} : memories'[n] = memories[n] /\ targets'[n] = targets[n]
    BY <1>2 DEF FleetInv, FleetTyped
  <2>2. QED BY <1>2, <1>4, <2>1, ReadAgain
<1>8. QED BY <1>3, <1>4, <1>5, <1>6, <1>7, OneMachine

LEMMA CreateSavesSafe ==
  ASSUME FleetInv, NEW m \in Machines, CreateSaves(m)
  PROVE  FleetInv'
<1>1. /\ actors[m] = "absent" /\ files[m].none /\ m \notin history.deleted
      /\ files' = [files EXCEPT ![m] = DefaultConfig(1)]
      /\ resolvers' = [resolvers EXCEPT ![m] = "saved"]
      /\ UNCHANGED <<memories, targets, actors, late, served, rowVars, driverVars, materials,
                     clients, history>>
  BY DEF CreateSaves
<1>2. IsConfig(DefaultConfig(1)) /\ ~DefaultConfig(1).none
  BY DEF IsConfig, DefaultConfig, Fields
<1>3. FleetTyped'
  BY <1>1, <1>2 DEF FleetInv, FleetTyped, rowVars, driverVars
<1>4. Excuses /\ history'.blind = history.blind
  BY <1>1 DEF Excuses
<1>5. \A n \in Machines \ {m} : Aside(n)
  BY <1>1 DEF Aside, FleetInv, FleetTyped, rowVars, driverVars
<1>6. MachineOK(m)'
  <2>1. files'[m] = DefaultConfig(1) /\ resolvers'[m] = "saved"
    BY <1>1 DEF FleetInv, FleetTyped
  <2>2. memories[m].none /\ drivers[m].none /\ queues[m] = 0
    BY <1>1 DEF FleetInv, MachineOK, ActorOK
  <2>3. sockets[m] = "closed" => drivers[m].none
    BY <2>2
  <2>4. ActorOK(m)'
    BY <1>1, <1>2, <2>1, <2>2 DEF ActorOK, rowVars, driverVars
  <2>5. CopiesOK(m)'
    BY <1>1, <1>2, <2>1, <2>2 DEF CopiesOK, rowVars, driverVars
  <2>6. DriverOK(m)'
    BY <1>1, <2>2 DEF DriverOK, rowVars, driverVars
  <2>7. QED BY <2>4, <2>5, <2>6 DEF MachineOK
<1>7. ASSUME NEW c \in Clients
      PROVE  EditOK(c)'
  <2>1. EditOK(c) /\ RequestOK(clients[c]) /\ clients'[c] = clients[c]
    BY <1>1 DEF FleetInv, FleetTyped
  <2>2. clients[c].op = "edit" => clients[c].machine # m /\ clients[c].machine \in Machines
    BY <1>1, <2>1 DEF EditOK, RequestOK
  <2>3. clients[c].op = "edit" => files'[clients[c].machine] = files[clients[c].machine]
    BY <1>1, <2>2 DEF FleetInv, FleetTyped
  <2>4. QED BY <1>1, <1>4, <2>1, <2>3, EditAside
<1>8. \A n \in Machines : TargetOK(n)'
  BY <1>1, TargetAside DEF FleetInv
<1>9. QED BY <1>3, <1>4, <1>5, <1>6, <1>7, <1>8, OneMachine

LEMMA HandleDeleteSafe ==
  ASSUME FleetInv, NEW m \in Machines, HandleDelete(m)
  PROVE  FleetInv'
<1>1. PICK removed \in {0, 1}, killed \in {0, 1} :
        /\ actors[m] = "up" /\ resolvers[m] = "no"
        /\ queues' = [queues EXCEPT ![m] = 0]
        /\ files' = IF removed = 1 THEN [files EXCEPT ![m] = NoConfig] ELSE files
        /\ drivers' = IF killed = 1 THEN [drivers EXCEPT ![m] = NoConfig] ELSE drivers
        /\ history' = [history EXCEPT !.deleted = @ \cup {m},
                                      !.kept = IF removed = 1 THEN @ ELSE @ \cup {m}]
        /\ actors' = [actors EXCEPT ![m] = "stopping"]
        /\ late' = [late EXCEPT ![m] = SentTo(m)]
        /\ resolvers' = [resolvers EXCEPT ![m] = "removing"]
        /\ UNCHANGED <<memories, targets, served, registered, sockets, resets, materials,
                       clients>>
  <2>1. PICK removed \in BOOLEAN, killed \in BOOLEAN :
          /\ files' = IF removed THEN [files EXCEPT ![m] = NoConfig] ELSE files
          /\ drivers' = IF killed THEN [drivers EXCEPT ![m] = NoConfig] ELSE drivers
          /\ history' = [history EXCEPT !.deleted = @ \cup {m},
                                        !.kept = IF removed THEN @ ELSE @ \cup {m}]
    BY DEF HandleDelete
  <2>2. \E r \in {0, 1} :
          /\ files' = IF r = 1 THEN [files EXCEPT ![m] = NoConfig] ELSE files
          /\ history' = [history EXCEPT !.deleted = @ \cup {m},
                                        !.kept = IF r = 1 THEN @ ELSE @ \cup {m}]
    <3>1. CASE removed
      <4>1. /\ files' = IF 1 = 1 THEN [files EXCEPT ![m] = NoConfig] ELSE files
            /\ history' = [history EXCEPT !.deleted = @ \cup {m},
                                          !.kept = IF 1 = 1 THEN @ ELSE @ \cup {m}]
        BY <2>1, <3>1
      <4>2. QED BY <4>1
    <3>2. CASE ~removed
      <4>1. /\ files' = IF 0 = 1 THEN [files EXCEPT ![m] = NoConfig] ELSE files
            /\ history' = [history EXCEPT !.deleted = @ \cup {m},
                                          !.kept = IF 0 = 1 THEN @ ELSE @ \cup {m}]
        BY <2>1, <3>2
      <4>2. QED BY <4>1
    <3>3. QED BY <3>1, <3>2
  <2>3. \E r \in {0, 1} :
          drivers' = IF r = 1 THEN [drivers EXCEPT ![m] = NoConfig] ELSE drivers
    BY <2>1
  <2>4. QED BY <2>2, <2>3 DEF HandleDelete
<1>2. /\ history' \in [{"failed", "cut", "kept", "revived", "skipped", "deleted", "blind"}
                         -> SUBSET Machines]
      /\ history'.failed = history.failed /\ history'.cut = history.cut
      /\ history'.revived = history.revived /\ history'.skipped = history.skipped
      /\ history'.blind = history.blind /\ history'.deleted = history.deleted \cup {m}
      /\ history'.kept = IF removed = 1 THEN history.kept ELSE history.kept \cup {m}
  <2>1. history \in [{"failed", "cut", "kept", "revived", "skipped", "deleted", "blind"}
                       -> SUBSET Machines]
    BY DEF FleetInv, FleetTyped
  <2>2. PICK kept \in SUBSET Machines :
          kept = IF removed = 1 THEN history.kept ELSE history.kept \cup {m}
    BY <2>1
  <2>3. history' = [history EXCEPT !.deleted = history.deleted \cup {m}, !.kept = kept]
    BY <1>1, <2>1, <2>2
  <2>4. QED BY <2>1, <2>2, <2>3
<1>3. FleetTyped'
  BY <1>1, <1>2 DEF FleetInv, FleetTyped, IsConfig, NoConfig
<1>4. Excuses
  BY <1>2 DEF Excuses
<1>5. \A n \in Machines \ {m} : Aside(n)
  BY <1>1, <1>2 DEF Aside, FleetInv, FleetTyped
<1>6. /\ files'[m] = IF removed = 1 THEN NoConfig ELSE files[m]
      /\ drivers'[m] = IF killed = 1 THEN NoConfig ELSE drivers[m]
      /\ NoConfig.none
  BY <1>1 DEF FleetInv, FleetTyped, NoConfig
<1>7. MachineOK(m)'
  <2>1. ActorOK(m)'
    BY <1>1, <1>2, <1>6 DEF FleetInv, FleetTyped, MachineOK, ActorOK
  <2>2. CopiesOK(m)'
    BY <1>1, <1>2, <1>6 DEF FleetInv, FleetTyped, MachineOK, CopiesOK
  <2>3. DriverOK(m)'
    BY <1>1, <1>2, <1>6 DEF FleetInv, FleetTyped, MachineOK, DriverOK, Fits
  <2>4. QED BY <2>1, <2>2, <2>3 DEF MachineOK
<1>8. ASSUME NEW c \in Clients
      PROVE  EditOK(c)'
  <2>1. EditOK(c) /\ RequestOK(clients[c]) /\ clients'[c] = clients[c]
    BY <1>1 DEF FleetInv, FleetTyped
  <2>2. clients[c].op = "edit" => clients[c].machine \in Machines
    BY <2>1 DEF RequestOK
  <2>3. ASSUME clients[c].op = "edit", clients[c].machine = m
        PROVE  EditOK(c)'
    BY <1>1, <1>2, <1>6, <2>1, <2>3 DEF EditOK, Seen
  <2>4. ASSUME clients[c].op = "edit", clients[c].machine # m
        PROVE  EditOK(c)'
    <3>1. files'[clients[c].machine] = files[clients[c].machine]
      BY <1>1, <2>2, <2>4 DEF FleetInv, FleetTyped
    <3>2. QED BY <1>1, <1>4, <2>1, <3>1, EditAside
  <2>5. CASE clients[c].op # "edit"
    BY <2>1, <2>5 DEF EditOK
  <2>6. QED BY <2>3, <2>4, <2>5
<1>9. \A n \in Machines : TargetOK(n)'
  BY <1>1, <1>2, TargetAside DEF FleetInv
<1>10. QED BY <1>2, <1>3, <1>4, <1>5, <1>7, <1>8, <1>9, OneMachine

-----------------------------------------------------------------------------
(***************************************************************************)
(* Crashes.                                                                *)
(***************************************************************************)
\* What a crash cuts off is excused.
LEMMA CrashSafe ==
  ASSUME FleetInv, NEW newFiles, Restarted(newFiles),
         NEW S, S \subseteq Machines, CutOff \subseteq S, history' = Befallen("cut", S),
         DOMAIN newFiles = Machines,
         \A m \in Machines : IsConfig(newFiles[m]) /\ (newFiles[m].none <=> files[m].none),
         \A m \in Machines \ S : newFiles[m] = files[m],
         UNCHANGED registered, queues' \in [Machines -> {0, 1}],
         \A m \in Machines : queues'[m] = queues[m] \/ queues'[m] = 0
  PROVE  FleetInv'
<1>1. /\ history' \in [{"failed", "cut", "kept", "revived", "skipped", "deleted", "blind"}
                         -> SUBSET Machines]
      /\ history'.failed = history.failed /\ history'.cut = history.cut \cup S
      /\ history'.revived = history.revived /\ history'.skipped = history.skipped
      /\ history'.blind = history.blind /\ history'.deleted = history.deleted
      /\ history'.kept = history.kept
  BY DEF Befallen, FleetInv, FleetTyped
<1>2. NoConfig.none /\ IsConfig(NoConfig)
  BY DEF NoConfig, IsConfig
<1>3. FleetTyped'
  <2>1. /\ DOMAIN files' = Machines /\ DOMAIN memories' = Machines /\ DOMAIN drivers' = Machines
        /\ \A m \in Machines : IsConfig(files'[m]) /\ IsConfig(memories'[m])
                               /\ IsConfig(drivers'[m])
    BY <1>2 DEF Restarted, FleetInv, FleetTyped
  <2>2. /\ DOMAIN targets' = Machines /\ DOMAIN registered' = Machines
        /\ DOMAIN late' = Machines /\ served' \subseteq Machines
        /\ DOMAIN materials' = Materials
    BY DEF Restarted, FleetInv, FleetTyped
  <2>3. /\ actors' \in [Machines -> {"absent", "starting", "up", "stopping", "noop"}]
        /\ resolvers' \in [Machines ->
             {"unused", "no", "saved", "committed", "started", "removing"}]
        /\ sockets' \in [Machines -> {"down", "up", "closed"}]
        /\ resets' \in [Machines -> SUBSET {"mail", "driver"}]
    BY DEF Restarted, FleetInv, FleetTyped
  <2>4. DOMAIN clients' = Clients /\ \A c \in Clients : RequestOK(clients'[c])
    BY DEF Restarted, RequestOK
  <2>5. QED BY <1>1, <2>1, <2>2, <2>3, <2>4 DEF FleetTyped, IsConfig, RequestOK
<1>4. ASSUME NEW m \in Machines
      PROVE  MachineOK(m)' /\ TargetOK(m)'
  <2>1. /\ files'[m] = newFiles[m] /\ memories'[m] = NoConfig
        /\ actors'[m] = (IF newFiles[m].none THEN "absent" ELSE "starting")
        /\ resolvers'[m] \in {"unused", "no"}
        /\ sockets'[m] = "down" /\ resets'[m] = resets[m] \ {"mail"}
        /\ drivers' = drivers
    BY DEF Restarted
  <2>2. MachineOK(m) /\ (m \notin S => "mail" \notin resets[m] /\ resolvers[m] # "saved")
    BY DEF FleetInv, CutOff
  <2>3. ActorOK(m)'
    BY <1>1, <1>2, <2>1, <2>2 DEF MachineOK, ActorOK
  <2>4. CopiesOK(m)'
    BY <1>1, <1>2, <2>1, <2>2 DEF MachineOK, CopiesOK
  <2>5. DriverOK(m)'
    BY <1>1, <1>2, <2>1, <2>2 DEF MachineOK, DriverOK, Fits, Used
  <2>6. TargetOK(m)'
    BY <1>2, <2>1 DEF TargetOK, Configured
  <2>7. QED BY <2>3, <2>4, <2>5, <2>6 DEF MachineOK
<1>5. \A c \in Clients : EditOK(c)'
  BY DEF Restarted, EditOK
<1>6. QED BY <1>1, <1>3, <1>4, <1>5 DEF FleetInv, NothingOverwrittenUnseen

LEMMA CutOffFacts ==
  ASSUME FleetInv
  PROVE  /\ CutOff \subseteq Machines /\ queues \in [Machines -> {0, 1}]
         /\ DOMAIN files = Machines /\ \A m \in Machines : IsConfig(files[m])
BY DEF CutOff, FleetInv, FleetTyped

LEMMA ServerCrashSafe == ASSUME FleetInv, ServerCrash PROVE FleetInv'
<1>1. /\ Restarted(files) /\ history' = Befallen("cut", CutOff)
      /\ UNCHANGED registered /\ UNCHANGED queues
  BY DEF ServerCrash, rowVars
<1>2. QED BY <1>1, CutOffFacts, CrashSafe

LEMMA CrashInDeleteSafe ==
  ASSUME FleetInv, NEW m \in Machines, CrashInDelete(m)
  PROVE  FleetInv'
<1>1. /\ Restarted(files) /\ history' = Befallen("cut", CutOff)
      /\ UNCHANGED registered /\ queues' = [queues EXCEPT ![m] = 0]
  BY DEF CrashInDelete
<1>2. /\ queues' \in [Machines -> {0, 1}]
      /\ \A n \in Machines : queues'[n] = queues[n] \/ queues'[n] = 0
  BY <1>1, CutOffFacts
<1>3. QED BY <1>1, <1>2, CutOffFacts, CrashSafe

-----------------------------------------------------------------------------
(***************************************************************************)
(* Edits.                                                                  *)
(***************************************************************************)
\* What an edit makes of a configuration.
Follows(config, old, change) ==
  /\ IsConfig(config) /\ ~config.none
  /\ change # "name" => config.name = old.name
  /\ change = "load" => Used(config) = Used(old)
  /\ change \notin {"tool", "load"} => config.material = old.material
  /\ \A seen : IsConfig(seen) /\ ~seen.none /\ Seen(seen, old) => Seen(seen, config)

LEMMA Edited ==
  ASSUME FleetInv, NEW c \in Clients, Handling(c), Configured(clients[c].machine)
  PROVE  LET r == clients[c]  old == memories[r.machine] IN
         /\ r.op = "edit" /\ r.machine \in Machines /\ RequestOK(r) /\ IsConfig(r.seen)
         /\ ~r.seen.none /\ r.change \in {"name", "video", "tool", "load"}
         /\ IsConfig(old) /\ ~old.none
         /\ Follows(EditedConfig(r), old, r.change)
<1> DEFINE r == clients[c]
           old == memories[r.machine]
           config == EditedConfig(r)
<1>1. /\ r.op = "edit" /\ r.step = "sent" /\ RequestOK(r) /\ IsConfig(r.seen)
      /\ ~r.seen.none /\ r.machine \in Machines /\ IsConfig(old) /\ ~old.none
  BY DEF Handling, Configured, FleetInv, FleetTyped, RequestOK
<1>2. /\ DOMAIN old = Fields
      /\ old.name \in Nat /\ old.pluginVersion \in Nat /\ old.toolVersion \in Nat
      /\ old.feed \in Int /\ old.material \in Materials \cup {NoMaterial}
  BY <1>1 DEF IsConfig, NoConfig
<1>3. r.change \in {"name", "video", "tool", "load"}
  BY <1>1 DEF RequestOK
<1>4. ASSUME NEW seen, IsConfig(seen), ~seen.none
      PROVE  seen.pluginVersion \in Nat /\ seen.toolVersion \in Nat
  BY <1>4 DEF IsConfig, NoConfig
<1>5. CASE r.change = "name"
  <2>1. /\ config = [old EXCEPT !.name = r.value, !.pluginVersion = @ + 1] /\ r.value \in Nat
    BY <1>1, <1>5 DEF EditedConfig, Renamed, RequestOK
  <2>2. /\ DOMAIN config = Fields /\ ~config.none /\ config.name = r.value
        /\ config.pluginVersion = old.pluginVersion + 1
        /\ config.toolVersion = old.toolVersion /\ config.feed = old.feed
        /\ config.material = old.material
    BY <1>1, <1>2, <2>1 DEF Fields
  <2>3. IsConfig(config)
    BY <1>2, <2>1, <2>2 DEF IsConfig
  <2>4. ASSUME NEW seen, IsConfig(seen), ~seen.none, Seen(seen, old)
        PROVE  Seen(seen, config)
    <3>1. seen.pluginVersion \in Nat /\ seen.toolVersion \in Nat
      BY <1>4, <2>4
    <3>2. QED BY <1>2, <2>2, <2>4, <3>1 DEF Seen
  <2>5. Follows(config, old, r.change)
    BY <1>5, <2>2, <2>3, <2>4 DEF Follows
  <2>6. QED BY <1>1, <1>3, <2>5
<1>6. CASE r.change = "video"
  <2>1. config = [old EXCEPT !.video = r.value]
    BY <1>6 DEF EditedConfig, WithVideo
  <2>2. /\ DOMAIN config = Fields /\ ~config.none /\ config.name = old.name
        /\ config.pluginVersion = old.pluginVersion
        /\ config.toolVersion = old.toolVersion /\ config.feed = old.feed
        /\ config.material = old.material
    BY <1>1, <1>2, <2>1 DEF Fields
  <2>3. IsConfig(config)
    BY <1>2, <2>1, <2>2 DEF IsConfig
  <2>4. ASSUME NEW seen, IsConfig(seen), ~seen.none, Seen(seen, old)
        PROVE  Seen(seen, config)
    <3>1. seen.pluginVersion \in Nat /\ seen.toolVersion \in Nat
      BY <1>4, <2>4
    <3>2. QED BY <1>2, <2>2, <2>4, <3>1 DEF Seen
  <2>5. Follows(config, old, r.change)
    BY <1>6, <2>2, <2>3, <2>4 DEF Follows
  <2>6. QED BY <1>1, <1>3, <2>5
<1>7. CASE r.change = "tool"
  <2>1. /\ config = [old EXCEPT !.material = r.value, !.feed = 3 - @, !.toolVersion = @ + 1]
        /\ r.value \in Materials \cup {NoMaterial}
    BY <1>1, <1>7 DEF EditedConfig, WithToolhead, RequestOK
  <2>2. /\ DOMAIN config = Fields /\ ~config.none /\ config.name = old.name
        /\ config.pluginVersion = old.pluginVersion
        /\ config.toolVersion = old.toolVersion + 1 /\ config.feed = 3 - old.feed
        /\ config.material = r.value
    BY <1>1, <1>2, <2>1 DEF Fields
  <2>3. IsConfig(config)
    BY <1>2, <2>1, <2>2 DEF IsConfig
  <2>4. ASSUME NEW seen, IsConfig(seen), ~seen.none, Seen(seen, old)
        PROVE  Seen(seen, config)
    <3>1. seen.pluginVersion \in Nat /\ seen.toolVersion \in Nat
      BY <1>4, <2>4
    <3>2. QED BY <1>2, <2>2, <2>4, <3>1 DEF Seen
  <2>5. Follows(config, old, r.change)
    BY <1>7, <2>2, <2>3, <2>4 DEF Follows
  <2>6. QED BY <1>1, <1>3, <2>5
<1>8. CASE r.change = "load"
  <2>1. /\ config = [old EXCEPT !.material = r.value, !.toolVersion = @ + 1]
        /\ r.value \in Materials \cup {NoMaterial}
    BY <1>1, <1>8 DEF EditedConfig, Loaded, RequestOK
  <2>2. /\ DOMAIN config = Fields /\ ~config.none /\ config.name = old.name
        /\ config.pluginVersion = old.pluginVersion /\ config.video = old.video
        /\ config.toolVersion = old.toolVersion + 1 /\ config.feed = old.feed
        /\ config.material = r.value
    BY <1>1, <1>2, <2>1 DEF Fields
  <2>3. IsConfig(config)
    BY <1>2, <2>1, <2>2 DEF IsConfig
  <2>4. ASSUME NEW seen, IsConfig(seen), ~seen.none, Seen(seen, old)
        PROVE  Seen(seen, config)
    <3>1. seen.pluginVersion \in Nat /\ seen.toolVersion \in Nat
      BY <1>4, <2>4
    <3>2. QED BY <1>2, <2>2, <2>4, <3>1 DEF Seen
  <2>5. Follows(config, old, r.change)
    BY <1>8, <2>2, <2>3, <2>4 DEF Follows, Used
  <2>6. QED BY <1>1, <1>3, <2>5
<1>9. QED BY <1>1, <1>3, <1>5, <1>6, <1>7, <1>8

\* Who handles a message has its data because it is up, or is being deleted.
LEMMA HandlingFacts ==
  ASSUME FleetInv, NEW c \in Clients, Handling(c), Configured(clients[c].machine)
  PROVE  LET m == clients[c].machine IN
         /\ actors[m] \in {"up", "stopping"}
         /\ actors[m] = "up" => ~files[m].none
         /\ actors[m] = "stopping" => m \in history.deleted
         /\ resolvers[m] \notin {"saved", "committed"}
<1>1. clients[c].machine \in Machines /\ ~memories[clients[c].machine].none
  BY Edited DEF Configured
<1>2. ActorOK(clients[c].machine)
  BY <1>1 DEF FleetInv, MachineOK
<1>3. QED BY <1>1, <1>2 DEF ActorOK, Handling

\* Only an edit that does not see what it overwrites is refused.
LEMMA NotBlind ==
  ASSUME FleetInv, NEW c \in Clients, Handling(c), Configured(clients[c].machine),
         ~Conflict(clients[c]), Blind(clients[c])
  PROVE  clients[c].machine \in history.failed
<1>1. EditOK(c) /\ clients[c].op = "edit" /\ ~memories[clients[c].machine].none
  BY Edited DEF FleetInv, Configured
<1>2. QED BY <1>1 DEF EditOK, Seen, Conflict, Blind

\* The forms of other clients after an edit of m, and the targets of the machines.
LEMMA OthersForms ==
  ASSUME FleetInv, NEW c \in Clients, Handling(c), Configured(clients[c].machine),
         NEW m \in Machines, m = clients[c].machine,
         NEW config, Follows(config, memories[m], clients[c].change),
         clients' = [clients EXCEPT ![c] = [op |-> "none"]],
         memories'[m] = config,
         files'[m] = config \/ (m \in history'.failed /\ files'[m] = files[m]),
         \A n \in Machines \ {m} : memories'[n] = memories[n] /\ files'[n] = files[n],
         Excuses
  PROVE  \A d \in Clients : EditOK(d)'
<1>1. SUFFICES ASSUME NEW d \in Clients, clients'[d].op = "edit"
               PROVE  EditOK(d)'
  BY DEF EditOK
<1>2. /\ d # c /\ clients'[d] = clients[d] /\ EditOK(d) /\ RequestOK(clients[d])
      /\ clients[d].machine \in Machines /\ ~memories[m].none
      /\ IsConfig(clients[d].seen) /\ ~clients[d].seen.none
  BY <1>1 DEF FleetInv, FleetTyped, RequestOK, Configured
<1>3. CASE clients[d].machine = m
  <2>1. m \notin history.failed => Seen(clients[d].seen, memories[m])
    BY <1>1, <1>2, <1>3 DEF EditOK
  <2>2. m \notin history.failed => Seen(clients[d].seen, config)
    BY <1>2, <2>1 DEF Follows
  <2>3. files[m].none => m \in history.deleted
    BY <1>1, <1>2, <1>3 DEF EditOK
  <2>4. m \notin history'.failed => files'[m] = config /\ m \notin history.failed
    BY DEF Excuses
  <2>5. files'[m].none => m \in history'.deleted
    <3>1. CASE files'[m] = config
      BY <3>1 DEF Follows
    <3>2. CASE files'[m] = files[m]
      BY <2>3, <3>2 DEF Excuses
    <3>3. QED BY <3>1, <3>2
  <2>6. QED BY <1>2, <1>3, <2>2, <2>4, <2>5 DEF EditOK
<1>4. CASE clients[d].machine # m
  BY <1>1, <1>2, <1>4 DEF EditOK, Excuses
<1>5. QED BY <1>3, <1>4

\* An edit for which no target is looked up leaves the material as it is.
LEMMA KeepsMaterial ==
  ASSUME FleetInv, NEW c \in Clients, Handling(c), Configured(clients[c].machine),
         ~LooksUp(clients[c])
  PROVE  EditedConfig(clients[c]).material = memories[clients[c].machine].material
<1> DEFINE r == clients[c]
           old == memories[r.machine]
<1>1. /\ IsConfig(old) /\ ~old.none /\ r.change \in {"name", "video", "tool", "load"}
      /\ Follows(EditedConfig(r), old, r.change)
  BY Edited
<1>2. CASE r.change = "tool"
  <2>1. r.value = old.material
    BY <1>2 DEF LooksUp
  <2>2. EditedConfig(r) = [old EXCEPT !.material = r.value, !.feed = 3 - @, !.toolVersion = @ + 1]
    BY <1>2 DEF EditedConfig, WithToolhead
  <2>3. DOMAIN old = Fields
    BY <1>1 DEF IsConfig, NoConfig
  <2>4. QED BY <2>1, <2>2, <2>3 DEF Fields
<1>3. CASE r.change # "tool"
  BY <1>1, <1>3 DEF Follows, LooksUp
<1>4. QED BY <1>2, <1>3

\* The targets after an edit of m.
LEMMA EditTargets ==
  ASSUME FleetInv, NEW c \in Clients, Handling(c), Configured(clients[c].machine),
         NEW m \in Machines, m = clients[c].machine,
         NEW config, Follows(config, memories[m], clients[c].change),
         config = EditedConfig(clients[c]),
         Remember(clients[c], config), UNCHANGED materials,
         clients' = [clients EXCEPT ![c] = [op |-> "none"]],
         \A n \in Machines : n \in history.skipped =>
           n \in history'.skipped \/ (n = m /\ LooksUp(clients[c]))
  PROVE  \A n \in Machines : TargetOK(n)'
<1> DEFINE r == clients[c]
<1>1. /\ r.op = "edit" /\ ~memories[m].none
      /\ DOMAIN memories = Machines /\ DOMAIN targets = Machines /\ DOMAIN clients = Clients
  BY Edited DEF FleetInv, FleetTyped
<1>2. /\ memories'[m] = config
      /\ \A n \in Machines \ {m} : memories'[n] = memories[n] /\ targets'[n] = targets[n]
      /\ LooksUp(r) => targets'[m] = TargetOf(config)
      /\ ~LooksUp(r) => targets'[m] = targets[m]
  BY <1>1 DEF Remember
<1>3. \A d \in Clients : clients[d].op = "material" => clients'[d] = clients[d]
  BY <1>1
<1>4. ASSUME NEW n \in Machines, n # m
      PROVE  TargetOK(n)'
  <2>1. TargetOK(n) /\ memories'[n] = memories[n] /\ targets'[n] = targets[n]
        /\ (n \in history.skipped => n \in history'.skipped)
    BY <1>2, <1>4 DEF FleetInv
  <2>2. QED BY <1>3, <2>1 DEF TargetOK, TargetOf, Configured
<1>5. CASE LooksUp(r)
  <2>1. targets'[m] = TargetOf(memories'[m])
    BY <1>2, <1>5
  <2>2. TargetOK(m)'
    BY <2>1 DEF TargetOK, TargetOf
  <2>3. QED BY <1>4, <2>2
<1>6. CASE ~LooksUp(r)
  <2>1. /\ TargetOK(m) /\ targets'[m] = targets[m] /\ ~config.none
        /\ config.material = memories[m].material
        /\ m \in history.skipped => m \in history'.skipped
    BY <1>2, <1>6, KeepsMaterial DEF FleetInv, Follows
  <2>2. TargetOf(memories[m]) = TargetOf(config)
    BY <1>1, <2>1 DEF TargetOf
  <2>3. TargetOK(m)'
    BY <1>1, <1>2, <1>3, <2>1, <2>2 DEF TargetOK, TargetOf, Configured
  <2>4. QED BY <1>4, <2>3
<1>7. QED BY <1>5, <1>6

LEMMA SaveSafe ==
  ASSUME FleetInv, NEW c \in Clients, SaveEdit(c)
  PROVE  FleetInv'
<1>1. Handling(c) /\ Configured(clients[c].machine) /\ ~Conflict(clients[c])
  BY DEF SaveEdit
<1>2. PICK r, m, old, config :
        /\ r = clients[c] /\ m = r.machine /\ old = memories[m] /\ config = EditedConfig(r)
  OBVIOUS
<1>3. /\ r.op = "edit" /\ m \in Machines /\ RequestOK(r) /\ IsConfig(r.seen)
      /\ ~r.seen.none /\ r.change \in {"name", "video", "tool", "load"}
      /\ IsConfig(old) /\ ~old.none /\ Follows(config, old, r.change)
      /\ memories[m] = old
  BY <1>1, <1>2, Edited
<1>4. /\ Remember(r, config) /\ files' = [files EXCEPT ![m] = config]
      /\ resets' = IF r.change # "load" THEN [resets EXCEPT ![m] = @ \cup {"mail"}] ELSE resets
      /\ registered' = [registered EXCEPT ![m] =
           IF r.change = "name" THEN config.name ELSE registered[m]]
      /\ clients' = [clients EXCEPT ![c] = [op |-> "none"]]
      /\ UNCHANGED <<actorVars, queues, drivers, sockets, materials>>
  BY <1>2 DEF SaveEdit, ResetsDriver, Registered, RegisteredName, Done, Request
<1>5. /\ history' \in [{"failed", "cut", "kept", "revived", "skipped", "deleted", "blind"}
                         -> SUBSET Machines]
      /\ history'.failed = history.failed /\ history'.cut = history.cut
      /\ history'.kept = history.kept /\ history'.deleted = history.deleted
      /\ history'.blind = IF Blind(r) THEN history.blind \cup {m} ELSE history.blind
      /\ history'.skipped = StillSkipped(r)
      /\ history'.revived = IF actors[m] = "stopping" THEN history.revived \cup {m}
                            ELSE history.revived
  <2>1. history' = [history EXCEPT
          !.blind = IF Blind(r) THEN @ \cup {m} ELSE @,
          !.skipped = StillSkipped(r),
          !.revived = IF actors[m] = "stopping" THEN @ \cup {m} ELSE @]
    BY <1>2 DEF SaveEdit
  <2>2. CASE Blind(r)
    <3>1. history' = [history EXCEPT
            !.blind = @ \cup {m},
            !.skipped = StillSkipped(r),
            !.revived = IF actors[m] = "stopping" THEN @ \cup {m} ELSE @]
      BY <2>1, <2>2
    <3>2. /\ history \in [{"failed", "cut", "kept", "revived", "skipped", "deleted", "blind"}
                            -> SUBSET Machines]
          /\ m \in Machines /\ StillSkipped(r) \subseteq Machines
      BY <1>3 DEF FleetInv, FleetTyped, StillSkipped
    <3>3. QED BY <2>2, <3>1, <3>2
  <2>3. CASE ~Blind(r)
    <3>1. history' = [history EXCEPT
            !.skipped = StillSkipped(r),
            !.revived = IF actors[m] = "stopping" THEN @ \cup {m} ELSE @]
      <4>1. history \in [{"failed", "cut", "kept", "revived", "skipped", "deleted", "blind"}
                           -> SUBSET Machines]
        BY DEF FleetInv, FleetTyped
      <4>2. QED BY <2>1, <2>3, <4>1
    <3>2. /\ history \in [{"failed", "cut", "kept", "revived", "skipped", "deleted", "blind"}
                            -> SUBSET Machines]
          /\ m \in Machines /\ StillSkipped(r) \subseteq Machines
      BY <1>3 DEF FleetInv, FleetTyped, StillSkipped
    <3>3. QED BY <2>3, <3>1, <3>2
  <2>4. QED BY <2>2, <2>3
<1>6. Excuses
  BY <1>5 DEF Excuses
<1>7. /\ files'[m] = config /\ memories'[m] = config /\ ~config.none /\ IsConfig(config)
      /\ registered'[m] = (IF r.change = "name" THEN config.name ELSE registered[m])
      /\ resets'[m] = (IF r.change # "load" THEN resets[m] \cup {"mail"} ELSE resets[m])
      /\ \A n \in Machines \ {m} : /\ files'[n] = files[n] /\ memories'[n] = memories[n]
                                   /\ registered'[n] = registered[n] /\ resets'[n] = resets[n]
  <2>1. ~config.none /\ IsConfig(config)
    BY <1>3 DEF Follows
  <2>2. /\ files' = [files EXCEPT ![m] = config] /\ memories' = [memories EXCEPT ![m] = config]
        /\ m \in Machines /\ DOMAIN files = Machines /\ DOMAIN memories = Machines
        /\ DOMAIN registered = Machines /\ DOMAIN resets = Machines
    BY <1>2, <1>3, <1>4 DEF FleetInv, FleetTyped, Remember
  <2>3. QED BY <1>4, <2>1, <2>2
<1>8. FleetTyped'
  <2>1. /\ DOMAIN files' = Machines /\ DOMAIN memories' = Machines
        /\ DOMAIN targets' = Machines /\ DOMAIN registered' = Machines
        /\ DOMAIN clients' = Clients
        /\ resets' \in [Machines -> SUBSET {"mail", "driver"}]
    BY <1>4 DEF FleetInv, FleetTyped, Remember
  <2>2. \A n \in Machines : IsConfig(files'[n]) /\ IsConfig(memories'[n])
    BY <1>7 DEF FleetInv, FleetTyped
  <2>3. \A d \in Clients : RequestOK(clients'[d])
    BY <1>4 DEF FleetInv, FleetTyped, RequestOK
  <2>4. QED
    BY <1>4, <1>5, <2>1, <2>2, <2>3 DEF FleetInv, FleetTyped, actorVars, IsConfig, RequestOK
<1>9. /\ actors[m] \in {"up", "stopping"} /\ resolvers[m] \notin {"saved", "committed"}
      /\ actors[m] = "up" => ~files[m].none
      /\ actors[m] = "stopping" => m \in history.deleted
  BY <1>1, <1>2, HandlingFacts
<1>10. MachineOK(m)'
  <2>1. MachineOK(m)
    BY <1>3 DEF FleetInv
  <2>2. ActorOK(m)'
    BY <1>4, <1>5, <1>7, <1>9, <2>1 DEF MachineOK, ActorOK, actorVars
  <2>3. CopiesOK(m)'
    <3>1. m \notin history.cut \cup history.failed => registered'[m] = config.name
      BY <1>3, <1>7, <1>9, <2>1 DEF MachineOK, CopiesOK, Follows
    <3>2. m \in history'.deleted => m \in history'.kept \cup history'.revived
      BY <1>5, <1>9, <2>1 DEF MachineOK, CopiesOK
    <3>3. QED BY <1>5, <1>7, <3>1, <3>2 DEF CopiesOK
  <2>4. DriverOK(m)'
    <3>1. sockets[m] # "up" => drivers[m].none \/ m \in history.deleted
      BY <1>3, <2>1 DEF MachineOK, DriverOK
    <3>2. CASE r.change # "load"
      BY <1>4, <1>5, <1>7, <2>1, <3>1, <3>2 DEF MachineOK, DriverOK, Fits
    <3>3. CASE r.change = "load"
      <4>1. Used(config) = Used(old)
        BY <1>3, <3>3 DEF Follows
      <4>2. m \in history.deleted \cup history.failed \/ (~files[m].none /\ old = files[m])
        BY <1>3, <2>1 DEF MachineOK, ActorOK, CopiesOK
      <4>3. CASE m \in history.deleted \cup history.failed
        BY <1>4, <1>5, <2>1, <3>1, <4>3 DEF MachineOK, DriverOK, Fits
      <4>4. CASE ~files[m].none /\ old = files[m]
        <5>1. Used(files'[m]) = Used(files[m])
          BY <1>7, <4>1, <4>4
        <5>2. drivers' = drivers /\ sockets' = sockets /\ resets'[m] = resets[m]
          BY <1>4, <1>7, <3>3
        <5>3. Fits(m) => Fits(m)'
          BY <1>5, <5>1, <5>2 DEF Fits, Used
        <5>4. QED BY <1>5, <2>1, <3>1, <4>4, <5>2, <5>3 DEF MachineOK, DriverOK
      <4>5. QED BY <4>2, <4>3, <4>4
    <3>4. QED BY <3>2, <3>3
  <2>5. QED BY <2>2, <2>3, <2>4 DEF MachineOK
<1>11. ASSUME NEW n \in Machines, n # m
       PROVE  MachineOK(n)'
  <2>1. Aside(n)
    BY <1>4, <1>5, <1>7, <1>11 DEF Aside, actorVars
  <2>2. QED BY <1>6, <2>1, MachineAside DEF FleetInv
<1>12. \A d \in Clients : EditOK(d)'
  <2>1. /\ Handling(c) /\ Configured(clients[c].machine) /\ m = clients[c].machine
        /\ Follows(config, memories[m], clients[c].change)
        /\ clients' = [clients EXCEPT ![c] = [op |-> "none"]]
    BY <1>1, <1>2, <1>3, <1>4
  <2>2. /\ memories'[m] = config /\ files'[m] = config
        /\ \A n \in Machines \ {m} : memories'[n] = memories[n] /\ files'[n] = files[n]
    BY <1>7
  <2>3. QED BY <1>3, <1>6, <2>1, <2>2, OthersForms
<1>13. \A n \in Machines : TargetOK(n)'
  <2>1. /\ Handling(c) /\ Configured(clients[c].machine) /\ m = clients[c].machine
        /\ Follows(config, memories[m], clients[c].change) /\ Remember(clients[c], config)
    BY <1>1, <1>2, <1>3, <1>4
  <2>2. \A n \in Machines : n \in history.skipped =>
          n \in history'.skipped \/ (n = m /\ LooksUp(clients[c]))
    BY <1>2, <1>5 DEF StillSkipped
  <2>3. QED BY <1>2, <1>3, <1>4, <2>1, <2>2, EditTargets
<1>14. NothingOverwrittenUnseen'
  BY <1>1, <1>2, <1>5, NotBlind DEF FleetInv, NothingOverwrittenUnseen
<1>15. QED BY <1>8, <1>10, <1>11, <1>12, <1>13, <1>14 DEF FleetInv

LEMMA NotSavedSafe ==
  ASSUME FleetInv, NEW c \in Clients, EditNotSaved(c)
  PROVE  FleetInv'
<1>1. Handling(c) /\ Configured(clients[c].machine)
  BY DEF EditNotSaved
<1>2. PICK r, m, old, config :
        /\ r = clients[c] /\ m = r.machine /\ old = memories[m] /\ config = EditedConfig(r)
  OBVIOUS
<1>3. /\ r.op = "edit" /\ m \in Machines /\ IsConfig(old) /\ ~old.none
      /\ Follows(config, old, r.change) /\ memories[m] = old
  BY <1>1, <1>2, Edited
<1>4. /\ Remember(r, config)
      /\ history' = [history EXCEPT !.failed = @ \cup {m}, !.skipped = StillSkipped(r)]
      /\ clients' = [clients EXCEPT ![c] = [op |-> "none"]]
      /\ UNCHANGED <<files, actorVars, rowVars, driverVars, materials>>
  BY <1>2 DEF EditNotSaved, Done, Request
<1>5. /\ history' \in [{"failed", "cut", "kept", "revived", "skipped", "deleted", "blind"}
                         -> SUBSET Machines]
      /\ history'.failed = history.failed \cup {m} /\ history'.cut = history.cut
      /\ history'.kept = history.kept /\ history'.deleted = history.deleted
      /\ history'.blind = history.blind /\ history'.skipped = StillSkipped(r)
      /\ history'.revived = history.revived
  <2>1. StillSkipped(r) \subseteq Machines
    BY DEF FleetInv, FleetTyped, StillSkipped
  <2>2. QED BY <1>3, <1>4, <2>1 DEF FleetInv, FleetTyped
<1>6. Excuses /\ history'.blind = history.blind
  BY <1>5 DEF Excuses
<1>7. /\ memories'[m] = config /\ ~config.none /\ IsConfig(config)
      /\ \A n \in Machines \ {m} : memories'[n] = memories[n]
  <2>1. ~config.none /\ IsConfig(config)
    BY <1>3 DEF Follows
  <2>2. memories' = [memories EXCEPT ![m] = config] /\ DOMAIN memories = Machines
    BY <1>2, <1>4 DEF FleetInv, FleetTyped, Remember
  <2>3. QED BY <1>3, <2>1, <2>2
<1>8. FleetTyped'
  <2>1. /\ DOMAIN memories' = Machines /\ DOMAIN targets' = Machines
        /\ DOMAIN clients' = Clients
    BY <1>4 DEF FleetInv, FleetTyped, Remember
  <2>2. \A n \in Machines : IsConfig(memories'[n])
    BY <1>7 DEF FleetInv, FleetTyped
  <2>3. \A d \in Clients : RequestOK(clients'[d])
    BY <1>4 DEF FleetInv, FleetTyped, RequestOK
  <2>4. UNCHANGED <<files, drivers, registered, late, actors, resolvers, queues, sockets,
                    resets, served, materials>>
    BY <1>4 DEF actorVars, rowVars, driverVars
  <2>5. QED
    BY <1>5, <2>1, <2>2, <2>3, <2>4 DEF FleetInv, FleetTyped
<1>9. /\ actors[m] \in {"up", "stopping"} /\ resolvers[m] \notin {"saved", "committed"}
      /\ actors[m] = "up" => ~files[m].none
      /\ actors[m] = "stopping" => m \in history.deleted
  BY <1>1, <1>2, HandlingFacts
<1>10. MachineOK(m)'
  <2>1. MachineOK(m)
    BY <1>3 DEF FleetInv
  <2>2. ActorOK(m)'
    BY <1>4, <1>5, <1>7, <1>9, <2>1 DEF MachineOK, ActorOK, actorVars, rowVars, driverVars
  <2>3. CopiesOK(m)'
    BY <1>4, <1>5, <2>1 DEF MachineOK, CopiesOK
  <2>4. DriverOK(m)'
    BY <1>3, <1>4, <1>5, <2>1 DEF MachineOK, DriverOK, Fits, driverVars
  <2>5. QED BY <2>2, <2>3, <2>4 DEF MachineOK
<1>11. \A n \in Machines \ {m} : Aside(n)
  BY <1>4, <1>5, <1>7 DEF Aside, actorVars, rowVars, driverVars
<1>12. \A d \in Clients : EditOK(d)'
  <2>1. /\ Handling(c) /\ Configured(clients[c].machine) /\ m = clients[c].machine
        /\ Follows(config, memories[m], clients[c].change)
        /\ files'[m] = config \/ (m \in history'.failed /\ files'[m] = files[m])
        /\ \A n \in Machines \ {m} : memories'[n] = memories[n] /\ files'[n] = files[n]
    BY <1>1, <1>2, <1>3, <1>4, <1>5, <1>7
  <2>2. QED BY <1>3, <1>4, <1>6, <1>7, <2>1, OthersForms
<1>13. \A n \in Machines : TargetOK(n)'
  <2>1. /\ Handling(c) /\ Configured(clients[c].machine) /\ m = clients[c].machine
        /\ Follows(config, memories[m], clients[c].change) /\ Remember(clients[c], config)
    BY <1>1, <1>2, <1>3, <1>4
  <2>2. \A n \in Machines : n \in history.skipped =>
          n \in history'.skipped \/ (n = m /\ LooksUp(clients[c]))
    BY <1>2, <1>5 DEF StillSkipped
  <2>3. QED BY <1>2, <1>3, <1>4, <2>1, <2>2, EditTargets
<1>14. QED BY <1>3, <1>6, <1>8, <1>10, <1>11, <1>12, <1>13, OneMachine

LEMMA CrashInEditSafe ==
  ASSUME FleetInv, NEW c \in Clients, CrashInEdit(c)
  PROVE  FleetInv'
<1>1. Handling(c) /\ Configured(clients[c].machine) /\ actors[clients[c].machine] = "up"
  BY DEF CrashInEdit
<1>2. PICK r, m, config, newFiles, S :
        /\ r = clients[c] /\ m = r.machine /\ config = EditedConfig(r)
        /\ newFiles = [files EXCEPT ![m] = config] /\ S = CutOff \cup {m}
  OBVIOUS
<1>3. m \in Machines /\ IsConfig(config) /\ ~config.none /\ ~files[m].none
  BY <1>1, <1>2, Edited, HandlingFacts DEF Follows
<1>4. /\ Restarted(newFiles) /\ history' = Befallen("cut", S)
      /\ UNCHANGED registered /\ UNCHANGED queues
  BY <1>2 DEF CrashInEdit, rowVars
<1>5. /\ DOMAIN newFiles = Machines
      /\ \A n \in Machines : IsConfig(newFiles[n]) /\ (newFiles[n].none <=> files[n].none)
      /\ \A n \in Machines \ S : newFiles[n] = files[n]
      /\ S \subseteq Machines /\ CutOff \subseteq S
  BY <1>2, <1>3, CutOffFacts
<1>6. QED BY <1>4, <1>5, CutOffFacts, CrashSafe

\* A step of a client alone, which no machine is to be told of.
LEMMA ClientSafe ==
  ASSUME FleetInv, NEW c \in Clients, NEW request, RequestOK(request),
         clients' = [clients EXCEPT ![c] = request],
         UNCHANGED <<configVars, actorVars, rowVars, driverVars, materials, history>>,
         clients[c].op # "material" \/ clients[c].step # "hooks" \/ clients[c].todo = {},
         EditOK(c)'
  PROVE  FleetInv'
<1>1. DOMAIN clients = Clients
  BY DEF FleetInv, FleetTyped
<1>2. clients'[c] = request /\ \A d \in Clients \ {c} : clients'[d] = clients[d]
  BY <1>1
<1>3. FleetTyped'
  <2>1. DOMAIN clients' = Clients /\ \A d \in Clients : RequestOK(clients'[d])
    BY <1>1, <1>2 DEF FleetInv, FleetTyped
  <2>2. QED
    BY <2>1 DEF FleetInv, FleetTyped, configVars, actorVars, rowVars, driverVars, RequestOK,
       IsConfig
<1>4. Excuses
  BY DEF Excuses
<1>5. \A n \in Machines : MachineOK(n)'
  <2>1. ASSUME NEW n \in Machines
        PROVE  Aside(n)
    BY DEF Aside, configVars, actorVars, rowVars, driverVars
  <2>2. QED BY <1>4, <2>1, MachineAside DEF FleetInv
<1>6. ASSUME NEW n \in Machines
      PROVE  TargetOK(n)'
  <2>1. TargetOK(n)
    BY DEF FleetInv
  <2>2. QED BY <1>2, <2>1 DEF TargetOK, TargetOf, Configured, configVars
<1>7. ASSUME NEW d \in Clients
      PROVE  EditOK(d)'
  <2>1. CASE d = c
    BY <2>1
  <2>2. CASE d # c
    BY <1>2, <1>4, <2>2, EditAside DEF FleetInv, configVars
  <2>3. QED BY <2>1, <2>2
<1>8. QED BY <1>3, <1>5, <1>6, <1>7 DEF FleetInv, NothingOverwrittenUnseen

LEMMA FormSafe ==
  ASSUME FleetInv, NEW c \in Clients, NEW m \in Machines, OpenForm(c, m)
  PROVE  FleetInv'
<1> DEFINE request == [op |-> "edit", step |-> "read", machine |-> m, seen |-> memories[m],
                       change |-> "none", value |-> 0]
<1>1. /\ clients[c].op = "none" /\ ~memories[m].none
      /\ clients' = [clients EXCEPT ![c] = request]
      /\ UNCHANGED <<configVars, actorVars, rowVars, driverVars, materials, history>>
  BY DEF OpenForm, Free, Request, Configured
<1>2. IsConfig(memories[m]) /\ DOMAIN clients = Clients
  BY DEF FleetInv, FleetTyped
<1>3. RequestOK(request)
  BY <1>1, <1>2 DEF RequestOK
<1>4. EditOK(c)'
  <2>1. PICK s : s = memories[m] /\ clients'[c].seen = s /\ clients'[c].machine = m
    BY <1>1, <1>2
  <2>2. memories' = memories /\ files' = files /\ history' = history
    BY <1>1 DEF configVars
  <2>3. Seen(s, memories[m])
    BY <1>1, <1>2, <2>1 DEF Seen, IsConfig, NoConfig
  <2>4. ~files[m].none /\ m \notin history.failed => files[m] = s
    BY <1>1, <2>1 DEF FleetInv, MachineOK, CopiesOK
  <2>5. files[m].none => m \in history.deleted
    BY <1>1 DEF FleetInv, MachineOK, ActorOK
  <2>6. QED BY <2>1, <2>2, <2>3, <2>4, <2>5 DEF EditOK
<1>5. QED BY <1>1, <1>3, <1>4, ClientSafe

LEMMA DoneSafe ==
  ASSUME FleetInv, NEW c \in Clients, Done(c),
         UNCHANGED <<configVars, actorVars, rowVars, driverVars, materials, history>>,
         clients[c].op # "material" \/ clients[c].step # "hooks" \/ clients[c].todo = {}
  PROVE  FleetInv'
<1>1. clients' = [clients EXCEPT ![c] = [op |-> "none"]] /\ RequestOK([op |-> "none"])
  BY DEF Done, Request, RequestOK
<1>2. EditOK(c)'
  BY <1>1 DEF EditOK, FleetInv, FleetTyped
<1>3. QED BY <1>1, <1>2, ClientSafe

LEMMA SubmitSafe ==
  ASSUME FleetInv, NEW c \in Clients, SubmitEdit(c)
  PROVE  FleetInv'
<1>1. /\ clients[c].op = "edit"
      /\ UNCHANGED <<configVars, actorVars, rowVars, driverVars, materials, history>>
  BY DEF SubmitEdit
<1>2. CASE Done(c)
  BY <1>1, <1>2, DoneSafe
<1>3. CASE ~Done(c)
  <2>1. PICK r, e : /\ r = clients[c] /\ e \in Changes(r.seen)
                    /\ Request(c, [r EXCEPT !.step = "sent", !.change = e.change,
                                            !.value = e.value])
    BY <1>3 DEF SubmitEdit
  <2>2. PICK request : request = [r EXCEPT !.step = "sent", !.change = e.change,
                                           !.value = e.value]
    OBVIOUS
  <2>3. RequestOK(r) /\ r.op = "edit" /\ EditOK(c)
        /\ DOMAIN r = {"op", "step", "machine", "seen", "change", "value"}
    BY <1>1, <2>1 DEF FleetInv, FleetTyped, RequestOK
  <2>4. /\ DOMAIN request = {"op", "step", "machine", "seen", "change", "value"}
        /\ request.op = "edit" /\ request.step = "sent" /\ request.machine = r.machine
        /\ request.seen = r.seen /\ request.change = e.change /\ request.value = e.value
    BY <2>2, <2>3
  <2>5. /\ e.change \in {"name", "video", "tool", "load"}
        /\ e.change = "name" => e.value \in Nat
        /\ e.change \in {"tool", "load"} => e.value \in Materials \cup {NoMaterial}
    BY <2>1 DEF Changes, Names
  <2>6. RequestOK(request)
    BY <2>3, <2>4, <2>5 DEF RequestOK
  <2>7. clients' = [clients EXCEPT ![c] = request] /\ clients'[c] = request
    BY <2>1, <2>2 DEF Request, FleetInv, FleetTyped
  <2>8. EditOK(c)'
    BY <1>1, <2>1, <2>3, <2>4, <2>7 DEF EditOK, configVars
  <2>9. QED BY <1>1, <2>6, <2>7, <2>8, ClientSafe
<1>4. QED BY <1>2, <1>3

LEMMA RefuseSafe ==
  ASSUME FleetInv, NEW c \in Clients, RefuseEdit(c)
  PROVE  FleetInv'
BY DoneSafe DEF RefuseEdit, Handling

-----------------------------------------------------------------------------
(***************************************************************************)
(* Materials.                                                              *)
(***************************************************************************)
\* A step that changes a material, a target or what was skipped, and no copy.
LEMMA MaterialStep ==
  ASSUME FleetInv, NEW c \in Clients, NEW request, RequestOK(request), request.op # "edit",
         clients' = [clients EXCEPT ![c] = request],
         UNCHANGED <<files, memories, actorVars, rowVars, driverVars>>,
         DOMAIN targets' = Machines, DOMAIN materials' = Materials,
         NEW S, S \subseteq Machines, history' = [history EXCEPT !.skipped = S],
         \A n \in Machines : TargetOK(n)'
  PROVE  FleetInv'
<1>1. DOMAIN clients = Clients
  BY DEF FleetInv, FleetTyped
<1>2. clients'[c] = request /\ \A d \in Clients \ {c} : clients'[d] = clients[d]
  BY <1>1
<1>3. /\ history' \in [{"failed", "cut", "kept", "revived", "skipped", "deleted", "blind"}
                         -> SUBSET Machines]
      /\ history'.failed = history.failed /\ history'.cut = history.cut
      /\ history'.kept = history.kept /\ history'.deleted = history.deleted
      /\ history'.blind = history.blind /\ history'.revived = history.revived
  BY DEF FleetInv, FleetTyped
<1>4. FleetTyped'
  <2>1. DOMAIN clients' = Clients /\ \A d \in Clients : RequestOK(clients'[d])
    BY <1>1, <1>2 DEF FleetInv, FleetTyped
  <2>2. QED
    BY <1>3, <2>1 DEF FleetInv, FleetTyped, actorVars, rowVars, driverVars, RequestOK, IsConfig
<1>5. Excuses
  BY <1>3 DEF Excuses
<1>6. \A n \in Machines : MachineOK(n)'
  <2>1. ASSUME NEW n \in Machines
        PROVE  Aside(n)
    BY <1>3 DEF Aside, actorVars, rowVars, driverVars
  <2>2. QED BY <1>5, <2>1, MachineAside DEF FleetInv
<1>7. \A d \in Clients : EditOK(d)'
  BY <1>2, <1>5, EditAside DEF FleetInv
<1>8. QED BY <1>3, <1>4, <1>6, <1>7 DEF FleetInv, NothingOverwrittenUnseen

LEMMA EditMaterialSafe ==
  ASSUME FleetInv, NEW c \in Clients, NEW x \in Materials, EditMaterial(c, x)
  PROVE  FleetInv'
<1> DEFINE request == [op |-> "material", step |-> "read", material |-> x,
                       read |-> materials[x], todo |-> {}]
<1>1. /\ clients[c].op = "none" /\ clients' = [clients EXCEPT ![c] = request]
      /\ UNCHANGED <<configVars, actorVars, rowVars, driverVars, materials, history>>
  BY DEF EditMaterial, Free, Request
<1>2. RequestOK(request)
  BY DEF RequestOK
<1>3. EditOK(c)'
  BY <1>1 DEF EditOK, FleetInv, FleetTyped
<1>4. QED BY <1>1, <1>2, <1>3, ClientSafe

LEMMA MaterialDoneSafe ==
  ASSUME FleetInv, NEW c \in Clients, MaterialDone(c)
  PROVE  FleetInv'
BY DoneSafe DEF MaterialDone

LEMMA CommitMaterialSafe ==
  ASSUME FleetInv, NEW c \in Clients, CommitMaterial(c)
  PROVE  FleetInv'
<1>1. PICK r, x, request :
        /\ r = clients[c] /\ x = r.material
        /\ request = [r EXCEPT !.step = "hooks", !.todo = served]
  OBVIOUS
<1>2. /\ r.op = "material" /\ r.step = "read" /\ clients' = [clients EXCEPT ![c] = request]
      /\ \/ UNCHANGED materials
         \/ \E row : materials' = [materials EXCEPT ![x] = row]
      /\ history' = Befallen("skipped", {m \in Machines \ served : Holds(m, x)})
      /\ UNCHANGED <<configVars, actorVars, rowVars, driverVars>>
  BY <1>1 DEF CommitMaterial, Request
<1>3. /\ RequestOK(r) /\ x \in Materials /\ served \subseteq Machines
      /\ DOMAIN r = {"op", "step", "material", "read", "todo"}
      /\ DOMAIN clients = Clients /\ DOMAIN materials = Materials
  BY <1>1, <1>2 DEF FleetInv, FleetTyped, RequestOK
<1>4. /\ DOMAIN request = {"op", "step", "material", "read", "todo"}
      /\ request.op = "material" /\ request.step = "hooks" /\ request.material = x
      /\ request.todo = served
  BY <1>1, <1>2, <1>3
<1>5. RequestOK(request)
  BY <1>3, <1>4 DEF RequestOK
<1>6. /\ DOMAIN materials' = Materials
      /\ \A y \in Materials \ {x} : materials'[y] = materials[y]
  BY <1>2, <1>3
<1>7. PICK S : /\ S = history.skipped \cup {m \in Machines \ served : Holds(m, x)}
               /\ S \subseteq Machines /\ history' = [history EXCEPT !.skipped = S]
               /\ history'.skipped = S
  <2>1. PICK T : T = {m \in Machines \ served : Holds(m, x)}
    OBVIOUS
  <2>2. T \subseteq Machines /\ history' = [history EXCEPT !.skipped = history.skipped \cup T]
    BY <1>2, <2>1 DEF Befallen
  <2>3. history.skipped \subseteq Machines /\ "skipped" \in DOMAIN history
    BY DEF FleetInv, FleetTyped
  <2>4. QED BY <2>1, <2>2, <2>3
<1>8. ASSUME NEW n \in Machines, Configured(n)
      PROVE  TargetOK(n)'
  <2>1. TargetOK(n) /\ IsConfig(memories[n]) /\ UNCHANGED <<memories, targets>>
    BY <1>2 DEF FleetInv, FleetTyped, configVars
  <2>2. /\ clients'[c] = request
        /\ \A d \in Clients : clients[d].op = "material" /\ clients[d].step = "hooks" =>
             clients'[d] = clients[d]
    BY <1>1, <1>2, <1>3
  <2>3. CASE memories[n].material = x /\ n \in served
    BY <1>4, <2>1, <2>2, <2>3 DEF TargetOK
  <2>4. CASE memories[n].material = x /\ n \notin served
    BY <1>7, <1>8, <2>4 DEF TargetOK, Holds
  <2>5. CASE memories[n].material # x
    <3>1. memories[n].material \in Materials \cup {NoMaterial} /\ ~memories[n].none
      BY <1>8, <2>1 DEF IsConfig, Configured, NoConfig
    <3>2. TargetOf(memories[n])' = TargetOf(memories[n])
      BY <1>6, <2>1, <2>5, <3>1 DEF TargetOf
    <3>3. QED BY <1>7, <1>8, <2>1, <2>2, <3>2 DEF TargetOK
  <2>6. QED BY <2>3, <2>4, <2>5
<1>9. \A n \in Machines : TargetOK(n)'
  <2>1. ASSUME NEW n \in Machines, ~Configured(n)
        PROVE  TargetOK(n)'
    BY <1>2, <2>1 DEF TargetOK, Configured, configVars
  <2>2. QED BY <1>8, <2>1
<1>10. UNCHANGED <<files, memories>> /\ DOMAIN targets' = Machines
  BY <1>2 DEF configVars, FleetInv, FleetTyped
<1>11. QED BY <1>2, <1>4, <1>5, <1>6, <1>7, <1>9, <1>10, MaterialStep

LEMMA TellSafe ==
  ASSUME FleetInv, NEW c \in Clients, NEW m \in Machines, TellMachine(c, m)
  PROVE  FleetInv'
<1>1. PICK r, x : r = clients[c] /\ x = r.material
  OBVIOUS
<1>2. /\ r.op = "material" /\ r.step = "hooks" /\ m \in r.todo
      /\ UNCHANGED <<files, memories, actorVars, rowVars, driverVars, materials>>
  BY <1>1 DEF TellMachine
<1>3. /\ RequestOK(r) /\ x \in Materials /\ r.todo \subseteq Machines
      /\ DOMAIN r = {"op", "step", "material", "read", "todo"}
      /\ DOMAIN clients = Clients /\ DOMAIN materials = Materials /\ DOMAIN targets = Machines
      /\ history \in [{"failed", "cut", "kept", "revived", "skipped", "deleted", "blind"}
                        -> SUBSET Machines]
  BY <1>1, <1>2 DEF FleetInv, FleetTyped, RequestOK
<1>4. \A n \in Machines : TargetOK(n)
  BY DEF FleetInv
<1>5. CASE Configured(m)
  <2>1. PICK request : request = [r EXCEPT !.todo = @ \ {m}]
    OBVIOUS
  <2>2. /\ DOMAIN request = {"op", "step", "material", "read", "todo"}
        /\ request.op = "material" /\ request.step = "hooks" /\ request.material = x
        /\ request.todo = r.todo \ {m} /\ clients' = [clients EXCEPT ![c] = request]
        /\ clients'[c] = request /\ \A d \in Clients \ {c} : clients'[d] = clients[d]
    BY <1>1, <1>2, <1>3, <1>5, <2>1 DEF TellMachine, Request
  <2>3. RequestOK(request)
    BY <1>3, <2>2 DEF RequestOK
  <2>4. ASSUME NEW n \in Machines \ {m}, targets'[n] = targets[n],
               n \in history.skipped => n \in history'.skipped
        PROVE  TargetOK(n)'
    <3>1. ASSUME NEW d \in Clients, clients[d].op = "material", clients[d].step = "hooks",
                 n \in clients[d].todo
          PROVE  /\ clients'[d].op = "material" /\ clients'[d].step = "hooks"
                 /\ n \in clients'[d].todo /\ clients'[d].material = clients[d].material
      BY <1>1, <2>2, <2>4, <3>1
    <3>2. QED BY <1>2, <1>4, <2>4, <3>1 DEF TargetOK, TargetOf, Configured
  <2>5. CASE Concerns(m, x)
    <3>1. /\ targets' = [targets EXCEPT ![m] = materials[x].temp]
          /\ history' = [history EXCEPT !.skipped = @ \ {m}]
      BY <1>1, <1>5, <2>5 DEF TellMachine
    <3>2. PICK S : /\ S = history.skipped \ {m} /\ S \subseteq Machines
                   /\ history' = [history EXCEPT !.skipped = S] /\ history'.skipped = S
      BY <1>3, <3>1
    <3>3. TargetOK(m)'
      <4>1. ~memories[m].none /\ memories[m].material = x /\ x # NoMaterial
        BY <1>3, <2>5, FleetAssumption DEF Concerns, Holds, Configured
      <4>2. targets'[m] = materials[x].temp
        BY <1>3, <3>1
      <4>3. QED BY <1>2, <4>1, <4>2 DEF TargetOK, TargetOf
    <3>4. \A n \in Machines : TargetOK(n)'
      BY <1>3, <2>4, <3>1, <3>2, <3>3
    <3>5. DOMAIN targets' = Machines /\ DOMAIN materials' = Materials
      BY <1>2, <1>3, <3>1
    <3>6. QED BY <1>2, <2>2, <2>3, <3>2, <3>4, <3>5, MaterialStep
  <2>6. CASE ~Concerns(m, x)
    <3>1. UNCHANGED <<targets, history>>
      BY <1>1, <1>5, <2>6 DEF TellMachine
    <3>2. PICK S : /\ S = history.skipped /\ S \subseteq Machines
                   /\ history' = [history EXCEPT !.skipped = S]
      BY <1>3, <3>1
    <3>3. TargetOK(m)'
      <4>1. memories[m].material # x
        BY <1>5, <2>6 DEF Concerns, Holds
      <4>2. ASSUME NEW d \in Clients, clients[d].op = "material", clients[d].step = "hooks",
                   m \in clients[d].todo, clients[d].material = memories[m].material
            PROVE  clients'[d] = clients[d]
        BY <1>1, <2>2, <4>1, <4>2
      <4>3. QED BY <1>2, <1>4, <3>1, <4>2 DEF TargetOK, TargetOf, Configured
    <3>4. \A n \in Machines : TargetOK(n)'
      BY <2>4, <3>1, <3>3
    <3>5. DOMAIN targets' = Machines /\ DOMAIN materials' = Materials
      BY <1>2, <1>3, <3>1
    <3>6. QED BY <1>2, <2>2, <2>3, <3>2, <3>4, <3>5, MaterialStep
  <2>7. QED BY <2>5, <2>6
<1>6. CASE ~Configured(m)
  <2>1. PICK request : request = [op |-> "none"]
    OBVIOUS
  <2>2. /\ clients' = [clients EXCEPT ![c] = request] /\ RequestOK(request)
        /\ request.op # "edit" /\ clients'[c] = request
        /\ \A d \in Clients \ {c} : clients'[d] = clients[d]
        /\ history' = Befallen("skipped", {n \in r.todo : Holds(n, x)})
        /\ UNCHANGED targets
    BY <1>1, <1>3, <1>6, <2>1 DEF TellMachine, Done, Request, RequestOK
  <2>3. PICK S : /\ S = history.skipped \cup {n \in r.todo : Holds(n, x)}
                 /\ S \subseteq Machines /\ history' = [history EXCEPT !.skipped = S]
                 /\ history'.skipped = S
    BY <1>3, <2>2 DEF Befallen
  <2>4. ASSUME NEW n \in Machines
        PROVE  TargetOK(n)'
    <3>1. CASE n \in r.todo /\ Holds(n, x)
      BY <2>3, <3>1 DEF TargetOK
    <3>2. CASE ~(n \in r.todo /\ Holds(n, x)) /\ Configured(n)
      <4>1. ASSUME NEW d \in Clients, clients[d].op = "material", clients[d].step = "hooks",
                   n \in clients[d].todo, clients[d].material = memories[n].material
            PROVE  clients'[d] = clients[d]
        BY <1>1, <2>2, <3>2, <4>1 DEF Holds
      <4>2. QED BY <1>2, <1>4, <2>2, <2>3, <3>2, <4>1 DEF TargetOK, TargetOf, Configured
    <3>3. CASE ~Configured(n)
      BY <1>2, <3>3 DEF TargetOK, Configured
    <3>4. QED BY <3>1, <3>2, <3>3
  <2>5. DOMAIN targets' = Machines /\ DOMAIN materials' = Materials
    BY <1>2, <1>3, <2>2
  <2>6. QED BY <1>2, <2>2, <2>3, <2>4, <2>5, MaterialStep
<1>7. QED BY <1>5, <1>6

-----------------------------------------------------------------------------
(***************************************************************************)
(* Theorems.                                                               *)
(***************************************************************************)
LEMMA InitSafe == ASSUME FleetInit PROVE FleetInv
<1> DEFINE FirstState(ids, known, copied, material) ==
      /\ files = [m \in Machines |->
           IF m \in known THEN [DefaultConfig(1) EXCEPT !.material = material] ELSE NoConfig]
      /\ queues = [m \in Machines |-> IF m \in known \ copied THEN 1 ELSE 0]
      /\ registered = [m \in Machines |-> IF m \in known \ copied THEN 1 ELSE NoName]
      /\ history = [NoHistory EXCEPT !.cut = copied]
      /\ resolvers = [m \in Machines |-> IF m \in ids THEN "no" ELSE "unused"]
      /\ edits = Cardinality(ids) - 1
<1>1. PICK ids, known, copied, material :
        /\ ids \in SUBSET Machines /\ known \in SUBSET ids /\ copied \in SUBSET known
        /\ material \in Materials \cup {NoMaterial}
        /\ files = [m \in Machines |->
             IF m \in known THEN [DefaultConfig(1) EXCEPT !.material = material] ELSE NoConfig]
        /\ queues = [m \in Machines |-> IF m \in known \ copied THEN 1 ELSE 0]
        /\ registered = [m \in Machines |-> IF m \in known \ copied THEN 1 ELSE NoName]
        /\ history = [NoHistory EXCEPT !.cut = copied]
        /\ resolvers = [m \in Machines |-> IF m \in ids THEN "no" ELSE "unused"]
  <2>1. PICK ids \in (SUBSET Machines) \ {{}} :
          \E known \in SUBSET ids : \E copied \in SUBSET known, material \in Materials \cup {NoMaterial} :
            FirstState(ids, known, copied, material)
    BY DEF FleetInit
  <2>2. PICK known \in SUBSET ids :
          \E copied \in SUBSET known, material \in Materials \cup {NoMaterial} :
            FirstState(ids, known, copied, material)
    BY <2>1
  <2>3. PICK copied \in SUBSET known, material \in Materials \cup {NoMaterial} :
          FirstState(ids, known, copied, material)
    BY <2>2
  <2>4. QED BY <2>3
<1> DEFINE first == [DefaultConfig(1) EXCEPT !.material = material]
<1>2. /\ IsConfig(first) /\ ~first.none /\ first.name = 1
      /\ IsConfig(NoConfig) /\ NoConfig.none
  BY <1>1 DEF IsConfig, DefaultConfig, NoConfig, Fields
<1>3. /\ history \in [{"failed", "cut", "kept", "revived", "skipped", "deleted", "blind"}
                        -> SUBSET Machines]
      /\ history.cut = copied /\ history.deleted = {} /\ history.failed = {}
      /\ history.blind = {}
  BY <1>1 DEF NoHistory
<1>4. FleetTyped
  <2>1. RequestOK([op |-> "none"])
    BY DEF RequestOK
  <2>2. \A m \in Machines : IsConfig(files[m]) /\ IsConfig(memories[m]) /\ IsConfig(drivers[m])
    BY <1>1, <1>2 DEF FleetInit
  <2>3. QED BY <1>1, <1>3, <2>1, <2>2 DEF FleetInit, FleetTyped
<1>5. ASSUME NEW m \in Machines
      PROVE  MachineOK(m) /\ TargetOK(m)
  <2>1. /\ memories[m].none /\ drivers[m].none /\ sockets[m] = "down"
        /\ actors[m] = (IF files[m].none THEN "absent" ELSE "starting")
        /\ resolvers[m] \in {"no", "unused"}
    BY <1>1, <1>2 DEF FleetInit
  <2>2. /\ files[m].none <=> m \notin known
        /\ m \in known => files[m].name = 1
        /\ queues[m] = (IF m \in known \ copied THEN 1 ELSE 0)
        /\ registered[m] = (IF m \in known \ copied THEN 1 ELSE NoName)
    BY <1>1, <1>2
  <2>3. ActorOK(m) /\ CopiesOK(m) /\ DriverOK(m)
    BY <1>3, <2>1, <2>2 DEF ActorOK, CopiesOK, DriverOK
  <2>4. QED BY <2>1, <2>3 DEF MachineOK, TargetOK, Configured
<1>6. \A c \in Clients : EditOK(c)
  BY DEF FleetInit, EditOK
<1>7. QED BY <1>3, <1>4, <1>5, <1>6 DEF FleetInv, NothingOverwrittenUnseen

LEMMA StepSafe == FleetInv /\ [FleetNext]_fleetVars => FleetInv'
<1>1. ASSUME FleetInv, NEW m \in Machines, MachineOf(m)
      PROVE  FleetInv'
  BY <1>1, StartSafe, ConnectSafe, DriverExitsSafe, ClosedSafe, SendResetSafe, AddDeviceSafe,
     StopActorSafe, CreateSavesSafe, CreateCommitsSafe, CreateStartsSafe, ServeSafe,
     HandleDeleteSafe, CrashInDeleteSafe DEF MachineOf
<1>2. ASSUME FleetInv, NEW c \in Clients, ClientOf(c)
      PROVE  FleetInv'
  BY <1>2, FormSafe, TellSafe, SubmitSafe, RefuseSafe, SaveSafe, NotSavedSafe, CrashInEditSafe,
     EditMaterialSafe, CommitMaterialSafe, MaterialDoneSafe DEF ClientOf
<1>3. ASSUME FleetInv, UNCHANGED fleetVars
      PROVE  FleetInv'
  <2>1. /\ FleetTyped' /\ Excuses
        /\ UNCHANGED <<files, memories, targets, materials, clients, history>>
    BY <1>3 DEF fleetVars, configVars, actorVars, rowVars, driverVars, FleetInv, FleetTyped,
       IsConfig, RequestOK, Excuses
  <2>2. ASSUME NEW n \in Machines
        PROVE  Aside(n)
    BY <1>3 DEF fleetVars, configVars, actorVars, rowVars, driverVars, Aside
  <2>3. \A n \in Machines : MachineOK(n)' /\ TargetOK(n)'
    BY <1>3, <2>1, <2>2, MachineAside, TargetAside DEF FleetInv
  <2>4. \A c \in Clients : EditOK(c)'
    BY <1>3, <2>1, EditAside DEF FleetInv
  <2>5. QED BY <1>3, <2>1, <2>3, <2>4 DEF FleetInv, NothingOverwrittenUnseen
<1>4. QED BY <1>1, <1>2, <1>3, ServerCrashSafe DEF FleetNext

\* Of each machine, what its file, its actor, its driver and its rows have to do
\* with each other in every state, and what forms were filled in from.
THEOREM FleetInvariant == FleetSpec => []FleetInv
<1>1. QED BY InitSafe, StepSafe, PTL DEF FleetSpec

\* No edit overwrites what its author has not seen, for any clients, edits and
\* crashes, unless a file could not be saved.
THEOREM UnseenCorrect == FleetSpec => []NothingOverwrittenUnseen
<1>1. FleetInv => NothingOverwrittenUnseen
  BY DEF FleetInv
<1>2. QED BY <1>1, FleetInvariant, PTL

\* A toolhead is heated for its material as it is, or that is about to be looked
\* up, but for the machines that the hooks skipped.
THEOREM TargetsCorrect == FleetSpec => []TargetsCurrent
<1>1. FleetInv => TargetsCurrent
  BY DEF FleetInv, TargetsCurrent, TargetOK
<1>2. QED BY <1>1, FleetInvariant, PTL

\* Files, queues, registered names and deletions agree, but for what a crash or a
\* failure has come between.
THEOREM StoresCorrect == FleetSpec => []StoresAgree
<1>1. FleetInv => StoresAgree
  BY DEF FleetInv, MachineOK, ActorOK, CopiesOK, StoresAgree
<1>2. QED BY <1>1, FleetInvariant, PTL

\* A driver runs with the configuration in the file, or is going to be reset.
THEOREM DriverCorrect == FleetSpec => []DriverCatchesUp
<1>1. FleetInv => DriverCatchesUp
  BY DEF FleetInv, MachineOK, DriverOK, Fits, Used, DriverCatchesUp
<1>2. QED BY <1>1, FleetInvariant, PTL
=============================================================================
