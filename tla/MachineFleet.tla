---------------------------- MODULE MachineFleet ----------------------------
(***************************************************************************)
(* The machines of a server: the configuration file of each, the copy that *)
(* its actor keeps, the one its driver runs with, and its rows in the      *)
(* database.  Clients create, configure and delete machines and edit the   *)
(* materials that toolheads hold; each actor handles its messages one at a *)
(* time, and what a handler has begun is cut off where the server crashes. *)
(***************************************************************************)
EXTENDS Integers, FiniteSets

CONSTANTS
  Machines, Materials, Clients,
  MaxEdits,        \* how many changes the clients ask for
  MaxFleetFaults   \* files that cannot be written or removed, and crashes

NoMaterial == "no material"

ASSUME FleetAssumption ==
  /\ IsFiniteSet(Machines) /\ IsFiniteSet(Materials) /\ NoMaterial \notin Materials
  /\ IsFiniteSet(Clients) /\ Clients \subseteq Nat
  /\ MaxEdits \in Nat /\ MaxFleetFaults \in Nat

VARIABLES
  files,       \* machine-<id>.toml
  memories,    \* the configuration that the actor keeps
  targets,     \* the temperature the toolhead is to have for its material
  actors,      \* absent, starting, up, stopping, or noop once there is no file
  late,        \* clients whose messages are in the mailbox before its Stop
  served,      \* the server's map of machines
  resolvers,   \* how far create_machine or delete_machine has come
  queues,      \* rows of the machine's print queues
  registered,  \* the name in the row for the signalling server
  drivers,     \* the configuration the driver runs with
  sockets,     \* the actor's connection to the driver
  resets,      \* where a ResetWhenIdle is: in the mailbox, at the driver
  materials,   \* rows of materials
  clients,     \* each client's request
  edits, fleetFaults,
  history      \* which machines an exception has befallen

configVars == <<files, memories, targets>>
actorVars == <<actors, late, served, resolvers>>
rowVars == <<queues, registered>>
driverVars == <<drivers, sockets, resets>>
fleetVars == <<configVars, actorVars, rowVars, driverVars, materials, clients, edits,
               fleetFaults, history>>

NoConfig == [none |-> TRUE]
NoName == 0
Names == {1, 2}

\* What machine.default.toml holds, as far as it is edited here: the core plugin,
\* the toolhead, and whether there is a video component.
DefaultConfig(name) ==
  [none |-> FALSE, name |-> name, pluginVersion |-> 0, video |-> FALSE,
   material |-> NoMaterial, feed |-> 1, toolVersion |-> 0]

Configured(m) == ~memories[m].none

\* Toolhead::set_material looks the material up, deleted or not.
TargetOf(config) ==
  IF config.none \/ config.material = NoMaterial THEN 0 ELSE materials[config.material].temp

FleetFault == fleetFaults < MaxFleetFaults /\ fleetFaults' = fleetFaults + 1

NoHistory == [failed |-> {}, cut |-> {}, kept |-> {}, revived |-> {}, skipped |-> {},
              deleted |-> {}, blind |-> {}]

Befallen(exception, S) == [history EXCEPT ![exception] = @ \cup S]

\* Files of machines the server made, or that somebody copied into its directory,
\* with the same material or none, and ids of others that are made later. With more
\* of them there are fewer edits.
FleetInit ==
  /\ \E ids \in (SUBSET Machines) \ {{}} : \E known \in SUBSET ids : \E copied \in SUBSET known,
         material \in Materials \cup {NoMaterial} :
       /\ files = [m \in Machines |->
            IF m \in known THEN [DefaultConfig(1) EXCEPT !.material = material] ELSE NoConfig]
       /\ queues = [m \in Machines |-> IF m \in known \ copied THEN 1 ELSE 0]
       /\ registered = [m \in Machines |-> IF m \in known \ copied THEN 1 ELSE NoName]
       /\ history = [NoHistory EXCEPT !.cut = copied]
       /\ resolvers = [m \in Machines |-> IF m \in ids THEN "no" ELSE "unused"]
       /\ edits = Cardinality(ids) - 1
  /\ memories = [m \in Machines |-> NoConfig]
  /\ targets = [m \in Machines |-> 0]
  /\ actors = [m \in Machines |-> IF files[m].none THEN "absent" ELSE "starting"]
  /\ late = [m \in Machines |-> {}]
  /\ served = {m \in Machines : ~files[m].none}
  /\ drivers = [m \in Machines |-> NoConfig]
  /\ sockets = [m \in Machines |-> "down"]
  /\ resets = [m \in Machines |-> {}]
  /\ materials = [x \in Materials |-> [temp |-> 1, version |-> 0]]
  /\ clients = [c \in Clients |-> [op |-> "none"]]
  /\ fleetFaults = 0

\* The server goes down, with all it keeps in memory, and comes up again: it starts
\* an actor for each file.  Drivers go on running.
Restarted(newFiles) ==
  /\ files' = newFiles
  /\ memories' = [m \in Machines |-> NoConfig]
  /\ targets' = [m \in Machines |-> 0]
  /\ actors' = [m \in Machines |-> IF newFiles[m].none THEN "absent" ELSE "starting"]
  /\ late' = [m \in Machines |-> {}]
  /\ served' = {m \in Machines : ~newFiles[m].none}
  /\ resolvers' = [m \in Machines |-> IF resolvers[m] = "unused" THEN "unused" ELSE "no"]
  /\ sockets' = [m \in Machines |-> "down"]
  /\ resets' = [m \in Machines |-> resets[m] \ {"mail"}]
  /\ clients' = [c \in Clients |-> [op |-> "none"]]
  /\ UNCHANGED <<drivers, materials, edits>>

\* What a crash leaves behind: resets that were not sent, rows not committed.
CutOff == {m \in Machines : "mail" \in resets[m] \/ resolvers[m] = "saved"}

ServerCrash ==
  /\ FleetFault
  /\ Restarted(files)
  /\ history' = Befallen("cut", CutOff)
  /\ UNCHANGED rowVars

-----------------------------------------------------------------------------
\* The actor starts, reads its file and connects to the driver

\* create_default_print_queue: a queue, and the row that ties it to the machine.
WithQueue(m) == [queues EXCEPT ![m] = @ + 1]

\* Before it starts, a machine whose file was copied into the directory gets one.
WithQueueEnsured(m) == IF queues[m] = 0 THEN WithQueue(m) ELSE queues

\* Machine::started: without a file the actor does nothing from then on, otherwise
\* the hooks see to it that the machine has a print queue.
StartMachine(m) ==
  /\ actors[m] = "starting"
  /\ actors' = [actors EXCEPT ![m] = IF files[m].none THEN "noop" ELSE "up"]
  /\ queues' = IF files[m].none THEN queues ELSE WithQueueEnsured(m)
  /\ UNCHANGED <<configVars, late, served, resolvers, registered, driverVars, materials,
                 clients, edits, fleetFaults, history>>

\* reset_data: the file is read again, and the targets are looked up.
DataReset(m) ==
  /\ memories' = [memories EXCEPT ![m] = files[m]]
  /\ targets' = [targets EXCEPT ![m] = TargetOf(files[m])]
  /\ history' = [history EXCEPT !.skipped = @ \ {m}]

\* ConnectToSocket; a driver that does not run is spawned, and reads the file.
ConnectMachine(m) ==
  /\ actors[m] = "up" /\ sockets[m] = "down" /\ ~files[m].none
  /\ IF Configured(m) THEN UNCHANGED <<memories, targets, history>> ELSE DataReset(m)
  /\ drivers' = IF drivers[m].none THEN [drivers EXCEPT ![m] = files[m]] ELSE drivers
  /\ sockets' = [sockets EXCEPT ![m] = "up"]
  /\ UNCHANGED <<files, actorVars, rowVars, resets, materials, clients, edits, fleetFaults>>

\* The driver exits when it is idle and has been told to reset.
DriverExits(m) ==
  /\ ~drivers[m].none /\ "driver" \in resets[m]
  /\ drivers' = [drivers EXCEPT ![m] = NoConfig]
  /\ resets' = [resets EXCEPT ![m] = @ \ {"driver"}]
  /\ sockets' = [sockets EXCEPT ![m] = IF @ = "up" THEN "closed" ELSE @]
  /\ UNCHANGED <<configVars, actorVars, rowVars, materials, clients, edits, fleetFaults,
                 history>>

\* The actor is told that the socket is closed: its data is reset, and it stops if
\* the file is gone.
HandleSocketClosed(m) ==
  /\ actors[m] = "up" /\ sockets[m] = "closed"
  /\ sockets' = [sockets EXCEPT ![m] = "down"]
  /\ IF files[m].none
     THEN /\ actors' = [actors EXCEPT ![m] = "starting"]
          /\ memories' = [memories EXCEPT ![m] = NoConfig]
          /\ UNCHANGED <<targets, history>>
     ELSE DataReset(m) /\ UNCHANGED actors
  /\ UNCHANGED <<files, late, served, resolvers, rowVars, drivers, resets, materials,
                 clients, edits, fleetFaults>>

\* The handler of ResetWhenIdle: without a connection the actor is restarted.
SendReset(m) ==
  /\ actors[m] \in {"up", "noop"} /\ "mail" \in resets[m]
  /\ IF sockets[m] = "up"
     THEN /\ resets' = [resets EXCEPT ![m] = {"driver"}]
          /\ UNCHANGED <<actors, memories, sockets>>
     ELSE /\ resets' = [resets EXCEPT ![m] = @ \ {"mail"}]
          /\ actors' = [actors EXCEPT ![m] = "starting"]
          /\ memories' = [memories EXCEPT ![m] = NoConfig]
          /\ sockets' = [sockets EXCEPT ![m] = "down"]
  /\ UNCHANGED <<files, targets, late, served, resolvers, rowVars, drivers, materials,
                 clients, edits, fleetFaults, history>>

\* AddDevice: the machine's serial port has come back, and its driver has not yet.
\* (Bound: before the first edit.)
AddDevice(m) ==
  /\ actors[m] = "up" /\ sockets[m] = "up" /\ resets[m] = {}
  /\ edits = 0
  /\ resets' = [resets EXCEPT ![m] = @ \cup {"mail"}]
  /\ UNCHANGED <<configVars, actorVars, rowVars, drivers, sockets, materials, clients, edits,
                 fleetFaults, history>>

-----------------------------------------------------------------------------
\* create_machine and delete_machine

\* The rows are inserted by a transaction that is open while the file is saved.
\* An id is never used again.
CreateSaves(m) ==
  /\ actors[m] = "absent" /\ files[m].none /\ resolvers[m] = "no"
  /\ m \notin history.deleted
  /\ edits < MaxEdits /\ edits' = edits + 1
  /\ files' = [files EXCEPT ![m] = DefaultConfig(1)]
  /\ resolvers' = [resolvers EXCEPT ![m] = "saved"]
  /\ UNCHANGED <<memories, targets, actors, late, served, rowVars, driverVars, materials,
                 clients, fleetFaults, history>>

\* MachineSignallingUpdate::create: the row replaces the ones the machine had.
Registered(m, name) == [registered EXCEPT ![m] = name]

CreateCommits(m) ==
  /\ resolvers[m] = "saved"
  /\ resolvers' = [resolvers EXCEPT ![m] = "committed"]
  /\ queues' = WithQueue(m)
  /\ registered' = Registered(m, files[m].name)
  /\ UNCHANGED <<configVars, actors, late, served, driverVars, materials, clients, edits,
                 fleetFaults, history>>

CreateStarts(m) ==
  /\ resolvers[m] = "committed"
  /\ resolvers' = [resolvers EXCEPT ![m] = "started"]
  /\ actors' = [actors EXCEPT ![m] = "starting"]
  /\ UNCHANGED <<configVars, late, served, rowVars, driverVars, materials, clients, edits,
                 fleetFaults, history>>

\* The map is replaced as a whole; requests go on with the one they have loaded.
Serve(m) ==
  /\ resolvers[m] \in {"started", "removing"}
  /\ resolvers' = [resolvers EXCEPT ![m] = "no"]
  /\ served' = IF resolvers[m] = "started" THEN served \cup {m} ELSE served \ {m}
  /\ UNCHANGED <<configVars, actors, late, rowVars, driverVars, materials, clients, edits,
                 fleetFaults, history>>

SentTo(m) == {c \in Clients : clients[c].op = "edit" /\ clients[c].step = "sent"
                              /\ clients[c].machine = m}

\* DeleteMachine: the queue's rows, then the file, then the driver; that the file
\* is not removed is ignored, and that the driver is not killed is given up.
HandleDelete(m) ==
  /\ actors[m] = "up" /\ m \in served /\ resolvers[m] = "no"
  /\ edits < MaxEdits /\ edits' = edits + 1
  /\ queues' = [queues EXCEPT ![m] = 0]
  /\ \E removed, killed \in BOOLEAN :
       /\ IF removed /\ killed THEN UNCHANGED fleetFaults ELSE FleetFault
       /\ files' = IF removed THEN [files EXCEPT ![m] = NoConfig] ELSE files
       /\ drivers' = IF killed THEN [drivers EXCEPT ![m] = NoConfig] ELSE drivers
       /\ history' = [history EXCEPT !.deleted = @ \cup {m},
                                     !.kept = IF removed THEN @ ELSE @ \cup {m}]
  /\ actors' = [actors EXCEPT ![m] = "stopping"]
  /\ late' = [late EXCEPT ![m] = SentTo(m)]
  /\ resolvers' = [resolvers EXCEPT ![m] = "removing"]
  /\ UNCHANGED <<memories, targets, served, registered, sockets, resets, materials, clients>>

\* The rows of the queue are gone, and the server is, too.
CrashInDelete(m) ==
  /\ actors[m] = "up" /\ m \in served /\ resolvers[m] = "no"
  /\ FleetFault
  /\ Restarted(files)
  /\ queues' = [queues EXCEPT ![m] = 0]
  /\ history' = Befallen("cut", CutOff)
  /\ UNCHANGED registered

\* Stop comes behind what was in the mailbox; the supervisor starts the actor anew.
StopMachineActor(m) ==
  /\ actors[m] = "stopping" /\ late[m] \cap SentTo(m) = {}
  /\ actors' = [actors EXCEPT ![m] = "starting"]
  /\ memories' = [memories EXCEPT ![m] = NoConfig]
  /\ sockets' = [sockets EXCEPT ![m] = "down"]
  /\ late' = [late EXCEPT ![m] = {}]
  /\ UNCHANGED <<files, targets, served, resolvers, rowVars, drivers, resets, materials,
                 clients, edits, fleetFaults, history>>

-----------------------------------------------------------------------------
\* Edits of a configuration: the client reads it, and sends what it is to be

Request(c, request) == clients' = [clients EXCEPT ![c] = request]
Done(c) == Request(c, [op |-> "none"])

\* Clients are alike: it is the first one without a request that makes one.
Free(c) == /\ clients[c].op = "none"
           /\ \A d \in Clients : d < c => clients[d].op # "none"

OpenForm(c, m) ==
  /\ Free(c) /\ edits < MaxEdits /\ edits' = edits + 1
  /\ m \in served /\ actors[m] = "up" /\ Configured(m)
  /\ Request(c, [op |-> "edit", step |-> "read", machine |-> m, seen |-> memories[m],
                 change |-> "none", value |-> 0])
  /\ UNCHANGED <<configVars, actorVars, rowVars, driverVars, materials, fleetFaults, history>>

\* The client asks for something else than it has seen.
Changes(seen) ==
  [change : {"name"}, value : Names \ {seen.name}]
  \cup [change : {"video"}, value : BOOLEAN \ {seen.video}]
  \cup [change : {"tool"}, value : Materials \cup {NoMaterial}]
  \cup [change : {"load"}, value : (Materials \cup {NoMaterial}) \ {seen.material}]

SubmitEdit(c) ==
  LET r == clients[c] IN
  /\ r.op = "edit" /\ r.step = "read"
  /\ IF r.machine \in served
     THEN \E e \in Changes(r.seen) :
            Request(c, [r EXCEPT !.step = "sent", !.change = e.change, !.value = e.value])
     ELSE Done(c)
  /\ UNCHANGED <<configVars, actorVars, rowVars, driverVars, materials, edits, fleetFaults,
                 history>>

\* mutant: the version of the plugin is not looked at
UncheckedConflict(r) ==
  r.change = "tool" /\ memories[r.machine].toolVersion # r.seen.toolVersion

\* UpdatePlugin and UpdateComponent: the version is the one that the client has
\* read.  Components are created and removed, and materials loaded, unasked.
Conflict(r) ==
  \/ r.change = "name" /\ memories[r.machine].pluginVersion # r.seen.pluginVersion
  \/ r.change = "tool" /\ memories[r.machine].toolVersion # r.seen.toolVersion

Renamed(config, name) == [config EXCEPT !.name = name, !.pluginVersion = @ + 1]

\* CreateComponent and RemoveComponent
WithVideo(config, there) == [config EXCEPT !.video = there]

WithToolhead(config, material) ==
  [config EXCEPT !.material = material, !.feed = 3 - @, !.toolVersion = @ + 1]

\* SetMaterial: only the material of the toolhead is another one.
Loaded(config, material) == [config EXCEPT !.material = material, !.toolVersion = @ + 1]

EditedConfig(r) ==
  LET config == memories[r.machine] IN
  CASE r.change = "name" -> Renamed(config, r.value)
    [] r.change = "video" -> WithVideo(config, r.value)
    [] r.change = "tool" -> WithToolhead(config, r.value)
    [] r.change = "load" -> Loaded(config, r.value)

\* The client overwrites something it has not seen.
Blind(r) ==
  LET config == memories[r.machine] IN
  \/ r.change = "name" /\ config.name # r.seen.name
  \/ r.change = "tool" /\ <<config.material, config.feed>> # <<r.seen.material, r.seen.feed>>

\* The actor handles c's message: it is no longer, or still, with its data.
Handling(c) ==
  /\ clients[c].op = "edit" /\ clients[c].step = "sent"
  /\ LET m == clients[c].machine IN
       actors[m] \in {"up", "noop"} \/ (actors[m] = "stopping" /\ c \in late[m])

\* No data, a conflict, or a print that keeps the material from being changed.
RefuseEdit(c) ==
  LET r == clients[c] IN
  /\ Handling(c)
  /\ Configured(r.machine) => Conflict(r) \/ r.change = "load"
  /\ Done(c)
  /\ UNCHANGED <<configVars, actorVars, rowVars, driverVars, materials, edits, fleetFaults,
                 history>>

\* The target is looked up for a material that is loaded, or that an edit of the
\* toolhead changes; another edit of the toolhead leaves it as it is.
LooksUp(r) ==
  \/ r.change = "load"
  \/ r.change = "tool" /\ r.value # memories[r.machine].material

\* What the actor keeps is changed before the file is.
Remember(r, config) ==
  /\ memories' = [memories EXCEPT ![r.machine] = config]
  /\ targets' = IF LooksUp(r)
                THEN [targets EXCEPT ![r.machine] = TargetOf(config)] ELSE targets

StillSkipped(r) == IF LooksUp(r) THEN history.skipped \ {r.machine} ELSE history.skipped

\* mutant: a component is removed or created without a reset of the driver
ResetsNameOnly(change) == change \in {"name", "tool"}

\* Materials are loaded without resetting the driver, which does not use them.
ResetsDriver(change) == change # "load"

\* mutant: the row of the machine keeps its name
RegisteredOnce(m, change, config) == registered[m]

\* after_plugin_update: the name of the machine is registered.
RegisteredName(m, change, config) ==
  IF change = "name" THEN config.name ELSE registered[m]

SaveEdit(c) ==
  LET r == clients[c]  m == r.machine  config == EditedConfig(r) IN
  /\ Handling(c) /\ Configured(m) /\ ~Conflict(r)
  /\ Remember(r, config)
  /\ files' = [files EXCEPT ![m] = config]
  /\ resets' = IF ResetsDriver(r.change)
               THEN [resets EXCEPT ![m] = @ \cup {"mail"}] ELSE resets
  /\ registered' = Registered(m, RegisteredName(m, r.change, config))
  /\ history' = [history EXCEPT
       !.blind = IF Blind(r) THEN @ \cup {m} ELSE @,
       !.skipped = StillSkipped(r),
       !.revived = IF actors[m] = "stopping" THEN @ \cup {m} ELSE @]
  /\ Done(c)
  /\ UNCHANGED <<actorVars, queues, drivers, sockets, materials, edits, fleetFaults>>

\* The client is told of an error, and the actor keeps the change all the same.
EditNotSaved(c) ==
  LET r == clients[c] IN
  /\ Handling(c) /\ Configured(r.machine) /\ ~Conflict(r)
  /\ FleetFault
  /\ Remember(r, EditedConfig(r))
  /\ history' = [history EXCEPT !.failed = @ \cup {r.machine}, !.skipped = StillSkipped(r)]
  /\ Done(c)
  /\ UNCHANGED <<files, actorVars, rowVars, driverVars, materials, edits>>

\* The server goes down when the file has been written, and nothing else.
CrashInEdit(c) ==
  LET r == clients[c]  m == r.machine IN
  /\ Handling(c) /\ Configured(m) /\ ~Conflict(r) /\ actors[m] = "up"
  /\ FleetFault
  /\ Restarted([files EXCEPT ![m] = EditedConfig(r)])
  /\ history' = Befallen("cut", CutOff \cup {m})
  /\ UNCHANGED rowVars

-----------------------------------------------------------------------------
\* update_material, and its hook, which has every machine look it up again

EditMaterial(c, x) ==
  /\ Free(c) /\ edits < MaxEdits /\ edits' = edits + 1
  /\ Request(c, [op |-> "material", step |-> "read", material |-> x,
                 read |-> materials[x], todo |-> {}])
  /\ UNCHANGED <<configVars, actorVars, rowVars, driverVars, materials, fleetFaults, history>>

Holds(m, x) == Configured(m) /\ memories[m].material = x

\* A row of another version is left as it is, and the machines are told all the same.
CommitMaterial(c) ==
  LET r == clients[c]  x == r.material IN
  /\ r.op = "material" /\ r.step = "read"
  /\ materials' = IF materials[x].version = r.read.version
                  THEN [materials EXCEPT ![x] = [temp |-> r.read.temp + 1,
                                                 version |-> r.read.version + 1]]
                  ELSE materials
  /\ Request(c, [r EXCEPT !.step = "hooks", !.todo = served])
  /\ history' = Befallen("skipped", {m \in Machines \ served : Holds(m, x)})
  /\ UNCHANGED <<configVars, actorVars, rowVars, driverVars, edits, fleetFaults>>

\* mutant: machines that hold the material are passed over
ConcernsOthers(m, x) == ~Holds(m, x)

Concerns(m, x) == Holds(m, x)

\* ResetMaterialTargets, machine by machine; one without data ends the loop.
TellMachine(c, m) ==
  LET r == clients[c]  x == r.material IN
  /\ r.op = "material" /\ r.step = "hooks" /\ m \in r.todo
  /\ actors[m] \in {"up", "noop", "stopping"}
  /\ IF Configured(m)
     THEN /\ Request(c, [r EXCEPT !.todo = @ \ {m}])
          /\ IF Concerns(m, x)
             THEN /\ targets' = [targets EXCEPT ![m] = materials[x].temp]
                  /\ history' = [history EXCEPT !.skipped = @ \ {m}]
             ELSE UNCHANGED <<targets, history>>
     ELSE /\ Done(c)
          /\ history' = Befallen("skipped", {n \in r.todo : Holds(n, x)})
          /\ UNCHANGED targets
  /\ UNCHANGED <<files, memories, actorVars, rowVars, driverVars, materials, edits,
                 fleetFaults>>

MaterialDone(c) ==
  /\ clients[c].op = "material" /\ clients[c].step = "hooks" /\ clients[c].todo = {}
  /\ Done(c)
  /\ UNCHANGED <<configVars, actorVars, rowVars, driverVars, materials, edits, fleetFaults,
                 history>>

MachineOf(m) ==
  \/ StartMachine(m) \/ ConnectMachine(m) \/ DriverExits(m) \/ HandleSocketClosed(m)
  \/ SendReset(m) \/ AddDevice(m) \/ StopMachineActor(m)
  \/ CreateSaves(m) \/ CreateCommits(m) \/ CreateStarts(m) \/ Serve(m)
  \/ HandleDelete(m) \/ CrashInDelete(m)

ClientOf(c) ==
  \/ \E m \in Machines : OpenForm(c, m) \/ TellMachine(c, m)
  \/ SubmitEdit(c) \/ RefuseEdit(c) \/ SaveEdit(c) \/ EditNotSaved(c) \/ CrashInEdit(c)
  \/ \E x \in Materials : EditMaterial(c, x)
  \/ CommitMaterial(c) \/ MaterialDone(c)

FleetNext ==
  \/ \E m \in Machines : MachineOf(m)
  \/ \E c \in Clients : ClientOf(c)
  \/ ServerCrash

FleetSpec == FleetInit /\ [][FleetNext]_fleetVars

-----------------------------------------------------------------------------
(* Properties *)

\* No edit overwrites what its author has not seen, although the actor's copy is
\* read anew from the file in between, unless a file could not be saved: what was
\* kept of that edit has the version that the next one gets.
NothingOverwrittenUnseen == history.blind \subseteq history.failed

\* The toolhead is heated for its material as it is now, unless that is about to
\* be looked up: but not by a machine that the hooks did not come to, as another
\* had no data, or as the map did not hold it yet, or any more.
TargetsCurrent ==
  \A m \in Machines : Configured(m) =>
    \/ targets[m] = TargetOf(memories[m])
    \/ m \in history.skipped
    \/ \E c \in Clients : /\ clients[c].op = "material" /\ clients[c].step = "hooks"
                          /\ m \in clients[c].todo
                          /\ clients[c].material = memories[m].material

\* The database and the files agree: a machine that runs has a print queue, and is
\* registered by its name, unless a crash came between the file and the rows or the
\* file could not be saved; and one that was deleted has no file, unless that could
\* not be removed or an edit behind the deletion wrote it once more.
StoresAgree ==
  \A m \in Machines : ~files[m].none =>
    /\ actors[m] = "up" => queues[m] = 1
    /\ \/ registered[m] = files[m].name
       \/ resolvers[m] = "saved" \/ m \in history.cut \cup history.failed
    /\ m \in history.deleted => m \in history.kept \cup history.revived

\* A driver runs with the configuration in the file, or is going to be reset,
\* unless the server crashed in between, the machine is deleted, or an edit could
\* not be saved: loading a material writes it later, and resets nothing.
DriverCatchesUp ==
  \A m \in Machines : ~files[m].none /\ ~drivers[m].none =>
    LET Used(config) == <<config.name, config.video, config.feed>> IN
    \/ Used(drivers[m]) = Used(files[m])
    \/ resets[m] # {} \/ m \in history.cut \cup history.deleted \cup history.failed
=============================================================================
