# PrintSpool in TLA+

Formal models of [PrintSpool](../src/README.md), a print server for 3D printers,
with the model checking and the proofs that go with them. Paths below are
relative to `src/crates/` unless they start with `src/`.

1. [Components](#components)
2. [Plan](#plan)
3. [The Marlin driver](#the-marlin-driver)
4. [The machine actor and the life of a task](#the-machine-actor-and-the-life-of-a-task)
5. [The print queue](#the-print-queue)
6. [The services around the machines](#the-services-around-the-machines)
7. [Properties](#properties)
8. [Runs](#runs): bounds, fairness
9. [Proofs](#proofs)
10. [Where the code departs from its documentation](#where-the-code-departs-from-its-documentation)
11. [Not modelled](#not-modelled)

To run a check, `tlc -config DriverClean.cfg MCMarlinDriver` (the run table names the
module of each configuration); to check the proofs, `tlapm` on
`MarlinDriverProofs.tla`, `MachineActorProofs.tla`, `LossProofs.tla` (which extends the one
before it), `PrintQueueProofs.tla`, `FleetProofs.tla`, `DataChannelProofs.tla`,
`ServicesProofs.tla` (the accounts and the serial ports) and `RecursionLemmas.tla`, whose
lemmas the larger ones use.

## Components

A PrintSpool installation is a server process and one driver process per printer.
The server holds a `Machine` actor per printer, the print queue and a GraphQL API,
and keeps its records in PostgreSQL. A driver speaks G-Code to the firmware over
a serial port. Server and driver exchange protobuf messages over a Unix socket:
`ServerMessage`s one way, and a `Feedback` (the status of the machine and the
progress of each task) the other. Clients reach the server over data channels that
a signalling server sets up, and log in with invites.

| Component | State | Operations | What is hard | What makes it correct | Module |
|---|---|---|---|---|---|
| Driver state machine (`marlin/src/state_machine`) | `State`, `ReadyState`, `Context.feedback`, `reset_when_idle` | `consume`: one handler per event | acknowledgements, polls, tickles, messages and faults in any order | no line lost, repeated or out of order; the feedback agrees with the spool; it never waits for nothing | `MarlinDriver` |
| Spool (`task.rs`, `ready_state.rs`) | tasks, positions, line numbers | spool, override, despool, pause, resume | overrides and pauses between two lines of a task | no task lost, order kept | `DriverSpool` |
| Reactor and effects (`lib.rs`, `effect.rs`) | bounded channel, timers | tick, delay, cancel, exit | cancelled timers that have fired, a full channel | a timer ends with the state that armed it | `MarlinDriver` |
| Serial manager (`serial_manager.rs`) | port, reader and writer | open, close, send | unplugging, events of a port that is closed | panics only behind a lost port | `MarlinDriver` |
| Protobuf server (`protobuf_server.rs`) | connections, broadcast ring | accept, forward | feedback is broadcast and may be stale or dropped | order of messages kept | `MarlinDriver` |
| Firmware (external) | next line number, executed lines | acknowledge, ask again, restart | corruption, loss, restarts | | `MarlinDriver` |
| Machine actor (`machine/src/machine`) | status, connection, mailbox | connect, spool, pause, resume, stop, reset | a record, a status and a message that must agree; restarts of the actor, the driver and the server | always on its way to a connection; a resumed print has left the driver | `MachineActor` |
| Receive stream (`machine/.../receive_stream`) | task records | feedback to records, settle, hooks | stale feedback, first feedback after a reconnection, two writers of one record | each task settles once, unless its print is spooled after it settled; nothing that was lost stays recorded as running | `MachineActor`, `TaskLifecycle` |
| Print queue (`print-queue/src`) | packages, parts, positions, prints | print, automatic print, move, quantity, add, star, delete | check and insert, hooks during settling, deletion among prints | quantity respected, order kept, no orphaned print | `PrintQueue` |
| JSON store (`json-store/src`) | versioned rows | get, insert, update, remove | an update of a stale version does nothing and reports no error | callers are right although it does | inside `PrintQueue` and `Accounts` |
| Data channel (`data_channel/src`) | subscription, partial messages | connect, split, reassemble | reordered, repeated and lost chunks, failing bridges | each message once and whole; clients get connected | `SaltyRtcChunk`, `DataChannel` |
| Authentication (`auth/src`) | users, invites, sessions | log in, edit users and invites | checks outside of the transactions they guard | an invite admits one; an administrator remains | `Accounts` |
| Machine configuration (`machine/src/config`, `messages`) | file, actor's copy, driver's copy, rows | create, edit, delete | crashes between two of the four, edits behind a deletion | copies and rows agree with the file | `MachineFleet` |
| Materials (`material/src`, `machine_material_hooks.rs`) | rows, targets of the toolheads | edit, look up | hooks that stop half way | heated for the material as it is | `MachineFleet` |
| Signalling updater (`machine/src/signalling_updater`) | rows | name changes, deletions | rows behind the file | names agree | `MachineFleet` |
| Device manager (`device/src`) | list of ports | list, watch, add, remove | a watch beside a listing, two ways to the manager | the list is what is plugged in | `Devices` |
| Server start-up (`server/src`) | map of machines, local session | start, restart | what is only in memory | | `MachineFleet`, `Accounts` |
| Macros, codec, video, config forms, web UI | | | | | [not modelled](#not-modelled) |

How they interact when a print runs: a GraphQL mutation has the print queue insert
a task, compile it and send `SpoolPrintTask` to the machine actor. The actor checks
its status, writes the record and sends `SpoolTask` (with a file path) to the driver,
which reads the file, spools its lines and reports `Started` with its first line. Each
`Feedback` updates the record; a settled task runs its hooks, one of which may
start the next print, and has the actor send `DeleteTaskHistory`. `PauseTask`
takes the task off the driver's spool, and the feedback that says so carries the
flag `PAUSED_STATE`; a resume spools the task again from its line.

`PROJECT.json` lists each component with its files, and under `hazards` each place
where the code is exposed to an order of events, a fault or a limit that is hard
to test, with the properties that cover it.

## Plan

The driver came first: it has the most interleavings, its errors ruin a print,
and the server's components rely on what it promises. Then the server's side of a
task, then what starts tasks, then the services around them.

| Module | Contents | Composition | Proved |
|---|---|---|---|
| `DriverSpool`, `MarlinDriver` | the driver, the serial link, the firmware, the server as an environment | spool, reactor, port and firmware in one next-state relation | types, timers, life of a task, settled entries, line numbers |
| `TaskLifecycle`, `MachineActor` | what the records of tasks promise; the actor, its mailbox and supervisor, the compilation, the clients, a driver as environment | `MachineActor` implements `TaskLifecycle` by `INSTANCE` | the refinement, four safety properties |
| `PrintQueue` | the mutations of the queue as transactions over versioned rows, and the settling hook | the store is part of each transaction | all six safety properties |
| `SaltyRtcChunk`, `DataChannel` | splitting and reassembly; subscription and connections | `DataChannel` extends the codec | four safety properties |
| `Accounts` | users, invites, sessions | | two safety properties |
| `MachineFleet` | configurations, rows, materials | | four safety properties |
| `Devices` | watchers, manager | | both safety properties |

What is left for later: the proof of `ErrorsHaveACause` for texts without marks, from the
invariant of the link; a composition of `MarlinDriver` with `MachineActor` in place of
the driver that `MachineActor` has as environment, whose state space is beyond a small
instance.

## The Marlin driver

### Modules

| Module | Contents |
|---|---|
| `DriverSpool` | the tasks of a `ReadyState` and the pure operations on them |
| `MarlinDriver` | the driver process, the serial port, the firmware and the server's messages, with all properties |
| `MCMarlinDriver` | the tasks and their lines for TLC |
| `MarlinDriverProofs` | lemmas about the spool's operators and what the handlers of `ReadyState` compute; type correctness, timers, the life of a task |

### How the model corresponds to the code

The driver takes an event from its channel, lets `State::consume` compute the next
state and a list of effects, and executes these before it takes the next event
(`lib.rs:99`). So an action `ConsumeX` of the model is one tick: handler, effects
and all. Handlers of `ReadyState` build a `Loop`; the model builds an `Outcome`,
a record with the new `ReadyState`, the new feedback and the accumulated effects,
which `Complete` executes or, if the handler failed, turns into an error or a panic.

| Variable | Code |
|---|---|
| `st`, `bauds` | the variant of `State`; how many `baud_rate_candidates` are left |
| `ready` | `ReadyState`: `on_ok`, `poll_for`, `mark`, `next_serial_line_number`, `tickles_attempted`, `tasks`, and whether `capabilities` holds `AUTOREPORT_TEMP` |
| `prog` | `feedback.task_progress` by task; status `"None"` is no entry, its number the last one the server has read |
| `idleReset` | `Context.reset_when_idle` |
| `queue` | the `mpsc` channel; an external sender owns one place beyond the buffer |
| `armed` | `StateMachineReactor.delays` that have yet to fire |
| `port` | `gcode_sender`: `None` is `"closed"`; `"dead"` is a port whose stream has ended |
| `proc` | running, exited, panicked, or `"Stuck"`: waiting for a place in its own channel |
| `tx`, `rx`, `fw` | the serial link and the firmware (external) |
| `srv` | the server's view of each task |
| `taken`, `budget` | history and bounds of the model |

`Fire`, `Read` and `Unplug` are the spawned tasks that feed the channel: a delay
that ends, the reader of the port, the end of its stream. `OpenSerialPort` and
`LoadGCode` send to the reactor's own channel while an effect is executed, hence
their event is appended in the same step, and a full channel leaves the process
`"Stuck"`. `despool`, `despool_task` and `execute_host_gcode` call each other
recursively; `DespoolTask` is their closed form: tasks without a further line are
finished, then the first line at which despooling stops is sent. The closed form
assumes that no poll is due where `despool_task` is entered directly, which the
property `PollsAwaitTheirTurn` states.

### Abstractions

- A line is its kind: a G-Code, a blocking one, a comment, one of the two macros,
  or an unreadable macro. Text, checksums, temperatures and positions are left out.
  What positions say of a mark is a nondeterministic verdict.
- `despooled_line_number` is kept as `count`, 0 for `None` and `n + 1` for `Some(n)`.
- Driver and server share `prog`. The server learns of a pause when the driver
  confirms it (`srv` becomes `"paused"` with the flag `PAUSED_STATE`), and it may
  delete an entry at any time after it settled or paused, even after it has resumed
  the task: that covers feedback that is stale when it is read.
- A file is read at once when it is spooled, as `LoadGCode` does, and an
  unreadable file is a fault.
- A timeout fires when nothing is under way; one that races an answer is the fault
  `"early"`. Durations are otherwise left out.
- A restart of the firmware loses its state and may lose what it was sent. Opening
  the port may restart it.
- `RetryResetLineNumber` is handled but never sent, and has no action.

## The machine actor and the life of a task

### Modules

| Module | Contents |
|---|---|
| `TaskLifecycle` | what the records of tasks promise the rest of the server: inserted once, settled once (but for one case, below), finished only if sent, sent once for the insertion and once for each resume |
| `MachineActor` | the actor with its mailbox and supervisor, `insert_print` and the other mutations that reach it, the records, and a driver as environment |
| `MCMachineActor` | symmetry for TLC |
| `MachineActorProofs` | the inductive invariant, the refinement, the lemmas they rest on |
| `LossProofs` | how records and spool agree: the driver runs nothing that has settled, and no task stays recorded as running which the driver has lost |

### How the model corresponds to the code

The actor handles one message at a time to its end, so an action `HandleX` is one
handler with every record it writes and every message it sends. A handler that
fails has the supervisor restart the actor: `ctx.stop` puts `Stop` behind what is
in the mailbox, and `HandleStop` aborts the stream and starts anew. Futures of
clients interleave with it between their awaits: `insert_print` is
`PrintMutation`, `CompilePrint`, `CompileFails`, `ReadFailed` and `SettleFailed`,
and the resume mutation is `CheckPaused` and `CommitResume`.

| Variable | Code |
|---|---|
| `rec` | `Task.status` of each row; `"absent"` is no row |
| `job` | the future of `insert_print` with its copy of the record (`held`: its version is current; `late`: it is one update behind) |
| `resuming` | resume mutations between their check of the status and their transaction |
| `m` | `Machine` and `MachineData`: `write_stream`, `attempting_to_connect`, `has_received_feedback`, `status` with its `Printing { task_id, paused, paused_state }`, `blocked_at`, motors homed |
| `mail`, `retry` | the mailbox, events of the stream included; a `ctx.send_later` |
| `wire`, `drv` | the socket and the driver: its spool, its `task_progress`, its state |
| `credit`, `sent` | history, for `TaskLifecycle` |
| `m.saved` | `paused_state`: `NoTask` is none, otherwise the print whose pause it was taken at, which the code does not know (`record_feedback.rs:449`) |
| `parted` | history: the actor restarted, the driver failed, or a task was sent whose record could not be written as its copy was stale |
| `crossed` | history: a resume has used the paused state of another print's pause |

`HandleFeedback` is the whole of `record_feedback`: the first feedback behind a
connection, a fold over the entries of `task_progress` with the hooks of settled
tasks, blocking, and the status of the machine. Each send in it may fail, and what
was recorded before stays. A message holds the record as it was read when it was
sent; every update of a record makes the copies of others stale (`StaleIn`,
`StaleJobs`), and the update of a stale copy writes nothing, as in `record.rs:247`.

A failed update is not without effect: `prep_for_update` (`record.rs:228`) has counted
up the version of the copy, whether or not a row matched. `SpoolPrintTask` updates twice
from one copy, before (`insert_print.rs:381`) and after (`spool_task.rs:99`) it sends the
task. If the row was updated exactly once since the copy was taken, the first of the two
writes nothing and the second finds its row: whatever it says by then, it becomes `Created`
with `sent_to_driver`. So messages and compilations remember whether their copy is current
(`fresh`, `held`) or one update late (`late`), a feedback that updates a record twice in one
handler makes the copies stale twice (`again`), and `Spooled` writes in both cases. A
driver that goes away while a print is compiled errors the record, that is one update; back
again it is sent the print, whose record is pending once more although it had settled.
`TaskLifecycle` has an edge for this, from errored to sent, for a task that was never sent
before; there is no other way out of a settled status, which is what the refinement says.

Pauses of two prints can cross. The actor stores the paused state from the next
feedback that carries `PAUSED_STATE`, and the feedback does not say which print it is
about (`record_feedback.rs:449`); two `Printing` are equal if their tasks are
(`machine_status.rs:62`), and a pause of a second print replaces the status of the
first. So the second print can be resumed with the state of the first, before the driver
has let go of it, or although its spooling has been refused and `insert_print` is about
to settle it. The model has this behaviour. In the feedback, `flag` names the print whose
pause it answers, `m.saved` remembers it, and `crossed` marks a resume for which it was
another's; what the actor promises holds up to there.

The driver of this module is what `MarlinDriver` shows of itself on the socket: it
spools, runs, pauses and finishes tasks, and tells the server after each change.

## The print queue

`PrintQueue` has the tables of the print queue and the transactions over them;
`MCPrintQueue` adds the symmetry of the clients. A mutation is split at the points
where others may commit: `BeginX` makes its reads, `CommitX` its writes.

| Variable | Code |
|---|---|
| `parts`, `pkgs`, `prints` | the rows: a part's package, position, quantity and `deleted_at`; a package's quantity, star, `based_on` and the template's origin; a print's part, machine, status |
| `prints[t].compiling`, `.fresh`, `.late` | the future of `insert_print` that will spool it, and whether its copy is current or one update late |
| `live`, `outcome` | the prints a machine has; what it is yet to record of those that ended |
| `txs` | the transaction of each client and machine: its operation, its reads (`seen`, `doomed`, `todo`), the rows of which its copy is current (`held`), the machines it is still to stop (`halt`) |
| `crossed` | history in a transaction: the queue has changed since it read it |
| `peak` | history: the most prints a part was ever asked for |
| `raced`, `tangled`, `escaped`, `resent` | history: see below |

The JSON store is in this module. An update names the version that was read, and
matches no row when there is a newer one; nothing tells the caller. So each
transaction holds the rows whose copy is current, `Keep` takes what one writes from
the others, and `Update` writes what is held. Reads see what is committed, which
is READ COMMITTED.

Besides its transactions, a machine writes records at two places at which a print may
still be compiled: its driver is lost (`DriverLost`), which errors all that is pending on it, or
a heater has blocked its tasks (`RecordBlocking`). After either the copy that `insert_print`
holds is one update late, and `SpoolPrint` has the two updates that are described for the
machine actor above: a print that was errored while it was compiled is recorded as sent.

Three properties say what holds "unless", and name the exception by a history variable
whose assignment is the exact circumstance: `raced`, two transactions printed one part
at once, or starred one package; `tangled`, positions were written from reads of
a queue that had changed since, a completed part came back at its old position, or a
deletion whose rows had been changed meanwhile left parts behind; `escaped`, a
deletion did not see a print, did not come to it, or cancelled it while its part
stayed, or the print was spooled after it had settled; `resent`, a print was settled while it
was compiled, and recorded as sent by the second update: it counts beside the print that
has replaced it, so that a part may be printed more often than asked for by as many prints
as that has happened to. The mutants show that the properties fail for any other reason.

Queries that return any row with `LIMIT 1` are sets to choose from. Deleted packages
and parts stay as rows. Files of parts, names and slicing are left out.

## The services around the machines

Four parts of the server share no state with each other or with the queue, so that
`MCServices` checks them in one run, where `subject` picks the service that a
behaviour is about and the others stay as they begin.

| Module | Code | Steps |
|---|---|---|
| `SaltyRtcChunk` | `saltyrtc_chunk.rs`: encoder and decoder as pure operators | a chunk is its header, its length and a token for its bytes |
| `DataChannel` | `lib.rs`, `client_ws.rs`, the web client's encoder `saltyRTCChunk.ts` | the subscription and its retry, bridges one after the other, a channel per client, a link that reorders, loses and repeats |
| `Accounts` | `user.rs`, `authenticate.rs`, `invite.rs`, their resolvers | a request is steps: its reads one by one, then its transaction |
| `MachineFleet` | `machine_config.rs`, the messages that edit it, `server.rs`, `machine_material_hooks.rs`, the signalling rows | file, actor's copy, driver's copy and rows, each written by the step that writes it; a crash between any two |
| `Devices` | `device_manager.rs` and the watchers | the watch is added, the directory listed, the events read; additions go by way of the broker, removals directly |

Abstractions. A payload is its size and a token per chunk, so that mixing,
dropping and reordering show. Three sizes bound the payload of a chunk, as in the code:
the server's, that of a client's message, and that of one of its files, whose header has
four bytes more. A client's message is the list of the sizes of its sections; the first is
the JSON of the request and never empty (`ShapesAssumption`), a file may be empty and then
has no chunk at all. Reliable mode is in `SaltyRtcChunk` and used by no
channel. A user row is who it is of, whether it is live, an administrator, authorized,
and its version; tokens and keys are left out. A configuration has one component of
each kind that is told apart by what its edits do (the core plugin, the toolhead with
its material, a video source). `Devices` has the three watchers of the code, of
which the two of `/dev/serial` begin together; the environment is udev.

History variables that condition properties, each set where the circumstance arises:
`repeated`, `lost` (chunks); `unconsumed` (the update that consumes an invite found
another version), `excused` (the other administrators that were counted are deleted, or
stopped to be administrators before the commit); in `MachineFleet` the record
`history`: a file not saved (`failed`), a crash between two stores (`cut`), a file not
removed (`kept`), one written behind its deletion (`revived`), a machine the hooks did
not come to and that has been given no other material since (`skipped`; the target is looked
up when a material is loaded or an edit of the toolhead changes it, `update_component.rs:87`,
and otherwise stays as it is), deletions (`deleted`) and overwritten edits (`blind`);
`overtaken` and `gaps` (a removal overtook its addition; a watcher ended by the other's
failure).

## Properties

| Property | What it says | Why it can fail |
|---|---|---|
| `ProgressMatchesSpool` | the feedback says started only of tasks that run, and nothing else of those | every way a task can leave the spool must tell the feedback |
| `TasksAccountedFor` | an accepted task is spooled, loading, or reported finished or paused | overrides are inserted and tasks popped around each other |
| `LineNumbersInStep` | without faults, numbers in transit are consecutive from the firmware's | seven places count the line number |
| `ErrorsHaveACause` | without faults there is neither an error nor a panic | a timer left behind or a spare acknowledgement ends in an error |
| `PollsAwaitTheirTurn` | nothing awaited, no poll due | the poll is set and taken by different handlers |
| `FirmwareRunsInOrder` | the printer executes each task's lines in order, without gap or repetition, whatever the link does | resends, tickles and spare acknowledgements shift driver and firmware |
| `DelaysMatchState` | timers end with the state that armed them | five ways out of a state |
| `ConfirmedPauseHolds` | nothing of a paused task is left to run | a load or a message may still be in the channel |
| `SettledIsFinal` | a settled entry changes no more until it is deleted | an error settles what is in the spool |
| `IdleResetSparesTheSpool` | a reset when idle ends only a driver with an empty spool | pauses, drains and errors empty the spool |
| `AcceptedTasksEnd` | each accepted task ends, or the process does | a lost line must be noticed by a timer |
| `TypeOK` | types of the driver | |
| `RecordsFollowLifecycle` | `MachineActor` implements `TaskLifecycle`: a record settles once or goes from errored to its first send, finishes only if sent, and is sent as often as it was inserted and resumed | the feedback and the end of `insert_print` settle one record, each with a copy; a print is spooled with a copy that may be late; resumes race with pauses and settles |
| `NeverStranded` | a machine without a stream has a connection, the end of a stream, a restart or a retry on its way | an old stream's end shuts the new socket; `attempting_to_connect` outlives an attempt |
| `ResumableHasLeftDriver` | a print that can be resumed is neither in the driver nor on its way there | the paused state comes with a feedback that may belong to another state |
| `NothingIsLost` | when all is quiet, what is recorded as running is in the driver | crashes lose what was sent without a feedback |
| `NothingRunsUnseen` | and the driver runs nothing whose record has settled | a settle from the side, a stale write |
| `QuantityRespected` | a part is never printed more often than it was once asked for, but for prints that were settled before they were sent | check and insert are not one step; quantities change in between; settled prints come back |
| `PlacesDiffer` | parts that wait have different positions | each writer computes positions from reads of its own |
| `AutoPrintAccepted` | what the hook chooses `insert_print` accepts | two queries count in different ways |
| `DeletedPartsStop` | no machine prints a deleted part when the deletion is through | prints are selected, rows marked, prints cancelled, machines stopped, all at different times |
| `PendingHasAFuture` | a pending record has someone who will settle it | refusals, failed compilations, stops, the hook's rollback |
| `TemplatesAreKept` | a starred copy is not printed and is the only one | stars and unstars of originals and of copies at once |
| `DeliveredIntact` | each message is handed over whole, and once if no chunk was repeated | reordering, interleaved messages, sections of other sizes, empty files |
| `NothingStaysPartial` | a message whose chunks all came was handed over and forgotten, if its last file is not empty | the last chunk may come first, and an empty file has none |
| `RefusalHasACause` | a channel ends only for a chunk of one byte | the length is checked behind the bit field |
| `AnswersDecode` | what the server encodes its decoder puts together | serials, last chunk, sizes at the boundary |
| `ClientsGetConnected` | a client that asks is connected again and again | one bridge's error ends the subscription of all |
| `InviteAdmitsOnce` | an invite lets one user in | the read and the consumption are apart |
| `AnAdminRemains` | once there is an administrator there stays one | the count is outside of the transaction |
| `NothingOverwrittenUnseen` | no edit overwrites what its author has not seen | versions in the file, memory kept of a failed edit |
| `TargetsCurrent` | a toolhead is heated for its material as it is | edits of the material, of the toolhead, re-reads of the file, hooks that stop half way |
| `StoresAgree` | files, queues, registered names and deletions agree | four stores, no transaction over them |
| `DriverCatchesUp` | a driver runs with the file's configuration or will be reset | resets wait in the mailbox and at the driver |
| `NoPortMissed` | every port of a watched directory is listed | listing and watching overlap |
| `NoPortLeft` | nothing is listed that is not there | additions and removals go two ways |

Each is checked by a run, and each run's property fails on a mutant of the model
that drops a guard, a reset or a count (operators whose comment begins with "mutant"
in the modules, which no specification uses).

## Runs

### The driver

These run `MCMarlinDriver`. They use one baud rate (a second one repeats the first),
one tickle before the error, and a channel of 3 places instead of 100: each handler
sends at most one event to itself, and 3 places allow a message, a response and a
timer to wait together as well as the channel to be full.
`MaxFaults`, `MaxRequests`, `MaxPolls` and `MaxReports` bound what the environment
may do; each is spent as a budget by the action it bounds.

| Run | Tasks | Environment | Distinct states | Shows |
|---|---|---|---|---|
| `DriverClean` | a print from a file `mark, gcode, wait, blocking`; an override | one pause, one poll, two reports; no faults | 1.7 million | tasks, feedback, line numbers and polls agree |
| `DriverFaults` | a print from a file `gcode, comment, gcode`; an override | any two faults, one report | 434 thousand | the printer runs the lines in order; timers and settled entries |
| `DriverServer` | a print of one line from a file | any three messages of nine kinds, one failed open | 1.5 million | pauses, emergency stops, resets, stale deletions |
| `DriverLive` | a print of one line | any two of a lost newline, a corrupted line and unplugging | 4 thousand | every accepted task ends |
| `DriverResend` | a print of one line | one corrupted line | violated | see below |
| `DriverSilence` | a print of one line | one lost answer | violated | see below |
| `DriverResume` | a print `gcode, comment, gcode`; an override | one pause, one resume | violated | see below |

Why these bounds are enough to meet the interesting cases: two tasks are needed and
sufficient for an override to get in front of a print; a second fault lets the
recovery from the first fail; three messages are a pause, a resume and any one more.
A state in which the process has exited, panicked or is stuck takes no further
driver step; a panic and a stuck process are reached in `DriverFaults`, a stuck one
in all three.

### The server

| Run | Module | Instance | Distinct states | Shows |
|---|---|---|---|---|
| `MachineTasks` | `MCMachineActor` | 2 prints, 3 inline tasks, automatic printing, a blocking heater; any 3 operations of 8 kinds | 425 thousand | without failures the actor implements `TaskLifecycle`, and the driver runs nothing unseen |
| `MachineFaults` | `MCMachineActor` | 2 prints, 3 inline tasks, automatic printing; any 3 of print, pause, resume; any one of 8 faults | 381 thousand | with a failed connection, compilation or kill, a driver that disconnects, errs or crashes, a broken stream or a restart of the server at any point: nothing is lost, nothing stranded |
| `MachinePause` | `MCMachineActor` | 1 print, a pause | violated | see below |
| `PrintQueue` | `MCPrintQueue` | 3 parts, 3 packages, 2 prints, 1 machine, 2 clients; any 3 mutations of 9 kinds or failures (of a call to the machine, of its driver) | 943 thousand | quantities, order, deletions, stars and automatic prints |
| `Services` | `MCServices` | chunks of 3 bytes (server, files) and 4 (messages), 2 sessions, 2 messages of 4 shapes, 1 fault; 2 people, 1 invite, 2 requests at once of 4, 1 restart; 2 machines, 1 material, 2 clients, 3 edits, 1 fault; 5 files in 3 directories, 3 changes | 2.68 million | messages, logins, configurations and ports; clients get connected |

Why these bounds are enough. `MachineActor`: two prints let an automatic print, or a
second one, run beside the first, three inline tasks are the hook of a pause and the
hook and the warm-up of a resume, and three operations are a print, its pause and its
resume; a fault between any two of their steps covers each partial failure. `MaxMail`
bounds what clients and the driver add to the mailbox, not what handlers send.
`PrintQueue`: it begins with two parts in one package, so that two mutations may
interleave over them and a third (an upload, a deletion, a star) follow; two prints
exceed a quantity of one and fill a quantity of two; a print, the loss of its driver while
it is compiled and a second print are the three that `resent` is about. The sequence by
which a deletion misses a print whose part remained needs four operations; a run
with four found it, and `escaped` excuses it. `Services`: messages are a single
chunk, two chunks and a file of one byte, two sections with an empty file at the end, and
three with one in between; two requests race at one row and a third request has prepared it; machines begin with a material in the toolhead or without one, so that two edits
of the toolhead and one of the material meet targets looked up and left; an edit, its rival and
a deletion, with a crash anywhere; a port that is plugged in, out and in again.

Deadlock is not an error in any of these runs: a process may exit, and every module
stops when it has nothing to do and its budget is spent.

### Fairness

`DriverLive` assumes weak fairness of the consumption of events, of the reader, of
each timer, and of the firmware's answers and boot. The executor polls a ready task
eventually, and the reactor is a loop over the channel: that is weak fairness of
`Consume`, `Read` and `Fire`. The firmware's fairness is the assumption that the
printer is alive, which `docs/serial_communication.md` makes as well; a printer that
is not is the fault `"unplug"`. Faults and messages of the server are not fair.
Lost acknowledgements are left out of this run, because the code does not recover
from each of them (`DriverSilence`). The resend panic ends the process, which the
property permits.

`Services` assumes weak fairness of the steps of the loop around the subscription
(connect, acknowledge, retry after 100 ms, connect the next client) and of a client
that asks again while nobody has connected it. The loop is a task of the executor and
each of its awaits is a request to a remote server; the fairness says that such an
attempt ends, in success or in an error. The code sets no timeout for it, and a bridge
that hangs blocks every client, which this assumption excludes. Faults are not fair
and their number is bounded.


## Proofs

### The driver

TLAPS checks, for every set of tasks, all lines, all bounds and all sets of faults
and messages:

| Theorem | Module | Statement |
|---|---|---|
| `TypeCorrect` | `MarlinDriverProofs` | `Spec => []TypeOK` |
| `DelaysCorrect` | `MarlinDriverProofs` | `Spec => []DelaysMatchState` |
| `LifecycleCorrect` | `MarlinDriverProofs` | `Spec => []LifecycleInv`, the inductive invariant |
| `ProgressCorrect` | `MarlinDriverProofs` | `Spec => []ProgressMatchesSpool` |
| `PauseCorrect` | `MarlinDriverProofs` | `Spec => []ConfirmedPauseHolds` |
| `SettledCorrect` | `MarlinDriverProofs` | `Spec => SettledIsFinal` |
| `PollsCorrect` | `MarlinDriverProofs` | `Spec => []PollsAwaitTheirTurn` |
| `AccountedCorrect` | `MarlinDriverProofs` | `Spec => []TasksAccountedFor` |
| `IdleResetCorrect` | `MarlinDriverProofs` | `Spec => IdleResetSparesTheSpool` |
| `LinkCorrect` | `MarlinDriverProofs` | `Spec => []LinkInv`, the inductive invariant of the link |
| `NumbersCorrect` | `MarlinDriverProofs` | `Spec => []LineNumbersInStep` |

They rest on `SpoolAssumption` and `DriverAssumption` alone: the driver's own task
ids are not the server's, overrides and files are tasks, no task is one of the commands
that the driver sends by itself (`M105`, `M110`, `M114`, `M400`), lines are finite
sequences of kinds, and the bounds are numbers.

`MarlinDriverProofs` says first what the spool's operators
do to types and to the set of task ids (a `CHOOSE` of the first stop exists, an
insertion keeps every other task, a removal removes one), and
then lifts this to the handlers: what `DespoolTask`, `ReceiveOk` or `Load` may change.
It then takes `TypeOK` and `DelaysMatchState` through each action;
`DelaysMatchState` is inductive with `TypeOK`, because every way out of a state
cancels all delays.

`ProgressMatchesSpool`, `ConfirmedPauseHolds` and `SettledIsFinal` are not inductive.
If the channel held a second load of a task that is already running, the spool would
hold the id twice, and finishing one of them would settle the entry while the other
runs. Nothing in the driver forbids that; what does is that the server spools a
task once, and again only when its pause was confirmed. `LifecycleInv` states it:
the ids in the spool are distinct, a task is in at most one of a message, a load and
the spool, it is nowhere before the server has spooled it and nowhere while it is
paused, and its entry is settled only when it is nowhere. The
channel's part of this is kept by two relations between channels (`Within`, and a
load appended at the end), so that an action that does not touch the spool needs
one fact.

The next three theorems need less. `PollsAwaitTheirTurn` is inductive with `TypeOK`:
every handler that leaves the driver without an outstanding line has passed through
`despool_task`, which sends the poll that was due (`Turn` in `MarlinDriverProofs`
states what the two sides of such a step have in common). `TasksAccountedFor` has an
invariant of its own, `TakenInv`: outside Ready nothing counts as accepted, and each
accepted task is in the spool, has the outcome of its reading in the channel, or is
reported finished or paused; what the environment does only appends to the channel.
`IdleResetSparesTheSpool` follows from `LifecycleInv`, because a handler that goes on
to exit has found the spool empty.

`LineNumbersInStep` is about a driver that is ready, and what makes it true happens while
it connects: that `M110` resets the firmware before any number is given out, and that no
acknowledgement of an earlier attempt is taken for that of this one. `LinkInv` therefore
follows the link from the start, as long as no fault has happened and the process runs.
`QueueOK` says what the channel may hold (no report of a lost port, one timeout at most, and
none while the next one is armed); `LineOK`, that the lines of a driver that connects have
no numbers and the firmware has accepted none, that a firmware which boots has
acknowledged nothing, and that an attempt which has timed out has nothing left under way
(`Idle`). In Ready the lines are `InStep`: there is a counter that starts from the firmware's
last number and ends at the driver's, and each line has its number or none. Each handler
adds lines that continue the counter (`Numbers`, proved with the types of what a
handler does), the firmware takes the first (`InStepHead`), and `InStepCounts`
counts them.

### The machine actor

For any prints and inline tasks, automatic printing or not, any operations of clients, any
faults and how often they strike, and a mailbox of any length:

| Theorem (`MachineActorProofs`, the last two in `LossProofs`) | Statement |
|---|---|
| `Invariant` | `Spec => []IInv`, the inductive invariant |
| `TypeCorrect` | `Spec => []TypeOK` |
| `RecordsFollowLifecycleHolds` | `Spec => RecordsFollowLifecycle` |
| `NeverStrandedHolds` | `Spec => []NeverStranded` |
| `ResumableHasLeftDriverHolds` | `Spec => []ResumableHasLeftDriver` |
| `NothingRunsUnseenHolds` | `Spec => []NothingRunsUnseen` |
| `NothingIsLostHolds` | `Spec /\ [][~Misleads]_vars => []NothingIsLost` |

They rest on `TasksAssumption` (prints and inline tasks are two sets, finite, and no task
is the value that stands for none) and `BoundsAssumption` (the bounds are numbers).

`RecordsFollowLifecycle` is the refinement of `TaskLifecycle`. It is far from inductive. That
a settled record comes back only from errored, and only for a task that was never sent,
depends on two of the parts below: only what was sent is recorded as finished or cancelled
(`EndsAreSent`), and a print that is still compiled or asked for, with whatever copy of its
record, was not sent (`InOnePlace`). That a task is sent only with the credit for it depends on how many messages, compilations and
resumes will still send it, and each of them may be waiting in another place. `IInv` counts
them. `CountOf(s, T)` is the number of positions of the sequence `s` with an element of
`T`, and the parts of the invariant are

  - `TypeOK`: the types. A `Resume` in the mailbox names a hook that has a record, a
    task of the socket or the driver was sent, and a copy of a record that a message holds
    for current is one of a record that is as it was created;
  - `Credited`: what will send a task (the messages that carry it and its compilation) is
    at most its credit;
  - `Inserted`: a print is compiled and asked for at most once, and only with a record;
  - `InOnePlace`, up to a crossed resume: a print is in at most one place (its insertion,
    the socket, the driver's spool, the feedback that answers its pause, the paused state),
    and once sent never in its insertion again;
  - `EndsAreSent`: only a task that was sent is recorded as finished or cancelled, and what
    was sent has a record;
  - `NeverStranded` and `AttemptsEnd`, that an attempt to connect ends.

TLC checked `IInv` within the bounds of both runs and with six operations before it was proved; in
earlier forms it failed, which is how the crossing of pauses was found. The proof has a
lemma per action. `Sound` collects the parts that speak of the tables; `Fewer` and
`NoMore` say that a step takes from mailbox, socket and spool only, by which most steps keep
`InOnePlace`. The handler of feedback is a fold over the entries of the message: an invariant
of the fold (`Takes` for one step of it) goes by `IntervalInduction`, which is induction over
the indices at which the invariant holds, as a set, so that no theorem needs an operator for
a parameter; that the recursive functions exist at all is `RecursionExists`. Both are in
`RecursionLemmas`, which the print queue uses too.

`NothingRunsUnseen` speaks of moments at which nothing is on its way, and needs what is
true on the way there. That is `Apart`, on top of `IInv` and as long as no restart, failure
of the driver or stale copy has `parted` the two. `Linked`: the mailbox's events of the
stream are `Ordered`, the end of a stream behind its feedbacks, and no feedback of a
driver that is not ready behind one of a driver that is; a machine without a stream shows
nothing of one. `Lives`: the driver has tasks only from a machine that has seen it ready
(`Serving`), and every feedback that waits shows it ready too, or stopped after that. So
no feedback that is still to be handled can error the running tasks (`update_machine`)
behind the back of a task that was spooled later. `Unsettled` and `Unended`: what the
driver has is recorded as still to be run, and no entry of its history, nor of a feedback
on its way, says that it ended, also while it is paused and will be sent again; a resume
with the state of another pause breaks this one. The handler of feedback needs it of each
step of its fold (`RecordedIn`), the loss of a spool of each task put down (`PutAllIn`).

`NothingIsLost` is no theorem without its second hypothesis. `Misleads` is a restart of the actor
(`HandleStop`) that leaves it a feedback of the stream it had, behind a `Connect` or
a `Closed` and with no end of a stream behind that feedback. Here is how the system gets
there. A stream that breaks stops the actor; before the `Stop` is handled, the retry of an
earlier connection has put a `Connect` into the mailbox, and the driver another
feedback behind it, which shows a print as started. The restart does not empty the
mailbox. Meanwhile the driver, which nobody hears, finishes the print, and a
`DeleteTaskHistory` that was still on the socket removes the entry. The new machine
connects, takes the old feedback for the first of its connection, and keeps the print as
one that goes on; the feedback that answers its `Hello` is then its second, whose missing
entries mean nothing. The print stays recorded as started for ever, with the driver idle. It
takes two faults, five operations and four messages in the mailbox; TLC finds it when it is
led through these steps, and the bounds of the runs are below it. Without the `Connect` in
between, the old feedback restarts the actor once more (`FeedbackWithoutData`) and does no
harm; other restarts, the server's and the driver's, the theorem allows without
limit.

Its invariant, `Foretold`, says what the mailbox has in store, by three words on
sequences: `Has(box, X)`, that there is a message of `X`; `Followed(box, X, Y)`, that behind
each of `X` there is one of `Y`; `Guarded`, the opposite of a misleading mailbox. The
records are the machine's, the spool the driver's, and the two differ by what is on its way:

  - `DriverTrue`: a driver that is not ready has no spool, and its history shows only what
    is in the spool as started; so no feedback is `Wrong`;
  - `Telling`, while there is a stream: what a feedback starts is in the spool or is ended
    by a later message (`Ends`: another entry, a driver that is not ready, the end of the
    stream); what is recorded as running is in the spool, on the socket or so ended; a machine
    that shows itself as ready while the driver is not will be told;
  - `Parting`, without one: every feedback that is left has an end of the stream behind it, or
    the machine has no data and restarts at the first of them.

Steps that tell nothing new need `Continues` only, which is what appending, taking and marking as
stale keep of a mailbox. The handler of feedback is again a fold, of which the order matters
here: `RecordedBearing` says that what an entry shows as stopped is not running when all
are recorded, unless another shows it as started.

### Accounts

For any people, invites, requests at once, numbers of requests and restarts:

| Theorem (`ServicesProofs`) | Statement |
|---|---|
| `AccountsCorrect` | `AccountsSpec => []AccountsInv`, the inductive invariant |
| `InviteCorrect` | `AccountsSpec => []InviteAdmitsOnce` |
| `AdminsCorrect` | `AccountsSpec => []AnAdminRemains` |

They rest on `AccountsAssumption`: the sets are finite, and no code is the value that
stands for none. `AnAdminRemains` is inductive with types and with what requests
have read; `InviteAdmitsOnce` is not, as nothing in it says why a second request
should fail. `AccountsInv` relates the reads of each request under way to the rows as they
are: a read is the row, or the row has a later version (`Agrees`), and an invite is
consumed for good. Whoever came in by an invite is then the one its row names, unless
the update that was to name them found another version (`Admission`). Ids that are to be
inserted differ (`IdsDiffer`). The proof shows first that rows only go on to later
versions and that this keeps every other request's reads as good as they were
(`OtherRequests`), then each step.

### The print queue

For any parts, packages, prints, machines and clients, any bounds and any number of
failing calls:

| Theorem | Statement |
|---|---|
| `QueueInvariant` | `QueueSpec => []QueueInv`, the inductive invariant |
| `QuantityCorrect` | `QueueSpec => []QuantityRespected` |
| `PendingCorrect` | `QueueSpec => []PendingHasAFuture` |
| `DeletionCorrect` | `QueueSpec => []DeletedPartsStop` |
| `AutoPrintCorrect` | `QueueSpec => []AutoPrintAccepted` |
| `TemplatesCorrect` | `QueueSpec => []TemplatesAreKept` |
| `PlacesCorrect` | `QueueSpec => []PlacesDiffer` |

They rest on `QueueAssumption` alone. A mutation reads the tables, calls machines and
commits in steps of their own, and each property is about what others commit in
between, so `QueueInv` says what every transaction has read that is still true when
it commits:

  - `TablesOK`: types;
  - `PrintOK`: a print is compiling, live or ended, a pending record has one of these to
    settle it, and a copy that is current is of a record as it was created;
  - `TxOK`: a transaction that is about to insert a print of a part which nobody has
    raced for finds it below its peak; the copy of a settling transaction is current,
    and unless others crossed it the part it has chosen may be printed;
  - `StopsOK`: each print of a part that a deletion has marked is one that the
    deletion has selected and not come to, or is excused;
  - `QuantityRespected` itself.

The proof has one lemma per action. `OthersStay` and `StopsStay` say once what a step
must leave alone for the other transactions to keep their parts of the invariant;
each lemma then shows its own transaction's part, and that the prints it writes are
counted below the peak.

`TemplatesAreKept` has an invariant of its own on top of `QueueInv`: `StarsInv` says
that the package of each print, and of each print that is about to be inserted, has a
quantity; that a package which was not raced knows its one template (`CopyOf`); and
that a request which is about to star a package, and whose copy of it is current, is
right that it has none (`Starless`). A commit that stars a package takes it from the
requests which had read it, or marks it as raced, so that each step but that one is
covered by what it leaves of packages, parts, prints and requests (`StarsStay`).

`PlacesDiffer` has one too, `OrderInv`, which TLC checked in the run `PrintQueue` before
it was proved. Positions are written by four mutations (moves, additions, stars, quantities),
each from reads of its own, so the invariant says what those reads are worth:

  - `RequestOK`, whatever has changed since: a list of moves is about parts that were
    read, and a request that deletes a package has all of its parts;
  - `ReadsOK`, of a request that nobody has crossed: the positions a move has read are
    those of the queue as it is, all different, and whatever came to the queue would have
    crossed it; the end of the queue that an addition has read is behind every part;
  - a part that is not deleted is one of a package that is not, over whose parts the end
    of the queue is computed, and a print that compiles has not finished.

`EndIsBehind` shows that the place `add_to_print_queue` computes is behind all others, for
which a finite set of numbers needs a largest (`LargestExists`). A single move shifts the
parts between the two places by one and is injective (`MovedDiffer`); `MovedByKeeps` takes
this over the fold of a list of any length, with the lemmas of `RecursionLemmas`. A
commit whose reads were crossed makes `tangled` true, and then nothing is promised; one
whose reads were not leaves the rest of the queue in front (`MovedPlaces`,
`InsertPlaces`), and crosses everybody who had read what it wrote (`CrossOrder`). A step
that writes no place and brings no part to the queue needs one fact (`OrderStays`,
`QuietOrder`).

### The machines of a server

For any machines, materials and clients, any number of edits, of crashes of the server
(at rest, between the queue and the file of a machine that is deleted, between the file
and the rows of one that is edited) and of files that cannot be written or removed:

| Theorem | Statement |
|---|---|
| `FleetInvariant` | `FleetSpec => []FleetInv`, the inductive invariant |
| `UnseenCorrect` | `FleetSpec => []NothingOverwrittenUnseen` |
| `TargetsCorrect` | `FleetSpec => []TargetsCurrent` |
| `StoresCorrect` | `FleetSpec => []StoresAgree` |
| `DriverCorrect` | `FleetSpec => []DriverCatchesUp` |

They rest on `FleetAssumption`: the sets are finite, clients are numbered, and no
material is the value that stands for none. The four copies of a configuration (file,
actor, driver, rows) are each written by a step of its own, so none of the properties is
inductive. `FleetInv` adds to the types:

  - `MachineOK`, of each machine: what its actor has while it is absent, starting, up,
    stopping or unable to do anything (`ActorOK`); that copies agree while nothing has
    failed, and rows with them once the resolver has committed (`CopiesOK`); that a
    driver whose configuration is behind the file has a reset waiting, or that the
    mailbox holds one and the socket it will be sent on is up (`DriverOK`);
  - `EditOK`, of each form: the configuration it was filled in from is the one there is
    or has an earlier version of whatever has changed since;
  - `TargetOK`: a target is that of the material or some edit of materials still has the
    machine to do;
  - `NothingOverwrittenUnseen` itself.

`MachineAside`, `EditAside` and `TargetAside` say once what a step must leave alone for
each of these to stay as it was, and `OneMachine` puts them together for a step of one
machine. `Edited` says what an edit makes of a configuration: one whose versions follow
(`Follows`) those of the old. `CrashSafe` serves the three kinds of crash.

### Serial ports

For any directories, files, names and number of plugs:

| Theorem (`ServicesProofs`) | Statement |
|---|---|
| `DevicesInvariant` | `DevicesSpec => []DevicesInv`, the inductive invariant |
| `MissedCorrect` | `DevicesSpec => []NoPortMissed` |
| `LeftCorrect` | `DevicesSpec => []NoPortLeft` |

They rest on `DevicesAssumption`: files are finitely many, each in one of the
directories. Both properties speak of moments at which nothing is on its way; the
invariant says what is true on the way there. An event and a message decide a port only
if nothing later in the same queue is about the same port, so `Awaited` and `InHand` ask
for the last one. `EventsOK` holds that the events that wait lead to the files as they
are; `MissedOK`, that a port which is plugged in is awaited, on its way or listed;
`LeftOK`, that a port which is on its way or listed is plugged in or about to be
dropped, unless a removal overtook its addition or a watcher has ended. What sending
and reading do to "the last one" is said by `MailSent`, `MailRead`, `EventSent` and
`EventRead`, on which the lemmas of the actions rest.

### Chunks and channels

For any sessions and messages, files of any number and size, any sizes of a chunk, and any
number of chunks lost and repeated, in any order of arrival:

| Theorem | Statement |
|---|---|
| `ChannelInvariant` | `ChannelSpec => []ChannelInv`, the inductive invariant |
| `DeliveredCorrect` | `ChannelSpec => []DeliveredIntact` |
| `PartialCorrect` | `ChannelSpec => []NothingStaysPartial` |
| `RefusalCorrect` | `ChannelSpec => []RefusalHasACause` |
| `AnswersCorrect` | `ChannelSpec => []AnswersDecode` |

They rest on `ChunkAssumption` and `ChannelAssumption` (a chunk has room for two bytes of
payload at least, sessions are finite, the bounds are numbers) and on `ShapesAssumption`
(the payload of a request is not empty).

What the decoder computes depends on the set of chunks it has got, and not on their order.
The first half of the module says so of the operators alone. `Starts` solves the recursion
of the serials, so that the chunks of a message are numbered from zero without a gap and a
serial tells its chunk (`SerialTells`); the decoder's entry for a set of chunks is
`Keeps`, to which a chunk more adds what `Decode` adds (`KeepsOneMore`); the entry is
complete exactly if the set is all of the message (`CompleteIsAll`), whichever chunk
came last, provided the last section has a chunk to tell the end; and what
`CompleteMessage` then makes of it is the message, files in order and empty ones left
out (`MessageIs`).

`ChannelInv` follows each message: what the decoder keeps of it is `Keeps` of the chunks
it holds, and never complete. A message none of whose chunks has come twice `ArrivesOnce`: each
chunk is on the link or held, not both, until the message is handed over, after which
neither has any of it. One that lost a chunk may be left incomplete, one that was repeated may
be handed over again; the histories `lost` and `repeated` say of which this is true. The chunks
of other messages of the session change nothing of it (`MessageStays`), nor do other
sessions (`OneSession`).

`AnswersDecode` is a statement about a recursive function, the decoding of an answer from
its last chunk to its first. `After` is its value in closed form and `DecodedIs`
shows that they agree, by `IntervalInduction` over the number of chunks decoded.

### Only model-checked

- `FirmwareRunsInOrder` (in runs without a resume, which repeats a line, see below): it is
  no theorem for all bounds. Spare acknowledgements of an earlier connection, if there are
  enough of them, let a new one count up to the number that a firmware which did not
  restart expects; within the bounds there are not.
- `ErrorsHaveACause`: it is no theorem for all texts. A line that is no G-Code is an error,
  and so is a wait whose mark the wait of an override has taken.
- `AcceptedTasksEnd` and `ClientsGetConnected`: liveness under fairness is out of the
  prover's reach, as is `ENABLED`; nothing here depends on the latter.
- `NothingIsLost` of `MachineActor` across a restart that misleads it: there it is no theorem
  for all bounds, as said above; within the bounds of the runs it holds.

## Where the code departs from its documentation

- `DriverResend`: an acknowledgement behind a resend request panics, because
  `last_gcode_sent` is never set (`ready_state.rs:542`). The document says the line
  is sent again (`serial_communication.md:10`).
- `DriverSilence`: any feedback cancels the tickle delay (`ready_state.rs:348`), so
  that a lost acknowledgement behind it is waited for without a timer. The document
  says the host tickles after its timeout (`serial_communication.md:28`).
- `DriverResume`: a resumed print repeats the last line sent before its pause
  (`ready_state.rs:233`). The comment above says the despooled lines are skipped.

- `MachinePause`: a print that is paused and settles afterwards (the driver finished it
  before the pause arrived, or the actor refused to spool it) leaves the machine shown as
  paused (`pause_task.rs:62`, `record_feedback.rs:171`). `machine_status.rs:34` says
  "The machine has been paused mid-print.".

Met on the way and not checked, or excused by a history variable:

- Driver: `mod.rs:188` and `mod.rs:197` speak of a reconnection on disconnect that
  `disconnect.rs:25` leaves as a TODO; `ready_state.rs:827` has one line under way at a
  time, while a reached mark sends a line behind an unacknowledged poll;
  `protobufs/protos/ServerMessage.proto:48` has overrides leave `despooled_line_number`
  alone, while `push_start_task` reports it for any task.
- Actor: a print still pending after a reconnection continues with `paused: false`
  (`record_feedback.rs:114`); the gcodes of `resume_print_mutation.rs` run the resume
  hook twice (104, 110).
- Queue: `fetch_next_part` does not look at `packages.deleted_at`, so that a part which a
  deletion of its package left behind (its row was changed meanwhile) stays queued; a
  print that such a deletion cancelled goes on, and the next deletion does not see
  it as it is no longer pending; the resolver of `Package.starred` stays true after an
  unstar where that of `Part.starred` does not; `latest_prints` has `LIMIT 1` where its
  comment says it returns one print for each machine.
- Accounts: `user_mutation_resolvers.rs:87` requires another administrator, while
  `user.rs:76` counts deleted ones.
- Fleet: configuration files are not written atomically (`machine_config.rs:229`,
  `server.rs:372`); unloading a material leaves its target (`toolhead/mod.rs:180`);
  `RemoveComponent` ignores controllers and build platforms; `sync_changes.rs` is
  commented out, so that no row reaches the signalling server; `health_monitor.rs:95`
  gives up when no server runs, which line 17 says it restarts; `server_keys.rs:31`
  can crash between the two keys.
- Channels: no timeout awaits the acknowledgement of the subscription (`lib.rs:179`); a
  message whose last file is empty never completes; a chunk of one byte is refused
  (`saltyrtc_chunk.rs:231`).
- Devices: the Klipper watcher does not begin again (`watchers/mod.rs:90`).

## Not modelled

Parts whose behaviour over time is none, or is another program's: the G-Code codec and
parser (text to responses, from which the driver's model starts), macros (expanded
before a task is created; that this may fail is in `MachineActor`), the video provider
(calls of an external service), configuration forms, protobufs, the profile merge and
the benchmarks (types, generated code, tools), the web interface apart from its encoder
of chunks.

Left out of modelled parts: temperatures, axes and speeds, which no record and no status
depends on (`update_heaters`, `update_axes`, `update_speed_controllers`, the history of
G-Codes); the slicing mutation, which runs an external slicer; the contents of files;
tokens and keys, which are cryptography of libraries; half-written files after a
crash; serving GraphQL over HTTP; the health monitor, whose effect on the server is a
restart. `PROJECT.json` gives the reason for each. `print_completion_loop.rs`,
`part_deletion_watcher.rs` and the body of `sync_changes.rs` are commented out in the
source.
