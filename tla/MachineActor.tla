---------------------------- MODULE MachineActor ----------------------------
(***************************************************************************)
(* The actor of one machine in the server (crates/machine): it connects to *)
(* the driver's socket, sends tasks to it, records its feedback in the     *)
(* database and is restarted by its supervisor whenever a handler fails.   *)
(* Around it are the mutations of the clients, the compilation of prints   *)
(* and, as its environment, a driver that MarlinDriver models in detail.   *)
(***************************************************************************)
EXTENDS Naturals, FiniteSets, SequencesExt

CONSTANTS
  Prints, Inlines,  \* the ids of prints and of inline tasks (hooks, execGCodes)
  NoTask,
  Automatic,      \* core_plugin.automatic_printing
  Blocking,       \* whether a feedback may show a blocking heater
  Ops,            \* the operations of clients, and
  MaxOps,         \* how many of them
  Faults,         \* what may fail, and
  MaxFaults,      \* how often
  MaxMail         \* events in the actor's mailbox behind which the others wait

Task == Prints \cup Inlines

ASSUME TasksAssumption ==
  /\ IsFiniteSet(Task) /\ Prints \cap Inlines = {} /\ NoTask \notin Task
  /\ Automatic \in BOOLEAN /\ Blocking \subseteq BOOLEAN /\ Blocking # {}

ASSUME BoundsAssumption == MaxOps \in Nat /\ MaxFaults \in Nat /\ MaxMail \in Nat

VARIABLES
  rec,       \* the status of each task's record in the database
  job,       \* the compilation of each print, which holds a copy of its record
  resuming,  \* the prints whose ResumePrint mutation has seen the paused state
  m,         \* the Machine and its MachineData
  mail,      \* the actor's mailbox: messages, events of its stream, Stop
  retry,     \* a ConnectToSocket that is to be sent in 500 ms
  wire,      \* server messages in the driver's socket
  drv,       \* the driver
  credit, sent,   \* history: see TaskLifecycle
  parted,         \* history: whether a task may have reached the driver unseen
  crossed,        \* history: whether a resume used the state of another print's pause
  ops, faults     \* how much of the bounds is used up

database == <<rec, job, resuming>>
history  == <<credit, sent, parted, crossed>>
bounds   == <<ops, faults>>
vars == <<rec, job, resuming, m, mail, retry, wire, drv, credit, sent, parted,
          crossed, ops, faults>>

Pending == {"created", "sent", "started", "paused"}
Final   == {"finished", "cancelled", "errored"}

NoJob == [phase |-> "none", auto |-> FALSE, held |-> FALSE, late |-> FALSE]

\* The Machine that the supervisor starts, and one that has read its config. Of
\* paused_state, saved keeps whether there is one and at whose pause it was taken
\* (which the code does not know).
NewMachine ==
  [conn |-> "none", attempting |-> FALSE, seen |-> FALSE, data |-> FALSE,
   status |-> "Disconnected", task |-> NoTask, paused |-> FALSE,
   saved |-> NoTask, blocked |-> FALSE, homed |-> FALSE]

NewData(mm) ==
  [mm EXCEPT !.data = TRUE, !.status = "Disconnected", !.task = NoTask,
             !.paused = FALSE, !.saved = NoTask, !.blocked = FALSE,
             !.homed = FALSE]

InStatus(mm, s) ==
  [mm EXCEPT !.status = s, !.task = NoTask, !.paused = FALSE, !.saved = NoTask]

Printing(mm, p, paused) ==
  [mm EXCEPT !.status = "Printing", !.task = p, !.paused = paused, !.saved = NoTask]

NewDriver == [up |-> TRUE, st |-> "disconnected", spool |-> <<>>, prog |-> <<>>,
              idle |-> FALSE, old |-> FALSE]

Msg(type) == [type |-> type]

\* Any update of a record makes the copies of it stale that others hold: an
\* update whose version does not match changes no row, and returns Ok, but still
\* counts up the version of the copy. A copy that is exactly one update late
\* therefore matches at the second update made with it, which only SpoolPrintTask
\* makes.
StaleIn(ts, box) ==
  [ i \in 1 .. Len(box) |->
      CASE box[i].type = "SpoolTask" ->
             [box[i] EXCEPT !.fresh = @ /\ box[i].task \notin ts]
        [] box[i].type = "SpoolPrint" ->
             [box[i] EXCEPT !.fresh = @ /\ box[i].task \notin ts,
                            !.late = IF box[i].task \in ts THEN box[i].fresh ELSE @]
        [] box[i].type = "Resume" ->
             [box[i] EXCEPT !.fresh = @ /\ box[i].task \notin ts,
                            !.freshHook = @ /\ box[i].hook \notin ts]
        [] OTHER -> box[i] ]

StaleJobs(ts, jobs) ==
  [ p \in Prints |-> IF p \in ts THEN [jobs[p] EXCEPT !.held = FALSE, !.late = jobs[p].held]
                                  ELSE jobs[p] ]

\* The id of the next inline task: Inlines is to be large enough for MaxOps.
NewInline == LET ids == {t \in Inlines : rec[t] = "absent"}
             IN  IF ids = {} THEN {} ELSE {CHOOSE t \in ids : TRUE}

Running(r) == {t \in Task : r[t] \in Pending}

CanStart(p, override, auto) ==
  \/ m.status = "Printing" /\ (auto \/ override)
  \/ m.status = "Printing" /\ m.paused /\ (p \in Inlines \/ p = m.task)
  \/ m.status = "Ready"

Init ==
  /\ rec = [t \in Task |-> "absent"]
  /\ job = [p \in Prints |-> NoJob]
  /\ resuming = {}
  /\ m = NewMachine
  /\ mail = <<Msg("Connect")>>
  /\ retry = FALSE
  /\ wire = <<>>
  /\ drv = [NewDriver EXCEPT !.up = FALSE]
  /\ credit = [t \in Task |-> 0]
  /\ sent = {}
  /\ parted = FALSE
  /\ crossed = FALSE
  /\ ops = 0
  /\ faults = 0

-----------------------------------------------------------------------------
\* The mutations of the clients.

Room == Len(mail) < MaxMail

Op(kind) == kind \in Ops /\ ops < MaxOps /\ ops' = ops + 1 /\ UNCHANGED faults

Fault(kind) ==
  /\ kind \in Faults /\ faults < MaxFaults /\ faults' = faults + 1
  /\ UNCHANGED ops

Post(msg) == mail' = Append(mail, msg)

\* PrintMutation and insert_print: the record is committed, then compiled.
PrintMutation(p) ==
  /\ Op("print")
  /\ rec[p] = "absent"
  /\ rec' = [rec EXCEPT ![p] = "created"]
  /\ credit' = [credit EXCEPT ![p] = @ + 1]
  /\ job' = [job EXCEPT ![p] = [NoJob EXCEPT !.phase = "compiling", !.held = TRUE]]
  /\ UNCHANGED <<resuming, m, mail, retry, wire, drv, sent, parted, crossed>>

\* compile_print_file: the file of the task is written, and the actor called.
CompilePrint(p) ==
  /\ job[p].phase = "compiling" /\ m.data /\ Room
  /\ Post([type |-> "SpoolPrint", task |-> p, auto |-> job[p].auto,
           fresh |-> job[p].held, late |-> job[p].late])
  /\ job' = [job EXCEPT ![p] = NoJob]
  /\ UNCHANGED <<rec, resuming, m, retry, wire, drv, history, bounds>>

\* The compilation fails, or GetData finds no data.
CompileFails(p) ==
  /\ job[p].phase = "compiling"
  /\ \/ Fault("compile")
     \/ ~m.data /\ UNCHANGED bounds
  /\ job' = [job EXCEPT ![p].phase = "failing"]
  /\ UNCHANGED <<rec, resuming, m, mail, retry, wire, drv, history>>

\* The end of insert_print reads the record of a failed print again ...
ReadFailed(p) ==
  /\ job[p].phase = "failing"
  /\ job' = [job EXCEPT ![p].phase = "settling", ![p].held = TRUE, ![p].late = FALSE]
  /\ UNCHANGED <<rec, resuming, m, mail, retry, wire, drv, history, bounds>>

\* ... and settles it as errored, unless another update came in between or
\* the machine has no data.
SettleFailed(p) ==
  /\ job[p].phase = "settling"
  /\ rec' = IF m.data /\ job[p].held THEN [rec EXCEPT ![p] = "errored"] ELSE rec
  /\ mail' = IF m.data /\ job[p].held THEN StaleIn({p}, mail) ELSE mail
  /\ job' = [job EXCEPT ![p] = NoJob]
  /\ UNCHANGED <<resuming, m, retry, wire, drv, history, bounds>>

\* ExecGCodesMutation
ExecGCodes(t, override) ==
  /\ Op(IF override THEN "override" ELSE "exec") /\ Room
  /\ rec' = [rec EXCEPT ![t] = "created"]
  /\ credit' = [credit EXCEPT ![t] = @ + 1]
  /\ Post([type |-> "SpoolTask", task |-> t, override |-> override, fresh |-> TRUE])
  /\ UNCHANGED <<job, resuming, m, retry, wire, drv, sent, parted, crossed>>

\* PausePrintMutation
PausePrint(p) ==
  /\ Op("pause") /\ Room
  /\ rec[p] # "absent" /\ m.data
  /\ Post([type |-> "Pause", task |-> p])
  /\ UNCHANGED <<database, m, retry, wire, drv, history>>

\* ResumePrintMutation verifies the status of the machine ...
CheckPaused(p) ==
  /\ Op("resume")
  /\ m.status = "Printing" /\ m.paused /\ m.saved # NoTask /\ m.task = p
  /\ resuming' = resuming \cup {p}
  /\ UNCHANGED <<rec, job, m, mail, retry, wire, drv, history>>

\* Mutant: the record is not read again within the transaction.
CommitResumeUnread(p, hook) ==
  /\ p \in resuming /\ Room
  /\ resuming' = resuming \ {p}
  /\ rec' = [rec EXCEPT ![p] = "created", ![hook] = "created"]
  /\ credit' = [credit EXCEPT ![p] = @ + 1, ![hook] = @ + 1]
  /\ mail' = Append(StaleIn({p}, mail),
               [type |-> "Resume", task |-> p, hook |-> hook, fresh |-> TRUE, freshHook |-> TRUE])
  /\ job' = StaleJobs({p}, job)
  /\ UNCHANGED <<m, retry, wire, drv, sent, parted, crossed, bounds>>

\* ... compiles the hook, and marks a record that is paused as created.
CommitResume(p, hook) ==
  /\ p \in resuming /\ Room
  /\ resuming' = resuming \ {p}
  /\ IF rec[p] = "paused" /\ m.data
     THEN /\ rec' = [rec EXCEPT ![p] = "created", ![hook] = "created"]
          /\ credit' = [credit EXCEPT ![p] = @ + 1, ![hook] = @ + 1]
          /\ mail' = Append(StaleIn({p}, mail),
                       [type |-> "Resume", task |-> p, hook |-> hook, fresh |-> TRUE, freshHook |-> TRUE])
          /\ job' = StaleJobs({p}, job)
     ELSE UNCHANGED <<rec, credit, mail, job>>
  /\ UNCHANGED <<m, retry, wire, drv, sent, parted, crossed, bounds>>

\* MachineMutation stop and reset, and the device manager's AddDevice.
Request(type) ==
  /\ Op(type) /\ Room /\ type \in {"StopMachine", "ResetMachine", "AddDevice"}
  /\ Post(Msg(type))
  /\ UNCHANGED <<database, m, retry, wire, drv, history>>

\* The stream puts what the driver broadcasts into the mailbox.
Hear(box, msgs) == IF m.conn = "live" THEN box \o msgs ELSE box

-----------------------------------------------------------------------------
\* The actor: one event of its mailbox at a time.

Receives(type) == mail # <<>> /\ Head(mail).type = type

\* What can come of a send: the write stream is missing, or its peer is gone
\* and the write may or may not notice it.
SendResults == CASE m.conn = "none" -> {FALSE}
                 [] m.conn = "dead" -> BOOLEAN
                 [] m.conn = "live" -> {TRUE}

Sent(msgs) == IF m.conn = "live" THEN wire \o msgs ELSE wire

Ignore == mail' = Tail(mail)
          /\ UNCHANGED <<database, m, retry, wire, drv, history, bounds>>

\* ctx.stop puts Stop behind what is already in the mailbox.
StopActor(box) == mail' = Append(box, Msg("Stop"))

\* Supervisor: the streams and the delayed messages are aborted, and a new
\* Machine is started, which connects.
HandleStop ==
  /\ Receives("Stop")
  /\ m' = NewMachine
  /\ mail' = Append(Tail(mail), Msg("Connect"))
  /\ retry' = FALSE
  /\ parted' = TRUE
  /\ UNCHANGED <<database, wire, drv, credit, sent, crossed, bounds>>

\* Mutant: a failed attempt leaves attempting_to_connect set.
HandleConnectOnce ==
  /\ Receives("Connect")
  /\ IF m.attempting THEN Ignore
     ELSE /\ mail' = Tail(mail)
          /\ \/ /\ Fault("connect")
                /\ m' = [(IF m.data THEN m ELSE NewData(m)) EXCEPT !.attempting = TRUE]
                /\ retry' = TRUE
                /\ UNCHANGED <<wire, drv>>
             \/ /\ UNCHANGED bounds
                /\ m' = [(IF m.data THEN m ELSE NewData(m))
                           EXCEPT !.attempting = TRUE, !.conn = "live"]
                /\ drv' = IF drv.up THEN drv ELSE NewDriver
                /\ wire' = Append(wire, Msg("Hello"))
                /\ UNCHANGED retry
          /\ UNCHANGED <<database, history>>

\* ConnectToSocket: the driver is spawned unless it runs (spawn_driver waits for
\* it to fork), and its socket connected to.
HandleConnect ==
  /\ Receives("Connect")
  /\ IF m.attempting THEN Ignore
     ELSE /\ mail' = Tail(mail)
          /\ \/ /\ Fault("connect")
                /\ m' = IF m.data THEN m ELSE NewData(m)
                /\ retry' = TRUE
                /\ UNCHANGED <<wire, drv>>
             \/ /\ UNCHANGED bounds
                /\ m' = [(IF m.data THEN m ELSE NewData(m))
                           EXCEPT !.attempting = TRUE, !.conn = "live"]
                /\ drv' = IF drv.up THEN drv ELSE NewDriver
                /\ wire' = Append(wire, Msg("Hello"))
                /\ UNCHANGED retry
          /\ UNCHANGED <<database, history>>

\* ctx.send_later
RetryConnect ==
  /\ retry /\ retry' = FALSE
  /\ Post(Msg("Connect"))
  /\ UNCHANGED <<database, m, wire, drv, history, bounds>>

\* StreamHandler::finished: the socket is shut down and everything but a Stopped
\* status forgotten. If it was an earlier stream that ended, the socket is the
\* one of the present stream, which ends as well.
HandleClosed ==
  /\ Receives("Closed")
  /\ m' = InStatus([NewData(m) EXCEPT !.conn = "none", !.attempting = FALSE, !.seen = FALSE],
                   IF m.data /\ m.status = "Stopped" THEN "Stopped" ELSE "Disconnected")
  /\ IF m.conn = "live"
     THEN \/ mail' = Tail(mail) \o <<Msg("Connect"), Msg("Closed")>>
          \/ mail' = Tail(mail) \o <<Msg("Closed"), Msg("Connect")>>
     ELSE mail' = Append(Tail(mail), Msg("Connect"))
  /\ UNCHANGED <<database, retry, wire, drv, history, bounds>>

\* An item of the stream that cannot be read or decoded.
HandleBroken ==
  /\ Receives("Broken")
  /\ StopActor(Tail(mail))
  /\ UNCHANGED <<database, m, retry, wire, drv, history, bounds>>

\* record_init: a driver that is older than the server is to be reset.
HandleInit ==
  /\ Receives("Init")
  /\ mail' = IF Head(mail).old THEN Append(Tail(mail), Msg("ResetWhenIdle")) ELSE Tail(mail)
  /\ UNCHANGED <<database, m, retry, wire, drv, history, bounds>>

\* A message that is handed on to the driver, or restarts the actor.
Forward(type, msg) ==
  /\ Receives(type)
  /\ \E ok \in SendResults :
       /\ wire' = IF ok THEN Sent(<<msg>>) ELSE wire
       /\ IF ok THEN mail' = Tail(mail) ELSE StopActor(Tail(mail))
  /\ UNCHANGED <<database, m, retry, drv, history, bounds>>

HandleResetWhenIdle == Forward("ResetWhenIdle", Msg("ResetWhenIdle"))

HandleStopMachine == Forward("StopMachine", Msg("Estop"))

HandleAddDevice ==
  /\ Receives("AddDevice")
  /\ mail' = IF m.conn # "none" /\ m.data /\ m.status = "Disconnected"
             THEN Append(Tail(mail), Msg("ResetWhenIdle")) ELSE Tail(mail)
  /\ UNCHANGED <<database, m, retry, wire, drv, history, bounds>>

\* The end of the driver's process closes the socket, behind what is in it.
Closes(box) == Hear(box, <<Msg("Closed")>>)
Dead == IF m.conn = "live" THEN [m EXCEPT !.conn = "dead"] ELSE m
Exit == drv' = [NewDriver EXCEPT !.up = FALSE] /\ wire' = <<>>

\* The driver is killed through its pid file. If it cannot be locked, or can be
\* without a kill, the actor is restarted.
HandleResetMachine ==
  /\ Receives("ResetMachine")
  /\ \/ /\ drv.up /\ Exit
        /\ m' = Dead
        /\ mail' = Closes(Tail(mail))
        /\ UNCHANGED bounds
     \/ /\ IF drv.up THEN Fault("kill") ELSE UNCHANGED bounds
        /\ StopActor(Tail(mail))
        /\ UNCHANGED <<m, wire, drv>>
  /\ UNCHANGED <<database, retry, history>>

-----------------------------------------------------------------------------
\* Spooling, pausing and resuming.

SpoolMsg(t, override) == [type |-> "SpoolTask", task |-> t, override |-> override]

\* spool_task: the message is sent, then the record updated if the version of the
\* copy is the one of the row.
Spooled(r, t, lands) == IF lands THEN [r EXCEPT ![t] = "sent"] ELSE r
Spend(ts) == credit' = [t \in Task |-> IF t \in ts THEN credit[t] - 1 ELSE credit[t]]

\* A handler of the actor returns an error to its caller.
Refuse == mail' = Tail(mail)
          /\ UNCHANGED <<rec, m, wire, history>>

HandleSpoolTask ==
  /\ Receives("SpoolTask")
  /\ LET e == Head(mail)
     IN  IF ~m.data \/ ~CanStart(e.task, e.override, FALSE) THEN Refuse
         ELSE \E ok \in SendResults :
                IF ok
                THEN /\ wire' = Sent(<<SpoolMsg(e.task, e.override)>>)
                     /\ rec' = Spooled(rec, e.task, e.fresh)
                     /\ mail' = StaleIn(IF e.fresh THEN {e.task} ELSE {}, Tail(mail))
                     /\ Spend({e.task}) /\ sent' = sent \cup {e.task}
                     /\ parted' = (parted \/ ~e.fresh) /\ crossed' = crossed
                     /\ m' = m
                ELSE /\ StopActor(Tail(mail))
                     /\ UNCHANGED <<rec, m, wire, history>>
  /\ UNCHANGED <<job, resuming, retry, drv, bounds>>

\* insert_print's future sees the error of the actor.
Fails(p) == job' = [job EXCEPT ![p] = [NoJob EXCEPT !.phase = "failing"]]

\* SpoolPrintTask: the compiled task is stored before it is spooled, with the same
\* copy, and the failed update of a copy one update late makes the one that marks
\* the task as sent succeed, whatever the record has become: a record that was
\* settled in between is sent again.
HandleSpoolPrint ==
  /\ Receives("SpoolPrint")
  /\ LET e == Head(mail)  p == e.task
     IN  IF ~m.data \/ ~CanStart(p, FALSE, e.auto)
         THEN /\ Fails(p) /\ mail' = Tail(mail)
              /\ UNCHANGED <<rec, m, wire, history>>
         ELSE \E ok \in SendResults :
                IF ok
                THEN /\ wire' = Sent(<<SpoolMsg(p, FALSE)>>)
                     /\ rec' = Spooled(rec, p, e.fresh \/ e.late)
                     /\ mail' = StaleIn(IF e.fresh \/ e.late THEN {p} ELSE {}, Tail(mail))
                     /\ m' = Printing(m, p, FALSE)
                     /\ Spend({p}) /\ sent' = sent \cup {p}
                     /\ parted' = (parted \/ ~(e.fresh \/ e.late)) /\ crossed' = crossed
                     /\ job' = job
                ELSE /\ Fails(p) /\ StopActor(StaleIn(IF e.fresh THEN {p} ELSE {}, Tail(mail)))
                     /\ UNCHANGED <<rec, m, wire, history>>
  /\ UNCHANGED <<resuming, retry, drv, bounds>>

\* PauseTask: the record and the status say paused, then the driver is told, and
\* the pause hook spooled although the driver could not be told. A task that is
\* paused already is left alone.
HandlePause ==
  /\ Receives("Pause")
  /\ LET p == Head(mail).task
     IN  \E homed \in {FALSE, m.homed} :
         IF ~m.data \/ ~homed \/ rec[p] \in Final \cup {"paused"}
         THEN Refuse /\ UNCHANGED job
         ELSE \E hook \in NewInline, ok \in SendResults, okHook \in SendResults :
                /\ m' = Printing(m, p, TRUE)
                /\ rec' = [rec EXCEPT ![p] = "paused",
                                      ![hook] = IF okHook THEN "sent" ELSE "created"]
                /\ wire' = Sent((IF ok THEN <<[type |-> "Pause", task |-> p]>> ELSE <<>>)
                             \o (IF okHook THEN <<SpoolMsg(hook, FALSE)>> ELSE <<>>))
                /\ LET rest == StaleIn({p}, Tail(mail))
                   IN  IF ok /\ okHook THEN mail' = rest
                       ELSE IF ok \/ okHook THEN StopActor(rest)
                       ELSE mail' = rest \o <<Msg("Stop"), Msg("Stop")>>
                /\ credit' = [credit EXCEPT ![hook] = IF okHook THEN @ ELSE @ + 1]
                /\ sent' = IF okHook THEN sent \cup {hook} ELSE sent
                /\ job' = StaleJobs({p}, job)
  /\ UNCHANGED <<resuming, retry, drv, parted, crossed, bounds>>

\* ResumeTask: the paused state is taken, and the warm-up, the hook and the print
\* are spooled. If only the first n of them can be sent the actor is restarted.
HandleResume ==
  /\ Receives("Resume")
  /\ LET e == Head(mail)
         taken == m.status = "Printing" /\ m.paused /\ m.saved # NoTask /\ m.task = e.task
     IN  IF ~m.data \/ ~taken THEN Refuse /\ UNCHANGED job
         ELSE \E warm \in NewInline, n \in {IF ok THEN 3 ELSE 0 : ok \in SendResults}
                                          \cup (IF m.conn = "dead" THEN {1, 2} ELSE {}) :
                LET order == <<warm, e.hook, e.task>>
                    fresh == {warm} \cup (IF e.freshHook THEN {e.hook} ELSE {})
                                    \cup (IF e.fresh THEN {e.task} ELSE {})
                    done  == {order[i] : i \in 1 .. n}
                IN  /\ rec' = [t \in Task |-> IF t \in done \cap fresh THEN "sent"
                                              ELSE IF t = warm THEN "created" ELSE rec[t]]
                    /\ wire' = Sent([i \in 1 .. n |-> SpoolMsg(order[i], FALSE)])
                    /\ sent' = sent \cup done
                    /\ credit' = [t \in Task |->
                         credit[t] + (IF t = warm THEN 1 ELSE 0) - (IF t \in done THEN 1 ELSE 0)]
                    /\ mail' = LET rest == StaleIn(done \cap fresh, Tail(mail))
                               IN  IF n = 3 THEN rest ELSE Append(rest, Msg("Stop"))
                    /\ m' = IF n = 3 THEN Printing(m, e.task, FALSE)
                                     ELSE [m EXCEPT !.saved = NoTask]
                    /\ job' = StaleJobs(done \cap fresh, job)
                    /\ parted' = (parted \/ ~e.fresh \/ ~e.freshHook)
                    /\ crossed' = (crossed \/ m.saved # e.task)
  /\ UNCHANGED <<resuming, retry, drv, bounds>>

-----------------------------------------------------------------------------
(***************************************************************************)
(* record_feedback, as a function of what it has done so far: the records, *)
(* the machine, the records touched (and those touched more than once),    *)
(* the messages sent, the print started by the hook of a settled one, and  *)
(* whether a send has failed.                                              *)
(***************************************************************************)
Work(fb, next) ==
  [rec |-> rec, m |-> m, touched |-> {}, again |-> {}, out |-> <<>>,
   next |-> next, auto |-> NoTask, failed |-> FALSE]

Listed(fb) == {fb.prog[i].task : i \in 1 .. Len(fb.prog)}

\* Mutant: what the feedback of a new connection does not list is left alone.
FirstFeedbackKeeps(w, fb, pick) ==
  LET kept == {t \in Running(w.rec) \cap Prints : w.rec[t] # "created" /\ t \in Listed(fb)}
  IN  IF kept = {} THEN w ELSE [w EXCEPT !.m = Printing(@, CHOOSE p \in kept : TRUE, FALSE)]

\* update_tasks, first feedback behind a connection: what was sent and is not
\* listed is errored, and a print that is listed goes on, as not paused.
FirstFeedback(w, fb, pick) ==
  LET running == {t \in Running(w.rec) : w.rec[t] # "created"}
      lost    == running \ Listed(fb)
      kept    == (running \cap Listed(fb)) \cap Prints
  IN  [ w EXCEPT
          !.rec = [t \in Task |-> IF t \in lost THEN "errored" ELSE w.rec[t]],
          !.touched = @ \cup lost, !.again = @ \cup (lost \cap w.touched),
          !.m = IF kept = {} THEN @
                ELSE Printing(@, IF pick \in kept THEN pick ELSE CHOOSE p \in kept : TRUE,
                              FALSE) ]

\* A print that finished successfully starts the next one: the record is
\* inserted in the transaction that settles the finished one.
Settle(w, t, status) ==
  LET starts == status = "finished" /\ t \in Prints /\ Automatic /\ w.next # NoTask
      r == [w.rec EXCEPT ![t] = status]
  IN  IF starts
      THEN [w EXCEPT !.rec = [r EXCEPT ![w.next] = "created"],
                     !.auto = w.next, !.next = NoTask]
      ELSE [w EXCEPT !.rec = r]

\* What the machine does once the print it shows has settled.
AfterPrint(w, t, pick) ==
  LET prints == Running(w.rec) \cap Prints
      p      == IF pick \in prints THEN pick ELSE CHOOSE q \in prints : TRUE
  IN  IF w.m.status = "Printing" /\ ~w.m.paused /\ w.m.task = t
      THEN [w EXCEPT !.m = IF prints = {} THEN InStatus(@, "Ready")
                           ELSE Printing(@, p, w.rec[p] = "paused")]
      ELSE w

\* Mutant: a settled record takes the status of the feedback.
RecordProgressAgain(w, e, pick, ok) ==
  LET t == e.task
      changed == ~(w.rec[t] = "paused" /\ e.status = "paused")
      u == [w EXCEPT !.touched = @ \cup {t}, !.again = @ \cup ({t} \cap w.touched)]
      v == IF ~changed THEN u
           ELSE IF e.status \in Final THEN AfterPrint(Settle(u, t, e.status), t, pick)
           ELSE [u EXCEPT !.rec = [@ EXCEPT ![t] = e.status]]
  IN  IF w.failed \/ w.rec[t] = "absent" THEN w
      ELSE IF changed /\ e.status \in Final \cup {"paused"}
      THEN [v EXCEPT !.out = IF ok THEN Append(@, [type |-> "DeleteTaskHistory", task |-> t]) ELSE @,
                     !.failed = ~ok]
      ELSE v

\* One entry of task_progress. A settled record keeps its status, and a pause is
\* not recorded twice; DeleteTaskHistory is sent for what has changed.
RecordProgress(w, e, pick, ok) ==
  LET t == e.task
      changed == w.rec[t] \notin Final /\ ~(w.rec[t] = "paused" /\ e.status = "paused")
      u == [w EXCEPT !.touched = @ \cup {t}, !.again = @ \cup ({t} \cap w.touched)]
      v == IF ~changed THEN u
           ELSE IF e.status \in Final THEN AfterPrint(Settle(u, t, e.status), t, pick)
           ELSE [u EXCEPT !.rec = [@ EXCEPT ![t] = e.status]]
  IN  IF w.failed \/ w.rec[t] = "absent" THEN w
      ELSE IF changed /\ e.status \in Final \cup {"paused"}
      THEN [v EXCEPT !.out = IF ok THEN Append(@, [type |-> "DeleteTaskHistory", task |-> t]) ELSE @,
                     !.failed = ~ok]
      ELSE v

\* The time the tasks were blocked for is stored once nothing blocks any more.
RecordBlocking(w, fb) ==
  LET ts == IF w.m.blocked /\ ~fb.blocking
            THEN {t \in Running(w.rec) : w.rec[t] # "paused"} ELSE {}
  IN  IF w.failed THEN w
      ELSE [w EXCEPT !.touched = @ \cup ts, !.again = @ \cup (ts \cap w.touched),
                     !.m.blocked = fb.blocking]

\* The entries are recorded one after the other.
Recorded(w, fb, pick, ok) ==
  LET upto[k \in 0 .. Len(fb.prog)] ==
        IF k = 0 THEN w ELSE RecordProgress(upto[k - 1], fb.prog[k], pick, ok)
  IN  upto

UpdateTasks(w, fb, pick, ok) ==
  RecordBlocking(
    Recorded(IF w.m.seen THEN w ELSE FirstFeedback(w, fb, pick), fb, pick, ok)[Len(fb.prog)],
    fb)

MachineStatus(st) ==
  CASE st = "disconnected" -> "Disconnected"
    [] st = "connecting"   -> "Connecting"
    [] st = "ready"        -> "Ready"
    [] st = "errored"      -> "Errored"
    [] st = "estopped"     -> "Stopped"

\* Mutant: every change of status errors the running tasks.
UpdateMachineAlways(w, fb) ==
  LET s       == MachineStatus(fb.st)
      differs == s # w.m.status \/ s = "Errored"
      gone    == IF differs THEN Running(w.rec) ELSE {}
      mm      == IF differs /\ ~(w.m.status = "Printing" /\ s = "Ready")
                 THEN InStatus(w.m, s) ELSE w.m
  IN  IF w.failed THEN w
      ELSE [w EXCEPT
              !.rec = [t \in Task |-> IF t \in gone THEN "errored" ELSE w.rec[t]],
              !.touched = @ \cup gone, !.again = @ \cup (gone \cap w.touched),
              !.m = [mm EXCEPT !.seen = TRUE, !.homed = fb.st = "ready",
                       !.saved = IF @ = NoTask /\ mm.status = "Printing" /\ mm.paused
                                 THEN fb.flag ELSE @]]

\* Mutant: the first feedback after a pause is taken for the paused state.
UpdateMachineSavesEarly(w, fb) ==
  LET s       == MachineStatus(fb.st)
      differs == s # w.m.status \/ s = "Errored"
      gone    == IF differs /\ s # "Ready" THEN Running(w.rec) ELSE {}
      mm      == IF differs /\ ~(w.m.status = "Printing" /\ s = "Ready")
                 THEN InStatus(w.m, s) ELSE w.m
  IN  IF w.failed THEN w
      ELSE [w EXCEPT
              !.rec = [t \in Task |-> IF t \in gone THEN "errored" ELSE w.rec[t]],
              !.touched = @ \cup gone, !.again = @ \cup (gone \cap w.touched),
              !.m = [mm EXCEPT !.seen = TRUE, !.homed = fb.st = "ready",
                       !.saved = IF @ = NoTask /\ mm.status = "Printing" /\ mm.paused
                                 THEN mm.task ELSE @]]

\* update_machine. Each Errored feedback is a new status, as it has its own time.
\* A driver that is not ready any more takes every running task with it; a
\* ready one does not end a print.
UpdateMachine(w, fb) ==
  LET s       == MachineStatus(fb.st)
      differs == s # w.m.status \/ s = "Errored"
      gone    == IF differs /\ s # "Ready" THEN Running(w.rec) ELSE {}
      mm      == IF differs /\ ~(w.m.status = "Printing" /\ s = "Ready")
                 THEN InStatus(w.m, s) ELSE w.m
  IN  IF w.failed THEN w
      ELSE [w EXCEPT
              !.rec = [t \in Task |-> IF t \in gone THEN "errored" ELSE w.rec[t]],
              !.touched = @ \cup gone, !.again = @ \cup (gone \cap w.touched),
              !.m = [mm EXCEPT !.seen = TRUE, !.homed = fb.st = "ready",
                       !.saved = IF @ = NoTask /\ mm.status = "Printing" /\ mm.paused
                                 THEN fb.flag ELSE @]]

\* The machine has no data: the actor is restarted.
FeedbackWithoutData ==
  /\ Receives("Feedback") /\ ~m.data
  /\ StopActor(Tail(mail))
  /\ UNCHANGED <<database, m, retry, wire, drv, history, bounds>>

HandleFeedback ==
  /\ Receives("Feedback") /\ m.data
  /\ LET fb == Head(mail)
     IN  \E pick \in Prints, ok \in SendResults,
            next \in {NoTask} \cup {p \in Prints : Automatic /\ rec[p] = "absent"} :
           LET w == UpdateMachine(UpdateTasks(Work(fb, next), fb, pick, ok), fb)
               jobs == IF w.auto = NoTask THEN job
                       ELSE [job EXCEPT ![w.auto] =
                              [NoJob EXCEPT !.phase = "compiling", !.auto = TRUE, !.held = TRUE]]
           IN  /\ rec' = w.rec
               /\ m' = w.m
               /\ wire' = Sent(w.out)
               /\ job' = StaleJobs(w.again, StaleJobs(w.touched, jobs))
               /\ mail' = LET rest == StaleIn(w.again, StaleIn(w.touched, Tail(mail)))
                          IN  IF w.failed THEN Append(rest, Msg("Stop")) ELSE rest
               /\ credit' = [t \in Task |-> credit[t] + (IF t = w.auto THEN 1 ELSE 0)]
  /\ UNCHANGED <<resuming, retry, drv, sent, parted, crossed, bounds>>

-----------------------------------------------------------------------------
(***************************************************************************)
(* The driver and its socket, as MarlinDriver has them: tasks wait in a    *)
(* spool, the first one runs; a feedback follows each change.              *)
(***************************************************************************)
Put(prog, t, status) ==
  IF \E i \in 1 .. Len(prog) : prog[i].task = t
  THEN [i \in 1 .. Len(prog) |->
          IF prog[i].task = t THEN [prog[i] EXCEPT !.status = status] ELSE prog[i]]
  ELSE Append(prog, [task |-> t, status |-> status])

\* Each of the first k tasks of ts.
PutAll(prog, ts, status) ==
  LET upto[k \in 0 .. Len(ts)] ==
        IF k = 0 THEN prog ELSE Put(upto[k - 1], ts[k], status)
  IN  upto

\* A sequence without the positions in gone.
Without(s, gone) ==
  LET upto[k \in 0 .. Len(s)] ==
        IF k = 0 THEN <<>>
        ELSE IF k \in gone THEN upto[k - 1] ELSE Append(upto[k - 1], s[k])
  IN  upto[Len(s)]

\* The first task of the spool is sent its next line.
Run(d) == IF d.spool = <<>> THEN d ELSE [d EXCEPT !.prog = Put(@, Head(d.spool), "started")]

\* The spool is lost, each of its tasks with an entry.
Lose(d, st, status) ==
  [d EXCEPT !.st = st, !.spool = <<>>, !.prog = PutAll(@, d.spool, status)[Len(d.spool)]]

\* Of PAUSED_STATE, flag keeps whose pause the feedback answers, or NoTask.
Feedback(d, flag, blocking) ==
  [type |-> "Feedback", st |-> d.st, prog |-> d.prog, flag |-> flag, blocking |-> blocking]

\* The new state of the driver is broadcast to the server, if it is connected.
Tell(d, flag) ==
  /\ drv' = d
  /\ \E b \in Blocking : mail' = Hear(mail, <<Feedback(d, flag, b)>>)

DriverReceives(type) == drv.up /\ wire # <<>> /\ Head(wire).type = type /\ Room
                        /\ wire' = Tail(wire)

DriverKeeps == UNCHANGED <<database, m, retry, history, bounds>>

DriverHello ==
  /\ DriverReceives("Hello")
  /\ drv' = drv
  /\ \E b \in Blocking :
       mail' = Hear(mail, <<[type |-> "Init", old |-> drv.old], Feedback(drv, NoTask, b)>>)
  /\ DriverKeeps

\* A driver that is not ready drops the task.
DriverSpool ==
  /\ DriverReceives("SpoolTask")
  /\ LET e == Head(wire)
     IN  IF drv.st # "ready" THEN UNCHANGED <<drv, mail>>
         ELSE IF e.override \/ drv.spool = <<>>
         THEN Tell(Run([drv EXCEPT !.spool = <<e.task>> \o @]), NoTask)
         ELSE drv' = [drv EXCEPT !.spool = Append(@, e.task)] /\ UNCHANGED mail
  /\ DriverKeeps

DriverPause ==
  /\ DriverReceives("Pause")
  /\ LET t == Head(wire).task
     IN  IF \E i \in 1 .. Len(drv.spool) : drv.spool[i] = t
         THEN Tell(Run([drv EXCEPT !.spool = Without(@, {i \in DOMAIN @ : @[i] = t}),
                                   !.prog = Put(@, t, "paused")]), t)
         ELSE UNCHANGED <<drv, mail>>
  /\ DriverKeeps

DriverDelete ==
  /\ DriverReceives("DeleteTaskHistory")
  /\ drv' = [drv EXCEPT !.prog = Without(@, {i \in DOMAIN @ : @[i].task = Head(wire).task})]
  /\ UNCHANGED mail
  /\ DriverKeeps

DriverEstop ==
  /\ DriverReceives("Estop")
  /\ Tell(Lose(drv, "estopped", "cancelled"), NoTask)
  /\ DriverKeeps

DriverResetWhenIdle ==
  /\ drv.up /\ wire # <<>> /\ Head(wire).type = "ResetWhenIdle" /\ Room
  /\ IF drv.spool = <<>>
     THEN Exit /\ m' = Dead /\ mail' = Closes(mail)
     ELSE /\ drv' = [drv EXCEPT !.idle = TRUE] /\ wire' = Tail(wire)
          /\ UNCHANGED <<m, mail>>
  /\ UNCHANGED <<database, retry, history, bounds>>

\* The first task runs out of lines, and the next one starts. A driver that is
\* to reset when idle exits behind the last feedback.
DriverFinish ==
  /\ drv.up /\ drv.spool # <<>> /\ Room
  /\ LET d == Run([drv EXCEPT !.spool = Tail(@),
                              !.prog = Put(@, Head(drv.spool), "finished")])
     IN  IF d.spool = <<>> /\ d.idle
         THEN /\ Exit /\ m' = Dead
              /\ \E b \in Blocking :
                   mail' = Hear(mail, <<Feedback(d, NoTask, b), Msg("Closed")>>)
         ELSE Tell(d, NoTask) /\ UNCHANGED <<m, wire>>
  /\ UNCHANGED <<database, retry, history, bounds>>

DriverConnects ==
  /\ drv.up /\ drv.st \in {"disconnected", "connecting"} /\ Room
  /\ Tell([drv EXCEPT !.st = IF @ = "disconnected" THEN "connecting" ELSE "ready"], NoTask)
  /\ UNCHANGED wire
  /\ DriverKeeps

\* The serial port is lost or the printer reports an error.
DriverFails(st) ==
  /\ Fault(st)
  /\ drv.up /\ drv.st = "ready" /\ st \in {"disconnected", "errored"} /\ Room
  /\ Tell(Lose(drv, st, "errored"), NoTask)
  /\ parted' = TRUE
  /\ UNCHANGED <<database, m, retry, wire, credit, sent, crossed>>

DriverCrash ==
  /\ Fault("crash")
  /\ drv.up /\ Room
  /\ Exit /\ m' = Dead /\ mail' = Closes(mail)
  /\ UNCHANGED <<database, retry, history>>

\* An item of the stream cannot be read.
StreamBreaks ==
  /\ Fault("stream")
  /\ m.conn = "live" /\ Room
  /\ Post(Msg("Broken"))
  /\ UNCHANGED <<database, m, retry, wire, drv, history>>

\* The server is restarted: the database and the driver remain.
ServerRestart ==
  /\ Fault("server")
  /\ m' = NewMachine
  /\ mail' = <<Msg("Connect")>>
  /\ retry' = FALSE
  /\ job' = [p \in Prints |-> NoJob]
  /\ resuming' = {}
  /\ drv' = [drv EXCEPT !.old = drv.up]
  /\ parted' = TRUE
  /\ UNCHANGED <<rec, wire, credit, sent, crossed>>

-----------------------------------------------------------------------------
Clients ==
  \/ \E p \in Prints :
       \/ PrintMutation(p) \/ PausePrint(p) \/ CheckPaused(p)
       \/ \E hook \in NewInline : CommitResume(p, hook)
  \/ \E t \in NewInline, override \in BOOLEAN : ExecGCodes(t, override)
  \/ \E type \in {"StopMachine", "ResetMachine", "AddDevice"} : Request(type)

Compilation ==
  \E p \in Prints : \/ CompilePrint(p) \/ CompileFails(p)
                   \/ ReadFailed(p) \/ SettleFailed(p)

Actor ==
  \/ HandleStop \/ HandleConnect \/ HandleClosed \/ HandleBroken \/ HandleInit
  \/ HandleResetWhenIdle \/ HandleStopMachine \/ HandleAddDevice \/ HandleResetMachine
  \/ HandleSpoolTask \/ HandleSpoolPrint \/ HandlePause \/ HandleResume
  \/ FeedbackWithoutData \/ HandleFeedback

Driver ==
  \/ DriverHello \/ DriverSpool \/ DriverPause \/ DriverDelete \/ DriverEstop
  \/ DriverResetWhenIdle \/ DriverFinish \/ DriverConnects

Failures ==
  \/ \E st \in {"disconnected", "errored"} : DriverFails(st)
  \/ DriverCrash \/ StreamBreaks \/ ServerRestart

Next == Clients \/ Compilation \/ RetryConnect \/ Actor \/ Driver \/ Failures

Spec == Init /\ [][Next]_vars

-----------------------------------------------------------------------------
(***************************************************************************)
(* Properties                                                              *)
(***************************************************************************)

\* Whatever fails and in whatever order the handlers run, the record of a task
\* moves as TaskLifecycle promises: it settles once (record_feedback and the end
\* of insert_print race for it, each with a copy of the record), unless it settled
\* between its compilation and its spooling, which overwrites it; and it is sent
\* once for its insertion and once for each resume. The pauses of two prints may
\* cross, so that one is resumed with the paused state of the other before its own
\* pause has reached the driver, or although it never was there: from then on, a
\* print may be spooled that insert_print is about to settle as failed.
Records == INSTANCE TaskLifecycle WITH rec <- rec, credit <- credit, sent <- sent

RecordsFollowLifecycle ==
  Records!Init /\ [][Records!Step \/ crossed']_(Records!lifecycle)

Waiting(type) == \E i \in 1 .. Len(mail) : mail[i].type = type

\* A machine without a stream is never left alone: a connection, the end of a
\* stream, a restart or a delayed retry is on its way (finished, ctx.stop,
\* ctx.send_later and attempting_to_connect work together).
NeverStranded ==
  m.conn # "live" => Waiting("Connect") \/ Waiting("Closed") \/ Waiting("Stop") \/ retry

InDriver(t) == \/ \E i \in 1 .. Len(drv.spool) : drv.spool[i] = t
               \/ \E i \in 1 .. Len(wire) : wire[i].type = "SpoolTask" /\ wire[i].task = t

\* A print that the machine offers to resume, with the state of its own pause, has
\* left the driver, so that a resume never spools it a second time (PauseTask, the
\* pause feedback with its paused state, the resume).
ResumableHasLeftDriver ==
  m.saved # NoTask /\ m.saved = m.task /\ ~crossed => ~InDriver(m.task)

Quiet == mail = <<>> /\ wire = <<>> /\ m.conn = "live" /\ m.seen /\ drv.st = "ready"

\* When nothing is on its way any more, every task recorded as running is one
\* the driver has: whatever was lost with a driver, a stream or the server has
\* been errored by then (record_feedback's first feedback, update_machine).
NothingIsLost == Quiet => \A t \in Task : rec[t] \in {"sent", "started"} => InDriver(t)

\* The other way round, the driver runs no task whose record has settled, as long
\* as no restart, no failure of the driver and no copy of a record that was stale
\* when it was sent has parted the two, and no resume has used the paused state of
\* another print.
NothingRunsUnseen ==
  Quiet /\ ~parted /\ ~crossed => \A t \in Task : InDriver(t) => rec[t] \in Pending

\* "The machine has been paused mid-print" (machine_status.rs:34): a machine
\* that shows itself as paused shows a print that has not settled.
PausedMidPrint == (m.status = "Printing" /\ m.paused) => rec[m.task] \notin Final
=============================================================================
