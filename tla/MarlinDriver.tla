---------------------------- MODULE MarlinDriver ----------------------------
(***************************************************************************)
(* The Marlin driver process (crates/marlin): one reactor that takes the   *)
(* next event from a bounded channel, lets State::consume compute the next *)
(* state and a list of effects, and executes the effects before it looks   *)
(* at the channel again.  Around it: the timers and the serial reader that *)
(* feed the channel, the printer's firmware behind the serial port, and    *)
(* the server whose messages arrive over the protobuf socket.              *)
(*                                                                         *)
(* The firmware and the server are not part of the driver.  The firmware   *)
(* follows crates/marlin/docs/serial_communication.md; the server sends    *)
(* what crates/machine/src/machine/messages sends.                         *)
(***************************************************************************)
EXTENDS DriverSpool

CONSTANTS
  FromFile,     \* the tasks spooled by file path; the others are inline
  Bauds,        \* how many baud rates a connection attempt goes through
  MaxTickles,   \* response_timeout_tickle_attempts
  QueueCap,     \* the buffer of the event channel (100 in lib.rs)
  Faults,       \* the faults the environment may commit
  Requests,     \* the server messages besides SpoolTask that may arrive
  MaxFaults, MaxRequests, MaxPolls, MaxReports   \* bounds of the model

NoTask == "none"

ASSUME DriverAssumption ==
  /\ FromFile \subseteq Task
  /\ {NoTask, "M110", "M105", "M114", "M400"} \cap AnyTask = {}
  /\ Bauds \in Nat \ {0}
  /\ MaxTickles \in Nat
  /\ QueueCap \in Nat \ {0}
  /\ MaxFaults \in Nat /\ MaxRequests \in Nat
  /\ MaxPolls \in Nat /\ MaxReports \in Nat

VARIABLES
  st,         \* the variant of State
  bauds,      \* Connecting.baud_rate_candidates, by their number
  ready,      \* the ReadyState; NoReady outside of Ready
  prog,       \* context.feedback.task_progress, by task
  idleReset,  \* context.reset_when_idle
  queue,      \* the event channel
  armed,      \* the keys of the delays that have yet to fire
  port,       \* the serial port: "closed", "open", or "dead" (unplugged)
  proc,       \* the process: "Running", "Exited", "Panicked" or "Stuck"
  tx, rx,     \* the lines and the responses in transit
  fw,         \* the firmware
  srv,        \* how far the server has got with each task
  taken,      \* history: the tasks this ReadyState has accepted, but for
              \* those whose history the server has deleted
  budget      \* what is left of the bounds of the model

vars == <<st, bauds, ready, prog, idleReset, queue, armed, port, proc,
          tx, rx, fw, srv, taken, budget>>

States == {"Disconnected", "Connecting", "Ready", "Errored", "EStopped"}
OnOk == {"TransitionToReady", "Resend", "IgnoreOK", "Despool", "NotAwaitingOk"}
Polling == {"None", "PollTemperature", "PollPosition"}
Mark == {"None", "MarkSet", "WaitingToReachMark", "WaitingToSendFallbackGCode"}
Delays == {"connection_timeout", "tickle_delay", "polling_delay"}
TaskStatus == {"None", "Started", "Finished", "Paused", "Cancelled", "Errored"}
Settled == {"Finished", "Cancelled", "Errored"}

\* What a delay sends when it fires.
DelayEvent == [ connection_timeout |-> "ConnectionTimeout",
                tickle_delay       |-> "TickleSerialPort",
                polling_delay      |-> "PollFeedback" ]

\* Ok with and without temperatures, the other responses by what they cause.
Responses == {"Ok", "OkTemperatures", "Temperatures", "Positions", "Busy",
              "PausedForUser", "Error", "Greeting", "Resend", "AutoreportTemp",
              "Unknown"}
TaskMessages == {"SpoolTask", "PauseTask", "DeleteTaskHistory",
                 "GCodeLoaded", "GCodeLoadFailed"}
Messages == {"Estop", "Reset", "ResetWhenIdle", "DeviceDiscovered",
             "DeviceDisconnected", "ProtobufClientConnection"}
PortEvents == {"SerialPortOpened", "SerialPortDisconnected", "SerialPortError"}

OtherEvents == Responses \cup Messages \cup PortEvents
                \cup {"Init", "ConnectionTimeout", "TickleSerialPort", "PollFeedback"}

\* n is the line a task is to start from, the line the firmware asks for, or
\* whether there is a device at the start.
Event == [type : TaskMessages, task : Task, n : Nat]
           \cup [type : OtherEvents, task : {NoTask}, n : Nat]

Ev(type) == [type |-> type, task |-> NoTask, n |-> 0]
TaskEv(type, t, n) == [type |-> type, task |-> t, n |-> n]
ResponseEv(type, n) == [type |-> type, task |-> NoTask, n |-> n]

\* What the firmware sends.
Response == [type : Responses, task : {NoTask}, n : Nat]

\* A line on the wire: its line number (0 for none) and what it carries.
Code == {"M110", "M105", "M114", "M400"} \cup AnyTask
WireLine == [num : Nat, code : Code, pos : Nat]

-----------------------------------------------------------------------------
\* ReadyState. awaiting_polling_delay and loading_gcode are never read,
\* last_gcode_sent is never set and awaiting_polling_feedback only filters
\* the G-Code history, so none of them is kept.
ReadyState == [ onOk : OnOk, pollFor : Polling, mark : Mark, line : Nat,
                tickles : Nat, tasks : Seq(SpooledTask), autoreport : BOOLEAN ]

DefaultReady ==
  [ onOk |-> "TransitionToReady", pollFor |-> "PollTemperature",
    mark |-> "None", line |-> 1, tickles |-> 0,
    tasks |-> <<NewTask(FIRMWARE_INFO, 0, 0)>>, autoreport |-> FALSE ]

NoReady == [DefaultReady EXCEPT !.tasks = <<>>]

\* push_task_progress for the tasks xs, which leaves the driver's own out.
Push(p, xs, status) ==
  [ t \in Task |->
      IF \E i \in DOMAIN xs : xs[i].id = t
      THEN [ status |-> status,
             n |-> LET i == CHOOSE i \in DOMAIN xs : xs[i].id = t
                   IN  LineNumber(xs[i].count) ]
      ELSE p[t] ]

-----------------------------------------------------------------------------
(***************************************************************************)
(* What a handler of ReadyState has done so far: the ReadyState and the    *)
(* progress it leaves, the effects it has accumulated, and whether it has  *)
(* failed with an Err ("error") or a panic ("panic").                      *)
(***************************************************************************)
Outcome(r, p) ==
  [ ready |-> r, prog |-> p, send |-> <<>>, arm |-> {}, cancel |-> {},
    exit |-> FALSE, fail |-> "none" ]

\* The assignments to the fields of the ReadyState.
With(o, r) == [o EXCEPT !.ready = r]
SetOnOk(o, action) == With(o, [o.ready EXCEPT !.onOk = action])
SetPollFor(o, poll) == With(o, [o.ready EXCEPT !.pollFor = poll])
SetMark(o, mark) == With(o, [o.ready EXCEPT !.mark = mark])
SetTasks(o, ts) == With(o, [o.ready EXCEPT !.tasks = ts])
CountLine(o) == With(o, [o.ready EXCEPT !.line = @ + 1])

\* Mutant: no delay watches over the line.
SendSerialUntimed(o, num, code, pos, kind) ==
  [o EXCEPT !.send = Append(@, [num |-> num, code |-> code, pos |-> pos])]

\* send_serial: the line, then the tickle delay or, behind a blocking code,
\* its cancellation.
SendSerial(o, num, code, pos, kind) ==
  [ o EXCEPT
      !.send   = Append(@, [num |-> num, code |-> code, pos |-> pos]),
      !.arm    = IF kind = "blocking" THEN @ ELSE @ \cup {"tickle_delay"},
      !.cancel = IF kind = "blocking" THEN @ \cup {"tickle_delay"} ELSE @ ]

\* A line with the next serial line number, whose OK continues the despooling.
SendNumbered(o, code, pos, kind) ==
  CountLine(SetOnOk(SendSerial(o, o.ready.line, code, pos, kind), "Despool"))

PollFeedback(o, pollFor) ==
  IF pollFor = "PollTemperature" /\ ~o.ready.autoreport
  THEN SendNumbered(SetPollFor(o, "PollPosition"), "M105", 0, "gcode")
  ELSE SendNumbered(SetPollFor(o, "None"), "M114", 0, "gcode")

\* Mutant: the line number is used and not counted.
SendFallbackGCodeUncounted(o) ==
  SendSerial(SetOnOk(SetMark(o, "None"), "Despool"), o.ready.line, "M400", 0, "gcode")

SendFallbackGCode(o) ==
  SendNumbered(SetMark(o, "None"), "M400", 0, "gcode")

\* The first k tasks of the spool are finished and popped.
FinishFirst(o, k) ==
  LET ts   == o.ready.tasks
      done == [ i \in 1 .. k |-> Despooled(ts[i], Len(LinesOf(ts[i].id))) ]
      sets == \E i \in 1 .. k : Marks(ts[i], Len(LinesOf(ts[i].id)))
      rest == SetTasks(o, SubSeq(ts, k + 1, Len(ts)))
  IN  [ (IF sets THEN SetMark(rest, "MarkSet") ELSE rest)
          EXCEPT !.prog = Push(o.prog, done, "Finished") ]

\* The front task is despooled up to the line at which it stops.
DespoolFirst(o) ==
  LET x    == Head(o.ready.tasks)
      stop == FirstStop(x)
      y    == Despooled(x, stop)
      kind == LinesOf(x.id)[stop]
      some == SetTasks(o, [o.ready.tasks EXCEPT ![1] = y])
      next == [ (IF Marks(x, stop) THEN SetMark(some, "MarkSet") ELSE some)
                  EXCEPT !.prog = Push(o.prog, <<y>>, "Started") ]
  IN  CASE kind \in {"gcode", "blocking"} ->
             SendNumbered(next, x.id, stop, kind)
        [] kind = "wait" /\ next.ready.mark = "MarkSet" ->
             PollFeedback(SetMark(next, "WaitingToReachMark"), "PollPosition")
        [] OTHER -> [next EXCEPT !.fail = "error"]

\* Mutant: the delay behind the last line stays armed.
NothingToSendTimed(o) ==
  [SetOnOk(o, "NotAwaitingOk") EXCEPT !.exit = idleReset]

NothingToSend(o) ==
  [ SetOnOk(o, "NotAwaitingOk")
      EXCEPT !.cancel = @ \cup {"tickle_delay"}, !.exit = idleReset ]

\* despool_task, with the recursion through despool and execute_host_gcode
\* unrolled: it goes on while tasks run out of lines or set a mark, and the
\* mark WaitingToSendFallbackGCode interrupts it.
DespoolTask(o) ==
  LET ts == o.ready.tasks
      k  == Drained(ts)
  IN  IF o.ready.mark = "WaitingToReachMark"
      THEN SetOnOk(o, "NotAwaitingOk")
      ELSE IF /\ o.ready.mark = "WaitingToSendFallbackGCode"
              /\ ts # <<>>
              /\ GCodesIn(ts[1].id, ts[1].pos, Len(LinesOf(ts[1].id))) = {}
      THEN SendFallbackGCode(FinishFirst(o, 1))
      ELSE IF k = Len(ts)
      THEN NothingToSend(FinishFirst(o, k))
      ELSE DespoolFirst(FinishFirst(o, k))

\* Mutant: an acknowledgement continues with the tasks though a poll is due.
DespoolWithoutPoll(o) ==
  IF o.ready.mark = "WaitingToSendFallbackGCode"
  THEN SendFallbackGCode(o) ELSE DespoolTask(o)

Despool(o) ==
  CASE o.ready.mark = "WaitingToSendFallbackGCode" -> SendFallbackGCode(o)
    [] o.ready.mark # "WaitingToSendFallbackGCode" /\ o.ready.pollFor # "None" ->
         PollFeedback(o, o.ready.pollFor)
    [] OTHER -> DespoolTask(o)

ReceiveOk(o) ==
  CASE o.ready.onOk = "NotAwaitingOk" -> o
    [] o.ready.onOk = "Resend"        -> [o EXCEPT !.fail = "panic"]
    [] o.ready.onOk = "IgnoreOK"      -> SetOnOk(o, "Despool")
    [] OTHER                          -> Despool(o)

\* receive_feedback. verdict is what the axes' positions say of the mark.
ReceiveFeedback(o, feedback, verdict) ==
  CASE feedback = "PausedForUser" -> SetOnOk(o, "IgnoreOK")
    [] feedback = "Temperatures"  -> [o EXCEPT !.arm = @ \cup {"polling_delay"}]
    [] feedback = "Positions" /\ o.ready.mark = "WaitingToReachMark" ->
         CASE verdict = "axes missing" ->
                SetMark(o, "WaitingToSendFallbackGCode")
           [] verdict = "reached" -> Despool(SetMark(o, "None"))
           [] OTHER -> o
    [] OTHER -> o

Verdicts == {"axes missing", "reached", "not reached"}

-----------------------------------------------------------------------------
(***************************************************************************)
(* The reactor: tick_state_machine.  Every handler below consumes the head *)
(* of the channel and executes the effects of its Loop.                    *)
(***************************************************************************)
Receives(type) ==
  /\ proc = "Running"
  /\ queue # <<>>
  /\ Head(queue).type = type

\* The bounds of the model on what the environment does.
Spend(kind) ==
  /\ budget[kind] > 0
  /\ budget' = [budget EXCEPT ![kind] = @ - 1]

Full == Len(Tail(queue)) >= QueueCap

\* No effect at all: and_no_effects and invalid_transition_warning.
Ignore ==
  /\ queue' = Tail(queue)
  /\ UNCHANGED <<st, bauds, ready, prog, idleReset, armed, port, proc, tx, rx,
                 fw, srv, taken, budget>>

\* Mutant: the delays are left to the dropped state.
LeaveArmed(next, ts, p, status) ==
  /\ st' = next
  /\ bauds' = 0
  /\ ready' = NoReady
  /\ prog' = Push(p, ts, status)
  /\ srv' = [ t \in Task |-> IF srv[t] \in {"pausing", "paused"}
                             THEN "over" ELSE srv[t] ]
  /\ taken' = {}
  /\ UNCHANGED <<armed, idleReset>>

\* Mutant: every task accepted so far is settled, not only the spooled ones.
LeaveAll(next, ts, p, status) ==
  /\ st' = next
  /\ bauds' = 0
  /\ ready' = NoReady
  /\ prog' = [t \in Task |-> IF t \in taken THEN [p[t] EXCEPT !.status = status] ELSE p[t]]
  /\ srv' = [ t \in Task |-> IF srv[t] \in {"pausing", "paused"}
                             THEN "over" ELSE srv[t] ]
  /\ taken' = {}
  /\ armed' = {}
  /\ UNCHANGED idleReset

\* Mutant: the spool is dropped and the feedback not told.
LeaveSilently(next, ts, p, status) ==
  /\ st' = next
  /\ bauds' = 0
  /\ ready' = NoReady
  /\ prog' = p
  /\ srv' = [ t \in Task |-> IF srv[t] \in {"pausing", "paused"}
                             THEN "over" ELSE srv[t] ]
  /\ taken' = {}
  /\ armed' = {}
  /\ UNCHANGED idleReset

\* The end of a ReadyState: the server errors every task it knows running.
Leave(next, ts, p, status) ==
  /\ st' = next
  /\ bauds' = 0
  /\ ready' = NoReady
  /\ prog' = Push(p, ts, status)
  /\ srv' = [ t \in Task |-> IF srv[t] \in {"pausing", "paused"}
                             THEN "over" ELSE srv[t] ]
  /\ taken' = {}
  /\ armed' = {}
  /\ UNCHANGED idleReset

\* errored: the port stays open.
Errored(ts, p) ==
  /\ Leave("Errored", ts, p, "Errored")
  /\ queue' = Tail(queue)
  /\ UNCHANGED <<port, proc, tx, rx, fw, budget>>

Fail == Errored(ready.tasks, prog)

\* CloseSerialPort aborts the reader and the writer of the port.
ClosePort == port' = "closed" /\ tx' = <<>> /\ rx' = <<>>

Disconnect ==
  /\ Leave("Disconnected", ready.tasks, prog, "Errored")
  /\ ClosePort
  /\ queue' = Tail(queue)
  /\ UNCHANGED <<proc, fw, budget>>

\* OpenSerialPort closes the old port and sends its outcome to the reactor's
\* own channel: at capacity the reactor waits for itself. A firmware may
\* restart because its port was opened.
OpenPort ==
  \E opened \in BOOLEAN :
    /\ \/ opened /\ UNCHANGED budget
       \/ ~opened /\ "open" \in Faults /\ Spend("faults")
    /\ port' = IF opened THEN "open" ELSE "closed"
    /\ tx' = <<>> /\ rx' = <<>>
    /\ queue' = Append(Tail(queue),
                  Ev(IF opened THEN "SerialPortOpened" ELSE "SerialPortDisconnected"))
    /\ proc' = IF Full THEN "Stuck" ELSE proc
    /\ \/ opened /\ fw' = [fw EXCEPT !.booting = TRUE]
       \/ UNCHANGED fw

\* The sends and the delays of an Outcome. SendSerial unwraps the result of
\* a send, so that a port that is not open ends the process.
Execute(o, delays) ==
  /\ st' = "Ready"
  /\ bauds' = 0
  /\ ready' = o.ready
  /\ prog' = o.prog
  /\ queue' = Tail(queue)
  /\ tx' = IF port = "open" THEN tx \o o.send ELSE tx
  /\ armed' = (delays \cup o.arm) \ o.cancel
  /\ proc' = IF o.send # <<>> /\ port # "open" THEN "Panicked"
             ELSE IF o.exit THEN "Exited" ELSE proc
  /\ UNCHANGED <<idleReset, port, rx, fw, budget>>

\* The end of a handler of ReadyState.
Complete(o, delays) ==
  CASE o.fail = "error" -> Errored(o.ready.tasks, o.prog)
    [] o.fail = "panic" -> /\ proc' = "Panicked"
                           /\ queue' = Tail(queue)
                           /\ UNCHANGED <<st, bauds, ready, prog, idleReset, armed,
                                          port, tx, rx, fw, srv, taken, budget>>
    [] OTHER -> Execute(o, delays) /\ UNCHANGED <<srv, taken>>

Here == Outcome(ready, prog)

-----------------------------------------------------------------------------
\* Connecting to the serial port.

\* Mutant: the candidates are never checked to have run out.
NextBaudUnchecked(n) ==
  /\ st' = "Connecting"
  /\ bauds' = n - 1
  /\ armed' = {"connection_timeout"}
  /\ OpenPort
  /\ UNCHANGED <<ready, prog, idleReset, srv, taken>>

\* reconnect_with_next_baud: n candidates are left before this one is popped.
NextBaud(n) ==
  IF n = 0
  THEN Disconnect
  ELSE /\ st' = "Connecting"
       /\ bauds' = n - 1
       /\ armed' = {"connection_timeout"}
       /\ OpenPort
       /\ UNCHANGED <<ready, prog, idleReset, srv, taken>>

ConsumeInit ==
  /\ Receives("Init")
  /\ st # "Ready"
  /\ \/ Head(queue).n = 1 /\ NextBaud(Bauds)
     \/ Head(queue).n = 0 /\ Ignore

\* reset_line_number
ResetLineNumber ==
  /\ queue' = Tail(queue)
  /\ armed' = armed \cup {"tickle_delay"}
  /\ IF port = "open"
     THEN /\ tx' = Append(tx, [num |-> 0, code |-> "M110", pos |-> 0])
          /\ proc' = proc
     ELSE tx' = tx /\ proc' = "Panicked"
  /\ UNCHANGED <<st, bauds, ready, prog, idleReset, port, rx, fw, srv, taken, budget>>

ConsumeSerialPortOpened ==
  /\ Receives("SerialPortOpened")
  /\ \/ st = "Connecting" /\ ResetLineNumber
     \/ st = "Ready" /\ Fail
     \/ st \notin {"Connecting", "Ready"} /\ Ignore

ConsumeSerialPortDisconnected == Receives("SerialPortDisconnected") /\ Disconnect

ConsumeSerialPortError == Receives("SerialPortError") /\ Fail

ConsumeConnectionTimeout ==
  /\ Receives("ConnectionTimeout")
  /\ \/ st = "Connecting" /\ NextBaud(bauds)
     \/ st # "Connecting" /\ Fail

ConsumeDeviceDiscovered ==
  /\ Receives("DeviceDiscovered")
  /\ \/ st = "Disconnected" /\ NextBaud(Bauds)
     \/ st # "Disconnected" /\ Ignore

ConsumeDeviceDisconnected ==
  /\ Receives("DeviceDisconnected")
  /\ \/ st # "Disconnected" /\ Disconnect
     \/ st = "Disconnected" /\ Ignore

-----------------------------------------------------------------------------
\* Responses from the serial port.

\* append_to_error: an Errored driver only collects what it hears.
AppendToError ==
  /\ st = "Errored"
  /\ armed' = {}
  /\ queue' = Tail(queue)
  /\ UNCHANGED <<st, bauds, ready, prog, idleReset, port, proc, tx, rx, fw, srv,
                 taken, budget>>

Temperatures(type) == IF type = "OkTemperatures" THEN "Temperatures" ELSE "Busy"

ConsumeOk ==
  \E type \in {"Ok", "OkTemperatures"} :
    /\ Receives(type)
    /\ \/ /\ st = "Ready"
          /\ Complete(ReceiveOk(ReceiveFeedback(Here, Temperatures(type), "none")),
                      armed)
       \/ /\ st = "Connecting"   \* State::receive_ok
          /\ Complete(ReceiveOk(ReceiveFeedback(Outcome(DefaultReady, prog),
                                                Temperatures(type), "none")), {})
       \/ AppendToError
       \/ st \in {"Disconnected", "EStopped"} /\ Ignore

ConsumeFeedback ==
  \E type \in {"Temperatures", "Positions", "Busy", "PausedForUser"} :
    /\ Receives(type)
    /\ \/ /\ st = "Ready"
          /\ \E verdict \in Verdicts :
               LET o == ReceiveFeedback(Here, type, verdict)
               IN  Complete([o EXCEPT !.cancel = @ \cup {"tickle_delay"}], armed)
       \/ AppendToError
       \/ st \notin {"Ready", "Errored"} /\ Ignore

ConsumeError ==
  /\ Receives("Error")
  /\ \/ st # "Errored" /\ Fail
     \/ AppendToError

ConsumeGreeting ==
  /\ Receives("Greeting")
  /\ \/ st = "Connecting" /\ ResetLineNumber
     \/ st = "Ready" /\ Fail
     \/ AppendToError
     \/ st \in {"Disconnected", "EStopped"} /\ Ignore

\* Mutant: the number of the lost line is given to the next one.
ConsumeResendRenumbered ==
  /\ Receives("Resend")
  /\ \/ /\ st = "Ready"
        /\ Head(queue).n = ready.line - 1
        /\ Complete(With(Here, [ready EXCEPT !.line = Head(queue).n]), armed)
     \/ st = "Ready" /\ Head(queue).n # ready.line - 1 /\ Fail
     \/ st \notin {"Ready", "Errored"} /\ Fail
     \/ AppendToError

\* receive_resend_request; an invalid transition outside of Ready.
ConsumeResend ==
  /\ Receives("Resend")
  /\ \/ /\ st = "Ready"
        /\ Head(queue).n = ready.line - 1
        /\ Complete(SetOnOk(Here, "Resend"), armed)
     \/ st = "Ready" /\ Head(queue).n # ready.line - 1 /\ Fail
     \/ st \notin {"Ready", "Errored"} /\ Fail
     \/ AppendToError

ConsumeAutoreportTemp ==
  /\ Receives("AutoreportTemp")
  /\ \/ /\ st = "Ready"
        /\ Complete(With(Here, [ready EXCEPT
                       !.tasks = <<NewTask(AUTOREPORT_TEMP, 0, 0)>> \o @,
                       !.autoreport = TRUE]), armed)
     \/ AppendToError
     \/ st \notin {"Ready", "Errored"} /\ Ignore

ConsumeUnknown ==
  /\ Receives("Unknown")
  /\ \/ AppendToError
     \/ st # "Errored" /\ Ignore

-----------------------------------------------------------------------------
\* Messages from the server.

\* GCodeLoaded: the lines before despooled_line_number are skipped, the task
\* joins the spool, and its first line is sent if nothing is in the way.
Load(t, start) ==
  LET skip == IF start = 0 THEN 0 ELSE start - 1
      last == Len(LinesOf(t))
      task == NewTask(t, IF skip < last THEN skip ELSE last, start)
      o    == SetTasks(Here, Spool(ready.tasks, task))
  IN  IF ready.onOk = "NotAwaitingOk" THEN DespoolTask(o) ELSE o

\* An inline task is loaded on the spot. A file is read by the effect
\* LoadGCode, whose outcome queues up behind whatever the channel holds.
ConsumeSpoolTask ==
  /\ Receives("SpoolTask")
  /\ LET t == Head(queue).task
         n == Head(queue).n
     IN  \/ /\ st = "Ready" /\ t \notin FromFile
            /\ LET o == Load(t, n)
               IN  CASE o.fail = "error" -> Errored(o.ready.tasks, o.prog)
                     [] OTHER -> /\ Execute(o, armed)
                                 /\ taken' = taken \cup {t}
                                 /\ UNCHANGED srv
         \/ /\ st = "Ready" /\ t \in FromFile
            /\ \/ /\ queue' = Append(Tail(queue), TaskEv("GCodeLoaded", t, n))
                  /\ UNCHANGED budget
               \/ /\ "file" \in Faults /\ Spend("faults")
                  /\ queue' = Append(Tail(queue), TaskEv("GCodeLoadFailed", t, n))
            /\ proc' = IF Full THEN "Stuck" ELSE proc
            /\ taken' = taken \cup {t}
            /\ UNCHANGED <<st, bauds, ready, prog, idleReset, armed, port, tx, rx,
                           fw, srv>>
         \/ st # "Ready" /\ Ignore

ConsumeGCodeLoaded ==
  /\ Receives("GCodeLoaded")
  /\ \/ st = "Ready" /\ Complete(Load(Head(queue).task, Head(queue).n), armed)
     \/ st # "Ready" /\ Ignore

ConsumeGCodeLoadFailed == Receives("GCodeLoadFailed") /\ Fail

\* Mutant: a pause takes a task off the spool that the feedback still shows
\* as started.
ConsumePauseTaskUnreported ==
  /\ Receives("PauseTask")
  /\ LET t == Head(queue).task
     IN  \/ /\ st = "Ready" /\ t \in Ids(ready.tasks)
            /\ ready' = [ready EXCEPT !.tasks = Unspool(@, t)]
            /\ queue' = Tail(queue)
            /\ UNCHANGED <<st, bauds, prog, idleReset, armed, port, proc, tx, rx, fw,
                           srv, taken, budget>>
         \/ ~(st = "Ready" /\ t \in Ids(ready.tasks)) /\ Ignore

\* A paused task leaves the spool; the feedback that says so carries the flag
\* PAUSED_STATE, by which the server knows that the pause took place.
ConsumePauseTask ==
  /\ Receives("PauseTask")
  /\ LET t    == Head(queue).task
         rest == Unspool(ready.tasks, t)
         gone == ready.tasks[Position(ready.tasks, t)]
     IN  \/ /\ st = "Ready" /\ t \in Ids(ready.tasks)
            /\ ready' = [ready EXCEPT !.tasks = rest]
            /\ prog' = Push(prog, <<gone>>, "Paused")
            /\ srv' = [srv EXCEPT ![t] = IF @ = "pausing" THEN "paused" ELSE @]
            /\ queue' = Tail(queue)
            /\ proc' = IF idleReset /\ rest = <<>> THEN "Exited" ELSE proc
            /\ UNCHANGED <<st, bauds, idleReset, armed, port, tx, rx, fw, taken,
                           budget>>
         \/ ~(st = "Ready" /\ t \in Ids(ready.tasks)) /\ Ignore

\* The entry goes; its line number stays with the server, which resumes from it.
ConsumeDeleteTaskHistory ==
  /\ Receives("DeleteTaskHistory")
  /\ prog' = [prog EXCEPT ![Head(queue).task].status = "None"]
  /\ taken' = taken \ {Head(queue).task}
  /\ queue' = Tail(queue)
  /\ UNCHANGED <<st, bauds, ready, idleReset, armed, port, proc, tx, rx, fw, srv,
                 budget>>

\* cancel_all_tasks, then the port is closed and opened at 19200 baud.
ConsumeEstop ==
  /\ Receives("Estop")
  /\ Leave("EStopped", ready.tasks, prog, "Cancelled")
  /\ OpenPort

ConsumeReset ==
  /\ Receives("Reset")
  /\ proc' = "Exited"
  /\ queue' = Tail(queue)
  /\ UNCHANGED <<st, bauds, ready, prog, idleReset, armed, port, tx, rx, fw, srv,
                 taken, budget>>

\* Mutant: the tasks of the spool do not count as activity.
ConsumeResetWhenIdleAtOnce ==
  /\ Receives("ResetWhenIdle")
  /\ queue' = Tail(queue)
  /\ proc' = "Exited"
  /\ UNCHANGED <<st, bauds, ready, prog, idleReset, armed, port, tx, rx, fw, srv,
                 taken, budget>>

ConsumeResetWhenIdle ==
  /\ Receives("ResetWhenIdle")
  /\ queue' = Tail(queue)
  /\ LET busy == st = "Ready" /\ ready.tasks # <<>>
     IN  \/ busy /\ idleReset' = TRUE /\ proc' = proc
         \/ ~busy /\ proc' = "Exited" /\ UNCHANGED idleReset
  /\ UNCHANGED <<st, bauds, ready, prog, armed, port, tx, rx, fw, srv, taken, budget>>

\* A new client is sent the current feedback; the driver's state stays.
ConsumeProtobufClientConnection == Receives("ProtobufClientConnection") /\ Ignore

-----------------------------------------------------------------------------
\* Timers of ReadyState.

ConsumePollFeedback ==
  /\ Receives("PollFeedback")
  /\ \/ /\ st = "Ready"
        /\ LET o == SetPollFor(Here, "PollTemperature")
           IN  Complete(IF ready.onOk = "NotAwaitingOk"
                        THEN PollFeedback(o, "PollTemperature") ELSE o, armed)
     \/ st # "Ready" /\ Ignore

\* tickle_serial_port: an M105 without a line number.
ConsumeTickleSerialPort ==
  /\ Receives("TickleSerialPort")
  /\ \/ st = "Ready" /\ ready.tickles >= MaxTickles /\ Fail
     \/ /\ st = "Ready" /\ ready.tickles < MaxTickles
        /\ Complete(SendSerial(With(Here, [ready EXCEPT !.tickles = @ + 1]),
                               0, "M105", 0, "gcode"), armed)
     \/ st # "Ready" /\ Ignore

Consume ==
  \/ ConsumeInit \/ ConsumeSerialPortOpened \/ ConsumeSerialPortDisconnected
  \/ ConsumeSerialPortError \/ ConsumeConnectionTimeout
  \/ ConsumeDeviceDiscovered \/ ConsumeDeviceDisconnected
  \/ ConsumeOk \/ ConsumeFeedback \/ ConsumeError \/ ConsumeGreeting
  \/ ConsumeResend \/ ConsumeAutoreportTemp \/ ConsumeUnknown
  \/ ConsumeSpoolTask \/ ConsumeGCodeLoaded \/ ConsumeGCodeLoadFailed
  \/ ConsumePauseTask \/ ConsumeDeleteTaskHistory \/ ConsumeEstop
  \/ ConsumeReset \/ ConsumeResetWhenIdle \/ ConsumeProtobufClientConnection
  \/ ConsumePollFeedback \/ ConsumeTickleSerialPort

-----------------------------------------------------------------------------
(***************************************************************************)
(* What feeds the channel.  A sender may exceed the buffer by one event    *)
(* before it waits for the reactor.                                        *)
(***************************************************************************)
Send(e) ==
  /\ proc = "Running"
  /\ Len(queue) <= QueueCap
  /\ queue' = Append(queue, e)

\* Nothing is on its way from the firmware, which is silent.
Silent ==
  /\ tx = <<>> /\ rx = <<>> /\ ~fw.booting
  /\ \A i \in DOMAIN queue : queue[i].type \notin Responses \cup PortEvents

\* A delay fires. The timeouts fire early, while an answer is under way, only
\* as a fault.
Fire(key) ==
  /\ key \in armed
  /\ armed' = armed \ {key}
  /\ Send(Ev(DelayEvent[key]))
  /\ CASE key = "polling_delay" -> Spend("polls")
       [] key # "polling_delay" /\ Silent -> UNCHANGED budget
       [] OTHER -> "early" \in Faults /\ Spend("faults")
  /\ UNCHANGED <<st, bauds, ready, prog, idleReset, port, proc, tx, rx, fw, srv, taken>>

\* The reader of the open port passes a response on.
Read ==
  /\ port = "open"
  /\ rx # <<>>
  /\ Send(Head(rx))
  /\ rx' = Tail(rx)
  /\ UNCHANGED <<st, bauds, ready, prog, idleReset, armed, port, proc, tx, fw, srv,
                 taken, budget>>

\* The device disappears: the reader and the writer of the port end, and the
\* driver is told so behind everything it has yet to consume.
Unplug ==
  /\ "unplug" \in Faults
  /\ port = "open"
  /\ Spend("faults")
  /\ port' = "dead"
  /\ tx' = <<>> /\ rx' = <<>>
  /\ \E type \in {"SerialPortDisconnected", "SerialPortError"} : Send(Ev(type))
  /\ UNCHANGED <<st, bauds, ready, prog, idleReset, armed, proc, fw, srv, taken>>

\* The server spools a task, and again from its despooled line once the
\* driver has confirmed a pause.
ServerSpools(t) ==
  /\ \/ srv[t] = "new" /\ Send(TaskEv("SpoolTask", t, 0))
     \/ /\ "Resume" \in Requests
        /\ srv[t] = "paused"
        /\ Send(TaskEv("SpoolTask", t, prog[t].n + 1))
  /\ srv' = [srv EXCEPT ![t] = "spooled"]
  /\ UNCHANGED <<st, bauds, ready, prog, idleReset, armed, port, proc, tx, rx, fw,
                 taken, budget>>

\* A print is paused, perhaps while the feedback that settles it is under way.
ServerPauses(t) ==
  /\ "PauseTask" \in Requests
  /\ srv[t] = "spooled" /\ t \notin Override
  /\ Spend("requests")
  /\ srv' = [srv EXCEPT ![t] = "pausing"]
  /\ Send(TaskEv("PauseTask", t, 0))
  /\ UNCHANGED <<st, bauds, ready, prog, idleReset, armed, port, proc, tx, rx, fw, taken>>

\* The server deletes the entry of a task that it has recorded as settled or
\* as paused.  It may act on feedback that is older than its own last message,
\* so that it deletes the entry of a task it has just resumed.
ServerDeletesHistory(t) ==
  /\ "DeleteTaskHistory" \in Requests
  /\ prog[t].status \in Settled \cup {"Paused"}
  /\ Spend("requests")
  /\ Send(TaskEv("DeleteTaskHistory", t, 0))
  /\ UNCHANGED <<st, bauds, ready, prog, idleReset, armed, port, proc, tx, rx, fw,
                 srv, taken>>

\* The device manager's report of a lost device counts as a fault.
ServerRequests(type) ==
  /\ type \in Messages \cap Requests
  /\ Spend(IF type = "DeviceDisconnected" THEN "faults" ELSE "requests")
  /\ Send(Ev(type))
  /\ UNCHANGED <<st, bauds, ready, prog, idleReset, armed, port, proc, tx, rx, fw,
                 srv, taken>>

-----------------------------------------------------------------------------
(***************************************************************************)
(* The firmware: last is the number of the last line it accepted, glued    *)
(* that a line without its newline precedes the next one, ran[t] the       *)
(* positions of the lines of t it executed, autoreports that it reports    *)
(* temperatures unasked.  It answers one line at a time.                   *)
(***************************************************************************)
Answer(line) ==
  CASE line.code = "M105" -> <<ResponseEv("OkTemperatures", 0)>>
    [] line.code = "M114" -> <<ResponseEv("Positions", 0), ResponseEv("Ok", 0)>>
    [] line.code = FIRMWARE_INFO /\ "Autoreport" \in Requests ->
         <<ResponseEv("AutoreportTemp", 0), ResponseEv("Ok", 0)>>
    [] OTHER -> <<ResponseEv("Ok", 0)>>

AskAgain == <<ResponseEv("Resend", fw.last + 1), ResponseEv("Ok", 0)>>

InOrder(line) == line.num \in {0, fw.last + 1}

Accept(line) ==
  LET ran == [fw.ran EXCEPT ![line.code] = Append(@, line.pos)]
  IN  fw' = [ fw EXCEPT !.last = IF line.code = "M110" THEN 0
                                 ELSE IF line.num = 0 THEN @ ELSE line.num,
                        !.ran = IF line.code \in Task THEN ran ELSE @,
                        !.autoreports = @ \/ line.code = AUTOREPORT_TEMP ]

\* The firmware turns to the next line it has received.
Turns ==
  /\ proc # "Exited"
  /\ port = "open"
  /\ ~fw.booting
  /\ tx # <<>> /\ rx = <<>>
  /\ tx' = Tail(tx)
  /\ UNCHANGED <<st, bauds, ready, prog, idleReset, queue, armed, port, proc, srv,
                 taken>>

\* It answers: a line in order is executed, one with a line number it does
\* not expect is an error, and a garbled one is asked for again.
FirmwareAnswers ==
  /\ Turns
  /\ UNCHANGED budget
  /\ \/ ~fw.glued /\ InOrder(Head(tx)) /\ Accept(Head(tx)) /\ rx' = Answer(Head(tx))
     \/ /\ ~fw.glued /\ ~InOrder(Head(tx))
        /\ rx' = <<ResponseEv("Error", 0)>> /\ UNCHANGED fw
     \/ fw.glued /\ fw' = [fw EXCEPT !.glued = FALSE] /\ rx' = AskAgain

\* The line's bytes are corrupted, its newline is lost, or its answer (the
\* last response of it) is.
LineCorrupted ==
  /\ "corrupt" \in Faults /\ Spend("faults")
  /\ Turns
  /\ Head(tx).num > 0
  /\ rx' = AskAgain
  /\ fw' = [fw EXCEPT !.glued = FALSE]

NewlineLost ==
  /\ "newline" \in Faults /\ Spend("faults")
  /\ Turns
  /\ rx' = <<>>
  /\ fw' = [fw EXCEPT !.glued = TRUE]

AnswerLost ==
  /\ "answer" \in Faults /\ Spend("faults")
  /\ Turns
  /\ ~fw.glued /\ InOrder(Head(tx))
  /\ Accept(Head(tx))
  /\ rx' = SubSeq(Answer(Head(tx)), 1, Len(Answer(Head(tx))) - 1)

\* M600 and the like: the firmware waits for the user, and acknowledges the
\* line once more than it should.
FirmwarePauses ==
  /\ "PausedForUser" \in Requests /\ Spend("reports")
  /\ Turns
  /\ ~fw.glued /\ Head(tx).code \in Task /\ InOrder(Head(tx))
  /\ Accept(Head(tx))
  /\ rx' = <<ResponseEv("PausedForUser", 0), ResponseEv("Ok", 0), ResponseEv("Ok", 0)>>

\* Unsolicited responses.
FirmwareReports(type) ==
  /\ proc # "Exited"
  /\ port = "open" /\ ~fw.booting /\ rx = <<>>
  /\ \/ type = "Temperatures" /\ fw.autoreports /\ Spend("reports")
     \/ type = "Busy" /\ tx # <<>> /\ type \in Requests /\ Spend("reports")
     \/ type = "Unknown" /\ type \in Requests /\ Spend("reports")
     \/ type = "Error" /\ type \in Faults /\ Spend("faults")
  /\ rx' = <<ResponseEv(type, 0)>>
  /\ UNCHANGED <<st, bauds, ready, prog, idleReset, queue, armed, port, proc, tx, fw,
                 srv, taken>>

\* A restart, spontaneous or by the opening of the port. What was sent to the
\* firmware while it booted may be lost.
FirmwareRestarts ==
  /\ "reboot" \in Faults /\ Spend("faults")
  /\ ~fw.booting
  /\ fw' = [fw EXCEPT !.booting = TRUE]
  /\ rx' = <<>>
  /\ UNCHANGED <<st, bauds, ready, prog, idleReset, queue, armed, port, proc, tx, srv,
                 taken>>

FirmwareBoots ==
  /\ fw.booting
  /\ fw' = [ fw EXCEPT !.booting = FALSE, !.last = 0, !.glued = FALSE,
                       !.autoreports = FALSE ]
  /\ rx' = IF port = "open" THEN <<ResponseEv("Greeting", 0)>> ELSE <<>>
  /\ tx' \in {tx, <<>>}
  /\ UNCHANGED <<st, bauds, ready, prog, idleReset, queue, armed, port, proc, srv,
                 taken, budget>>

Firmware ==
  \/ FirmwareAnswers \/ LineCorrupted \/ NewlineLost \/ AnswerLost
  \/ FirmwarePauses \/ FirmwareRestarts \/ FirmwareBoots
  \/ \E type \in {"Temperatures", "Busy", "Unknown", "Error"} : FirmwareReports(type)

-----------------------------------------------------------------------------
Init ==
  /\ st = "Disconnected"
  /\ bauds = 0
  /\ ready = NoReady
  /\ prog = [t \in Task |-> [status |-> "None", n |-> 0]]
  /\ idleReset = FALSE
  /\ \E available \in {0, 1} : queue = <<[Ev("Init") EXCEPT !.n = available]>>
  /\ armed = {}
  /\ port = "closed"
  /\ proc = "Running"
  /\ tx = <<>> /\ rx = <<>>
  /\ fw = [ last |-> 0, booting |-> FALSE, glued |-> FALSE, autoreports |-> FALSE,
            ran |-> [t \in Task |-> <<>>] ]
  /\ srv = [t \in Task |-> "new"]
  /\ taken = {}
  /\ budget = [ faults |-> MaxFaults, requests |-> MaxRequests, polls |-> MaxPolls,
                reports |-> MaxReports ]

Next ==
  \/ Consume
  \/ \E key \in Delays : Fire(key)
  \/ Read
  \/ Unplug
  \/ \E t \in Task : ServerSpools(t) \/ ServerPauses(t) \/ ServerDeletesHistory(t)
  \/ \E type \in Messages : ServerRequests(type)
  \/ Firmware

Spec == Init /\ [][Next]_vars

\* The executor polls the reactor, the reader and the spawned delays; the
\* firmware answers what reaches it.  Neither a fault nor a request is due.
Fairness ==
  /\ WF_vars(Consume)
  /\ WF_vars(Read)
  /\ \A key \in Delays : WF_vars(Fire(key))
  /\ WF_vars(FirmwareAnswers) /\ WF_vars(FirmwareBoots)

FairSpec == Spec /\ Fairness

-----------------------------------------------------------------------------
(***************************************************************************)
(* Properties.                                                             *)
(***************************************************************************)

\* The types of the variables.
TypeOK ==
  /\ st \in States
  /\ bauds \in 0 .. Bauds
  /\ ready \in ReadyState
  /\ prog \in [Task -> [status : TaskStatus, n : Nat]]
  /\ idleReset \in BOOLEAN
  /\ queue \in Seq(Event)
  /\ armed \subseteq Delays
  /\ port \in {"closed", "open", "dead"}
  /\ proc \in {"Running", "Exited", "Panicked", "Stuck"}
  /\ tx \in Seq(WireLine)
  /\ rx \in Seq(Response)
  /\ fw \in [ last : Nat, booting : BOOLEAN, glued : BOOLEAN, autoreports : BOOLEAN,
              ran : [Task -> Seq(Nat)] ]
  /\ srv \in [Task -> {"new", "spooled", "pausing", "paused", "over"}]
  /\ taken \subseteq Task
  /\ budget \in [faults : Nat, requests : Nat, polls : Nat, reports : Nat]

\* What the feedback says of a task that runs.  It says nothing of one whose
\* entry the server has deleted, until the task sends another line.
RunningStatus ==
  {"Started"} \cup (IF "DeleteTaskHistory" \in Requests THEN {"None"} ELSE {})

\* The feedback reports a task as started only while a started task of its id
\* is in the spool: whatever ends a task (its last line, a pause, an emergency
\* stop, an error, a disconnection) settles the entry the server reads.  And
\* none of the tasks that run is reported as paused or settled.
ProgressMatchesSpool ==
  \A t \in Task :
    LET running == \E i \in DOMAIN ready.tasks :
                     ready.tasks[i].id = t /\ ready.tasks[i].started
    IN  /\ prog[t].status = "Started" => running
        /\ running => prog[t].status \in RunningStatus

\* A task the driver has accepted is in the spool, or about to be loaded into
\* it, or reported finished or paused: no interleaving of loads, pauses,
\* overrides and acknowledgements loses one while the driver is ready.
TasksAccountedFor ==
  st = "Ready" =>
    \A t \in taken :
      \/ t \in Ids(ready.tasks)
      \/ \E i \in DOMAIN queue :
           queue[i].type \in {"GCodeLoaded", "GCodeLoadFailed"} /\ queue[i].task = t
      \/ prog[t].status \in {"Finished", "Paused"}

\* The G-Code lines of t, in the order a print executes them.
GCodes(t) ==
  LET IsGCode(i) == Lines[t][i] \in {"gcode", "blocking"}
  IN  SelectSeq([i \in 1 .. Len(Lines[t]) |-> i], IsGCode)

\* The firmware executes the lines of each task in order, none twice and none
\* left out, whatever is corrupted or lost on the serial link and however many
\* acknowledgements arrive: line numbers, resend requests and the driver's
\* shutting down on a mismatch together leave no gap.
FirmwareRunsInOrder ==
  \A t \in Task :
    /\ Len(fw.ran[t]) <= Len(GCodes(t))
    /\ \A i \in DOMAIN fw.ran[t] : fw.ran[t][i] = GCodes(t)[i]

\* Over a link that has lost nothing, the numbers of the lines in transit run
\* without a gap from the one the firmware expects next to the last one the
\* driver has given out.
LineNumbersInStep ==
  LET upTo(i) == Cardinality({j \in 1 .. i : tx[j].num > 0})
  IN  st = "Ready" /\ proc = "Running" /\ ~fw.booting /\ budget.faults = MaxFaults =>
        /\ \A i \in DOMAIN tx : tx[i].num > 0 => tx[i].num = fw.last + upTo(i)
        /\ ready.line = fw.last + upTo(Len(tx)) + 1

\* As long as nothing goes wrong outside of the driver, it neither ends in the
\* error state nor panics, in whatever order messages, answers and timers
\* reach it.
ErrorsHaveACause ==
  budget.faults = MaxFaults => st # "Errored" /\ proc # "Panicked"

\* A timer does not outlive the state that armed it: the connection timeout
\* exists only while connecting, the tickle and polling delays only while the
\* driver talks to a printer.
DelaysMatchState ==
  /\ st \notin {"Connecting", "Ready"} => armed = {}
  /\ "connection_timeout" \in armed => st = "Connecting"
  /\ "polling_delay" \in armed => st = "Ready"

\* Once the server knows a task to be paused, nothing is left of it that could
\* send another line: it is off the spool and no load of it is under way.
ConfirmedPauseHolds ==
  \A t \in Task :
    srv[t] = "paused" =>
      /\ t \notin Ids(ready.tasks)
      /\ \A i \in DOMAIN queue :
           queue[i].task = t => queue[i].type \notin {"SpoolTask", "GCodeLoaded"}

\* The closed form of DespoolTask relies on it: a ReadyState that awaits no
\* acknowledgement has no poll to send before the next task.
PollsAwaitTheirTurn ==
  ready.onOk = "NotAwaitingOk" => ready.pollFor = "None"

\* A settled entry of the feedback changes no more until the server deletes it.
SettledIsFinal ==
  [][\A t \in Task :
       prog[t].status \in Settled => prog'[t] = prog[t] \/ prog'[t].status = "None"]_vars

\* A reset when idle ends the process only when the spool is empty.
IdleResetSparesTheSpool ==
  [][proc = "Running" /\ proc' = "Exited" /\ Head(queue).type # "Reset"
       => ready'.tasks = <<>>]_vars

\* A task the driver has accepted is eventually finished, paused or errored
\* (an error empties taken), or the process ends: no lost line and no message
\* leaves the driver waiting for an acknowledgement that never comes.
AcceptedTasksEnd ==
  \A t \in Task :
    t \in taken ~> \/ t \notin taken
                   \/ prog[t].status \in {"Finished", "Paused"}
                   \/ proc # "Running"

-----------------------------------------------------------------------------
(***************************************************************************)
(* What the documentation and the comments say and the code does not do.   *)
(***************************************************************************)

\* docs/serial_communication.md: asked to resend the line it has sent last,
\* the host resends it.  Here: an acknowledgement never ends the process.
ResendDoesNotPanic == proc = "Panicked" => port # "open"

\* docs/serial_communication.md: a host that waits for a response to a line
\* tickles the firmware once its timeout is over.  Here: while the driver
\* awaits an acknowledgement, and no response or timer is under way, the
\* delay that tickles the firmware is armed.
SilenceIsTimed ==
  LET underWay == {"TickleSerialPort", "SpoolTask", "GCodeLoaded", "GCodeLoadFailed"}
  IN  /\ st = "Ready" /\ proc = "Running" /\ ready.onOk # "NotAwaitingOk"
      /\ Silent
      /\ \A i \in DOMAIN queue : queue[i].type \notin underWay
      => "tickle_delay" \in armed

\* ready_state.rs: a resumed print skips through its despooled lines.  Here:
\* the firmware executes no line of a task twice.
NoLineRunsTwice ==
  \A t \in Task : \A i, j \in DOMAIN fw.ran[t] :
    i # j => fw.ran[t][i] # fw.ran[t][j]

=============================================================================
