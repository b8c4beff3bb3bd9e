---------------------------- MODULE DriverSpool ----------------------------
(***************************************************************************)
(* The spool of the Marlin driver: the queue of tasks a ReadyState holds   *)
(* (crates/marlin/src/state_machine/task.rs and ready_state.rs) and the    *)
(* pure operations the driver performs on it.                              *)
(*                                                                         *)
(* A task's text is abstracted to the kind of each of its raw lines:       *)
(*   "gcode"     a G-Code the firmware acknowledges in a bounded time      *)
(*   "blocking"  a G-Code listed in blocking_codes (M109, M190, ...)       *)
(*   "comment"   an empty or comment line, skipped by next_gcode           *)
(*   "mark"      the driver macro !markTargetPosition                      *)
(*   "wait"      the driver macro !waitToReachMark                         *)
(*   "invalid"   a driver macro that does not parse                        *)
(*                                                                         *)
(* A spooled task is [id, pos, count, started]: pos raw lines have been    *)
(* taken from gcode_lines; count stands for despooled_line_number, with    *)
(* None written 0 and Some(n) written n + 1.                               *)
(***************************************************************************)
EXTENDS Naturals, FiniteSets, Sequences

CONSTANTS
  Task,       \* the ids of the tasks the server may spool
  Override,   \* those among them with machine_override set
  Lines,      \* Lines[t]: the kinds of the raw lines of t
  FIRMWARE_INFO, AUTOREPORT_TEMP   \* the ids of the driver's own tasks

LineKind == {"gcode", "blocking", "comment", "mark", "wait", "invalid"}

\* Tasks with client_id "INTERNAL".
Internal == {FIRMWARE_INFO, AUTOREPORT_TEMP}
AnyTask == Task \cup Internal

ASSUME SpoolAssumption ==
  /\ Task \cap Internal = {}
  /\ FIRMWARE_INFO # AUTOREPORT_TEMP
  /\ Override \subseteq Task
  /\ Lines \in [Task -> Seq(LineKind)]

IsOverride(t) == t \in Override \cup Internal

\* The content of a task; the driver's own tasks hold one G-Code each.
LinesOf(t) == IF t \in Task THEN Lines[t] ELSE <<"gcode">>

SpooledTask == [id : AnyTask, pos : Nat, count : Nat, started : BOOLEAN]

NewTask(t, pos, count) ==
  [id |-> t, pos |-> pos, count |-> count, started |-> FALSE]

Ids(ts) == { ts[i].id : i \in DOMAIN ts }

-----------------------------------------------------------------------------
\* The lines from pos + 1 to last that next_gcode returns: all but comments.
GCodesIn(t, pos, last) ==
  { i \in pos + 1 .. last : LinesOf(t)[i] # "comment" }

\* The positions at which despooling task x stops: a line is sent, or a
\* waitToReachMark begins, or an unreadable macro fails. Comments are skipped
\* and markTargetPosition falls through to the next line.
Stops(x) ==
  { i \in x.pos + 1 .. Len(LinesOf(x.id)) :
      LinesOf(x.id)[i] \notin {"comment", "mark"} }

FirstStop(x) == CHOOSE i \in Stops(x) : \A j \in Stops(x) : i <= j

\* How many tasks at the front of the spool have no line left to stop at.
Drained(ts) ==
  CHOOSE k \in 0 .. Len(ts) :
    /\ \A i \in 1 .. k : Stops(ts[i]) = {}
    /\ k < Len(ts) => Stops(ts[k + 1]) # {}

\* Task x after its lines up to last have been despooled.
Despooled(x, last) ==
  LET sent == GCodesIn(x.id, x.pos, last)
  IN  [ id |-> x.id, pos |-> last, count |-> x.count + Cardinality(sent),
        started |-> x.started \/ sent # {} ]

\* Whether a markTargetPosition is among the lines of x up to last.
Marks(x, last) ==
  \E i \in x.pos + 1 .. last : LinesOf(x.id)[i] = "mark"

\* Mutant: an override takes the place of the first task that is not one.
SpoolInPlace(ts, x) ==
  IF ~IsOverride(x.id) \/ ts = <<>> THEN Append(ts, x) ELSE <<x>> \o Tail(ts)

\* Overrides go in front of the first task that is not one.
Spool(ts, x) ==
  IF ~IsOverride(x.id)
  THEN Append(ts, x)
  ELSE LET k == CHOOSE k \in 0 .. Len(ts) :
                  /\ \A i \in 1 .. k : IsOverride(ts[i].id)
                  /\ k < Len(ts) => ~IsOverride(ts[k + 1].id)
       IN  SubSeq(ts, 1, k) \o <<x>> \o SubSeq(ts, k + 1, Len(ts))

\* Mutant: the task being printed is not looked at.
UnspoolBehindFirst(ts, t) ==
  IF ts = <<>> THEN ts
  ELSE <<Head(ts)>> \o SelectSeq(Tail(ts), LAMBDA x : x.id # t)

\* The first place at which position finds the task of id t.
Position(ts, t) ==
  CHOOSE i \in DOMAIN ts :
    /\ ts[i].id = t
    /\ \A j \in 1 .. i - 1 : ts[j].id # t

\* The spool without that task.
Unspool(ts, t) ==
  LET i == Position(ts, t)
  IN  SubSeq(ts, 1, i - 1) \o SubSeq(ts, i + 1, Len(ts))

\* The value of despooled_line_number.unwrap_or(0) the feedback carries.
LineNumber(count) == IF count = 0 THEN 0 ELSE count - 1

=============================================================================
