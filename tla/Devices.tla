------------------------------- MODULE Devices -------------------------------
(***************************************************************************)
(* The list of serial ports (crates/device).  Watchers list a directory    *)
(* and read its inotify events; what they find goes to the device manager  *)
(* in two ways: additions by way of the broker, which tells the machines   *)
(* as well, and removals directly.  The two directories of /dev/serial are *)
(* watched together, by-id and by-path, and /tmp on its own, for Klipper.  *)
(***************************************************************************)
EXTENDS Integers, FiniteSets, SequencesExt

CONSTANTS
  Files,       \* files that come and go: each a directory and a name
  LongNames,   \* names whose events do not fit the buffer that events are read to
  MaxPlugs     \* how often files, or the directories, come and go

Serial == {"by-id", "by-path"}
Directories == Serial \cup {"tmp"}

ASSUME DevicesAssumption ==
  /\ IsFiniteSet(Files) /\ \A f \in Files : f[1] \in Directories
  /\ MaxPlugs \in Nat

NamesIn(d) == {f[2] : f \in {g \in Files : g[1] = d}}

VARIABLES
  present,     \* the files of each directory
  exists,      \* the directories that exist
  watchers,    \* what each watcher does: off, listing, listed, watching, ended
  events,      \* inotify's queue of each watcher
  broker,      \* additions on their way through the broker
  inbox,       \* the device manager's mailbox
  devices,     \* the device manager's list
  plugs,
  overtaken,   \* history: removals that overtook the addition before them
  gaps         \* history: directories whose watcher was given up, or not begun
               \* again

devicesVars == <<present, exists, watchers, events, broker, inbox, devices, plugs, overtaken,
                 gaps>>

Port(d, f) == <<d, f>>

DevicesInit ==
  /\ present = [d \in Directories |-> {}]
  /\ exists \in {Directories, {"tmp"}}
  /\ watchers = [d \in Directories |-> "off"]
  /\ events = [d \in Directories |-> << >>]
  /\ broker = << >> /\ inbox = << >> /\ devices = {}
  /\ plugs = 0 /\ overtaken = {} /\ gaps = {}

Plug == plugs < MaxPlugs /\ plugs' = plugs + 1

\* mutant: the watch is added when the directory has been listed
WatchedLate(d) == watchers[d] = "watching"

\* The watch is there before the directory is listed.
Watched(d) == watchers[d] \in {"listing", "listed", "watching"}

Notify(d, kind, f) ==
  IF Watched(d)
  THEN [events EXCEPT ![d] = Append(@, [kind |-> kind, file |-> f])] ELSE events

-----------------------------------------------------------------------------
\* udev and others: files are created and deleted, and the directories with them.

CreatePort(d, f) ==
  /\ d \in exists /\ f \notin present[d] /\ Plug
  /\ present' = [present EXCEPT ![d] = @ \cup {f}]
  /\ events' = Notify(d, "create", f)
  /\ UNCHANGED <<exists, watchers, broker, inbox, devices, overtaken, gaps>>

DeletePort(d, f) ==
  /\ f \in present[d] /\ Plug
  /\ present' = [present EXCEPT ![d] = @ \ {f}]
  /\ events' = Notify(d, "delete", f)
  /\ UNCHANGED <<exists, watchers, broker, inbox, devices, overtaken, gaps>>

MakeDirectory(d) ==
  /\ d \in Serial \ exists /\ Plug
  /\ exists' = exists \cup {d}
  /\ UNCHANGED <<present, watchers, events, broker, inbox, devices, overtaken, gaps>>

DeleteDirectory(d) ==
  /\ d \in Serial \cap exists /\ present[d] = {} /\ Plug
  /\ exists' = exists \ {d}
  /\ events' = Notify(d, "self", "none")
  /\ UNCHANGED <<present, watchers, broker, inbox, devices, overtaken, gaps>>

-----------------------------------------------------------------------------
\* watch_dev_serial waits for /dev/serial and then begins with both directories; it
\* begins again when both watchers have ended.  The Klipper watcher begins once.

AddWatches(S) ==
  /\ watchers' = [d \in Directories |-> IF d \in S THEN "listing" ELSE watchers[d]]
  /\ events' = [d \in Directories |-> IF d \in S THEN << >> ELSE events[d]]

WatchSerial ==
  /\ \A d \in Serial : watchers[d] \in {"off", "ended"}
  /\ Serial \subseteq exists
  /\ AddWatches(Serial)
  /\ UNCHANGED <<present, exists, broker, inbox, devices, plugs, overtaken, gaps>>

WatchKlipper ==
  /\ watchers["tmp"] = "off"
  /\ AddWatches({"tmp"})
  /\ UNCHANGED <<present, exists, broker, inbox, devices, plugs, overtaken, gaps>>

\* In /tmp the long names are of other programs' files.
IsPort(d, f) == d \in Serial \/ f \notin LongNames

PortsIn(d) == {Port(d, f) : f \in {g \in present[d] : IsPort(d, g)}}

\* What the directory holds when it is read is added. If it is gone the error ends
\* the other watcher as well, and the supervisor has both begin again.
ListDirectory(d) ==
  /\ watchers[d] = "listing"
  /\ IF d \in exists
     THEN /\ watchers' = [watchers EXCEPT ![d] = "listed"]
          /\ broker' = broker \o SetToSeq(PortsIn(d))
          /\ UNCHANGED gaps
     ELSE /\ watchers' = [e \in Directories |-> IF e \in Serial THEN "off" ELSE watchers[e]]
          /\ gaps' = gaps \cup Serial
          /\ UNCHANGED broker
  /\ UNCHANGED <<present, exists, events, inbox, devices, plugs, overtaken>>

\* The whole of the listing is read before the first event is.
FinishListing(d) ==
  /\ watchers[d] = "listed"
  /\ watchers' = [watchers EXCEPT ![d] = "watching"]
  /\ UNCHANGED <<present, exists, events, broker, inbox, devices, plugs, overtaken, gaps>>

\* The event is of a name too long for the buffer, which ends the stream.
Unreadable(event) == event.file \in LongNames

SendRemoval(message, ports) ==
  /\ inbox' = Append(inbox, message)
  /\ overtaken' = overtaken \cup (ports \cap ToSet(broker))

\* mutant: files that are moved or deleted are left in the list
KeepsDeleted(kind) == kind = "self"

Removes(kind) == kind = "delete"

\* One event.  When the directory is deleted or the stream ends, what is listed of
\* the directory is removed, and the watcher has ended.
ReadEvent(d) ==
  LET event == Head(events[d])  port == Port(d, event.file) IN
  /\ watchers[d] = "watching" /\ events[d] # << >>
  /\ IF event.kind = "self" \/ Unreadable(event)
     THEN /\ watchers' = [watchers EXCEPT ![d] = "ended"]
          /\ events' = [events EXCEPT ![d] = << >>]
          /\ SendRemoval([directory |-> d], {Port(d, f) : f \in NamesIn(d)})
          /\ UNCHANGED broker
     ELSE /\ events' = [events EXCEPT ![d] = Tail(@)]
          /\ broker' = IF event.kind = "create" THEN Append(broker, port) ELSE broker
          /\ IF Removes(event.kind) THEN SendRemoval([port |-> port], {port})
             ELSE UNCHANGED <<inbox, overtaken>>
          /\ UNCHANGED watchers
  /\ UNCHANGED <<present, exists, devices, plugs, gaps>>

\* The broker hands an addition on to who has subscribed to it.
Publish ==
  /\ broker # << >>
  /\ broker' = Tail(broker)
  /\ inbox' = Append(inbox, [add |-> Head(broker)])
  /\ UNCHANGED <<present, exists, watchers, events, devices, plugs, overtaken, gaps>>

\* AddDevice, RemoveDevice and RemoveDeviceDirectory
AddsDevice(p) == devices \cup {p}
RemovesDevice(p) == devices \ {p}
RemovesDirectory(d) == {p \in devices : p[1] # d}

ManageDevice ==
  /\ inbox # << >>
  /\ inbox' = Tail(inbox)
  /\ LET message == Head(inbox) IN
       devices' = CASE "add" \in DOMAIN message -> AddsDevice(message.add)
                    [] "port" \in DOMAIN message -> RemovesDevice(message.port)
                    [] OTHER -> RemovesDirectory(message.directory)
  /\ UNCHANGED <<present, exists, watchers, events, broker, plugs, overtaken, gaps>>

DirectoryStep(d) ==
  \/ \E f \in NamesIn(d) : CreatePort(d, f) \/ DeletePort(d, f)
  \/ MakeDirectory(d) \/ DeleteDirectory(d)
  \/ ListDirectory(d) \/ FinishListing(d) \/ ReadEvent(d)

DevicesNext ==
  \/ \E d \in Directories : DirectoryStep(d)
  \/ WatchSerial \/ WatchKlipper \/ Publish \/ ManageDevice

DevicesSpec == DevicesInit /\ [][DevicesNext]_devicesVars

-----------------------------------------------------------------------------
(* Properties *)

Quiet(d) == events[d] = << >> /\ broker = << >> /\ inbox = << >>

\* No port is missed: when all that was told has been read, the list holds each
\* port of a directory that is watched, however it came while the watch was set up.
NoPortMissed ==
  \A d \in Directories : Quiet(d) /\ watchers[d] = "watching" => PortsIn(d) \subseteq devices

\* No port is listed that is not there, or of a directory whose watcher has ended,
\* unless its removal overtook its addition on its way through the broker, or the
\* watcher was ended by the failure of the other.
NoPortLeft ==
  \A d \in Directories : Quiet(d) /\ watchers[d] \in {"watching", "ended"} /\ d \notin gaps =>
    \A p \in devices \ overtaken : p[1] = d => watchers[d] = "watching" /\ p \in PortsIn(d)
=============================================================================
