----------------------------- MODULE PrintQueue -----------------------------
(***************************************************************************)
(* The print queue (crates/print-queue) over the records of the database   *)
(* (crates/json-store): packages of parts, the prints made of them, the    *)
(* mutations of concurrent clients and the settling hook by which a        *)
(* machine starts its next print.                                          *)
(*                                                                         *)
(* A mutation is a transaction that reads, and later writes and commits.   *)
(* Postgres reads what is committed (READ COMMITTED), and an update names  *)
(* the version it has read: it changes no row, and reports no error, when  *)
(* the row has another version by then.  A transaction therefore holds the *)
(* records whose copy is current, and every write takes the record from    *)
(* the others that hold it.  The machine's side is modelled in detail by   *)
(* MachineActor; here it sends a print, ends it and records how it ended,  *)
(* or loses its driver.                                                    *)
(***************************************************************************)
EXTENDS Integers, FiniteSets, FiniteSetsExt, SequencesExt

CONSTANTS
  Parts, Packages,      \* the ids of records, NoPart and NoPkg are not among them
  NoPart, NoPkg,
  MaxPrints,            \* prints are numbered as they are created
  Machines, Clients,
  Automatic,            \* core_plugin.automatic_printing
  MaxQuantity, MaxMoves,
  QueueOps, MaxQueueOps \* which mutations and failures there are, and how many

Tasks == 1 .. MaxPrints
Writers == Clients \cup Machines

ASSUME QueueAssumption ==
  /\ IsFiniteSet(Parts) /\ IsFiniteSet(Packages)
  /\ Packages # {} /\ \E p, q \in Parts : p # q
  /\ Parts \cap Packages = {} /\ (Parts \cup Packages) \cap Tasks = {}
  /\ NoPart \notin Parts \cup Writers /\ NoPkg \notin Parts \cup Packages \cup Tasks
  /\ MaxPrints \in Nat /\ MaxQuantity \in Nat \ {0} /\ MaxMoves \in Nat
  /\ Clients \cap Machines = {} /\ Automatic \in BOOLEAN /\ MaxQueueOps \in Nat

VARIABLES
  parts, pkgs, prints,  \* the tables
  live,                 \* the prints that are with their machine
  outcome,              \* how a print ended that the machine is to record
  txs,                  \* the transaction of each client and machine
  peak,      \* history: the largest total each part has asked for
  raced,     \* history: parts printed by two transactions at once
  tangled,   \* history: positions were written from reads that were stale
  escaped,   \* history: prints that a deletion did not see or did not come to
  resent,    \* history: prints that were settled and then recorded as sent
  queueOps

queueVars == <<parts, pkgs, prints, live, outcome, txs, peak, raced, tangled,
               escaped, resent, queueOps>>

tables == <<parts, pkgs, prints>>
queueHistory == <<peak, raced, tangled, escaped, resent>>

Pending == {"created", "sent", "started", "paused"}
Final   == {"finished", "cancelled", "errored"}

NoTx == [op |-> "none", part |-> NoPart, pkg |-> NoPkg, task |-> 0, n |-> 0,
         machine |-> NoPart, moves |-> <<>>, seen |-> <<>>, doomed |-> {},
         todo |-> {}, halt |-> {}, held |-> {}, crossed |-> FALSE]

NoPrint == [part |-> NoPart, st |-> "absent", machine |-> NoPart, auto |-> FALSE,
            compiling |-> FALSE, fresh |-> FALSE, late |-> FALSE]

-----------------------------------------------------------------------------
\* The queries.

LiveParts == {p \in Parts : parts[p].pkg # NoPkg /\ ~parts[p].gone}

PackageParts(k) == {p \in LiveParts : parts[p].pkg = k}

LivePackages == {k \in Packages : pkgs[k].state = "live"}

Printed(p, sts) == {t \in Tasks : prints[t].part = p /\ prints[t].st \in sts}

PrintsInProgress(p, finished) ==
  Cardinality(Printed(p, Pending \cup (IF finished THEN {"finished"} ELSE {})))

PrintsCompleted(p) == Cardinality(Printed(p, {"finished"}))

TotalPrints(p) == parts[p].quantity * pkgs[parts[p].pkg].quantity

\* mutant: only prints that are over are counted
StartedFinalPrintDone(p) == PrintsCompleted(p) >= TotalPrints(p)

StartedFinalPrint(p) ==
  Cardinality(Printed(p, Pending \cup {"finished"})) >= TotalPrints(p)

\* The parts that lead the queue: LIMIT 1 picks any of those with one position.
Unstarted == {p \in LiveParts : ~StartedFinalPrint(p)}

NextParts ==
  {p \in Unstarted : \A q \in Unstarted : parts[p].position <= parts[q].position}

Queued == {p \in LiveParts : TotalPrints(p) > PrintsCompleted(p)}

-----------------------------------------------------------------------------
\* Records and transactions.

\* The ids of records are drawn at random: which one is next does not matter.
NewPackage ==
  LET free == {k \in Packages : pkgs[k].state = "absent"}
  IN  {k \in free : k = CHOOSE i \in free : TRUE}
FreeParts  == {p \in Parts : parts[p].pkg = NoPkg}
NewPrint   == {t \in Tasks : /\ prints[t].st = "absent"
                             /\ \A u \in 1 .. t - 1 : prints[u].st # "absent"}

\* A transaction that writes these records makes the copies of others stale;
\* one that changes the queue itself crosses those that have read it.
Keep(w, tx, ids, crossing) ==
  txs' = [v \in Writers |->
            CASE v = w -> tx
              [] txs[v].op = "none" -> txs[v]
              [] OTHER -> [txs[v] EXCEPT !.held = @ \ ids, !.crossed = @ \/ crossing]]

Close(w, ids, crossing) == Keep(w, NoTx, ids, crossing)

\* What an update leaves of a table: all of it, if the copy written is stale.
Update(table, tx, id, next) == IF id \in tx.held THEN next ELSE table

Begin(c, tx) == txs[c].op = "none" /\ txs' = [txs EXCEPT ![c] = tx]

Op(kind) ==
  /\ kind \in QueueOps /\ queueOps < MaxQueueOps /\ queueOps' = queueOps + 1
  /\ UNCHANGED <<parts, pkgs, prints, live, outcome, queueHistory>>

\* The driver of a machine, or its actor, fails.
Failure == "failure" \in QueueOps /\ queueOps < MaxQueueOps /\ queueOps' = queueOps + 1

NoPackage == [state |-> "absent", quantity |-> 0, starred |-> FALSE,
              based |-> NoPkg, from |-> NoPkg]
Absent == [pkg |-> NoPkg, position |-> 0, quantity |-> 0, gone |-> FALSE]

\* A queue of one package with two parts, each to be printed once.
QueueInit ==
  LET one    == CHOOSE k \in Packages : TRUE
      first  == CHOOSE p \in Parts : TRUE
      second == CHOOSE p \in Parts \ {first} : TRUE
      part(n) == [pkg |-> one, position |-> n, quantity |-> 1, gone |-> FALSE]
  IN
  /\ pkgs = [[k \in Packages |-> NoPackage] EXCEPT
               ![one] = [NoPackage EXCEPT !.state = "live", !.quantity = 1]]
  /\ parts = [[p \in Parts |-> Absent] EXCEPT ![first] = part(0), ![second] = part(1)]
  /\ peak = [p \in Parts |-> IF p \in {first, second} THEN 1 ELSE 0]
  /\ prints = [t \in Tasks |-> NoPrint]
  /\ live = {} /\ outcome = [t \in Tasks |-> "none"]
  /\ txs = [w \in Writers |-> NoTx]
  /\ raced = {} /\ tangled = FALSE /\ escaped = {} /\ resent = {} /\ queueOps = 0

-----------------------------------------------------------------------------
\* Starting a print.

\* insert_print refuses a part that is already printed as often as asked for.
\* mutant: finished prints are not counted
MayPrintAgain(p) == PrintsInProgress(p, FALSE) < TotalPrints(p)

MayPrint(p) == PrintsInProgress(p, TRUE) < TotalPrints(p)

InsertPrint(w, t, p, mc, auto, table) ==
  /\ prints' = [table EXCEPT ![t] =
       [part |-> p, st |-> "created", machine |-> mc, auto |-> auto, compiling |-> TRUE,
        fresh |-> TRUE, late |-> FALSE]]
  /\ raced' = IF \E v \in Writers \ {w} : txs[v].op = "print" /\ txs[v].part = p
              THEN raced \cup {p} ELSE raced
  /\ escaped' = IF \E v \in Writers : p \in txs[v].doomed THEN escaped \cup {t} ELSE escaped

BeginPrint(c, p, mc) ==
  /\ Op("print")
  /\ p \in LiveParts /\ MayPrint(p)
  /\ Begin(c, [NoTx EXCEPT !.op = "print", !.part = p, !.machine = mc])

CommitPrint(c, t) ==
  /\ txs[c].op = "print" /\ t \in NewPrint
  /\ InsertPrint(c, t, txs[c].part, txs[c].machine, FALSE, prints)
  /\ Close(c, {}, TRUE)
  /\ UNCHANGED <<parts, pkgs, live, outcome, peak, tangled, resent, queueOps>>

Idle(mc) == txs[mc].op = "none"

Ready(mc) == \A t \in Tasks : prints[t].machine = mc => t \notin live /\ outcome[t] = "none"

\* Writing the record of a print, which others may hold: the copy of the request
\* that compiles it is then one update late, or more.
Rewrite(t, st, table) ==
  [table EXCEPT ![t] = [@ EXCEPT !.st = st, !.fresh = FALSE, !.late = table[t].fresh]]

\* The prints of ts get the status that next has for them.
Rewritten(ts, next) ==
  [t \in Tasks |-> IF t \in ts THEN Rewrite(t, next[t], prints)[t] ELSE prints[t]]

\* SpoolPrintTask, once the print is compiled: its part must still exist.  Its copy
\* of the record dates from the insertion and is written twice. A write that finds
\* another version leaves the row as it is, but counts up the copy's version all the
\* same, so that with a copy one update late the second one finds its row: a print
\* that was settled in between is recorded as sent.
SpoolPrint(t) ==
  LET print == prints[t]
      lands == print.fresh \/ print.late
      over  == print.st \notin Pending
  IN
  /\ print.compiling /\ Idle(print.machine)
  /\ print.part \in LiveParts
  /\ Ready(print.machine) \/ print.auto
  /\ prints' = [prints EXCEPT
       ![t] = [@ EXCEPT !.compiling = FALSE, !.fresh = FALSE, !.late = FALSE,
                        !.st = IF lands THEN "sent" ELSE print.st]]
  /\ live' = live \cup {t}
  /\ Keep(NoPart, NoTx, IF lands THEN {t} ELSE {}, lands /\ over)
  /\ resent' = IF lands /\ over THEN resent \cup {t} ELSE resent
  /\ escaped' = IF over /\ (~lands \/ \E c \in Clients : /\ print.part \in txs[c].doomed
                                                         /\ t \notin txs[c].todo)
                THEN escaped \cup {t} ELSE escaped
  /\ UNCHANGED <<parts, pkgs, outcome, peak, raced, tangled, queueOps>>

\* A print that is refused, or whose file fails to compile, is read anew and
\* settled as errored.
\* mutant: the record of a print that is refused stays as it is
RefusePrintUnrecorded(t) ==
  /\ prints[t].compiling /\ Idle(prints[t].machine)
  /\ prints' = [prints EXCEPT ![t].compiling = FALSE]
  /\ UNCHANGED <<parts, pkgs, live, outcome, txs, queueHistory, queueOps>>

RefusePrint(t) ==
  /\ prints[t].compiling /\ Idle(prints[t].machine)
  /\ prints' = [Rewrite(t, "errored", prints) EXCEPT ![t].compiling = FALSE, ![t].late = FALSE]
  /\ Keep(NoPart, NoTx, {t}, FALSE)
  /\ UNCHANGED <<parts, pkgs, live, outcome, queueHistory, queueOps>>

\* The machine records the driver's feedback.
Progress(t, st) ==
  /\ t \in live /\ Idle(prints[t].machine)
  /\ <<prints[t].st, st>> \in {<<"sent", "started">>, <<"started", "paused">>,
                               <<"paused", "started">>}
  /\ prints' = Rewrite(t, st, prints)
  /\ Keep(NoPart, NoTx, {t}, FALSE)
  /\ UNCHANGED <<parts, pkgs, live, outcome, queueHistory, queueOps>>

\* update_machine: the driver is not ready any more. Its prints are gone, and all
\* that is pending on the machine is recorded as errored, compiled or not.
DriverLost(mc) ==
  LET lost == {t \in Tasks : prints[t].machine = mc /\ prints[t].st \in Pending} IN
  /\ Failure
  /\ Idle(mc) /\ lost # {}
  /\ prints' = Rewritten(lost, [t \in Tasks |-> "errored"])
  /\ live' = {t \in live : prints[t].machine # mc}
  /\ Keep(NoPart, NoTx, lost, FALSE)
  /\ UNCHANGED <<parts, pkgs, outcome, queueHistory>>

\* update_tasks: the time a heater has blocked the running tasks is stored.
RecordBlocking(mc) ==
  LET blocked == {t \in Tasks : prints[t].machine = mc /\ prints[t].st \in Pending \ {"paused"}}
  IN
  /\ Idle(mc) /\ blocked # {}
  /\ prints' = Rewritten(blocked, [t \in Tasks |-> prints[t].st])
  /\ Keep(NoPart, NoTx, blocked, FALSE)
  /\ UNCHANGED <<parts, pkgs, live, outcome, queueHistory, queueOps>>

End(t, o) ==
  /\ t \in live
  /\ live' = live \ {t}
  /\ outcome' = [outcome EXCEPT ![t] = o]
  /\ UNCHANGED <<tables, txs, queueHistory, queueOps>>

\* Settling: only tasks that are pending are read, and the hook looks for the
\* next part if a print has finished.
BeginSettle(t, next) ==
  LET mc == prints[t].machine IN
  /\ outcome[t] # "none" /\ Idle(mc) /\ prints[t].st \in Pending
  /\ IF Automatic /\ outcome[t] = "finished" /\ NextParts # {}
     THEN next \in NextParts ELSE next = NoPart
  /\ txs' = [txs EXCEPT ![mc] =
       [NoTx EXCEPT !.op = "settle", !.part = next, !.task = t, !.held = {t}]]
  /\ UNCHANGED <<tables, live, outcome, queueHistory, queueOps>>

Skip(t) ==
  /\ outcome[t] # "none" /\ Idle(prints[t].machine) /\ prints[t].st \notin Pending
  /\ outcome' = [outcome EXCEPT ![t] = "none"]
  /\ UNCHANGED <<tables, live, txs, queueHistory, queueOps>>

Settled(mc) ==
  LET tx == txs[mc] IN Update(prints, tx, tx.task, Rewrite(tx.task, outcome[tx.task], prints))

CommitSettle(mc, t) ==
  LET tx == txs[mc] IN
  /\ tx.op = "settle"
  /\ IF tx.part = NoPart
     THEN t = tx.task /\ prints' = Settled(mc) /\ UNCHANGED <<raced, escaped>>
     ELSE /\ MayPrint(tx.part) /\ t \in NewPrint
          /\ InsertPrint(mc, t, tx.part, mc, TRUE, Settled(mc))
  /\ outcome' = [outcome EXCEPT ![tx.task] = "none"]
  /\ Close(mc, {tx.task} \cap tx.held, tx.part # NoPart)
  /\ UNCHANGED <<parts, pkgs, live, peak, tangled, resent, queueOps>>

\* insert_print refuses within the hook: the transaction is rolled back and the
\* actor restarts; the driver's feedback is settled by the next one.
AbortSettle(mc) ==
  /\ txs[mc].op = "settle" /\ txs[mc].part # NoPart /\ ~MayPrint(txs[mc].part)
  /\ txs' = [txs EXCEPT ![mc] = NoTx]
  /\ UNCHANGED <<tables, live, outcome, queueHistory, queueOps>>

-----------------------------------------------------------------------------
\* The order and the quantities of the queue.

\* One move shifts the parts in between by one.
\* mutant: the part that was at the target keeps its position
MovedShort(position, move) ==
  LET from == position[move.part]
      left(p) == IF position[p] > from THEN position[p] - 1 ELSE position[p]
  IN  [p \in DOMAIN position |->
         IF p = move.part THEN move.to
         ELSE IF left(p) > move.to THEN left(p) + 1 ELSE left(p)]

Moved(position, move) ==
  LET from == position[move.part]
      left(p) == IF position[p] > from THEN position[p] - 1 ELSE position[p]
  IN  [p \in DOMAIN position |->
         IF p = move.part THEN move.to
         ELSE IF left(p) >= move.to THEN left(p) + 1 ELSE left(p)]

\* The moves of a request, one after the other.
MovedBy(position, moves) ==
  LET upto[k \in 0 .. Len(moves)] ==
        IF k = 0 THEN position ELSE Moved(upto[k - 1], moves[k])
  IN  upto[Len(moves)]

BeginMove(c, moves) ==
  /\ Op("move")
  /\ \A i \in DOMAIN moves : moves[i].part \in Queued
  /\ Begin(c, [NoTx EXCEPT !.op = "move", !.moves = moves, !.held = Queued,
                           !.seen = [p \in Queued |-> parts[p].position]])

CommitMove(c) ==
  LET tx  == txs[c]
      new == MovedBy(tx.seen, tx.moves)
      changed == {p \in DOMAIN tx.seen : new[p] # tx.seen[p]}
      written == changed \cap tx.held
  IN
  /\ tx.op = "move"
  /\ parts' = [p \in Parts |-> IF p \in written THEN [parts[p] EXCEPT !.position = new[p]]
                               ELSE parts[p]]
  /\ tangled' = (tangled \/ tx.crossed)
  /\ Close(c, written, TRUE)
  /\ UNCHANGED <<pkgs, prints, live, outcome, peak, raced, escaped, resent, queueOps>>

BeginQuantity(c, p, n) ==
  /\ Op("quantity") /\ p \in LiveParts
  /\ Begin(c, [NoTx EXCEPT !.op = "quantity", !.part = p, !.n = n, !.held = {p}])

\* A part whose prints were all completed comes back to its old position.
CommitQuantity(c) ==
  LET tx == txs[c]  p == tx.part IN
  /\ tx.op = "quantity"
  /\ parts' = Update(parts, tx, p, [parts EXCEPT ![p].quantity = tx.n])
  /\ peak' = [peak EXCEPT ![p] =
       Max({@, parts'[p].quantity * pkgs[parts[p].pkg].quantity})]
  /\ tangled' = (tangled \/ (p \in tx.held /\ p \notin Queued))
  /\ Close(c, {p} \cap tx.held, TRUE)
  /\ UNCHANGED <<pkgs, prints, live, outcome, raced, escaped, resent, queueOps>>

\* The end of the queue, over the parts of all packages that are not deleted.
EndOfQueue ==
  LET all == {parts[p].position : p \in {q \in Parts : parts[q].pkg \in LivePackages}}
  IN  Max(all \cup {-1}) + 1

\* New parts with these quantities: an upload, or the parts of a template.
BeginAdd(c, quantities) ==
  /\ Op("add")
  /\ Begin(c, [NoTx EXCEPT !.op = "add", !.seen = quantities, !.n = EndOfQueue])

\* ORDER BY position: parts that share one come in any order.
Orders(ps) ==
  {s \in [1 .. Cardinality(ps) -> ps] :
     /\ IsInjective(s)
     /\ \A i, j \in DOMAIN s : i < j => parts[s[i]].position <= parts[s[j]].position}

Quantities(ps) == [i \in DOMAIN ps |-> parts[ps[i]].quantity]

BeginAddStarred(c, k) ==
  /\ Op("addStarred")
  /\ k \in LivePackages /\ pkgs[k].starred
  /\ \E originals \in Orders(PackageParts(k)) :
       Begin(c, [NoTx EXCEPT !.op = "add", !.pkg = k, !.n = EndOfQueue,
                             !.seen = Quantities(originals)])

\* Package and parts are inserted together; ids are free parts in any order.
Insert(table, k, package, ids, quantities, position) ==
  /\ pkgs' = [table EXCEPT ![k] = package]
  /\ parts' = [p \in Parts |->
       IF \E i \in DOMAIN ids : ids[i] = p
       THEN LET i == CHOOSE j \in DOMAIN ids : ids[j] = p
            IN  [pkg |-> k, position |-> position + i - 1, quantity |-> quantities[i],
                 gone |-> FALSE]
       ELSE parts[p]]
  /\ peak' = [p \in Parts |-> IF p \in ToSet(ids)
                              THEN parts'[p].quantity * package.quantity ELSE peak[p]]

\* Any ids will do: the first ones that are free, where there are enough.
NewIds(n) ==
  LET free == {s \in [1 .. n -> FreeParts] : IsInjective(s)}
  IN  {s \in free : s = CHOOSE r \in free : TRUE}

Package(quantity, starred, based, from) ==
  [state |-> "live", quantity |-> quantity, starred |-> starred, based |-> based,
   from |-> from]

CommitAdd(c, k, ids) ==
  LET tx == txs[c] IN
  /\ tx.op = "add" /\ k \in NewPackage /\ ids \in NewIds(Len(tx.seen))
  /\ Insert(pkgs, k, Package(1, FALSE, tx.pkg, NoPkg), ids, tx.seen, tx.n)
  /\ tangled' = (tangled \/ tx.crossed)
  /\ Close(c, {}, TRUE)
  /\ UNCHANGED <<prints, live, outcome, raced, escaped, resent, queueOps>>

-----------------------------------------------------------------------------
\* Stars: a starred package is a copy that no print is made of.

\* mutant: the template that a package was made of, or into, is not looked up
TemplateAlone(k) == IF pkgs[k].starred THEN k ELSE NoPkg

Template(k) == IF pkgs[k].based \in LivePackages THEN pkgs[k].based
               ELSE IF pkgs[k].starred THEN k ELSE NoPkg

\* What is starred, or not, already is left as it is.
BeginStar(c, k) ==
  /\ Op("star") /\ k \in LivePackages
  /\ Template(k) # NoPkg => ~pkgs[Template(k)].starred
  /\ Begin(c, [NoTx EXCEPT !.op = "star", !.pkg = k, !.held = {k}])

\* The copy has a quantity of 0; its parts are read as they are copied.
CommitStar(c, copy, ids, originals) ==
  LET tx == txs[c] IN
  /\ tx.op = "star" /\ copy \in NewPackage
  /\ originals \in Orders(PackageParts(tx.pkg)) /\ ids \in NewIds(Len(originals))
  /\ Insert(Update(pkgs, tx, tx.pkg, [pkgs EXCEPT ![tx.pkg].based = copy]), copy,
            Package(0, TRUE, NoPkg, tx.pkg), ids, Quantities(originals), 0)
  /\ raced' = IF tx.pkg \in tx.held THEN raced ELSE raced \cup {tx.pkg}
  /\ Close(c, (tx.held \cap {tx.pkg}) \cup ToSet(originals), TRUE)
  /\ UNCHANGED <<prints, live, outcome, tangled, escaped, resent, queueOps>>

BeginUnstar(c, k) ==
  /\ Op("unstar") /\ k \in LivePackages /\ Template(k) # NoPkg
  /\ Begin(c, [NoTx EXCEPT !.op = "unstar", !.pkg = Template(k), !.held = {Template(k)}])

CommitUnstar(c) ==
  LET tx == txs[c] IN
  /\ tx.op = "unstar"
  /\ pkgs' = Update(pkgs, tx, tx.pkg, [pkgs EXCEPT ![tx.pkg].starred = FALSE])
  /\ Close(c, tx.held, FALSE)
  /\ UNCHANGED <<parts, prints, live, outcome, queueHistory, queueOps>>

-----------------------------------------------------------------------------
\* Deleting parts and packages, which cancels their prints.

\* mutant: what has only been sent is not cancelled
PendingOfStarted(ps) ==
  {t \in Tasks : prints[t].part \in ps /\ prints[t].st \in {"started", "paused"}}

PendingOf(ps) == {t \in Tasks : prints[t].part \in ps /\ prints[t].st \in Pending}

BeginDeleteParts(c, ps) ==
  /\ Op("deleteParts") /\ ps # {} /\ ps \subseteq LiveParts
  /\ Begin(c, [NoTx EXCEPT !.op = "deleteParts", !.doomed = ps, !.todo = PendingOf(ps),
                           !.held = ps \cup PendingOf(ps)])

BeginDeletePackage(c, k) ==
  LET tasks == PendingOf({p \in Parts : parts[p].pkg = k}) IN
  /\ Op("deletePackage") /\ k \in LivePackages
  /\ Begin(c, [NoTx EXCEPT !.op = "deletePackage", !.pkg = k, !.doomed = PackageParts(k),
                           !.todo = tasks, !.held = {k} \cup PackageParts(k) \cup tasks])

CommitDelete(c) ==
  LET tx == txs[c]
      rows == (tx.doomed \cup {tx.pkg}) \cap tx.held
      next == [tx EXCEPT !.op = IF @ = "deleteParts" THEN "cancelAll" ELSE "cancelEach",
                         !.doomed = {}]
  IN
  /\ tx.op \in {"deleteParts", "deletePackage"}
  /\ parts' = [p \in Parts |-> IF p \in rows THEN [parts[p] EXCEPT !.gone = TRUE] ELSE parts[p]]
  /\ pkgs' = [k \in Packages |-> IF k \in rows THEN [pkgs[k] EXCEPT !.state = "gone"] ELSE pkgs[k]]
  /\ Keep(c, IF tx.todo = {} THEN NoTx ELSE next, rows, TRUE)
  /\ tangled' = (tangled \/ ~(tx.doomed \subseteq rows))
  /\ escaped' = escaped \cup {t \in tx.todo : prints[t].part \in tx.doomed \ rows}
  /\ UNCHANGED <<prints, live, outcome, peak, raced, resent, queueOps>>

\* Once the parts are gone, each of their prints is settled as cancelled, from
\* the copy that was read before, and then its machine is stopped: after all of
\* them (delete_parts) or each in turn (delete_packages).
CancelPrint(c, t) ==
  LET tx == txs[c] IN
  /\ tx.op \in {"cancelAll", "cancelEach"} /\ t \in tx.todo
  /\ tx.op = "cancelEach" => tx.halt = {}
  /\ Idle(prints[t].machine)
  /\ prints' = Update(prints, tx, t, Rewrite(t, "cancelled", prints))
  /\ Keep(c, [tx EXCEPT !.todo = @ \ {t}, !.halt = @ \cup {t}], {t} \cap tx.held, FALSE)
  /\ UNCHANGED <<parts, pkgs, live, outcome, queueHistory, queueOps>>

\* Whatever the machine prints ends.
StopMachine(c, t) ==
  LET tx == txs[c]
      stopped == {u \in live : prints[u].machine = prints[t].machine}
      next == [tx EXCEPT !.halt = @ \ {t}]
  IN
  /\ t \in tx.halt
  /\ tx.op = "cancelAll" => tx.todo = {}
  /\ Idle(prints[t].machine)
  /\ live' = live \ stopped
  /\ outcome' = [u \in Tasks |-> IF u \in stopped THEN "cancelled" ELSE outcome[u]]
  /\ Keep(c, IF next.todo = {} /\ next.halt = {} THEN NoTx ELSE next, {}, FALSE)
  /\ UNCHANGED <<tables, queueHistory, queueOps>>

\* The actor of a machine restarts, and a call to it fails: so does the
\* deletion, and the prints it has not come to go on.
DeletionFails(c) ==
  /\ txs[c].op \in {"cancelAll", "cancelEach"}
  /\ Failure
  /\ escaped' = escaped \cup txs[c].todo \cup txs[c].halt
  /\ Close(c, {}, FALSE)
  /\ UNCHANGED <<tables, live, outcome, peak, raced, tangled, resent>>

-----------------------------------------------------------------------------
Moves == [part : Parts, to : 0 .. Cardinality(Parts)]

ClientStep(c) ==
  \/ \E p \in Parts, mc \in Machines : BeginPrint(c, p, mc)
  \/ \E t \in Tasks : CommitPrint(c, t) \/ CancelPrint(c, t) \/ StopMachine(c, t)
  \/ \E n \in 1 .. MaxMoves : \E moves \in [1 .. n -> Moves] : BeginMove(c, moves)
  \/ CommitMove(c)
  \/ \E p \in Parts, n \in 1 .. MaxQuantity : BeginQuantity(c, p, n)
  \/ CommitQuantity(c)
  \/ \E n \in 1 .. MaxQuantity : BeginAdd(c, <<n>>)
  \/ \E k \in Packages : \/ BeginAddStarred(c, k) \/ BeginStar(c, k)
                         \/ BeginUnstar(c, k) \/ BeginDeletePackage(c, k)
  \/ \E k \in Packages, n \in 0 .. Cardinality(Parts) : \E ids \in NewIds(n) :
       \/ CommitAdd(c, k, ids)
       \/ txs[c].op = "star" /\ \E originals \in Orders(PackageParts(txs[c].pkg)) :
            CommitStar(c, k, ids, originals)
  \/ CommitUnstar(c)
  \/ \E ps \in SUBSET Parts : BeginDeleteParts(c, ps)
  \/ CommitDelete(c)
  \/ DeletionFails(c)

MachineStep ==
  \/ \E t \in Tasks :
       \/ SpoolPrint(t) \/ RefusePrint(t) \/ Skip(t)
       \/ \E st \in Pending : Progress(t, st)
       \/ \E o \in Final : End(t, o)
       \/ \E next \in Parts \cup {NoPart} : BeginSettle(t, next)
       \/ \E mc \in Machines : CommitSettle(mc, t)
  \/ \E mc \in Machines : AbortSettle(mc) \/ DriverLost(mc) \/ RecordBlocking(mc)

QueueNext == MachineStep \/ \E c \in Clients : ClientStep(c)

QueueSpec == QueueInit /\ [][QueueNext]_queueVars

-----------------------------------------------------------------------------
(* Properties *)

\* A part is never printed more often than it was once asked for, unless two
\* requests passed insert_print's check before either of them was committed; but
\* prints that were settled while they were compiled and sent nevertheless come on
\* top of those that have replaced them.
QuantityRespected ==
  \A p \in Parts \ raced :
    Cardinality(Printed(p, Pending \cup {"finished"}) \ resent) <= peak[p]

\* Parts that wait in the queue have different positions, so that its order is
\* the one the clients have set, as long as no position was written from a read
\* of the queue that had changed and no completed part was given a new quantity.
PlacesDiffer ==
  ~tangled => \A p, q \in Queued : p # q => parts[p].position # parts[q].position

\* The part that the hook has chosen is accepted by insert_print's own count,
\* unless the queue has changed in between: the settling of a finished print
\* fails, and the actor with it, in no other case.
AutoPrintAccepted ==
  \A mc \in Machines :
    (txs[mc].op = "settle" /\ txs[mc].part # NoPart /\ ~txs[mc].crossed)
      => MayPrint(txs[mc].part)

\* No machine prints a part that was deleted, once the deletion is through, but
\* for a print that was created, or sent again, between its reads and its commit,
\* that it had not come to when it failed, or that was settled and then printed all
\* the same: as its part was changed meanwhile and remained, or the record twice
\* while it was compiled. The next deletion does not see a settled print.
DeletedPartsStop ==
  \A t \in live \ escaped :
    parts[prints[t].part].gone =>
      \E c \in Clients : t \in txs[c].todo \cup txs[c].halt

\* A pending record has someone who will settle it: the request that compiles
\* it, the machine that prints it, or the feedback still to be recorded.
PendingHasAFuture ==
  \A t \in Tasks : prints[t].st \in Pending =>
    prints[t].compiling \/ t \in live \/ outcome[t] # "none"

\* A starred copy stays out of the queue and is never printed, and starring a
\* package again, or one of its copies, makes no second copy, unless two
\* requests did so at once.
TemplatesAreKept ==
  /\ \A t \in Tasks : prints[t].st # "absent" =>
       pkgs[parts[prints[t].part].pkg].quantity > 0
  /\ \A k \in Packages \ raced :
       Cardinality({s \in LivePackages : pkgs[s].starred /\ pkgs[s].from = k}) <= 1
=============================================================================
