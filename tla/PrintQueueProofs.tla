--------------------------- MODULE PrintQueueProofs ---------------------------
(***************************************************************************)
(* Theorems about the print queue, for any parts, packages, machines and   *)
(* clients, and any number of their mutations.                             *)
(*                                                                         *)
(* A transaction acts on what it has read before others committed.  The    *)
(* invariant says for each kind of transaction what of its reads is still  *)
(* true at its commit (TxOK), what is true of every print (PrintOK), and   *)
(* what deletions know of the prints of the parts they delete (StopsOK).   *)
(* The invariants of the templates (StarsInv) and of the order of the      *)
(* queue (OrderInv) build on it.                                           *)
(***************************************************************************)
EXTENDS PrintQueue, FiniteSetTheorems, TLAPS, RecursionLemmas

Deleting == {"deleteParts", "deletePackage"}
Cancelling == {"cancelAll", "cancelEach"}

PrintRecord ==
  [part : Parts \cup {NoPart}, st : {"absent"} \cup Pending \cup Final,
   machine : Machines \cup {NoPart}, auto : BOOLEAN, compiling : BOOLEAN, fresh : BOOLEAN,
   late : BOOLEAN]

\* The prints that count against the quantity of a part, and those of them that
\* have been asked for.
Counted(p) == Printed(p, Pending \cup {"finished"})
Ordered(p) == Counted(p) \ resent

PartOK(p) ==
  /\ DOMAIN parts[p] = {"pkg", "position", "quantity", "gone"}
  /\ parts[p].pkg \in Packages \cup {NoPkg}
  /\ parts[p].quantity \in Nat /\ parts[p].gone \in BOOLEAN
  /\ parts[p].pkg # NoPkg => TotalPrints(p) <= peak[p] /\ pkgs[parts[p].pkg].state # "absent"

PackageOK(k) ==
  /\ DOMAIN pkgs[k] = {"state", "quantity", "starred", "based", "from"}
  /\ pkgs[k].quantity \in Nat

TablesOK ==
  /\ prints \in [Tasks -> PrintRecord]
  /\ DOMAIN parts = Parts /\ DOMAIN pkgs = Packages
  /\ peak \in [Parts -> Nat]
  /\ live \subseteq Tasks /\ outcome \in [Tasks -> {"none"} \cup Final]
  /\ escaped \subseteq Tasks
  /\ \A p \in Parts : PartOK(p)
  /\ \A k \in Packages : PackageOK(k)

\* A print is with the request that compiles it, with its machine, or ended, and
\* in but one of these places; its record is pending in no other.
PrintOK(t) ==
  /\ prints[t].st = "absent" => ~prints[t].compiling /\ t \notin live /\ outcome[t] = "none"
  /\ prints[t].st # "absent" =>
       /\ prints[t].part \in Parts /\ parts[prints[t].part].pkg # NoPkg
       /\ prints[t].machine \in Machines
  /\ prints[t].fresh => prints[t].st = "created"
  /\ prints[t].compiling => t \notin live /\ outcome[t] = "none"
  /\ t \in live => outcome[t] = "none"
  /\ prints[t].st \in Pending => prints[t].compiling \/ t \in live \/ outcome[t] # "none"

\* A part that is being printed was not printed often enough at the last look.
PrintTxOK(tx) ==
  /\ tx.part \in Parts /\ parts[tx.part].pkg # NoPkg /\ tx.machine \in Machines
  /\ tx.part \notin raced => Cardinality(Ordered(tx.part)) < peak[tx.part]

\* Only its own machine settles a print, so that its copy of the record is current.
SettleTxOK(w, tx) ==
  /\ w \in Machines /\ tx.task \in Tasks /\ prints[tx.task].machine = w
  /\ outcome[tx.task] \in Final /\ prints[tx.task].st \in Pending /\ tx.task \in tx.held
  /\ tx.part # NoPart =>
       /\ tx.part \in Parts /\ parts[tx.part].pkg # NoPkg
       /\ ~tx.crossed => MayPrint(tx.part)

TxOK(w) ==
  LET tx == txs[w] IN
  /\ DOMAIN tx = DOMAIN NoTx
  /\ tx.pkg \in Packages \cup {NoPkg}
  /\ tx.doomed \subseteq Parts /\ tx.todo \subseteq Tasks /\ tx.halt \subseteq Tasks
  /\ \A t \in tx.todo \cup tx.halt : prints[t].st # "absent"
  /\ tx.op \notin Deleting => tx.doomed = {}
  /\ tx.op \notin Cancelling => tx.halt = {}
  /\ tx.op \notin Deleting \cup Cancelling => tx.todo = {}
  /\ tx.op = "print" => PrintTxOK(tx)
  /\ tx.op = "settle" => SettleTxOK(w, tx)
  /\ tx.op = "move" => DOMAIN tx.seen \subseteq Parts
  /\ tx.op = "quantity" => tx.part \in Parts /\ parts[tx.part].pkg # NoPkg /\ tx.n \in Nat
  /\ tx.op = "add" => tx.seen \in Seq(Nat)
  /\ tx.op \in {"star", "unstar"} => tx.pkg \in Packages /\ tx.held \subseteq Packages

\* Somebody is about to cancel the print, or to stop its machine.
Handled(t) == \E c \in Clients : t \in txs[c].todo \cup txs[c].halt

Gone(t) == parts[prints[t].part].gone

\* A machine prints it, or is going to: but for a print that was settled while it
\* is compiled, which comes back when it is sent.
Occupied(t) == t \in live \/ (prints[t].compiling /\ prints[t].st \in Pending)

StopsOK ==
  /\ \A t \in live \ escaped : Gone(t) => Handled(t)
  /\ \A t \in Tasks \ escaped :
       Occupied(t) /\ prints[t].st \notin Pending => Gone(t)
  /\ \A c \in Clients, t \in Tasks \ escaped :
       txs[c].op \in Deleting /\ prints[t].part \in txs[c].doomed
         /\ Occupied(t) => t \in txs[c].todo
  /\ \A c \in Clients : \A t \in txs[c].todo \cup txs[c].halt :
       /\ txs[c].op \in Cancelling => t \in escaped \/ Gone(t)
       /\ txs[c].op \in Deleting => prints[t].part \in txs[c].doomed \/ Gone(t)

QueueInv ==
  /\ TablesOK
  /\ DOMAIN txs = Writers
  /\ \A t \in Tasks : PrintOK(t)
  /\ \A w \in Writers : TxOK(w)
  /\ QuantityRespected
  /\ StopsOK

-----------------------------------------------------------------------------
(***************************************************************************)
(* Counting.                                                               *)
(***************************************************************************)
LEMMA CountedFinite ==
  ASSUME NEW p
  PROVE  /\ IsFiniteSet(Counted(p)) /\ Cardinality(Counted(p)) \in Nat
         /\ IsFiniteSet(Counted(p)') /\ Cardinality(Counted(p)') \in Nat
         /\ Counted(p)' \subseteq Counted(p) =>
              Cardinality(Counted(p)') <= Cardinality(Counted(p))
         /\ \A t : Counted(p)' \subseteq Counted(p) \cup {t} =>
              Cardinality(Counted(p)') <= Cardinality(Counted(p)) + 1
<1>1. IsFiniteSet(Tasks)
  <2>1. 1 \in Int /\ MaxPrints \in Int
    BY QueueAssumption
  <2>2. QED BY ONLY <2>1, FS_Interval DEF Tasks
<1>2. Counted(p) \subseteq Tasks /\ Counted(p)' \subseteq Tasks
  BY DEF Counted, Printed
<1>3. /\ IsFiniteSet(Counted(p)) /\ Cardinality(Counted(p)) \in Nat
      /\ IsFiniteSet(Counted(p)') /\ Cardinality(Counted(p)') \in Nat
  BY <1>1, <1>2, FS_Subset, FS_CardinalityType
<1>4. Counted(p)' \subseteq Counted(p) => Cardinality(Counted(p)') <= Cardinality(Counted(p))
  BY <1>3, FS_Subset
<1>5. ASSUME NEW t, Counted(p)' \subseteq Counted(p) \cup {t}
      PROVE  Cardinality(Counted(p)') <= Cardinality(Counted(p)) + 1
  <2>1. /\ IsFiniteSet(Counted(p) \cup {t})
        /\ Cardinality(Counted(p) \cup {t}) \in Nat
        /\ Cardinality(Counted(p) \cup {t}) <= Cardinality(Counted(p)) + 1
    BY <1>3, FS_AddElement
  <2>2. Cardinality(Counted(p)') <= Cardinality(Counted(p) \cup {t})
    BY <1>5, <2>1, FS_Subset
  <2>3. QED BY <1>3, <2>1, <2>2
<1>6. QED BY <1>3, <1>4, <1>5

LEMMA OrderedFinite ==
  ASSUME NEW p
  PROVE  /\ Cardinality(Ordered(p)) \in Nat /\ Cardinality(Ordered(p)') \in Nat
         /\ Cardinality(Ordered(p)) <= Cardinality(Counted(p))
         /\ Ordered(p)' \subseteq Ordered(p) =>
              Cardinality(Ordered(p)') <= Cardinality(Ordered(p))
         /\ \A t : Ordered(p)' \subseteq Ordered(p) \cup {t} =>
              Cardinality(Ordered(p)') <= Cardinality(Ordered(p)) + 1
<1>1. Ordered(p) \subseteq Counted(p) /\ Ordered(p)' \subseteq Counted(p)'
  BY DEF Ordered
<1>2. /\ IsFiniteSet(Ordered(p)) /\ Cardinality(Ordered(p)) \in Nat
      /\ IsFiniteSet(Ordered(p)') /\ Cardinality(Ordered(p)') \in Nat
      /\ Cardinality(Ordered(p)) <= Cardinality(Counted(p))
  BY <1>1, CountedFinite, FS_Subset, FS_CardinalityType
<1>3. Ordered(p)' \subseteq Ordered(p) => Cardinality(Ordered(p)') <= Cardinality(Ordered(p))
  BY <1>2, FS_Subset
<1>4. ASSUME NEW t, Ordered(p)' \subseteq Ordered(p) \cup {t}
      PROVE  Cardinality(Ordered(p)') <= Cardinality(Ordered(p)) + 1
  <2>1. /\ IsFiniteSet(Ordered(p) \cup {t})
        /\ Cardinality(Ordered(p) \cup {t}) \in Nat
        /\ Cardinality(Ordered(p) \cup {t}) <= Cardinality(Ordered(p)) + 1
    BY <1>2, FS_AddElement
  <2>2. Cardinality(Ordered(p)') <= Cardinality(Ordered(p) \cup {t})
    BY <1>4, <2>1, FS_Subset
  <2>3. QED BY <1>2, <2>1, <2>2
<1>5. QED BY <1>2, <1>3, <1>4

LEMMA MayPrintCounted ==
  ASSUME NEW p
  PROVE  MayPrint(p) <=> Cardinality(Counted(p)) < TotalPrints(p)
BY DEF MayPrint, PrintsInProgress, Counted

-----------------------------------------------------------------------------
(***************************************************************************)
(* Steps that delete nothing.                                              *)
(***************************************************************************)
Fields == {"op", "part", "pkg", "task", "n", "machine", "seen", "doomed", "todo", "halt"}

\* Nothing but the freshness of its reads is taken from a transaction.
SameTx(a, b) == DOMAIN b = DOMAIN a /\ \A f \in Fields : b[f] = a[f]

\* What a step of w leaves to the others.
OthersKept(w) ==
  \A v \in Writers \ {w} :
    /\ SameTx(txs[v], txs'[v])
    /\ txs[v].op = "print" =>
         \A p \in Parts \ raced' : p = txs[v].part =>
           Cardinality(Ordered(p)') <= Cardinality(Ordered(p))
    /\ txs[v].op = "settle" =>
         /\ outcome'[txs[v].task] = outcome[txs[v].task]
         /\ prints'[txs[v].task].st \in Pending
         /\ txs[v].task \in txs'[v].held
         /\ ~txs'[v].crossed => ~txs[v].crossed
         /\ ~txs'[v].crossed => \A p \in Parts :
              parts[p].pkg # NoPkg /\ MayPrint(p) => MayPrint(p)'
    /\ txs[v].op \in {"star", "unstar"} => txs'[v].held \subseteq txs[v].held

PartsThere ==
  \A p \in Parts : parts[p].pkg # NoPkg => peak[p] <= peak'[p] /\ parts'[p].pkg # NoPkg

PartsKept ==
  /\ PartsThere
  /\ \A p \in Parts : parts[p].pkg # NoPkg => parts'[p].gone = parts[p].gone

PrintsKept ==
  \A t \in Tasks : prints[t].st # "absent" =>
    /\ prints'[t].st # "absent"
    /\ prints'[t].part = prints[t].part /\ prints'[t].machine = prints[t].machine

\* A print that is with somebody was, unless it is new or comes back; and a machine
\* is given none whose part is deleted.
NoneRevived ==
  \A t \in Tasks :
    /\ t \in live' => t \in live \/ (prints[t].compiling /\ ~Gone(t))
    /\ Occupied(t)' /\ ~Occupied(t) /\ t \notin escaped' =>
         /\ prints'[t].st \in Pending
         /\ \A c \in Clients : prints'[t].part \notin txs[c].doomed \/ t \in txs[c].todo
    /\ Occupied(t) /\ Occupied(t)' /\ prints[t].st \in Pending => prints'[t].st \in Pending

NotDeleting(tx) == tx.doomed = {} /\ tx.todo = {} /\ tx.halt = {}

LEMMA OthersStay ==
  ASSUME QueueInv, TablesOK', NEW w, OthersKept(w), PartsThere, PrintsKept,
         raced \subseteq raced'
  PROVE  \A v \in Writers \ {w} : TxOK(v)'
<1> SUFFICES ASSUME NEW v \in Writers \ {w}
             PROVE  TxOK(v)'
  OBVIOUS
<1>1. TxOK(v) /\ SameTx(txs[v], txs'[v])
  BY DEF QueueInv, OthersKept
<1>2. /\ DOMAIN txs'[v] = DOMAIN NoTx
      /\ txs'[v].op = txs[v].op /\ txs'[v].part = txs[v].part /\ txs'[v].pkg = txs[v].pkg
      /\ txs'[v].task = txs[v].task /\ txs'[v].n = txs[v].n
      /\ txs'[v].machine = txs[v].machine /\ txs'[v].seen = txs[v].seen
      /\ txs'[v].doomed = txs[v].doomed /\ txs'[v].todo = txs[v].todo
      /\ txs'[v].halt = txs[v].halt
  BY <1>1 DEF TxOK, SameTx, Fields
<1>3. \A t \in txs[v].todo \cup txs[v].halt : prints'[t].st # "absent"
  BY <1>1 DEF TxOK, PrintsKept
<1>4. ASSUME txs[v].op = "print"
      PROVE  PrintTxOK(txs[v])'
  <2>1. PrintTxOK(txs[v])
    BY <1>1, <1>4 DEF TxOK
  <2>2. PICK p \in Parts : p = txs[v].part
    BY <2>1 DEF PrintTxOK
  <2>3. parts[p].pkg # NoPkg /\ parts'[p].pkg # NoPkg /\ peak[p] <= peak'[p]
    BY <2>1, <2>2 DEF PrintTxOK, PartsThere
  <2>4. ASSUME p \notin raced'
        PROVE  Cardinality(Ordered(p)') < peak'[p]
    <3>1. Cardinality(Ordered(p)) < peak[p]
      BY <2>1, <2>2, <2>4 DEF PrintTxOK
    <3>2. Cardinality(Ordered(p)') <= Cardinality(Ordered(p))
      BY <1>4, <2>2, <2>4 DEF OthersKept
    <3>3. peak[p] \in Nat /\ peak'[p] \in Nat
      BY DEF QueueInv, TablesOK
    <3>4. QED BY <2>3, <3>1, <3>2, <3>3, OrderedFinite
  <2>5. \A q \in Parts : q = p /\ q \notin raced' => Cardinality(Ordered(q)') < peak'[q]
    BY <2>4
  <2>6. txs[v].part' = p
    BY <1>2, <2>2
  <2>7. (\A q : q = txs[v].part /\ q \notin raced => Cardinality(Ordered(q)) < peak[q])'
    BY <2>5, <2>6
  <2>8. (txs[v].part \in Parts /\ parts[txs[v].part].pkg # NoPkg)'
    BY <2>3, <2>6
  <2>9. (txs[v].machine \in Machines)'
    BY <1>2, <2>1 DEF PrintTxOK
  <2>10. QED BY <2>7, <2>8, <2>9 DEF PrintTxOK
<1>5. ASSUME txs[v].op = "settle"
      PROVE  SettleTxOK(v, txs[v])'
  <2>1. SettleTxOK(v, txs[v])
    BY <1>1, <1>5 DEF TxOK
  <2>2. PICK u \in Tasks : u = txs[v].task
    BY <2>1 DEF SettleTxOK
  <2>3. /\ outcome'[u] = outcome[u] /\ prints'[u].st \in Pending /\ u \in txs'[v].held
        /\ prints'[u].machine = prints[u].machine
    BY <1>5, <2>1, <2>2 DEF OthersKept, PrintsKept, SettleTxOK, Pending
  <2>4. CASE txs[v].part = NoPart
    BY <1>2, <2>1, <2>2, <2>3, <2>4 DEF SettleTxOK
  <2>5. CASE txs[v].part # NoPart
    <3>1. PICK p \in Parts : p = txs[v].part
      BY <2>1, <2>5 DEF SettleTxOK
    <3>2. parts[p].pkg # NoPkg /\ parts'[p].pkg # NoPkg
      BY <2>1, <2>5, <3>1 DEF SettleTxOK, PartsThere
    <3>3. ~txs'[v].crossed => MayPrint(p)'
      BY <1>5, <2>1, <2>5, <3>1, <3>2 DEF OthersKept, SettleTxOK
    <3>4. \A q : q = txs'[v].part /\ ~txs'[v].crossed => MayPrint(q)'
      BY <1>2, <3>1, <3>3
    <3>5. (\A q : q = txs[v].part /\ ~txs[v].crossed => MayPrint(q))'
      BY <3>4
    <3>6. (~txs[v].crossed => MayPrint(txs[v].part))'
      BY <3>5
    <3>7. QED BY <1>2, <2>1, <2>2, <2>3, <3>1, <3>2, <3>6 DEF SettleTxOK
  <2>6. QED BY <2>4, <2>5
<1>6. txs[v].op = "quantity" => parts'[txs[v].part].pkg # NoPkg
  BY <1>1 DEF TxOK, PartsThere
<1>7. txs[v].op \in {"star", "unstar"} => txs'[v].held \subseteq Packages
  BY <1>1 DEF TxOK, OthersKept
<1>8. QED BY <1>1, <1>2, <1>3, <1>4, <1>5, <1>6, <1>7 DEF TxOK

LEMMA StopsStay ==
  ASSUME QueueInv, TablesOK', NEW w, OthersKept(w), PartsKept, PrintsKept,
         escaped \subseteq escaped', NoneRevived,
         w \in Clients => NotDeleting(txs[w]) /\ NotDeleting(txs'[w])
  PROVE  StopsOK'
<1>1. \A c \in Clients : /\ txs'[c].doomed = txs[c].doomed /\ txs'[c].todo = txs[c].todo
                         /\ txs'[c].halt = txs[c].halt
                         /\ c # w => txs'[c].op = txs[c].op
  BY DEF OthersKept, SameTx, Fields, NotDeleting, Writers
<1>2. \A t : Handled(t)' <=> Handled(t)
  BY <1>1 DEF Handled
<1>3. \A t \in Tasks : prints[t].st # "absent" => (Gone(t)' <=> Gone(t))
  BY DEF Gone, PrintsKept, PartsKept, PartsThere, QueueInv, PrintOK
<1>4. \A t \in Tasks : Occupied(t) \/ prints[t].compiling => prints[t].st # "absent"
  BY DEF Occupied, QueueInv, PrintOK
<1>5. \A t \in live' \ escaped' : Gone(t)' => Handled(t)'
  BY <1>2, <1>3, <1>4 DEF NoneRevived, QueueInv, StopsOK, Occupied, TablesOK
<1>6. \A t \in Tasks \ escaped' : Occupied(t)' /\ prints'[t].st \notin Pending => Gone(t)'
  BY <1>3, <1>4 DEF NoneRevived, QueueInv, StopsOK, Occupied
<1>7. \A c \in Clients, t \in Tasks \ escaped' :
        txs'[c].op \in Deleting /\ prints'[t].part \in txs'[c].doomed /\ Occupied(t)'
          => t \in txs'[c].todo
  <2> SUFFICES ASSUME NEW c \in Clients, NEW t \in Tasks \ escaped',
                      txs'[c].op \in Deleting, prints'[t].part \in txs'[c].doomed,
                      Occupied(t)'
               PROVE  t \in txs'[c].todo
    OBVIOUS
  <2>1. c # w
    BY DEF NotDeleting
  <2>2. CASE Occupied(t)
    <3>1. prints'[t].part = prints[t].part
      BY <1>4, <2>2 DEF PrintsKept
    <3>2. QED BY <1>1, <2>1, <2>2, <3>1 DEF QueueInv, StopsOK
  <2>3. CASE ~Occupied(t)
    BY <1>1, <2>3 DEF NoneRevived
  <2>4. QED BY <2>2, <2>3
<1>8. ASSUME NEW c \in Clients, NEW t \in txs'[c].todo \cup txs'[c].halt
      PROVE  /\ txs'[c].op \in Cancelling => t \in escaped' \/ Gone(t)'
             /\ txs'[c].op \in Deleting =>
                  prints'[t].part \in txs'[c].doomed \/ Gone(t)'
  <2>1. c # w
    BY <1>8 DEF NotDeleting
  <2>2. t \in Tasks /\ prints[t].st # "absent"
    BY <1>1, <1>8 DEF QueueInv, TxOK, Writers
  <2>3. prints'[t].part = prints[t].part
    BY <2>2 DEF PrintsKept
  <2>4. QED BY <1>1, <1>3, <1>8, <2>1, <2>2, <2>3 DEF QueueInv, StopsOK
<1>9. QED BY <1>5, <1>6, <1>7, <1>8 DEF StopsOK

-----------------------------------------------------------------------------
(***************************************************************************)
(* Steps that leave the prints and their machines alone.                   *)
(***************************************************************************)
LEMMA EditSafe ==
  ASSUME QueueInv, NEW w \in Writers, TablesOK', DOMAIN txs' = Writers, OthersKept(w),
         PartsKept, UNCHANGED <<prints, live, outcome, escaped, resent>>, raced \subseteq raced',
         TxOK(w)', NotDeleting(txs[w]), NotDeleting(txs'[w])
  PROVE  QueueInv'
<1>1. PrintsKept /\ NoneRevived
  BY DEF PrintsKept, NoneRevived, Occupied
<1>2. \A t \in Tasks : PrintOK(t)'
  BY DEF QueueInv, PrintOK, PartsKept, PartsThere
<1>3. \A v \in Writers : TxOK(v)'
  BY <1>1, OthersStay DEF PartsKept
<1>4. StopsOK'
  BY <1>1, StopsStay
<1>5. QuantityRespected'
  <2>1. SUFFICES ASSUME NEW p \in Parts, p \notin raced'
                 PROVE  Cardinality(Ordered(p)') <= peak'[p]
    BY DEF QuantityRespected, Ordered, Counted
  <2>2. Ordered(p)' = Ordered(p)
    BY DEF Ordered, Counted, Printed
  <2>3. peak[p] \in Nat /\ peak'[p] \in Nat
    BY DEF QueueInv, TablesOK
  <2>4. CASE parts[p].pkg # NoPkg
    <3>1. Cardinality(Ordered(p)) <= peak[p] /\ peak[p] <= peak'[p]
      BY <2>1, <2>4 DEF QueueInv, QuantityRespected, Ordered, Counted, PartsKept, PartsThere
    <3>2. QED BY <2>2, <2>3, <3>1, OrderedFinite
  <2>5. CASE parts[p].pkg = NoPkg
    <3>1. Ordered(p) = {}
      BY <2>5 DEF QueueInv, PrintOK, Ordered, Counted, Printed, Pending
    <3>2. QED BY <2>2, <2>3, <3>1, FS_EmptySet
  <2>6. QED BY <2>4, <2>5
<1>6. QED BY <1>2, <1>3, <1>4, <1>5 DEF QueueInv

\* What Keep and Close do to the transactions of others.
Touched(w, ids, crossing) ==
  \A v \in Writers \ {w} :
    txs'[v] = IF txs[v].op = "none" THEN txs[v]
              ELSE [txs[v] EXCEPT !.held = @ \ ids, !.crossed = @ \/ crossing]

LEMMA TouchedKeeps ==
  ASSUME QueueInv, NEW w, NEW ids, NEW crossing \in BOOLEAN, Touched(w, ids, crossing),
         NEW v \in Writers \ {w}
  PROVE  /\ SameTx(txs[v], txs'[v])
         /\ txs'[v].held \subseteq txs[v].held
         /\ txs[v].op # "none" => txs'[v].held = txs[v].held \ ids
         /\ txs[v].op # "none" /\ ~txs'[v].crossed => ~txs[v].crossed /\ ~crossing
<1>1. DOMAIN txs[v] = {"op", "part", "pkg", "task", "n", "machine", "moves", "seen",
                       "doomed", "todo", "halt", "held", "crossed"}
  BY DEF QueueInv, TxOK, NoTx
<1>2. CASE txs[v].op = "none"
  BY <1>1, <1>2 DEF Touched, SameTx, Fields
<1>3. CASE txs[v].op # "none"
  <2>1. txs'[v] = [txs[v] EXCEPT !.held = @ \ ids, !.crossed = @ \/ crossing]
    BY <1>3 DEF Touched
  <2>2. txs'[v].held = txs[v].held \ ids /\ txs'[v].crossed = (txs[v].crossed \/ crossing)
    BY <1>1, <2>1
  <2>3. SameTx(txs[v], txs'[v])
    BY <1>1, <2>1 DEF SameTx, Fields
  <2>4. QED BY <2>2, <2>3
<1>4. QED BY <1>2, <1>3

LEMMA EditOthers ==
  ASSUME QueueInv, NEW w, NEW ids, NEW crossing \in BOOLEAN, Touched(w, ids, crossing),
         ids \cap Tasks = {}, UNCHANGED <<prints, outcome, resent>>,
         ~crossing => \A p \in Parts : parts[p].pkg # NoPkg => TotalPrints(p)' = TotalPrints(p)
  PROVE  OthersKept(w)
<1>1. \A p : Counted(p)' = Counted(p)
  BY DEF Counted, Printed
<1>2. \A p : Cardinality(Ordered(p)') <= Cardinality(Ordered(p))
  <2>1. \A p : Ordered(p)' = Ordered(p)
    BY <1>1 DEF Ordered
  <2>2. QED BY <2>1, OrderedFinite
<1>3. \A p \in Parts : ~crossing /\ parts[p].pkg # NoPkg /\ MayPrint(p) => MayPrint(p)'
  <2> SUFFICES ASSUME NEW p \in Parts, ~crossing, parts[p].pkg # NoPkg, MayPrint(p)
               PROVE  MayPrint(p)'
    OBVIOUS
  <2>1. Cardinality(Counted(p)) < TotalPrints(p)
    BY MayPrintCounted
  <2>2. Cardinality(Counted(p)') < TotalPrints(p)'
    BY <1>1, <2>1
  <2>3. QED BY <2>2 DEF MayPrint, PrintsInProgress, Counted
<1>4. ASSUME NEW v \in Writers \ {w}, txs[v].op = "settle"
      PROVE  /\ prints'[txs[v].task].st \in Pending
             /\ txs[v].task \in Tasks /\ txs[v].task \in txs[v].held
  BY <1>4 DEF QueueInv, TxOK, SettleTxOK
<1>5. QED BY <1>2, <1>3, <1>4, TouchedKeeps DEF OthersKept

\* Where a request only begins, or is given up.
LEMMA BeginKeeps ==
  ASSUME QueueInv, NEW w \in Writers,
         \A v \in Writers \ {w} : txs'[v] = txs[v],
         UNCHANGED <<tables, live, outcome, queueHistory>>
  PROVE  TablesOK' /\ PartsKept /\ OthersKept(w)
<1> USE DEF tables, queueHistory
<1>1. TablesOK'
  <2>1. \A p : PartOK(p)' <=> PartOK(p)
    BY DEF PartOK, TotalPrints
  <2>2. \A k : PackageOK(k)' <=> PackageOK(k)
    BY DEF PackageOK
  <2>3. QED BY <2>1, <2>2 DEF QueueInv, TablesOK
<1>2. PartsKept
  BY DEF PartsKept, PartsThere, QueueInv, TablesOK
<1>3. \A p : /\ Cardinality(Ordered(p)') <= Cardinality(Ordered(p))
             /\ MayPrint(p)' <=> MayPrint(p)
  <2>1. \A p : Ordered(p)' = Ordered(p)
    BY DEF Ordered, Counted, Printed
  <2>2. \A p : MayPrint(p)' <=> MayPrint(p)
    BY DEF MayPrint, PrintsInProgress, Printed, TotalPrints
  <2>3. QED BY <2>1, <2>2, OrderedFinite
<1>4. OthersKept(w)
  <2>1. ASSUME NEW v \in Writers, txs[v].op = "settle"
        PROVE  prints[txs[v].task].st \in Pending /\ txs[v].task \in txs[v].held
    BY <2>1 DEF QueueInv, TxOK, SettleTxOK
  <2>2. QED BY <1>3, <2>1 DEF OthersKept, SameTx
<1>5. QED BY <1>1, <1>2, <1>4

LEMMA BeginSafe ==
  ASSUME QueueInv, NEW w \in Writers, DOMAIN txs' = Writers,
         \A v \in Writers \ {w} : txs'[v] = txs[v],
         UNCHANGED <<tables, live, outcome, queueHistory>>,
         TxOK(w)', NotDeleting(txs[w]), NotDeleting(txs'[w])
  PROVE  QueueInv'
<1>1. TablesOK' /\ PartsKept /\ OthersKept(w)
  BY BeginKeeps
<1>2. QED BY <1>1, EditSafe DEF tables, queueHistory

LEMMA NothingToDelete ==
  ASSUME QueueInv, NEW w \in Writers, txs[w].op \notin Deleting \cup Cancelling
  PROVE  NotDeleting(txs[w])
BY DEF QueueInv, TxOK, NotDeleting

LEMMA TotalIsCovered ==
  ASSUME TablesOK, NEW p \in Parts, parts[p].pkg # NoPkg
  PROVE  TotalPrints(p) \in Nat /\ peak[p] \in Nat /\ TotalPrints(p) <= peak[p]
<1>1. parts[p].pkg \in Packages /\ parts[p].quantity \in Nat /\ TotalPrints(p) <= peak[p]
  BY DEF TablesOK, PartOK
<1>2. pkgs[parts[p].pkg].quantity \in Nat
  BY <1>1 DEF TablesOK, PackageOK
<1>3. QED BY <1>1, <1>2 DEF TablesOK, TotalPrints

LEMMA MayPrintOrdered ==
  ASSUME TablesOK, NEW p \in Parts, parts[p].pkg # NoPkg, MayPrint(p)
  PROVE  Cardinality(Ordered(p)) < peak[p]
BY MayPrintCounted, TotalIsCovered, CountedFinite, OrderedFinite

\* A request that has just begun.
LEMMA Beginning ==
  ASSUME QueueInv, NEW c \in Writers, txs[c].op = "none", NEW tx, txs' = [txs EXCEPT ![c] = tx],
         UNCHANGED <<tables, live, outcome, queueHistory>>, TxOK(c)',
         tx.doomed = {}, tx.todo = {}, tx.halt = {}
  PROVE  QueueInv'
<1>1. txs'[c] = tx /\ DOMAIN txs' = Writers /\ \A v \in Writers \ {c} : txs'[v] = txs[v]
  BY DEF QueueInv
<1>2. NotDeleting(txs[c])
  BY NothingToDelete DEF Deleting, Cancelling
<1>3. NotDeleting(txs'[c])
  BY <1>1 DEF NotDeleting
<1>4. QED BY <1>1, <1>2, <1>3, BeginSafe

\* What it has to satisfy when it deletes nothing.
LEMMA NewTx ==
  ASSUME NEW c, NEW tx, txs'[c] = tx, DOMAIN tx = DOMAIN NoTx,
         tx.doomed = {}, tx.todo = {}, tx.halt = {}, tx.pkg \in Packages \cup {NoPkg},
         tx.op = "print" => PrintTxOK(tx)',
         tx.op = "settle" => SettleTxOK(c, tx)',
         tx.op = "move" => DOMAIN tx.seen \subseteq Parts,
         tx.op = "quantity" => tx.part \in Parts /\ parts'[tx.part].pkg # NoPkg /\ tx.n \in Nat,
         tx.op = "add" => tx.seen \in Seq(Nat),
         tx.op \in {"star", "unstar"} => tx.pkg \in Packages /\ tx.held \subseteq Packages
  PROVE  TxOK(c)'
BY DEF TxOK

LEMMA BeginPrintSafe ==
  ASSUME QueueInv, NEW c \in Clients, NEW p \in Parts, NEW mc \in Machines, BeginPrint(c, p, mc)
  PROVE  QueueInv'
<1> DEFINE tx == [NoTx EXCEPT !.op = "print", !.part = p, !.machine = mc]
<1>1. /\ txs[c].op = "none" /\ txs' = [txs EXCEPT ![c] = tx]
      /\ UNCHANGED <<tables, live, outcome, queueHistory>>
      /\ parts[p].pkg # NoPkg /\ MayPrint(p)
  BY DEF BeginPrint, Op, Begin, tables, queueHistory, LiveParts
<1>2. p \notin raced => Cardinality(Ordered(p)) < peak[p]
  BY <1>1, MayPrintOrdered DEF QueueInv
<1>3. c \in Writers /\ txs'[c] = tx
  BY <1>1 DEF QueueInv, Writers
<1>4. PrintTxOK(tx)'
  BY <1>1, <1>2 DEF PrintTxOK, NoTx, tables, queueHistory, Ordered, Counted, Printed
<1>0. /\ DOMAIN tx = DOMAIN NoTx /\ tx.doomed = {} /\ tx.todo = {} /\ tx.halt = {}
      /\ tx.op = "print" /\ tx.pkg = NoPkg
  BY <1>1 DEF NoTx
<1>5. TxOK(c)'
  BY <1>0, <1>3, <1>4, NewTx
<1> HIDE DEF tx
<1>6. QED BY <1>0, <1>1, <1>3, <1>5, Beginning

LEMMA BeginMoveSafe ==
  ASSUME QueueInv, NEW c \in Clients, NEW moves, BeginMove(c, moves)
  PROVE  QueueInv'
<1>1. PICK tx : /\ tx = [NoTx EXCEPT !.op = "move", !.moves = moves, !.held = Queued,
                                     !.seen = [p \in Queued |-> parts[p].position]]
                /\ txs[c].op = "none" /\ txs' = [txs EXCEPT ![c] = tx]
                /\ UNCHANGED <<tables, live, outcome, queueHistory>>
  BY DEF BeginMove, Op, Begin, tables, queueHistory
<1>2. c \in Writers /\ txs'[c] = tx
  BY <1>1 DEF QueueInv, Writers
<1>3. DOMAIN tx.seen \subseteq Parts
  BY <1>1 DEF NoTx, Queued, LiveParts
<1>0. /\ DOMAIN tx = DOMAIN NoTx /\ tx.doomed = {} /\ tx.todo = {} /\ tx.halt = {}
      /\ tx.op = "move" /\ tx.pkg = NoPkg
  BY <1>1 DEF NoTx
<1>4. TxOK(c)'
  BY <1>0, <1>2, <1>3, NewTx
<1>5. QED BY <1>0, <1>1, <1>2, <1>4, Beginning

LEMMA BeginQuantitySafe ==
  ASSUME QueueInv, NEW c \in Clients, NEW p \in Parts, NEW n \in 1 .. MaxQuantity,
         BeginQuantity(c, p, n)
  PROVE  QueueInv'
<1> DEFINE tx == [NoTx EXCEPT !.op = "quantity", !.part = p, !.n = n, !.held = {p}]
<1>1. /\ txs[c].op = "none" /\ txs' = [txs EXCEPT ![c] = tx]
      /\ UNCHANGED <<tables, live, outcome, queueHistory>>
      /\ parts[p].pkg # NoPkg
  BY DEF BeginQuantity, Op, Begin, tables, queueHistory, LiveParts
<1>2. c \in Writers /\ txs'[c] = tx
  BY <1>1 DEF QueueInv, Writers
<1>3. n \in Nat
  BY QueueAssumption
<1>0. /\ DOMAIN tx = DOMAIN NoTx /\ tx.doomed = {} /\ tx.todo = {} /\ tx.halt = {}
      /\ tx.op = "quantity" /\ tx.pkg = NoPkg /\ tx.part = p /\ tx.n = n
  BY <1>1 DEF NoTx
<1>4. TxOK(c)'
  <2>1. parts'[p].pkg # NoPkg
    BY <1>1 DEF tables
  <2> HIDE DEF tx
  <2>2. QED BY <1>0, <1>2, <1>3, <2>1, NewTx
<1> HIDE DEF tx
<1>5. QED BY <1>0, <1>1, <1>2, <1>4, Beginning

LEMMA BeginAddSafe ==
  ASSUME QueueInv, NEW c \in Clients, NEW n \in 1 .. MaxQuantity, BeginAdd(c, <<n>>)
  PROVE  QueueInv'
<1>1. PICK tx : /\ tx = [NoTx EXCEPT !.op = "add", !.seen = <<n>>, !.n = EndOfQueue]
                /\ txs[c].op = "none" /\ txs' = [txs EXCEPT ![c] = tx]
                /\ UNCHANGED <<tables, live, outcome, queueHistory>>
  BY DEF BeginAdd, Op, Begin, tables, queueHistory
<1>2. c \in Writers /\ txs'[c] = tx
  BY <1>1 DEF QueueInv, Writers
<1>3. n \in Nat
  BY QueueAssumption
<1>4. tx.seen \in Seq(Nat)
  BY <1>1, <1>3 DEF NoTx
<1>0. /\ DOMAIN tx = DOMAIN NoTx /\ tx.doomed = {} /\ tx.todo = {} /\ tx.halt = {}
      /\ tx.op = "add" /\ tx.pkg = NoPkg
  BY <1>1 DEF NoTx
<1>5. TxOK(c)'
  BY <1>0, <1>2, <1>4, NewTx
<1>6. QED BY <1>0, <1>1, <1>2, <1>5, Beginning

\* The quantities of the parts of a package are numbers.
LEMMA QuantitiesAreNumbers ==
  ASSUME TablesOK, NEW k, NEW originals \in Orders(PackageParts(k))
  PROVE  /\ Quantities(originals) \in Seq(Nat)
         /\ DOMAIN Quantities(originals) = DOMAIN originals
         /\ Len(originals) \in Nat /\ DOMAIN originals = 1 .. Len(originals)
         /\ ToSet(originals) \subseteq Parts
<1>1. PackageParts(k) \subseteq Parts
  BY DEF PackageParts, LiveParts
<1>2. IsFiniteSet(PackageParts(k)) /\ Cardinality(PackageParts(k)) \in Nat
  BY <1>1, QueueAssumption, FS_Subset, FS_CardinalityType
<1>3. originals \in Seq(Parts)
  BY <1>1, <1>2 DEF Orders
<1>4. \A i \in DOMAIN originals : originals[i] \in Parts
  BY <1>3
<1>5. \A i \in DOMAIN originals : parts[originals[i]].quantity \in Nat
  BY <1>4 DEF TablesOK, PartOK
<1>6. Quantities(originals) \in Seq(Nat)
  BY <1>3, <1>5 DEF Quantities
<1>7. QED BY <1>3, <1>4, <1>6 DEF Quantities, ToSet

LEMMA BeginAddStarredSafe ==
  ASSUME QueueInv, NEW c \in Clients, NEW k \in Packages, BeginAddStarred(c, k)
  PROVE  QueueInv'
<1>1. PICK originals \in Orders(PackageParts(k)) :
        Begin(c, [NoTx EXCEPT !.op = "add", !.pkg = k, !.n = EndOfQueue,
                              !.seen = Quantities(originals)])
  BY DEF BeginAddStarred
<1>2. PICK tx : /\ tx = [NoTx EXCEPT !.op = "add", !.pkg = k, !.n = EndOfQueue,
                                     !.seen = Quantities(originals)]
                /\ txs[c].op = "none" /\ txs' = [txs EXCEPT ![c] = tx]
  BY <1>1 DEF Begin
<1>3. UNCHANGED <<tables, live, outcome, queueHistory>>
  BY DEF BeginAddStarred, Op, tables, queueHistory
<1>4. c \in Writers /\ txs'[c] = tx
  BY <1>2 DEF QueueInv, Writers
<1>5. tx.seen \in Seq(Nat)
  BY <1>2, QuantitiesAreNumbers DEF NoTx, QueueInv
<1>0. /\ DOMAIN tx = DOMAIN NoTx /\ tx.doomed = {} /\ tx.todo = {} /\ tx.halt = {}
      /\ tx.op = "add" /\ tx.pkg = k
  BY <1>2 DEF NoTx
<1>6. TxOK(c)'
  BY <1>0, <1>4, <1>5, NewTx
<1>7. QED BY <1>0, <1>2, <1>3, <1>4, <1>6, Beginning

LEMMA BeginStarSafe ==
  ASSUME QueueInv, NEW c \in Clients, NEW k \in Packages, BeginStar(c, k)
  PROVE  QueueInv'
<1> DEFINE tx == [NoTx EXCEPT !.op = "star", !.pkg = k, !.held = {k}]
<1>1. /\ txs[c].op = "none" /\ txs' = [txs EXCEPT ![c] = tx]
      /\ UNCHANGED <<tables, live, outcome, queueHistory>>
  BY DEF BeginStar, Op, Begin, tables, queueHistory
<1>2. c \in Writers /\ txs'[c] = tx
  BY <1>1 DEF QueueInv, Writers
<1>0. /\ DOMAIN tx = DOMAIN NoTx /\ tx.doomed = {} /\ tx.todo = {} /\ tx.halt = {}
      /\ tx.op = "star" /\ tx.pkg = k /\ tx.held = {k}
  BY <1>1 DEF NoTx
<1>3. TxOK(c)'
  BY <1>0, <1>2, NewTx
<1> HIDE DEF tx
<1>4. QED BY <1>0, <1>1, <1>2, <1>3, Beginning

LEMMA BeginUnstarSafe ==
  ASSUME QueueInv, NEW c \in Clients, NEW k \in Packages, BeginUnstar(c, k)
  PROVE  QueueInv'
<1>1. Template(k) \in Packages
  BY DEF BeginUnstar, Template, LivePackages
<1>2. PICK tx : /\ tx = [NoTx EXCEPT !.op = "unstar", !.pkg = Template(k), !.held = {Template(k)}]
                /\ txs[c].op = "none" /\ txs' = [txs EXCEPT ![c] = tx]
                /\ UNCHANGED <<tables, live, outcome, queueHistory>>
  BY DEF BeginUnstar, Op, Begin, tables, queueHistory
<1>3. c \in Writers /\ txs'[c] = tx
  BY <1>2 DEF QueueInv, Writers
<1>4. tx.pkg \in Packages /\ tx.held \subseteq Packages
  BY <1>1, <1>2 DEF NoTx
<1>0. /\ DOMAIN tx = DOMAIN NoTx /\ tx.doomed = {} /\ tx.todo = {} /\ tx.halt = {}
      /\ tx.op = "unstar" /\ tx.pkg = Template(k)
  BY <1>2 DEF NoTx
<1>5. TxOK(c)'
  BY <1>0, <1>3, <1>4, NewTx
<1>6. QED BY <1>0, <1>2, <1>3, <1>5, Beginning

LEMMA AbortSettleSafe ==
  ASSUME QueueInv, NEW mc \in Machines, AbortSettle(mc)
  PROVE  QueueInv'
<1>1. /\ txs[mc].op = "settle" /\ txs' = [txs EXCEPT ![mc] = NoTx]
      /\ UNCHANGED <<tables, live, outcome, queueHistory>>
  BY DEF AbortSettle
<1>2. mc \in Writers /\ txs'[mc] = NoTx /\ DOMAIN txs' = Writers
      /\ \A v \in Writers \ {mc} : txs'[v] = txs[v]
  BY <1>1 DEF QueueInv, Writers
<1>3. TxOK(mc)'
  BY <1>2, NewTx DEF NoTx
<1>4. NotDeleting(txs[mc])
  BY <1>1, <1>2, NothingToDelete DEF Deleting, Cancelling
<1>5. NotDeleting(txs'[mc])
  BY <1>2 DEF NotDeleting, NoTx
<1>6. QED BY <1>1, <1>2, <1>3, <1>4, <1>5, BeginSafe

LEMMA BeginSettleSafe ==
  ASSUME QueueInv, NEW t \in Tasks, NEW next \in Parts \cup {NoPart}, BeginSettle(t, next)
  PROVE  QueueInv'
<1>1. PICK mc : mc = prints[t].machine
  OBVIOUS
<1>2. PICK tx : /\ tx = [NoTx EXCEPT !.op = "settle", !.part = next, !.task = t, !.held = {t}]
                /\ txs[mc].op = "none" /\ txs' = [txs EXCEPT ![mc] = tx]
                /\ UNCHANGED <<tables, live, outcome, queueHistory>>
  BY <1>1 DEF BeginSettle, Idle, tables, queueHistory
<1>3. /\ outcome[t] \in Final /\ prints[t].st \in Pending /\ mc \in Machines
  BY <1>1 DEF BeginSettle, QueueInv, TablesOK, PrintOK
<1>4. mc \in Writers /\ txs'[mc] = tx
  BY <1>2, <1>3 DEF QueueInv, Writers
<1>5. next # NoPart => next \in NextParts
  BY DEF BeginSettle
<1>6. next # NoPart => next \in Parts /\ parts[next].pkg # NoPkg /\ MayPrint(next)
  <2>1. SUFFICES ASSUME next # NoPart
                 PROVE  next \in Parts /\ parts[next].pkg # NoPkg /\ MayPrint(next)
    OBVIOUS
  <2>2. next \in Parts /\ parts[next].pkg # NoPkg /\ ~StartedFinalPrint(next)
    BY <1>5, <2>1 DEF NextParts, Unstarted, LiveParts
  <2>3. ~(Cardinality(Counted(next)) >= TotalPrints(next))
    BY <2>2 DEF StartedFinalPrint, Counted
  <2>4. TotalPrints(next) \in Nat /\ Cardinality(Counted(next)) \in Nat
    BY <2>2, TotalIsCovered, CountedFinite DEF QueueInv
  <2>5. Cardinality(Counted(next)) < TotalPrints(next)
    BY <2>3, <2>4
  <2>6. QED BY <2>2, <2>5, MayPrintCounted
<1>7. \A p : MayPrint(p)' <=> MayPrint(p)
  BY <1>2 DEF MayPrint, PrintsInProgress, Printed, TotalPrints, tables
<1>8. /\ tx.op = "settle" /\ tx.part = next /\ tx.task = t /\ tx.held = {t}
      /\ tx.crossed = FALSE /\ tx.doomed = {} /\ tx.todo = {} /\ tx.halt = {}
      /\ tx.pkg = NoPkg /\ DOMAIN tx = DOMAIN NoTx
  BY <1>2 DEF NoTx
<1>9. next # NoPart => MayPrint(next)'
  BY <1>6, <1>7
<1>10. SettleTxOK(mc, tx)'
  <2>1. \A q : q = tx.part /\ q # NoPart => MayPrint(q)'
    BY <1>8, <1>9
  <2>2. (tx.part # NoPart => MayPrint(tx.part))'
    BY <2>1
  <2>3. QED BY <1>1, <1>2, <1>3, <1>6, <1>8, <2>2 DEF SettleTxOK, tables
<1>11. TxOK(mc)'
  BY <1>4, <1>8, <1>10, NewTx
<1>12. QED BY <1>2, <1>4, <1>8, <1>11, Beginning

-----------------------------------------------------------------------------
(***************************************************************************)
(* Commits that change the queue, its quantities and its packages.         *)
(***************************************************************************)
LEMMA KeepTouches ==
  ASSUME NEW w, NEW tx, NEW ids, NEW crossing \in BOOLEAN, Keep(w, tx, ids, crossing)
  PROVE  /\ DOMAIN txs' = Writers /\ Touched(w, ids, crossing)
         /\ w \in Writers /\ txs[w].op # "none" => txs'[w] = tx
<1>1. DOMAIN txs' = Writers
  BY DEF Keep
<1>2. Touched(w, ids, crossing)
  BY DEF Keep, Touched
<1>3. w \in Writers /\ txs[w].op # "none" => txs'[w] = tx
  BY DEF Keep
<1>4. QED BY <1>1, <1>2, <1>3

\* A request that only edits the queue ends.
LEMMA CloseSafe ==
  ASSUME QueueInv, NEW c \in Writers, NEW ids, NEW crossing \in BOOLEAN,
         Keep(c, NoTx, ids, crossing), ids \cap Tasks = {},
         txs[c].op \notin Deleting \cup Cancelling \cup {"none"},
         UNCHANGED <<prints, live, outcome, escaped, resent>>, raced \subseteq raced',
         TablesOK', PartsKept,
         ~crossing => \A p \in Parts : parts[p].pkg # NoPkg => TotalPrints(p)' = TotalPrints(p)
  PROVE  QueueInv'
<1>1. DOMAIN txs' = Writers /\ Touched(c, ids, crossing) /\ txs'[c] = NoTx
  BY KeepTouches
<1>2. OthersKept(c)
  BY <1>1, EditOthers
<1>3. TxOK(c)'
  BY <1>1, NewTx DEF NoTx
<1>4. NotDeleting(txs[c]) /\ NotDeleting(txs'[c])
  BY <1>1, NothingToDelete DEF NotDeleting, NoTx
<1>5. QED BY <1>1, <1>2, <1>3, <1>4, EditSafe

LEMMA CommitMoveSafe ==
  ASSUME QueueInv, NEW c \in Clients, CommitMove(c)
  PROVE  QueueInv'
<1>1. PICK new, written :
        /\ parts' = [p \in Parts |-> IF p \in written THEN [parts[p] EXCEPT !.position = new[p]]
                                     ELSE parts[p]]
        /\ Keep(c, NoTx, written, TRUE)
        /\ written \subseteq DOMAIN txs[c].seen
  BY DEF CommitMove, Close
<1>2. /\ txs[c].op = "move" /\ c \in Writers
      /\ UNCHANGED <<pkgs, prints, live, outcome, peak, raced, escaped, resent>>
  BY DEF CommitMove, Writers
<1>3. written \subseteq Parts /\ written \cap Tasks = {}
  BY <1>1, <1>2, QueueAssumption DEF QueueInv, TxOK
<1>4. \A p \in Parts : /\ DOMAIN parts'[p] = DOMAIN parts[p]
                       /\ parts'[p].pkg = parts[p].pkg /\ parts'[p].gone = parts[p].gone
                       /\ parts'[p].quantity = parts[p].quantity
  BY <1>1 DEF QueueInv, TablesOK, PartOK
<1>5. TablesOK'
  <2>1. \A p \in Parts : PartOK(p)'
    BY <1>2, <1>4 DEF QueueInv, TablesOK, PartOK, TotalPrints
  <2>2. \A k \in Packages : PackageOK(k)'
    BY <1>2 DEF QueueInv, TablesOK, PackageOK
  <2>3. QED BY <1>1, <1>2, <2>1, <2>2 DEF QueueInv, TablesOK
<1>6. PartsKept
  BY <1>2, <1>4 DEF PartsKept, PartsThere, QueueInv, TablesOK
<1>7. QED BY <1>1, <1>2, <1>3, <1>5, <1>6, CloseSafe DEF Deleting, Cancelling

LEMMA MaxOfTwo ==
  ASSUME NEW a \in Nat, NEW b \in Nat
  PROVE  Max({a, b}) \in Nat /\ a <= Max({a, b}) /\ b <= Max({a, b})
<1>1. \E x \in {a, b} : \A y \in {a, b} : x >= y
  OBVIOUS
<1>2. PICK m : m = CHOOSE x \in {a, b} : \A y \in {a, b} : x >= y
  OBVIOUS
<1>3. m \in {a, b} /\ \A y \in {a, b} : m >= y
  BY <1>1, <1>2
<1>4. QED BY <1>2, <1>3 DEF Max

LEMMA CommitQuantitySafe ==
  ASSUME QueueInv, NEW c \in Clients, CommitQuantity(c)
  PROVE  QueueInv'
<1>1. /\ txs[c].op = "quantity" /\ c \in Writers
      /\ UNCHANGED <<pkgs, prints, live, outcome, raced, escaped, resent>>
  BY DEF CommitQuantity, Writers
<1>2. PICK p \in Parts : p = txs[c].part /\ parts[p].pkg # NoPkg
  BY <1>1 DEF QueueInv, TxOK
<1>3. PICK n \in Nat : n = txs[c].n
  BY <1>1 DEF QueueInv, TxOK
<1>4. PICK ids : ids = {p} \cap txs[c].held
  OBVIOUS
<1>5. /\ parts' = IF p \in txs[c].held THEN [parts EXCEPT ![p].quantity = n] ELSE parts
      /\ peak' = [peak EXCEPT ![p] =
           Max({peak[p], parts'[p].quantity * pkgs[parts[p].pkg].quantity})]
      /\ Keep(c, NoTx, ids, TRUE)
  BY <1>2, <1>3, <1>4 DEF CommitQuantity, Close, Update, QueueInv, TablesOK
<1>6. \A q \in Parts : /\ DOMAIN parts'[q] = DOMAIN parts[q]
                       /\ parts'[q].pkg = parts[q].pkg /\ parts'[q].gone = parts[q].gone
                       /\ parts'[q].quantity \in Nat
                       /\ q # p => parts'[q].quantity = parts[q].quantity
  BY <1>5 DEF QueueInv, TablesOK, PartOK
<1>7. DOMAIN parts' = Parts
  BY <1>5 DEF QueueInv, TablesOK
<1>8. parts[p].pkg \in Packages /\ pkgs[parts[p].pkg].quantity \in Nat /\ peak[p] \in Nat
  BY <1>2 DEF QueueInv, TablesOK, PartOK, PackageOK
<1>9. /\ peak'[p] \in Nat /\ peak[p] <= peak'[p]
      /\ parts'[p].quantity * pkgs[parts[p].pkg].quantity <= peak'[p]
  <2>1. PICK total \in Nat : total = parts'[p].quantity * pkgs[parts[p].pkg].quantity
    BY <1>6, <1>8
  <2>2. peak'[p] = Max({peak[p], total})
    BY <1>5, <2>1 DEF QueueInv, TablesOK
  <2>3. QED BY <1>8, <2>1, <2>2, MaxOfTwo
<1>10. peak' \in [Parts -> Nat] /\ \A q \in Parts : q # p => peak'[q] = peak[q]
  BY <1>5, <1>9 DEF QueueInv, TablesOK
<1>11. TablesOK'
  <2>1. ASSUME NEW q \in Parts
        PROVE  PartOK(q)'
    <3>1. CASE q = p
      BY <1>1, <1>6, <1>9, <3>1 DEF QueueInv, TablesOK, PartOK, TotalPrints
    <3>2. CASE q # p
      BY <1>1, <1>6, <1>10, <3>2 DEF QueueInv, TablesOK, PartOK, TotalPrints
    <3>3. QED BY <3>1, <3>2
  <2>2. \A k \in Packages : PackageOK(k)'
    BY <1>1 DEF QueueInv, TablesOK, PackageOK
  <2>3. QED BY <1>1, <1>7, <1>10, <2>1, <2>2 DEF QueueInv, TablesOK
<1>12. PartsKept
  <2>1. \A q \in Parts : peak[q] <= peak'[q]
    BY <1>9, <1>10 DEF QueueInv, TablesOK
  <2>2. QED BY <1>6, <2>1 DEF PartsKept, PartsThere
<1>13. ids \cap Tasks = {}
  BY <1>4, QueueAssumption
<1>14. QED BY <1>1, <1>5, <1>11, <1>12, <1>13, CloseSafe DEF Deleting, Cancelling

LEMMA CommitUnstarSafe ==
  ASSUME QueueInv, NEW c \in Clients, CommitUnstar(c)
  PROVE  QueueInv'
<1>1. /\ txs[c].op = "unstar" /\ c \in Writers
      /\ UNCHANGED <<parts, prints, live, outcome, queueHistory>>
  BY DEF CommitUnstar, Writers
<1>2. PICK ids : ids = txs[c].held /\ Keep(c, NoTx, ids, FALSE)
  BY DEF CommitUnstar, Close
<1>3. ids \cap Tasks = {}
  BY <1>1, <1>2, QueueAssumption DEF QueueInv, TxOK
<1>4. /\ DOMAIN pkgs' = Packages
      /\ \A k \in Packages : /\ DOMAIN pkgs'[k] = DOMAIN pkgs[k]
                             /\ pkgs'[k].quantity = pkgs[k].quantity
                             /\ pkgs'[k].state = pkgs[k].state
  BY DEF CommitUnstar, Update, QueueInv, TablesOK, PackageOK
<1>5. \A p \in Parts : parts[p].pkg # NoPkg => TotalPrints(p)' = TotalPrints(p)
  BY <1>1, <1>4 DEF QueueInv, TablesOK, PartOK, TotalPrints
<1>6. TablesOK'
  <2>1. \A p \in Parts : PartOK(p)'
    BY <1>1, <1>4, <1>5 DEF QueueInv, TablesOK, PartOK, queueHistory
  <2>2. \A k \in Packages : PackageOK(k)'
    BY <1>4 DEF QueueInv, TablesOK, PackageOK
  <2>3. QED BY <1>1, <1>4, <2>1, <2>2 DEF QueueInv, TablesOK, queueHistory
<1>7. PartsKept
  BY <1>1 DEF PartsKept, PartsThere, QueueInv, TablesOK, queueHistory
<1>8. QED BY <1>1, <1>2, <1>3, <1>5, <1>6, <1>7, CloseSafe
          DEF Deleting, Cancelling, queueHistory

\* A package and its parts are new, so that no print is made of them.
LEMMA InsertKeeps ==
  ASSUME QueueInv, NEW table, NEW k \in Packages, NEW package, NEW ids, NEW quantities \in Seq(Nat),
         NEW position, Insert(table, k, package, ids, quantities, position),
         DOMAIN table = Packages,
         \A j \in Packages : /\ DOMAIN table[j] = DOMAIN pkgs[j]
                             /\ table[j].quantity = pkgs[j].quantity
                             /\ table[j].state = pkgs[j].state,
         pkgs[k].state = "absent", package.state # "absent", package.quantity \in Nat,
         DOMAIN package = {"state", "quantity", "starred", "based", "from"},
         ids \in [1 .. Len(quantities) -> FreeParts],
         UNCHANGED <<prints, live, outcome, escaped, resent>>
  PROVE  TablesOK' /\ PartsKept
<1> DEFINE New(p) == \E i \in DOMAIN ids : ids[i] = p
<1>1. \A i \in DOMAIN ids : ids[i] \in Parts /\ parts[ids[i]].pkg = NoPkg /\ quantities[i] \in Nat
  BY DEF FreeParts
<1>2. \A p : p \in ToSet(ids) <=> New(p)
  BY DEF ToSet
<1>3. /\ pkgs' = [table EXCEPT ![k] = package]
      /\ parts' = [p \in Parts |->
           IF New(p)
           THEN LET i == CHOOSE j \in DOMAIN ids : ids[j] = p
                IN  [pkg |-> k, position |-> position + i - 1, quantity |-> quantities[i],
                     gone |-> FALSE]
           ELSE parts[p]]
      /\ peak' = [p \in Parts |-> IF New(p) THEN parts'[p].quantity * package.quantity
                                  ELSE peak[p]]
  BY <1>2 DEF Insert
<1>4. ASSUME NEW p \in Parts, New(p)
      PROVE  /\ DOMAIN parts'[p] = {"pkg", "position", "quantity", "gone"}
             /\ parts'[p].pkg = k /\ parts'[p].quantity \in Nat /\ parts'[p].gone = FALSE
             /\ peak'[p] = parts'[p].quantity * package.quantity
             /\ parts[p].pkg = NoPkg
  <2>1. PICK i : i = CHOOSE j \in DOMAIN ids : ids[j] = p
    OBVIOUS
  <2>2. i \in DOMAIN ids /\ ids[i] = p
    BY <1>4, <2>1
  <2>3. parts'[p] = [pkg |-> k, position |-> position + i - 1, quantity |-> quantities[i],
                     gone |-> FALSE]
    BY <1>3, <1>4, <2>1
  <2>4. peak'[p] = parts'[p].quantity * package.quantity
    BY <1>3, <1>4
  <2>5. QED BY <1>1, <2>2, <2>3, <2>4
<1>5. \A p \in Parts : ~New(p) => parts'[p] = parts[p] /\ peak'[p] = peak[p]
  BY <1>3
<1>6. DOMAIN pkgs' = Packages /\ pkgs'[k] = package /\ \A j \in Packages \ {k} : pkgs'[j] = table[j]
  BY <1>3
<1>7. PartsKept
  <2>1. \A p \in Parts : parts[p].pkg # NoPkg => ~New(p)
    BY <1>1
  <2>2. \A p \in Parts : peak[p] <= peak[p]
    BY DEF QueueInv, TablesOK
  <2>3. QED BY <1>5, <2>1, <2>2 DEF PartsKept, PartsThere, QueueInv, TablesOK, PartOK
<1>8. peak' \in [Parts -> Nat]
  <2>1. \A p \in Parts : peak'[p] \in Nat
    <3>1. \A p \in Parts : New(p) => peak'[p] \in Nat
      <4>1. \A a, b \in Nat : a * b \in Nat
        OBVIOUS
      <4>2. ASSUME NEW p \in Parts, New(p)
            PROVE  peak'[p] \in Nat
        <5>1. parts'[p].quantity \in Nat /\ peak'[p] = parts'[p].quantity * package.quantity
          BY <1>4, <4>2
        <5>2. QED BY <4>1, <5>1
      <4>3. QED BY <4>2
    <3>2. \A p \in Parts : ~New(p) => peak'[p] \in Nat
      BY <1>5 DEF QueueInv, TablesOK
    <3>3. QED BY <3>1, <3>2
  <2>2. QED BY <1>3, <2>1
<1>9. ASSUME NEW p \in Parts
      PROVE  PartOK(p)'
  <2>1. CASE New(p)
    <3>1. TotalPrints(p)' = peak'[p]
      BY <1>4, <1>6, <2>1 DEF TotalPrints
    <3>2. peak'[p] <= peak'[p]
      BY <1>8
    <3>3. parts'[p].pkg = k /\ pkgs'[k].state # "absent" /\ DOMAIN parts' = Parts
      BY <1>3, <1>4, <1>6, <2>1
    <3>4. QED BY <1>4, <2>1, <3>1, <3>2, <3>3 DEF PartOK
  <2>2. CASE ~New(p)
    <3>1. PartOK(p) /\ parts'[p] = parts[p] /\ peak'[p] = peak[p]
      BY <1>5, <2>2 DEF QueueInv, TablesOK
    <3>2. parts[p].pkg # NoPkg => parts[p].pkg \in Packages \ {k}
      BY <3>1 DEF PartOK
    <3>3. parts[p].pkg # NoPkg =>
            TotalPrints(p)' = TotalPrints(p) /\ pkgs'[parts[p].pkg].state # "absent"
      BY <1>6, <3>1, <3>2 DEF TotalPrints, PartOK
    <3>4. QED BY <3>1, <3>3 DEF PartOK
  <2>3. QED BY <2>1, <2>2
<1>10. \A j \in Packages : PackageOK(j)'
  BY <1>6 DEF QueueInv, TablesOK, PackageOK
<1>11. QED BY <1>3, <1>6, <1>7, <1>8, <1>9, <1>10 DEF QueueInv, TablesOK

LEMMA CommitAddSafe ==
  ASSUME QueueInv, NEW c \in Clients, NEW k \in Packages, NEW ids, CommitAdd(c, k, ids)
  PROVE  QueueInv'
<1>1. /\ txs[c].op = "add" /\ c \in Writers
      /\ UNCHANGED <<prints, live, outcome, raced, escaped, resent>>
      /\ Keep(c, NoTx, {}, TRUE)
  BY DEF CommitAdd, Close, Writers
<1>2. PICK quantities \in Seq(Nat) : quantities = txs[c].seen
  BY <1>1 DEF QueueInv, TxOK
<1>3. PICK package, position, table :
        /\ Insert(table, k, package, ids, quantities, position)
        /\ package = Package(1, FALSE, txs[c].pkg, NoPkg) /\ table = pkgs
  BY <1>2 DEF CommitAdd
<1>4. pkgs[k].state = "absent" /\ ids \in [1 .. Len(quantities) -> FreeParts]
  BY <1>2 DEF CommitAdd, NewPackage, NewIds
<1>5. DOMAIN table = Packages
  BY <1>3 DEF QueueInv, TablesOK
<1>6. /\ package.state # "absent" /\ package.quantity \in Nat
      /\ DOMAIN package = {"state", "quantity", "starred", "based", "from"}
  BY <1>3 DEF Package
<1>7. TablesOK' /\ PartsKept
  BY <1>1, <1>3, <1>4, <1>5, <1>6, InsertKeeps
<1>8. PICK none : none \cap Tasks = {} /\ Keep(c, NoTx, none, TRUE)
  BY <1>1
<1>9. txs[c].op \notin Deleting \cup Cancelling \cup {"none"}
  BY <1>1 DEF Deleting, Cancelling
<1>10. raced \subseteq raced'
  BY <1>1
<1>11. QED BY <1>1, <1>7, <1>8, <1>9, <1>10, CloseSafe

LEMMA CommitStarSafe ==
  ASSUME QueueInv, NEW c \in Clients, NEW copy \in Packages, NEW ids, NEW originals,
         CommitStar(c, copy, ids, originals)
  PROVE  QueueInv'
<1>1. /\ txs[c].op = "star" /\ c \in Writers
      /\ UNCHANGED <<prints, live, outcome, escaped, resent>>
      /\ raced \subseteq raced'
      /\ originals \in Orders(PackageParts(txs[c].pkg))
  BY DEF CommitStar, Writers
<1>2. PICK k \in Packages : k = txs[c].pkg
  BY <1>1 DEF QueueInv, TxOK
<1>3. PICK quantities : quantities = Quantities(originals)
  OBVIOUS
<1>4. /\ quantities \in Seq(Nat) /\ Len(quantities) = Len(originals)
      /\ ToSet(originals) \subseteq Parts
  BY <1>1, <1>3, QuantitiesAreNumbers DEF QueueInv
<1>5. PICK table, package, position :
        /\ Insert(table, copy, package, ids, quantities, position)
        /\ package = Package(0, TRUE, NoPkg, txs[c].pkg)
        /\ table = IF k \in txs[c].held THEN [pkgs EXCEPT ![k].based = copy] ELSE pkgs
  BY <1>2, <1>3 DEF CommitStar, Update
<1>6. pkgs[copy].state = "absent" /\ ids \in [1 .. Len(quantities) -> FreeParts]
  BY <1>4 DEF CommitStar, NewPackage, NewIds
<1>7. /\ DOMAIN table = Packages
      /\ \A j \in Packages : /\ DOMAIN table[j] = DOMAIN pkgs[j]
                             /\ table[j].quantity = pkgs[j].quantity
                             /\ table[j].state = pkgs[j].state
  BY <1>5 DEF QueueInv, TablesOK, PackageOK
<1>8. /\ package.state # "absent" /\ package.quantity \in Nat
      /\ DOMAIN package = {"state", "quantity", "starred", "based", "from"}
  BY <1>5 DEF Package
<1>9. TablesOK' /\ PartsKept
  <2>1. UNCHANGED <<prints, live, outcome, escaped, resent>> /\ quantities \in Seq(Nat)
    BY <1>1, <1>4
  <2>2. Insert(table, copy, package, ids, quantities, position)
    BY <1>5
  <2>3. QED BY <1>6, <1>7, <1>8, <2>1, <2>2, InsertKeeps
<1>10. PICK written : /\ written = (txs[c].held \cap {k}) \cup ToSet(originals)
                      /\ Keep(c, NoTx, written, TRUE)
  BY <1>2 DEF CommitStar, Close
<1>11. written \cap Tasks = {}
  BY <1>4, <1>10, QueueAssumption
<1>12. QED BY <1>1, <1>9, <1>10, <1>11, CloseSafe DEF Deleting, Cancelling

-----------------------------------------------------------------------------
(***************************************************************************)
(* Prints that go on and end.                                              *)
(***************************************************************************)
\* No machine but w is about to settle the print.
NotSettled(w, t) == \A mc \in Machines \ {w} : txs[mc].op = "settle" => txs[mc].task # t

LEMMA IdleNotSettled ==
  ASSUME QueueInv, NEW t \in Tasks, Idle(prints[t].machine)
  PROVE  NotSettled(NoPart, t)
BY DEF NotSettled, Idle, QueueInv, TxOK, SettleTxOK, Writers

\* Prints change that no other machine is about to settle, and count no more than
\* before, unless they have not been asked for.
RestStays(ts) ==
  \A u \in Tasks \ ts :
    prints'[u] = prints[u] /\ outcome'[u] = outcome[u] /\ (u \in live' <=> u \in live)

SomePrintsChange(w, ts, crossing) ==
  /\ ts \subseteq Tasks /\ crossing \in BOOLEAN
  /\ UNCHANGED <<parts, pkgs, peak, raced>>
  /\ escaped \subseteq escaped' /\ escaped' \subseteq Tasks /\ resent \subseteq resent'
  /\ DOMAIN txs' = Writers
  /\ (\E ids \in SUBSET ts : Touched(w, ids, crossing)) \/ (UNCHANGED txs /\ ~crossing)
  /\ prints' \in [Tasks -> PrintRecord] /\ live' \subseteq Tasks
  /\ outcome' \in [Tasks -> {"none"} \cup Final]
  /\ RestStays(ts)
  /\ \A t \in ts :
       /\ NotSettled(w, t) /\ prints[t].st # "absent" /\ prints'[t].st # "absent"
       /\ prints'[t].part = prints[t].part /\ prints'[t].machine = prints[t].machine
       /\ prints'[t].st \in Pending \cup {"finished"} =>
            prints[t].st \in Pending \cup {"finished"} \/ (crossing /\ t \in resent')
       /\ PrintOK(t)'

LEMMA SettlesUntouched ==
  ASSUME QueueInv, NEW w, NEW ts, NEW crossing, SomePrintsChange(w, ts, crossing),
         NEW v \in Writers \ {w}, txs[v].op = "settle"
  PROVE  /\ txs[v].task \in Tasks \ ts /\ txs[v].task \in txs[v].held
         /\ prints[txs[v].task].st \in Pending
<1>1. SettleTxOK(v, txs[v])
  BY DEF QueueInv, TxOK
<1>2. \A t \in ts : NotSettled(w, t)
  BY DEF SomePrintsChange
<1>3. QED BY <1>1, <1>2 DEF SettleTxOK, NotSettled

LEMMA SomePrintsKeep ==
  ASSUME QueueInv, NEW w, NEW ts, NEW crossing, SomePrintsChange(w, ts, crossing)
  PROVE  /\ TablesOK' /\ PartsKept /\ PrintsKept /\ OthersKept(w)
         /\ \A u \in Tasks : PrintOK(u)'
         /\ QuantityRespected'
<1>a. \A u \in Tasks \ ts :
        prints'[u] = prints[u] /\ outcome'[u] = outcome[u] /\ (u \in live' <=> u \in live)
  <2>1. RestStays(ts)
    BY DEF SomePrintsChange
  <2>2. QED BY <2>1 DEF RestStays
<1>0. ASSUME NEW u \in Tasks
      PROVE  /\ prints[u].st # "absent" => /\ prints'[u].st # "absent"
                                           /\ prints'[u].part = prints[u].part
                                           /\ prints'[u].machine = prints[u].machine
             /\ prints'[u].st # "absent" => prints'[u].part = prints[u].part
             /\ prints'[u].st \in Pending \cup {"finished"} =>
                  prints[u].st \in Pending \cup {"finished"} \/ (crossing /\ u \in resent')
             /\ PrintOK(u)'
  <2>1. CASE u \in ts
    BY <2>1 DEF SomePrintsChange
  <2>2. CASE u \notin ts
    <3>1. /\ prints'[u] = prints[u] /\ outcome'[u] = outcome[u] /\ (u \in live' <=> u \in live)
          /\ PrintOK(u) /\ UNCHANGED parts
      BY <1>a, <2>2 DEF QueueInv, SomePrintsChange
    <3>2. PrintOK(u)'
      BY <3>1 DEF PrintOK
    <3>3. QED BY <3>1, <3>2
  <2>3. QED BY <2>1, <2>2
<1>1. TablesOK'
  <2>1. \A p : PartOK(p)' <=> PartOK(p)
    BY DEF PartOK, TotalPrints, SomePrintsChange
  <2>2. \A k : PackageOK(k)' <=> PackageOK(k)
    BY DEF PackageOK, SomePrintsChange
  <2>3. QED BY <2>1, <2>2 DEF QueueInv, TablesOK, SomePrintsChange
<1>2. PartsKept
  BY DEF PartsKept, PartsThere, QueueInv, TablesOK, SomePrintsChange
<1>3. PrintsKept
  BY <1>0 DEF PrintsKept
<1>4. ASSUME NEW p
      PROVE  /\ Cardinality(Ordered(p)') <= Cardinality(Ordered(p))
             /\ ~crossing => Cardinality(Counted(p)') <= Cardinality(Counted(p))
  <2>1. resent \subseteq resent'
    BY DEF SomePrintsChange
  <2>2. ASSUME NEW u \in Counted(p)'
        PROVE  u \in Counted(p) \/ (crossing /\ u \in resent')
    <3>1. u \in Tasks /\ prints'[u].part = p /\ prints'[u].st \in Pending \cup {"finished"}
      BY <2>2 DEF Counted, Printed
    <3>2. prints'[u].st # "absent"
      BY <3>1 DEF Pending
    <3>3. prints[u].part = p
      BY <1>0, <3>1, <3>2
    <3>4. prints[u].st \in Pending \cup {"finished"} \/ (crossing /\ u \in resent')
      BY <1>0, <3>1
    <3>5. QED BY <3>1, <3>3, <3>4 DEF Counted, Printed
  <2>3. Ordered(p)' \subseteq Ordered(p)
    BY <2>1, <2>2 DEF Ordered
  <2>4. ~crossing => Counted(p)' \subseteq Counted(p)
    BY <2>2
  <2>5. QED BY <2>3, <2>4, CountedFinite, OrderedFinite
<1>5. \A p \in Parts : ~crossing /\ parts[p].pkg # NoPkg /\ MayPrint(p) => MayPrint(p)'
  <2> SUFFICES ASSUME NEW p \in Parts, ~crossing, parts[p].pkg # NoPkg, MayPrint(p)
               PROVE  MayPrint(p)'
    OBVIOUS
  <2>1. TotalPrints(p)' = TotalPrints(p)
    BY DEF TotalPrints, SomePrintsChange
  <2>2. Cardinality(Counted(p)) < TotalPrints(p) /\ TotalPrints(p) \in Nat
    BY MayPrintCounted, TotalIsCovered DEF QueueInv
  <2>3. Cardinality(Counted(p)') < TotalPrints(p)'
    BY <1>4, <2>1, <2>2, CountedFinite
  <2>4. QED BY <2>3 DEF MayPrint, PrintsInProgress, Counted
<1>6. ASSUME NEW v \in Writers \ {w}
      PROVE  /\ SameTx(txs[v], txs'[v])
             /\ txs'[v].held \subseteq txs[v].held
             /\ txs[v].op = "settle" => txs[v].held \ ts \subseteq txs'[v].held
             /\ txs[v].op = "settle" /\ ~txs'[v].crossed => ~txs[v].crossed /\ ~crossing
  <2>1. CASE \E ids \in SUBSET ts : Touched(w, ids, crossing)
    <3>1. PICK ids : ids \subseteq ts /\ Touched(w, ids, crossing)
      BY <2>1
    <3>2. crossing \in BOOLEAN
      BY DEF SomePrintsChange
    <3>3. SameTx(txs[v], txs'[v]) /\ txs'[v].held \subseteq txs[v].held
      BY <3>1, <3>2, TouchedKeeps
    <3>4. txs[v].op # "none" => txs'[v].held = txs[v].held \ ids
      BY <3>1, <3>2, TouchedKeeps
    <3>5. txs[v].op # "none" /\ ~txs'[v].crossed => ~txs[v].crossed /\ ~crossing
      BY <3>1, <3>2, TouchedKeeps
    <3>6. QED BY <3>1, <3>3, <3>4, <3>5
  <2>2. CASE UNCHANGED txs /\ ~crossing
    BY <2>2 DEF SameTx
  <2>3. QED BY <2>1, <2>2 DEF SomePrintsChange
<1>7. ASSUME NEW v \in Writers \ {w}, txs[v].op = "settle"
      PROVE  /\ txs[v].task \in Tasks \ ts /\ txs[v].task \in txs[v].held
             /\ prints[txs[v].task].st \in Pending
  BY <1>7, SettlesUntouched
<1>8. OthersKept(w)
  <2>1. ASSUME NEW v \in Writers \ {w}, txs[v].op = "settle"
        PROVE  /\ outcome'[txs[v].task] = outcome[txs[v].task]
               /\ prints'[txs[v].task].st \in Pending
               /\ txs[v].task \in txs'[v].held
    <3>1. /\ txs[v].task \in Tasks \ ts /\ txs[v].task \in txs[v].held
          /\ prints[txs[v].task].st \in Pending
          /\ txs[v].held \ ts \subseteq txs'[v].held
      BY <1>6, <1>7, <2>1
    <3>2. PICK u : u = txs[v].task
      OBVIOUS
    <3>3. prints'[u] = prints[u] /\ outcome'[u] = outcome[u]
      BY <1>a, <3>1, <3>2
    <3>4. QED BY <3>1, <3>2, <3>3
  <2>2. QED BY <1>4, <1>5, <1>6, <2>1 DEF OthersKept
<1>9. \A u \in Tasks : PrintOK(u)'
  BY <1>0
<1>10. QuantityRespected'
  <2>1. \A p \in Parts \ raced : Cardinality(Ordered(p)) <= peak[p]
    BY DEF QueueInv, QuantityRespected, Ordered, Counted
  <2>2. \A p \in Parts \ raced : Cardinality(Ordered(p)') <= peak[p]
    BY <1>4, <2>1, OrderedFinite DEF QueueInv, TablesOK, SomePrintsChange
  <2>3. UNCHANGED <<raced, peak>>
    BY DEF SomePrintsChange
  <2>4. QED BY <2>2, <2>3 DEF QuantityRespected, Ordered, Counted
<1>11. QED BY <1>1, <1>2, <1>3, <1>8, <1>9, <1>10

\* Where no client makes the step.
LEMMA SomePrintsSafe ==
  ASSUME QueueInv, NEW w \in Machines \cup {NoPart}, NEW ts, NEW crossing,
         SomePrintsChange(w, ts, crossing),
         w \in Machines => TxOK(w)',
         \A t \in ts :
           /\ t \in live' => t \in live \/ (prints[t].compiling /\ ~Gone(t))
           /\ Occupied(t)' /\ ~Occupied(t) /\ t \notin escaped' =>
                /\ prints'[t].st \in Pending
                /\ \A c \in Clients : prints'[t].part \notin txs[c].doomed \/ t \in txs[c].todo
           /\ Occupied(t)' /\ prints[t].st \in Pending => prints'[t].st \in Pending
  PROVE  QueueInv'
<1>1. /\ TablesOK' /\ PartsKept /\ PrintsKept /\ OthersKept(w)
      /\ \A u \in Tasks : PrintOK(u)'
      /\ QuantityRespected'
  BY SomePrintsKeep
<1>2. NoneRevived
  <2>1. ASSUME NEW u \in Tasks \ ts
        PROVE  /\ Occupied(u)' <=> Occupied(u)
               /\ prints'[u] = prints[u] /\ (u \in live' <=> u \in live)
    <3>1. prints'[u] = prints[u] /\ (u \in live' <=> u \in live)
      <4>1. RestStays(ts)
        BY DEF SomePrintsChange
      <4>2. QED BY <4>1 DEF RestStays
    <3>2. QED BY <3>1 DEF Occupied
  <2>2. live' \subseteq Tasks
    BY DEF SomePrintsChange
  <2>3. QED BY <2>1, <2>2 DEF NoneRevived
<1>3. w \notin Clients /\ NoPart \notin Writers
  BY QueueAssumption DEF Writers
<1>4. raced' = raced /\ escaped \subseteq escaped' /\ DOMAIN txs' = Writers
  BY DEF SomePrintsChange
<1>5. \A v \in Writers : TxOK(v)'
  <2>1. \A v \in Writers \ {w} : TxOK(v)'
    BY <1>1, <1>4, OthersStay DEF PartsKept
  <2>2. QED BY <1>3, <2>1
<1>6. StopsOK'
  BY <1>1, <1>2, <1>3, <1>4, StopsStay
<1>7. QED BY <1>1, <1>4, <1>5, <1>6 DEF QueueInv

\* One print changes.
OnePrintChanges(w, t) ==
  /\ NotSettled(w, t) /\ prints[t].st # "absent"
  /\ UNCHANGED <<parts, pkgs, queueHistory>>
  /\ DOMAIN txs' = Writers
  /\ Touched(w, {t}, FALSE) \/ Touched(w, {}, FALSE) \/ UNCHANGED txs
  /\ prints' \in [Tasks -> PrintRecord] /\ live' \subseteq Tasks
  /\ outcome' \in [Tasks -> {"none"} \cup Final]
  /\ \A u \in Tasks \ {t} : /\ prints'[u] = prints[u] /\ outcome'[u] = outcome[u]
                            /\ u \in live' <=> u \in live
  /\ prints'[t].part = prints[t].part /\ prints'[t].machine = prints[t].machine
  /\ prints'[t].st # "absent"
  /\ prints'[t].st \in Pending \cup {"finished"} => prints[t].st \in Pending \cup {"finished"}
  /\ PrintOK(t)'

LEMMA OneOfSome ==
  ASSUME QueueInv, NEW t \in Tasks, NEW w, OnePrintChanges(w, t)
  PROVE  SomePrintsChange(w, {t}, FALSE)
<1>1. \/ \E ids \in SUBSET {t} : Touched(w, ids, FALSE)
      \/ UNCHANGED txs
  <2>1. {} \in SUBSET {t} /\ {t} \in SUBSET {t}
    OBVIOUS
  <2>2. QED BY <2>1 DEF OnePrintChanges
<1>2. escaped' = escaped /\ escaped \subseteq Tasks /\ resent' = resent
      /\ UNCHANGED <<parts, pkgs, peak, raced>>
  BY DEF OnePrintChanges, queueHistory, QueueInv, TablesOK
<1>3. RestStays({t})
  BY DEF OnePrintChanges, RestStays
<1>4. QED BY <1>1, <1>2, <1>3 DEF OnePrintChanges, SomePrintsChange

LEMMA OnePrintKeeps ==
  ASSUME QueueInv, NEW t \in Tasks, NEW w, OnePrintChanges(w, t)
  PROVE  /\ TablesOK' /\ PartsKept /\ PrintsKept /\ OthersKept(w)
         /\ \A u \in Tasks : PrintOK(u)'
         /\ QuantityRespected'
<1>1. PICK ts, no : ts = {t} /\ no = FALSE /\ SomePrintsChange(w, ts, no)
  BY OneOfSome
<1>2. QED BY <1>1, SomePrintsKeep

LEMMA OnePrintSafe ==
  ASSUME QueueInv, NEW t \in Tasks, NEW w \in Machines \cup {NoPart}, OnePrintChanges(w, t),
         w \in Machines => TxOK(w)',
         t \in live' => t \in live \/ (prints[t].compiling /\ ~Gone(t)),
         Occupied(t)' => Occupied(t),
         Occupied(t)' /\ prints[t].st \in Pending => prints'[t].st \in Pending
  PROVE  QueueInv'
<1>1. PICK ts, no : ts = {t} /\ no = FALSE /\ SomePrintsChange(w, ts, no)
  BY OneOfSome
<1>2. \A u \in ts :
        /\ u \in live' => u \in live \/ (prints[u].compiling /\ ~Gone(u))
        /\ Occupied(u)' => Occupied(u)
        /\ Occupied(u)' /\ prints[u].st \in Pending => prints'[u].st \in Pending
  BY <1>1
<1>3. QED BY <1>1, <1>2, SomePrintsSafe

LEMMA NobodyElse == NoPart \notin Machines
BY QueueAssumption DEF Writers

LEMMA KeepOfMachine ==
  ASSUME NEW t, Keep(NoPart, NoTx, {t}, FALSE)
  PROVE  DOMAIN txs' = Writers /\ Touched(NoPart, {t}, FALSE)
BY KeepTouches

LEMMA SpoolPrintSafe ==
  ASSUME QueueInv, NEW t \in Tasks, SpoolPrint(t)
  PROVE  QueueInv'
<1>1. /\ prints[t].compiling /\ NotSettled(NoPart, t) /\ prints[t].part \in LiveParts
      /\ PrintOK(t) /\ prints[t] \in PrintRecord /\ prints \in [Tasks -> PrintRecord]
      /\ live' = live \cup {t}
      /\ UNCHANGED <<parts, pkgs, outcome, peak, raced>>
  BY IdleNotSettled DEF SpoolPrint, QueueInv, TablesOK
<1>2. PICK lands, back, ids :
        /\ lands \in BOOLEAN /\ back \in BOOLEAN
        /\ lands = (prints[t].fresh \/ prints[t].late)
        /\ back = (lands /\ prints[t].st \notin Pending)
        /\ ids = (IF lands THEN {t} ELSE {})
        /\ Keep(NoPart, NoTx, ids, back)
        /\ prints' = [prints EXCEPT
             ![t] = [@ EXCEPT !.compiling = FALSE, !.fresh = FALSE, !.late = FALSE,
                              !.st = IF lands THEN "sent" ELSE prints[t].st]]
        /\ resent' = IF back THEN resent \cup {t} ELSE resent
  <2>1. PICK lands \in BOOLEAN : lands = (prints[t].fresh \/ prints[t].late)
    BY <1>1 DEF PrintRecord
  <2>2. PICK back \in BOOLEAN : back = (lands /\ prints[t].st \notin Pending)
    OBVIOUS
  <2>3. prints' = [prints EXCEPT
          ![t] = [@ EXCEPT !.compiling = FALSE, !.fresh = FALSE, !.late = FALSE,
                           !.st = IF lands THEN "sent" ELSE prints[t].st]]
    <3>1. CASE lands
      <4>1. prints[t].fresh \/ prints[t].late
        BY <2>1, <3>1
      <4>2. QED BY <3>1, <4>1 DEF SpoolPrint
    <3>2. CASE ~lands
      <4>1. ~(prints[t].fresh \/ prints[t].late)
        BY <2>1, <3>2
      <4>2. QED BY <3>2, <4>1 DEF SpoolPrint
    <3>3. QED BY <3>1, <3>2
  <2>4. PICK ids : ids = IF lands THEN {t} ELSE {}
    OBVIOUS
  <2>5. Keep(NoPart, NoTx, ids, back)
    BY <2>1, <2>2, <2>4 DEF SpoolPrint
  <2>6. resent' = IF back THEN resent \cup {t} ELSE resent
    BY <2>1, <2>2 DEF SpoolPrint
  <2>7. QED BY <2>1, <2>2, <2>3, <2>4, <2>5, <2>6
<1>3. /\ escaped \subseteq escaped' /\ escaped' \subseteq Tasks
      /\ t \notin escaped' => \A c \in Clients :
           lands /\ prints[t].part \in txs[c].doomed /\ prints[t].st \notin Pending
             => t \in txs[c].todo
      /\ t \notin escaped' /\ prints[t].st \notin Pending => lands
  BY <1>2 DEF SpoolPrint, QueueInv, TablesOK
<1>4. /\ DOMAIN txs' = Writers /\ Touched(NoPart, ids, back) /\ ids \in SUBSET {t}
      /\ resent \subseteq resent'
  BY <1>2, KeepTouches
<1>5. /\ prints'[t].part = prints[t].part /\ prints'[t].machine = prints[t].machine
      /\ prints'[t].compiling = FALSE /\ prints'[t].fresh = FALSE
      /\ prints'[t].st = IF lands THEN "sent" ELSE prints[t].st
      /\ prints' \in [Tasks -> PrintRecord]
      /\ \A u \in Tasks \ {t} : prints'[u] = prints[u]
  <2>1. PICK r \in PrintRecord : r = prints[t]
    BY <1>1
  <2>2. PICK q : q = [prints[t] EXCEPT !.compiling = FALSE, !.fresh = FALSE, !.late = FALSE,
                                       !.st = IF lands THEN "sent" ELSE prints[t].st]
    OBVIOUS
  <2>3. /\ q \in PrintRecord /\ q.part = r.part /\ q.machine = r.machine
        /\ q.compiling = FALSE /\ q.fresh = FALSE
        /\ q.st = IF lands THEN "sent" ELSE r.st
    BY <2>1, <2>2 DEF PrintRecord, Pending
  <2>4. prints' = [prints EXCEPT ![t] = q]
    BY <1>2, <2>2
  <2>5. QED BY <1>1, <2>1, <2>3, <2>4
<1>6. /\ prints[t].st # "absent" /\ outcome[t] = "none" /\ t \notin live
      /\ prints[t].part \in Parts /\ prints[t].machine \in Machines
      /\ parts[prints[t].part].pkg # NoPkg
  BY <1>1 DEF PrintOK
<1>7. PrintOK(t)'
  BY <1>1, <1>5, <1>6 DEF PrintOK, Pending
<1>8. /\ live' \subseteq Tasks /\ outcome' \in [Tasks -> {"none"} \cup Final]
      /\ RestStays({t})
  BY <1>1, <1>5 DEF QueueInv, TablesOK, RestStays
<1>9. prints'[t].st \in Pending \cup {"finished"} =>
        prints[t].st \in Pending \cup {"finished"} \/ (back /\ t \in resent')
  BY <1>2, <1>5
<1>10. prints'[t].st # "absent"
  BY <1>5, <1>6
<1>11. PICK ts : ts = {t}
  OBVIOUS
<1>12. SomePrintsChange(NoPart, ts, back)
  <2>1. \A u \in ts :
          /\ NotSettled(NoPart, u) /\ prints[u].st # "absent" /\ prints'[u].st # "absent"
          /\ prints'[u].part = prints[u].part /\ prints'[u].machine = prints[u].machine
          /\ prints'[u].st \in Pending \cup {"finished"} =>
               prints[u].st \in Pending \cup {"finished"} \/ (back /\ u \in resent')
          /\ PrintOK(u)'
    BY <1>1, <1>5, <1>6, <1>7, <1>9, <1>10, <1>11
  <2>2. \E i \in SUBSET ts : Touched(NoPart, i, back)
    BY <1>4, <1>11
  <2>3. ts \subseteq Tasks /\ RestStays(ts) /\ back \in BOOLEAN
    BY <1>2, <1>8, <1>11
  <2>4. QED BY <1>1, <1>3, <1>4, <1>5, <1>8, <2>1, <2>2, <2>3 DEF SomePrintsChange
<1>13. /\ prints[t].compiling /\ ~Gone(t)
       /\ lands => prints'[t].st \in Pending
       /\ prints[t].st \in Pending => prints'[t].st \in Pending
       /\ ~Occupied(t) => prints[t].st \notin Pending
  BY <1>1, <1>5 DEF Gone, LiveParts, Pending, Occupied
<1>14. Occupied(t)' /\ ~Occupied(t) /\ t \notin escaped' =>
         /\ prints'[t].st \in Pending
         /\ \A c \in Clients : prints'[t].part \notin txs[c].doomed \/ t \in txs[c].todo
  BY <1>3, <1>5, <1>13
<1>15. QED BY <1>11, <1>12, <1>13, <1>14, SomePrintsSafe, NobodyElse

LEMMA RefusePrintSafe ==
  ASSUME QueueInv, NEW t \in Tasks, RefusePrint(t)
  PROVE  QueueInv'
<1>1. /\ prints[t].compiling /\ NotSettled(NoPart, t)
      /\ prints' = [Rewrite(t, "errored", prints) EXCEPT ![t].compiling = FALSE,
                                                          ![t].late = FALSE]
      /\ UNCHANGED <<parts, pkgs, live, outcome, queueHistory>>
  BY IdleNotSettled DEF RefusePrint
<1>2. DOMAIN txs' = Writers /\ Touched(NoPart, {t}, FALSE)
  BY KeepOfMachine DEF RefusePrint
<1>3. PrintOK(t) /\ prints[t] \in PrintRecord /\ prints \in [Tasks -> PrintRecord]
  BY DEF QueueInv, TablesOK
<1>4. /\ prints'[t].part = prints[t].part /\ prints'[t].machine = prints[t].machine
      /\ prints'[t].compiling = FALSE /\ prints'[t].fresh = FALSE
      /\ prints'[t].st = "errored"
      /\ prints' \in [Tasks -> PrintRecord]
      /\ \A u \in Tasks \ {t} : prints'[u] = prints[u]
  BY <1>1, <1>3 DEF PrintRecord, Rewrite, Final
<1>5. /\ prints[t].st # "absent" /\ outcome[t] = "none" /\ t \notin live
      /\ prints[t].part \in Parts /\ prints[t].machine \in Machines
      /\ parts[prints[t].part].pkg # NoPkg
  BY <1>1, <1>3 DEF PrintOK
<1>6. PrintOK(t)'
  BY <1>1, <1>4, <1>5 DEF PrintOK, Pending
<1>7. ~Occupied(t)' /\ t \notin live'
  BY <1>1, <1>4, <1>5 DEF Occupied
<1>8. live' \subseteq Tasks /\ outcome' \in [Tasks -> {"none"} \cup Final]
  BY <1>1 DEF QueueInv, TablesOK
<1>9. /\ prints'[t].st # "absent"
      /\ prints'[t].st \notin Pending \cup {"finished"}
  BY <1>4 DEF Pending
<1>10. OnePrintChanges(NoPart, t)
  BY <1>1, <1>2, <1>4, <1>5, <1>6, <1>7, <1>8, <1>9 DEF OnePrintChanges
<1>11. QED BY <1>1, <1>2, <1>4, <1>5, <1>6, <1>7, <1>8, <1>9, <1>10, OnePrintSafe, NobodyElse

LEMMA ProgressSafe ==
  ASSUME QueueInv, NEW t \in Tasks, NEW st \in Pending, Progress(t, st)
  PROVE  QueueInv'
<1>1. /\ t \in live /\ NotSettled(NoPart, t) /\ prints[t].st \in {"sent", "started", "paused"}
      /\ prints' = Rewrite(t, st, prints)
      /\ UNCHANGED <<parts, pkgs, live, outcome, queueHistory>>
  BY IdleNotSettled DEF Progress
<1>2. DOMAIN txs' = Writers /\ Touched(NoPart, {t}, FALSE)
  BY KeepOfMachine DEF Progress
<1>3. PrintOK(t) /\ prints[t] \in PrintRecord /\ prints \in [Tasks -> PrintRecord]
  BY DEF QueueInv, TablesOK
<1>4. /\ prints'[t].part = prints[t].part /\ prints'[t].machine = prints[t].machine
      /\ prints'[t].compiling = prints[t].compiling /\ prints'[t].fresh = FALSE
      /\ prints'[t].st = st
      /\ prints' \in [Tasks -> PrintRecord]
      /\ \A u \in Tasks \ {t} : prints'[u] = prints[u]
  BY <1>1, <1>3 DEF PrintRecord, Rewrite
<1>5. /\ prints[t].st # "absent" /\ outcome[t] = "none" /\ ~prints[t].compiling
      /\ prints[t].part \in Parts /\ prints[t].machine \in Machines
      /\ parts[prints[t].part].pkg # NoPkg
  BY <1>1, <1>3 DEF PrintOK
<1>6. PrintOK(t)'
  BY <1>1, <1>4, <1>5 DEF PrintOK, Pending
<1>7. Occupied(t)
  BY <1>1 DEF Occupied
<1>8. live' \subseteq Tasks /\ outcome' \in [Tasks -> {"none"} \cup Final]
  BY <1>1 DEF QueueInv, TablesOK
<1>9. prints'[t].st # "absent" /\ prints[t].st \in Pending /\ prints'[t].st \in Pending
  BY <1>1, <1>4 DEF Pending
<1>10. OnePrintChanges(NoPart, t)
  BY <1>1, <1>2, <1>4, <1>5, <1>6, <1>7, <1>8, <1>9 DEF OnePrintChanges
<1>11. QED BY <1>1, <1>2, <1>4, <1>5, <1>6, <1>7, <1>8, <1>9, <1>10, OnePrintSafe, NobodyElse

LEMMA RewrittenAre ==
  ASSUME QueueInv, NEW ts \in SUBSET Tasks, NEW next, prints' = Rewritten(ts, next),
         \A t \in ts : next[t] \in {"absent"} \cup Pending \cup Final
  PROVE  /\ prints' \in [Tasks -> PrintRecord]
         /\ \A t \in Tasks : /\ prints'[t].part = prints[t].part
                             /\ prints'[t].machine = prints[t].machine
                             /\ prints'[t].compiling = prints[t].compiling
         /\ \A t \in ts : prints'[t].st = next[t] /\ prints'[t].fresh = FALSE
         /\ \A t \in Tasks \ ts : prints'[t] = prints[t]
<1>1. prints \in [Tasks -> PrintRecord]
  BY DEF QueueInv, TablesOK
<1>2. \A t \in Tasks \ ts : prints'[t] = prints[t]
  BY DEF Rewritten
<1>3. ASSUME NEW t \in ts
      PROVE  /\ prints'[t] \in PrintRecord /\ prints'[t].part = prints[t].part
             /\ prints'[t].machine = prints[t].machine
             /\ prints'[t].compiling = prints[t].compiling
             /\ prints'[t].st = next[t] /\ prints'[t].fresh = FALSE
  <2>1. prints[t] \in PrintRecord /\ t \in DOMAIN prints
    BY <1>1
  <2>2. prints'[t] = [prints[t] EXCEPT !.st = next[t], !.fresh = FALSE,
                                       !.late = prints[t].fresh]
    BY <2>1 DEF Rewritten, Rewrite
  <2>3. PICK st : st = next[t] /\ st \in {"absent"} \cup Pending \cup Final
    OBVIOUS
  <2>4. QED BY <2>1, <2>2, <2>3 DEF PrintRecord
<1>4. prints' = [t \in Tasks |-> prints'[t]]
  BY DEF Rewritten
<1>5. QED BY <1>1, <1>2, <1>3, <1>4

\* Prints of a machine that are pending are settled, and gone, or stay as they are.
Rewritable(mc, ts, next) ==
  \A t \in ts : /\ prints[t].machine = mc /\ prints[t].st \in Pending
                /\ \/ next[t] \in Final /\ next[t] # "finished" /\ t \notin live'
                   \/ next[t] = prints[t].st /\ (t \in live' <=> t \in live)

\* All that a machine prints may be recorded at once.
LEMMA RewrittenSafe ==
  ASSUME QueueInv, NEW mc \in Machines, Idle(mc), NEW ts \in SUBSET Tasks, NEW next,
         Rewritable(mc, ts, next), prints' = Rewritten(ts, next), Keep(NoPart, NoTx, ts, FALSE),
         live' \subseteq live,
         \A t \in live \ live' : prints[t].machine = mc /\ prints'[t].st \notin Pending,
         UNCHANGED <<parts, pkgs, outcome, queueHistory>>
  PROVE  QueueInv'
<1>1. PICK all : all = ts \cup (live \ live')
  OBVIOUS
<1>2. all \subseteq Tasks /\ live \subseteq Tasks /\ outcome \in [Tasks -> {"none"} \cup Final]
  BY <1>1 DEF QueueInv, TablesOK
<1>3. /\ prints' \in [Tasks -> PrintRecord]
      /\ \A t \in Tasks : /\ prints'[t].part = prints[t].part
                          /\ prints'[t].machine = prints[t].machine
                          /\ prints'[t].compiling = prints[t].compiling
      /\ \A t \in ts : prints'[t].st = next[t] /\ prints'[t].fresh = FALSE
      /\ \A t \in Tasks \ ts : prints'[t] = prints[t]
  <2>1. \A t \in ts : next[t] \in {"absent"} \cup Pending \cup Final
    BY DEF Rewritable
  <2>2. QED BY <2>1, RewrittenAre
<1>4. ASSUME NEW t \in all
      PROVE  /\ NotSettled(NoPart, t) /\ prints[t].st # "absent" /\ prints'[t].st # "absent"
             /\ prints'[t].st \in Pending \cup {"finished"} =>
                  prints[t].st \in Pending \cup {"finished"}
             /\ PrintOK(t)'
             /\ prints'[t].st \in Pending => prints'[t].st = prints[t].st
             /\ prints'[t].st \in Pending => (t \in live' <=> t \in live)
             /\ t \in live' /\ prints[t].st \in Pending => prints'[t].st \in Pending
  <2>1. t \in Tasks /\ prints[t].machine = mc /\ PrintOK(t)
    BY <1>1, <1>2 DEF QueueInv, Rewritable
  <2>2. NotSettled(NoPart, t)
    BY <2>1, IdleNotSettled
  <2>3. prints[t].st # "absent"
    BY <1>1, <2>1 DEF PrintOK, Pending, Rewritable
  <2>4. \/ t \in ts /\ prints'[t].st \in Final \ {"finished"} /\ t \notin live'
        \/ /\ prints'[t].st = prints[t].st
           /\ (prints'[t].st \in Pending => (t \in live' <=> t \in live))
    <3>1. CASE t \in ts
      <4>1. prints'[t].st = next[t]
        BY <1>3, <3>1
      <4>2. CASE next[t] \in Final /\ next[t] # "finished" /\ t \notin live'
        BY <3>1, <4>1, <4>2
      <4>3. CASE next[t] = prints[t].st /\ (t \in live' <=> t \in live)
        BY <4>1, <4>3
      <4>4. QED BY <3>1, <4>2, <4>3 DEF Rewritable
    <3>2. CASE t \notin ts
      BY <1>1, <1>3, <2>1, <3>2
    <3>3. QED BY <3>1, <3>2
  <2>5. prints'[t].fresh => prints'[t].st = "created"
    BY <1>3, <2>1 DEF PrintOK
  <2>6. PrintOK(t)'
    BY <1>3, <2>1, <2>3, <2>4, <2>5 DEF PrintOK, Pending, Final
  <2>7. QED BY <2>2, <2>3, <2>4, <2>6 DEF Pending, Final
<1>5. PICK no : no = FALSE /\ Keep(NoPart, NoTx, ts, no)
  OBVIOUS
<1>6. DOMAIN txs' = Writers /\ Touched(NoPart, ts, no) /\ no \in BOOLEAN
  BY <1>5, KeepTouches
<1>7. RestStays(all)
  BY <1>1, <1>2, <1>3 DEF RestStays
<1>8. UNCHANGED <<parts, pkgs, peak, raced, escaped, resent>> /\ escaped' \subseteq Tasks
  BY DEF queueHistory, QueueInv, TablesOK
<1>9. ts \in SUBSET all
  BY <1>1
<1>10. SomePrintsChange(NoPart, all, no)
  BY <1>2, <1>3, <1>4, <1>6, <1>7, <1>8, <1>9 DEF SomePrintsChange
<1>11. \A t \in all : /\ t \in live' => t \in live
                      /\ Occupied(t)' => Occupied(t)
                      /\ Occupied(t)' /\ prints[t].st \in Pending => prints'[t].st \in Pending
  BY <1>1, <1>2, <1>3, <1>4 DEF Occupied
<1>12. QED BY <1>10, <1>11, SomePrintsSafe, NobodyElse

LEMMA DriverLostSafe ==
  ASSUME QueueInv, NEW mc \in Machines, DriverLost(mc)
  PROVE  QueueInv'
<1>1. PICK ts, next : /\ ts = {t \in Tasks : prints[t].machine = mc /\ prints[t].st \in Pending}
                      /\ next = [t \in Tasks |-> "errored"]
  OBVIOUS
<1>2. /\ Idle(mc) /\ prints' = Rewritten(ts, next) /\ Keep(NoPart, NoTx, ts, FALSE)
      /\ live' = {t \in live : prints[t].machine # mc}
      /\ UNCHANGED <<parts, pkgs, outcome, queueHistory>>
  BY <1>1 DEF DriverLost
<1>3. \A t \in ts : /\ t \in Tasks /\ prints[t].machine = mc /\ prints[t].st \in Pending
                    /\ next[t] = "errored" /\ t \notin live'
  BY <1>1, <1>2
<1>4. /\ ts \in SUBSET Tasks
      /\ \A t \in ts : next[t] \in {"absent"} \cup Pending \cup Final
      /\ \A t \in ts : next[t] \in Final /\ next[t] # "finished"
  BY <1>3 DEF Final
<1>5. \A t \in ts : prints'[t].st = next[t]
  BY <1>2, <1>4, RewrittenAre
<1>6. \A t \in Tasks \ ts : prints'[t] = prints[t]
  BY <1>2, <1>4, RewrittenAre
<1>7. \A t \in live \ live' : prints[t].machine = mc /\ prints'[t].st \notin Pending
  BY <1>1, <1>2, <1>3, <1>5, <1>6 DEF QueueInv, TablesOK, Pending
<1>8. live' \subseteq live
  BY <1>2
<1>9. Rewritable(mc, ts, next)
  BY <1>3, <1>4 DEF Rewritable
<1>10. QED BY <1>2, <1>4, <1>7, <1>8, <1>9, RewrittenSafe

LEMMA RecordBlockingSafe ==
  ASSUME QueueInv, NEW mc \in Machines, RecordBlocking(mc)
  PROVE  QueueInv'
<1>1. PICK ts, next :
        /\ ts = {t \in Tasks : prints[t].machine = mc /\ prints[t].st \in Pending \ {"paused"}}
        /\ next = [t \in Tasks |-> prints[t].st]
  OBVIOUS
<1>2. /\ Idle(mc) /\ prints' = Rewritten(ts, next) /\ Keep(NoPart, NoTx, ts, FALSE)
      /\ UNCHANGED <<parts, pkgs, outcome, queueHistory>> /\ live' = live
  BY <1>1 DEF RecordBlocking
<1>3. \A t \in ts : /\ t \in Tasks /\ prints[t].machine = mc /\ prints[t].st \in Pending
                    /\ next[t] = prints[t].st /\ (t \in live' <=> t \in live)
  BY <1>1, <1>2
<1>4. ts \in SUBSET Tasks /\ live' \subseteq live /\ live \ live' = {}
  BY <1>2, <1>3
<1>5. Rewritable(mc, ts, next)
  BY <1>3 DEF Rewritable
<1>6. \A t \in live \ live' : prints[t].machine = mc /\ prints'[t].st \notin Pending
  BY <1>4
<1>7. QED BY <1>2, <1>4, <1>5, <1>6, RewrittenSafe

LEMMA EndSafe ==
  ASSUME QueueInv, NEW t \in Tasks, NEW o \in Final, End(t, o)
  PROVE  QueueInv'
<1>1. /\ t \in live /\ live' = live \ {t} /\ outcome' = [outcome EXCEPT ![t] = o]
      /\ UNCHANGED <<parts, pkgs, prints, txs, queueHistory>>
  BY DEF End, tables
<1>2. PrintOK(t) /\ prints \in [Tasks -> PrintRecord] /\ DOMAIN txs' = Writers
  BY <1>1 DEF QueueInv, TablesOK
<1>3. NotSettled(NoPart, t)
  BY <1>1, <1>2 DEF NotSettled, QueueInv, TxOK, SettleTxOK, PrintOK, Writers, Final
<1>4. /\ outcome' \in [Tasks -> {"none"} \cup Final] /\ outcome'[t] = o /\ o # "none"
      /\ \A u \in Tasks \ {t} : outcome'[u] = outcome[u]
  BY <1>1 DEF QueueInv, TablesOK, Final
<1>5. prints[t].st # "absent" /\ ~prints[t].compiling
  BY <1>1, <1>2 DEF PrintOK
<1>6. PrintOK(t)'
  BY <1>1, <1>2, <1>4, <1>5 DEF PrintOK
<1>7. live' \subseteq Tasks
  BY <1>1 DEF QueueInv, TablesOK
<1>8. Occupied(t) /\ ~Occupied(t)'
  BY <1>1, <1>5 DEF Occupied
<1>9. OnePrintChanges(NoPart, t)
  BY <1>1, <1>2, <1>3, <1>4, <1>5, <1>6, <1>7, <1>8 DEF OnePrintChanges
<1>10. QED BY <1>1, <1>2, <1>3, <1>4, <1>5, <1>6, <1>7, <1>8, <1>9, OnePrintSafe, NobodyElse

LEMMA SkipSafe ==
  ASSUME QueueInv, NEW t \in Tasks, Skip(t)
  PROVE  QueueInv'
<1>1. /\ outcome[t] # "none" /\ NotSettled(NoPart, t) /\ prints[t].st \notin Pending
      /\ outcome' = [outcome EXCEPT ![t] = "none"]
      /\ UNCHANGED <<parts, pkgs, prints, live, txs, queueHistory>>
  BY IdleNotSettled DEF Skip, tables
<1>2. /\ PrintOK(t) /\ prints' \in [Tasks -> PrintRecord] /\ DOMAIN txs' = Writers
      /\ live' \subseteq Tasks
  BY <1>1 DEF QueueInv, TablesOK
<1>3. /\ outcome' \in [Tasks -> {"none"} \cup Final] /\ outcome'[t] = "none"
      /\ \A u \in Tasks \ {t} : outcome'[u] = outcome[u]
  BY <1>1 DEF QueueInv, TablesOK
<1>4. prints[t].st # "absent"
  BY <1>1, <1>2 DEF PrintOK
<1>5. PrintOK(t)'
  BY <1>1, <1>2, <1>3 DEF PrintOK
<1>6. Occupied(t)' <=> Occupied(t)
  BY <1>1 DEF Occupied
<1>7. OnePrintChanges(NoPart, t)
  BY <1>1, <1>2, <1>3, <1>4, <1>5, <1>6 DEF OnePrintChanges
<1>8. QED BY <1>1, <1>2, <1>3, <1>4, <1>5, <1>6, <1>7, OnePrintSafe, NobodyElse

-----------------------------------------------------------------------------
(***************************************************************************)
(* Prints that are created.                                                *)
(***************************************************************************)

\* What the table of prints may be when one is added: what ended is no longer
\* counted, and nothing else has changed.
EndedAtMost(table) ==
  /\ table \in [Tasks -> PrintRecord]
  /\ \A u \in Tasks :
       /\ table[u].part = prints[u].part /\ table[u].machine = prints[u].machine
       /\ table[u].st = "absent" <=> prints[u].st = "absent"
       /\ table[u].st \in Pending \cup {"finished"} => prints[u].st \in Pending \cup {"finished"}
       /\ table[u].st \in Pending => prints[u].st \in Pending
       /\ table[u].compiling = prints[u].compiling
       /\ Occupied(u) => table[u].st = prints[u].st

\* A commit that adds the print t of the part p.
Inserting(w, t, p, mc, auto, table, ids) ==
  /\ t \in Tasks /\ p \in Parts /\ mc \in Machines /\ auto \in BOOLEAN
  /\ EndedAtMost(table)
  /\ prints[t].st = "absent" /\ parts[p].pkg # NoPkg
  /\ InsertPrint(w, t, p, mc, auto, table)
  /\ p \notin raced => Cardinality(Ordered(p)) < peak[p]
  /\ Keep(w, NoTx, ids, TRUE)
  /\ txs[w].op \notin Deleting \cup Cancelling \cup {"none"}
  /\ \A v \in Writers \ {w} : txs[v].op = "settle" =>
       /\ txs[v].task \notin ids /\ table[txs[v].task] = prints[txs[v].task]
       /\ outcome'[txs[v].task] = outcome[txs[v].task]
  /\ \A u \in Tasks \ {t} : PrintOK(u)'
  /\ outcome' \in [Tasks -> {"none"} \cup Final] /\ outcome'[t] = outcome[t]
  /\ UNCHANGED <<parts, pkgs, live, peak, resent>>

LEMMA InsertSafe ==
  ASSUME QueueInv, NEW w \in Writers, NEW t, NEW p, NEW mc, NEW auto, NEW table, NEW ids,
         Inserting(w, t, p, mc, auto, table, ids)
  PROVE  QueueInv'
<1> USE DEF Inserting
<1>1. /\ prints' = [table EXCEPT ![t] = [part |-> p, st |-> "created", machine |-> mc,
                                         auto |-> auto, compiling |-> TRUE, fresh |-> TRUE,
                                         late |-> FALSE]]
      /\ raced \subseteq raced' /\ escaped \subseteq escaped'
      /\ \A v \in Writers \ {w} : txs[v].op = "print" /\ txs[v].part = p => p \in raced'
      /\ \A v \in Writers : p \in txs[v].doomed => t \in escaped'
      /\ raced' \subseteq raced \cup {p} /\ escaped' \subseteq escaped \cup {t}
  BY DEF InsertPrint
<1>2. /\ prints'[t].part = p /\ prints'[t].st = "created" /\ prints'[t].machine = mc
      /\ prints'[t].compiling = TRUE /\ prints'[t].fresh = TRUE
      /\ prints' \in [Tasks -> PrintRecord]
      /\ \A u \in Tasks \ {t} : prints'[u] = table[u]
  BY <1>1 DEF EndedAtMost, PrintRecord, Pending
<1>3. PrintOK(t) /\ t \notin live /\ outcome[t] = "none" /\ ~prints[t].compiling
  BY DEF QueueInv, PrintOK
<1>4. TablesOK'
  <2>1. \A q : PartOK(q)' <=> PartOK(q)
    BY DEF PartOK, TotalPrints
  <2>2. \A k : PackageOK(k)' <=> PackageOK(k)
    BY DEF PackageOK
  <2>3. QED BY <1>1, <1>2, <2>1, <2>2 DEF QueueInv, TablesOK
<1>5. PartsKept
  BY DEF PartsKept, PartsThere, QueueInv, TablesOK
<1>6. PrintsKept
  BY <1>2 DEF PrintsKept, EndedAtMost
<1>7. NoneRevived
  <2>1. ASSUME NEW u \in Tasks \ {t}
        PROVE  (Occupied(u)' <=> Occupied(u)) /\ (Occupied(u) => prints'[u].st = prints[u].st)
    BY <1>2 DEF Occupied, EndedAtMost
  <2>2. ~Occupied(t) /\ prints'[t].st \in Pending
    BY <1>2, <1>3 DEF Occupied, Pending
  <2>3. t \notin escaped' => \A c \in Clients : prints'[t].part \notin txs[c].doomed
    BY <1>1, <1>2 DEF Writers
  <2>4. QED BY <2>1, <2>2, <2>3 DEF NoneRevived
<1>8. ASSUME NEW q
      PROVE  /\ q # p => Cardinality(Ordered(q)') <= Cardinality(Ordered(q))
             /\ Cardinality(Ordered(q)') <= Cardinality(Ordered(q)) + 1
  <2>1. q # p => Counted(q)' \subseteq Counted(q)
    BY <1>2 DEF Counted, Printed, EndedAtMost
  <2>2. Counted(q)' \subseteq Counted(q) \cup {t}
    BY <1>2 DEF Counted, Printed, EndedAtMost
  <2>3. /\ q # p => Ordered(q)' \subseteq Ordered(q)
        /\ Ordered(q)' \subseteq Ordered(q) \cup {t}
    BY <2>1, <2>2 DEF Ordered
  <2>4. QED BY <2>3, OrderedFinite
<1>9. DOMAIN txs' = Writers /\ Touched(w, ids, TRUE) /\ txs'[w] = NoTx
  BY KeepTouches
<1>10. ASSUME NEW v \in Writers \ {w}
       PROVE  /\ SameTx(txs[v], txs'[v])
              /\ txs'[v].held \subseteq txs[v].held
              /\ txs[v].op # "none" => txs'[v].held = txs[v].held \ ids
              /\ txs[v].op # "none" => txs'[v].crossed
  <2>1. PICK yes : yes = TRUE /\ Touched(w, ids, yes)
    BY <1>9
  <2>2. yes \in BOOLEAN
    BY <2>1
  <2>3. SameTx(txs[v], txs'[v])
    BY <2>1, <2>2, TouchedKeeps
  <2>4. txs'[v].held \subseteq txs[v].held
    BY <2>1, <2>2, TouchedKeeps
  <2>5. ASSUME txs[v].op # "none"
        PROVE  txs'[v].held = txs[v].held \ ids /\ txs'[v].crossed
    <3>1. "held" \in DOMAIN txs[v] /\ "crossed" \in DOMAIN txs[v]
      BY DEF QueueInv, TxOK, NoTx
    <3>2. txs'[v] = [txs[v] EXCEPT !.held = @ \ ids, !.crossed = @ \/ TRUE]
      BY <1>9, <2>5 DEF Touched
    <3>3. QED BY <3>1, <3>2
  <2>6. QED BY <2>3, <2>4, <2>5
<1>11. ASSUME NEW v \in Writers \ {w}, txs[v].op = "settle"
       PROVE  /\ prints'[txs[v].task].st \in Pending /\ txs[v].task \in txs'[v].held
              /\ outcome'[txs[v].task] = outcome[txs[v].task]
  <2>1. PICK u \in Tasks : u = txs[v].task
    BY <1>11 DEF QueueInv, TxOK, SettleTxOK
  <2>2. prints[u].st \in Pending /\ u \in txs[v].held
    BY <1>11, <2>1 DEF QueueInv, TxOK, SettleTxOK
  <2>3. u # t
    BY <2>2 DEF Pending
  <2>4. table[u] = prints[u] /\ u \notin ids /\ outcome'[u] = outcome[u]
    BY <1>11, <2>1
  <2>5. QED BY <1>2, <1>10, <1>11, <2>1, <2>2, <2>3, <2>4
<1>12. OthersKept(w)
  <2>1. ASSUME NEW v \in Writers \ {w}, txs[v].op = "print", NEW q \in Parts \ raced',
               q = txs[v].part
        PROVE  Cardinality(Ordered(q)') <= Cardinality(Ordered(q))
    <3>1. q # p
      BY <1>1, <2>1
    <3>2. QED BY <1>8, <3>1
  <2>2. QED BY <1>10, <1>11, <2>1 DEF OthersKept
<1>13. \A v \in Writers : TxOK(v)'
  <2>1. \A v \in Writers \ {w} : TxOK(v)'
    BY <1>1, <1>4, <1>5, <1>6, <1>12, OthersStay DEF PartsKept
  <2>2. TxOK(w)'
    BY <1>9, NewTx DEF NoTx
  <2>3. QED BY <2>1, <2>2
<1>14. StopsOK'
  <2>1. NotDeleting(txs[w]) /\ NotDeleting(txs'[w])
    BY <1>9, NothingToDelete DEF NotDeleting, NoTx
  <2>2. QED BY <1>1, <1>4, <1>5, <1>6, <1>7, <1>12, <2>1, StopsStay
<1>15. \A u \in Tasks : PrintOK(u)'
  <2>1. PrintOK(t)'
    BY <1>2, <1>3 DEF PrintOK
  <2>2. QED BY <2>1
<1>16. QuantityRespected'
  <2>1. \A q \in Parts \ raced : Cardinality(Ordered(q)) <= peak[q]
    BY DEF QueueInv, QuantityRespected, Ordered, Counted
  <2>2. \A q \in Parts \ raced' : Cardinality(Ordered(q)') <= peak[q]
    <3>1. \A q \in Parts : peak[q] \in Nat
      BY DEF QueueInv, TablesOK
    <3>2. \A q \in Parts \ raced' : q # p => Cardinality(Ordered(q)') <= peak[q]
      BY <1>1, <1>8, <2>1, <3>1, OrderedFinite
    <3>3. p \notin raced' => Cardinality(Ordered(p)') <= peak[p]
      BY <1>1, <1>8, <3>1, OrderedFinite
    <3>4. QED BY <3>2, <3>3
  <2>3. QED BY <2>2 DEF QuantityRespected, Ordered, Counted
<1>17. QED BY <1>4, <1>9, <1>13, <1>14, <1>15, <1>16 DEF QueueInv

LEMMA CommitPrintSafe ==
  ASSUME QueueInv, NEW c \in Clients, NEW t \in Tasks, CommitPrint(c, t)
  PROVE  QueueInv'
<1>1. /\ txs[c].op = "print" /\ c \in Writers /\ prints[t].st = "absent"
      /\ UNCHANGED <<parts, pkgs, live, outcome, peak, resent>>
  BY DEF CommitPrint, NewPrint, Writers
<1>2. PrintTxOK(txs[c])
  BY <1>1 DEF QueueInv, TxOK
<1>3. PICK p \in Parts : p = txs[c].part
  BY <1>2 DEF PrintTxOK
<1>4. PICK mc \in Machines : mc = txs[c].machine
  BY <1>2 DEF PrintTxOK
<1>5. PICK table, no : table = prints /\ no = FALSE /\ InsertPrint(c, t, p, mc, no, table)
  BY <1>3, <1>4 DEF CommitPrint
<1>6. PICK ids : ids = {} /\ Keep(c, NoTx, ids, TRUE)
  BY DEF CommitPrint, Close
<1>7. EndedAtMost(table)
  BY <1>5 DEF EndedAtMost, QueueInv, TablesOK
<1>8. parts[p].pkg # NoPkg /\ (p \notin raced => Cardinality(Ordered(p)) < peak[p])
  BY <1>2, <1>3 DEF PrintTxOK
<1>9. \A u \in Tasks \ {t} : PrintOK(u)'
  <2>1. \A u \in Tasks \ {t} : prints'[u] = prints[u]
    BY <1>5 DEF InsertPrint, QueueInv, TablesOK
  <2>2. QED BY <1>1, <2>1 DEF QueueInv, PrintOK
<1>10. txs[c].op \notin Deleting \cup Cancelling \cup {"none"}
  BY <1>1 DEF Deleting, Cancelling
<1>11. outcome' \in [Tasks -> {"none"} \cup Final] /\ no \in BOOLEAN
  BY <1>1, <1>5 DEF QueueInv, TablesOK
<1>12. \A v \in Writers \ {c} : txs[v].op = "settle" =>
         /\ txs[v].task \notin ids /\ table[txs[v].task] = prints[txs[v].task]
         /\ outcome'[txs[v].task] = outcome[txs[v].task]
  BY <1>1, <1>5, <1>6
<1>13. Inserting(c, t, p, mc, no, table, ids)
  BY <1>1, <1>5, <1>6, <1>7, <1>8, <1>9, <1>10, <1>11, <1>12 DEF Inserting
<1>14. QED BY <1>1, <1>13, InsertSafe

\* Only one machine settles a print.
LEMMA CommitSettleSafe ==
  ASSUME QueueInv, NEW mc \in Machines, NEW t \in Tasks, CommitSettle(mc, t)
  PROVE  QueueInv'
<1>1. /\ txs[mc].op = "settle" /\ mc \in Writers
      /\ UNCHANGED <<parts, pkgs, live, peak, tangled, resent>>
  BY DEF CommitSettle, Writers
<1>2. SettleTxOK(mc, txs[mc])
  BY <1>1 DEF QueueInv, TxOK
<1>3. PICK u \in Tasks : u = txs[mc].task
  BY <1>2 DEF SettleTxOK
<1>4. /\ outcome[u] \in Final /\ prints[u].st \in Pending /\ u \in txs[mc].held
      /\ prints[u].machine = mc
  BY <1>2, <1>3 DEF SettleTxOK
<1>5. PICK ids : ids = {u} \cap txs[mc].held
  OBVIOUS
<1>6. ids = {u} /\ Keep(mc, NoTx, ids, txs[mc].part # NoPart)
  BY <1>3, <1>4, <1>5 DEF CommitSettle, Close
<1>7. PICK table : table = Rewrite(u, outcome[u], prints) /\ table = Settled(mc)
  BY <1>3, <1>4 DEF Settled, Update
<1>8. outcome' = [outcome EXCEPT ![u] = "none"]
  BY <1>3 DEF CommitSettle
<1>9. prints \in [Tasks -> PrintRecord] /\ outcome \in [Tasks -> {"none"} \cup Final]
  BY DEF QueueInv, TablesOK
<1>10. /\ table \in [Tasks -> PrintRecord]
       /\ table[u].part = prints[u].part /\ table[u].machine = prints[u].machine
       /\ table[u].st = outcome[u] /\ table[u].fresh = FALSE
       /\ table[u].compiling = prints[u].compiling
       /\ \A v \in Tasks \ {u} : table[v] = prints[v]
  <2>1. prints[u] \in PrintRecord /\ outcome[u] \in Final
    BY <1>4, <1>9
  <2>2. PICK row : row = [prints[u] EXCEPT !.st = outcome[u], !.fresh = FALSE,
                                           !.late = prints[u].fresh]
    OBVIOUS
  <2>3. /\ row \in PrintRecord /\ row.part = prints[u].part /\ row.machine = prints[u].machine
        /\ row.st = outcome[u] /\ row.fresh = FALSE /\ row.compiling = prints[u].compiling
    BY <2>1, <2>2 DEF PrintRecord
  <2>4. table = [prints EXCEPT ![u] = row]
    BY <1>7, <2>2 DEF Rewrite
  <2>5. QED BY <1>9, <2>3, <2>4
<1>11. /\ outcome' \in [Tasks -> {"none"} \cup Final] /\ outcome'[u] = "none"
       /\ \A v \in Tasks \ {u} : outcome'[v] = outcome[v]
  BY <1>8, <1>9
<1>12. /\ PrintOK(u) /\ ~Occupied(u) /\ prints[u].st # "absent"
       /\ u \notin live /\ ~prints[u].compiling
  <2>1. PrintOK(u) /\ outcome[u] # "none"
    BY <1>4 DEF QueueInv, Final
  <2>2. QED BY <1>4, <2>1 DEF PrintOK, Occupied, Pending
<1>13. /\ outcome[u] # "absent" /\ outcome[u] \notin Pending
       /\ prints[u].st \in Pending \cup {"finished"}
  BY <1>4 DEF Final, Pending
<1>14. \A v \in Writers \ {mc} : txs[v].op = "settle" => txs[v].task \in Tasks \ {u}
  BY <1>4 DEF QueueInv, TxOK, SettleTxOK
<1>15. CASE txs[mc].part = NoPart
  <2>1. prints' = table /\ UNCHANGED <<raced, escaped>>
    BY <1>7, <1>15 DEF CommitSettle
  <2>2. Keep(mc, NoTx, {u}, FALSE)
    BY <1>6, <1>15
  <2>3. DOMAIN txs' = Writers /\ Touched(mc, {u}, FALSE) /\ txs'[mc] = NoTx
    BY <1>1, <2>2, KeepTouches
  <2>4. TxOK(mc)'
    BY <2>3, NewTx DEF NoTx
  <2>5. NotSettled(mc, u)
    BY <1>14 DEF NotSettled, Writers
  <2>6. PrintOK(u)'
    BY <1>1, <1>10, <1>11, <1>12, <1>13, <2>1 DEF PrintOK
  <2>7. ~Occupied(u)' /\ u \notin live'
    BY <1>1, <1>10, <1>12, <2>1 DEF Occupied
  <2>8. live' \subseteq Tasks
    BY <1>1 DEF QueueInv, TablesOK
  <2>9. UNCHANGED <<parts, pkgs, queueHistory>>
    BY <1>1, <2>1 DEF queueHistory
  <2>10. /\ prints' \in [Tasks -> PrintRecord] /\ prints'[u].part = prints[u].part
         /\ prints'[u].machine = prints[u].machine /\ prints'[u].st # "absent"
         /\ prints[u].st \in Pending \cup {"finished"}
         /\ \A v \in Tasks \ {u} : /\ prints'[v] = prints[v] /\ outcome'[v] = outcome[v]
                                   /\ v \in live' <=> v \in live
    BY <1>1, <1>10, <1>11, <1>13, <2>1
  <2>11. OnePrintChanges(mc, u)
    BY <1>11, <1>12, <2>3, <2>5, <2>6, <2>8, <2>9, <2>10 DEF OnePrintChanges
  <2>12. QED BY <2>4, <2>7, <2>11, OnePrintSafe
<1>16. CASE txs[mc].part # NoPart
  <2>1. PICK p \in Parts : p = txs[mc].part /\ parts[p].pkg # NoPkg
    BY <1>2, <1>16 DEF SettleTxOK
  <2>2. InsertPrint(mc, t, p, mc, TRUE, table)
    BY <1>7, <1>16, <2>1 DEF CommitSettle
  <2>4. prints[t].st = "absent" /\ MayPrint(p)
    BY <1>16, <2>1 DEF CommitSettle, NewPrint
  <2>5. p \notin raced => Cardinality(Ordered(p)) < peak[p]
    BY <2>1, <2>4, MayPrintOrdered DEF QueueInv
  <2>6. EndedAtMost(table)
    <3>1. \A v \in Tasks \ {u} : table[v] = prints[v]
      BY <1>10
    <3>2. QED BY <1>10, <1>12, <1>13, <3>1 DEF EndedAtMost
  <2>7. Keep(mc, NoTx, ids, TRUE)
    BY <1>6, <1>16
  <2>8. txs[mc].op \notin Deleting \cup Cancelling \cup {"none"}
    BY <1>1 DEF Deleting, Cancelling
  <2>9. t # u
    BY <1>12, <2>4
  <2>10. \A v \in Tasks \ {t} : prints'[v] = table[v]
    BY <1>10, <2>2 DEF InsertPrint, EndedAtMost
  <2>11. ASSUME NEW v \in Tasks \ {t}
         PROVE  PrintOK(v)'
    <3>1. CASE v = u
      BY <1>1, <1>10, <1>11, <1>12, <1>13, <2>10, <3>1 DEF PrintOK
    <3>2. CASE v # u
      <4>1. PrintOK(v) /\ prints'[v] = prints[v] /\ outcome'[v] = outcome[v]
        BY <1>10, <1>11, <2>10, <3>2 DEF QueueInv
      <4>2. QED BY <1>1, <4>1 DEF PrintOK
    <3>3. QED BY <3>1, <3>2
  <2>12. outcome'[t] = outcome[t]
    BY <1>11, <2>9
  <2>13. \A v \in Writers \ {mc} : txs[v].op = "settle" =>
           /\ txs[v].task \notin ids /\ table[txs[v].task] = prints[txs[v].task]
           /\ outcome'[txs[v].task] = outcome[txs[v].task]
    BY <1>6, <1>10, <1>11, <1>14
  <2>14. Inserting(mc, t, p, mc, TRUE, table, ids)
    BY <1>1, <1>11, <2>1, <2>2, <2>4, <2>5, <2>6, <2>7, <2>8, <2>11, <2>12, <2>13 DEF Inserting
  <2>15. QED BY <1>1, <2>14, InsertSafe
<1>17. QED BY <1>15, <1>16

-----------------------------------------------------------------------------
(***************************************************************************)
(* Deletions.                                                              *)
(***************************************************************************)

\* All that a deletion reads: the parts, and the prints of them and of parts that
\* are deleted already.
LEMMA BeginDeletion ==
  ASSUME QueueInv, NEW c \in Clients, txs[c].op = "none", NEW tx, txs' = [txs EXCEPT ![c] = tx],
         UNCHANGED <<tables, live, outcome, queueHistory>>,
         DOMAIN tx = DOMAIN NoTx, tx.op \in Deleting, tx.pkg \in Packages \cup {NoPkg},
         tx.doomed \subseteq LiveParts, tx.halt = {},
         NEW ps, tx.todo = PendingOf(ps), tx.doomed \subseteq ps,
         \A p \in ps : p \in tx.doomed \/ parts[p].gone
  PROVE  QueueInv'
<1> USE DEF tables, queueHistory
<1>1. /\ c \in Writers /\ txs'[c] = tx /\ DOMAIN txs' = Writers
      /\ \A v \in Writers \ {c} : txs'[v] = txs[v]
  BY DEF QueueInv, Writers
<1>2. TablesOK' /\ PartsKept /\ OthersKept(c)
  BY <1>1, BeginKeeps
<1>3. PrintsKept
  BY DEF PrintsKept
<1>4. \A t \in tx.todo : /\ t \in Tasks /\ prints[t].st \in Pending
                         /\ prints[t].part \in tx.doomed \/ Gone(t)
  BY DEF PendingOf, Gone
<1>5. TxOK(c)'
  <2>1. \A t \in tx.todo \cup tx.halt : t \in Tasks /\ prints'[t].st # "absent"
    BY <1>4 DEF Pending
  <2>2. tx.doomed \subseteq Parts
    BY DEF LiveParts
  <2>3. QED BY <1>1, <2>1, <2>2 DEF TxOK, Deleting, Cancelling
<1>6. \A v \in Writers : TxOK(v)'
  BY <1>1, <1>2, <1>3, <1>5, OthersStay DEF PartsKept
<1>7. \A t \in Tasks : PrintOK(t)'
  BY DEF QueueInv, PrintOK
<1>8. QuantityRespected'
  BY DEF QueueInv, QuantityRespected, Printed, queueHistory
<1>9. \A t : (Gone(t)' <=> Gone(t)) /\ (Occupied(t)' <=> Occupied(t))
  BY DEF Gone, Occupied
<1>10. NotDeleting(txs[c])
  BY <1>1, NothingToDelete DEF Deleting, Cancelling
<1>11. \A t \in live' \ escaped' : Gone(t)' => Handled(t)'
  BY <1>1, <1>9, <1>10 DEF QueueInv, StopsOK, Handled, NotDeleting, Writers
<1>12. \A t \in Tasks \ escaped' : Occupied(t)' /\ prints'[t].st \notin Pending => Gone(t)'
  BY <1>9 DEF QueueInv, StopsOK
<1>13. ASSUME NEW d \in Clients, NEW t \in Tasks \ escaped',
              txs'[d].op \in Deleting, prints'[t].part \in txs'[d].doomed, Occupied(t)'
       PROVE  t \in txs'[d].todo
  <2>1. CASE d # c
    BY <1>1, <1>9, <1>13, <2>1 DEF QueueInv, StopsOK, Writers
  <2>2. CASE d = c
    <3>1. prints[t].part \in tx.doomed /\ ~Gone(t) /\ Occupied(t)
      BY <1>1, <1>9, <1>13, <2>2 DEF Gone, LiveParts
    <3>2. prints[t].st \in Pending
      BY <3>1 DEF QueueInv, StopsOK
    <3>3. QED BY <1>1, <2>2, <3>1, <3>2 DEF PendingOf
  <2>3. QED BY <2>1, <2>2
<1>14. ASSUME NEW d \in Clients, NEW t \in txs'[d].todo \cup txs'[d].halt
       PROVE  /\ txs'[d].op \in Cancelling => t \in escaped' \/ Gone(t)'
              /\ txs'[d].op \in Deleting => prints'[t].part \in txs'[d].doomed \/ Gone(t)'
  <2>1. CASE d # c
    BY <1>1, <1>9, <1>14, <2>1 DEF QueueInv, StopsOK, Writers
  <2>2. CASE d = c
    <3>1. t \in tx.todo /\ tx.op \notin Cancelling
      BY <1>1, <1>14, <2>2 DEF Deleting, Cancelling
    <3>2. QED BY <1>1, <1>4, <1>9, <2>2, <3>1
  <2>3. QED BY <2>1, <2>2
<1>15. StopsOK'
  BY <1>11, <1>12, <1>13, <1>14 DEF StopsOK
<1>16. QED BY <1>1, <1>2, <1>6, <1>7, <1>8, <1>15 DEF QueueInv

LEMMA BeginDeletePartsSafe ==
  ASSUME QueueInv, NEW c \in Clients, NEW ps \in SUBSET Parts, BeginDeleteParts(c, ps)
  PROVE  QueueInv'
<1>1. PICK tx : /\ tx = [NoTx EXCEPT !.op = "deleteParts", !.doomed = ps, !.todo = PendingOf(ps),
                                     !.held = ps \cup PendingOf(ps)]
                /\ txs[c].op = "none" /\ txs' = [txs EXCEPT ![c] = tx]
                /\ UNCHANGED <<tables, live, outcome, queueHistory>>
                /\ ps \subseteq LiveParts
  BY DEF BeginDeleteParts, Op, Begin, tables, queueHistory
<1>2. /\ DOMAIN tx = DOMAIN NoTx /\ tx.op \in Deleting /\ tx.pkg \in Packages \cup {NoPkg}
      /\ tx.doomed = ps /\ tx.halt = {} /\ tx.todo = PendingOf(ps)
  BY <1>1 DEF NoTx, Deleting
<1>3. QED BY <1>1, <1>2, BeginDeletion

LEMMA BeginDeletePackageSafe ==
  ASSUME QueueInv, NEW c \in Clients, NEW k \in Packages, BeginDeletePackage(c, k)
  PROVE  QueueInv'
<1>1. PICK ps : ps = {p \in Parts : parts[p].pkg = k}
  OBVIOUS
<1>2. PICK tx : /\ tx = [NoTx EXCEPT !.op = "deletePackage", !.pkg = k,
                                     !.doomed = PackageParts(k), !.todo = PendingOf(ps),
                                     !.held = {k} \cup PackageParts(k) \cup PendingOf(ps)]
                /\ txs[c].op = "none" /\ txs' = [txs EXCEPT ![c] = tx]
                /\ UNCHANGED <<tables, live, outcome, queueHistory>>
  BY <1>1 DEF BeginDeletePackage, Op, Begin, tables, queueHistory
<1>3. /\ DOMAIN tx = DOMAIN NoTx /\ tx.op \in Deleting /\ tx.pkg \in Packages \cup {NoPkg}
      /\ tx.doomed = PackageParts(k) /\ tx.halt = {} /\ tx.todo = PendingOf(ps)
  BY <1>2 DEF NoTx, Deleting
<1>4. tx.doomed \subseteq LiveParts /\ tx.doomed \subseteq ps
  BY <1>1, <1>3 DEF PackageParts, LiveParts
<1>5. \A p \in ps : p \in tx.doomed \/ parts[p].gone
  BY <1>1, <1>3, QueueAssumption DEF PackageParts, LiveParts
<1>6. QED BY <1>2, <1>3, <1>4, <1>5, BeginDeletion

LEMMA CommitDeleteSafe ==
  ASSUME QueueInv, NEW c \in Clients, CommitDelete(c)
  PROVE  QueueInv'
<1>1. PICK tx : tx = txs[c]
  OBVIOUS
<1>2. PICK rows : rows = (tx.doomed \cup {tx.pkg}) \cap tx.held
  OBVIOUS
<1>3. PICK next : next = [tx EXCEPT !.op = IF @ = "deleteParts" THEN "cancelAll" ELSE "cancelEach",
                                    !.doomed = {}]
  OBVIOUS
<1>4. PICK left : left = IF tx.todo = {} THEN NoTx ELSE next
  OBVIOUS
<1>5. /\ tx.op \in Deleting /\ c \in Writers
      /\ parts' = [p \in Parts |-> IF p \in rows THEN [parts[p] EXCEPT !.gone = TRUE] ELSE parts[p]]
      /\ pkgs' = [k \in Packages |-> IF k \in rows THEN [pkgs[k] EXCEPT !.state = "gone"]
                                     ELSE pkgs[k]]
      /\ escaped' = escaped \cup {t \in tx.todo : prints[t].part \in tx.doomed \ rows}
      /\ UNCHANGED <<prints, live, outcome, peak, raced, resent>>
  BY <1>1, <1>2 DEF CommitDelete, Deleting, Writers
<1>6. Keep(c, left, rows, TRUE)
  BY <1>1, <1>2, <1>3, <1>4 DEF CommitDelete
<1>7. TxOK(c)
  BY <1>5 DEF QueueInv
<1>8. /\ DOMAIN tx = DOMAIN NoTx /\ tx.pkg \in Packages \cup {NoPkg}
      /\ tx.doomed \subseteq Parts /\ tx.todo \subseteq Tasks /\ tx.halt = {}
      /\ \A t \in tx.todo : prints[t].st # "absent"
  BY <1>1, <1>5, <1>7 DEF TxOK, Deleting, Cancelling
<1>9. rows \cap Tasks = {} /\ rows \cap Parts \subseteq tx.doomed
  BY <1>2, <1>8, QueueAssumption
<1>10. /\ DOMAIN left = DOMAIN NoTx /\ left.doomed = {} /\ left.halt = {} /\ left.todo = tx.todo
       /\ left.op \in Cancelling \cup {"none"} /\ left.pkg \in Packages \cup {NoPkg}
       /\ tx.todo # {} => left.op \in Cancelling
  <2>1. CASE tx.todo = {}
    BY <1>4, <2>1 DEF NoTx
  <2>2. CASE tx.todo # {}
    <3>1. /\ next.doomed = {} /\ next.halt = tx.halt /\ next.todo = tx.todo
          /\ next.op \in Cancelling /\ next.pkg = tx.pkg /\ DOMAIN next = DOMAIN tx
      BY <1>3, <1>8 DEF NoTx, Cancelling
    <3>2. QED BY <1>4, <1>8, <2>2, <3>1
  <2>3. QED BY <2>1, <2>2
<1>11. DOMAIN txs' = Writers /\ Touched(c, rows, TRUE) /\ txs'[c] = left
  BY <1>1, <1>5, <1>6, KeepTouches DEF Deleting
<1>12. OthersKept(c)
  <2>1. UNCHANGED <<prints, outcome, resent>>
    BY <1>5
  <2>2. QED BY <1>9, <1>11, <2>1, EditOthers
<1>13. ASSUME NEW p \in Parts
       PROVE  /\ DOMAIN parts'[p] = DOMAIN parts[p]
              /\ parts'[p].pkg = parts[p].pkg /\ parts'[p].quantity = parts[p].quantity
              /\ parts'[p].gone = (parts[p].gone \/ p \in rows)
              /\ parts'[p].gone \in BOOLEAN
  <2>1. DOMAIN parts[p] = {"pkg", "position", "quantity", "gone"} /\ parts[p].gone \in BOOLEAN
    BY DEF QueueInv, TablesOK, PartOK
  <2>2. QED BY <1>5, <2>1
<1>14. ASSUME NEW k \in Packages
       PROVE  /\ DOMAIN pkgs'[k] = DOMAIN pkgs[k] /\ pkgs'[k].quantity = pkgs[k].quantity
              /\ pkgs[k].state # "absent" => pkgs'[k].state # "absent"
  <2>1. DOMAIN pkgs[k] = {"state", "quantity", "starred", "based", "from"}
    BY DEF QueueInv, TablesOK, PackageOK
  <2>2. QED BY <1>5, <2>1
<1>15. TablesOK'
  <2>1. ASSUME NEW p \in Parts
        PROVE  PartOK(p)'
    <3>1. PartOK(p)
      BY DEF QueueInv, TablesOK
    <3>2. parts[p].pkg # NoPkg => TotalPrints(p)' = TotalPrints(p)
      BY <1>13, <1>14, <3>1 DEF PartOK, TotalPrints
    <3>3. QED BY <1>5, <1>13, <1>14, <3>1, <3>2 DEF PartOK
  <2>2. \A k \in Packages : PackageOK(k)'
    BY <1>14 DEF QueueInv, TablesOK, PackageOK
  <2>3. escaped' \subseteq Tasks
    BY <1>5, <1>8 DEF QueueInv, TablesOK
  <2>4. QED BY <1>5, <2>1, <2>2, <2>3 DEF QueueInv, TablesOK
<1>16. PartsThere /\ PrintsKept
  BY <1>5, <1>13 DEF PartsThere, PrintsKept, QueueInv, TablesOK
<1>17. \A v \in Writers : TxOK(v)'
  <2>1. \A v \in Writers \ {c} : TxOK(v)'
    BY <1>5, <1>12, <1>15, <1>16, OthersStay
  <2>2. TxOK(c)'
    BY <1>5, <1>8, <1>10, <1>11 DEF TxOK, Deleting, Cancelling
  <2>3. QED BY <2>1, <2>2
<1>18. \A t \in Tasks : PrintOK(t)'
  BY <1>5, <1>13 DEF QueueInv, PrintOK
<1>19. QuantityRespected'
  BY <1>5 DEF QueueInv, QuantityRespected, Printed
<1>20. ASSUME NEW t \in Tasks, prints[t].st # "absent"
       PROVE  Gone(t)' <=> Gone(t) \/ prints[t].part \in rows
  BY <1>5, <1>13, <1>20 DEF QueueInv, PrintOK, Gone
<1>21. \A t \in Tasks : Occupied(t) => prints[t].st # "absent" /\ prints[t].part \in Parts
  BY DEF Occupied, QueueInv, PrintOK
<1>22. \A d \in Clients \ {c} :
         /\ txs'[d].op = txs[d].op /\ txs'[d].doomed = txs[d].doomed
         /\ txs'[d].todo = txs[d].todo /\ txs'[d].halt = txs[d].halt
  BY <1>12 DEF OthersKept, SameTx, Fields, Writers
<1>23. \A t : Handled(t) => Handled(t)'
  BY <1>1, <1>8, <1>10, <1>11, <1>22 DEF Handled
<1>24. ASSUME NEW t \in live' \ escaped', Gone(t)'
       PROVE  Handled(t)'
  <2>1. t \in Tasks /\ t \in live \ escaped /\ Occupied(t)
    BY <1>5, <1>24 DEF Occupied, QueueInv, TablesOK
  <2>2. CASE Gone(t)
    BY <1>23, <2>1, <2>2 DEF QueueInv, StopsOK
  <2>3. CASE ~Gone(t)
    <3>1. prints[t].part \in tx.doomed
      BY <1>9, <1>20, <1>21, <1>24, <2>1, <2>3
    <3>2. t \in tx.todo
      BY <1>1, <1>5, <2>1, <3>1 DEF QueueInv, StopsOK
    <3>3. QED BY <1>10, <1>11, <3>2 DEF Handled
  <2>4. QED BY <2>2, <2>3
<1>25. ASSUME NEW t \in Tasks \ escaped', Occupied(t)', prints'[t].st \notin Pending
       PROVE  Gone(t)'
  <2>1. Occupied(t) /\ prints[t].st \notin Pending /\ t \notin escaped
    BY <1>5, <1>25 DEF Occupied
  <2>2. QED BY <1>20, <1>21, <2>1 DEF QueueInv, StopsOK
<1>26. ASSUME NEW d \in Clients, NEW t \in Tasks \ escaped',
              txs'[d].op \in Deleting, prints'[t].part \in txs'[d].doomed, Occupied(t)'
       PROVE  t \in txs'[d].todo
  <2>1. d # c
    BY <1>10, <1>11, <1>26 DEF Deleting, Cancelling
  <2>2. Occupied(t) /\ t \notin escaped
    BY <1>5, <1>26 DEF Occupied
  <2>3. QED BY <1>5, <1>22, <1>26, <2>1, <2>2 DEF QueueInv, StopsOK
<1>27. ASSUME NEW d \in Clients, NEW t \in txs'[d].todo \cup txs'[d].halt
       PROVE  /\ txs'[d].op \in Cancelling => t \in escaped' \/ Gone(t)'
              /\ txs'[d].op \in Deleting => prints'[t].part \in txs'[d].doomed \/ Gone(t)'
  <2>1. CASE d # c
    <3>1. t \in Tasks /\ prints[t].st # "absent"
      BY <1>22, <1>27, <2>1 DEF QueueInv, TxOK, Writers
    <3>2. /\ txs[d].op \in Cancelling => t \in escaped \/ Gone(t)
          /\ txs[d].op \in Deleting => prints[t].part \in txs[d].doomed \/ Gone(t)
      BY <1>22, <1>27, <2>1 DEF QueueInv, StopsOK
    <3>3. QED BY <1>5, <1>20, <1>22, <2>1, <3>1, <3>2
  <2>2. CASE d = c
    <3>1. t \in tx.todo /\ t \in Tasks /\ prints[t].st # "absent"
      BY <1>8, <1>10, <1>11, <1>27, <2>2
    <3>2. prints[t].part \in tx.doomed \/ Gone(t)
      BY <1>1, <1>5, <3>1 DEF QueueInv, StopsOK
    <3>3. t \in escaped' \/ Gone(t)'
      BY <1>5, <1>20, <3>1, <3>2
    <3>4. txs'[d].op \notin Deleting
      BY <1>10, <1>11, <2>2 DEF Deleting, Cancelling
    <3>5. QED BY <3>3, <3>4
  <2>3. QED BY <2>1, <2>2
<1>28. StopsOK'
  BY <1>24, <1>25, <1>26, <1>27 DEF StopsOK
<1>29. QED BY <1>11, <1>15, <1>17, <1>18, <1>19, <1>28 DEF QueueInv

LEMMA CancelPrintSafe ==
  ASSUME QueueInv, NEW c \in Clients, NEW t \in Tasks, CancelPrint(c, t)
  PROVE  QueueInv'
<1>1. PICK tx : tx = txs[c]
  OBVIOUS
<1>2. /\ tx.op \in Cancelling /\ t \in tx.todo /\ c \in Writers /\ NotSettled(NoPart, t)
      /\ UNCHANGED <<parts, pkgs, live, outcome, queueHistory>>
  BY <1>1, IdleNotSettled DEF CancelPrint, Cancelling, Writers
<1>3. PICK next : /\ next = [tx EXCEPT !.todo = @ \ {t}, !.halt = @ \cup {t}]
                  /\ Keep(c, next, {t} \cap tx.held, FALSE)
  BY <1>1 DEF CancelPrint
<1>4. prints' = IF t \in tx.held THEN Rewrite(t, "cancelled", prints) ELSE prints
  BY <1>1 DEF CancelPrint, Update
<1>5. TxOK(c) /\ prints \in [Tasks -> PrintRecord] /\ PrintOK(t)
  BY <1>2 DEF QueueInv, TablesOK
<1>6. /\ DOMAIN tx = DOMAIN NoTx /\ tx.pkg \in Packages \cup {NoPkg}
      /\ tx.doomed = {} /\ tx.todo \subseteq Tasks /\ tx.halt \subseteq Tasks
      /\ \A u \in tx.todo \cup tx.halt : prints[u].st # "absent"
  BY <1>1, <1>2, <1>5 DEF TxOK, Deleting, Cancelling
<1>7. /\ DOMAIN next = DOMAIN NoTx /\ next.op = tx.op /\ next.pkg = tx.pkg
      /\ next.doomed = {} /\ next.todo = tx.todo \ {t} /\ next.halt = tx.halt \cup {t}
  BY <1>3, <1>6 DEF NoTx
<1>8. /\ prints' \in [Tasks -> PrintRecord]
      /\ prints'[t].part = prints[t].part /\ prints'[t].machine = prints[t].machine
      /\ prints'[t].compiling = prints[t].compiling
      /\ \A u \in Tasks \ {t} : prints'[u] = prints[u]
      /\ \/ prints'[t] = prints[t]
         \/ prints'[t].st = "cancelled" /\ prints'[t].fresh = FALSE
  <2>1. CASE t \in tx.held
    BY <1>4, <1>5, <2>1 DEF Rewrite, PrintRecord, Final
  <2>2. CASE t \notin tx.held
    BY <1>4, <1>5, <2>2
  <2>3. QED BY <2>1, <2>2
<1>9. /\ prints'[t].st # "absent" /\ prints[t].st # "absent"
      /\ prints'[t].st \in Pending \cup {"finished"} => prints[t].st \in Pending \cup {"finished"}
  BY <1>2, <1>6, <1>8 DEF Pending
<1>10. PrintOK(t)'
  BY <1>2, <1>5, <1>8, <1>9 DEF PrintOK, Pending
<1>11. \E ids \in {{}, {t}} : Keep(c, next, ids, FALSE)
  <2>1. {t} \cap tx.held \in {{}, {t}}
    OBVIOUS
  <2>2. QED BY <1>3, <2>1
<1>12. PICK ids : ids \in {{}, {t}} /\ Keep(c, next, ids, FALSE)
  BY <1>11
<1>13. tx.op # "none" /\ tx.op \notin Deleting
  BY <1>2 DEF Deleting, Cancelling
<1>14. DOMAIN txs' = Writers /\ Touched(c, ids, FALSE) /\ txs'[c] = next
  BY <1>1, <1>2, <1>12, <1>13, KeepTouches
<1>15. NotSettled(c, t)
  BY <1>2, QueueAssumption DEF NotSettled, Writers
<1>16. OnePrintChanges(c, t)
  <2>1. Touched(c, {t}, FALSE) \/ Touched(c, {}, FALSE)
    BY <1>12, <1>14
  <2>2. live' \subseteq Tasks /\ outcome' \in [Tasks -> {"none"} \cup Final]
    BY <1>2 DEF QueueInv, TablesOK
  <2>3. QED BY <1>2, <1>8, <1>9, <1>10, <1>14, <1>15, <2>1, <2>2 DEF OnePrintChanges
<1>17. /\ TablesOK' /\ PartsKept /\ PrintsKept /\ OthersKept(c)
       /\ \A u \in Tasks : PrintOK(u)'
       /\ QuantityRespected'
  BY <1>16, OnePrintKeeps
<1>18. raced' = raced /\ escaped' = escaped
  BY <1>2 DEF queueHistory
<1>19. \A v \in Writers : TxOK(v)'
  <2>1. \A v \in Writers \ {c} : TxOK(v)'
    BY <1>17, <1>18, OthersStay DEF PartsKept
  <2>2. \A u \in next.todo \cup next.halt : u \in Tasks /\ prints'[u].st # "absent"
    BY <1>6, <1>7, <1>8, <1>9
  <2>3. TxOK(c)'
    BY <1>2, <1>6, <1>7, <1>14, <2>2 DEF TxOK, Deleting, Cancelling
  <2>4. QED BY <2>1, <2>3
<1>20. \A d \in Clients :
         /\ txs'[d].op = txs[d].op /\ txs'[d].doomed = txs[d].doomed
         /\ txs'[d].todo \cup txs'[d].halt = txs[d].todo \cup txs[d].halt
         /\ d # c => txs'[d].todo = txs[d].todo
  <2>1. \A d \in Clients \ {c} :
          /\ txs'[d].op = txs[d].op /\ txs'[d].doomed = txs[d].doomed
          /\ txs'[d].todo = txs[d].todo /\ txs'[d].halt = txs[d].halt
    BY <1>17 DEF OthersKept, SameTx, Fields, Writers
  <2>2. /\ txs'[c].op = txs[c].op /\ txs'[c].doomed = txs[c].doomed
        /\ txs'[c].todo \cup txs'[c].halt = txs[c].todo \cup txs[c].halt
    BY <1>1, <1>2, <1>6, <1>7, <1>14
  <2>3. QED BY <2>1, <2>2
<1>21. \A u : Handled(u)' <=> Handled(u)
  BY <1>20 DEF Handled
<1>22. \A u \in Tasks : /\ Gone(u)' <=> Gone(u)
                        /\ Occupied(u)' => Occupied(u)
                        /\ prints'[u].part = prints[u].part
  BY <1>2, <1>8 DEF Gone, Occupied, Pending
<1>23. t \in escaped \/ Gone(t)
  BY <1>1, <1>2 DEF QueueInv, StopsOK
<1>24. \A u \in live' \ escaped' : Gone(u)' => Handled(u)'
  BY <1>2, <1>18, <1>21, <1>22 DEF QueueInv, StopsOK, TablesOK
<1>25. \A u \in Tasks \ escaped' : Occupied(u)' /\ prints'[u].st \notin Pending => Gone(u)'
  BY <1>8, <1>18, <1>22, <1>23 DEF QueueInv, StopsOK
<1>26. ASSUME NEW d \in Clients, NEW u \in Tasks \ escaped',
              txs'[d].op \in Deleting, prints'[u].part \in txs'[d].doomed, Occupied(u)'
       PROVE  u \in txs'[d].todo
  <2>1. d # c
    BY <1>1, <1>13, <1>20, <1>26
  <2>2. QED BY <1>18, <1>20, <1>22, <1>26, <2>1 DEF QueueInv, StopsOK
<1>27. ASSUME NEW d \in Clients, NEW u \in txs'[d].todo \cup txs'[d].halt
       PROVE  /\ txs'[d].op \in Cancelling => u \in escaped' \/ Gone(u)'
              /\ txs'[d].op \in Deleting => prints'[u].part \in txs'[d].doomed \/ Gone(u)'
  <2>1. u \in txs[d].todo \cup txs[d].halt /\ d \in Writers
    BY <1>20, <1>27 DEF Writers
  <2>2. u \in Tasks
    BY <2>1 DEF QueueInv, TxOK
  <2>3. QED BY <1>18, <1>20, <1>22, <2>1, <2>2 DEF QueueInv, StopsOK
<1>28. StopsOK'
  BY <1>24, <1>25, <1>26, <1>27 DEF StopsOK
<1>29. QED BY <1>14, <1>17, <1>19, <1>28 DEF QueueInv

\* Whatever the machine prints ends at once.
LEMMA StopMachineSafe ==
  ASSUME QueueInv, NEW c \in Clients, NEW t \in Tasks, StopMachine(c, t)
  PROVE  QueueInv'
<1>1. PICK tx : tx = txs[c]
  OBVIOUS
<1>2. PICK stopped : stopped = {u \in live : prints[u].machine = prints[t].machine}
  OBVIOUS
<1>3. PICK next : next = [tx EXCEPT !.halt = @ \ {t}]
  OBVIOUS
<1>4. PICK left : left = IF next.todo = {} /\ next.halt = {} THEN NoTx ELSE next
  OBVIOUS
<1>5. PICK none : none = {} /\ Keep(c, left, none, FALSE)
  BY <1>1, <1>3, <1>4 DEF StopMachine
<1>6. /\ t \in tx.halt /\ c \in Writers
      /\ live' = live \ stopped
      /\ outcome' = [u \in Tasks |-> IF u \in stopped THEN "cancelled" ELSE outcome[u]]
      /\ UNCHANGED <<tables, queueHistory>>
  BY <1>1, <1>2 DEF StopMachine, Writers
<1>7. UNCHANGED <<parts, pkgs, prints, peak, raced, escaped, resent>>
  BY <1>6 DEF tables, queueHistory
<1>8. TxOK(c)
  BY <1>6 DEF QueueInv
<1>9. /\ DOMAIN tx = DOMAIN NoTx /\ tx.pkg \in Packages \cup {NoPkg} /\ tx.op \in Cancelling
      /\ tx.doomed = {} /\ tx.todo \subseteq Tasks /\ tx.halt \subseteq Tasks
      /\ \A u \in tx.todo \cup tx.halt : prints[u].st # "absent"
  BY <1>1, <1>6, <1>8 DEF TxOK, Deleting, Cancelling
<1>10. /\ DOMAIN next = DOMAIN NoTx /\ next.op = tx.op /\ next.pkg = tx.pkg
       /\ next.doomed = {} /\ next.todo = tx.todo /\ next.halt = tx.halt \ {t}
  BY <1>3, <1>9 DEF NoTx
<1>11. /\ DOMAIN left = DOMAIN NoTx /\ left.pkg \in Packages \cup {NoPkg} /\ left.doomed = {}
       /\ left.op \in Cancelling \cup {"none"}
       /\ left.op = "none" => left.todo = {} /\ left.halt = {}
       /\ left.todo = tx.todo /\ left.halt = tx.halt \ {t}
  <2>1. CASE next.todo = {} /\ next.halt = {}
    BY <1>4, <1>10, <2>1 DEF NoTx
  <2>2. CASE ~(next.todo = {} /\ next.halt = {})
    BY <1>4, <1>9, <1>10, <2>2 DEF Cancelling
  <2>3. QED BY <2>1, <2>2
<1>12. tx.op # "none" /\ tx.op \notin Deleting
  BY <1>9 DEF Deleting, Cancelling
<1>13. DOMAIN txs' = Writers /\ Touched(c, none, FALSE) /\ txs'[c] = left
  BY <1>1, <1>5, <1>6, <1>12, KeepTouches
<1>14. \A u \in Tasks : PrintOK(u)'
  <2>1. SUFFICES ASSUME NEW u \in Tasks
                 PROVE  PrintOK(u)'
    OBVIOUS
  <2>2. PrintOK(u) /\ outcome \in [Tasks -> {"none"} \cup Final]
    BY DEF QueueInv, TablesOK
  <2>3. CASE u \in stopped
    <3>1. u \in live /\ u \notin live' /\ outcome'[u] = "cancelled"
      BY <1>2, <1>6, <2>3
    <3>2. QED BY <1>7, <2>2, <3>1 DEF PrintOK
  <2>4. CASE u \notin stopped
    <3>1. (u \in live' <=> u \in live) /\ outcome'[u] = outcome[u]
      BY <1>6, <2>4
    <3>2. QED BY <1>7, <2>2, <3>1 DEF PrintOK
  <2>5. QED BY <2>3, <2>4
<1>15. TablesOK'
  <2>1. \A p : PartOK(p)' <=> PartOK(p)
    BY <1>7 DEF PartOK, TotalPrints
  <2>2. \A k : PackageOK(k)' <=> PackageOK(k)
    BY <1>7 DEF PackageOK
  <2>3. live' \subseteq Tasks /\ outcome' \in [Tasks -> {"none"} \cup Final]
    BY <1>6 DEF QueueInv, TablesOK, Final
  <2>4. QED BY <1>7, <2>1, <2>2, <2>3 DEF QueueInv, TablesOK
<1>16. PartsThere /\ PrintsKept
  BY <1>7 DEF PartsThere, PrintsKept, QueueInv, TablesOK
<1>17. \A p : /\ Cardinality(Ordered(p)') <= Cardinality(Ordered(p))
              /\ MayPrint(p) => MayPrint(p)'
  <2>1. \A p : Ordered(p)' = Ordered(p)
    BY <1>7 DEF Ordered, Counted, Printed
  <2>2. \A p : MayPrint(p)' <=> MayPrint(p)
    BY <1>7 DEF MayPrint, PrintsInProgress, Printed, TotalPrints
  <2>3. QED BY <2>1, <2>2, OrderedFinite
<1>18. ASSUME NEW v \in Writers \ {c}, txs[v].op = "settle"
       PROVE  /\ txs[v].task \in txs[v].held /\ prints[txs[v].task].st \in Pending
              /\ outcome'[txs[v].task] = outcome[txs[v].task]
  <2>1. PICK u \in Tasks : u = txs[v].task
    BY <1>18 DEF QueueInv, TxOK, SettleTxOK
  <2>2. prints[u].st \in Pending /\ outcome[u] \in Final /\ u \in txs[v].held
    BY <1>18, <2>1 DEF QueueInv, TxOK, SettleTxOK
  <2>3. u \notin live
    BY <2>2 DEF QueueInv, PrintOK, Final
  <2>4. QED BY <1>2, <1>6, <2>1, <2>2, <2>3
<1>19. ASSUME NEW v \in Writers \ {c}
       PROVE  /\ SameTx(txs[v], txs'[v])
              /\ txs'[v].held \subseteq txs[v].held
              /\ txs[v].op # "none" => txs'[v].held = txs[v].held
              /\ txs[v].op # "none" /\ ~txs'[v].crossed => ~txs[v].crossed
  <2>1. PICK no : no = FALSE /\ Touched(c, none, no)
    BY <1>13
  <2>2. no \in BOOLEAN
    BY <2>1
  <2>3. SameTx(txs[v], txs'[v])
    BY <2>1, <2>2, TouchedKeeps
  <2>4. txs'[v].held \subseteq txs[v].held
    BY <2>1, <2>2, TouchedKeeps
  <2>5. txs[v].op # "none" => txs'[v].held = txs[v].held \ none
    BY <2>1, <2>2, TouchedKeeps
  <2>6. txs[v].op # "none" /\ ~txs'[v].crossed => ~txs[v].crossed
    BY <2>1, <2>2, TouchedKeeps
  <2>7. QED BY <1>5, <2>3, <2>4, <2>5, <2>6
<1>20. OthersKept(c)
  BY <1>7, <1>17, <1>18, <1>19 DEF OthersKept
<1>21. \A v \in Writers : TxOK(v)'
  <2>1. \A v \in Writers \ {c} : TxOK(v)'
    BY <1>7, <1>15, <1>16, <1>20, OthersStay
  <2>2. TxOK(c)'
    BY <1>7, <1>9, <1>11, <1>13 DEF TxOK, Deleting, Cancelling
  <2>3. QED BY <2>1, <2>2
<1>22. QuantityRespected'
  BY <1>7 DEF QueueInv, QuantityRespected, Printed
<1>23. \A d \in Clients \ {c} :
         /\ txs'[d].op = txs[d].op /\ txs'[d].doomed = txs[d].doomed
         /\ txs'[d].todo = txs[d].todo /\ txs'[d].halt = txs[d].halt
  BY <1>20 DEF OthersKept, SameTx, Fields, Writers
<1>24. /\ \A u : Gone(u)' <=> Gone(u)
       /\ \A u \in Tasks : Occupied(u)' => Occupied(u)
       /\ t \notin live'
  BY <1>2, <1>6, <1>7 DEF Gone, Occupied
<1>25. ASSUME NEW u \in live' \ escaped', Gone(u)'
       PROVE  Handled(u)'
  <2>1. u \in live \ escaped /\ Gone(u) /\ u # t
    BY <1>6, <1>7, <1>24, <1>25
  <2>2. PICK d \in Clients : u \in txs[d].todo \cup txs[d].halt
    BY <2>1 DEF QueueInv, StopsOK, Handled
  <2>3. CASE d # c
    BY <1>23, <2>2, <2>3 DEF Handled
  <2>4. CASE d = c
    BY <1>1, <1>11, <1>13, <2>1, <2>2, <2>4 DEF Handled
  <2>5. QED BY <2>3, <2>4
<1>26. \A u \in Tasks \ escaped' : Occupied(u)' /\ prints'[u].st \notin Pending => Gone(u)'
  BY <1>7, <1>24 DEF QueueInv, StopsOK
<1>27. ASSUME NEW d \in Clients, NEW u \in Tasks \ escaped',
              txs'[d].op \in Deleting, prints'[u].part \in txs'[d].doomed, Occupied(u)'
       PROVE  u \in txs'[d].todo
  <2>1. d # c
    BY <1>11, <1>13, <1>27 DEF Deleting, Cancelling
  <2>2. QED BY <1>7, <1>23, <1>24, <1>27, <2>1 DEF QueueInv, StopsOK
<1>28. ASSUME NEW d \in Clients, NEW u \in txs'[d].todo \cup txs'[d].halt
       PROVE  /\ txs'[d].op \in Cancelling => u \in escaped' \/ Gone(u)'
              /\ txs'[d].op \in Deleting => prints'[u].part \in txs'[d].doomed \/ Gone(u)'
  <2>1. CASE d # c
    BY <1>7, <1>23, <1>24, <1>28, <2>1 DEF QueueInv, StopsOK
  <2>2. CASE d = c
    <3>1. u \in txs[c].todo \cup txs[c].halt /\ txs[c].op \in Cancelling
      BY <1>1, <1>9, <1>11, <1>13, <1>28, <2>2
    <3>2. u \in escaped' \/ Gone(u)'
      BY <1>7, <1>24, <3>1 DEF QueueInv, StopsOK
    <3>3. txs'[d].op \notin Deleting
      BY <1>11, <1>13, <2>2 DEF Deleting, Cancelling
    <3>4. QED BY <3>2, <3>3
  <2>3. QED BY <2>1, <2>2
<1>29. StopsOK'
  BY <1>25, <1>26, <1>27, <1>28 DEF StopsOK
<1>30. QED BY <1>13, <1>14, <1>15, <1>21, <1>22, <1>29 DEF QueueInv

LEMMA DeletionFailsSafe ==
  ASSUME QueueInv, NEW c \in Clients, DeletionFails(c)
  PROVE  QueueInv'
<1>1. /\ txs[c].op \in Cancelling /\ c \in Writers
      /\ escaped' = escaped \cup txs[c].todo \cup txs[c].halt
      /\ UNCHANGED <<parts, pkgs, prints, live, outcome, peak, raced, resent>>
  BY DEF DeletionFails, Cancelling, Writers, tables
<1>2. PICK none : none = {} /\ Keep(c, NoTx, none, FALSE)
  BY DEF DeletionFails, Close
<1>3. DOMAIN txs' = Writers /\ Touched(c, none, FALSE) /\ txs'[c] = NoTx
  BY <1>1, <1>2, KeepTouches DEF Cancelling
<1>4. txs[c].todo \subseteq Tasks /\ txs[c].halt \subseteq Tasks
  BY <1>1 DEF QueueInv, TxOK
<1>5. TablesOK'
  <2>1. \A p : PartOK(p)' <=> PartOK(p)
    BY <1>1 DEF PartOK, TotalPrints
  <2>2. \A k : PackageOK(k)' <=> PackageOK(k)
    BY <1>1 DEF PackageOK
  <2>3. QED BY <1>1, <1>4, <2>1, <2>2 DEF QueueInv, TablesOK
<1>6. PartsThere /\ PrintsKept
  BY <1>1 DEF PartsThere, PrintsKept, QueueInv, TablesOK
<1>7. OthersKept(c)
  <2>1. none \cap Tasks = {} /\ UNCHANGED <<prints, outcome, resent>>
    BY <1>1, <1>2
  <2>2. \A p \in Parts : TotalPrints(p)' = TotalPrints(p)
    BY <1>1 DEF TotalPrints
  <2>3. PICK no : no = FALSE /\ no \in BOOLEAN /\ Touched(c, none, no)
    BY <1>3
  <2>4. QED BY <2>1, <2>2, <2>3, EditOthers
<1>8. \A v \in Writers : TxOK(v)'
  <2>1. \A v \in Writers \ {c} : TxOK(v)'
    BY <1>1, <1>5, <1>6, <1>7, OthersStay
  <2>2. TxOK(c)'
    BY <1>3, NewTx DEF NoTx
  <2>3. QED BY <2>1, <2>2
<1>9. \A t \in Tasks : PrintOK(t)'
  BY <1>1 DEF QueueInv, PrintOK
<1>10. QuantityRespected'
  BY <1>1 DEF QueueInv, QuantityRespected, Printed
<1>11. \A d \in Clients \ {c} :
         /\ txs'[d].op = txs[d].op /\ txs'[d].doomed = txs[d].doomed
         /\ txs'[d].todo = txs[d].todo /\ txs'[d].halt = txs[d].halt
  BY <1>7 DEF OthersKept, SameTx, Fields, Writers
<1>12. \A t : (Gone(t)' <=> Gone(t)) /\ (Occupied(t)' <=> Occupied(t))
  BY <1>1 DEF Gone, Occupied
<1>13. txs'[c].op = "none" /\ txs'[c].todo = {} /\ txs'[c].halt = {}
  BY <1>3 DEF NoTx
<1>14. ASSUME NEW t \in live' \ escaped', Gone(t)'
       PROVE  Handled(t)'
  <2>1. PICK d \in Clients : t \in txs[d].todo \cup txs[d].halt
    BY <1>1, <1>12, <1>14 DEF QueueInv, StopsOK, Handled
  <2>2. d # c
    BY <1>1, <1>14, <2>1
  <2>3. QED BY <1>11, <2>1, <2>2 DEF Handled
<1>15. \A t \in Tasks \ escaped' : Occupied(t)' /\ prints'[t].st \notin Pending => Gone(t)'
  BY <1>1, <1>12 DEF QueueInv, StopsOK
<1>16. ASSUME NEW d \in Clients, NEW t \in Tasks \ escaped',
              txs'[d].op \in Deleting, prints'[t].part \in txs'[d].doomed, Occupied(t)'
       PROVE  t \in txs'[d].todo
  <2>1. d # c
    BY <1>13, <1>16 DEF Deleting
  <2>2. QED BY <1>1, <1>11, <1>12, <1>16, <2>1 DEF QueueInv, StopsOK
<1>17. ASSUME NEW d \in Clients, NEW t \in txs'[d].todo \cup txs'[d].halt
       PROVE  /\ txs'[d].op \in Cancelling => t \in escaped' \/ Gone(t)'
              /\ txs'[d].op \in Deleting => prints'[t].part \in txs'[d].doomed \/ Gone(t)'
  <2>1. d # c
    BY <1>13, <1>17
  <2>2. QED BY <1>1, <1>11, <1>12, <1>17, <2>1 DEF QueueInv, StopsOK
<1>18. StopsOK'
  BY <1>14, <1>15, <1>16, <1>17 DEF StopsOK
<1>19. QED BY <1>3, <1>5, <1>8, <1>9, <1>10, <1>18 DEF QueueInv

-----------------------------------------------------------------------------
(***************************************************************************)
(* The theorems.                                                           *)
(***************************************************************************)
LEMMA InitSafe == QueueInit => QueueInv
<1> SUFFICES ASSUME QueueInit
             PROVE  QueueInv
  OBVIOUS
<1>1. PICK one \in Packages : one = CHOOSE k \in Packages : TRUE
  BY QueueAssumption
<1>2. PICK first \in Parts : first = CHOOSE p \in Parts : TRUE
  BY QueueAssumption
<1>3. PICK second : second = CHOOSE p \in Parts \ {first} : TRUE
  OBVIOUS
<1>4. second \in Parts \ {first}
  BY <1>3, QueueAssumption
<1>5. /\ pkgs = [[k \in Packages |-> NoPackage] EXCEPT
                   ![one] = [NoPackage EXCEPT !.state = "live", !.quantity = 1]]
      /\ parts = [[p \in Parts |-> Absent] EXCEPT
                    ![first] = [pkg |-> one, position |-> 0, quantity |-> 1, gone |-> FALSE],
                    ![second] = [pkg |-> one, position |-> 1, quantity |-> 1, gone |-> FALSE]]
      /\ peak = [p \in Parts |-> IF p \in {first, second} THEN 1 ELSE 0]
      /\ prints = [t \in Tasks |-> NoPrint]
      /\ live = {} /\ outcome = [t \in Tasks |-> "none"]
      /\ txs = [w \in Writers |-> NoTx]
      /\ raced = {} /\ escaped = {} /\ resent = {}
  BY <1>1, <1>2, <1>3 DEF QueueInit
<1>6. \A k \in Packages : PackageOK(k)
  BY <1>5 DEF PackageOK, NoPackage
<1>7. pkgs[one].state = "live" /\ pkgs[one].quantity = 1
  BY <1>5 DEF NoPackage
<1>8. ASSUME NEW p \in Parts
      PROVE  PartOK(p) /\ peak[p] \in Nat
  <2>1. CASE p \in {first, second}
    <3>1. /\ DOMAIN parts[p] = {"pkg", "position", "quantity", "gone"}
          /\ parts[p].pkg = one /\ parts[p].quantity = 1 /\ parts[p].gone = FALSE
          /\ peak[p] = 1
      BY <1>4, <1>5, <2>1
    <3>2. TotalPrints(p) = 1
      BY <1>7, <3>1 DEF TotalPrints
    <3>3. TotalPrints(p) <= peak[p] /\ peak[p] \in Nat
      BY <3>1, <3>2
    <3>4. pkgs[parts[p].pkg].state # "absent"
      BY <1>7, <3>1
    <3>5. parts[p].pkg \in Packages \cup {NoPkg} /\ parts[p].quantity \in Nat
      BY <3>1
    <3>6. parts[p].gone \in BOOLEAN
      BY <3>1
    <3>7. QED BY <3>1, <3>3, <3>4, <3>5, <3>6 DEF PartOK
  <2>2. CASE p \notin {first, second}
    <3>1. parts[p] = Absent /\ peak[p] = 0
      BY <1>5, <2>2
    <3>2. QED BY <3>1 DEF PartOK, Absent
  <2>3. QED BY <2>1, <2>2
<1>9. TablesOK
  <2>1. NoPrint \in PrintRecord
    BY DEF NoPrint, PrintRecord
  <2>2. QED BY <1>5, <1>6, <1>8, <2>1 DEF TablesOK
<1>10. \A t \in Tasks : PrintOK(t)
  BY <1>5 DEF PrintOK, NoPrint, Pending
<1>11. \A w \in Writers : TxOK(w)
  BY <1>5 DEF TxOK, NoTx, Deleting, Cancelling
<1>12. QuantityRespected
  <2>1. \A p \in Parts : Printed(p, Pending \cup {"finished"}) = {}
    BY <1>5 DEF Printed, NoPrint, Pending
  <2>2. \A p \in Parts : Printed(p, Pending \cup {"finished"}) \ resent = {}
    BY <2>1
  <2>3. \A p \in Parts : Cardinality(Printed(p, Pending \cup {"finished"}) \ resent) = 0
    BY <2>2, FS_EmptySet
  <2>4. QED BY <1>8, <2>3 DEF QuantityRespected
<1>13. StopsOK
  <2>1. /\ live = {} /\ \A t \in Tasks : ~prints[t].compiling
        /\ \A c \in Clients : /\ txs[c].op \notin Deleting \cup Cancelling
                             /\ txs[c].todo = {} /\ txs[c].halt = {}
    BY <1>5 DEF NoPrint, NoTx, Deleting, Cancelling, Writers
  <2>2. QED BY <2>1 DEF StopsOK, Occupied
<1>14. QED BY <1>5, <1>9, <1>10, <1>11, <1>12, <1>13 DEF QueueInv

LEMMA MachineStepSafe ==
  ASSUME QueueInv, MachineStep
  PROVE  QueueInv'
<1>1. ASSUME NEW t \in Tasks, SpoolPrint(t) \/ RefusePrint(t) \/ Skip(t)
      PROVE  QueueInv'
  BY <1>1, SpoolPrintSafe, RefusePrintSafe, SkipSafe
<1>2. ASSUME NEW t \in Tasks, NEW st \in Pending, Progress(t, st)
      PROVE  QueueInv'
  BY <1>2, ProgressSafe
<1>3. ASSUME NEW t \in Tasks, NEW o \in Final, End(t, o)
      PROVE  QueueInv'
  BY <1>3, EndSafe
<1>4. ASSUME NEW t \in Tasks, NEW next \in Parts \cup {NoPart}, BeginSettle(t, next)
      PROVE  QueueInv'
  BY <1>4, BeginSettleSafe
<1>5. ASSUME NEW mc \in Machines, NEW t \in Tasks, CommitSettle(mc, t)
      PROVE  QueueInv'
  BY <1>5, CommitSettleSafe
<1>6. ASSUME NEW mc \in Machines, AbortSettle(mc)
      PROVE  QueueInv'
  BY <1>6, AbortSettleSafe
<1>7. ASSUME NEW mc \in Machines, DriverLost(mc) \/ RecordBlocking(mc)
      PROVE  QueueInv'
  BY <1>7, DriverLostSafe, RecordBlockingSafe
<1>8. QED BY <1>1, <1>2, <1>3, <1>4, <1>5, <1>6, <1>7 DEF MachineStep

LEMMA ClientStepSafe ==
  ASSUME QueueInv, NEW c \in Clients, ClientStep(c)
  PROVE  QueueInv'
<1>1. ASSUME NEW p \in Parts, NEW mc \in Machines, BeginPrint(c, p, mc)
      PROVE  QueueInv'
  BY <1>1, BeginPrintSafe
<1>2. ASSUME NEW t \in Tasks, CommitPrint(c, t) \/ CancelPrint(c, t) \/ StopMachine(c, t)
      PROVE  QueueInv'
  BY <1>2, CommitPrintSafe, CancelPrintSafe, StopMachineSafe
<1>3. ASSUME NEW moves, BeginMove(c, moves)
      PROVE  QueueInv'
  BY <1>3, BeginMoveSafe
<1>4. ASSUME CommitMove(c) \/ CommitQuantity(c) \/ CommitUnstar(c)
      PROVE  QueueInv'
  BY <1>4, CommitMoveSafe, CommitQuantitySafe, CommitUnstarSafe
<1>5. ASSUME NEW p \in Parts, NEW n \in 1 .. MaxQuantity, BeginQuantity(c, p, n)
      PROVE  QueueInv'
  BY <1>5, BeginQuantitySafe
<1>6. ASSUME NEW n \in 1 .. MaxQuantity, BeginAdd(c, <<n>>)
      PROVE  QueueInv'
  BY <1>6, BeginAddSafe
<1>7. ASSUME NEW k \in Packages, BeginAddStarred(c, k) \/ BeginStar(c, k) \/ BeginUnstar(c, k)
      PROVE  QueueInv'
  BY <1>7, BeginAddStarredSafe, BeginStarSafe, BeginUnstarSafe
<1>8. ASSUME NEW k \in Packages, BeginDeletePackage(c, k)
      PROVE  QueueInv'
  BY <1>8, BeginDeletePackageSafe
<1>9. ASSUME NEW k \in Packages, NEW ids, CommitAdd(c, k, ids)
      PROVE  QueueInv'
  BY <1>9, CommitAddSafe
<1>10. ASSUME NEW k \in Packages, NEW ids, NEW originals, CommitStar(c, k, ids, originals)
       PROVE  QueueInv'
  BY <1>10, CommitStarSafe
<1>11. ASSUME NEW ps \in SUBSET Parts, BeginDeleteParts(c, ps)
       PROVE  QueueInv'
  BY <1>11, BeginDeletePartsSafe
<1>12. ASSUME CommitDelete(c) \/ DeletionFails(c)
       PROVE  QueueInv'
  BY <1>12, CommitDeleteSafe, DeletionFailsSafe
<1>13. QED
  BY <1>1, <1>2, <1>3, <1>4, <1>5, <1>6, <1>7, <1>8, <1>9, <1>10, <1>11, <1>12 DEF ClientStep

LEMMA StepSafe == QueueInv /\ [QueueNext]_queueVars => QueueInv'
<1>1. ASSUME QueueInv, QueueNext
      PROVE  QueueInv'
  BY <1>1, MachineStepSafe, ClientStepSafe DEF QueueNext
<1>2. ASSUME QueueInv, UNCHANGED queueVars
      PROVE  QueueInv'
  <2>1. UNCHANGED <<parts, pkgs, prints, live, outcome, txs, peak, raced, escaped, resent>>
    BY <1>2 DEF queueVars
  <2>2. TablesOK'
    BY <1>2, <2>1 DEF QueueInv, TablesOK, PartOK, PackageOK, TotalPrints
  <2>3. \A t \in Tasks : PrintOK(t)'
    BY <1>2, <2>1 DEF QueueInv, PrintOK
  <2>4. \A w \in Writers : TxOK(w)'
    <3>1. SUFFICES ASSUME NEW w \in Writers
                   PROVE  TxOK(w)'
      OBVIOUS
    <3>2. TxOK(w) /\ txs'[w] = txs[w]
      BY <1>2, <2>1 DEF QueueInv
    <3>3. \A p : MayPrint(p)' <=> MayPrint(p)
      BY <2>1 DEF MayPrint, PrintsInProgress, Printed, TotalPrints
    <3>4. PrintTxOK(txs[w])' <=> PrintTxOK(txs[w])
      BY <2>1 DEF PrintTxOK, Ordered, Counted, Printed
    <3>5. SettleTxOK(w, txs[w])' <=> SettleTxOK(w, txs[w])
      BY <2>1, <3>3 DEF SettleTxOK, MayPrint, PrintsInProgress, Printed, TotalPrints
    <3>6. QED BY <2>1, <3>2, <3>4, <3>5 DEF TxOK
  <2>5. QuantityRespected'
    BY <1>2, <2>1 DEF QueueInv, QuantityRespected, Printed
  <2>6. StopsOK'
    BY <1>2, <2>1 DEF QueueInv, StopsOK, Gone, Handled, Occupied
  <2>7. QED BY <1>2, <2>1, <2>2, <2>3, <2>4, <2>5, <2>6 DEF QueueInv
<1>3. QED BY <1>1, <1>2

\* What each transaction has read and still relies on holds until it commits,
\* whatever the others commit meanwhile.
THEOREM QueueInvariant == QueueSpec => []QueueInv
<1>1. QED BY InitSafe, StepSafe, PTL DEF QueueSpec

\* No part is printed more often than it was once asked for, by any number of
\* clients and machines, unless two requests for it raced past insert_print's check:
\* but for prints that were settled while they were compiled and sent nevertheless.
THEOREM QuantityCorrect == QueueSpec => []QuantityRespected
<1>1. QueueInv => QuantityRespected
  BY DEF QueueInv
<1>2. QED BY <1>1, QueueInvariant, PTL

\* Every pending record of a print has someone who will settle it.
THEOREM PendingCorrect == QueueSpec => []PendingHasAFuture
<1>1. QueueInv => PendingHasAFuture
  BY DEF QueueInv, PrintOK, PendingHasAFuture
<1>2. QED BY <1>1, QueueInvariant, PTL

\* What a machine still prints of a deleted part, the deletion is about to stop, but
\* for the prints that it could not see, or had not come to when it failed, and those
\* that were settled before and printed all the same.
THEOREM DeletionCorrect == QueueSpec => []DeletedPartsStop
<1>1. QueueInv => DeletedPartsStop
  BY DEF QueueInv, StopsOK, DeletedPartsStop, Gone, Handled
<1>2. QED BY <1>1, QueueInvariant, PTL

\* The settling of a finished print is not refused for the print that follows it,
\* unless the queue has changed in between.
THEOREM AutoPrintCorrect == QueueSpec => []AutoPrintAccepted
<1>1. QueueInv => AutoPrintAccepted
  BY DEF QueueInv, TxOK, SettleTxOK, AutoPrintAccepted, Writers
<1>2. QED BY <1>1, QueueInvariant, PTL

-----------------------------------------------------------------------------
(***************************************************************************)
(* Templates.                                                              *)
(***************************************************************************)
\* The package s is the template that the package k was starred into.
CopyOf(s, k) == pkgs[s].state = "live" /\ pkgs[s].starred /\ pkgs[s].from = k

Printable(p) == p \in Parts /\ parts[p].pkg # NoPkg /\ pkgs[parts[p].pkg].quantity > 0

\* A package that exists and has no template.
Starless(k) == pkgs[k].state # "absent" /\ \A s \in Packages : ~CopyOf(s, k)

\* The inductive invariant: a package knows its template, and a request that
\* stars it and still has its current record relies on it having none.
StarsInv ==
  /\ \A t \in Tasks : prints[t].st # "absent" => Printable(prints[t].part)
  /\ \A w \in Writers : txs[w].op = "print" => Printable(txs[w].part)
  /\ \A k \in Packages \ raced : \A s \in Packages :
       CopyOf(s, k) => pkgs[k].based = s /\ pkgs[k].state # "absent"
  /\ \A w \in Writers :
       txs[w].op = "star" /\ txs[w].pkg \in txs[w].held \ raced => Starless(txs[w].pkg)

\* What a step leaves of the packages, of the parts, of a print and of a request.
PackagesFollow ==
  /\ \A k \in Packages : pkgs[k].state # "absent" =>
       /\ pkgs'[k].state # "absent" /\ pkgs'[k].quantity = pkgs[k].quantity
       /\ pkgs'[k].based = pkgs[k].based
  /\ \A k, s \in Packages : CopyOf(s, k)' => CopyOf(s, k)

PartsFollow == \A p \in Parts : parts[p].pkg # NoPkg => parts'[p].pkg = parts[p].pkg

PrintsFollow ==
  \A t \in Tasks : prints'[t].st # "absent" =>
    \/ prints[t].st # "absent" /\ prints'[t].part = prints[t].part
    \/ Printable(prints'[t].part)

RequestsFollow ==
  \A w \in Writers :
    /\ txs'[w].op = "print" =>
         \/ txs[w].op = "print" /\ txs'[w].part = txs[w].part
         \/ Printable(txs'[w].part)
    /\ txs'[w].op = "star" =>
         \/ txs[w].op = "star" /\ txs'[w].pkg = txs[w].pkg /\ txs'[w].held \subseteq txs[w].held
         \/ txs'[w].pkg \in Packages /\ (txs'[w].pkg \notin raced => Starless(txs'[w].pkg))

LEMMA PrintableStays ==
  ASSUME QueueInv, PartsFollow, NEW p, Printable(p),
         \A k \in Packages : pkgs[k].state # "absent" => pkgs'[k].quantity = pkgs[k].quantity
  PROVE  Printable(p)'
<1>1. /\ p \in Parts /\ parts[p].pkg # NoPkg /\ parts'[p].pkg = parts[p].pkg
      /\ parts[p].pkg \in Packages /\ pkgs[parts[p].pkg].state # "absent"
  BY DEF Printable, PartsFollow, QueueInv, TablesOK, PartOK
<1>2. pkgs'[parts[p].pkg].quantity = pkgs[parts[p].pkg].quantity
  BY <1>1
<1>3. QED BY <1>1, <1>2 DEF Printable

\* Where no package is starred.
LEMMA StarsStay ==
  ASSUME QueueInv, StarsInv, PackagesFollow, PartsFollow, PrintsFollow, RequestsFollow,
         raced \subseteq raced'
  PROVE  StarsInv'
<1>1. \A k \in Packages : Starless(k) => Starless(k)'
  BY DEF Starless, PackagesFollow
<1>2. \A t \in Tasks : prints'[t].st # "absent" => Printable(prints[t].part)'
  BY PrintableStays DEF PackagesFollow, PrintsFollow, StarsInv
<1>3. \A w \in Writers : txs'[w].op = "print" => Printable(txs[w].part)'
  BY PrintableStays DEF PackagesFollow, RequestsFollow, StarsInv
<1>4. ASSUME NEW k \in Packages \ raced', NEW s \in Packages, CopyOf(s, k)'
      PROVE  pkgs'[k].based = s /\ pkgs'[k].state # "absent"
  <2>1. CopyOf(s, k) /\ k \in Packages \ raced
    BY <1>4 DEF PackagesFollow
  <2>2. pkgs[k].based = s /\ pkgs[k].state # "absent"
    BY <2>1 DEF StarsInv
  <2>3. QED BY <2>2 DEF PackagesFollow
<1>5. ASSUME NEW w \in Writers, txs'[w].op = "star", txs'[w].pkg \in txs'[w].held \ raced'
      PROVE  Starless(txs[w].pkg)'
  <2>1. txs'[w].pkg \notin raced
    BY <1>5
  <2>2. CASE txs[w].op = "star" /\ txs'[w].pkg = txs[w].pkg /\ txs'[w].held \subseteq txs[w].held
    <3>1. txs[w].pkg \in Packages
      BY <2>2 DEF QueueInv, TxOK
    <3>2. Starless(txs[w].pkg)
      BY <1>5, <2>1, <2>2 DEF StarsInv
    <3>3. QED BY <1>1, <2>2, <3>1, <3>2
  <2>3. CASE txs'[w].pkg \in Packages /\ (txs'[w].pkg \notin raced => Starless(txs'[w].pkg))
    BY <1>1, <2>1, <2>3
  <2>4. QED BY <1>5, <2>2, <2>3 DEF RequestsFollow
<1>6. QED BY <1>2, <1>3, <1>4, <1>5 DEF StarsInv

\* A request that goes on or ends: it was one before.
LEMMA KeepFollows ==
  ASSUME QueueInv, NEW w, NEW tx, NEW ids, NEW crossing, Keep(w, tx, ids, crossing),
         tx.op \notin {"print", "star"}, w \in Writers => txs[w].op # "none"
  PROVE  RequestsFollow
<1> SUFFICES ASSUME NEW v \in Writers, v # w
             PROVE  /\ txs'[v].op = txs[v].op /\ txs'[v].part = txs[v].part
                    /\ txs'[v].pkg = txs[v].pkg /\ txs'[v].held \subseteq txs[v].held
  <2>1. w \in Writers => txs'[w] = tx
    BY DEF Keep
  <2>2. QED BY <2>1 DEF RequestsFollow
<1>1. DOMAIN txs[v] = {"op", "part", "pkg", "task", "n", "machine", "moves", "seen",
                       "doomed", "todo", "halt", "held", "crossed"}
  BY DEF QueueInv, TxOK, NoTx
<1>2. CASE txs[v].op = "none"
  BY <1>2 DEF Keep
<1>3. CASE txs[v].op # "none"
  <2>1. txs'[v] = [txs[v] EXCEPT !.held = @ \ ids, !.crossed = @ \/ crossing]
    BY <1>3 DEF Keep
  <2>2. QED BY <1>1, <2>1
<1>4. QED BY <1>2, <1>3

\* A request that begins.
LEMMA BeginFollows ==
  ASSUME QueueInv, NEW c \in Writers, NEW tx, txs' = [txs EXCEPT ![c] = tx],
         tx.op = "print" => Printable(tx.part),
         tx.op = "star" => tx.pkg \in Packages /\ (tx.pkg \notin raced => Starless(tx.pkg))
  PROVE  RequestsFollow
<1>1. txs'[c] = tx /\ \A v \in Writers \ {c} : txs'[v] = txs[v]
  BY DEF QueueInv
<1>2. QED BY <1>1 DEF RequestsFollow

LEMMA PackagesStay ==
  ASSUME UNCHANGED pkgs
  PROVE  PackagesFollow
BY DEF PackagesFollow, CopyOf

LEMMA TablesStay ==
  ASSUME QueueInv, UNCHANGED tables
  PROVE  PackagesFollow /\ PartsFollow /\ PrintsFollow
BY PackagesStay DEF PartsFollow, PrintsFollow, tables

\* A request that begins, with what it relies on.
LEMMA BeginStars ==
  ASSUME QueueInv, StarsInv, NEW c \in Writers, NEW tx, txs' = [txs EXCEPT ![c] = tx],
         UNCHANGED <<tables, raced>>,
         tx.op = "print" => Printable(tx.part),
         tx.op = "star" => tx.pkg \in Packages /\ (tx.pkg \notin raced => Starless(tx.pkg))
  PROVE  StarsInv'
BY TablesStay, BeginFollows, StarsStay

LEMMA MayPrintPrintable ==
  ASSUME QueueInv, NEW p \in Parts, parts[p].pkg # NoPkg, MayPrint(p)
  PROVE  Printable(p)
<1>1. Cardinality(Counted(p)) < TotalPrints(p) /\ Cardinality(Counted(p)) \in Nat
  BY MayPrintCounted, CountedFinite
<1>2. /\ parts[p].pkg \in Packages /\ parts[p].quantity \in Nat
      /\ pkgs[parts[p].pkg].quantity \in Nat
  BY DEF QueueInv, TablesOK, PartOK, PackageOK
<1>3. pkgs[parts[p].pkg].quantity # 0
  <2>1. \A n \in Nat : n * 0 = 0
    OBVIOUS
  <2>2. pkgs[parts[p].pkg].quantity = 0 => TotalPrints(p) = 0
    BY <1>2, <2>1 DEF TotalPrints
  <2>3. QED BY <1>1, <2>2
<1>4. QED BY <1>2, <1>3 DEF Printable

\* The template that the request has looked up is the only one there may be.
LEMMA BeginStarStars ==
  ASSUME QueueInv, StarsInv, NEW c \in Clients, NEW k \in Packages, BeginStar(c, k)
  PROVE  StarsInv'
<1> DEFINE tx == [NoTx EXCEPT !.op = "star", !.pkg = k, !.held = {k}]
<1>1. /\ c \in Writers /\ txs' = [txs EXCEPT ![c] = tx] /\ UNCHANGED <<tables, raced>>
      /\ k \in LivePackages /\ (Template(k) # NoPkg => ~pkgs[Template(k)].starred)
  BY DEF BeginStar, Begin, Op, tables, queueHistory, Writers
<1>2. ASSUME k \notin raced, NEW s \in Packages, CopyOf(s, k)
      PROVE  FALSE
  <2>1. pkgs[k].based = s /\ s \in LivePackages /\ pkgs[s].starred
    BY <1>2 DEF StarsInv, CopyOf, LivePackages
  <2>2. Template(k) = s /\ s # NoPkg
    BY <2>1, QueueAssumption DEF Template
  <2>3. QED BY <1>1, <2>1, <2>2
<1>3. k \notin raced => Starless(k)
  BY <1>1, <1>2 DEF Starless, LivePackages
<1>4. tx.op = "star" /\ tx.pkg = k
  BY DEF NoTx
<1>5. QED BY <1>1, <1>3, <1>4, BeginStars

\* A request that goes on or ends.
LEMMA KeepStars ==
  ASSUME QueueInv, StarsInv, NEW w, NEW tx, NEW ids, NEW crossing, Keep(w, tx, ids, crossing),
         tx.op \notin {"print", "star"}, w \in Writers => txs[w].op # "none",
         PackagesFollow, PartsFollow, PrintsFollow, raced \subseteq raced'
  PROVE  StarsInv'
BY KeepFollows, StarsStay

\* The record of one print changes.
LEMMA PrintFollows ==
  ASSUME QueueInv, NEW t \in Tasks, prints[t].st # "absent",
         prints'[t].part = prints[t].part, \A u \in Tasks \ {t} : prints'[u] = prints[u]
  PROVE  PrintsFollow
BY DEF PrintsFollow

\* A print is made of a part that there is one to make of.
LEMMA InsertFollows ==
  ASSUME QueueInv, NEW w, NEW t, NEW p, NEW mc, NEW auto, NEW table,
         InsertPrint(w, t, p, mc, auto, table), Printable(p), DOMAIN table = Tasks,
         \A u \in Tasks : /\ table[u].part = prints[u].part
                          /\ table[u].st # "absent" => prints[u].st # "absent"
  PROVE  PrintsFollow /\ raced \subseteq raced'
<1>1. raced \subseteq raced'
  BY DEF InsertPrint
<1>2. prints' = [table EXCEPT ![t] = [part |-> p, st |-> "created", machine |-> mc,
                                      auto |-> auto, compiling |-> TRUE, fresh |-> TRUE,
                                      late |-> FALSE]]
  BY DEF InsertPrint
<1>3. \A u \in Tasks : prints'[u] = table[u] \/ prints'[u].part = p
  BY <1>2
<1>4. QED BY <1>1, <1>3 DEF PrintsFollow

LEMMA MachineStepStars ==
  ASSUME QueueInv, StarsInv, MachineStep
  PROVE  StarsInv'
<1>1. prints \in [Tasks -> PrintRecord]
  BY DEF QueueInv, TablesOK
<1>2. NoPart \notin Writers /\ NoTx.op \notin {"print", "star"} /\ Machines \subseteq Writers
  BY QueueAssumption DEF NoTx, Writers
<1>3. ASSUME NEW t \in Tasks, NEW st \in Pending, SpoolPrint(t) \/ RefusePrint(t) \/ Progress(t, st)
      PROVE  StarsInv'
  <2>1. prints[t].st # "absent"
    BY <1>3 DEF SpoolPrint, RefusePrint, Progress, QueueInv, PrintOK
  <2>2. PICK a : prints' = [prints EXCEPT ![t] = a] /\ a.part = prints[t].part
    <3>1. PICK b : b = prints[t] /\ b \in PrintRecord
      BY <1>1
    <3>2. CASE SpoolPrint(t)
      <4>1. PICK st1 : prints' = [prints EXCEPT ![t] =
              [b EXCEPT !.compiling = FALSE, !.fresh = FALSE, !.late = FALSE, !.st = st1]]
        BY <1>1, <3>1, <3>2 DEF SpoolPrint
      <4>2. [b EXCEPT !.compiling = FALSE, !.fresh = FALSE, !.late = FALSE,
                      !.st = st1].part = b.part
        BY <3>1 DEF PrintRecord
      <4>3. QED BY <3>1, <4>1, <4>2
    <3>3. CASE RefusePrint(t)
      <4>1. prints' = [prints EXCEPT ![t] =
              [b EXCEPT !.st = "errored", !.fresh = FALSE, !.late = FALSE, !.compiling = FALSE]]
        BY <1>1, <3>1, <3>3 DEF RefusePrint, Rewrite, PrintRecord
      <4>2. [b EXCEPT !.st = "errored", !.fresh = FALSE, !.late = FALSE,
                      !.compiling = FALSE].part = b.part
        BY <3>1 DEF PrintRecord
      <4>3. QED BY <3>1, <4>1, <4>2
    <3>4. CASE Progress(t, st)
      <4>1. prints' = [prints EXCEPT ![t] = [b EXCEPT !.st = st, !.fresh = FALSE,
                                                      !.late = b.fresh]]
        BY <3>1, <3>4 DEF Progress, Rewrite
      <4>2. [b EXCEPT !.st = st, !.fresh = FALSE, !.late = b.fresh].part = b.part
        BY <3>1 DEF PrintRecord
      <4>3. QED BY <3>1, <4>1, <4>2
    <3>5. QED BY <1>3, <3>2, <3>3, <3>4
  <2>3. UNCHANGED <<parts, pkgs, raced>>
    BY <1>3 DEF SpoolPrint, RefusePrint, Progress, queueHistory
  <2>4. PICK ids, crossing : Keep(NoPart, NoTx, ids, crossing)
    BY <1>3 DEF SpoolPrint, RefusePrint, Progress
  <2>5. PrintsFollow /\ PackagesFollow /\ PartsFollow
    <3>1. prints'[t].part = prints[t].part /\ \A u \in Tasks \ {t} : prints'[u] = prints[u]
      BY <1>1, <2>2
    <3>2. QED BY <2>1, <2>3, <3>1, PrintFollows, PackagesStay DEF PartsFollow
  <2>6. RequestsFollow
    BY <1>2, <2>4, KeepFollows
  <2>7. QED BY <2>3, <2>5, <2>6, StarsStay
<1>4. ASSUME NEW t \in Tasks, NEW o \in Final, Skip(t) \/ End(t, o)
      PROVE  StarsInv'
  <2>1. UNCHANGED <<tables, txs, raced>>
    BY <1>4 DEF Skip, End, queueHistory
  <2>2. RequestsFollow
    BY <2>1 DEF RequestsFollow
  <2>3. QED BY <2>1, <2>2, TablesStay, StarsStay
<1>5. ASSUME NEW t \in Tasks, NEW next, BeginSettle(t, next)
      PROVE  StarsInv'
  <2>1. prints[t].machine \in Machines
    BY <1>5 DEF BeginSettle, QueueInv, PrintOK
  <2>2. PICK tx : /\ tx = [NoTx EXCEPT !.op = "settle", !.part = next, !.task = t, !.held = {t}]
                  /\ txs' = [txs EXCEPT ![prints[t].machine] = tx]
    BY <1>5 DEF BeginSettle
  <2>3. UNCHANGED <<tables, raced>>
    BY <1>5 DEF BeginSettle, queueHistory
  <2>4. tx.op = "settle"
    BY <2>2 DEF NoTx
  <2>5. QED BY <1>2, <2>1, <2>2, <2>3, <2>4, BeginStars
<1>6. ASSUME NEW mc \in Machines, AbortSettle(mc)
      PROVE  StarsInv'
  <2>1. txs' = [txs EXCEPT ![mc] = NoTx] /\ UNCHANGED <<tables, raced>>
    BY <1>6 DEF AbortSettle, queueHistory
  <2>2. QED BY <1>2, <2>1, BeginStars DEF NoTx
<1>7. ASSUME NEW mc \in Machines, NEW t \in Tasks, CommitSettle(mc, t)
      PROVE  StarsInv'
  <2>1. txs[mc].op = "settle" /\ SettleTxOK(mc, txs[mc])
    BY <1>2, <1>7 DEF CommitSettle, QueueInv, TxOK
  <2>2. PICK u \in Tasks : u = txs[mc].task /\ prints[u].st # "absent"
    BY <2>1 DEF SettleTxOK, Pending
  <2>3. PICK table : table = Settled(mc)
    OBVIOUS
  <2>4. /\ DOMAIN table = Tasks
        /\ \A v \in Tasks : /\ table[v].part = prints[v].part
                            /\ table[v].st # "absent" => prints[v].st # "absent"
    BY <1>1, <2>2, <2>3 DEF Settled, Update, Rewrite, PrintRecord
  <2>5. PrintsFollow /\ raced \subseteq raced'
    <3>1. CASE txs[mc].part = NoPart
      <4>1. prints' = table /\ UNCHANGED raced
        BY <1>7, <2>3, <3>1 DEF CommitSettle
      <4>2. raced \subseteq raced'
        BY <4>1
      <4>3. QED BY <2>4, <4>1, <4>2 DEF PrintsFollow
    <3>2. CASE txs[mc].part # NoPart
      <4>1. PICK p \in Parts : p = txs[mc].part /\ parts[p].pkg # NoPkg
        BY <2>1, <3>2 DEF SettleTxOK
      <4>2. MayPrint(p) /\ InsertPrint(mc, t, p, mc, TRUE, table)
        BY <1>7, <2>3, <3>2, <4>1 DEF CommitSettle
      <4>3. QED BY <2>4, <4>1, <4>2, MayPrintPrintable, InsertFollows
    <3>3. QED BY <3>1, <3>2
  <2>6. UNCHANGED <<parts, pkgs>>
    BY <1>7 DEF CommitSettle
  <2>7. PICK ids, crossing : Keep(mc, NoTx, ids, crossing)
    BY <1>7 DEF CommitSettle, Close
  <2>8. PartsFollow /\ PackagesFollow
    BY <2>6, PackagesStay DEF PartsFollow
  <2>9. QED BY <1>2, <2>1, <2>5, <2>7, <2>8, KeepStars
<1>8. "created" \in Pending /\ "finished" \in Final
  BY DEF Pending, Final
<1>9. ASSUME NEW mc \in Machines, NEW ts \in SUBSET Tasks, NEW next, prints' = Rewritten(ts, next),
              Keep(NoPart, NoTx, ts, FALSE), UNCHANGED <<parts, pkgs, raced>>,
              \A t \in ts : /\ prints[t].st \in Pending
                            /\ next[t] \in {"absent"} \cup Pending \cup Final
      PROVE  StarsInv'
  <2>1. PrintsFollow
    <3>1. /\ \A t \in Tasks : prints'[t].part = prints[t].part
          /\ \A t \in Tasks \ ts : prints'[t] = prints[t]
      BY <1>9, RewrittenAre
    <3>2. \A t \in ts : prints[t].st # "absent"
      BY <1>9 DEF Pending
    <3>3. QED BY <3>1, <3>2 DEF PrintsFollow
  <2>2. PackagesFollow /\ PartsFollow /\ raced \subseteq raced'
    BY <1>9, PackagesStay DEF PartsFollow
  <2>3. PICK no : Keep(NoPart, NoTx, ts, no)
    BY <1>9
  <2>4. QED BY <1>2, <2>1, <2>2, <2>3, KeepStars
<1>10. ASSUME NEW mc \in Machines, DriverLost(mc) \/ RecordBlocking(mc)
       PROVE  StarsInv'
  <2>1. UNCHANGED <<parts, pkgs, raced>>
    BY <1>10 DEF DriverLost, RecordBlocking, queueHistory
  <2>2. CASE DriverLost(mc)
    <3>1. PICK ts, next : /\ ts = {t \in Tasks : prints[t].machine = mc /\ prints[t].st \in Pending}
                          /\ next = [t \in Tasks |-> "errored"]
      OBVIOUS
    <3>2. prints' = Rewritten(ts, next) /\ Keep(NoPart, NoTx, ts, FALSE)
      BY <2>2, <3>1 DEF DriverLost
    <3>3. /\ ts \in SUBSET Tasks
          /\ \A t \in ts : /\ prints[t].st \in Pending
                           /\ next[t] \in {"absent"} \cup Pending \cup Final
      BY <3>1 DEF Final
    <3>4. QED BY <1>9, <2>1, <3>2, <3>3
  <2>3. CASE RecordBlocking(mc)
    <3>1. PICK ts, next :
            /\ ts = {t \in Tasks : prints[t].machine = mc /\ prints[t].st \in Pending \ {"paused"}}
            /\ next = [t \in Tasks |-> prints[t].st]
      OBVIOUS
    <3>2. prints' = Rewritten(ts, next) /\ Keep(NoPart, NoTx, ts, FALSE)
      BY <2>3, <3>1 DEF RecordBlocking
    <3>3. /\ ts \in SUBSET Tasks
          /\ \A t \in ts : /\ prints[t].st \in Pending
                           /\ next[t] \in {"absent"} \cup Pending \cup Final
      BY <3>1
    <3>4. QED BY <1>9, <2>1, <3>2, <3>3
  <2>4. QED BY <1>10, <2>2, <2>3
<1>11. QED BY <1>3, <1>4, <1>5, <1>6, <1>7, <1>8, <1>10 DEF MachineStep

\* A request that reads begins, and stars nothing.
LEMMA BeginStepStars ==
  ASSUME QueueInv, StarsInv, NEW c \in Clients, NEW tx, Begin(c, tx), UNCHANGED <<tables, raced>>,
         tx.op \notin {"print", "star"}
  PROVE  StarsInv'
BY BeginStars DEF Begin, Writers

\* Where packages keep what they are.
LEMMA PackagesKeep ==
  ASSUME \A k \in Packages : /\ pkgs'[k].state = pkgs[k].state
                             /\ pkgs'[k].quantity = pkgs[k].quantity
                             /\ pkgs'[k].based = pkgs[k].based
                             /\ pkgs'[k].from = pkgs[k].from
                             /\ pkgs'[k].starred => pkgs[k].starred
  PROVE  PackagesFollow
BY DEF PackagesFollow, CopyOf

LEMMA EditStars ==
  ASSUME QueueInv, StarsInv, NEW c \in Clients, CommitMove(c) \/ CommitQuantity(c) \/ CommitUnstar(c)
  PROVE  StarsInv'
<1>1. c \in Writers /\ txs[c].op \in {"move", "quantity", "unstar"} /\ UNCHANGED <<prints, raced>>
  BY DEF CommitMove, CommitQuantity, CommitUnstar, queueHistory, Writers
<1>2. PICK ids, crossing : Keep(c, NoTx, ids, crossing)
  BY DEF CommitMove, CommitQuantity, CommitUnstar, Close
<1>3. PackagesFollow
  <2>1. CASE CommitMove(c) \/ CommitQuantity(c)
    BY <2>1, PackagesStay DEF CommitMove, CommitQuantity
  <2>2. CASE CommitUnstar(c)
    <3>1. pkgs' = pkgs \/ pkgs' = [pkgs EXCEPT ![txs[c].pkg].starred = FALSE]
      BY <2>2 DEF CommitUnstar, Update
    <3>2. \A k \in Packages :
            pkgs'[k] = pkgs[k] \/ pkgs'[k] = [pkgs[k] EXCEPT !.starred = FALSE]
      BY <3>1 DEF QueueInv, TablesOK
    <3>3. \A k \in Packages : DOMAIN pkgs[k] = {"state", "quantity", "starred", "based", "from"}
      BY DEF QueueInv, TablesOK, PackageOK
    <3>4. QED BY <3>2, <3>3, PackagesKeep
  <2>3. QED BY <2>1, <2>2
<1>4. PartsFollow
  <2>1. CASE CommitMove(c)
    <3>1. PICK new, written : parts' =
            [p \in Parts |-> IF p \in written THEN [parts[p] EXCEPT !.position = new[p]]
                             ELSE parts[p]]
      BY <2>1 DEF CommitMove
    <3>2. \A p \in Parts : DOMAIN parts[p] = {"pkg", "position", "quantity", "gone"}
      BY DEF QueueInv, TablesOK, PartOK
    <3>3. QED BY <3>1, <3>2 DEF PartsFollow
  <2>2. CASE CommitQuantity(c)
    <3>1. PICK n : parts' = parts \/ parts' = [parts EXCEPT ![txs[c].part].quantity = n]
      BY <2>2 DEF CommitQuantity, Update
    <3>2. \A p \in Parts : DOMAIN parts[p] = {"pkg", "position", "quantity", "gone"}
      BY DEF QueueInv, TablesOK, PartOK
    <3>3. QED BY <3>1, <3>2 DEF PartsFollow, QueueInv, TablesOK
  <2>3. CASE CommitUnstar(c)
    BY <2>3 DEF CommitUnstar, PartsFollow
  <2>4. QED BY <2>1, <2>2, <2>3
<1>5. PrintsFollow /\ NoTx.op \notin {"print", "star"} /\ raced \subseteq raced'
  BY <1>1 DEF PrintsFollow, NoTx
<1>6. QED BY <1>1, <1>2, <1>3, <1>4, <1>5, KeepStars

\* What a commit that inserts a package leaves.
LEMMA InsertStars ==
  ASSUME QueueInv, NEW table, NEW k \in Packages, NEW package, NEW ids, NEW quantities, NEW position,
         Insert(table, k, package, ids, quantities, position),
         DOMAIN table = Packages, ids \in [1 .. Len(quantities) -> FreeParts]
  PROVE  /\ PartsFollow
         /\ pkgs'[k] = package /\ \A j \in Packages \ {k} : pkgs'[j] = table[j]
<1>1. \A i \in DOMAIN ids : parts[ids[i]].pkg = NoPkg
  BY DEF FreeParts
<1>2. \A p \in Parts : (\A i \in DOMAIN ids : ids[i] # p) => parts'[p] = parts[p]
  BY DEF Insert
<1>3. PartsFollow
  BY <1>1, <1>2 DEF PartsFollow
<1>4. pkgs' = [table EXCEPT ![k] = package]
  BY DEF Insert
<1>5. QED BY <1>3, <1>4

LEMMA CommitAddStars ==
  ASSUME QueueInv, StarsInv, NEW c \in Clients, NEW k \in Packages, NEW ids, CommitAdd(c, k, ids)
  PROVE  StarsInv'
<1>1. /\ c \in Writers /\ txs[c].op = "add" /\ UNCHANGED <<prints, raced>>
      /\ pkgs[k].state = "absent" /\ Keep(c, NoTx, {}, TRUE)
  BY DEF CommitAdd, NewPackage, Close, Writers
<1>2. PICK package, position, quantities :
        /\ package = Package(1, FALSE, txs[c].pkg, NoPkg)
        /\ Insert(pkgs, k, package, ids, quantities, position)
        /\ ids \in [1 .. Len(quantities) -> FreeParts]
  BY DEF CommitAdd, NewIds
<1>3. DOMAIN pkgs = Packages
  BY DEF QueueInv, TablesOK
<1>4. /\ PartsFollow
      /\ pkgs'[k] = package /\ \A j \in Packages \ {k} : pkgs'[j] = pkgs[j]
  BY <1>2, <1>3, InsertStars
<1>5. package.starred = FALSE
  BY <1>2 DEF Package
<1>6. PackagesFollow
  BY <1>1, <1>4, <1>5 DEF PackagesFollow, CopyOf
<1>7. PrintsFollow /\ NoTx.op \notin {"print", "star"} /\ raced \subseteq raced'
  BY <1>1 DEF PrintsFollow, NoTx
<1>8. QED BY <1>1, <1>4, <1>6, <1>7, KeepStars

LEMMA DeletionStars ==
  ASSUME QueueInv, StarsInv, NEW c \in Clients, CommitDelete(c) \/ DeletionFails(c)
  PROVE  StarsInv'
<1>1. /\ c \in Writers /\ txs[c].op \in Deleting \cup Cancelling
      /\ UNCHANGED <<prints, raced>>
  BY DEF CommitDelete, DeletionFails, tables, Deleting, Cancelling, Writers
<1>2. DOMAIN txs[c] = DOMAIN NoTx
  BY <1>1 DEF QueueInv, TxOK
<1>3. PICK tx, ids, crossing : Keep(c, tx, ids, crossing) /\ tx.op \notin {"print", "star"}
  <2>1. NoTx.op \notin {"print", "star"}
    BY DEF NoTx
  <2>2. CASE DeletionFails(c)
    BY <2>1, <2>2 DEF DeletionFails, Close
  <2>3. CASE CommitDelete(c)
    <3>1. PICK next : /\ next = [txs[c] EXCEPT !.op = IF @ = "deleteParts" THEN "cancelAll"
                                                     ELSE "cancelEach", !.doomed = {}]
                      /\ \E ids : Keep(c, IF txs[c].todo = {} THEN NoTx ELSE next, ids, TRUE)
      BY <2>3 DEF CommitDelete
    <3>2. next.op \in {"cancelAll", "cancelEach"}
      BY <1>2, <3>1 DEF NoTx
    <3>3. QED BY <2>1, <3>1, <3>2
  <2>4. QED BY <2>2, <2>3
<1>4. PackagesFollow /\ PartsFollow
  <2>1. CASE DeletionFails(c)
    BY <2>1, TablesStay DEF DeletionFails
  <2>2. CASE CommitDelete(c)
    <3>1. PICK rows :
            /\ parts' = [p \in Parts |-> IF p \in rows THEN [parts[p] EXCEPT !.gone = TRUE]
                                         ELSE parts[p]]
            /\ pkgs' = [k \in Packages |-> IF k \in rows THEN [pkgs[k] EXCEPT !.state = "gone"]
                                           ELSE pkgs[k]]
      BY <2>2 DEF CommitDelete
    <3>2. /\ \A p \in Parts : DOMAIN parts[p] = {"pkg", "position", "quantity", "gone"}
          /\ \A k \in Packages :
               DOMAIN pkgs[k] = {"state", "quantity", "starred", "based", "from"}
      BY DEF QueueInv, TablesOK, PartOK, PackageOK
    <3>3. PartsFollow
      BY <3>1, <3>2 DEF PartsFollow
    <3>4. \A k \in Packages : /\ pkgs'[k].quantity = pkgs[k].quantity
                              /\ pkgs'[k].based = pkgs[k].based
                              /\ pkgs'[k].from = pkgs[k].from
                              /\ pkgs'[k].starred = pkgs[k].starred
                              /\ pkgs'[k].state \in {pkgs[k].state, "gone"}
      BY <3>1, <3>2
    <3>5. PackagesFollow
      BY <3>4 DEF PackagesFollow, CopyOf
    <3>6. QED BY <3>3, <3>5
  <2>3. QED BY <2>1, <2>2
<1>5. PrintsFollow /\ raced \subseteq raced' /\ txs[c].op # "none"
  BY <1>1 DEF PrintsFollow, Deleting, Cancelling
<1>6. QED BY <1>3, <1>4, <1>5, KeepStars

LEMMA CancellationStars ==
  ASSUME QueueInv, StarsInv, NEW c \in Clients, NEW t \in Tasks,
         CancelPrint(c, t) \/ StopMachine(c, t)
  PROVE  StarsInv'
<1>1. c \in Writers /\ txs[c].op \in Cancelling /\ UNCHANGED <<parts, pkgs, raced>>
  BY DEF CancelPrint, StopMachine, QueueInv, TxOK, Cancelling, tables, queueHistory, Writers
<1>2. DOMAIN txs[c] = DOMAIN NoTx /\ (t \in txs[c].todo => prints[t].st # "absent")
  BY <1>1 DEF QueueInv, TxOK
<1>3. PICK tx, ids, crossing : Keep(c, tx, ids, crossing) /\ tx.op \notin {"print", "star"}
  <2>1. CASE CancelPrint(c, t)
    <3>1. PICK next : /\ next = [txs[c] EXCEPT !.todo = @ \ {t}, !.halt = @ \cup {t}]
                      /\ \E ids : Keep(c, next, ids, FALSE)
      BY <2>1 DEF CancelPrint
    <3>2. next.op = txs[c].op
      BY <1>2, <3>1 DEF NoTx
    <3>3. QED BY <1>1, <3>1, <3>2 DEF Cancelling
  <2>2. CASE StopMachine(c, t)
    <3>1. PICK next : /\ next = [txs[c] EXCEPT !.halt = @ \ {t}]
                      /\ Keep(c, IF next.todo = {} /\ next.halt = {} THEN NoTx ELSE next, {}, FALSE)
      BY <2>2 DEF StopMachine
    <3>2. next.op = txs[c].op /\ NoTx.op \notin {"print", "star"}
      BY <1>2, <3>1 DEF NoTx
    <3>3. QED BY <1>1, <3>1, <3>2 DEF Cancelling
  <2>3. QED BY <2>1, <2>2
<1>4. PrintsFollow
  <2>1. CASE CancelPrint(c, t)
    <3>1. PICK row : prints' = prints \/ (prints' = [prints EXCEPT ![t] = row] /\ row.part = prints[t].part)
      <4>1. PICK b : b = prints[t] /\ b \in PrintRecord
        BY DEF QueueInv, TablesOK
      <4>2. [b EXCEPT !.st = "cancelled", !.fresh = FALSE, !.late = b.fresh].part = b.part
        BY <4>1 DEF PrintRecord
      <4>3. \/ prints' = prints
            \/ prints' = [prints EXCEPT ![t] = [b EXCEPT !.st = "cancelled", !.fresh = FALSE,
                                                         !.late = b.fresh]]
        BY <2>1, <4>1 DEF CancelPrint, Update, Rewrite
      <4>4. QED BY <4>1, <4>2, <4>3
    <3>2. prints[t].st # "absent"
      BY <1>2, <2>1 DEF CancelPrint
    <3>3. prints \in [Tasks -> PrintRecord]
      BY DEF QueueInv, TablesOK
    <3>4. prints'[t].part = prints[t].part /\ \A u \in Tasks \ {t} : prints'[u] = prints[u]
      BY <3>1, <3>3
    <3>5. QED BY <3>2, <3>4, PrintFollows
  <2>2. CASE StopMachine(c, t)
    BY <2>2 DEF StopMachine, PrintsFollow, tables
  <2>3. QED BY <2>1, <2>2
<1>5. PackagesFollow /\ PartsFollow /\ txs[c].op # "none" /\ raced \subseteq raced'
  BY <1>1, PackagesStay DEF PartsFollow, Cancelling
<1>6. QED BY <1>3, <1>4, <1>5, KeepStars

LEMMA CommitPrintStars ==
  ASSUME QueueInv, StarsInv, NEW c \in Clients, NEW t \in Tasks, CommitPrint(c, t)
  PROVE  StarsInv'
<1>1. /\ c \in Writers /\ txs[c].op = "print" /\ UNCHANGED <<parts, pkgs>>
      /\ InsertPrint(c, t, txs[c].part, txs[c].machine, FALSE, prints)
      /\ Keep(c, NoTx, {}, TRUE)
  BY DEF CommitPrint, Close, Writers
<1>2. Printable(txs[c].part)
  BY <1>1 DEF StarsInv
<1>3. DOMAIN prints = Tasks
  BY DEF QueueInv, TablesOK
<1>4. PrintsFollow /\ raced \subseteq raced'
  BY <1>1, <1>2, <1>3, InsertFollows
<1>5. PackagesFollow /\ PartsFollow /\ NoTx.op \notin {"print", "star"}
  BY <1>1, PackagesStay DEF PartsFollow, NoTx
<1>6. QED BY <1>1, <1>4, <1>5, KeepStars

\* A copy that is starred while another request stars the package marks it as
\* raced, or takes the record it has read from that request.
LEMMA CommitStarStars ==
  ASSUME QueueInv, StarsInv, NEW c \in Clients, NEW copy \in Packages, NEW ids, NEW originals,
         CommitStar(c, copy, ids, originals)
  PROVE  StarsInv'
<1>1. /\ txs[c].op = "star" /\ c \in Writers /\ UNCHANGED prints
      /\ pkgs[copy].state = "absent"
  BY DEF CommitStar, NewPackage, Writers
<1>2. PICK k \in Packages : k = txs[c].pkg
  BY <1>1 DEF QueueInv, TxOK
<1>3. raced' = IF k \in txs[c].held THEN raced ELSE raced \cup {k}
  BY <1>2 DEF CommitStar
<1>4. PICK table, package, quantities, position :
        /\ table = IF k \in txs[c].held THEN [pkgs EXCEPT ![k].based = copy] ELSE pkgs
        /\ package = Package(0, TRUE, NoPkg, k) /\ quantities = Quantities(originals)
        /\ Insert(table, copy, package, ids, quantities, position)
  BY <1>2 DEF CommitStar, Update
<1>5. /\ DOMAIN pkgs = Packages
      /\ \A j \in Packages : DOMAIN pkgs[j] = {"state", "quantity", "starred", "based", "from"}
  BY DEF QueueInv, TablesOK, PackageOK
<1>6. /\ DOMAIN table = Packages
      /\ \A j \in Packages :
           /\ table[j].state = pkgs[j].state /\ table[j].quantity = pkgs[j].quantity
           /\ table[j].starred = pkgs[j].starred /\ table[j].from = pkgs[j].from
           /\ table[j].based = IF j = k /\ k \in txs[c].held THEN copy ELSE pkgs[j].based
  BY <1>4, <1>5
<1>7. ids \in [1 .. Len(quantities) -> FreeParts]
  <2>1. originals \in Orders(PackageParts(k)) /\ ids \in NewIds(Len(originals))
    BY <1>2 DEF CommitStar
  <2>2. /\ quantities \in Seq(Nat) /\ DOMAIN quantities = DOMAIN originals
        /\ Len(originals) \in Nat /\ DOMAIN originals = 1 .. Len(originals)
    BY <1>4, <2>1, QuantitiesAreNumbers DEF QueueInv
  <2>3. Len(quantities) = Len(originals)
    BY <2>2
  <2>4. QED BY <2>1, <2>3 DEF NewIds
<1>8. /\ PartsFollow
      /\ pkgs'[copy] = package /\ \A j \in Packages \ {copy} : pkgs'[j] = table[j]
  <2>1. Insert(table, copy, package, ids, quantities, position)
    BY <1>4
  <2>2. DOMAIN table = Packages
    BY <1>6
  <2>3. QED BY <1>7, <2>1, <2>2, InsertStars
<1>9. /\ package.state = "live" /\ package.starred /\ package.from = k
  BY <1>4 DEF Package
<1>10. PICK written, crossing : /\ crossing \in BOOLEAN /\ Keep(c, NoTx, written, crossing)
                                /\ written = (txs[c].held \cap {k}) \cup ToSet(originals)
  BY <1>2 DEF CommitStar, Close
<1>11. Touched(c, written, crossing) /\ txs'[c] = NoTx
  BY <1>1, <1>10, KeepTouches
<1>12. /\ txs'[c].op \notin {"print", "star"}
       /\ \A w \in Writers \ {c} :
            /\ txs'[w].op = txs[w].op /\ txs'[w].part = txs[w].part /\ txs'[w].pkg = txs[w].pkg
            /\ txs[w].op = "star" => txs'[w].held = txs[w].held \ written
  <2>1. ASSUME NEW w \in Writers \ {c}
        PROVE  /\ SameTx(txs[w], txs'[w])
               /\ txs[w].op # "none" => txs'[w].held = txs[w].held \ written
    BY <1>10, <1>11, TouchedKeeps
  <2>2. QED BY <1>11, <2>1 DEF SameTx, Fields, NoTx
<1>13. k \notin raced' => k \in txs[c].held /\ k \notin raced /\ Starless(k)
  BY <1>1, <1>2, <1>3 DEF StarsInv
<1>14. \A j \in Packages, s \in Packages : CopyOf(s, j)' => CopyOf(s, j) \/ (s = copy /\ j = k)
  BY <1>6, <1>8, <1>9 DEF CopyOf
<1>15. \A p : Printable(p) => Printable(p)'
  BY <1>1, <1>6, <1>8, PrintableStays
<1>16. \A t \in Tasks : prints'[t].st # "absent" => Printable(prints[t].part)'
  BY <1>1, <1>15 DEF StarsInv
<1>17. \A w \in Writers : txs'[w].op = "print" => Printable(txs[w].part)'
  <2>1. \A w \in Writers : txs'[w].op = "print" =>
          Printable(txs[w].part) /\ txs'[w].part = txs[w].part
    BY <1>12 DEF StarsInv
  <2>2. QED BY <1>15, <2>1
<1>18. ASSUME NEW j \in Packages \ raced', NEW s \in Packages, CopyOf(s, j)'
       PROVE  pkgs'[j].based = s /\ pkgs'[j].state # "absent"
  <2>1. CASE j = k
    <3>1. k \in txs[c].held /\ Starless(k)
      BY <1>13, <2>1
    <3>2. s = copy /\ k # copy
      BY <1>1, <1>14, <1>18, <2>1, <3>1 DEF Starless
    <3>3. QED BY <1>6, <1>8, <2>1, <3>1, <3>2 DEF Starless
  <2>2. CASE j # k
    <3>1. CopyOf(s, j) /\ j \notin raced
      BY <1>3, <1>14, <1>18, <2>2
    <3>2. pkgs[j].based = s /\ pkgs[j].state # "absent"
      BY <3>1 DEF StarsInv
    <3>3. QED BY <1>1, <1>6, <1>8, <2>2, <3>2
  <2>3. QED BY <2>1, <2>2
<1>19. ASSUME NEW w \in Writers, txs'[w].op = "star", txs'[w].pkg \in txs'[w].held \ raced'
       PROVE  Starless(txs[w].pkg)'
  <2>1. PICK j : /\ j = txs[w].pkg /\ txs'[w].pkg = j
                 /\ txs[w].op = "star" /\ txs'[w].held = txs[w].held \ written
    BY <1>12, <1>19
  <2>2. j \in Packages /\ Starless(j)
    BY <1>3, <1>19, <2>1 DEF QueueInv, TxOK, StarsInv
  <2>3. j # k
    BY <1>10, <1>13, <1>19, <2>1
  <2>4. Starless(j)'
    BY <1>1, <1>6, <1>8, <1>14, <2>2, <2>3 DEF Starless
  <2>5. QED BY <2>1, <2>4
<1>20. QED BY <1>16, <1>17, <1>18, <1>19 DEF StarsInv

LEMMA InitStars == QueueInit => StarsInv
<1> SUFFICES ASSUME QueueInit
             PROVE  StarsInv
  OBVIOUS
<1>1. /\ prints = [t \in Tasks |-> NoPrint] /\ txs = [w \in Writers |-> NoTx]
  BY DEF QueueInit
<1>2. PICK one : pkgs = [[k \in Packages |-> NoPackage] EXCEPT
                           ![one] = [NoPackage EXCEPT !.state = "live", !.quantity = 1]]
  BY DEF QueueInit
<1>3. \A s \in Packages : ~pkgs[s].starred
  BY <1>2 DEF NoPackage
<1>4. \A w \in Writers : txs[w].op = "none"
  BY <1>1 DEF NoTx
<1>5. \A t \in Tasks : prints[t].st = "absent"
  BY <1>1 DEF NoPrint
<1>6. QED BY <1>3, <1>4, <1>5 DEF StarsInv, CopyOf

LEMMA ClientStepStars ==
  ASSUME QueueInv, StarsInv, NEW c \in Clients, ClientStep(c)
  PROVE  StarsInv'
<1>1. ASSUME NEW p \in Parts, NEW mc \in Machines, BeginPrint(c, p, mc)
      PROVE  StarsInv'
  <2>1. PICK tx : /\ tx = [NoTx EXCEPT !.op = "print", !.part = p, !.machine = mc]
                  /\ txs' = [txs EXCEPT ![c] = tx]
    BY <1>1 DEF BeginPrint, Begin
  <2>2. tx.op = "print" /\ tx.part = p
    BY <2>1 DEF NoTx
  <2>3. UNCHANGED <<tables, raced>> /\ parts[p].pkg # NoPkg /\ MayPrint(p) /\ c \in Writers
    BY <1>1 DEF BeginPrint, Op, tables, queueHistory, LiveParts, Writers
  <2>4. QED BY <2>1, <2>2, <2>3, MayPrintPrintable, BeginStars
<1>2. ASSUME NEW t \in Tasks, CommitPrint(c, t) \/ CancelPrint(c, t) \/ StopMachine(c, t)
      PROVE  StarsInv'
  BY <1>2, CommitPrintStars, CancellationStars
<1>3. ASSUME \/ \E moves : BeginMove(c, moves)
             \/ \E p \in Parts, n \in 1 .. MaxQuantity : BeginQuantity(c, p, n)
             \/ \E n \in 1 .. MaxQuantity : BeginAdd(c, <<n>>)
             \/ \E k \in Packages : \/ BeginAddStarred(c, k) \/ BeginUnstar(c, k)
                                    \/ BeginDeletePackage(c, k)
             \/ \E ps \in SUBSET Parts : BeginDeleteParts(c, ps)
      PROVE  StarsInv'
  <2>1. PICK tx : Begin(c, tx) /\ tx.op \notin {"print", "star"}
    <3>1. ASSUME NEW moves, BeginMove(c, moves)
          PROVE  \E tx : Begin(c, tx) /\ tx.op = "move"
      <4>1. PICK tx : /\ tx = [NoTx EXCEPT !.op = "move", !.moves = moves, !.held = Queued,
                                           !.seen = [p \in Queued |-> parts[p].position]]
                      /\ Begin(c, tx)
        BY <3>1 DEF BeginMove
      <4>2. tx.op = "move"
        BY <4>1 DEF NoTx
      <4>3. QED BY <4>1, <4>2
    <3>2. ASSUME NEW p, NEW n, BeginQuantity(c, p, n)
          PROVE  \E tx : Begin(c, tx) /\ tx.op = "quantity"
      <4>1. PICK tx : /\ tx = [NoTx EXCEPT !.op = "quantity", !.part = p, !.n = n, !.held = {p}]
                      /\ Begin(c, tx)
        BY <3>2 DEF BeginQuantity
      <4>2. tx.op = "quantity"
        BY <4>1 DEF NoTx
      <4>3. QED BY <4>1, <4>2
    <3>3. ASSUME NEW qs, BeginAdd(c, qs)
          PROVE  \E tx : Begin(c, tx) /\ tx.op = "add"
      <4>1. PICK tx : /\ tx = [NoTx EXCEPT !.op = "add", !.seen = qs, !.n = EndOfQueue]
                      /\ Begin(c, tx)
        BY <3>3 DEF BeginAdd
      <4>2. tx.op = "add"
        BY <4>1 DEF NoTx
      <4>3. QED BY <4>1, <4>2
    <3>4. ASSUME NEW k, BeginAddStarred(c, k)
          PROVE  \E tx : Begin(c, tx) /\ tx.op = "add"
      <4>1. PICK tx, qs : /\ tx = [NoTx EXCEPT !.op = "add", !.pkg = k, !.n = EndOfQueue,
                                               !.seen = qs]
                          /\ Begin(c, tx)
        BY <3>4 DEF BeginAddStarred
      <4>2. tx.op = "add"
        BY <4>1 DEF NoTx
      <4>3. QED BY <4>1, <4>2
    <3>5. ASSUME NEW k, BeginUnstar(c, k)
          PROVE  \E tx : Begin(c, tx) /\ tx.op = "unstar"
      <4>1. PICK tx : /\ tx = [NoTx EXCEPT !.op = "unstar", !.pkg = Template(k),
                                           !.held = {Template(k)}]
                      /\ Begin(c, tx)
        BY <3>5 DEF BeginUnstar
      <4>2. tx.op = "unstar"
        BY <4>1 DEF NoTx
      <4>3. QED BY <4>1, <4>2
    <3>6. ASSUME NEW k, BeginDeletePackage(c, k)
          PROVE  \E tx : Begin(c, tx) /\ tx.op = "deletePackage"
      <4>1. PICK tx, tasks : /\ tx = [NoTx EXCEPT !.op = "deletePackage", !.pkg = k,
                                       !.doomed = PackageParts(k), !.todo = tasks,
                                       !.held = {k} \cup PackageParts(k) \cup tasks]
                             /\ Begin(c, tx)
        BY <3>6 DEF BeginDeletePackage
      <4>2. tx.op = "deletePackage"
        BY <4>1 DEF NoTx
      <4>3. QED BY <4>1, <4>2
    <3>7. ASSUME NEW ps, BeginDeleteParts(c, ps)
          PROVE  \E tx : Begin(c, tx) /\ tx.op = "deleteParts"
      <4>1. PICK tx : /\ tx = [NoTx EXCEPT !.op = "deleteParts", !.doomed = ps,
                                           !.todo = PendingOf(ps), !.held = ps \cup PendingOf(ps)]
                      /\ Begin(c, tx)
        BY <3>7 DEF BeginDeleteParts
      <4>2. tx.op = "deleteParts"
        BY <4>1 DEF NoTx
      <4>3. QED BY <4>1, <4>2
    <3>8. QED BY <1>3, <3>1, <3>2, <3>3, <3>4, <3>5, <3>6, <3>7
  <2>2. UNCHANGED <<tables, raced>>
    BY <1>3 DEF BeginMove, BeginQuantity, BeginAdd, BeginAddStarred, BeginUnstar,
                BeginDeletePackage, BeginDeleteParts, Op, tables, queueHistory
  <2>3. QED BY <2>1, <2>2, BeginStepStars
<1>4. ASSUME CommitMove(c) \/ CommitQuantity(c) \/ CommitUnstar(c)
      PROVE  StarsInv'
  BY <1>4, EditStars
<1>5. ASSUME NEW k \in Packages, BeginStar(c, k)
      PROVE  StarsInv'
  BY <1>5, BeginStarStars
<1>6. ASSUME NEW k \in Packages, NEW ids, CommitAdd(c, k, ids)
      PROVE  StarsInv'
  BY <1>6, CommitAddStars
<1>7. ASSUME NEW k \in Packages, NEW ids, NEW originals, CommitStar(c, k, ids, originals)
      PROVE  StarsInv'
  BY <1>7, CommitStarStars
<1>8. ASSUME CommitDelete(c) \/ DeletionFails(c)
      PROVE  StarsInv'
  BY <1>8, DeletionStars
<1>9. QED BY <1>1, <1>2, <1>3, <1>4, <1>5, <1>6, <1>7, <1>8 DEF ClientStep

LEMMA StepStars == QueueInv /\ StarsInv /\ [QueueNext]_queueVars => StarsInv'
<1>1. ASSUME QueueInv, StarsInv, QueueNext
      PROVE  StarsInv'
  BY <1>1, MachineStepStars, ClientStepStars DEF QueueNext
<1>2. ASSUME QueueInv, StarsInv, UNCHANGED queueVars
      PROVE  StarsInv'
  <2>1. UNCHANGED <<tables, raced>> /\ RequestsFollow
    BY <1>2 DEF queueVars, tables, RequestsFollow
  <2>2. QED BY <1>2, <2>1, TablesStay, StarsStay
<1>3. QED BY <1>1, <1>2

\* A template is never printed, and a package has but one: a second one is made
\* only by two requests that star it at once (StarPackage and its lookup).
THEOREM TemplatesCorrect == QueueSpec => []TemplatesAreKept
<1>1. QueueSpec => []StarsInv
  BY InitStars, StepStars, QueueInvariant, PTL DEF QueueSpec
<1>2. ASSUME QueueInv, StarsInv
      PROVE  TemplatesAreKept
  <2>1. \A t \in Tasks : prints[t].st # "absent" => pkgs[parts[prints[t].part].pkg].quantity > 0
    BY <1>2 DEF StarsInv, Printable
  <2>2. ASSUME NEW k \in Packages \ raced
        PROVE  Cardinality({s \in LivePackages : pkgs[s].starred /\ pkgs[s].from = k}) <= 1
    <3>1. PICK copies : copies = {s \in LivePackages : pkgs[s].starred /\ pkgs[s].from = k}
      OBVIOUS
    <3>2. \A s \in copies : pkgs[k].based = s
      BY <1>2, <3>1 DEF StarsInv, CopyOf, LivePackages
    <3>3. copies = {} \/ copies = {pkgs[k].based}
      BY <3>2
    <3>4. Cardinality(copies) \in {0, 1}
      <4>1. Cardinality({pkgs[k].based}) = 1
        BY FS_Singleton
      <4>2. QED BY <3>3, <4>1, FS_EmptySet
    <3>5. QED BY <3>1, <3>4
  <2>3. QED BY <2>1, <2>2 DEF TemplatesAreKept
<1>3. QED BY <1>1, <1>2, QueueInvariant, PTL

-----------------------------------------------------------------------------
(***************************************************************************)
(* The order of the queue.                                                 *)
(***************************************************************************)
\* What a request was given and has read of the queue, whatever has changed since.
RequestOK(tx) ==
  /\ tx.op = "move" => /\ tx.seen \in [DOMAIN tx.seen -> Int]
                       /\ tx.moves \in Seq([part : DOMAIN tx.seen, to : Int])
  /\ tx.op = "add" => tx.n \in Int
  /\ tx.op = "deleteParts" => tx.pkg = NoPkg
  /\ tx.op = "deletePackage" =>
       /\ tx.pkg \in Packages /\ pkgs[tx.pkg].state # "absent"
       /\ PackageParts(tx.pkg) \subseteq tx.doomed
  /\ tx.op \in Deleting \cup Cancelling =>
       \A t \in tx.todo \cap tx.held : prints[t].st \in Pending

\* What it relies on for as long as nobody has crossed it: the places it has read
\* are those of the queue, and those it is about to write are behind them.
ReadsOK(tx) ==
  /\ tx.op = "move" =>
       /\ Queued \subseteq DOMAIN tx.seen /\ DOMAIN tx.seen \subseteq tx.held
       /\ \A p \in DOMAIN tx.seen : tx.seen[p] = parts[p].position
       /\ IsInjective(tx.seen)
  /\ tx.op = "add" => \A p \in LiveParts : parts[p].position < tx.n

\* The inductive invariant of the places. A part that is not deleted is one of
\* a package that is not, a print that is compiling has not finished, and the
\* requests that write places have read them well.
OrderInv ==
  /\ \A p \in Parts : parts[p].position \in Int
  /\ \A k \in Packages : pkgs[k].state \in {"absent", "live", "gone"}
  /\ \A t \in Tasks : prints[t].compiling => prints[t].st # "finished"
  /\ \A w \in Writers : RequestOK(txs[w])
  /\ ~tangled =>
       /\ PlacesDiffer
       /\ \A p \in LiveParts : pkgs[parts[p].pkg].state = "live"
       /\ \A w \in Writers : ~txs[w].crossed => ReadsOK(txs[w])

\* What a step of w leaves to the others, if it writes these records.
ReadsLeft(w, ids, crossing) ==
  \A v \in Writers \ {w} :
    /\ txs'[v].op = txs[v].op
    /\ txs[v].op # "none" =>
         /\ \A f \in Fields \cup {"moves"} : txs'[v][f] = txs[v][f]
         /\ txs'[v].held = txs[v].held \ ids
         /\ ~txs'[v].crossed => ~txs[v].crossed /\ ~crossing

\* No part comes to a package that exists.
PackagesFilled ==
  \A k \in Packages : pkgs[k].state # "absent" =>
    pkgs'[k].state # "absent" /\ PackageParts(k)' \subseteq PackageParts(k)

\* A print that is pending remains so unless its record is among those written.
PendingLeft(ids) ==
  \A t \in Tasks \ ids : prints[t].st \in Pending => prints'[t].st \in Pending

\* No part comes to the queue or changes its place.
PlacesLeft ==
  /\ \A p \in Parts : parts'[p].position = parts[p].position
  /\ LiveParts' \subseteq LiveParts /\ Queued' \subseteq Queued

\* The part of the invariant that is about the tables alone.
RowsOK ==
  /\ \A p \in Parts : parts[p].position \in Int
  /\ \A k \in Packages : pkgs[k].state \in {"absent", "live", "gone"}
  /\ \A t \in Tasks : prints[t].compiling => prints[t].st # "finished"

PlacesOK ==
  ~tangled => PlacesDiffer /\ \A p \in LiveParts : pkgs[parts[p].pkg].state = "live"

LEMMA TouchedReads ==
  ASSUME QueueInv, NEW w, NEW ids, NEW crossing \in BOOLEAN, Touched(w, ids, crossing)
  PROVE  ReadsLeft(w, ids, crossing)
<1> SUFFICES ASSUME NEW v \in Writers \ {w}
             PROVE  /\ txs'[v].op = txs[v].op
                    /\ txs[v].op # "none" =>
                         /\ \A f \in Fields \cup {"moves"} : txs'[v][f] = txs[v][f]
                         /\ txs'[v].held = txs[v].held \ ids
                         /\ ~txs'[v].crossed => ~txs[v].crossed /\ ~crossing
  BY DEF ReadsLeft
<1>1. DOMAIN txs[v] = {"op", "part", "pkg", "task", "n", "machine", "moves", "seen",
                       "doomed", "todo", "halt", "held", "crossed"}
  BY DEF QueueInv, TxOK, NoTx
<1>2. CASE txs[v].op = "none"
  BY <1>2 DEF Touched
<1>3. CASE txs[v].op # "none"
  <2>1. txs'[v] = [txs[v] EXCEPT !.held = @ \ ids, !.crossed = @ \/ crossing]
    BY <1>3 DEF Touched
  <2>2. txs'[v].held = txs[v].held \ ids /\ txs'[v].crossed = (txs[v].crossed \/ crossing)
    BY <1>1, <2>1
  <2>3. \A f \in Fields \cup {"moves"} : txs'[v][f] = txs[v][f]
    BY <1>1, <2>1 DEF Fields
  <2>4. txs'[v].op = txs[v].op
    BY <1>1, <2>1
  <2>5. QED BY <2>2, <2>3, <2>4
<1>4. QED BY <1>2, <1>3

LEMMA OthersUntouched ==
  ASSUME NEW w, \A v \in Writers \ {w} : txs'[v] = txs[v]
  PROVE  ReadsLeft(w, {}, FALSE)
BY DEF ReadsLeft

\* The requests of the others, after a step that fills no package.
LEMMA RequestsStay ==
  ASSUME QueueInv, OrderInv, NEW w, NEW ids, NEW crossing \in BOOLEAN,
         ReadsLeft(w, ids, crossing), PackagesFilled, PendingLeft(ids)
  PROVE  \A v \in Writers \ {w} : RequestOK(txs[v])'
<1> SUFFICES ASSUME NEW v \in Writers \ {w}, txs[v].op # "none"
             PROVE  RequestOK(txs[v])'
  <2>1. \A v \in Writers \ {w} : txs[v].op = "none" => txs'[v].op = "none"
    BY DEF ReadsLeft
  <2>2. \A v \in Writers \ {w} : txs'[v].op = "none" => RequestOK(txs[v])'
    BY DEF RequestOK, Deleting, Cancelling
  <2>3. QED BY <2>1, <2>2
<1>1. /\ txs'[v].op = txs[v].op /\ txs'[v].held = txs[v].held \ ids
      /\ txs'[v].moves = txs[v].moves /\ txs'[v].seen = txs[v].seen /\ txs'[v].n = txs[v].n
      /\ txs'[v].pkg = txs[v].pkg /\ txs'[v].todo = txs[v].todo
      /\ txs'[v].doomed = txs[v].doomed
  BY DEF ReadsLeft, Fields
<1>2. RequestOK(txs[v]) /\ txs[v].todo \subseteq Tasks
  BY DEF OrderInv, QueueInv, TxOK
<1>3. txs[v].op = "move" => /\ txs[v].seen \in [DOMAIN txs[v].seen -> Int]
                            /\ txs[v].moves \in Seq([part : DOMAIN txs[v].seen, to : Int])
  BY <1>2 DEF RequestOK
<1>4. txs[v].op = "deletePackage" =>
        /\ txs[v].pkg \in Packages /\ pkgs'[txs[v].pkg].state # "absent"
        /\ PackageParts(txs[v].pkg)' \subseteq txs[v].doomed
  <2>1. SUFFICES ASSUME txs[v].op = "deletePackage"
                 PROVE  /\ txs[v].pkg \in Packages /\ pkgs'[txs[v].pkg].state # "absent"
                        /\ PackageParts(txs[v].pkg)' \subseteq txs[v].doomed
    OBVIOUS
  <2>2. PICK k : k = txs[v].pkg
    OBVIOUS
  <2>3. k \in Packages /\ pkgs[k].state # "absent" /\ PackageParts(k) \subseteq txs[v].doomed
    BY <1>2, <2>1, <2>2 DEF RequestOK
  <2>4. pkgs'[k].state # "absent" /\ PackageParts(k)' \subseteq PackageParts(k)
    BY <2>3 DEF PackagesFilled
  <2>5. PackageParts(txs[v].pkg)' = PackageParts(k)'
    BY <1>1, <2>2 DEF PackageParts
  <2>6. QED BY <2>2, <2>3, <2>4, <2>5
<1>5. txs[v].op \in Deleting \cup Cancelling =>
        \A t \in txs[v].todo \cap (txs[v].held \ ids) : prints'[t].st \in Pending
  BY <1>2 DEF RequestOK, PendingLeft
<1>6. QED BY <1>1, <1>2, <1>3, <1>4, <1>5 DEF RequestOK

\* What the others rely on, after a step that crosses them or leaves the places.
LEMMA ReadsStay ==
  ASSUME QueueInv, OrderInv, ~tangled, NEW w, NEW ids, NEW crossing \in BOOLEAN,
         ReadsLeft(w, ids, crossing), ~crossing => PlacesLeft /\ ids \cap Parts = {}
  PROVE  \A v \in Writers \ {w} : ~txs'[v].crossed => ReadsOK(txs[v])'
<1> SUFFICES ASSUME NEW v \in Writers \ {w}, ~txs'[v].crossed, txs[v].op # "none"
             PROVE  ReadsOK(txs[v])'
  <2>1. \A v \in Writers \ {w} : txs[v].op = "none" => txs'[v].op = "none"
    BY DEF ReadsLeft
  <2>2. \A v \in Writers \ {w} : txs'[v].op = "none" => ReadsOK(txs[v])'
    BY DEF ReadsOK
  <2>3. QED BY <2>1, <2>2
<1>1. /\ txs'[v].op = txs[v].op /\ txs'[v].held = txs[v].held \ ids
      /\ txs'[v].seen = txs[v].seen /\ txs'[v].n = txs[v].n
      /\ ~txs[v].crossed /\ ~crossing
  BY DEF ReadsLeft, Fields
<1>2. ReadsOK(txs[v]) /\ PlacesLeft /\ ids \cap Parts = {}
  BY <1>1 DEF OrderInv
<1>3. txs[v].op = "move" =>
       /\ Queued' \subseteq DOMAIN txs[v].seen /\ DOMAIN txs[v].seen \subseteq txs[v].held \ ids
       /\ \A p \in DOMAIN txs[v].seen : txs[v].seen[p] = parts'[p].position
       /\ IsInjective(txs[v].seen)
  <2>1. txs[v].op = "move" => DOMAIN txs[v].seen \subseteq Parts
    BY DEF QueueInv, TxOK
  <2>2. QED BY <1>2, <2>1 DEF ReadsOK, PlacesLeft
<1>4. txs[v].op = "add" => \A p \in LiveParts' : parts'[p].position < txs[v].n
  BY <1>2 DEF ReadsOK, PlacesLeft, LiveParts
<1>5. QED BY <1>1, <1>3, <1>4 DEF ReadsOK

\* The invariant, from what the step does to the tables and to its own request.
LEMMA OrderStays ==
  ASSUME QueueInv, OrderInv, NEW w, NEW ids, NEW crossing \in BOOLEAN,
         ReadsLeft(w, ids, crossing), ~crossing => PlacesLeft /\ ids \cap Parts = {},
         PackagesFilled, PendingLeft(ids), tangled => tangled', RowsOK', PlacesOK',
         w \in Writers => RequestOK(txs[w])' /\ (~tangled' => ReadsOK(txs[w])')
  PROVE  OrderInv'
<1>1. \A v \in Writers : RequestOK(txs[v])'
  BY RequestsStay
<1>2. ~tangled' => \A v \in Writers : ~txs'[v].crossed => ReadsOK(txs[v])'
  BY ReadsStay
<1>3. QED BY <1>1, <1>2 DEF OrderInv, RowsOK, PlacesOK

\* Packages keep what the queue shows of them.
PackagesAlike ==
  \A k \in Packages : pkgs'[k].state = pkgs[k].state /\ pkgs'[k].quantity = pkgs[k].quantity

FinishedStay ==
  \A t \in Tasks : prints[t].st = "finished" =>
    prints'[t].st = "finished" /\ prints'[t].part = prints[t].part

\* Prints that finish take parts from the queue, and nothing else does.
LEMMA QueueShrinks ==
  ASSUME QueueInv, UNCHANGED parts, PackagesAlike, FinishedStay
  PROVE  LiveParts' = LiveParts /\ PackagesFilled /\ PlacesLeft
<1>1. LiveParts' = LiveParts
  BY DEF LiveParts
<1>2. PackagesFilled
  BY DEF PackagesFilled, PackageParts, LiveParts, PackagesAlike
<1>3. ASSUME NEW p \in LiveParts
      PROVE  TotalPrints(p)' = TotalPrints(p) /\ TotalPrints(p) \in Nat
  <2>1. p \in Parts /\ parts[p].pkg # NoPkg
    BY DEF LiveParts
  <2>2. parts[p].pkg \in Packages
    BY <2>1 DEF QueueInv, TablesOK, PartOK
  <2>3. TotalPrints(p)' = TotalPrints(p)
    BY <2>2 DEF PackagesAlike, TotalPrints
  <2>4. QED BY <2>1, <2>3, TotalIsCovered DEF QueueInv
<1>4. ASSUME NEW p \in LiveParts
      PROVE  /\ PrintsCompleted(p) \in Nat /\ PrintsCompleted(p)' \in Nat
             /\ PrintsCompleted(p) <= PrintsCompleted(p)'
  <2>1. PICK a, b : a = Printed(p, {"finished"}) /\ b = Printed(p, {"finished"})'
    OBVIOUS
  <2>2. a \subseteq b /\ b \subseteq Tasks
    BY <2>1 DEF Printed, FinishedStay
  <2>3. IsFiniteSet(Tasks)
    BY QueueAssumption, FS_Interval DEF Tasks
  <2>4. IsFiniteSet(b)
    BY <2>2, <2>3, FS_Subset
  <2>5. IsFiniteSet(a) /\ Cardinality(a) <= Cardinality(b)
    BY <2>2, <2>4, FS_Subset
  <2>6. Cardinality(a) \in Nat /\ Cardinality(b) \in Nat
    BY <2>4, <2>5, FS_CardinalityType
  <2>7. PrintsCompleted(p) = Cardinality(a) /\ PrintsCompleted(p)' = Cardinality(b)
    BY <2>1 DEF PrintsCompleted
  <2>8. QED BY <2>5, <2>6, <2>7
<1>5. Queued' \subseteq Queued
  BY <1>1, <1>3, <1>4 DEF Queued
<1>6. QED BY <1>1, <1>2, <1>5 DEF PlacesLeft

\* A step that leaves parts and packages.
LEMMA QuietOrder ==
  ASSUME QueueInv, OrderInv, NEW w, NEW ids, NEW crossing \in BOOLEAN,
         ReadsLeft(w, ids, crossing), ids \cap Parts = {},
         UNCHANGED <<parts, tangled>>, PackagesAlike, FinishedStay, PendingLeft(ids),
         \A t \in Tasks : prints'[t].compiling => prints'[t].st # "finished",
         w \in Writers => RequestOK(txs[w])' /\ (~tangled => ReadsOK(txs[w])')
  PROVE  OrderInv'
<1>1. LiveParts' = LiveParts /\ PackagesFilled /\ PlacesLeft
  BY QueueShrinks
<1>2. RowsOK'
  BY DEF RowsOK, OrderInv, PackagesAlike
<1>3. PlacesOK'
  <2>1. SUFFICES ASSUME ~tangled'
                 PROVE  PlacesDiffer' /\ \A p \in LiveParts' : pkgs'[parts'[p].pkg].state = "live"
    BY DEF PlacesOK
  <2>2. PlacesDiffer /\ \A p \in LiveParts : pkgs[parts[p].pkg].state = "live"
    BY <2>1 DEF OrderInv
  <2>3. PlacesDiffer'
    BY <1>1, <2>1, <2>2 DEF PlacesDiffer, PlacesLeft
  <2>4. \A p \in LiveParts : parts[p].pkg \in Packages
    BY DEF LiveParts, QueueInv, TablesOK, PartOK
  <2>5. QED BY <1>1, <2>2, <2>3, <2>4 DEF PackagesAlike
<1>4. QED BY <1>1, <1>2, <1>3, OrderStays

\* A request that only begins, or is given up.
LEMMA BeginOrder ==
  ASSUME QueueInv, OrderInv, NEW c \in Writers, \A v \in Writers \ {c} : txs'[v] = txs[v],
         UNCHANGED <<tables, tangled>>, RequestOK(txs[c])', ~tangled => ReadsOK(txs[c])'
  PROVE  OrderInv'
<1>1. ReadsLeft(c, {}, FALSE)
  BY OthersUntouched
<1>2. UNCHANGED <<parts, pkgs, prints, tangled>>
  BY DEF tables
<1>3. PackagesAlike /\ FinishedStay /\ PendingLeft({})
  BY <1>2 DEF PackagesAlike, FinishedStay, PendingLeft
<1>4. \A t \in Tasks : prints'[t].compiling => prints'[t].st # "finished"
  BY <1>2 DEF OrderInv
<1>5. QED BY <1>1, <1>2, <1>3, <1>4, QuietOrder

\* The records of one print at most are written, and none that has finished.
LEMMA OnePrintOrder ==
  ASSUME QueueInv, OrderInv, NEW w, NEW ids, NEW crossing \in BOOLEAN,
         ReadsLeft(w, ids, crossing), ids \subseteq Tasks,
         UNCHANGED <<parts, tangled>>, PackagesAlike,
         NEW t \in Tasks, \A u \in Tasks \ {t} : prints'[u] = prints[u],
         prints[t].st # "finished", prints'[t].compiling => prints'[t].st # "finished",
         prints[t].st \in Pending /\ t \notin ids => prints'[t].st \in Pending,
         w \in Writers => RequestOK(txs[w])' /\ (~tangled => ReadsOK(txs[w])')
  PROVE  OrderInv'
<1>1. FinishedStay /\ PendingLeft(ids)
  BY DEF FinishedStay, PendingLeft
<1>2. \A u \in Tasks : prints'[u].compiling => prints'[u].st # "finished"
  BY DEF OrderInv
<1>3. ids \cap Parts = {}
  BY QueueAssumption
<1>4. QED BY <1>1, <1>2, <1>3, QuietOrder

\* A request that has ended, or begun nothing that is asked of it here.
LEMMA IdleOrder ==
  ASSUME NEW w, txs'[w].op \in {"none", "print", "settle", "star", "unstar", "quantity"}
  PROVE  RequestOK(txs[w])' /\ ReadsOK(txs[w])'
BY DEF RequestOK, ReadsOK, Deleting, Cancelling

LEMMA KeepReads ==
  ASSUME QueueInv, NEW w, NEW tx, NEW ids, NEW crossing \in BOOLEAN, Keep(w, tx, ids, crossing)
  PROVE  ReadsLeft(w, ids, crossing) /\ (w \in Writers /\ txs[w].op # "none" => txs'[w] = tx)
BY KeepTouches, TouchedReads

LEMMA MachineStepOrder ==
  ASSUME QueueInv, OrderInv, MachineStep
  PROVE  OrderInv'
<1>1. prints \in [Tasks -> PrintRecord]
  BY DEF QueueInv, TablesOK
<1>2. NoPart \notin Writers /\ Machines \subseteq Writers /\ NoTx.op = "none"
  BY QueueAssumption DEF NoTx, Writers
<1>3. ASSUME NEW t \in Tasks, NEW st \in Pending, SpoolPrint(t) \/ RefusePrint(t) \/ Progress(t, st)
      PROVE  OrderInv'
  <2>1. UNCHANGED <<parts, pkgs, tangled>>
    BY <1>3 DEF SpoolPrint, RefusePrint, Progress, queueHistory
  <2>2. PICK b : b = prints[t] /\ b \in PrintRecord
    BY <1>1
  <2>3. PICK ids, crossing, row :
          /\ ReadsLeft(NoPart, ids, crossing) /\ ids \subseteq {t} /\ crossing \in BOOLEAN
          /\ prints' = [prints EXCEPT ![t] = row]
          /\ b.st # "finished" /\ (row.compiling => row.st # "finished")
          /\ b.st \in Pending /\ t \notin ids => row.st \in Pending
    <3>1. CASE SpoolPrint(t)
      <4>1. PICK lands \in BOOLEAN : lands = (b.fresh \/ b.late)
        BY <2>2 DEF PrintRecord
      <4>2. PICK row : /\ row = [b EXCEPT !.compiling = FALSE, !.fresh = FALSE, !.late = FALSE,
                                          !.st = IF b.fresh \/ b.late THEN "sent" ELSE b.st]
                       /\ prints' = [prints EXCEPT ![t] = row]
        BY <2>2, <3>1 DEF SpoolPrint
      <4>3. ~row.compiling /\ (~lands => row.st = b.st) /\ (lands => row.st = "sent")
        BY <2>2, <4>1, <4>2 DEF PrintRecord
      <4>4. b.st # "finished"
        BY <2>2, <3>1 DEF SpoolPrint, OrderInv
      <4>5. PICK crossing, ids : /\ Keep(NoPart, NoTx, ids, crossing) /\ crossing \in BOOLEAN
                                 /\ ids \subseteq {t} /\ (~lands => ids = {})
        <5>1. PICK over \in BOOLEAN : over = (b.st \notin Pending)
          OBVIOUS
        <5>2. PICK ids : ids = IF b.fresh \/ b.late THEN {t} ELSE {}
          OBVIOUS
        <5>3. Keep(NoPart, NoTx, ids, (b.fresh \/ b.late) /\ b.st \notin Pending)
          BY <2>2, <3>1, <5>2 DEF SpoolPrint
        <5>4. Keep(NoPart, NoTx, ids, lands /\ over)
          BY <4>1, <5>1, <5>3
        <5>5. PICK crossing \in BOOLEAN : Keep(NoPart, NoTx, ids, crossing)
          BY <5>4
        <5>6. QED BY <4>1, <5>2, <5>5
      <4>6. ReadsLeft(NoPart, ids, crossing)
        BY <4>5, KeepReads
      <4>7. b.st \in Pending => row.st \in Pending
        BY <4>1, <4>3 DEF Pending
      <4>8. QED BY <4>2, <4>3, <4>4, <4>5, <4>6, <4>7
    <3>2. CASE RefusePrint(t)
      <4>1. PICK row : /\ row = [b EXCEPT !.st = "errored", !.fresh = FALSE, !.late = FALSE,
                                          !.compiling = FALSE]
                       /\ prints' = [prints EXCEPT ![t] = row]
        BY <1>1, <2>2, <3>2 DEF RefusePrint, Rewrite, PrintRecord
      <4>2. ~row.compiling
        BY <2>2, <4>1 DEF PrintRecord
      <4>3. b.st # "finished"
        BY <2>2, <3>2 DEF RefusePrint, OrderInv
      <4>4. PICK no \in BOOLEAN : ReadsLeft(NoPart, {t}, no)
        BY <3>2, KeepReads DEF RefusePrint
      <4>5. QED BY <4>1, <4>2, <4>3, <4>4
    <3>3. CASE Progress(t, st)
      <4>1. PICK row : /\ row = [b EXCEPT !.st = st, !.fresh = FALSE, !.late = b.fresh]
                       /\ prints' = [prints EXCEPT ![t] = row]
        BY <2>2, <3>3 DEF Progress, Rewrite
      <4>2. ~row.compiling
        BY <2>2, <3>3, <4>1 DEF Progress, PrintRecord, QueueInv, PrintOK
      <4>3. b.st # "finished"
        BY <2>2, <3>3 DEF Progress
      <4>4. PICK no \in BOOLEAN : ReadsLeft(NoPart, {t}, no)
        BY <3>3, KeepReads DEF Progress
      <4>5. QED BY <4>1, <4>2, <4>3, <4>4
    <3>4. QED BY <1>3, <3>1, <3>2, <3>3
  <2>4. prints'[t] = row /\ \A u \in Tasks \ {t} : prints'[u] = prints[u]
    BY <1>1, <2>3
  <2>5. PackagesAlike
    BY <2>1 DEF PackagesAlike
  <2>6. /\ prints[t].st # "finished" /\ (prints'[t].compiling => prints'[t].st # "finished")
        /\ prints[t].st \in Pending /\ t \notin ids => prints'[t].st \in Pending
    BY <2>2, <2>3, <2>4
  <2>7. ids \subseteq Tasks
    BY <2>3
  <2>8. QED BY <1>2, <2>1, <2>3, <2>4, <2>5, <2>6, <2>7, OnePrintOrder
<1>4. ASSUME NEW t \in Tasks, NEW o \in Final, Skip(t) \/ End(t, o)
      PROVE  OrderInv'
  <2>1. UNCHANGED <<parts, pkgs, prints, txs, tangled>>
    BY <1>4 DEF Skip, End, tables, queueHistory
  <2>2. ReadsLeft(NoPart, {}, FALSE)
    BY <2>1, OthersUntouched
  <2>3. PackagesAlike /\ FinishedStay /\ PendingLeft({})
    BY <2>1 DEF PackagesAlike, FinishedStay, PendingLeft
  <2>4. \A u \in Tasks : prints'[u].compiling => prints'[u].st # "finished"
    BY <2>1 DEF OrderInv
  <2>5. QED BY <1>2, <2>1, <2>2, <2>3, <2>4, QuietOrder
<1>5. ASSUME NEW t \in Tasks, NEW next, BeginSettle(t, next)
      PROVE  OrderInv'
  <2>1. PICK mc \in Machines : mc = prints[t].machine
    BY <1>5 DEF BeginSettle, QueueInv, PrintOK
  <2>2. PICK tx : /\ tx = [NoTx EXCEPT !.op = "settle", !.part = next, !.task = t, !.held = {t}]
                  /\ txs' = [txs EXCEPT ![mc] = tx]
    BY <1>5, <2>1 DEF BeginSettle
  <2>3. UNCHANGED <<tables, tangled>> /\ mc \in Writers
    BY <1>2, <1>5 DEF BeginSettle, queueHistory
  <2>4. tx.op = "settle"
    BY <2>2 DEF NoTx
  <2>5. txs'[mc] = tx /\ \A v \in Writers \ {mc} : txs'[v] = txs[v]
    BY <2>2, <2>3 DEF QueueInv
  <2>6. QED BY <2>3, <2>4, <2>5, IdleOrder, BeginOrder
<1>6. ASSUME NEW mc \in Machines, AbortSettle(mc)
      PROVE  OrderInv'
  <2>1. txs' = [txs EXCEPT ![mc] = NoTx] /\ UNCHANGED <<tables, tangled>> /\ mc \in Writers
    BY <1>2, <1>6 DEF AbortSettle, queueHistory
  <2>2. txs'[mc] = NoTx /\ \A v \in Writers \ {mc} : txs'[v] = txs[v]
    BY <2>1 DEF QueueInv
  <2>3. QED BY <1>2, <2>1, <2>2, IdleOrder, BeginOrder
<1>7. ASSUME NEW mc \in Machines, NEW t \in Tasks, CommitSettle(mc, t)
      PROVE  OrderInv'
  <2>1. txs[mc].op = "settle" /\ SettleTxOK(mc, txs[mc]) /\ mc \in Writers
    BY <1>2, <1>7 DEF CommitSettle, QueueInv, TxOK
  <2>2. PICK u \in Tasks : /\ u = txs[mc].task /\ u \in txs[mc].held
                           /\ prints[u].st \in Pending /\ outcome[u] \in Final
    BY <2>1 DEF SettleTxOK
  <2>3. PICK table : table = Rewrite(u, outcome[u], prints)
    OBVIOUS
  <2>4. /\ DOMAIN table = Tasks /\ \A v \in Tasks \ {u} : table[v] = prints[v]
        /\ table[u].compiling = prints[u].compiling
    BY <1>1, <2>3 DEF Rewrite, PrintRecord
  <2>5. ~prints[u].compiling
    BY <2>2 DEF QueueInv, PrintOK, Final
  <2>6. Settled(mc) = table
    BY <2>2, <2>3 DEF Settled, Update
  <2>7. \/ prints' = table
        \/ /\ prints[t].st = "absent"
           /\ \E row : prints' = [table EXCEPT ![t] = row] /\ row.st = "created"
    <3>1. CASE txs[mc].part = NoPart
      BY <1>7, <2>6, <3>1 DEF CommitSettle
    <3>2. CASE txs[mc].part # NoPart
      <4>1. InsertPrint(mc, t, txs[mc].part, mc, TRUE, table) /\ t \in NewPrint
        BY <1>7, <2>6, <3>2 DEF CommitSettle
      <4>2. PICK row : row = [part |-> txs[mc].part, st |-> "created", machine |-> mc,
                              auto |-> TRUE, compiling |-> TRUE, fresh |-> TRUE,
                              late |-> FALSE]
        OBVIOUS
      <4>3. prints' = [table EXCEPT ![t] = row] /\ row.st = "created" /\ prints[t].st = "absent"
        BY <4>1, <4>2 DEF InsertPrint, NewPrint
      <4>4. QED BY <4>3
    <3>3. QED BY <3>1, <3>2
  <2>8. /\ \A v \in Tasks \ {u} : \/ prints'[v] = prints[v]
                                  \/ prints[v].st = "absent" /\ prints'[v].st = "created"
        /\ ~prints'[u].compiling
    <3>1. "absent" \notin Pending
      BY DEF Pending
    <3>2. QED BY <2>2, <2>4, <2>5, <2>7, <3>1
  <2>9. FinishedStay /\ PendingLeft({u})
    BY <2>2, <2>8 DEF FinishedStay, PendingLeft, Pending
  <2>10. \A v \in Tasks : prints'[v].compiling => prints'[v].st # "finished"
    BY <2>8 DEF OrderInv
  <2>11. PICK crossing \in BOOLEAN : Keep(mc, NoTx, {u}, crossing)
    <3>1. {txs[mc].task} \cap txs[mc].held = {u}
      BY <2>2
    <3>2. Keep(mc, NoTx, {u}, txs[mc].part # NoPart)
      BY <1>7, <3>1 DEF CommitSettle, Close
    <3>3. QED BY <3>2
  <2>12. ReadsLeft(mc, {u}, crossing) /\ txs'[mc] = NoTx
    BY <2>1, <2>11, KeepReads
  <2>13. UNCHANGED <<parts, tangled>> /\ PackagesAlike
    BY <1>7 DEF CommitSettle, PackagesAlike
  <2>14. {u} \cap Parts = {}
    BY QueueAssumption
  <2>15. QED BY <1>2, <2>9, <2>10, <2>12, <2>13, <2>14, IdleOrder, QuietOrder
<1>8. "created" \in Pending /\ "finished" \in Final
  BY DEF Pending, Final
<1>9. ASSUME NEW ts \in SUBSET Tasks, NEW next, prints' = Rewritten(ts, next),
             Keep(NoPart, NoTx, ts, FALSE), UNCHANGED <<parts, pkgs, tangled>>,
             \A t \in ts : /\ prints[t].st \in Pending
                           /\ next[t] \in {"absent"} \cup Pending \cup (Final \ {"finished"})
      PROVE  OrderInv'
  <2>1. \A t \in ts : next[t] \in {"absent"} \cup Pending \cup Final
    BY <1>9
  <2>2. /\ \A t \in Tasks : /\ prints'[t].part = prints[t].part
                            /\ prints'[t].compiling = prints[t].compiling
        /\ \A t \in ts : prints'[t].st = next[t]
        /\ \A t \in Tasks \ ts : prints'[t] = prints[t]
    BY <1>9, <2>1, RewrittenAre
  <2>3. \A t \in ts : prints[t].st # "finished" /\ prints'[t].st # "finished"
    BY <1>9, <2>2 DEF Pending
  <2>4. FinishedStay /\ PendingLeft(ts)
    BY <2>2, <2>3 DEF FinishedStay, PendingLeft
  <2>5. \A t \in Tasks : prints'[t].compiling => prints'[t].st # "finished"
    BY <2>2, <2>3 DEF OrderInv
  <2>6. PICK no \in BOOLEAN : ReadsLeft(NoPart, ts, no)
    BY <1>9, KeepReads
  <2>7. ts \cap Parts = {} /\ PackagesAlike
    BY <1>9, QueueAssumption DEF PackagesAlike
  <2>8. QED BY <1>2, <1>9, <2>4, <2>5, <2>6, <2>7, QuietOrder
<1>10. ASSUME NEW mc \in Machines, DriverLost(mc) \/ RecordBlocking(mc)
       PROVE  OrderInv'
  <2>1. UNCHANGED <<parts, pkgs, tangled>>
    BY <1>10 DEF DriverLost, RecordBlocking, queueHistory
  <2>2. CASE DriverLost(mc)
    <3>1. PICK ts, next : /\ ts = {t \in Tasks : prints[t].machine = mc /\ prints[t].st \in Pending}
                          /\ next = [t \in Tasks |-> "errored"]
      OBVIOUS
    <3>2. prints' = Rewritten(ts, next) /\ Keep(NoPart, NoTx, ts, FALSE)
      BY <2>2, <3>1 DEF DriverLost
    <3>3. /\ ts \in SUBSET Tasks
          /\ \A t \in ts : /\ prints[t].st \in Pending
                           /\ next[t] \in {"absent"} \cup Pending \cup (Final \ {"finished"})
      BY <3>1 DEF Final
    <3>4. QED BY <1>9, <2>1, <3>2, <3>3
  <2>3. CASE RecordBlocking(mc)
    <3>1. PICK ts, next :
            /\ ts = {t \in Tasks : prints[t].machine = mc /\ prints[t].st \in Pending \ {"paused"}}
            /\ next = [t \in Tasks |-> prints[t].st]
      OBVIOUS
    <3>2. prints' = Rewritten(ts, next) /\ Keep(NoPart, NoTx, ts, FALSE)
      BY <2>3, <3>1 DEF RecordBlocking
    <3>3. /\ ts \in SUBSET Tasks
          /\ \A t \in ts : /\ prints[t].st \in Pending
                           /\ next[t] \in {"absent"} \cup Pending \cup (Final \ {"finished"})
      BY <3>1
    <3>4. QED BY <1>9, <2>1, <3>2, <3>3
  <2>4. QED BY <1>10, <2>2, <2>3
<1>11. QED BY <1>3, <1>4, <1>5, <1>6, <1>7, <1>8, <1>10 DEF MachineStep

\* The numbers that f gives the elements of A, and one that is there in any case.
Given(A, f, least) == {f[a] : a \in A} \cup {least}

\* Among finitely many numbers there is a largest.
LEMMA LargestExists ==
  ASSUME NEW A, IsFiniteSet(A), NEW f \in [A -> Int], NEW least \in Int
  PROVE  \E x \in Given(A, f, least) : \A y \in Given(A, f, least) : x >= y
<1>0. PICK n \in Nat : ExistsBijection(1 .. n, A)
  BY FS_CardinalityType
<1>1. PICK s : s \in Bijection(1 .. n, A)
  BY <1>0 DEF ExistsBijection
<1>2. s \in [1 .. n -> A] /\ \A a \in A : \E i \in 1 .. n : s[i] = a
  BY <1>1 DEF Bijection, Surjection, Injection
<1> DEFINE Ahead(k) == {f[s[i]] : i \in 1 .. k} \cup {least}
           T == {k \in 0 .. n : \E x \in Ahead(k) : \A y \in Ahead(k) : x >= y}
<1>3. 0 \in T
  <2>1. Ahead(0) = {least}
    OBVIOUS
  <2>2. least >= least
    OBVIOUS
  <2>3. \E x \in Ahead(0) : \A y \in Ahead(0) : x >= y
    BY <2>1, <2>2
  <2>4. QED BY <2>3
<1>4. ASSUME NEW k \in 0 .. n - 1, k \in T
      PROVE  k + 1 \in T
  <2>1. PICK x \in Ahead(k) : \A y \in Ahead(k) : x >= y
    BY <1>4
  <2>2. k + 1 \in 1 .. n /\ k + 1 \in 0 .. n
    OBVIOUS
  <2>3. PICK z \in Int : z = f[s[k + 1]]
    BY <1>2, <2>2
  <2>4. Ahead(k + 1) = Ahead(k) \cup {z}
    <3>1. 1 .. k + 1 = (1 .. k) \cup {k + 1}
      OBVIOUS
    <3>2. QED BY <2>3, <3>1
  <2>5. Ahead(k) \subseteq Int
    <3>1. \A i \in 1 .. k : f[s[i]] \in Int
      BY <1>2
    <3>2. QED BY <3>1
  <2> HIDE DEF Ahead
  <2>6. CASE x >= z
    BY <2>1, <2>2, <2>4, <2>6
  <2>7. CASE z > x
    <3>1. \A y \in Ahead(k + 1) : z >= y
      BY <2>1, <2>3, <2>4, <2>5, <2>7
    <3>2. QED BY <2>2, <2>4, <3>1
  <2>8. QED BY <2>1, <2>3, <2>5, <2>6, <2>7
<1>5. 0 .. n \subseteq T
  <2> HIDE DEF T
  <2>1. QED BY <1>3, <1>4, IntervalInduction
<1>6. Ahead(n) = Given(A, f, least)
  BY <1>2 DEF Given
<1>7. n \in T
  BY <1>5
<1> HIDE DEF Ahead
<1>8. QED BY <1>6, <1>7

LEMMA EndIsBehind ==
  ASSUME OrderInv
  PROVE  /\ EndOfQueue \in Int
         /\ \A p \in Parts : parts[p].pkg \in LivePackages => parts[p].position < EndOfQueue
<1> DEFINE A == {q \in Parts : parts[q].pkg \in LivePackages}
           f == [p \in A |-> parts[p].position]
           all == {parts[p].position : p \in A}
<1>1. IsFiniteSet(A)
  BY QueueAssumption, FS_Subset
<1>2. f \in [A -> Int] /\ all \subseteq Int
  BY DEF OrderInv
<1>3. {f[a] : a \in A} = all
  OBVIOUS
<1>4. \E x \in {f[a] : a \in A} \cup {-1} : \A y \in {f[a] : a \in A} \cup {-1} : x >= y
  <2>1. PICK B, g : B = A /\ g = f
    OBVIOUS
  <2>2. IsFiniteSet(B) /\ g \in [B -> Int]
    BY <1>1, <1>2, <2>1
  <2>3. PICK least \in Int : least = -1
    OBVIOUS
  <2> HIDE DEF A, f, all
  <2>4. \E x \in Given(B, g, least) : \A y \in Given(B, g, least) : x >= y
    BY <2>2, LargestExists
  <2>5. Given(B, g, least) = {f[a] : a \in A} \cup {-1}
    BY <2>1, <2>3 DEF Given
  <2>6. QED BY <2>4, <2>5
<1>5. PICK m : m = CHOOSE x \in all \cup {-1} : \A y \in all \cup {-1} : x >= y
  OBVIOUS
<1>6. m \in all \cup {-1} /\ \A y \in all \cup {-1} : m >= y
  <2> HIDE DEF all, f, A
  <2>1. QED BY <1>3, <1>4, <1>5
<1>7. EndOfQueue = m + 1
  BY <1>5 DEF EndOfQueue, Max
<1>8. m \in Int
  BY <1>2, <1>6
<1>9. \A p \in A : parts[p].position \in Int /\ parts[p].position <= m
  BY <1>2, <1>6
<1>10. QED BY <1>7, <1>8, <1>9

\* The reads of a request that moves parts, or adds some.
LEMMA BeginMoveOrder ==
  ASSUME QueueInv, OrderInv, NEW c \in Clients, NEW n \in 1 .. MaxMoves,
         NEW moves \in [1 .. n -> Moves], BeginMove(c, moves)
  PROVE  OrderInv'
<1>1. PICK tx : /\ tx = [NoTx EXCEPT !.op = "move", !.moves = moves, !.held = Queued,
                                     !.seen = [p \in Queued |-> parts[p].position]]
                /\ txs' = [txs EXCEPT ![c] = tx]
  BY DEF BeginMove, Begin
<1>2. /\ UNCHANGED <<tables, tangled>> /\ c \in Writers
      /\ \A i \in DOMAIN moves : moves[i].part \in Queued
  BY DEF BeginMove, Op, tables, queueHistory, Writers
<1>3. txs'[c] = tx /\ \A v \in Writers \ {c} : txs'[v] = txs[v]
  BY <1>1, <1>2 DEF QueueInv
<1>4. PICK seen : seen = [p \in Queued |-> parts[p].position]
  OBVIOUS
<1>5. tx.op = "move" /\ tx.moves = moves /\ tx.held = Queued /\ tx.seen = seen
  BY <1>1, <1>4 DEF NoTx
<1>6. DOMAIN seen = Queued /\ seen \in [Queued -> Int]
  BY <1>4 DEF OrderInv, Queued, LiveParts
<1>7. moves \in Seq([part : Queued, to : Int])
  <2>1. n \in Nat /\ 0 .. Cardinality(Parts) \subseteq Int
    BY QueueAssumption
  <2>2. \A i \in 1 .. n : moves[i] \in [part : Queued, to : Int]
    BY <1>2, <2>1 DEF Moves
  <2>3. PICK S : S = [part : Queued, to : Int]
    OBVIOUS
  <2>4. moves \in [1 .. n -> S]
    BY <2>2, <2>3
  <2>5. moves \in Seq(S)
    BY <2>1, <2>4
  <2>6. QED BY <2>3, <2>5
<1>8. RequestOK(txs[c])'
  BY <1>3, <1>5, <1>6, <1>7 DEF RequestOK, Deleting, Cancelling
<1>9. Queued' = Queued
  BY <1>2 DEF tables, Queued, LiveParts, TotalPrints, PrintsCompleted, Printed
<1>10. ASSUME ~tangled
       PROVE  ReadsOK(txs[c])'
  <2>1. \A p, q \in Queued : p # q => parts[p].position # parts[q].position
    BY <1>10 DEF OrderInv, PlacesDiffer
  <2>2. \A p \in Queued : seen[p] = parts'[p].position
    BY <1>2, <1>4 DEF tables
  <2>3. IsInjective(seen)
    BY <1>4, <2>1 DEF IsInjective
  <2>4. QED BY <1>3, <1>5, <1>6, <1>9, <2>2, <2>3 DEF ReadsOK
<1>11. QED BY <1>2, <1>3, <1>8, <1>10, BeginOrder

LEMMA BeginAddOrder ==
  ASSUME QueueInv, OrderInv, NEW c \in Clients, NEW tx, Begin(c, tx),
         tx.op = "add", tx.n = EndOfQueue, UNCHANGED <<tables, tangled>>
  PROVE  OrderInv'
<1>1. c \in Writers /\ txs'[c] = tx /\ \A v \in Writers \ {c} : txs'[v] = txs[v]
  BY DEF Begin, QueueInv, Writers
<1>2. RequestOK(txs[c])'
  BY <1>1, EndIsBehind DEF RequestOK, Deleting, Cancelling
<1>3. ASSUME ~tangled
      PROVE  ReadsOK(txs[c])'
  <2>1. \A p \in LiveParts : p \in Parts /\ parts[p].pkg \in LivePackages
    BY <1>3 DEF OrderInv, LivePackages, LiveParts, QueueInv, TablesOK, PartOK
  <2>2. LiveParts' = LiveParts /\ UNCHANGED parts
    BY DEF tables, LiveParts
  <2>3. QED BY <1>1, <2>1, <2>2, EndIsBehind DEF ReadsOK
<1>4. QED BY <1>1, <1>2, <1>3, BeginOrder

LEMMA BeginIdleOrder ==
  ASSUME QueueInv, OrderInv, NEW c \in Clients, NEW tx, Begin(c, tx), UNCHANGED <<tables, tangled>>,
         tx.op \in {"print", "star", "unstar", "quantity"}
  PROVE  OrderInv'
<1>1. c \in Writers /\ txs'[c] = tx /\ \A v \in Writers \ {c} : txs'[v] = txs[v]
  BY DEF Begin, QueueInv, Writers
<1>2. RequestOK(txs[c])' /\ ReadsOK(txs[c])'
  BY <1>1, IdleOrder
<1>3. QED BY <1>1, <1>2, BeginOrder

LEMMA BeginDeletionOrder ==
  ASSUME QueueInv, OrderInv, NEW c \in Clients,
         \/ \E ps \in SUBSET Parts : BeginDeleteParts(c, ps)
         \/ \E k \in Packages : BeginDeletePackage(c, k)
  PROVE  OrderInv'
<1>1. UNCHANGED <<tables, tangled>> /\ c \in Writers
  BY DEF BeginDeleteParts, BeginDeletePackage, Op, tables, queueHistory, Writers
<1>2. PICK tx, ps : /\ Begin(c, tx) /\ tx.todo = PendingOf(ps) /\ tx.op \in Deleting
                    /\ tx.op = "deleteParts" => tx.pkg = NoPkg
                    /\ tx.op = "deletePackage" =>
                         tx.pkg \in LivePackages /\ tx.doomed = PackageParts(tx.pkg)
  <2>1. ASSUME NEW ps, BeginDeleteParts(c, ps)
        PROVE  \E tx : /\ Begin(c, tx) /\ tx.todo = PendingOf(ps)
                       /\ tx.op = "deleteParts" /\ tx.pkg = NoPkg
    <3>1. PICK tx : /\ tx = [NoTx EXCEPT !.op = "deleteParts", !.doomed = ps,
                                         !.todo = PendingOf(ps), !.held = ps \cup PendingOf(ps)]
                    /\ Begin(c, tx)
      BY <2>1 DEF BeginDeleteParts
    <3>2. tx.todo = PendingOf(ps) /\ tx.op = "deleteParts" /\ tx.pkg = NoPkg
      BY <3>1 DEF NoTx
    <3>3. QED BY <3>1, <3>2
  <2>2. ASSUME NEW k \in Packages, BeginDeletePackage(c, k)
        PROVE  \E tx, ps : /\ Begin(c, tx) /\ tx.todo = PendingOf(ps)
                           /\ tx.op = "deletePackage" /\ tx.pkg \in LivePackages
                           /\ tx.doomed = PackageParts(tx.pkg)
    <3>1. PICK tx, ps, tasks :
            /\ tx = [NoTx EXCEPT !.op = "deletePackage", !.pkg = k,
                                 !.doomed = PackageParts(k), !.todo = tasks,
                                 !.held = {k} \cup PackageParts(k) \cup tasks]
            /\ tasks = PendingOf(ps) /\ Begin(c, tx) /\ k \in LivePackages
      BY <2>2 DEF BeginDeletePackage
    <3>2. /\ tx.todo = PendingOf(ps) /\ tx.op = "deletePackage" /\ tx.pkg = k
          /\ tx.doomed = PackageParts(k)
      BY <3>1 DEF NoTx
    <3>3. QED BY <3>1, <3>2
  <2>3. CASE \E ps \in SUBSET Parts : BeginDeleteParts(c, ps)
    <3>1. PICK ps, tx : /\ Begin(c, tx) /\ tx.todo = PendingOf(ps)
                        /\ tx.op = "deleteParts" /\ tx.pkg = NoPkg
      BY <2>1, <2>3
    <3>2. QED BY <3>1 DEF Deleting
  <2>4. CASE \E k \in Packages : BeginDeletePackage(c, k)
    <3>1. PICK tx, ps : /\ Begin(c, tx) /\ tx.todo = PendingOf(ps)
                        /\ tx.op = "deletePackage" /\ tx.pkg \in LivePackages
                        /\ tx.doomed = PackageParts(tx.pkg)
      BY <2>2, <2>4
    <3>2. QED BY <3>1 DEF Deleting
  <2>5. QED BY <2>3, <2>4
<1>3. txs'[c] = tx /\ \A v \in Writers \ {c} : txs'[v] = txs[v]
  BY <1>1, <1>2 DEF Begin, QueueInv
<1>4. \A t \in tx.todo : prints'[t].st \in Pending
  BY <1>1, <1>2 DEF PendingOf, tables
<1>5. tx.op = "deletePackage" =>
        /\ tx.pkg \in Packages /\ pkgs'[tx.pkg].state # "absent"
        /\ PackageParts(tx.pkg)' \subseteq tx.doomed
  <2>1. SUFFICES ASSUME tx.op = "deletePackage"
                 PROVE  /\ tx.pkg \in Packages /\ pkgs'[tx.pkg].state # "absent"
                        /\ PackageParts(tx.pkg)' \subseteq tx.doomed
    OBVIOUS
  <2>2. tx.pkg \in LivePackages /\ tx.doomed = PackageParts(tx.pkg)
    BY <1>2, <2>1
  <2>3. PackageParts(tx.pkg)' = PackageParts(tx.pkg)
    BY <1>1 DEF tables, PackageParts, LiveParts
  <2>4. QED BY <1>1, <2>2, <2>3 DEF LivePackages, tables
<1>6. RequestOK(tx)'
  BY <1>2, <1>4, <1>5 DEF RequestOK, Deleting
<1>7. ReadsOK(tx)'
  BY <1>2 DEF ReadsOK, Deleting
<1>8. QED BY <1>1, <1>3, <1>6, <1>7, BeginOrder

LEMMA CommitPrintOrder ==
  ASSUME QueueInv, OrderInv, NEW c \in Clients, NEW t \in Tasks, CommitPrint(c, t)
  PROVE  OrderInv'
<1>1. /\ c \in Writers /\ txs[c].op = "print" /\ UNCHANGED <<parts, pkgs, tangled>>
      /\ prints[t].st = "absent" /\ Keep(c, NoTx, {}, TRUE)
  BY DEF CommitPrint, Close, NewPrint, Writers
<1>2. txs'[c] = NoTx /\ NoTx.op = "none"
  BY <1>1, KeepReads DEF NoTx
<1>3. PICK none, crossing : none = {} /\ crossing \in BOOLEAN /\ ReadsLeft(c, none, crossing)
  BY <1>1, KeepReads
<1>4. PICK row : row.st = "created" /\ prints' = [prints EXCEPT ![t] = row]
  <2>1. PICK row : row = [part |-> txs[c].part, st |-> "created", machine |-> txs[c].machine,
                          auto |-> FALSE, compiling |-> TRUE, fresh |-> TRUE,
                          late |-> FALSE]
    OBVIOUS
  <2>2. prints' = [prints EXCEPT ![t] = row] /\ row.st = "created"
    BY <2>1 DEF CommitPrint, InsertPrint
  <2>3. QED BY <2>2
<1>5. prints'[t] = row /\ \A u \in Tasks \ {t} : prints'[u] = prints[u]
  BY <1>4 DEF QueueInv, TablesOK
<1>6. PackagesAlike
  BY <1>1 DEF PackagesAlike
<1>7. /\ prints[t].st \notin Pending \cup {"finished"}
      /\ prints'[t].compiling => prints'[t].st # "finished"
  BY <1>1, <1>4, <1>5 DEF Pending
<1>8. RequestOK(txs[c])' /\ ReadsOK(txs[c])'
  BY <1>2, IdleOrder
<1>9. none \subseteq Tasks
  BY <1>3
<1>10. QED BY <1>1, <1>5, <1>6, <1>7, <1>8, <1>9, <1>3, OnePrintOrder

\* What a deletion cancels was pending, unless somebody has written its record since.
LEMMA CancelPrintOrder ==
  ASSUME QueueInv, OrderInv, NEW c \in Clients, NEW t \in Tasks, CancelPrint(c, t)
  PROVE  OrderInv'
<1>1. /\ c \in Writers /\ txs[c].op \in Cancelling /\ t \in txs[c].todo
      /\ UNCHANGED <<parts, pkgs, tangled>>
  BY DEF CancelPrint, Cancelling, queueHistory, Writers
<1>2. DOMAIN txs[c] = DOMAIN NoTx /\ prints \in [Tasks -> PrintRecord]
  BY DEF QueueInv, TablesOK, TxOK, Writers
<1>3. PICK held, ids, tx :
        /\ held = txs[c].held /\ ids = {t} \cap held
        /\ tx = [txs[c] EXCEPT !.todo = @ \ {t}, !.halt = @ \cup {t}]
        /\ Keep(c, tx, ids, FALSE)
  BY DEF CancelPrint
<1>4. tx.op = txs[c].op /\ tx.todo = txs[c].todo \ {t} /\ tx.held = held
  BY <1>2, <1>3 DEF NoTx
<1>5. ReadsLeft(c, ids, FALSE) /\ txs'[c] = tx
  <2>1. txs[c].op # "none"
    BY <1>1 DEF Cancelling
  <2>2. QED BY <1>1, <1>3, <2>1, KeepReads
<1>6. \A u \in txs[c].todo \cap held : prints[u].st \in Pending
  BY <1>1, <1>3 DEF OrderInv, RequestOK
<1>7. PICK b : b = prints[t] /\ b \in PrintRecord
  BY <1>2
<1>8. \/ prints' = prints /\ t \notin held
      \/ /\ t \in held
         /\ \E row : prints' = [prints EXCEPT ![t] = row] /\ row.st = "cancelled"
  <2>1. CASE t \in held
    <3>1. PICK row : row = [b EXCEPT !.st = "cancelled", !.fresh = FALSE, !.late = b.fresh]
      OBVIOUS
    <3>2. prints' = [prints EXCEPT ![t] = row]
      BY <1>3, <1>7, <2>1, <3>1 DEF CancelPrint, Update, Rewrite
    <3>3. row.st = "cancelled"
      BY <1>7, <3>1 DEF PrintRecord
    <3>4. QED BY <2>1, <3>2, <3>3
  <2>2. CASE t \notin held
    BY <1>3, <2>2 DEF CancelPrint, Update
  <2>3. QED BY <2>1, <2>2
<1>9. /\ \A u \in Tasks \ {t} : prints'[u] = prints[u]
      /\ t \in held => prints[t].st \in Pending /\ prints'[t].st = "cancelled"
      /\ t \notin held => prints'[t] = prints[t]
  BY <1>1, <1>2, <1>6, <1>8
<1>10. PackagesAlike /\ FinishedStay /\ PendingLeft(ids)
  BY <1>1, <1>3, <1>9 DEF PackagesAlike, FinishedStay, PendingLeft, Pending
<1>11. \A u \in Tasks : prints'[u].compiling => prints'[u].st # "finished"
  BY <1>9 DEF OrderInv
<1>12. \A u \in tx.todo \cap tx.held : prints'[u].st \in Pending
  <2>1. txs[c].todo \subseteq Tasks
    BY <1>1 DEF QueueInv, TxOK
  <2>2. QED BY <1>4, <1>6, <1>9, <2>1
<1>13. RequestOK(txs[c])' /\ ReadsOK(txs[c])'
  BY <1>1, <1>4, <1>5, <1>12 DEF RequestOK, ReadsOK, Cancelling
<1>14. ids \cap Parts = {}
  BY <1>3, QueueAssumption
<1>15. QED BY <1>1, <1>5, <1>10, <1>11, <1>13, <1>14, QuietOrder

\* A deletion that goes on, or ends, and writes no record.
LEMMA StopOrder ==
  ASSUME QueueInv, OrderInv, NEW c \in Clients,
         (\E t \in Tasks : StopMachine(c, t)) \/ DeletionFails(c)
  PROVE  OrderInv'
<1>1. c \in Writers /\ txs[c].op \in Cancelling /\ UNCHANGED <<parts, pkgs, prints, tangled>>
  BY DEF StopMachine, DeletionFails, QueueInv, TxOK, Cancelling, tables, queueHistory, Writers
<1>2. DOMAIN txs[c] = DOMAIN NoTx /\ NoTx.op = "none"
  BY <1>1 DEF QueueInv, TxOK, NoTx
<1>3. PICK tx : /\ Keep(c, tx, {}, FALSE)
                /\ \/ tx.op = "none"
                   \/ tx.op = txs[c].op /\ tx.todo = txs[c].todo /\ tx.held = txs[c].held
  <2>1. CASE \E t \in Tasks : StopMachine(c, t)
    <3>1. PICK t, next : /\ next = [txs[c] EXCEPT !.halt = @ \ {t}]
                         /\ Keep(c, IF next.todo = {} /\ next.halt = {} THEN NoTx ELSE next,
                                 {}, FALSE)
      BY <2>1 DEF StopMachine
    <3>2. next.op = txs[c].op /\ next.todo = txs[c].todo /\ next.held = txs[c].held
      BY <1>2, <3>1 DEF NoTx
    <3>3. QED BY <1>2, <3>1, <3>2
  <2>2. CASE DeletionFails(c)
    BY <1>2, <2>2 DEF DeletionFails, Close
  <2>3. QED BY <2>1, <2>2
<1>4. ReadsLeft(c, {}, FALSE) /\ txs'[c] = tx
  <2>1. txs[c].op # "none"
    BY <1>1 DEF Cancelling
  <2>2. QED BY <1>1, <1>3, <2>1, KeepReads
<1>5. PackagesAlike /\ FinishedStay /\ PendingLeft({})
  BY <1>1 DEF PackagesAlike, FinishedStay, PendingLeft
<1>6. \A u \in Tasks : prints'[u].compiling => prints'[u].st # "finished"
  BY <1>1 DEF OrderInv
<1>7. RequestOK(txs[c])' /\ ReadsOK(txs[c])'
  <2>1. CASE tx.op = "none"
    BY <1>4, <2>1, IdleOrder
  <2>2. CASE tx.op = txs[c].op /\ tx.todo = txs[c].todo /\ tx.held = txs[c].held
    <3>1. \A u \in tx.todo \cap tx.held : prints'[u].st \in Pending
      BY <1>1, <2>2 DEF OrderInv, RequestOK
    <3>2. QED BY <1>1, <1>4, <2>2, <3>1 DEF RequestOK, ReadsOK, Cancelling
  <2>3. QED BY <1>3, <2>1, <2>2
<1>8. QED BY <1>1, <1>4, <1>5, <1>6, <1>7, QuietOrder

LEMMA CommitUnstarOrder ==
  ASSUME QueueInv, OrderInv, NEW c \in Clients, CommitUnstar(c)
  PROVE  OrderInv'
<1>1. c \in Writers /\ txs[c].op = "unstar" /\ UNCHANGED <<parts, prints, tangled>>
  BY DEF CommitUnstar, queueHistory, Writers
<1>2. PICK held : held = txs[c].held /\ held \subseteq Packages /\ Keep(c, NoTx, held, FALSE)
  BY <1>1 DEF CommitUnstar, Close, QueueInv, TxOK
<1>3. ReadsLeft(c, held, FALSE) /\ txs'[c] = NoTx /\ NoTx.op = "none"
  BY <1>1, <1>2, KeepReads DEF NoTx
<1>4. PackagesAlike
  <2>1. pkgs' = pkgs \/ pkgs' = [pkgs EXCEPT ![txs[c].pkg].starred = FALSE]
    BY DEF CommitUnstar, Update
  <2>2. \A k \in Packages : pkgs'[k] = pkgs[k] \/ pkgs'[k] = [pkgs[k] EXCEPT !.starred = FALSE]
    BY <2>1 DEF QueueInv, TablesOK
  <2>3. \A k \in Packages : DOMAIN pkgs[k] = {"state", "quantity", "starred", "based", "from"}
    BY DEF QueueInv, TablesOK, PackageOK
  <2>4. QED BY <2>2, <2>3 DEF PackagesAlike
<1>5. FinishedStay /\ PendingLeft(held) /\ held \cap Parts = {}
  BY <1>1, <1>2, QueueAssumption DEF FinishedStay, PendingLeft
<1>6. \A u \in Tasks : prints'[u].compiling => prints'[u].st # "finished"
  BY <1>1 DEF OrderInv
<1>7. RequestOK(txs[c])' /\ ReadsOK(txs[c])'
  BY <1>3, IdleOrder
<1>8. QED BY <1>1, <1>3, <1>4, <1>5, <1>6, <1>7, QuietOrder

-----------------------------------------------------------------------------
(***************************************************************************)
(* Commits that change the places of the queue, or what is in it.          *)
(***************************************************************************)
\* Different places stay different as the parts between are shifted.
LEMMA MovedDiffer ==
  ASSUME NEW D, NEW f \in [D -> Int], NEW move \in [part : D, to : Int]
  PROVE  /\ Moved(f, move) \in [D -> Int]
         /\ IsInjective(f) => IsInjective(Moved(f, move))
<1> DEFINE left(p) == IF f[p] > f[move.part] THEN f[p] - 1 ELSE f[p]
           shifted(p) == IF left(p) >= move.to THEN left(p) + 1 ELSE left(p)
           g == [p \in D |-> IF p = move.part THEN move.to ELSE shifted(p)]
<1>1. Moved(f, move) = g
  BY DEF Moved
<1>2. move.part \in D /\ move.to \in Int /\ \A p \in D : f[p] \in Int
  OBVIOUS
<1>3. g \in [D -> Int]
  BY <1>2
<1>4. ASSUME \A p, q \in D : p # q => f[p] # f[q], NEW p \in D, NEW q \in D, p # q
      PROVE  g[p] # g[q]
  <2>1. f[p] # f[q] /\ f[p] \in Int /\ f[q] \in Int /\ f[move.part] \in Int /\ move.to \in Int
    BY <1>2, <1>4
  <2>2. /\ p # move.part => f[p] # f[move.part]
        /\ q # move.part => f[q] # f[move.part]
    BY <1>2, <1>4
  <2>3. CASE p # move.part /\ q # move.part
    BY <2>1, <2>2, <2>3
  <2>4. CASE p = move.part
    BY <1>4, <2>1, <2>2, <2>4
  <2>5. CASE q = move.part
    BY <1>4, <2>1, <2>2, <2>5
  <2>6. QED BY <2>3, <2>4, <2>5
<1>5. QED BY <1>1, <1>3, <1>4 DEF IsInjective

\* What one move keeps, all of them keep.
LEMMA MovedByKeeps ==
  ASSUME NEW M, NEW Y, \A f \in Y, m \in M : Moved(f, m) \in Y,
         NEW position \in Y, NEW moves \in Seq(M)
  PROVE  MovedBy(position, moves) \in Y
<1> DEFINE n == Len(moves)
           D == [k \in 1 .. n |-> [f \in Y |-> Moved(f, moves[k])]]
           Sol(g) == g = [k \in 0 .. n |-> IF k = 0 THEN position ELSE Moved(g[k - 1], moves[k])]
           upto == CHOOSE g : Sol(g)
<1>1. n \in Nat /\ \A k \in 1 .. n : moves[k] \in M
  OBVIOUS
<1>2. \A f \in Y, k \in 1 .. n : Moved(f, moves[k]) \in Y
  BY <1>1
<1>3. D \in [1 .. n -> [Y -> Y]] /\ \A f \in Y, k \in 1 .. n : D[k][f] = Moved(f, moves[k])
  <2> HIDE DEF n
  <2>1. QED BY <1>2
<1>4. PICK g \in [0 .. n -> Y] : Solves(g, n, position, D)
  <2> HIDE DEF n, D
  <2>1. QED BY <1>1, <1>3, RecursionExists
<1>5. Sol(g)
  <2>1. ASSUME NEW k \in 0 .. n
        PROVE  g[k] = IF k = 0 THEN position ELSE Moved(g[k - 1], moves[k])
    <3>1. CASE k = 0
      BY <1>4, <3>1 DEF Solves
    <3>2. CASE k # 0
      <4>1. k - 1 \in 0 .. n /\ k \in 1 .. n
        BY <1>1, <3>2
      <4> HIDE DEF D, n
      <4>2. g[k - 1] \in Y
        BY <4>1
      <4>3. g[k] = D[k][g[k - 1]]
        BY <1>4, <3>2 DEF Solves
      <4>4. QED BY <1>3, <3>2, <4>1, <4>2, <4>3
    <3>3. QED BY <3>1, <3>2
  <2> HIDE DEF D, n
  <2>2. g = [k \in 0 .. n |-> g[k]]
    OBVIOUS
  <2>3. QED BY <2>1, <2>2
<1>6. Sol(upto)
  BY <1>5, Zenon
<1> HIDE DEF upto, D
<1>7. \A k \in 0 .. n : upto[k] = IF k = 0 THEN position ELSE Moved(upto[k - 1], moves[k])
  BY <1>6
<1>8. 0 .. n \subseteq {k \in 0 .. n : upto[k] \in Y}
  <2> DEFINE T == {k \in 0 .. n : upto[k] \in Y}
  <2>1. 0 \in T
    BY <1>1, <1>7
  <2>2. ASSUME NEW k \in 0 .. n - 1, k \in T
        PROVE  k + 1 \in T
    <3>1. k + 1 \in 1 .. n /\ k + 1 \in 0 .. n /\ (k + 1) - 1 = k /\ k + 1 # 0
      BY <1>1
    <3>2. upto[k] \in Y
      BY <2>2
    <3> HIDE DEF n
    <3>3. upto[k + 1] = Moved(upto[k], moves[k + 1])
      BY <1>7, <3>1
    <3>4. QED BY <1>2, <3>1, <3>2, <3>3
  <2> HIDE DEF T
  <2>3. QED BY <1>1, <2>1, <2>2, IntervalInduction DEF T
<1>9. MovedBy(position, moves) = upto[n]
  BY DEF MovedBy, upto
<1>10. n \in 0 .. n
  BY <1>1
<1>11. QED BY <1>8, <1>9, <1>10

\* The places that a move writes, from whatever it has read.
LEMMA MovedPlaces ==
  ASSUME NEW D, NEW seen \in [D -> Int], NEW moves \in Seq([part : D, to : Int])
  PROVE  /\ MovedBy(seen, moves) \in [D -> Int]
         /\ IsInjective(seen) => IsInjective(MovedBy(seen, moves))
<1>1. PICK M, All, Y : /\ M = [part : D, to : Int] /\ All = [D -> Int]
                       /\ Y = {f \in All : IsInjective(f)}
  OBVIOUS
<1>2. moves \in Seq(M)
  BY <1>1
<1>3. /\ \A f \in All, m \in M : Moved(f, m) \in All
      /\ \A f \in Y, m \in M : Moved(f, m) \in Y
  <2>1. ASSUME NEW f \in All, NEW m \in M
        PROVE  Moved(f, m) \in All /\ (f \in Y => Moved(f, m) \in Y)
    <3>1. f \in [D -> Int] /\ m \in [part : D, to : Int]
      BY <1>1
    <3>2. Moved(f, m) \in [D -> Int] /\ (IsInjective(f) => IsInjective(Moved(f, m)))
      BY <3>1, MovedDiffer
    <3>3. QED BY <1>1, <3>2
  <2>2. Y \subseteq All
    BY <1>1
  <2>3. QED BY <2>1, <2>2
<1>4. seen \in All
  BY <1>1
<1>5. MovedBy(seen, moves) \in All
  BY <1>2, <1>3, <1>4, MovedByKeeps
<1>6. seen \in Y => MovedBy(seen, moves) \in Y
  BY <1>2, <1>3, MovedByKeeps
<1>7. QED BY <1>1, <1>5, <1>6

\* A commit that crosses the others.
LEMMA CrossOrder ==
  ASSUME QueueInv, OrderInv, NEW c \in Clients, NEW ids, ReadsLeft(c, ids, TRUE),
         RequestOK(txs[c])' /\ ReadsOK(txs[c])', UNCHANGED prints, PackagesFilled,
         \A p \in Parts : parts'[p].position \in Int,
         \A k \in Packages : pkgs'[k].state \in {"absent", "live", "gone"},
         tangled => tangled', PlacesOK'
  PROVE  OrderInv'
<1>1. PendingLeft(ids)
  BY DEF PendingLeft
<1>2. RowsOK'
  BY DEF RowsOK, OrderInv
<1>3. QED BY <1>1, <1>2, OrderStays

\* A request that crosses the others as it ends.
LEMMA CloseReads ==
  ASSUME QueueInv, NEW c \in Clients, NEW ids, Close(c, ids, TRUE), txs[c].op # "none"
  PROVE  ReadsLeft(c, ids, TRUE) /\ RequestOK(txs[c])' /\ ReadsOK(txs[c])'
<1>1. Keep(c, NoTx, ids, TRUE) /\ c \in Writers /\ NoTx.op = "none"
  BY DEF Close, Writers, NoTx
<1>2. ReadsLeft(c, ids, TRUE) /\ txs'[c] = NoTx
  BY <1>1, KeepReads
<1>3. RequestOK(txs[c])' /\ ReadsOK(txs[c])'
  BY <1>1, <1>2, IdleOrder
<1>4. QED BY <1>2, <1>3

\* Of the parts that were in the queue nothing but the place changes.
LEMMA QueueAlike ==
  ASSUME UNCHANGED <<pkgs, prints>>,
         \A p \in Parts : /\ parts'[p].pkg = parts[p].pkg /\ parts'[p].gone = parts[p].gone
                          /\ parts'[p].quantity = parts[p].quantity
  PROVE  LiveParts' = LiveParts /\ Queued' = Queued /\ PackagesFilled
<1>1. LiveParts' = LiveParts
  BY DEF LiveParts
<1>2. \A p \in Parts : TotalPrints(p)' = TotalPrints(p) /\ PrintsCompleted(p)' = PrintsCompleted(p)
  BY DEF TotalPrints, PrintsCompleted, Printed
<1>3. Queued' = Queued
  BY <1>1, <1>2 DEF Queued, LiveParts
<1>4. PackagesFilled
  BY <1>1 DEF PackagesFilled, PackageParts, LiveParts
<1>5. QED BY <1>1, <1>3, <1>4

\* Moves that nobody has crossed write all the places that they change.
LEMMA CommitMoveOrder ==
  ASSUME QueueInv, OrderInv, NEW c \in Clients, CommitMove(c)
  PROVE  OrderInv'
<1>1. c \in Writers /\ txs[c].op = "move" /\ UNCHANGED <<pkgs, prints>>
  BY DEF CommitMove, Writers
<1>2. PICK tx, seen, D, new, written :
        /\ tx = txs[c] /\ seen = tx.seen /\ D = DOMAIN seen /\ new = MovedBy(seen, tx.moves)
        /\ written = {p \in D : new[p] # seen[p]} \cap tx.held
        /\ parts' = [p \in Parts |-> IF p \in written THEN [parts[p] EXCEPT !.position = new[p]]
                                     ELSE parts[p]]
        /\ tangled' = (tangled \/ tx.crossed)
        /\ Close(c, written, TRUE)
  BY DEF CommitMove
<1>3. /\ D \subseteq Parts /\ seen \in [D -> Int]
      /\ tx.moves \in Seq([part : D, to : Int])
  BY <1>1, <1>2 DEF OrderInv, RequestOK, QueueInv, TxOK
<1>4. new \in [D -> Int] /\ (IsInjective(seen) => IsInjective(new))
  <2>1. PICK moves : moves = tx.moves /\ moves \in Seq([part : D, to : Int])
    BY <1>3
  <2>2. new = MovedBy(seen, moves)
    BY <1>2, <2>1
  <2>3. QED BY <1>3, <2>1, <2>2, MovedPlaces
<1>5. \A p \in Parts : DOMAIN parts[p] = {"pkg", "position", "quantity", "gone"}
  BY DEF QueueInv, TablesOK, PartOK
<1>6. \A p \in Parts :
        /\ parts'[p].pkg = parts[p].pkg /\ parts'[p].gone = parts[p].gone
        /\ parts'[p].quantity = parts[p].quantity
        /\ parts'[p].position = IF p \in written THEN new[p] ELSE parts[p].position
  BY <1>2, <1>5
<1>7. LiveParts' = LiveParts /\ Queued' = Queued /\ PackagesFilled
  BY <1>1, <1>6, QueueAlike
<1>8. \A p \in Parts : parts'[p].position \in Int
  BY <1>2, <1>4, <1>6 DEF OrderInv
<1>9. PlacesOK'
  <2>1. SUFFICES ASSUME ~tangled'
                 PROVE  PlacesDiffer' /\ \A p \in LiveParts' : pkgs'[parts'[p].pkg].state = "live"
    BY DEF PlacesOK
  <2>2. ~tangled /\ ReadsOK(tx)
    BY <1>1, <1>2, <2>1 DEF OrderInv
  <2>3. /\ Queued \subseteq D /\ D \subseteq tx.held
        /\ \A p \in D : seen[p] = parts[p].position
        /\ IsInjective(seen)
    BY <1>1, <1>2, <2>2 DEF ReadsOK
  <2>4. \A p \in D : parts'[p].position = new[p]
    BY <1>2, <1>3, <1>6, <2>3
  <2>5. PlacesDiffer'
    BY <1>4, <1>7, <2>3, <2>4 DEF PlacesDiffer, IsInjective
  <2>6. \A p \in LiveParts : pkgs[parts[p].pkg].state = "live"
    BY <2>2 DEF OrderInv
  <2>7. QED BY <1>1, <1>6, <1>7, <2>5, <2>6 DEF LiveParts
<1>10. \A k \in Packages : pkgs'[k].state \in {"absent", "live", "gone"}
  BY <1>1 DEF OrderInv
<1>11. ReadsLeft(c, written, TRUE) /\ RequestOK(txs[c])' /\ ReadsOK(txs[c])'
  BY <1>1, <1>2, CloseReads
<1>12. tangled => tangled'
  BY <1>2
<1>13. QED BY <1>1, <1>7, <1>8, <1>9, <1>10, <1>11, <1>12, CrossOrder

\* A new quantity brings a part back to the queue only where it was completed.
LEMMA CommitQuantityOrder ==
  ASSUME QueueInv, OrderInv, NEW c \in Clients, CommitQuantity(c)
  PROVE  OrderInv'
<1>1. c \in Writers /\ txs[c].op = "quantity" /\ UNCHANGED <<pkgs, prints>>
  BY DEF CommitQuantity, Writers
<1>2. PICK p, held, n :
        /\ p = txs[c].part /\ held = txs[c].held
        /\ parts' = IF p \in held THEN [parts EXCEPT ![p].quantity = n] ELSE parts
        /\ tangled' = (tangled \/ (p \in held /\ p \notin Queued))
        /\ Close(c, {p} \cap held, TRUE)
  BY DEF CommitQuantity, Update
<1>3. \A q \in Parts : DOMAIN parts[q] = {"pkg", "position", "quantity", "gone"}
  BY DEF QueueInv, TablesOK, PartOK
<1>4. \A q \in Parts : /\ parts'[q].pkg = parts[q].pkg /\ parts'[q].gone = parts[q].gone
                       /\ parts'[q].position = parts[q].position
                       /\ q # p \/ p \notin held => parts'[q].quantity = parts[q].quantity
  BY <1>2, <1>3 DEF QueueInv, TablesOK
<1>5. LiveParts' = LiveParts /\ PackagesFilled
  <2>1. LiveParts' = LiveParts
    BY <1>4 DEF LiveParts
  <2>2. PackagesFilled
    BY <1>1, <1>4, <2>1 DEF PackagesFilled, PackageParts, LiveParts
  <2>3. QED BY <2>1, <2>2
<1>6. \A q \in Parts : /\ PrintsCompleted(q)' = PrintsCompleted(q)
                       /\ q # p \/ p \notin held => TotalPrints(q)' = TotalPrints(q)
  BY <1>1, <1>4 DEF TotalPrints, PrintsCompleted, Printed
<1>7. PlacesOK'
  <2>1. SUFFICES ASSUME ~tangled'
                 PROVE  PlacesDiffer' /\ \A q \in LiveParts' : pkgs'[parts'[q].pkg].state = "live"
    BY DEF PlacesOK
  <2>2. ~tangled /\ (p \in held => p \in Queued)
    BY <1>2, <2>1
  <2>3. Queued' \subseteq Queued
    BY <1>5, <1>6, <2>2 DEF Queued, LiveParts
  <2>4. PlacesDiffer'
    BY <1>4, <2>2, <2>3 DEF OrderInv, PlacesDiffer, Queued, LiveParts
  <2>5. \A q \in LiveParts : pkgs[parts[q].pkg].state = "live"
    BY <2>2 DEF OrderInv
  <2>6. QED BY <1>1, <1>4, <1>5, <2>4, <2>5 DEF LiveParts
<1>8. /\ \A k \in Packages : pkgs'[k].state \in {"absent", "live", "gone"}
      /\ \A q \in Parts : parts'[q].position \in Int
  BY <1>1, <1>4 DEF OrderInv
<1>9. PICK ids : ReadsLeft(c, ids, TRUE) /\ RequestOK(txs[c])' /\ ReadsOK(txs[c])'
  BY <1>1, <1>2, CloseReads
<1>10. tangled => tangled'
  BY <1>2
<1>11. QED BY <1>1, <1>5, <1>7, <1>8, <1>9, <1>10, CrossOrder

\* What a commit that inserts a package does to the queue: its parts are new.
PartsInserted(k, package, ids, n, position) ==
  /\ \A p \in LiveParts : p \in LiveParts' /\ parts'[p] = parts[p]
  /\ \A p \in LiveParts' \ LiveParts : \E i \in 1 .. n :
       /\ ids[i] = p /\ parts'[p].position = position + i - 1
       /\ parts'[p].pkg = k /\ parts'[p].quantity \in Nat
  /\ pkgs'[k] = package /\ Queued' \cap LiveParts \subseteq Queued /\ PackagesFilled
  /\ \A p \in Parts : parts'[p].position \in Int
  /\ \A j \in Packages : pkgs'[j].state \in {"absent", "live", "gone"}
  /\ ~tangled => \A p \in LiveParts' : pkgs'[parts'[p].pkg].state = "live"

LEMMA InsertPlaces ==
  ASSUME QueueInv, OrderInv, NEW table, NEW k \in Packages, NEW package, NEW ids,
         NEW quantities \in Seq(Nat), NEW position \in Int,
         Insert(table, k, package, ids, quantities, position),
         ids \in [1 .. Len(quantities) -> FreeParts], pkgs[k].state = "absent",
         package.state = "live", package.quantity \in Nat, DOMAIN table = Packages,
         \A j \in Packages : table[j].state = pkgs[j].state /\ table[j].quantity = pkgs[j].quantity,
         UNCHANGED prints
  PROVE  PartsInserted(k, package, ids, Len(quantities), position)
<1> DEFINE New(p) == \E i \in 1 .. Len(quantities) : ids[i] = p
<1>1. Len(quantities) \in Nat /\ \A i \in 1 .. Len(quantities) : quantities[i] \in Nat
  OBVIOUS
<1>2. /\ DOMAIN ids = 1 .. Len(quantities)
      /\ \A i \in 1 .. Len(quantities) : ids[i] \in Parts /\ parts[ids[i]].pkg = NoPkg
  BY DEF FreeParts
<1>3. ASSUME NEW p \in Parts, New(p)
      PROVE  \E i \in 1 .. Len(quantities) :
               /\ ids[i] = p /\ parts'[p].position = position + i - 1
               /\ parts'[p].pkg = k /\ parts'[p].quantity \in Nat
  <2>1. PICK i : i = CHOOSE j \in DOMAIN ids : ids[j] = p
    OBVIOUS
  <2>2. i \in 1 .. Len(quantities) /\ ids[i] = p
    BY <1>2, <1>3, <2>1
  <2>3. parts'[p] = [pkg |-> k, position |-> position + i - 1, quantity |-> quantities[i],
                     gone |-> FALSE]
    BY <1>2, <1>3, <2>1 DEF Insert
  <2>4. QED BY <1>1, <2>2, <2>3
<1>4. \A p \in Parts : ~New(p) => parts'[p] = parts[p]
  BY <1>2 DEF Insert
<1>5. \A p \in Parts : New(p) => parts[p].pkg = NoPkg
  BY <1>2
<1> HIDE DEF New
<1>6. \A p \in LiveParts : p \in LiveParts' /\ parts'[p] = parts[p]
  BY <1>4, <1>5 DEF LiveParts
<1>7. \A p \in LiveParts' \ LiveParts : p \in Parts /\ New(p)
  BY <1>4 DEF LiveParts
<1>8. pkgs' = [table EXCEPT ![k] = package]
  BY DEF Insert
<1>9. pkgs'[k] = package /\ \A j \in Packages \ {k} : pkgs'[j] = table[j]
  BY <1>8
<1>10. \A p \in LiveParts : parts[p].pkg \in Packages \ {k}
  BY DEF LiveParts, QueueInv, TablesOK, PartOK
<1>11. \A p \in LiveParts : /\ TotalPrints(p)' = TotalPrints(p)
                            /\ PrintsCompleted(p)' = PrintsCompleted(p)
  BY <1>6, <1>9, <1>10 DEF TotalPrints, PrintsCompleted, Printed
<1>12. Queued' \cap LiveParts \subseteq Queued
  BY <1>11 DEF Queued
<1>13. PackagesFilled
  <2>1. ASSUME NEW j \in Packages, pkgs[j].state # "absent"
        PROVE  pkgs'[j].state # "absent" /\ PackageParts(j)' \subseteq PackageParts(j)
    <3>1. j # k
      BY <2>1
    <3>2. \A p \in LiveParts' \ LiveParts : parts'[p].pkg = k
      BY <1>3, <1>7
    <3>3. PackageParts(j)' \subseteq PackageParts(j)
      BY <1>6, <3>1, <3>2 DEF PackageParts
    <3>4. QED BY <1>9, <2>1, <3>1, <3>3
  <2>2. QED BY <2>1 DEF PackagesFilled
<1>14. \A p \in Parts : parts'[p].position \in Int
  BY <1>3, <1>4 DEF OrderInv
<1>15. \A j \in Packages : pkgs'[j].state \in {"absent", "live", "gone"}
  BY <1>9 DEF OrderInv
<1>16. ASSUME ~tangled, NEW p \in LiveParts'
       PROVE  pkgs'[parts'[p].pkg].state = "live"
  <2>1. CASE p \in LiveParts
    BY <1>6, <1>9, <1>10, <1>16, <2>1 DEF OrderInv
  <2>2. CASE p \notin LiveParts
    BY <1>3, <1>7, <1>9, <2>2
  <2>3. QED BY <2>1, <2>2
<1>17. \A p \in LiveParts' \ LiveParts : \E i \in 1 .. Len(quantities) :
         /\ ids[i] = p /\ parts'[p].position = position + i - 1
         /\ parts'[p].pkg = k /\ parts'[p].quantity \in Nat
  BY <1>3, <1>7
<1>18. QED BY <1>6, <1>9, <1>12, <1>13, <1>14, <1>15, <1>16, <1>17 DEF PartsInserted

\* Parts that are added come behind the end that was read, if nobody has crossed.
LEMMA CommitAddOrder ==
  ASSUME QueueInv, OrderInv, NEW c \in Clients, NEW k \in Packages, NEW ids, CommitAdd(c, k, ids)
  PROVE  OrderInv'
<1>1. /\ c \in Writers /\ txs[c].op = "add" /\ UNCHANGED prints
      /\ pkgs[k].state = "absent" /\ Close(c, {}, TRUE)
      /\ tangled' = (tangled \/ txs[c].crossed)
  BY DEF CommitAdd, NewPackage, Writers
<1>2. PICK package, position, quantities :
        /\ package = Package(1, FALSE, txs[c].pkg, NoPkg)
        /\ position = txs[c].n /\ quantities = txs[c].seen
        /\ Insert(pkgs, k, package, ids, quantities, position)
        /\ ids \in [1 .. Len(quantities) -> FreeParts] /\ IsInjective(ids)
  BY DEF CommitAdd, NewIds
<1>3. quantities \in Seq(Nat) /\ position \in Int
  BY <1>1, <1>2 DEF QueueInv, TxOK, OrderInv, RequestOK
<1>4. package.state = "live" /\ package.quantity \in Nat
  BY <1>2 DEF Package
<1>5. PICK table : table = pkgs /\ DOMAIN table = Packages
  BY DEF QueueInv, TablesOK
<1>6. \A j \in Packages : table[j].state = pkgs[j].state /\ table[j].quantity = pkgs[j].quantity
  BY <1>5
<1>7. Insert(table, k, package, ids, quantities, position)
  BY <1>2, <1>5
<1>8. /\ \A p \in LiveParts : p \in LiveParts' /\ parts'[p] = parts[p]
      /\ \A p \in LiveParts' \ LiveParts : \E i \in 1 .. Len(quantities) :
           /\ ids[i] = p /\ parts'[p].position = position + i - 1
           /\ parts'[p].pkg = k /\ parts'[p].quantity \in Nat
      /\ Queued' \cap LiveParts \subseteq Queued /\ PackagesFilled
      /\ \A p \in Parts : parts'[p].position \in Int
      /\ \A j \in Packages : pkgs'[j].state \in {"absent", "live", "gone"}
      /\ ~tangled => \A p \in LiveParts' : pkgs'[parts'[p].pkg].state = "live"
  <2>1. PartsInserted(k, package, ids, Len(quantities), position)
    BY <1>1, <1>2, <1>3, <1>4, <1>5, <1>6, <1>7, InsertPlaces
  <2>2. QED BY <2>1 DEF PartsInserted
<1>9. PlacesOK'
  <2>1. SUFFICES ASSUME ~tangled'
                 PROVE  PlacesDiffer' /\ \A p \in LiveParts' : pkgs'[parts'[p].pkg].state = "live"
    BY DEF PlacesOK
  <2>2. ~tangled /\ ~txs[c].crossed
    BY <1>1, <2>1
  <2>3. \A p \in LiveParts : parts[p].position < position
    BY <1>1, <1>2, <2>2 DEF OrderInv, ReadsOK
  <2>4. ASSUME NEW p \in Queued', NEW q \in Queued', p # q
        PROVE  parts'[p].position # parts'[q].position
    <3>1. Queued' \subseteq LiveParts' /\ LiveParts \subseteq Parts
      BY DEF Queued, LiveParts
    <3>2. CASE p \in LiveParts /\ q \in LiveParts
      BY <1>8, <2>2, <2>4, <3>2 DEF OrderInv, PlacesDiffer
    <3>3. CASE p \in LiveParts /\ q \notin LiveParts
      <4>1. PICK i \in 1 .. Len(quantities) : parts'[q].position = position + i - 1
        BY <1>8, <3>1, <3>3
      <4>2. parts'[p].position < position /\ parts'[p].position \in Int
        BY <1>8, <2>3, <3>1, <3>3
      <4>3. QED BY <1>3, <4>1, <4>2
    <3>4. CASE p \notin LiveParts /\ q \in LiveParts
      <4>1. PICK i \in 1 .. Len(quantities) : parts'[p].position = position + i - 1
        BY <1>8, <3>1, <3>4
      <4>2. parts'[q].position < position /\ parts'[q].position \in Int
        BY <1>8, <2>3, <3>1, <3>4
      <4>3. QED BY <1>3, <4>1, <4>2
    <3>5. CASE p \notin LiveParts /\ q \notin LiveParts
      <4>1. PICK i \in 1 .. Len(quantities) : ids[i] = p /\ parts'[p].position = position + i - 1
        BY <1>8, <3>1, <3>5
      <4>2. PICK j \in 1 .. Len(quantities) : ids[j] = q /\ parts'[q].position = position + j - 1
        BY <1>8, <3>1, <3>5
      <4>3. i # j
        BY <2>4, <4>1, <4>2
      <4>4. QED BY <1>3, <4>1, <4>2, <4>3
    <3>6. QED BY <3>2, <3>3, <3>4, <3>5
  <2>5. QED BY <1>8, <2>2, <2>4 DEF PlacesDiffer
<1>10. ReadsLeft(c, {}, TRUE) /\ RequestOK(txs[c])' /\ ReadsOK(txs[c])'
  BY <1>1, CloseReads
<1>11. tangled => tangled'
  BY <1>1
<1>12. QED BY <1>1, <1>8, <1>9, <1>10, <1>11, CrossOrder

\* The parts of a template are never in the queue, wherever they are placed.
LEMMA CommitStarOrder ==
  ASSUME QueueInv, OrderInv, NEW c \in Clients, NEW copy \in Packages, NEW ids, NEW originals,
         CommitStar(c, copy, ids, originals)
  PROVE  OrderInv'
<1>1. /\ txs[c].op = "star" /\ c \in Writers /\ UNCHANGED <<prints, tangled>>
      /\ pkgs[copy].state = "absent"
  BY DEF CommitStar, NewPackage, Writers
<1>2. PICK k \in Packages : k = txs[c].pkg
  BY <1>1 DEF QueueInv, TxOK
<1>3. PICK table, package, quantities, position :
        /\ table = IF k \in txs[c].held THEN [pkgs EXCEPT ![k].based = copy] ELSE pkgs
        /\ package = Package(0, TRUE, NoPkg, k) /\ quantities = Quantities(originals)
        /\ position = 0
        /\ Insert(table, copy, package, ids, quantities, position)
  BY <1>2 DEF CommitStar, Update
<1>4. /\ DOMAIN pkgs = Packages
      /\ \A j \in Packages : DOMAIN pkgs[j] = {"state", "quantity", "starred", "based", "from"}
  BY DEF QueueInv, TablesOK, PackageOK
<1>5. /\ DOMAIN table = Packages
      /\ \A j \in Packages : table[j].state = pkgs[j].state /\ table[j].quantity = pkgs[j].quantity
  BY <1>3, <1>4
<1>6. quantities \in Seq(Nat) /\ ids \in [1 .. Len(quantities) -> FreeParts]
  <2>1. originals \in Orders(PackageParts(k)) /\ ids \in NewIds(Len(originals))
    BY <1>2 DEF CommitStar
  <2>2. /\ quantities \in Seq(Nat) /\ DOMAIN quantities = DOMAIN originals
        /\ Len(originals) \in Nat /\ DOMAIN originals = 1 .. Len(originals)
    BY <1>3, <2>1, QuantitiesAreNumbers DEF QueueInv
  <2>3. Len(quantities) = Len(originals)
    BY <2>2
  <2>4. QED BY <2>1, <2>2, <2>3 DEF NewIds
<1>7. package.state = "live" /\ package.quantity = 0 /\ position \in Int
  BY <1>3 DEF Package
<1>8. /\ \A p \in LiveParts : p \in LiveParts' /\ parts'[p] = parts[p]
      /\ \A p \in LiveParts' \ LiveParts : \E i \in 1 .. Len(quantities) :
           /\ ids[i] = p /\ parts'[p].position = position + i - 1
           /\ parts'[p].pkg = copy /\ parts'[p].quantity \in Nat
      /\ pkgs'[copy] = package /\ Queued' \cap LiveParts \subseteq Queued /\ PackagesFilled
      /\ \A p \in Parts : parts'[p].position \in Int
      /\ \A j \in Packages : pkgs'[j].state \in {"absent", "live", "gone"}
      /\ ~tangled => \A p \in LiveParts' : pkgs'[parts'[p].pkg].state = "live"
  <2>1. package.quantity \in Nat /\ UNCHANGED prints
    BY <1>1, <1>7
  <2>2. Insert(table, copy, package, ids, quantities, position)
    BY <1>3
  <2>3. PartsInserted(copy, package, ids, Len(quantities), position)
    BY <1>1, <1>5, <1>6, <1>7, <2>1, <2>2, InsertPlaces
  <2>4. QED BY <2>3 DEF PartsInserted
<1>9. ASSUME NEW p \in LiveParts' \ LiveParts
      PROVE  p \notin Queued'
  <2>1. parts'[p].pkg = copy /\ parts'[p].quantity \in Nat
    BY <1>8
  <2>2. TotalPrints(p)' = 0
    BY <1>7, <1>8, <2>1 DEF TotalPrints
  <2>3. PICK done : done = Printed(p, {"finished"})'
    OBVIOUS
  <2>4. done \subseteq Tasks /\ IsFiniteSet(Tasks)
    BY <2>3, QueueAssumption, FS_Interval DEF Printed, Tasks
  <2>5. Cardinality(done) \in Nat
    BY <2>4, FS_Subset, FS_CardinalityType
  <2>6. PrintsCompleted(p)' = Cardinality(done)
    BY <2>3 DEF PrintsCompleted
  <2>7. QED BY <2>2, <2>5, <2>6 DEF Queued
<1>10. PlacesOK'
  <2>1. SUFFICES ASSUME ~tangled'
                 PROVE  PlacesDiffer' /\ \A p \in LiveParts' : pkgs'[parts'[p].pkg].state = "live"
    BY DEF PlacesOK
  <2>2. Queued' \subseteq Queued /\ Queued \subseteq LiveParts
    BY <1>8, <1>9 DEF Queued
  <2>3. PlacesDiffer'
    BY <1>1, <1>8, <2>1, <2>2 DEF OrderInv, PlacesDiffer
  <2>4. QED BY <1>1, <1>8, <2>1, <2>3
<1>11. PICK written : Close(c, written, TRUE)
  BY DEF CommitStar
<1>12. ReadsLeft(c, written, TRUE) /\ RequestOK(txs[c])' /\ ReadsOK(txs[c])'
  BY <1>1, <1>11, CloseReads
<1>13. QED BY <1>1, <1>8, <1>10, <1>12, CrossOrder

\* A deletion takes the package with all of its parts, unless somebody changed one
\* of them since it was read.
LEMMA CommitDeleteOrder ==
  ASSUME QueueInv, OrderInv, NEW c \in Clients, CommitDelete(c)
  PROVE  OrderInv'
<1>1. c \in Writers /\ txs[c].op \in Deleting /\ UNCHANGED prints
  BY DEF CommitDelete, Deleting, Writers
<1>2. DOMAIN txs[c] = DOMAIN NoTx /\ txs[c].doomed \subseteq Parts
  BY <1>1 DEF QueueInv, TxOK
<1>3. PICK tx, rows, next :
        /\ tx = txs[c] /\ rows = (tx.doomed \cup {tx.pkg}) \cap tx.held
        /\ next = [tx EXCEPT !.op = IF @ = "deleteParts" THEN "cancelAll" ELSE "cancelEach",
                             !.doomed = {}]
        /\ parts' = [p \in Parts |-> IF p \in rows THEN [parts[p] EXCEPT !.gone = TRUE]
                                     ELSE parts[p]]
        /\ pkgs' = [k \in Packages |-> IF k \in rows THEN [pkgs[k] EXCEPT !.state = "gone"]
                                       ELSE pkgs[k]]
        /\ Keep(c, IF tx.todo = {} THEN NoTx ELSE next, rows, TRUE)
        /\ tangled' = (tangled \/ ~(tx.doomed \subseteq rows))
  BY DEF CommitDelete
<1>4. /\ \A p \in Parts : DOMAIN parts[p] = {"pkg", "position", "quantity", "gone"}
      /\ \A k \in Packages : DOMAIN pkgs[k] = {"state", "quantity", "starred", "based", "from"}
  BY DEF QueueInv, TablesOK, PartOK, PackageOK
<1>5. \A p \in Parts :
        /\ parts'[p].pkg = parts[p].pkg /\ parts'[p].position = parts[p].position
        /\ parts'[p].quantity = parts[p].quantity
        /\ IF p \in rows THEN parts'[p].gone ELSE parts'[p].gone = parts[p].gone
  BY <1>3, <1>4
<1>6. \A k \in Packages :
        /\ pkgs'[k].quantity = pkgs[k].quantity
        /\ pkgs'[k].state = IF k \in rows THEN "gone" ELSE pkgs[k].state
  BY <1>3, <1>4
<1>7. LiveParts' = LiveParts \ rows
  BY <1>5 DEF LiveParts
<1>8. PackagesFilled
  BY <1>5, <1>6, <1>7 DEF PackagesFilled, PackageParts, LiveParts
<1>9. Queued' \subseteq Queued
  <2>1. \A p \in LiveParts : parts[p].pkg \in Packages
    BY DEF LiveParts, QueueInv, TablesOK, PartOK
  <2>2. \A p \in LiveParts : /\ TotalPrints(p)' = TotalPrints(p)
                             /\ PrintsCompleted(p)' = PrintsCompleted(p)
    BY <1>1, <1>5, <1>6, <2>1 DEF TotalPrints, PrintsCompleted, Printed, LiveParts
  <2>3. QED BY <1>7, <2>2 DEF Queued
<1>10. PlacesOK'
  <2>1. SUFFICES ASSUME ~tangled'
                 PROVE  PlacesDiffer' /\ \A p \in LiveParts' : pkgs'[parts'[p].pkg].state = "live"
    BY DEF PlacesOK
  <2>2. ~tangled /\ tx.doomed \subseteq rows
    BY <1>3, <2>1
  <2>3. PlacesDiffer'
    BY <1>5, <1>9, <2>2 DEF OrderInv, PlacesDiffer, Queued, LiveParts
  <2>4. \A k \in Packages \cap rows : \A p \in LiveParts : parts[p].pkg = k => p \in rows
    <3>1. SUFFICES ASSUME NEW k \in Packages \cap rows
                   PROVE  PackageParts(k) \subseteq rows
      BY DEF PackageParts
    <3>2. k = tx.pkg
      BY <1>2, <1>3, QueueAssumption
    <3>3. txs[c].op = "deletePackage"
      BY <1>1, <1>3, <3>2, QueueAssumption DEF OrderInv, RequestOK, Deleting
    <3>4. PackageParts(k) \subseteq tx.doomed
      BY <1>1, <1>3, <3>2, <3>3 DEF OrderInv, RequestOK
    <3>5. QED BY <2>2, <3>4
  <2>5. \A p \in LiveParts : parts[p].pkg \in Packages /\ pkgs[parts[p].pkg].state = "live"
    BY <2>2 DEF OrderInv, LiveParts, QueueInv, TablesOK, PartOK
  <2>6. \A p \in LiveParts' : pkgs'[parts'[p].pkg].state = "live"
    BY <1>5, <1>6, <1>7, <2>4, <2>5 DEF LiveParts
  <2>7. QED BY <2>3, <2>6
<1>11. /\ \A p \in Parts : parts'[p].position \in Int
       /\ \A k \in Packages : pkgs'[k].state \in {"absent", "live", "gone"}
  BY <1>5, <1>6 DEF OrderInv
<1>12. PICK own : own = (IF tx.todo = {} THEN NoTx ELSE next) /\ Keep(c, own, rows, TRUE)
  BY <1>3
<1>13. ReadsLeft(c, rows, TRUE) /\ txs'[c] = own
  <2>1. txs[c].op # "none"
    BY <1>1 DEF Deleting
  <2>2. QED BY <1>1, <1>12, <2>1, KeepReads
<1>14. RequestOK(txs[c])' /\ ReadsOK(txs[c])'
  <2>1. CASE tx.todo = {}
    <3>1. own.op = "none"
      BY <1>12, <2>1 DEF NoTx
    <3>2. QED BY <1>13, <3>1, IdleOrder
  <2>2. CASE tx.todo # {}
    <3>1. own = next
      BY <1>12, <2>2
    <3>2. next.op \in Cancelling /\ next.todo = tx.todo /\ next.held = tx.held
      BY <1>2, <1>3 DEF NoTx, Cancelling
    <3>3. \A t \in tx.todo \cap tx.held : prints'[t].st \in Pending
      BY <1>1, <1>3 DEF OrderInv, RequestOK
    <3>4. QED BY <1>13, <3>1, <3>2, <3>3 DEF RequestOK, ReadsOK, Cancelling
  <2>3. QED BY <2>1, <2>2
<1>15. tangled => tangled'
  BY <1>3
<1>16. QED BY <1>1, <1>8, <1>10, <1>11, <1>13, <1>14, <1>15, CrossOrder

LEMMA InitOrder == QueueInit => OrderInv
<1> SUFFICES ASSUME QueueInit
             PROVE  OrderInv
  OBVIOUS
<1>1. PICK one \in Packages : one = CHOOSE k \in Packages : TRUE
  BY QueueAssumption
<1>2. PICK first \in Parts : first = CHOOSE p \in Parts : TRUE
  BY QueueAssumption
<1>3. PICK second : second = CHOOSE p \in Parts \ {first} : TRUE
  OBVIOUS
<1>4. second \in Parts \ {first}
  BY <1>3, QueueAssumption
<1>5. /\ pkgs = [[k \in Packages |-> NoPackage] EXCEPT
                   ![one] = [NoPackage EXCEPT !.state = "live", !.quantity = 1]]
      /\ parts = [[p \in Parts |-> Absent] EXCEPT
                    ![first] = [pkg |-> one, position |-> 0, quantity |-> 1, gone |-> FALSE],
                    ![second] = [pkg |-> one, position |-> 1, quantity |-> 1, gone |-> FALSE]]
      /\ prints = [t \in Tasks |-> NoPrint] /\ txs = [w \in Writers |-> NoTx]
  BY <1>1, <1>2, <1>3 DEF QueueInit
<1>6. pkgs[one].state = "live" /\ \A k \in Packages \ {one} : pkgs[k].state = "absent"
  BY <1>5 DEF NoPackage
<1>7. /\ parts[first].pkg = one /\ parts[first].position = 0
      /\ parts[second].pkg = one /\ parts[second].position = 1
      /\ \A p \in Parts \ {first, second} : parts[p].pkg = NoPkg /\ parts[p].position = 0
  BY <1>4, <1>5 DEF Absent
<1>8. LiveParts \subseteq {first, second}
  BY <1>7 DEF LiveParts
<1>9. \A p \in Parts : parts[p].position \in Int
  BY <1>4, <1>7
<1>10. PlacesDiffer /\ \A p \in LiveParts : pkgs[parts[p].pkg].state = "live"
  BY <1>6, <1>7, <1>8 DEF PlacesDiffer, Queued
<1>11. \A t \in Tasks : ~prints[t].compiling
  BY <1>5 DEF NoPrint
<1>12. \A w \in Writers : RequestOK(txs[w]) /\ ReadsOK(txs[w])
  BY <1>5 DEF NoTx, RequestOK, ReadsOK, Deleting, Cancelling
<1>13. \A k \in Packages : pkgs[k].state \in {"absent", "live", "gone"}
  BY <1>6
<1>14. QED BY <1>9, <1>10, <1>11, <1>12, <1>13 DEF OrderInv

LEMMA ClientStepOrder ==
  ASSUME QueueInv, OrderInv, NEW c \in Clients, ClientStep(c)
  PROVE  OrderInv'
<1>1. ASSUME \/ \E p \in Parts, mc \in Machines : BeginPrint(c, p, mc)
             \/ \E p \in Parts, n \in 1 .. MaxQuantity : BeginQuantity(c, p, n)
             \/ \E k \in Packages : BeginStar(c, k) \/ BeginUnstar(c, k)
      PROVE  OrderInv'
  <2>1. PICK tx : Begin(c, tx) /\ tx.op \in {"print", "star", "unstar", "quantity"}
    <3>1. ASSUME NEW p, NEW mc, BeginPrint(c, p, mc)
          PROVE  \E tx : Begin(c, tx) /\ tx.op = "print"
      <4>1. PICK tx : /\ tx = [NoTx EXCEPT !.op = "print", !.part = p, !.machine = mc]
                      /\ Begin(c, tx)
        BY <3>1 DEF BeginPrint
      <4>2. tx.op = "print"
        BY <4>1 DEF NoTx
      <4>3. QED BY <4>1, <4>2
    <3>2. ASSUME NEW p, NEW n, BeginQuantity(c, p, n)
          PROVE  \E tx : Begin(c, tx) /\ tx.op = "quantity"
      <4>1. PICK tx : /\ tx = [NoTx EXCEPT !.op = "quantity", !.part = p, !.n = n, !.held = {p}]
                      /\ Begin(c, tx)
        BY <3>2 DEF BeginQuantity
      <4>2. tx.op = "quantity"
        BY <4>1 DEF NoTx
      <4>3. QED BY <4>1, <4>2
    <3>3. ASSUME NEW k, BeginStar(c, k)
          PROVE  \E tx : Begin(c, tx) /\ tx.op = "star"
      <4>1. PICK tx : /\ tx = [NoTx EXCEPT !.op = "star", !.pkg = k, !.held = {k}]
                      /\ Begin(c, tx)
        BY <3>3 DEF BeginStar
      <4>2. tx.op = "star"
        BY <4>1 DEF NoTx
      <4>3. QED BY <4>1, <4>2
    <3>4. ASSUME NEW k, BeginUnstar(c, k)
          PROVE  \E tx : Begin(c, tx) /\ tx.op = "unstar"
      <4>1. PICK tx : /\ tx = [NoTx EXCEPT !.op = "unstar", !.pkg = Template(k),
                                           !.held = {Template(k)}]
                      /\ Begin(c, tx)
        BY <3>4 DEF BeginUnstar
      <4>2. tx.op = "unstar"
        BY <4>1 DEF NoTx
      <4>3. QED BY <4>1, <4>2
    <3>5. QED BY <1>1, <3>1, <3>2, <3>3, <3>4
  <2>2. UNCHANGED <<tables, tangled>>
    BY <1>1 DEF BeginPrint, BeginQuantity, BeginStar, BeginUnstar, Op, tables,
                queueHistory
  <2>3. QED BY <2>1, <2>2, BeginIdleOrder
<1>2. ASSUME \/ \E n \in 1 .. MaxQuantity : BeginAdd(c, <<n>>)
             \/ \E k \in Packages : BeginAddStarred(c, k)
      PROVE  OrderInv'
  <2>1. PICK tx : Begin(c, tx) /\ tx.op = "add" /\ tx.n = EndOfQueue
    <3>1. ASSUME NEW qs, BeginAdd(c, qs)
          PROVE  \E tx : Begin(c, tx) /\ tx.op = "add" /\ tx.n = EndOfQueue
      <4>1. PICK tx : /\ tx = [NoTx EXCEPT !.op = "add", !.seen = qs, !.n = EndOfQueue]
                      /\ Begin(c, tx)
        BY <3>1 DEF BeginAdd
      <4>2. tx.op = "add" /\ tx.n = EndOfQueue
        BY <4>1 DEF NoTx
      <4>3. QED BY <4>1, <4>2
    <3>2. ASSUME NEW k, BeginAddStarred(c, k)
          PROVE  \E tx : Begin(c, tx) /\ tx.op = "add" /\ tx.n = EndOfQueue
      <4>1. PICK tx, qs : /\ tx = [NoTx EXCEPT !.op = "add", !.pkg = k, !.n = EndOfQueue,
                                               !.seen = qs]
                          /\ Begin(c, tx)
        BY <3>2 DEF BeginAddStarred
      <4>2. tx.op = "add" /\ tx.n = EndOfQueue
        BY <4>1 DEF NoTx
      <4>3. QED BY <4>1, <4>2
    <3>3. QED BY <1>2, <3>1, <3>2
  <2>2. UNCHANGED <<tables, tangled>>
    BY <1>2 DEF BeginAdd, BeginAddStarred, Op, tables, queueHistory
  <2>3. QED BY <2>1, <2>2, BeginAddOrder
<1>3. ASSUME NEW n \in 1 .. MaxMoves, NEW moves \in [1 .. n -> Moves], BeginMove(c, moves)
      PROVE  OrderInv'
  BY <1>3, BeginMoveOrder
<1>4. ASSUME NEW t \in Tasks, CommitPrint(c, t) \/ CancelPrint(c, t) \/ StopMachine(c, t)
      PROVE  OrderInv'
  BY <1>4, CommitPrintOrder, CancelPrintOrder, StopOrder
<1>5. ASSUME CommitMove(c) \/ CommitQuantity(c) \/ CommitUnstar(c) \/ CommitDelete(c)
      PROVE  OrderInv'
  BY <1>5, CommitMoveOrder, CommitQuantityOrder, CommitUnstarOrder, CommitDeleteOrder
<1>6. ASSUME NEW k \in Packages, NEW ids, CommitAdd(c, k, ids)
      PROVE  OrderInv'
  BY <1>6, CommitAddOrder
<1>7. ASSUME NEW k \in Packages, NEW ids, NEW originals, CommitStar(c, k, ids, originals)
      PROVE  OrderInv'
  BY <1>7, CommitStarOrder
<1>8. ASSUME \/ \E ps \in SUBSET Parts : BeginDeleteParts(c, ps)
             \/ \E k \in Packages : BeginDeletePackage(c, k)
      PROVE  OrderInv'
  BY <1>8, BeginDeletionOrder
<1>9. ASSUME DeletionFails(c)
      PROVE  OrderInv'
  BY <1>9, StopOrder
<1>10. QED BY <1>1, <1>2, <1>3, <1>4, <1>5, <1>6, <1>7, <1>8, <1>9 DEF ClientStep

LEMMA StepOrder == QueueInv /\ OrderInv /\ [QueueNext]_queueVars => OrderInv'
<1>1. ASSUME QueueInv, OrderInv, QueueNext
      PROVE  OrderInv'
  BY <1>1, MachineStepOrder, ClientStepOrder DEF QueueNext
<1>2. ASSUME QueueInv, OrderInv, UNCHANGED queueVars
      PROVE  OrderInv'
  <2>1. UNCHANGED <<parts, pkgs, prints, txs, tangled>> /\ NoPart \notin Writers
    BY <1>2, QueueAssumption DEF queueVars
  <2>2. ReadsLeft(NoPart, {}, FALSE)
    BY <2>1, OthersUntouched
  <2>3. PackagesAlike /\ FinishedStay /\ PendingLeft({})
    BY <2>1 DEF PackagesAlike, FinishedStay, PendingLeft
  <2>4. \A t \in Tasks : prints'[t].compiling => prints'[t].st # "finished"
    BY <1>2, <2>1 DEF OrderInv
  <2>5. QED BY <1>2, <2>1, <2>2, <2>3, <2>4, QuietOrder
<1>3. QED BY <1>1, <1>2

\* No two parts of the queue share a place, however many requests move, add, star
\* and delete parts at once, as long as none of them writes places from a read of
\* the queue that another has changed (set_part_positions and the mutations that
\* add parts).
THEOREM PlacesCorrect == QueueSpec => []PlacesDiffer
<1>1. QueueSpec => []OrderInv
  BY InitOrder, StepOrder, QueueInvariant, PTL DEF QueueSpec
<1>2. OrderInv => PlacesDiffer
  BY DEF OrderInv, PlacesDiffer
<1>3. QED BY <1>1, <1>2, PTL

===============================================================================
