-------------------------- MODULE MarlinDriverProofs --------------------------
(***************************************************************************)
(* Theorems about the Marlin driver, for every set of tasks, every text,   *)
(* every bound and every subset of the faults and requests; first, what    *)
(* the operations on the spool return and what ReadyState's handlers do to *)
(* the spool, to the feedback and to the line numbers; then the life of a  *)
(* task, from the channel into the spool, and out of it into an entry of   *)
(* the feedback that stays: that no task is lost on the way, and when the  *)
(* process may end; last, the numbers of the lines on a link that loses    *)
(* nothing, from the attempt to connect on.                                *)
(***************************************************************************)
EXTENDS MarlinDriver, TLAPS, SequenceTheorems, FiniteSetTheorems,
        WellFoundedInduction, RecursionLemmas

-----------------------------------------------------------------------------
\* The spool.

\* A nonempty set of natural numbers has a least element.
LEMMA LeastNatural ==
  ASSUME NEW S \in SUBSET Nat, S # {}
  PROVE  \E i \in S : \A j \in S : i <= j
<1>1. IsWellFoundedOn(OpToRel(<, Nat), Nat)
  BY NatLessThanWellFounded
<1>2. PICK i \in S : \A j \in S : ~ (<<j, i>> \in OpToRel(<, Nat))
  BY <1>1, WFMin
<1>3. ASSUME NEW j \in S, j < i
      PROVE  FALSE
  <2>1. <<j, i>> \in Nat \X Nat
    OBVIOUS
  <2>2. <<j, i>>[1] = j /\ <<j, i>>[2] = i
    OBVIOUS
  <2>3. <<j, i>> \in OpToRel(<, Nat)
    BY <1>3, <2>1, <2>2 DEF OpToRel
  <2>4. QED BY <1>2, <2>3
<1>4. i \in Nat /\ \A j \in S : j \in Nat /\ ~(j < i)
  BY <1>3
<1>5. QED BY <1>4

\* The lines of every task, the driver's own included, form a sequence.
LEMMA LinesOfType ==
  ASSUME NEW t \in AnyTask
  PROVE  LinesOf(t) \in Seq(LineKind)
<1>1. CASE t \in Task
  BY <1>1, SpoolAssumption DEF LinesOf
<1>2. CASE t \notin Task
  BY <1>2 DEF LinesOf, LineKind
<1>3. QED BY <1>1, <1>2

\* FirstStop is one of the positions at which a task stops.
LEMMA FirstStopIsAStop ==
  ASSUME NEW x \in SpooledTask, Stops(x) # {}
  PROVE  /\ FirstStop(x) \in Stops(x)
         /\ FirstStop(x) \in Nat
         /\ FirstStop(x) \in x.pos + 1 .. Len(LinesOf(x.id))
         /\ LinesOf(x.id)[FirstStop(x)] \notin {"comment", "mark"}
<1>1. x.id \in AnyTask /\ x.pos \in Nat
  BY DEF SpooledTask
<1>2. Len(LinesOf(x.id)) \in Nat
  BY <1>1, LinesOfType, LenProperties
<1>3. Stops(x) \in SUBSET Nat
  BY <1>1, <1>2 DEF Stops
<1>4. \E i \in Stops(x) : \A j \in Stops(x) : i <= j
  BY <1>3, LeastNatural
<1>5. FirstStop(x) \in Stops(x)
  BY <1>4 DEF FirstStop
<1>6. QED BY <1>3, <1>5 DEF Stops

\* Drained counts the tasks before the first one that has a line to stop at.
LEMMA DrainedIsAPrefix ==
  ASSUME NEW ts \in Seq(SpooledTask)
  PROVE  /\ Drained(ts) \in 0 .. Len(ts)
         /\ \A i \in 1 .. Drained(ts) : Stops(ts[i]) = {}
         /\ Drained(ts) < Len(ts) => Stops(ts[Drained(ts) + 1]) # {}
<1> DEFINE K == { k \in 0 .. Len(ts) : k < Len(ts) => Stops(ts[k + 1]) # {} }
<1>1. Len(ts) \in Nat
  BY LenProperties
<1>2. K \in SUBSET Nat /\ Len(ts) \in K
  BY <1>1
<1>3. PICK k \in K : \A j \in K : k <= j
  BY <1>2, LeastNatural
<1>4. \A i \in 1 .. k : Stops(ts[i]) = {}
  <2> SUFFICES ASSUME NEW i \in 1 .. k
               PROVE  Stops(ts[i]) = {}
    OBVIOUS
  <2>1. i - 1 \notin K
    <3>1. k \in Nat /\ i \in Nat /\ i <= k /\ ~(k <= i - 1)
      BY <1>2, <1>3
    <3>2. QED BY <1>3, <3>1
  <2>2. i - 1 \in 0 .. Len(ts) /\ i - 1 < Len(ts) /\ (i - 1) + 1 = i
    BY <1>1, <1>3
  <2>3. QED BY <2>1, <2>2
<1>5. \E n \in 0 .. Len(ts) :
        /\ \A i \in 1 .. n : Stops(ts[i]) = {}
        /\ n < Len(ts) => Stops(ts[n + 1]) # {}
  BY <1>3, <1>4
<1>6. QED BY <1>5 DEF Drained

\* Despooling a task changes neither its id nor its type.
LEMMA DespooledType ==
  ASSUME NEW x \in SpooledTask, NEW last \in Nat
  PROVE  /\ Despooled(x, last) \in SpooledTask
         /\ Despooled(x, last).id = x.id
<1>1. x.id \in AnyTask /\ x.pos \in Nat /\ x.count \in Nat /\ x.started \in BOOLEAN
  BY DEF SpooledTask
<1>2. IsFiniteSet(x.pos + 1 .. last)
  <2>1. x.pos + 1 \in Int /\ last \in Int
    BY <1>1
  <2>2. QED BY <2>1, FS_Interval
<1>3. GCodesIn(x.id, x.pos, last) \subseteq x.pos + 1 .. last
  BY DEF GCodesIn
<1>4. Cardinality(GCodesIn(x.id, x.pos, last)) \in Nat
  BY <1>2, <1>3, FS_Subset, FS_CardinalityType
<1>5. (x.started \/ GCodesIn(x.id, x.pos, last) # {}) \in BOOLEAN
  BY <1>1
<1>6. QED BY <1>1, <1>4, <1>5 DEF Despooled, SpooledTask

\* A line that is no comment starts the task.
LEMMA DespooledStarts ==
  ASSUME NEW x \in SpooledTask, Stops(x) # {}
  PROVE  Despooled(x, FirstStop(x)).started = TRUE
<1>1. FirstStop(x) \in GCodesIn(x.id, x.pos, FirstStop(x))
  BY FirstStopIsAStop DEF GCodesIn, SpooledTask
<1>2. QED BY <1>1 DEF Despooled, SpooledTask

\* The first k elements of a sequence, and the elements from the k-th one on.
LEMMA FirstOf ==
  ASSUME NEW S, NEW s \in Seq(S), NEW k \in 0 .. Len(s)
  PROVE  /\ SubSeq(s, 1, k) \in Seq(S)
         /\ Len(SubSeq(s, 1, k)) = k
         /\ \A i \in 1 .. k : SubSeq(s, 1, k)[i] = s[i]
<1>1. Len(s) \in Nat /\ \A i \in 1 .. Len(s) : s[i] \in S
  BY LenProperties, ElementOfSeq
<1>2. 1 \in Int /\ k \in Int /\ \A i \in 1 .. k : s[i] \in S
  BY <1>1
<1>3. /\ SubSeq(s, 1, k) \in Seq(S)
      /\ Len(SubSeq(s, 1, k)) = IF 1 <= k THEN k - 1 + 1 ELSE 0
      /\ \A i \in 1 .. k - 1 + 1 : SubSeq(s, 1, k)[i] = s[1 + i - 1]
  BY ONLY <1>2, SubSeqProperties
<1>4. QED BY <1>1, <1>3

\* The rest of a sequence behind its first k elements.
LEMMA RestOf ==
  ASSUME NEW S, NEW s \in Seq(S), NEW k \in 0 .. Len(s)
  PROVE  /\ SubSeq(s, k + 1, Len(s)) \in Seq(S)
         /\ Len(SubSeq(s, k + 1, Len(s))) = Len(s) - k
         /\ \A i \in 1 .. Len(s) - k : SubSeq(s, k + 1, Len(s))[i] = s[k + i]
<1>1. Len(s) \in Nat /\ \A i \in 1 .. Len(s) : s[i] \in S
  BY LenProperties, ElementOfSeq
<1>2. k + 1 \in Int /\ Len(s) \in Int /\ \A i \in k + 1 .. Len(s) : s[i] \in S
  BY <1>1
<1>3. /\ SubSeq(s, k + 1, Len(s)) \in Seq(S)
      /\ Len(SubSeq(s, k + 1, Len(s)))
           = IF k + 1 <= Len(s) THEN Len(s) - (k + 1) + 1 ELSE 0
      /\ \A i \in 1 .. Len(s) - (k + 1) + 1 :
           SubSeq(s, k + 1, Len(s))[i] = s[k + 1 + i - 1]
  BY ONLY <1>2, SubSeqProperties
<1>4. Len(SubSeq(s, k + 1, Len(s))) = Len(s) - k
  BY <1>1, <1>3
<1>5. ASSUME NEW i \in 1 .. Len(s) - k
      PROVE  SubSeq(s, k + 1, Len(s))[i] = s[k + i]
  <2>1. k \in Nat /\ i \in Nat /\ k + 1 + i - 1 = k + i
    BY <1>1
  <2>2. i \in 1 .. Len(s) - (k + 1) + 1
    BY <1>1, <2>1
  <2>3. QED BY <1>3, <2>1, <2>2
<1>6. QED BY <1>3, <1>4, <1>5

\* ConcatProperties in the form in which it is used below.
LEMMA Joined ==
  ASSUME NEW S, NEW s \in Seq(S), NEW t \in Seq(S)
  PROVE  /\ s \o t \in Seq(S)
         /\ Len(s \o t) = Len(s) + Len(t)
         /\ \A i \in 1 .. Len(s) : (s \o t)[i] = s[i]
         /\ \A i \in 1 .. Len(t) : (s \o t)[Len(s) + i] = t[i]
<1>1. /\ s \o t \in Seq(S)
      /\ Len(s \o t) = Len(s) + Len(t)
      /\ \A i \in 1 .. Len(s) + Len(t) :
           (s \o t)[i] = IF i <= Len(s) THEN s[i] ELSE t[i - Len(s)]
  BY ConcatProperties
<1>2. Len(s) \in Nat /\ Len(t) \in Nat
  BY LenProperties
<1>3. ASSUME NEW i \in 1 .. Len(s)
      PROVE  (s \o t)[i] = s[i]
  BY <1>1, <1>2
<1>4. ASSUME NEW i \in 1 .. Len(t)
      PROVE  (s \o t)[Len(s) + i] = t[i]
  <2>1. /\ Len(s) + i \in 1 .. Len(s) + Len(t)
        /\ ~(Len(s) + i <= Len(s))
        /\ (Len(s) + i) - Len(s) = i
    BY <1>2
  <2>2. QED BY <1>1, <2>1
<1>5. QED BY <1>1, <1>3, <1>4

\* A sequence without its k-th element.
LEMMA RemoveAt ==
  ASSUME NEW S, NEW s \in Seq(S), NEW k \in 1 .. Len(s)
  PROVE  LET u == SubSeq(s, 1, k - 1) \o SubSeq(s, k + 1, Len(s))
         IN  /\ u \in Seq(S)
             /\ Len(u) = Len(s) - 1
             /\ \A i \in 1 .. k - 1 : u[i] = s[i]
             /\ \A i \in 1 .. Len(s) - k : u[k - 1 + i] = s[k + i]
<1> DEFINE b == SubSeq(s, 1, k - 1)
           a == SubSeq(s, k + 1, Len(s))
           u == b \o a
<1>1. /\ k - 1 \in Nat /\ Len(s) \in Nat /\ k - 1 + (Len(s) - k) = Len(s) - 1
      /\ k - 1 \in 0 .. Len(s) /\ k \in 0 .. Len(s)
  BY ONLY s \in Seq(S), k \in 1 .. Len(s), LenProperties
<1>2. b \in Seq(S) /\ Len(b) = k - 1 /\ \A i \in 1 .. k - 1 : b[i] = s[i]
  BY ONLY s \in Seq(S), <1>1, FirstOf
<1>3. /\ a \in Seq(S) /\ Len(a) = Len(s) - k
      /\ \A i \in 1 .. Len(s) - k : a[i] = s[k + i]
  BY ONLY s \in Seq(S), <1>1, RestOf
<1> HIDE DEF a, b
<1>5. b \in Seq(S) /\ a \in Seq(S)
  BY ONLY <1>2, <1>3
<1>6. /\ u \in Seq(S)
      /\ Len(u) = Len(b) + Len(a)
      /\ \A i \in 1 .. Len(b) : u[i] = b[i]
      /\ \A i \in 1 .. Len(a) : u[Len(b) + i] = a[i]
  BY ONLY <1>5, Joined
<1> HIDE DEF u
<1>7. /\ u \in Seq(S)
      /\ Len(u) = Len(s) - 1
      /\ \A i \in 1 .. k - 1 : u[i] = s[i]
      /\ \A i \in 1 .. Len(s) - k : u[k - 1 + i] = s[k + i]
  BY ONLY <1>1, <1>2, <1>3, <1>6
<1>8. QED BY ONLY <1>7 DEF u, b, a

\* Spool inserts the task at one place and moves nothing else.
LEMMA SpoolInserts ==
  ASSUME NEW ts \in Seq(SpooledTask), NEW x \in SpooledTask
  PROVE  /\ Spool(ts, x) \in Seq(SpooledTask)
         /\ Len(Spool(ts, x)) = Len(ts) + 1
         /\ \E k \in 0 .. Len(ts) :
              /\ \A i \in 1 .. k : Spool(ts, x)[i] = ts[i]
              /\ Spool(ts, x)[k + 1] = x
              /\ \A i \in 1 .. Len(ts) - k : Spool(ts, x)[k + 1 + i] = ts[k + i]
<1>1. Len(ts) \in Nat
  BY LenProperties
<1>2. CASE ~IsOverride(x.id)
  <2>1. Spool(ts, x) = Append(ts, x)
    BY <1>2 DEF Spool
  <2>2. QED BY <1>1, <2>1, AppendProperties
<1>3. CASE IsOverride(x.id)
  <2> DEFINE K == { k \in 0 .. Len(ts) : k < Len(ts) => ~IsOverride(ts[k + 1].id) }
             First == CHOOSE k \in 0 .. Len(ts) :
                        /\ \A i \in 1 .. k : IsOverride(ts[i].id)
                        /\ k < Len(ts) => ~IsOverride(ts[k + 1].id)
  <2>1. K \in SUBSET Nat /\ Len(ts) \in K
    BY <1>1
  <2>2. PICK k \in K : \A j \in K : k <= j
    BY <2>1, LeastNatural
  <2>3. ASSUME NEW i \in 1 .. k
        PROVE  IsOverride(ts[i].id)
    <3>1. k \in Nat /\ i \in Nat /\ i <= k /\ ~(k <= i - 1)
      BY <2>1, <2>2
    <3>2. i - 1 \notin K
      BY <2>2, <3>1
    <3>3. i - 1 \in 0 .. Len(ts) /\ i - 1 < Len(ts) /\ (i - 1) + 1 = i
      BY <1>1, <2>2
    <3>4. QED BY <3>2, <3>3
  <2>4. First \in 0 .. Len(ts)
    BY <2>2, <2>3
  <2>5. Spool(ts, x) = (SubSeq(ts, 1, First) \o <<x>>) \o SubSeq(ts, First + 1, Len(ts))
    BY <1>3 DEF Spool
  <2> HIDE DEF First
  <2>6. /\ Spool(ts, x) \in Seq(SpooledTask)
        /\ Len(Spool(ts, x)) = Len(ts) + 1
        /\ \A i \in 1 .. First : Spool(ts, x)[i] = ts[i]
        /\ Spool(ts, x)[First + 1] = x
        /\ \A i \in 1 .. Len(ts) - First : Spool(ts, x)[First + 1 + i] = ts[First + i]
    <3> DEFINE b == SubSeq(ts, 1, First)
               a == SubSeq(ts, First + 1, Len(ts))
               m == b \o <<x>>
               u == m \o a
    <3>1. b \in Seq(SpooledTask) /\ Len(b) = First /\ \A i \in 1 .. First : b[i] = ts[i]
      BY ONLY ts \in Seq(SpooledTask), <2>4, FirstOf
    <3>2. /\ a \in Seq(SpooledTask) /\ Len(a) = Len(ts) - First
          /\ \A i \in 1 .. Len(ts) - First : a[i] = ts[First + i]
      BY ONLY ts \in Seq(SpooledTask), <2>4, RestOf
    <3>3. Spool(ts, x) = u
      BY <2>5
    <3> HIDE DEF a, b
    <3>4. <<x>> \in Seq(SpooledTask) /\ Len(<<x>>) = 1 /\ <<x>>[1] = x
      OBVIOUS
    <3>5. b \in Seq(SpooledTask) /\ a \in Seq(SpooledTask)
      BY <3>1, <3>2
    <3>6. /\ m \in Seq(SpooledTask)
          /\ Len(m) = Len(b) + Len(<<x>>)
          /\ \A i \in 1 .. Len(b) : m[i] = b[i]
          /\ \A i \in 1 .. Len(<<x>>) : m[Len(b) + i] = <<x>>[i]
      BY ONLY <3>4, <3>5, Joined
    <3> HIDE DEF m
    <3>7. m \in Seq(SpooledTask)
      BY <3>6
    <3>8. /\ u \in Seq(SpooledTask)
          /\ Len(u) = Len(m) + Len(a)
          /\ \A i \in 1 .. Len(m) : u[i] = m[i]
          /\ \A i \in 1 .. Len(a) : u[Len(m) + i] = a[i]
      BY ONLY <3>5, <3>7, Joined
    <3> HIDE DEF u
    <3>9. Len(m) = First + 1 /\ m[First + 1] = x
      <4>1. 1 \in 1 .. 1
        OBVIOUS
      <4>2. QED BY ONLY <3>1, <3>4, <3>6, <4>1
    <3>10. Len(u) = Len(ts) + 1
      BY ONLY <1>1, <2>4, <3>2, <3>8, <3>9
    <3>11. ASSUME NEW i \in 1 .. First
           PROVE  u[i] = ts[i]
      <4>1. i \in 1 .. Len(m)
        BY ONLY i \in 1 .. First, <1>1, <2>4, <3>9
      <4>2. QED BY ONLY i \in 1 .. First, <3>1, <3>6, <3>8, <4>1
    <3>12. u[First + 1] = x
      <4>1. First + 1 \in 1 .. Len(m)
        BY ONLY <1>1, <2>4, <3>9
      <4>2. QED BY ONLY <3>8, <3>9, <4>1
    <3>13. \A i \in 1 .. Len(ts) - First : u[First + 1 + i] = ts[First + i]
      BY ONLY <3>2, <3>8, <3>9
    <3>14. QED BY ONLY <3>3, <3>8, <3>10, <3>11, <3>12, <3>13
  <2>7. QED BY <2>4, <2>6
<1>4. QED BY <1>2, <1>3

\* Unspool takes the task of the given id out, if there is one.
LEMMA UnspoolRemoves ==
  ASSUME NEW ts \in Seq(SpooledTask), NEW t, t \in Ids(ts)
  PROVE  /\ Unspool(ts, t) \in Seq(SpooledTask)
         /\ Len(Unspool(ts, t)) = Len(ts) - 1
         /\ Position(ts, t) \in 1 .. Len(ts)
         /\ ts[Position(ts, t)].id = t
         /\ \A i \in 1 .. Position(ts, t) - 1 : Unspool(ts, t)[i] = ts[i]
         /\ \A i \in 1 .. Len(ts) - Position(ts, t) :
              Unspool(ts, t)[Position(ts, t) - 1 + i] = ts[Position(ts, t) + i]
<1> DEFINE K == { k \in DOMAIN ts : ts[k].id = t }
           At == Position(ts, t)
<1>1. Len(ts) \in Nat /\ DOMAIN ts = 1 .. Len(ts)
  BY LenProperties
<1>2. K \in SUBSET Nat /\ K # {}
  BY <1>1 DEF Ids
<1>3. PICK k \in K : \A j \in K : k <= j
  BY <1>2, LeastNatural
<1>4. \A j \in 1 .. k - 1 : ts[j].id # t
  BY <1>1, <1>3
<1>5. At \in 1 .. Len(ts) /\ ts[At].id = t
  BY <1>1, <1>3, <1>4 DEF Position
<1>6. Unspool(ts, t) = SubSeq(ts, 1, At - 1) \o SubSeq(ts, At + 1, Len(ts))
  BY DEF Unspool
<1> HIDE DEF At
<1>7. /\ Unspool(ts, t) \in Seq(SpooledTask)
      /\ Len(Unspool(ts, t)) = Len(ts) - 1
      /\ \A i \in 1 .. At - 1 : Unspool(ts, t)[i] = ts[i]
      /\ \A i \in 1 .. Len(ts) - At : Unspool(ts, t)[At - 1 + i] = ts[At + i]
  BY ONLY ts \in Seq(SpooledTask), <1>5, <1>6, RemoveAt
<1>8. QED BY <1>5, <1>7 DEF At

-----------------------------------------------------------------------------
\* The handlers.

Progress == [Task -> [status : TaskStatus, n : Nat]]

OutcomeType ==
  [ ready : ReadyState, prog : Progress, send : Seq(WireLine),
    arm : SUBSET {"tickle_delay", "polling_delay"},
    cancel : SUBSET {"tickle_delay"},
    exit : BOOLEAN, fail : {"none", "error", "panic"} ]

\* The tasks of us are the last ones of ts, by their ids.
TailOf(us, ts) ==
  \E k \in 0 .. Len(ts) :
    /\ Len(us) = Len(ts) - k
    /\ \A i \in 1 .. Len(us) : us[i].id = ts[k + i].id

\* No task of the server is in the spool more than once.
Once(ts) ==
  \A i, j \in DOMAIN ts : ts[i].id \in Task /\ ts[i].id = ts[j].id => i = j

\* The progress p reports as started no task but the ones of ts that have
\* started, those not as paused, and none of the tasks of ts as settled.
Matches(p, ts) ==
  \A t \in Task :
    /\ p[t].status = "Started" => \E i \in DOMAIN ts : ts[i].id = t /\ ts[i].started
    /\ (\E i \in DOMAIN ts : ts[i].id = t /\ ts[i].started)
         => p[t].status \in RunningStatus
    /\ (\E i \in DOMAIN ts : ts[i].id = t) => p[t].status \notin Settled

\* PollsAwaitTheirTurn, of the ReadyState r.
Turn(r) == r.onOk = "NotAwaitingOk" => r.pollFor = "None"

\* A ReadyState that may go on to despool a task.
NoPollDue(r) == r.onOk = "NotAwaitingOk" \/ r.pollFor = "None"

\* The numbers of the lines run without a gap from the one after last to the one
\* before line; a line without a number repeats the count, and an M110 among them
\* comes before the count has begun.
InStep(lines, last, line) ==
  \E c \in [0 .. Len(lines) -> Nat] :
    /\ c[0] = last /\ c[Len(lines)] + 1 = line
    /\ \A i \in 1 .. Len(lines) :
         \/ /\ lines[i].num = 0 /\ c[i] = c[i - 1]
            /\ lines[i].code = "M110" => c[i] = 0
         \/ /\ lines[i].num = c[i] /\ c[i] = c[i - 1] + 1
            /\ lines[i].code # "M110"

\* What n sends beyond o is in step with whatever o's lines were in step with.
Numbers(n, o) ==
  \A lines \in Seq(WireLine), last \in Nat :
    InStep(lines \o o.send, last, o.ready.line)
      => InStep(lines \o n.send, last, n.ready.line)

\* What a handler may have done between the outcomes o and n: tasks have left
\* the spool at its front, and are finished, entries of other tasks have stayed,
\* the feedback matches the spool as it did before, the process is to end only
\* when nothing is spooled, a poll still awaits its turn, and the lines it sends
\* are numbered in step.
Follows(n, o) ==
  /\ TailOf(n.ready.tasks, o.ready.tasks)
  /\ \A t \in Task : t \notin Ids(o.ready.tasks) => n.prog[t] = o.prog[t]
  /\ Once(o.ready.tasks) /\ Matches(o.prog, o.ready.tasks)
       => Matches(n.prog, n.ready.tasks)
  /\ \A t \in Task : t \in Ids(o.ready.tasks) =>
       t \in Ids(n.ready.tasks) \/ n.prog[t].status = "Finished"
  /\ n.exit => o.exit \/ n.ready.tasks = <<>>
  /\ Turn(o.ready) => Turn(n.ready)
  /\ Numbers(n, o)

-----------------------------------------------------------------------------
\* The feedback stays well formed when the progress of tasks is pushed to it.
LEMMA PushType ==
  ASSUME NEW p \in Progress, NEW xs, NEW status \in TaskStatus,
         \A i \in DOMAIN xs : xs[i].count \in Nat
  PROVE  Push(p, xs, status) \in Progress
<1> SUFFICES ASSUME NEW t \in Task
             PROVE  Push(p, xs, status)[t] \in [status : TaskStatus, n : Nat]
  BY DEF Push, Progress
<1>1. CASE \E i \in DOMAIN xs : xs[i].id = t
  <2> DEFINE i == CHOOSE i \in DOMAIN xs : xs[i].id = t
  <2>1. i \in DOMAIN xs
    BY <1>1
  <2>2. LineNumber(xs[i].count) \in Nat
    BY <2>1 DEF LineNumber
  <2> HIDE DEF i
  <2>3. Push(p, xs, status)[t] = [status |-> status, n |-> LineNumber(xs[i].count)]
    BY <1>1 DEF Push, i
  <2>4. QED BY <2>2, <2>3
<1>2. CASE ~ \E i \in DOMAIN xs : xs[i].id = t
  BY <1>2 DEF Push, Progress
<1>3. QED BY <1>1, <1>2

\* The outcome of having done nothing yet.
LEMMA OutcomeOfNothing ==
  ASSUME NEW r \in ReadyState, NEW p \in Progress
  PROVE  Outcome(r, p) \in OutcomeType
BY DEF Outcome, OutcomeType

\* Lines in step stay so when one is added, with the next number or without one.
LEMMA InStepAppend ==
  ASSUME NEW lines \in Seq(WireLine), NEW last \in Nat, NEW line \in Nat,
         InStep(lines, last, line), NEW w \in WireLine, w.code # "M110"
  PROVE  /\ w.num = line => InStep(Append(lines, w), last, line + 1)
         /\ w.num = 0 => InStep(Append(lines, w), last, line)
<1> DEFINE m == Len(lines)
           more == Append(lines, w)
<1>1. m \in Nat /\ Len(more) = m + 1 /\ more[m + 1] = w
      /\ \A i \in 1 .. m : more[i] = lines[i]
  BY LenProperties, AppendProperties
<1>2. PICK c \in [0 .. m -> Nat] :
        /\ c[0] = last /\ c[m] + 1 = line
        /\ \A i \in 1 .. m :
             \/ /\ lines[i].num = 0 /\ c[i] = c[i - 1]
                /\ lines[i].code = "M110" => c[i] = 0
             \/ /\ lines[i].num = c[i] /\ c[i] = c[i - 1] + 1
                /\ lines[i].code # "M110"
  BY DEF InStep
<1> HIDE DEF m, more
<1>3. c[m] \in Nat
  BY <1>1
<1>4. ASSUME NEW next \in Nat,
             \/ w.num = next /\ next = c[m] + 1
             \/ w.num = 0 /\ next = c[m]
      PROVE  InStep(more, last, next + 1)
  <2> DEFINE d == [i \in 0 .. m + 1 |-> IF i = m + 1 THEN next ELSE c[i]]
  <2>1. d \in [0 .. m + 1 -> Nat]
    BY <1>1
  <2>2. d[m + 1] = next /\ \A i \in 0 .. m : d[i] = c[i]
    BY <1>1
  <2> HIDE DEF d
  <2>3. d[0] = last /\ d[m + 1] + 1 = next + 1
    BY <1>1, <1>2, <2>2
  <2>4. ASSUME NEW i \in 1 .. m + 1
        PROVE  \/ /\ more[i].num = 0 /\ d[i] = d[i - 1]
                  /\ more[i].code = "M110" => d[i] = 0
               \/ /\ more[i].num = d[i] /\ d[i] = d[i - 1] + 1
                  /\ more[i].code # "M110"
    <3>1. CASE i = m + 1
      <4>1. d[i] = next /\ d[i - 1] = c[m] /\ more[i] = w
        BY <1>1, <2>2, <3>1
      <4>2. QED BY <1>4, <4>1
    <3>2. CASE i # m + 1
      <4>1. i \in 1 .. m /\ i \in 0 .. m /\ i - 1 \in 0 .. m
        BY <1>1, <3>2
      <4>2. d[i] = c[i] /\ d[i - 1] = c[i - 1] /\ more[i] = lines[i]
        BY <1>1, <2>2, <4>1
      <4>3. QED BY <1>2, <4>1, <4>2
    <3>3. QED BY <3>1, <3>2
  <2>5. /\ d \in [0 .. Len(more) -> Nat] /\ d[Len(more)] + 1 = next + 1
        /\ \A i \in 1 .. Len(more) :
             \/ /\ more[i].num = 0 /\ d[i] = d[i - 1]
                /\ more[i].code = "M110" => d[i] = 0
             \/ /\ more[i].num = d[i] /\ d[i] = d[i - 1] + 1
                /\ more[i].code # "M110"
    BY <1>1, <2>1, <2>3, <2>4
  <2> HIDE DEF more
  <2>6. QED BY <2>3, <2>5 DEF InStep
<1>5. ASSUME w.num = line
      PROVE  InStep(more, last, line + 1)
  <2>1. line \in Nat /\ w.num = line /\ line = c[m] + 1
    BY <1>2, <1>3, <1>5
  <2>2. QED BY <1>4, <2>1
<1>6. ASSUME w.num = 0
      PROVE  InStep(more, last, line)
  BY <1>2, <1>3, <1>4, <1>6
<1>7. QED BY <1>5, <1>6 DEF more

\* Appending to the second of two sequences.
LEMMA ConcatAppend ==
  ASSUME NEW s \in Seq(WireLine), NEW t \in Seq(WireLine), NEW w \in WireLine
  PROVE  s \o Append(t, w) = Append(s \o t, w)
OBVIOUS

\* An outcome that sends nothing more and counts no line.
LEMMA NumbersSame ==
  ASSUME NEW o, NEW n, n.send = o.send, n.ready.line = o.ready.line
  PROVE  Numbers(n, o)
BY DEF Numbers

LEMMA NumbersTransitive ==
  ASSUME NEW o, NEW n, NEW m, Numbers(n, o), Numbers(m, n)
  PROVE  Numbers(m, o)
BY DEF Numbers

\* An outcome that sends one line more, numbered with the line counted or not
\* numbered at all.
LEMMA NumbersOne ==
  ASSUME NEW o \in OutcomeType, NEW n, NEW w \in WireLine, w.code # "M110",
         n.send = Append(o.send, w),
         \/ w.num = o.ready.line /\ n.ready.line = o.ready.line + 1
         \/ w.num = 0 /\ n.ready.line = o.ready.line
  PROVE  Numbers(n, o)
<1> SUFFICES ASSUME NEW lines \in Seq(WireLine), NEW last \in Nat,
                    InStep(lines \o o.send, last, o.ready.line)
             PROVE  InStep(lines \o n.send, last, n.ready.line)
  BY DEF Numbers
<1>1. o.send \in Seq(WireLine) /\ o.ready.line \in Nat
  BY DEF OutcomeType, ReadyState
<1> DEFINE sent == lines \o o.send
<1>2. sent \in Seq(WireLine)
  BY <1>1, ConcatProperties
<1>3. lines \o n.send = Append(sent, w)
  BY <1>1, ConcatAppend
<1>4. InStep(sent, last, o.ready.line)
  OBVIOUS
<1> HIDE DEF sent
<1>5. QED BY <1>1, <1>2, <1>3, <1>4, InStepAppend

\* Sending a line leaves the spool and the feedback alone, as do the setters that
\* follow.
LEMMA SendSerialType ==
  ASSUME NEW o \in OutcomeType, NEW num \in Nat, NEW code \in Code, NEW pos \in Nat,
         NEW kind
  PROVE  /\ SendSerial(o, num, code, pos, kind) \in OutcomeType
         /\ SendSerial(o, num, code, pos, kind).ready = o.ready
         /\ SendSerial(o, num, code, pos, kind).prog = o.prog
         /\ SendSerial(o, num, code, pos, kind).exit = o.exit
         /\ SendSerial(o, num, code, pos, kind).fail = o.fail
         /\ SendSerial(o, num, code, pos, kind).send
              = Append(o.send, [num |-> num, code |-> code, pos |-> pos])
<1>1. [num |-> num, code |-> code, pos |-> pos] \in WireLine
  BY DEF WireLine
<1>2. Append(o.send, [num |-> num, code |-> code, pos |-> pos]) \in Seq(WireLine)
  BY <1>1, AppendProperties DEF OutcomeType
<1>3. QED BY <1>2 DEF SendSerial, OutcomeType

\* A line without a number is not counted.
LEMMA SendUnnumbered ==
  ASSUME NEW o \in OutcomeType, NEW code \in Code, NEW pos \in Nat, NEW kind,
         code # "M110"
  PROVE  \E s \in OutcomeType :
           /\ s = SendSerial(o, 0, code, pos, kind)
           /\ s.ready = o.ready /\ s.prog = o.prog /\ s.exit = o.exit
           /\ Numbers(s, o)
<1> DEFINE s == SendSerial(o, 0, code, pos, kind)
           w == [num |-> 0, code |-> code, pos |-> pos]
<1>1. w \in WireLine /\ w.num = 0 /\ w.code # "M110"
  BY DEF WireLine
<1>2. /\ s \in OutcomeType /\ s.ready = o.ready /\ s.prog = o.prog
      /\ s.exit = o.exit /\ s.send = Append(o.send, w)
  BY SendSerialType
<1> HIDE DEF s, w
<1>3. Numbers(s, o)
  BY <1>1, <1>2, NumbersOne
<1>4. QED BY <1>2, <1>3 DEF s

\* Assigning a ReadyState to an outcome leaves the rest of it as it is.
LEMMA WithType ==
  ASSUME NEW o \in OutcomeType, NEW r \in ReadyState
  PROVE  /\ With(o, r) \in OutcomeType
         /\ With(o, r).ready = r
         /\ With(o, r).prog = o.prog
         /\ With(o, r).arm = o.arm
         /\ With(o, r).exit = o.exit /\ With(o, r).fail = o.fail
         /\ With(o, r).send = o.send
         /\ r.line = o.ready.line => Numbers(With(o, r), o)
BY NumbersSame DEF With, OutcomeType

\* Setting on_ok.
LEMMA SetOnOkType ==
  ASSUME NEW o \in OutcomeType, NEW a \in OnOk
  PROVE  /\ SetOnOk(o, a) \in OutcomeType
         /\ SetOnOk(o, a).ready.tasks = o.ready.tasks
         /\ SetOnOk(o, a).prog = o.prog
         /\ SetOnOk(o, a).exit = o.exit /\ SetOnOk(o, a).fail = o.fail
         /\ Numbers(SetOnOk(o, a), o) /\ SetOnOk(o, a).ready.line = o.ready.line
         /\ SetOnOk(o, a).ready.onOk = a
         /\ SetOnOk(o, a).ready.pollFor = o.ready.pollFor
         /\ SetOnOk(o, a).send = o.send
<1> DEFINE r == [o.ready EXCEPT !.onOk = a]
<1>1. o.ready \in ReadyState
  BY DEF OutcomeType
<1>2. r \in ReadyState /\ r.line = o.ready.line
      /\ r.tasks = o.ready.tasks /\ r.onOk = a /\ r.pollFor = o.ready.pollFor
  BY <1>1 DEF ReadyState
<1>3. SetOnOk(o, a) = With(o, r)
  BY DEF SetOnOk
<1> HIDE DEF r
<1>4. QED BY <1>2, <1>3, WithType

\* Setting poll_for.
LEMMA SetPollForType ==
  ASSUME NEW o \in OutcomeType, NEW p \in Polling
  PROVE  /\ SetPollFor(o, p) \in OutcomeType
         /\ SetPollFor(o, p).ready.tasks = o.ready.tasks
         /\ SetPollFor(o, p).prog = o.prog
         /\ SetPollFor(o, p).exit = o.exit /\ SetPollFor(o, p).fail = o.fail
         /\ Numbers(SetPollFor(o, p), o) /\ SetPollFor(o, p).ready.line = o.ready.line
         /\ SetPollFor(o, p).ready.onOk = o.ready.onOk
<1> DEFINE r == [o.ready EXCEPT !.pollFor = p]
<1>1. o.ready \in ReadyState
  BY DEF OutcomeType
<1>2. r \in ReadyState /\ r.line = o.ready.line
      /\ r.tasks = o.ready.tasks /\ r.onOk = o.ready.onOk
  BY <1>1 DEF ReadyState
<1>3. SetPollFor(o, p) = With(o, r)
  BY DEF SetPollFor
<1> HIDE DEF r
<1>4. QED BY <1>2, <1>3, WithType

\* Setting the mark.
LEMMA SetMarkType ==
  ASSUME NEW o \in OutcomeType, NEW m \in Mark
  PROVE  /\ SetMark(o, m) \in OutcomeType
         /\ SetMark(o, m).ready.tasks = o.ready.tasks
         /\ SetMark(o, m).prog = o.prog
         /\ SetMark(o, m).exit = o.exit /\ SetMark(o, m).fail = o.fail
         /\ Numbers(SetMark(o, m), o) /\ SetMark(o, m).ready.line = o.ready.line
         /\ SetMark(o, m).ready.onOk = o.ready.onOk
         /\ SetMark(o, m).ready.pollFor = o.ready.pollFor
<1> DEFINE r == [o.ready EXCEPT !.mark = m]
<1>1. o.ready \in ReadyState
  BY DEF OutcomeType
<1>2. r \in ReadyState /\ r.line = o.ready.line
      /\ r.tasks = o.ready.tasks /\ r.onOk = o.ready.onOk /\ r.pollFor = o.ready.pollFor
  BY <1>1 DEF ReadyState
<1>3. SetMark(o, m) = With(o, r)
  BY DEF SetMark
<1> HIDE DEF r
<1>4. QED BY <1>2, <1>3, WithType

\* Setting the spool leaves the feedback alone.
LEMMA SetTasksType ==
  ASSUME NEW o \in OutcomeType, NEW ts \in Seq(SpooledTask)
  PROVE  /\ SetTasks(o, ts) \in OutcomeType
         /\ SetTasks(o, ts).ready.tasks = ts
         /\ SetTasks(o, ts).prog = o.prog
         /\ SetTasks(o, ts).exit = o.exit /\ SetTasks(o, ts).fail = o.fail
         /\ Numbers(SetTasks(o, ts), o) /\ SetTasks(o, ts).ready.line = o.ready.line
         /\ SetTasks(o, ts).ready.onOk = o.ready.onOk
         /\ SetTasks(o, ts).ready.pollFor = o.ready.pollFor
<1> DEFINE r == [o.ready EXCEPT !.tasks = ts]
<1>1. o.ready \in ReadyState
  BY DEF OutcomeType
<1>2. r \in ReadyState /\ r.line = o.ready.line
      /\ r.tasks = ts /\ r.onOk = o.ready.onOk /\ r.pollFor = o.ready.pollFor
  BY <1>1 DEF ReadyState
<1>3. SetTasks(o, ts) = With(o, r)
  BY DEF SetTasks
<1> HIDE DEF r
<1>4. QED BY <1>2, <1>3, WithType

\* Counting a line.
LEMMA CountLineType ==
  ASSUME NEW o \in OutcomeType
  PROVE  /\ CountLine(o) \in OutcomeType
         /\ CountLine(o).ready.tasks = o.ready.tasks
         /\ CountLine(o).prog = o.prog
         /\ CountLine(o).exit = o.exit /\ CountLine(o).fail = o.fail
         /\ CountLine(o).ready.onOk = o.ready.onOk
         /\ CountLine(o).ready.line = o.ready.line + 1
         /\ CountLine(o).send = o.send
<1> DEFINE r == [o.ready EXCEPT !.line = o.ready.line + 1]
<1>1. o.ready \in ReadyState
  BY DEF OutcomeType
<1>2. r \in ReadyState /\ r.line = o.ready.line + 1
      /\ r.tasks = o.ready.tasks /\ r.onOk = o.ready.onOk
  BY <1>1 DEF ReadyState
<1>3. CountLine(o) = With(o, r)
  BY DEF CountLine
<1> HIDE DEF r
<1>4. QED BY <1>2, <1>3, WithType

\* Sending a numbered line leaves the spool and the feedback alone.
LEMMA SendNumberedType ==
  ASSUME NEW o \in OutcomeType, NEW code \in Code, NEW pos \in Nat,
         NEW kind, code # "M110"
  PROVE  /\ SendNumbered(o, code, pos, kind) \in OutcomeType
         /\ SendNumbered(o, code, pos, kind).ready.tasks = o.ready.tasks
         /\ SendNumbered(o, code, pos, kind).prog = o.prog
         /\ SendNumbered(o, code, pos, kind).exit = o.exit
         /\ SendNumbered(o, code, pos, kind).fail = o.fail
         /\ SendNumbered(o, code, pos, kind).ready.onOk = "Despool"
         /\ Numbers(SendNumbered(o, code, pos, kind), o)
<1> DEFINE s == SendSerial(o, o.ready.line, code, pos, kind)
           w == [num |-> o.ready.line, code |-> code, pos |-> pos]
           n == SendNumbered(o, code, pos, kind)
<1>1. o.ready.line \in Nat
  BY DEF OutcomeType, ReadyState
<1>2. /\ s \in OutcomeType /\ s.ready = o.ready /\ s.prog = o.prog
      /\ s.exit = o.exit /\ s.fail = o.fail /\ s.send = Append(o.send, w)
  <2> DEFINE num == o.ready.line
  <2>1. num \in Nat
    BY <1>1
  <2> HIDE DEF num
  <2>2. /\ SendSerial(o, num, code, pos, kind) \in OutcomeType
        /\ SendSerial(o, num, code, pos, kind).ready = o.ready
        /\ SendSerial(o, num, code, pos, kind).prog = o.prog
        /\ SendSerial(o, num, code, pos, kind).exit = o.exit
        /\ SendSerial(o, num, code, pos, kind).fail = o.fail
        /\ SendSerial(o, num, code, pos, kind).send
             = Append(o.send, [num |-> num, code |-> code, pos |-> pos])
    BY <2>1, SendSerialType
  <2>3. QED BY <2>2 DEF num
<1>3. w \in WireLine /\ w.num = o.ready.line /\ w.code # "M110"
  BY <1>1 DEF WireLine
<1> HIDE DEF s, w
<1>4. SendNumbered(o, code, pos, kind) = CountLine(SetOnOk(s, "Despool"))
  BY DEF SendNumbered, s
<1>5. /\ n \in OutcomeType
      /\ n.ready.tasks = o.ready.tasks /\ n.prog = o.prog
      /\ n.exit = o.exit /\ n.fail = o.fail
      /\ n.ready.onOk = "Despool"
      /\ n.ready.line = o.ready.line + 1 /\ n.send = Append(o.send, w)
  BY <1>2, <1>4, SetOnOkType, CountLineType DEF OnOk
<1> HIDE DEF n
<1>6. Numbers(n, o)
  BY <1>3, <1>5, NumbersOne
<1>7. QED BY <1>5, <1>6 DEF n

\* So does a poll.
LEMMA PollFeedbackType ==
  ASSUME NEW o \in OutcomeType, NEW poll
  PROVE  /\ PollFeedback(o, poll) \in OutcomeType
         /\ PollFeedback(o, poll).ready.tasks = o.ready.tasks
         /\ PollFeedback(o, poll).prog = o.prog
         /\ PollFeedback(o, poll).exit = o.exit /\ PollFeedback(o, poll).fail = o.fail
         /\ PollFeedback(o, poll).ready.onOk = "Despool"
         /\ Numbers(PollFeedback(o, poll), o)
<1>1. "M105" \in Code /\ "M114" \in Code /\ 0 \in Nat
  BY DEF Code
<1>2. "PollPosition" \in Polling /\ "None" \in Polling
  BY DEF Polling
<1>3. PICK p \in Polling, code \in Code \ {"M110"} :
        PollFeedback(o, poll) = SendNumbered(SetPollFor(o, p), code, 0, "gcode")
  BY <1>1, <1>2 DEF PollFeedback
<1> DEFINE s == SetPollFor(o, p)
<1>4. /\ s \in OutcomeType /\ s.ready.tasks = o.ready.tasks /\ s.prog = o.prog
      /\ s.exit = o.exit /\ s.fail = o.fail /\ Numbers(s, o)
  BY SetPollForType
<1> HIDE DEF s
<1>5. PollFeedback(o, poll) = SendNumbered(s, code, 0, "gcode")
  BY <1>3 DEF s
<1>6. QED BY <1>1, <1>4, <1>5, SendNumberedType, NumbersTransitive

\* So does the fallback G-Code of a mark.
LEMMA SendFallbackGCodeType ==
  ASSUME NEW o \in OutcomeType
  PROVE  /\ SendFallbackGCode(o) \in OutcomeType
         /\ SendFallbackGCode(o).ready.tasks = o.ready.tasks
         /\ SendFallbackGCode(o).prog = o.prog
         /\ SendFallbackGCode(o).exit = o.exit /\ SendFallbackGCode(o).fail = o.fail
         /\ SendFallbackGCode(o).ready.onOk = "Despool"
         /\ Numbers(SendFallbackGCode(o), o)
<1>1. "M400" \in Code /\ 0 \in Nat /\ "None" \in Mark
  BY DEF Code, Mark
<1> DEFINE s == SetMark(o, "None")
<1>2. /\ s \in OutcomeType /\ s.ready.tasks = o.ready.tasks /\ s.prog = o.prog
      /\ s.exit = o.exit /\ s.fail = o.fail /\ Numbers(s, o)
  BY <1>1, SetMarkType
<1>3. SendFallbackGCode(o) = SendNumbered(s, "M400", 0, "gcode")
  BY DEF SendFallbackGCode
<1> HIDE DEF s
<1>4. QED BY <1>1, <1>2, <1>3, SendNumberedType, NumbersTransitive

\* Finishing the first k tasks leaves the others.
LEMMA FinishFirstType ==
  ASSUME NEW o \in OutcomeType, NEW k \in 0 .. Len(o.ready.tasks)
  PROVE  /\ FinishFirst(o, k) \in OutcomeType
         /\ FinishFirst(o, k).ready.tasks
              = SubSeq(o.ready.tasks, k + 1, Len(o.ready.tasks))
         /\ FinishFirst(o, k).exit = o.exit /\ FinishFirst(o, k).fail = o.fail
         /\ FinishFirst(o, k).ready.onOk = o.ready.onOk
         /\ FinishFirst(o, k).ready.pollFor = o.ready.pollFor
         /\ Numbers(FinishFirst(o, k), o)
<1> DEFINE ts == o.ready.tasks
           done == [ i \in 1 .. k |-> Despooled(ts[i], Len(LinesOf(ts[i].id))) ]
           left == SubSeq(ts, k + 1, Len(ts))
           rest == SetTasks(o, left)
           marked == SetMark(rest, "MarkSet")
<1>1. ts \in Seq(SpooledTask) /\ o.prog \in Progress
  BY DEF OutcomeType, ReadyState
<1>2. \A i \in DOMAIN done : done[i].count \in Nat
  <2> SUFFICES ASSUME NEW i \in 1 .. k
               PROVE  Despooled(ts[i], Len(LinesOf(ts[i].id))).count \in Nat
    OBVIOUS
  <2>1. ts[i] \in SpooledTask
    BY <1>1, LenProperties, ElementOfSeq
  <2>2. Len(LinesOf(ts[i].id)) \in Nat
    BY <2>1, LinesOfType, LenProperties DEF SpooledTask
  <2>3. QED BY <2>1, <2>2, DespooledType DEF SpooledTask
<1> HIDE DEF done
<1>3. Push(o.prog, done, "Finished") \in Progress
  BY <1>1, <1>2, PushType DEF TaskStatus
<1>4. left \in Seq(SpooledTask)
  BY <1>1, RestOf
<1> HIDE DEF left
<1>5. /\ rest \in OutcomeType /\ rest.ready.tasks = left
      /\ rest.exit = o.exit /\ rest.fail = o.fail /\ Numbers(rest, o)
      /\ rest.ready.onOk = o.ready.onOk /\ rest.ready.pollFor = o.ready.pollFor
  BY <1>4, SetTasksType
<1> HIDE DEF rest
<1>6. /\ marked \in OutcomeType /\ marked.ready.tasks = left
      /\ marked.exit = o.exit /\ marked.fail = o.fail /\ Numbers(marked, o)
      /\ marked.ready.onOk = o.ready.onOk /\ marked.ready.pollFor = o.ready.pollFor
  BY <1>5, SetMarkType, NumbersTransitive DEF Mark
<1> HIDE DEF marked
<1>7. PICK n \in {rest, marked} :
        FinishFirst(o, k) = [n EXCEPT !.prog = Push(o.prog, done, "Finished")]
  BY DEF FinishFirst, done, left, rest, marked
<1>8. /\ n \in OutcomeType /\ n.ready.tasks = left
      /\ n.exit = o.exit /\ n.fail = o.fail /\ Numbers(n, o)
      /\ n.ready.onOk = o.ready.onOk /\ n.ready.pollFor = o.ready.pollFor
  BY <1>5, <1>6
<1> DEFINE m == FinishFirst(o, k)
<1>9. /\ m \in OutcomeType /\ m.ready = n.ready /\ m.exit = n.exit /\ m.fail = n.fail
      /\ m.send = n.send
  BY <1>3, <1>7, <1>8 DEF OutcomeType
<1> HIDE DEF m
<1>10. Numbers(m, o)
  BY <1>8, <1>9, NumbersSame, NumbersTransitive
<1>11. QED BY <1>8, <1>9, <1>10 DEF left, m

-----------------------------------------------------------------------------
\* A tail of a spool holds no other task, and none twice.
LEMMA TailOfIds ==
  ASSUME NEW ts \in Seq(SpooledTask), NEW us \in Seq(SpooledTask), TailOf(us, ts)
  PROVE  /\ Ids(us) \subseteq Ids(ts)
         /\ Once(ts) => Once(us)
<1>1. /\ Len(ts) \in Nat /\ DOMAIN ts = 1 .. Len(ts)
      /\ Len(us) \in Nat /\ DOMAIN us = 1 .. Len(us)
  BY LenProperties
<1>2. PICK k \in 0 .. Len(ts) : /\ Len(us) = Len(ts) - k
                                /\ \A i \in 1 .. Len(us) : us[i].id = ts[k + i].id
  BY DEF TailOf
<1>3. \A i \in DOMAIN us : k + i \in DOMAIN ts /\ us[i].id = ts[k + i].id
  BY <1>1, <1>2
<1>4. Ids(us) \subseteq Ids(ts)
  BY <1>3 DEF Ids
<1>5. ASSUME Once(ts)
      PROVE  Once(us)
  <2> SUFFICES ASSUME NEW i \in DOMAIN us, NEW j \in DOMAIN us,
                      us[i].id \in Task, us[i].id = us[j].id
               PROVE  i = j
    BY DEF Once
  <2>1. k + i = k + j
    BY <1>3, <1>5 DEF Once
  <2>2. QED BY <1>1, <2>1
<1>6. QED BY <1>4, <1>5

\* A tail of a tail is a tail.
LEMMA TailOfTransitive ==
  ASSUME NEW ts \in Seq(SpooledTask), NEW us \in Seq(SpooledTask),
         NEW vs \in Seq(SpooledTask), TailOf(us, ts), TailOf(vs, us)
  PROVE  TailOf(vs, ts)
<1>1. Len(ts) \in Nat /\ Len(us) \in Nat /\ Len(vs) \in Nat
  BY LenProperties
<1>2. PICK k \in 0 .. Len(ts) : /\ Len(us) = Len(ts) - k
                                /\ \A i \in 1 .. Len(us) : us[i].id = ts[k + i].id
  BY DEF TailOf
<1>3. PICK l \in 0 .. Len(us) : /\ Len(vs) = Len(us) - l
                               /\ \A i \in 1 .. Len(vs) : vs[i].id = us[l + i].id
  BY DEF TailOf
<1>4. k + l \in 0 .. Len(ts) /\ Len(vs) = Len(ts) - (k + l)
  BY <1>1, <1>2, <1>3
<1>5. ASSUME NEW i \in 1 .. Len(vs)
      PROVE  vs[i].id = ts[(k + l) + i].id
  <2>1. l + i \in 1 .. Len(us) /\ k + (l + i) = (k + l) + i
    BY <1>1, <1>2, <1>3
  <2>2. QED BY <1>2, <1>3, <2>1
<1>6. QED BY <1>4, <1>5 DEF TailOf

\* The spool and the feedback of an outcome have their types.
LEMMA OutcomeTasks ==
  ASSUME NEW o \in OutcomeType
  PROVE  o.ready.tasks \in Seq(SpooledTask) /\ o.prog \in Progress
BY DEF OutcomeType, ReadyState

\* An outcome with the same spool and the same feedback follows.
LEMMA FollowsSame ==
  ASSUME NEW o \in OutcomeType, NEW n \in OutcomeType,
         n.ready.tasks = o.ready.tasks, n.prog = o.prog, n.exit => o.exit \/ n.ready.tasks = <<>>,
         Turn(o.ready) => Turn(n.ready), Numbers(n, o)
  PROVE  Follows(n, o)
<1>1. Len(o.ready.tasks) \in Nat
  BY OutcomeTasks, LenProperties
<1>2. TailOf(n.ready.tasks, o.ready.tasks)
  <2>1. /\ 0 \in 0 .. Len(o.ready.tasks)
        /\ Len(n.ready.tasks) = Len(o.ready.tasks) - 0
        /\ \A i \in 1 .. Len(n.ready.tasks) : 0 + i = i
    BY <1>1
  <2>2. QED BY <2>1 DEF TailOf
<1>3. QED BY <1>2 DEF Follows

\* Handlers that follow one another.
LEMMA FollowsTransitive ==
  ASSUME NEW o \in OutcomeType, NEW n \in OutcomeType, NEW m \in OutcomeType,
         Follows(n, o), Follows(m, n)
  PROVE  Follows(m, o)
<1>1. /\ TailOf(n.ready.tasks, o.ready.tasks)
      /\ TailOf(m.ready.tasks, n.ready.tasks)
  BY DEF Follows
<1>2. TailOf(m.ready.tasks, o.ready.tasks)
  BY <1>1, OutcomeTasks, TailOfTransitive
<1>3. /\ Ids(n.ready.tasks) \subseteq Ids(o.ready.tasks)
      /\ Once(o.ready.tasks) => Once(n.ready.tasks)
  BY <1>1, OutcomeTasks, TailOfIds
<1>4. \A t \in Task : t \notin Ids(o.ready.tasks) => m.prog[t] = o.prog[t]
  BY <1>3 DEF Follows
<1>5. Once(o.ready.tasks) /\ Matches(o.prog, o.ready.tasks)
        => Matches(m.prog, m.ready.tasks)
  BY <1>3 DEF Follows
<1>6. \A t \in Task : t \in Ids(o.ready.tasks) =>
        t \in Ids(m.ready.tasks) \/ m.prog[t].status = "Finished"
  BY DEF Follows
<1>7. m.exit => o.exit \/ m.ready.tasks = <<>>
  <2>1. n.ready.tasks = <<>> => m.ready.tasks = <<>>
    BY <1>1, OutcomeTasks, LenProperties, EmptySeq DEF TailOf
  <2> QED BY <2>1 DEF Follows
<1>8. Turn(o.ready) => Turn(m.ready)
  BY DEF Follows
<1>9. Numbers(m, o)
  BY NumbersTransitive DEF Follows
<1>10. QED BY <1>2, <1>4, <1>5, <1>6, <1>7, <1>8, <1>9 DEF Follows

\* What Push does to each task.
LEMMA PushEntries ==
  ASSUME NEW p \in Progress, NEW xs, NEW status, NEW t \in Task
  PROVE  /\ (\E i \in DOMAIN xs : xs[i].id = t) => Push(p, xs, status)[t].status = status
         /\ ~(\E i \in DOMAIN xs : xs[i].id = t) => Push(p, xs, status)[t] = p[t]
BY DEF Push

\* Finishing the first tasks drops them from the spool and settles them.
LEMMA FinishFirstFollows ==
  ASSUME NEW o \in OutcomeType, NEW k \in 0 .. Len(o.ready.tasks)
  PROVE  Follows(FinishFirst(o, k), o)
<1> DEFINE ts == o.ready.tasks
           us == SubSeq(ts, k + 1, Len(ts))
           done == [ i \in 1 .. k |-> Despooled(ts[i], Len(LinesOf(ts[i].id))) ]
           q == Push(o.prog, done, "Finished")
<1>1. /\ ts \in Seq(SpooledTask) /\ o.prog \in Progress
      /\ Len(ts) \in Nat /\ DOMAIN ts = 1 .. Len(ts)
  BY OutcomeTasks, LenProperties
<1>2. /\ us \in Seq(SpooledTask)
      /\ Len(us) = Len(ts) - k
      /\ \A i \in 1 .. Len(ts) - k : us[i] = ts[k + i]
  BY <1>1, RestOf
<1>3. DOMAIN us = 1 .. Len(ts) - k
  BY <1>2, LenProperties
<1> HIDE DEF us
<1>4. /\ DOMAIN done = 1 .. k
      /\ \A i \in 1 .. k : i \in DOMAIN ts /\ done[i].id = ts[i].id
  <2>1. ASSUME NEW i \in 1 .. k
        PROVE  i \in DOMAIN ts /\ Despooled(ts[i], Len(LinesOf(ts[i].id))).id = ts[i].id
    BY <1>1 DEF Despooled
  <2>2. QED BY <2>1
<1> HIDE DEF done
<1>5. FinishFirst(o, k).ready.tasks = us
  BY FinishFirstType DEF us
<1>6. FinishFirst(o, k).prog = q
  <2> DEFINE rest == SetTasks(o, us)
             marked == SetMark(rest, "MarkSet")
  <2>1. rest \in OutcomeType
    BY <1>2, SetTasksType
  <2> HIDE DEF rest
  <2>2. marked \in OutcomeType
    BY <2>1, SetMarkType DEF Mark
  <2> HIDE DEF marked
  <2>3. PICK n \in {rest, marked} : FinishFirst(o, k) = [n EXCEPT !.prog = q]
    BY DEF FinishFirst, done, us, rest, marked
  <2>4. QED BY <2>1, <2>2, <2>3 DEF OutcomeType
<1>7. TailOf(us, ts)
  BY <1>2 DEF TailOf
<1>8. ASSUME NEW t \in Task, t \notin Ids(ts)
      PROVE  q[t] = o.prog[t]
  <2>1. ~ \E i \in DOMAIN done : done[i].id = t
    BY <1>4, <1>8 DEF Ids
  <2>2. QED BY <1>1, <2>1, PushEntries
<1>9. ASSUME Once(ts), Matches(o.prog, ts)
      PROVE  Matches(q, us)
  <2> SUFFICES ASSUME NEW t \in Task
               PROVE  /\ q[t].status = "Started" => \E i \in DOMAIN us : us[i].id = t /\ us[i].started
                      /\ (\E i \in DOMAIN us : us[i].id = t /\ us[i].started)
                           => q[t].status \in RunningStatus
                      /\ (\E i \in DOMAIN us : us[i].id = t) => q[t].status \notin Settled
    BY DEF Matches
  <2>1. \A i \in DOMAIN us : k + i \in DOMAIN ts /\ ~(k + i \in 1 .. k) /\ us[i] = ts[k + i]
    BY <1>1, <1>2, <1>3
  <2>2. CASE \E i \in DOMAIN done : done[i].id = t
    <3>1. q[t].status = "Finished"
      BY <1>1, <2>2, PushEntries
    <3>2. PICK i \in 1 .. k : i \in DOMAIN ts /\ ts[i].id = t
      BY <1>4, <2>2
    <3>3. \A j \in DOMAIN us : us[j].id # t
      BY <1>9, <2>1, <3>2 DEF Once
    <3>4. QED BY <3>1, <3>3
  <2>3. CASE ~ \E i \in DOMAIN done : done[i].id = t
    <3>1. q[t] = o.prog[t]
      BY <1>1, <2>3, PushEntries
    <3>2. ASSUME NEW i \in DOMAIN ts, ts[i].id = t
          PROVE  i - k \in DOMAIN us /\ us[i - k] = ts[i]
      <4>1. ~(i \in 1 .. k)
        BY <1>4, <2>3, <3>2
      <4>2. i - k \in 1 .. Len(ts) - k /\ k + (i - k) = i
        BY <1>1, <4>1
      <4>3. QED BY <1>2, <1>3, <4>2
    <3>3. (\E i \in DOMAIN us : us[i].id = t /\ us[i].started)
            <=> (\E i \in DOMAIN ts : ts[i].id = t /\ ts[i].started)
      BY <2>1, <3>2
    <3>4. (\E i \in DOMAIN us : us[i].id = t) => \E i \in DOMAIN ts : ts[i].id = t
      BY <2>1
    <3>5. QED BY <1>9, <3>1, <3>3, <3>4 DEF Matches
  <2>4. QED BY <2>2, <2>3
<1>10. ASSUME NEW t \in Task, t \in Ids(ts), t \notin Ids(us)
       PROVE  q[t].status = "Finished"
  <2>1. PICK i \in DOMAIN ts : ts[i].id = t
    BY <1>10 DEF Ids
  <2>2. i \in 1 .. k
    <3>1. ASSUME ~(i \in 1 .. k)
          PROVE  i - k \in DOMAIN us /\ us[i - k] = ts[i]
      <4>1. i - k \in 1 .. Len(ts) - k /\ k + (i - k) = i
        BY <1>1, <3>1
      <4>2. QED BY <1>2, <1>3, <4>1
    <3>2. QED BY <1>10, <2>1, <3>1 DEF Ids
  <2>3. QED BY <1>1, <1>4, <2>1, <2>2, PushEntries
<1>11. Turn(o.ready) => Turn(FinishFirst(o, k).ready)
  BY FinishFirstType DEF Turn
<1>12. FinishFirst(o, k).exit = o.exit
  BY FinishFirstType
<1>13. Numbers(FinishFirst(o, k), o)
  BY FinishFirstType
<1>14. QED BY <1>5, <1>6, <1>7, <1>8, <1>9, <1>10, <1>11, <1>12, <1>13 DEF Follows

\* Despooling the front task up to its next stop.
LEMMA DespoolFirstFollows ==
  ASSUME NEW o \in OutcomeType, o.ready.tasks # <<>>, Stops(o.ready.tasks[1]) # {}
  PROVE  /\ DespoolFirst(o) \in OutcomeType
         /\ Follows(DespoolFirst(o), o)
         /\ DespoolFirst(o).fail \in {o.fail, "error"}
<1> DEFINE ts == o.ready.tasks
           x == Head(ts)
           stop == FirstStop(x)
           y == Despooled(x, stop)
           kind == LinesOf(x.id)[stop]
           us == [ts EXCEPT ![1] = y]
           some == SetTasks(o, us)
           marked == SetMark(some, "MarkSet")
           q == Push(o.prog, <<y>>, "Started")
           next == [ (IF Marks(x, stop) THEN marked ELSE some) EXCEPT !.prog = q ]
<1>1. /\ ts \in Seq(SpooledTask) /\ o.prog \in Progress
      /\ Len(ts) \in Nat /\ DOMAIN ts = 1 .. Len(ts) /\ 1 \in 1 .. Len(ts)
  BY OutcomeTasks, LenProperties, EmptySeq
<1>2. x = ts[1] /\ x \in SpooledTask
  BY <1>1, ElementOfSeq
<1>3. stop \in Nat /\ y \in SpooledTask /\ y.id = x.id /\ y.started = TRUE
  BY <1>2, FirstStopIsAStop, DespooledType, DespooledStarts
<1> HIDE DEF y, stop
<1>4. /\ us \in Seq(SpooledTask) /\ Len(us) = Len(ts)
      /\ \A j \in 1 .. Len(ts) : us[j] = IF j = 1 THEN y ELSE ts[j]
  BY <1>1, <1>3, ExceptSeq
<1>5. DOMAIN us = 1 .. Len(ts)
  BY <1>1
<1> HIDE DEF us
<1>6. /\ some \in OutcomeType /\ some.ready.tasks = us
      /\ some.exit = o.exit /\ some.fail = o.fail
      /\ some.ready.onOk = o.ready.onOk /\ some.ready.pollFor = o.ready.pollFor
      /\ Numbers(some, o)
  BY <1>4, SetTasksType
<1> HIDE DEF some
<1>7. /\ marked \in OutcomeType /\ marked.ready.tasks = us
      /\ marked.exit = o.exit /\ marked.fail = o.fail
      /\ marked.ready.onOk = o.ready.onOk /\ marked.ready.pollFor = o.ready.pollFor
      /\ Numbers(marked, o)
  BY <1>6, SetMarkType, NumbersTransitive DEF Mark
<1> HIDE DEF marked
<1>8. q \in Progress
  <2>1. \A i \in DOMAIN <<y>> : <<y>>[i].count \in Nat
    BY <1>3 DEF SpooledTask
  <2>2. QED BY <1>1, <2>1, PushType DEF TaskStatus
<1>9. \A t \in Task : /\ t = x.id => q[t].status = "Started"
                      /\ t # x.id => q[t] = o.prog[t]
  <2> SUFFICES ASSUME NEW t \in Task
               PROVE  /\ t = x.id => q[t].status = "Started"
                      /\ t # x.id => q[t] = o.prog[t]
    OBVIOUS
  <2>1. DOMAIN <<y>> = {1} /\ <<y>>[1].id = x.id
    BY <1>3
  <2>2. QED BY <1>1, <2>1, PushEntries
<1> HIDE DEF q
<1>10. /\ next \in OutcomeType /\ next.ready.tasks = us /\ next.prog = q
       /\ next.exit = o.exit /\ next.fail = o.fail
       /\ next.ready.onOk = o.ready.onOk /\ next.ready.pollFor = o.ready.pollFor
       /\ Numbers(next, o)
  <2>1. PICK m \in {some, marked} : next = [m EXCEPT !.prog = q]
    OBVIOUS
  <2> HIDE DEF next
  <2>2. /\ m \in OutcomeType /\ m.ready.tasks = us
        /\ m.exit = o.exit /\ m.fail = o.fail /\ Numbers(m, o)
        /\ m.ready.onOk = o.ready.onOk /\ m.ready.pollFor = o.ready.pollFor
    BY <1>6, <1>7
  <2>3. /\ next \in OutcomeType /\ next.prog = q
        /\ next.ready = m.ready /\ next.send = m.send
        /\ next.exit = m.exit /\ next.fail = m.fail
    BY <1>8, <2>1, <2>2 DEF OutcomeType
  <2>4. Numbers(next, o)
    BY <2>2, <2>3, NumbersSame, NumbersTransitive
  <2>5. QED BY <2>2, <2>3, <2>4
<1>11. Follows(next, o)
  <2>1. TailOf(us, ts)
    <3>1. /\ 0 \in 0 .. Len(ts) /\ Len(us) = Len(ts) - 0
          /\ \A i \in 1 .. Len(us) : us[i].id = ts[0 + i].id
      BY <1>1, <1>2, <1>3, <1>4
    <3>2. QED BY <3>1 DEF TailOf
  <2>2. \A t \in Task : t \notin Ids(ts) => q[t] = o.prog[t]
    BY <1>1, <1>2, <1>9 DEF Ids
  <2>3. ASSUME Matches(o.prog, ts)
        PROVE  Matches(q, us)
    <3> SUFFICES ASSUME NEW t \in Task
                 PROVE  /\ q[t].status = "Started" => \E i \in DOMAIN us : us[i].id = t /\ us[i].started
                        /\ (\E i \in DOMAIN us : us[i].id = t /\ us[i].started)
                             => q[t].status \in RunningStatus
                        /\ (\E i \in DOMAIN us : us[i].id = t) => q[t].status \notin Settled
      BY DEF Matches
    <3>1. CASE t = x.id
      <4>1. us[1].id = t /\ us[1].started /\ 1 \in DOMAIN us
        BY <1>1, <1>3, <1>4, <1>5, <3>1
      <4>2. QED BY <1>9, <3>1, <4>1 DEF Settled, RunningStatus
    <3>2. CASE t # x.id
      <4>1. us[1].id # t /\ ts[1].id # t
        BY <1>1, <1>2, <1>3, <1>4, <3>2
      <4>2. \A i \in 1 .. Len(ts) : i # 1 => us[i] = ts[i]
        BY <1>4
      <4>3. (\E i \in 1 .. Len(ts) : us[i].id = t /\ us[i].started)
              <=> (\E i \in 1 .. Len(ts) : ts[i].id = t /\ ts[i].started)
        BY <4>1, <4>2
      <4>4. (\E i \in 1 .. Len(ts) : us[i].id = t) => \E i \in 1 .. Len(ts) : ts[i].id = t
        BY <4>1, <4>2
      <4>5. QED BY <1>1, <1>5, <1>9, <2>3, <3>2, <4>3, <4>4 DEF Matches
    <3>3. QED BY <3>1, <3>2
  <2>4. Ids(us) = Ids(ts)
    <3>1. \A i \in 1 .. Len(ts) : us[i].id = ts[i].id
      BY <1>2, <1>3, <1>4
    <3>2. QED BY <1>1, <1>5, <3>1 DEF Ids
  <2>5. Turn(o.ready) => Turn(next.ready)
    BY <1>10 DEF Turn
  <2>6. QED BY <1>10, <2>1, <2>2, <2>3, <2>4, <2>5 DEF Follows
<1>12. DespoolFirst(o) =
         CASE kind \in {"gcode", "blocking"} -> SendNumbered(next, x.id, stop, kind)
           [] kind = "wait" /\ next.ready.mark = "MarkSet" ->
                PollFeedback(SetMark(next, "WaitingToReachMark"), "PollPosition")
           [] OTHER -> [next EXCEPT !.fail = "error"]
  BY DEF DespoolFirst, some, marked, us, y, stop, q
<1> HIDE DEF next
<1>13. CASE kind \in {"gcode", "blocking"}
  <2>1. DespoolFirst(o) = SendNumbered(next, x.id, stop, kind)
    BY <1>12, <1>13
  <2>2. x.id \in Code /\ x.id # "M110"
    BY <1>2, DriverAssumption DEF SpooledTask, Code
  <2>3. /\ DespoolFirst(o) \in OutcomeType
        /\ DespoolFirst(o).ready.tasks = next.ready.tasks
        /\ DespoolFirst(o).prog = next.prog
        /\ DespoolFirst(o).exit = next.exit /\ DespoolFirst(o).fail = next.fail
        /\ Turn(DespoolFirst(o).ready) /\ Numbers(DespoolFirst(o), next)
    <3> DEFINE n == SendNumbered(next, x.id, stop, kind)
    <3>1. next \in OutcomeType /\ stop \in Nat
      BY <1>3, <1>10
    <3> HIDE DEF stop
    <3>2. /\ n \in OutcomeType /\ n.ready.tasks = next.ready.tasks
          /\ n.prog = next.prog /\ n.exit = next.exit /\ n.fail = next.fail
          /\ n.ready.onOk = "Despool" /\ Numbers(n, next)
      BY <2>2, <3>1, SendNumberedType
    <3>3. DespoolFirst(o) = n
      BY <2>1
    <3> HIDE DEF n
    <3>4. QED BY <3>2, <3>3 DEF Turn
  <2>4. Follows(DespoolFirst(o), next)
    BY <1>10, <2>3, FollowsSame
  <2>5. QED BY <1>10, <1>11, <2>3, <2>4, FollowsTransitive
<1>14. CASE kind = "wait" /\ next.ready.mark = "MarkSet"
  <2> DEFINE s == SetMark(next, "WaitingToReachMark")
  <2>1. /\ s \in OutcomeType /\ s.ready.tasks = next.ready.tasks /\ s.prog = next.prog
        /\ s.exit = next.exit /\ s.fail = next.fail /\ Numbers(s, next)
    BY <1>10, SetMarkType DEF Mark
  <2> HIDE DEF s
  <2>2. DespoolFirst(o) = PollFeedback(s, "PollPosition")
    BY <1>12, <1>14 DEF s
  <2>3. /\ DespoolFirst(o) \in OutcomeType
        /\ DespoolFirst(o).ready.tasks = next.ready.tasks
        /\ DespoolFirst(o).prog = next.prog
        /\ DespoolFirst(o).exit = next.exit /\ DespoolFirst(o).fail = next.fail
        /\ Turn(DespoolFirst(o).ready) /\ Numbers(DespoolFirst(o), next)
    BY <2>1, <2>2, PollFeedbackType, NumbersTransitive DEF Turn
  <2>4. Follows(DespoolFirst(o), next)
    BY <1>10, <2>3, FollowsSame
  <2>5. QED BY <1>10, <1>11, <2>3, <2>4, FollowsTransitive
<1>15. CASE /\ kind \notin {"gcode", "blocking"}
            /\ ~(kind = "wait" /\ next.ready.mark = "MarkSet")
  <2>1. DespoolFirst(o) = [next EXCEPT !.fail = "error"]
    BY <1>12, <1>15
  <2>2. /\ DespoolFirst(o) \in OutcomeType
        /\ DespoolFirst(o).ready.tasks = next.ready.tasks
        /\ DespoolFirst(o).prog = next.prog
        /\ DespoolFirst(o).exit = next.exit /\ DespoolFirst(o).fail = "error"
        /\ DespoolFirst(o).ready = next.ready /\ DespoolFirst(o).send = next.send
    BY <1>10, <2>1 DEF OutcomeType
  <2>3. Follows(DespoolFirst(o), next)
    BY <1>10, <2>2, NumbersSame, FollowsSame
  <2>4. QED BY <1>10, <1>11, <2>2, <2>3, FollowsTransitive
<1>16. QED BY <1>13, <1>14, <1>15

\* Running out of lines changes neither spool nor feedback.
LEMMA NothingToSendFollows ==
  ASSUME NEW o \in OutcomeType, idleReset \in BOOLEAN, NoPollDue(o.ready),
         o.ready.tasks = <<>>
  PROVE  /\ NothingToSend(o) \in OutcomeType
         /\ Follows(NothingToSend(o), o)
         /\ NothingToSend(o).fail = o.fail
<1> DEFINE s == SetOnOk(o, "NotAwaitingOk")
<1>1. /\ s \in OutcomeType /\ s.ready.tasks = o.ready.tasks /\ s.prog = o.prog
      /\ s.fail = o.fail /\ s.ready.pollFor = o.ready.pollFor /\ Numbers(s, o)
  BY SetOnOkType DEF OnOk
<1> HIDE DEF s
<1>2. NothingToSend(o) =
        [s EXCEPT !.cancel = s.cancel \cup {"tickle_delay"}, !.exit = idleReset]
  BY DEF NothingToSend, s
<1>3. /\ NothingToSend(o) \in OutcomeType
      /\ NothingToSend(o).ready.tasks = o.ready.tasks
      /\ NothingToSend(o).prog = o.prog
      /\ NothingToSend(o).fail = o.fail
      /\ NothingToSend(o).ready.pollFor = o.ready.pollFor
      /\ NothingToSend(o).ready = s.ready /\ NothingToSend(o).send = s.send
  <2>1. s.cancel \cup {"tickle_delay"} \in SUBSET {"tickle_delay"}
    BY <1>1 DEF OutcomeType
  <2>2. PICK c \in SUBSET {"tickle_delay"}, e \in BOOLEAN :
          NothingToSend(o) = [s EXCEPT !.cancel = c, !.exit = e]
    BY <1>2, <2>1
  <2>3. QED BY <1>1, <2>2 DEF OutcomeType
<1>4. Turn(o.ready) => Turn(NothingToSend(o).ready)
  BY <1>3 DEF Turn, NoPollDue
<1>5. Numbers(NothingToSend(o), o)
  BY <1>1, <1>3, NumbersSame, NumbersTransitive
<1>6. QED BY <1>3, <1>4, <1>5, FollowsSame

\* Nor does the fallback G-Code.
LEMMA SendFallbackGCodeFollows ==
  ASSUME NEW o \in OutcomeType
  PROVE  /\ SendFallbackGCode(o) \in OutcomeType
         /\ Follows(SendFallbackGCode(o), o)
BY SendFallbackGCodeType, FollowsSame DEF Turn

\* despool_task finishes tasks from the front, and starts the next one.
LEMMA DespoolTaskFollows ==
  ASSUME NEW o \in OutcomeType, idleReset \in BOOLEAN, NoPollDue(o.ready)
  PROVE  /\ DespoolTask(o) \in OutcomeType
         /\ Follows(DespoolTask(o), o)
         /\ DespoolTask(o).fail \in {o.fail, "error"}
<1> DEFINE ts == o.ready.tasks
           k == Drained(ts)
           f == FinishFirst(o, k)
<1>1. /\ ts \in Seq(SpooledTask)
      /\ Len(ts) \in Nat
      /\ k \in 0 .. Len(ts)
      /\ k < Len(ts) => Stops(ts[k + 1]) # {}
  BY OutcomeTasks, LenProperties, DrainedIsAPrefix
<1> HIDE DEF k
<1>2. /\ f \in OutcomeType
      /\ f.ready.tasks = SubSeq(ts, k + 1, Len(ts))
      /\ Follows(f, o) /\ f.fail = o.fail /\ NoPollDue(f.ready)
  BY <1>1, FinishFirstType, FinishFirstFollows DEF NoPollDue
<1> HIDE DEF f
<1>3. CASE o.ready.mark = "WaitingToReachMark"
  <2>1. DespoolTask(o) = SetOnOk(o, "NotAwaitingOk")
    BY <1>3 DEF DespoolTask
  <2>2. /\ DespoolTask(o) \in OutcomeType
        /\ DespoolTask(o).ready.tasks = o.ready.tasks
        /\ DespoolTask(o).prog = o.prog
        /\ DespoolTask(o).exit = o.exit /\ DespoolTask(o).fail = o.fail
        /\ DespoolTask(o).ready.pollFor = o.ready.pollFor
        /\ Numbers(DespoolTask(o), o)
    BY <2>1, SetOnOkType DEF OnOk
  <2>3. Turn(o.ready) => Turn(DespoolTask(o).ready)
    BY <2>2 DEF Turn, NoPollDue
  <2>4. QED BY <2>2, <2>3, FollowsSame
<1>4. CASE /\ o.ready.mark = "WaitingToSendFallbackGCode"
           /\ ts # <<>>
           /\ GCodesIn(ts[1].id, ts[1].pos, Len(LinesOf(ts[1].id))) = {}
  <2> DEFINE g == FinishFirst(o, 1)
  <2>1. DespoolTask(o) = SendFallbackGCode(g)
    BY <1>4 DEF DespoolTask
  <2>2. 1 \in 0 .. Len(ts)
    BY <1>1, <1>4, EmptySeq
  <2>3. g \in OutcomeType /\ Follows(g, o) /\ g.fail = o.fail
    BY <2>2, FinishFirstType, FinishFirstFollows
  <2> HIDE DEF g
  <2>4. /\ DespoolTask(o) \in OutcomeType /\ Follows(DespoolTask(o), g)
        /\ DespoolTask(o).fail = g.fail
    BY <2>1, <2>3, SendFallbackGCodeType, SendFallbackGCodeFollows
  <2>5. QED BY <2>3, <2>4, FollowsTransitive
<1>5. CASE /\ o.ready.mark # "WaitingToReachMark"
           /\ ~ /\ o.ready.mark = "WaitingToSendFallbackGCode"
                /\ ts # <<>>
                /\ GCodesIn(ts[1].id, ts[1].pos, Len(LinesOf(ts[1].id))) = {}
           /\ k = Len(ts)
  <2>1. DespoolTask(o) = NothingToSend(f)
    BY <1>5 DEF DespoolTask, f, k
  <2>2. f.ready.tasks = <<>>
    <3>1. Len(f.ready.tasks) = 0
      BY <1>1, <1>2, <1>5, RestOf
    <3>2. QED BY <1>2, <3>1, OutcomeTasks, EmptySeq
  <2>3. /\ DespoolTask(o) \in OutcomeType /\ Follows(DespoolTask(o), f)
        /\ DespoolTask(o).fail = f.fail
    BY <1>2, <2>1, <2>2, NothingToSendFollows
  <2>4. QED BY <1>2, <2>3, FollowsTransitive
<1>6. CASE /\ o.ready.mark # "WaitingToReachMark"
           /\ ~ /\ o.ready.mark = "WaitingToSendFallbackGCode"
                /\ ts # <<>>
                /\ GCodesIn(ts[1].id, ts[1].pos, Len(LinesOf(ts[1].id))) = {}
           /\ k # Len(ts)
  <2>1. DespoolTask(o) = DespoolFirst(f)
    BY <1>6 DEF DespoolTask, f, k
  <2>2. f.ready.tasks # <<>> /\ f.ready.tasks[1] = ts[k + 1]
    <3>1. /\ Len(f.ready.tasks) = Len(ts) - k
          /\ \A i \in 1 .. Len(ts) - k : f.ready.tasks[i] = ts[k + i]
      BY <1>1, <1>2, RestOf
    <3>2. Len(f.ready.tasks) # 0 /\ 1 \in 1 .. Len(ts) - k
      BY <1>1, <1>6, <3>1
    <3>3. QED BY <3>1, <3>2
  <2>3. Stops(f.ready.tasks[1]) # {}
    BY <1>1, <1>6, <2>2
  <2>4. /\ DespoolTask(o) \in OutcomeType /\ Follows(DespoolTask(o), f)
        /\ DespoolTask(o).fail \in {f.fail, "error"}
    BY <1>2, <2>1, <2>2, <2>3, DespoolFirstFollows
  <2>5. QED BY <1>2, <2>4, FollowsTransitive
<1>7. QED BY <1>3, <1>4, <1>5, <1>6

\* So does despool.
LEMMA DespoolFollows ==
  ASSUME NEW o \in OutcomeType, idleReset \in BOOLEAN
  PROVE  /\ Despool(o) \in OutcomeType
         /\ Follows(Despool(o), o)
<1>1. CASE o.ready.mark = "WaitingToSendFallbackGCode"
  <2>1. Despool(o) = SendFallbackGCode(o)
    BY <1>1 DEF Despool
  <2>2. QED BY <2>1, SendFallbackGCodeFollows
<1>2. CASE o.ready.mark # "WaitingToSendFallbackGCode" /\ o.ready.pollFor # "None"
  <2>1. Despool(o) = PollFeedback(o, o.ready.pollFor)
    BY <1>2 DEF Despool
  <2>2. QED BY <2>1, PollFeedbackType, FollowsSame DEF Turn
<1>3. CASE o.ready.mark # "WaitingToSendFallbackGCode" /\ o.ready.pollFor = "None"
  <2>1. Despool(o) = DespoolTask(o)
    BY <1>3 DEF Despool
  <2>2. QED BY <1>3, <2>1, DespoolTaskFollows DEF NoPollDue
<1>4. QED BY <1>1, <1>2, <1>3

\* So does an acknowledgement.
LEMMA ReceiveOkFollows ==
  ASSUME NEW o \in OutcomeType, idleReset \in BOOLEAN
  PROVE  /\ ReceiveOk(o) \in OutcomeType
         /\ Follows(ReceiveOk(o), o)
<1>1. CASE o.ready.onOk = "NotAwaitingOk"
  <2>1. ReceiveOk(o) = o
    BY <1>1 DEF ReceiveOk
  <2>2. QED BY <2>1, NumbersSame, FollowsSame
<1>2. CASE o.ready.onOk = "Resend"
  <2>1. ReceiveOk(o) = [o EXCEPT !.fail = "panic"]
    BY <1>2 DEF ReceiveOk
  <2>2. /\ ReceiveOk(o) \in OutcomeType
        /\ ReceiveOk(o).ready.tasks = o.ready.tasks
        /\ ReceiveOk(o).prog = o.prog
        /\ ReceiveOk(o).exit = o.exit /\ ReceiveOk(o).ready = o.ready
        /\ ReceiveOk(o).send = o.send
    BY <2>1 DEF OutcomeType
  <2>3. QED BY <2>2, NumbersSame, FollowsSame
<1>3. CASE o.ready.onOk = "IgnoreOK"
  <2>1. ReceiveOk(o) = SetOnOk(o, "Despool")
    BY <1>3 DEF ReceiveOk
  <2>2. QED BY <2>1, SetOnOkType, FollowsSame DEF OnOk, Turn
<1>4. CASE o.ready.onOk \notin {"NotAwaitingOk", "Resend", "IgnoreOK"}
  <2>1. ReceiveOk(o) = Despool(o)
    BY <1>4 DEF ReceiveOk
  <2>2. QED BY <2>1, DespoolFollows
<1>5. QED BY <1>1, <1>2, <1>3, <1>4

\* So does feedback.
LEMMA ReceiveFeedbackFollows ==
  ASSUME NEW o \in OutcomeType, NEW feedback, NEW verdict, idleReset \in BOOLEAN
  PROVE  /\ ReceiveFeedback(o, feedback, verdict) \in OutcomeType
         /\ Follows(ReceiveFeedback(o, feedback, verdict), o)
<1> DEFINE n == ReceiveFeedback(o, feedback, verdict)
<1>1. CASE feedback = "PausedForUser"
  <2>1. n = SetOnOk(o, "IgnoreOK")
    BY <1>1 DEF ReceiveFeedback
  <2>2. QED BY <2>1, SetOnOkType, FollowsSame DEF OnOk, Turn
<1>2. CASE feedback = "Temperatures"
  <2>1. n = [o EXCEPT !.arm = o.arm \cup {"polling_delay"}]
    BY <1>2 DEF ReceiveFeedback
  <2>2. /\ n \in OutcomeType /\ n.prog = o.prog /\ n.send = o.send
        /\ n.exit = o.exit /\ n.ready = o.ready
    BY <2>1 DEF OutcomeType
  <2> HIDE DEF n
  <2>3. n \in OutcomeType /\ Follows(n, o)
    BY <2>2, NumbersSame, FollowsSame
  <2>4. QED BY <2>3 DEF n
<1>3. CASE feedback = "Positions" /\ o.ready.mark = "WaitingToReachMark"
  <2>1. CASE verdict = "axes missing"
    <3>1. n = SetMark(o, "WaitingToSendFallbackGCode")
      BY <1>3, <2>1 DEF ReceiveFeedback
    <3>2. QED BY <3>1, SetMarkType, FollowsSame DEF Mark, Turn
  <2>2. CASE verdict = "reached"
    <3> DEFINE s == SetMark(o, "None")
    <3>1. s \in OutcomeType /\ Follows(s, o)
      BY SetMarkType, FollowsSame DEF Mark, Turn
    <3>2. n = Despool(s)
      BY <1>3, <2>2 DEF ReceiveFeedback
    <3> HIDE DEF n, s
    <3>3. n \in OutcomeType /\ Follows(n, s)
      BY <3>1, <3>2, DespoolFollows
    <3>4. Follows(n, o)
      BY <3>1, <3>3, FollowsTransitive
    <3>5. QED BY <3>3, <3>4 DEF n
  <2>3. CASE verdict \notin {"axes missing", "reached"}
    <3>1. n = o
      BY <1>3, <2>3 DEF ReceiveFeedback
    <3>2. QED BY <3>1, NumbersSame, FollowsSame
  <2>4. QED BY <2>1, <2>2, <2>3
<1>4. CASE /\ feedback \notin {"PausedForUser", "Temperatures"}
           /\ ~(feedback = "Positions" /\ o.ready.mark = "WaitingToReachMark")
  <2>1. n = o
    BY <1>4 DEF ReceiveFeedback
  <2>2. QED BY <2>1, NumbersSame, FollowsSame
<1>5. QED BY <1>1, <1>2, <1>3, <1>4

-----------------------------------------------------------------------------
(***************************************************************************)
(* Type correctness.                                                       *)
(***************************************************************************)

\* The events the model makes are events.
LEMMA EventTypes ==
  /\ \A type \in OtherEvents : Ev(type) \in Event
  /\ \A type \in TaskMessages, t \in Task, n \in Nat : TaskEv(type, t, n) \in Event
  /\ \A type \in Responses, n \in Nat : ResponseEv(type, n) \in Response
  /\ Response \subseteq Event
BY DEF Ev, TaskEv, ResponseEv, Response, Event, OtherEvents

\* What the channel holds, and what is left of it without its first event.
LEMMA QueueTypes ==
  ASSUME queue \in Seq(Event), queue # <<>>
  PROVE  /\ Head(queue) \in Event
         /\ Head(queue).n \in Nat
         /\ Head(queue).type \in TaskMessages => Head(queue).task \in Task
         /\ Tail(queue) \in Seq(Event)
         /\ \A e \in Event : Append(Tail(queue), e) \in Seq(Event)
<1>1. Head(queue) \in Event /\ Tail(queue) \in Seq(Event)
  BY HeadTailProperties
<1>2. \A e \in Event : Append(Tail(queue), e) \in Seq(Event)
  BY <1>1, AppendProperties
<1>3. TaskMessages \cap OtherEvents = {}
  BY DEF TaskMessages, OtherEvents, Responses, Messages, PortEvents
<1>4. QED BY <1>1, <1>2, <1>3 DEF Event

\* Spending keeps the bounds natural numbers.
LEMMA SpendType ==
  ASSUME budget \in [faults : Nat, requests : Nat, polls : Nat, reports : Nat],
         NEW kind \in {"faults", "requests", "polls", "reports"}, Spend(kind)
  PROVE  budget' \in [faults : Nat, requests : Nat, polls : Nat, reports : Nat]
<1>1. budget[kind] \in Nat /\ budget[kind] > 0
  BY DEF Spend
<1>2. budget[kind] - 1 \in Nat
  BY <1>1
<1>3. budget' = [budget EXCEPT ![kind] = budget[kind] - 1]
  BY DEF Spend
<1>4. QED BY <1>2, <1>3

\* An event that has no effect.
LEMMA IgnoreType ==
  ASSUME TypeOK, queue # <<>>, Ignore
  PROVE  TypeOK'
BY QueueTypes DEF TypeOK, Ignore

\* The ReadyState a connecting driver starts from.
LEMMA DefaultReadyType == DefaultReady \in ReadyState
<1>1. NewTask(FIRMWARE_INFO, 0, 0) \in SpooledTask
  BY DEF NewTask, SpooledTask, AnyTask, Internal
<1>2. <<NewTask(FIRMWARE_INFO, 0, 0)>> \in Seq(SpooledTask)
  BY <1>1
<1>3. QED BY <1>2 DEF DefaultReady, ReadyState, OnOk, Polling, Mark

\* What the end of a ReadyState leaves.
LEMMA LeaveType ==
  ASSUME TypeOK, NEW next \in States, NEW ts, NEW p \in Progress,
         \A i \in DOMAIN ts : ts[i].count \in Nat,
         NEW status \in TaskStatus, Leave(next, ts, p, status)
  PROVE  /\ st' \in States /\ bauds' \in 0 .. Bauds /\ ready' \in ReadyState
         /\ prog' \in Progress /\ idleReset' \in BOOLEAN /\ armed' \subseteq Delays
         /\ srv' \in [Task -> {"new", "spooled", "pausing", "paused", "over"}]
         /\ taken' \subseteq Task
<1>1. 0 \in 0 .. Bauds
  BY DriverAssumption
<1>2. NoReady \in ReadyState
  <2>1. DefaultReady \in ReadyState
    BY DefaultReadyType
  <2>2. <<>> \in Seq(SpooledTask)
    OBVIOUS
  <2> QED BY <2>1, <2>2 DEF NoReady, ReadyState
<1>3. Push(p, ts, status) \in Progress
  BY PushType
<1>4. QED BY <1>1, <1>2, <1>3 DEF Leave, TypeOK

\* The spool of a typed driver.
LEMMA SpoolTypes ==
  ASSUME TypeOK
  PROVE  /\ ready.tasks \in Seq(SpooledTask)
         /\ \A i \in DOMAIN ready.tasks : ready.tasks[i] \in SpooledTask
         /\ \A i \in DOMAIN ready.tasks : ready.tasks[i].count \in Nat
         /\ prog \in Progress
         /\ Here \in OutcomeType
         /\ idleReset \in BOOLEAN
<1>1. ready \in ReadyState /\ prog \in Progress /\ idleReset \in BOOLEAN
  BY DEF TypeOK, Progress
<1>2. ready.tasks \in Seq(SpooledTask)
  BY <1>1 DEF ReadyState
<1>3. \A i \in DOMAIN ready.tasks : ready.tasks[i] \in SpooledTask
  BY <1>2, LenProperties, ElementOfSeq
<1>4. Here \in OutcomeType
  BY <1>1, OutcomeOfNothing DEF Here
<1>5. QED BY <1>1, <1>2, <1>3, <1>4 DEF SpooledTask

\* The error state.
LEMMA ErroredType ==
  ASSUME TypeOK, queue # <<>>, NEW ts \in Seq(SpooledTask), NEW p \in Progress,
         Errored(ts, p)
  PROVE  TypeOK'
<1>1. \A i \in DOMAIN ts : ts[i].count \in Nat
  <2>1. \A i \in DOMAIN ts : ts[i] \in SpooledTask
    BY LenProperties, ElementOfSeq
  <2> QED BY <2>1 DEF SpooledTask
<1>2. Leave("Errored", ts, p, "Errored")
  BY DEF Errored
<1>3. /\ st' \in States /\ bauds' \in 0 .. Bauds /\ ready' \in ReadyState
      /\ prog' \in Progress /\ idleReset' \in BOOLEAN /\ armed' \subseteq Delays
      /\ srv' \in [Task -> {"new", "spooled", "pausing", "paused", "over"}]
      /\ taken' \subseteq Task
  BY <1>1, <1>2, LeaveType DEF States, TaskStatus
<1>4. QED BY <1>3, QueueTypes DEF Errored, TypeOK, Progress

\* A handler that fails.
LEMMA FailType ==
  ASSUME TypeOK, queue # <<>>, Fail
  PROVE  TypeOK'
BY SpoolTypes, ErroredType DEF Fail

\* A disconnection.
LEMMA DisconnectType ==
  ASSUME TypeOK, queue # <<>>, Disconnect
  PROVE  TypeOK'
<1>1. Leave("Disconnected", ready.tasks, prog, "Errored")
  BY DEF Disconnect
<1>2. /\ st' \in States /\ bauds' \in 0 .. Bauds /\ ready' \in ReadyState
      /\ prog' \in Progress /\ idleReset' \in BOOLEAN /\ armed' \subseteq Delays
      /\ srv' \in [Task -> {"new", "spooled", "pausing", "paused", "over"}]
      /\ taken' \subseteq Task
  BY <1>1, SpoolTypes, LeaveType DEF States, TaskStatus
<1>3. <<>> \in Seq(WireLine) /\ <<>> \in Seq(Response)
  OBVIOUS
<1>4. QED BY <1>2, <1>3, QueueTypes DEF Disconnect, ClosePort, TypeOK, Progress

Firmwares == [ last : Nat, booting : BOOLEAN, glued : BOOLEAN, autoreports : BOOLEAN,
               ran : [Task -> Seq(Nat)] ]
Budgets == [faults : Nat, requests : Nat, polls : Nat, reports : Nat]

\* The opening of the port.
LEMMA OpenPortType ==
  ASSUME TypeOK, queue # <<>>, OpenPort
  PROVE  /\ budget' \in Budgets /\ port' \in {"closed", "open", "dead"}
         /\ tx' \in Seq(WireLine) /\ rx' \in Seq(Response) /\ queue' \in Seq(Event)
         /\ proc' \in {"Running", "Exited", "Panicked", "Stuck"}
         /\ fw' \in Firmwares
<1>1. budget \in Budgets /\ fw \in Firmwares /\ proc \in {"Running", "Exited", "Panicked", "Stuck"}
  BY DEF TypeOK, Budgets, Firmwares
<1>2. Spend("faults") => budget' \in Budgets
  BY <1>1, SpendType DEF Budgets
<1>3. budget' \in Budgets
  BY <1>1, <1>2 DEF OpenPort
<1>4. Ev("SerialPortOpened") \in Event /\ Ev("SerialPortDisconnected") \in Event
  BY EventTypes DEF OtherEvents, PortEvents
<1>5. queue' \in Seq(Event)
  BY <1>4, QueueTypes DEF OpenPort, TypeOK
<1>6. fw' \in Firmwares
  <2>1. [fw EXCEPT !.booting = TRUE] \in Firmwares
    BY <1>1 DEF Firmwares
  <2> QED BY <1>1, <2>1 DEF OpenPort
<1>7. <<>> \in Seq(WireLine) /\ <<>> \in Seq(Response)
  OBVIOUS
<1>8. QED BY <1>1, <1>3, <1>5, <1>6, <1>7 DEF OpenPort

\* The effects of a handler that has neither failed nor panicked.
LEMMA ExecuteType ==
  ASSUME TypeOK, queue # <<>>, NEW o \in OutcomeType, NEW delays \in SUBSET Delays,
         Execute(o, delays)
  PROVE  /\ st' \in States /\ bauds' \in 0 .. Bauds /\ ready' \in ReadyState
         /\ prog' \in Progress /\ idleReset' \in BOOLEAN /\ queue' \in Seq(Event)
         /\ armed' \subseteq Delays /\ port' \in {"closed", "open", "dead"}
         /\ proc' \in {"Running", "Exited", "Panicked", "Stuck"}
         /\ tx' \in Seq(WireLine) /\ rx' \in Seq(Response)
         /\ fw' \in Firmwares /\ budget' \in Budgets
<1>1. 0 \in 0 .. Bauds /\ "Ready" \in States
  BY DriverAssumption DEF States
<1>2. o.send \in Seq(WireLine) /\ o.arm \subseteq Delays
  BY DEF OutcomeType, Delays
<1>3. tx \in Seq(WireLine) /\ tx \o o.send \in Seq(WireLine)
  BY <1>2, ConcatProperties DEF TypeOK
<1>4. tx' \in Seq(WireLine)
  BY <1>3 DEF Execute
<1>5. armed' \subseteq Delays
  BY <1>2 DEF Execute
<1>6. proc' \in {"Running", "Exited", "Panicked", "Stuck"}
  BY DEF Execute, TypeOK
<1>7. ready' \in ReadyState /\ prog' \in Progress
  BY DEF Execute, OutcomeType
<1>8. queue' \in Seq(Event)
  BY QueueTypes DEF Execute, TypeOK
<1>9. QED BY <1>1, <1>4, <1>5, <1>6, <1>7, <1>8 DEF Execute, TypeOK, Firmwares, Budgets

\* The end of a handler.
LEMMA CompleteType ==
  ASSUME TypeOK, queue # <<>>, NEW o \in OutcomeType, NEW delays \in SUBSET Delays,
         Complete(o, delays)
  PROVE  TypeOK'
<1>1. CASE o.fail = "error"
  BY <1>1, OutcomeTasks, ErroredType DEF Complete
<1>2. CASE o.fail = "panic"
  <2>1. queue' \in Seq(Event)
    BY <1>2, QueueTypes DEF Complete, TypeOK
  <2> QED BY <1>2, <2>1 DEF Complete, TypeOK
<1>3. CASE o.fail \notin {"error", "panic"}
  <2>1. Execute(o, delays) /\ UNCHANGED <<srv, taken>>
    BY <1>3 DEF Complete
  <2> QED BY <2>1, ExecuteType DEF TypeOK, Progress, Firmwares, Budgets
<1>4. QED BY <1>1, <1>2, <1>3

-----------------------------------------------------------------------------
\* The steps of connecting.
LEMMA NextBaudType ==
  ASSUME TypeOK, queue # <<>>, NEW n \in 0 .. Bauds, NextBaud(n)
  PROVE  TypeOK'
<1>1. CASE n = 0
  BY <1>1, DisconnectType DEF NextBaud
<1>2. CASE n # 0
  <2>1. OpenPort
    BY <1>2 DEF NextBaud
  <2>2. /\ budget' \in Budgets /\ port' \in {"closed", "open", "dead"}
        /\ tx' \in Seq(WireLine) /\ rx' \in Seq(Response) /\ queue' \in Seq(Event)
        /\ proc' \in {"Running", "Exited", "Panicked", "Stuck"}
        /\ fw' \in Firmwares
    BY <2>1, OpenPortType
  <2>3. n - 1 \in 0 .. Bauds
    BY <1>2, DriverAssumption
  <2>4. st' \in States /\ bauds' \in 0 .. Bauds /\ armed' \subseteq Delays
    BY <1>2, <2>3 DEF NextBaud, States, Delays
  <2>5. UNCHANGED <<ready, prog, idleReset, srv, taken>>
    BY <1>2 DEF NextBaud
  <2> QED BY <2>2, <2>4, <2>5 DEF TypeOK, Firmwares, Budgets
<1>3. QED BY <1>1, <1>2

\* reset_line_number keeps the types.
LEMMA ResetLineNumberType ==
  ASSUME TypeOK, queue # <<>>, ResetLineNumber
  PROVE  TypeOK'
<1>1. [num |-> 0, code |-> "M110", pos |-> 0] \in WireLine
  BY DEF WireLine, Code
<1>2. Append(tx, [num |-> 0, code |-> "M110", pos |-> 0]) \in Seq(WireLine)
  BY <1>1, AppendProperties DEF TypeOK
<1>3. tx' \in Seq(WireLine) /\ proc' \in {"Running", "Exited", "Panicked", "Stuck"}
  BY <1>2 DEF ResetLineNumber, TypeOK
<1>4. armed' \subseteq Delays /\ queue' \in Seq(Event)
  BY QueueTypes DEF ResetLineNumber, TypeOK, Delays
<1>5. QED BY <1>3, <1>4 DEF ResetLineNumber, TypeOK

\* append_to_error keeps the types.
LEMMA AppendToErrorType ==
  ASSUME TypeOK, queue # <<>>, AppendToError
  PROVE  TypeOK'
<1>1. queue' \in Seq(Event)
  BY QueueTypes DEF AppendToError, TypeOK
<1>2. QED BY <1>1 DEF AppendToError, TypeOK

\* An acknowledgement that may carry feedback.
LEMMA AcknowledgedFollows ==
  ASSUME NEW o \in OutcomeType, NEW feedback, NEW verdict, idleReset \in BOOLEAN
  PROVE  /\ ReceiveOk(ReceiveFeedback(o, feedback, verdict)) \in OutcomeType
         /\ Follows(ReceiveOk(ReceiveFeedback(o, feedback, verdict)), o)
<1> DEFINE f == ReceiveFeedback(o, feedback, verdict)
<1>1. f \in OutcomeType /\ Follows(f, o)
  BY ReceiveFeedbackFollows
<1> HIDE DEF f
<1>2. ReceiveOk(f) \in OutcomeType /\ Follows(ReceiveOk(f), f)
  BY <1>1, ReceiveOkFollows
<1>3. Follows(ReceiveOk(f), o)
  BY <1>1, <1>2, FollowsTransitive
<1>4. QED BY <1>2, <1>3 DEF f

\* The driver's own AUTOREPORT_TEMP task in front of the spool.
LEMMA AutoreportReadyType ==
  ASSUME TypeOK
  PROVE  LET o == With(Here, [ready EXCEPT
                                !.tasks = <<NewTask(AUTOREPORT_TEMP, 0, 0)>> \o @,
                                !.autoreport = TRUE])
         IN  o \in OutcomeType /\ Numbers(o, Here)
<1> DEFINE first == <<NewTask(AUTOREPORT_TEMP, 0, 0)>>
           ts == first \o ready.tasks
<1>1. NewTask(AUTOREPORT_TEMP, 0, 0) \in SpooledTask
  BY DEF NewTask, SpooledTask, AnyTask, Internal
<1>2. first \in Seq(SpooledTask)
  BY <1>1
<1> HIDE DEF first
<1>3. ts \in Seq(SpooledTask)
  BY <1>2, SpoolTypes, ConcatProperties
<1> HIDE DEF ts
<1>4. /\ [ready EXCEPT !.tasks = ts, !.autoreport = TRUE] \in ReadyState
      /\ [ready EXCEPT !.tasks = ts, !.autoreport = TRUE].line = ready.line
  BY <1>3 DEF TypeOK, ReadyState
<1>5. Here.ready = ready
  BY DEF Here, Outcome
<1>6. QED BY <1>4, <1>5, SpoolTypes, WithType DEF first, ts

\* A loaded task joins the spool, and the driver may then despool: no line of
\* the loaded task has started yet.
LEMMA LoadFollows ==
  ASSUME TypeOK, NEW t \in Task, NEW start \in Nat
  PROVE  \E x \in SpooledTask :
           /\ x.id = t /\ ~x.started
           /\ Spool(ready.tasks, x) \in Seq(SpooledTask)
           /\ SetTasks(Here, Spool(ready.tasks, x)) \in OutcomeType
           /\ Load(t, start) \in OutcomeType
           /\ Follows(Load(t, start), SetTasks(Here, Spool(ready.tasks, x)))
           /\ Load(t, start).fail # "panic"
           /\ Load(t, start).exit => Load(t, start).ready.tasks = <<>>
           /\ Turn(ready) => Turn(Load(t, start).ready)
           /\ Numbers(Load(t, start), Here)
<1> DEFINE skip == IF start = 0 THEN 0 ELSE start - 1
           last == Len(LinesOf(t))
           pos == IF skip < last THEN skip ELSE last
           x == NewTask(t, pos, start)
           o == SetTasks(Here, Spool(ready.tasks, x))
<1>1. t \in AnyTask
  BY DEF AnyTask
<1>2. last \in Nat
  BY <1>1, LinesOfType, LenProperties
<1> HIDE DEF last
<1>3. pos \in Nat
  BY <1>2
<1>4. Load(t, start) = IF ready.onOk = "NotAwaitingOk" THEN DespoolTask(o) ELSE o
  BY DEF Load, last
<1> HIDE DEF pos
<1>5. x \in SpooledTask /\ x.id = t /\ ~x.started
  BY <1>1, <1>3 DEF NewTask, SpooledTask
<1> HIDE DEF x
<1>6. Spool(ready.tasks, x) \in Seq(SpooledTask)
  BY <1>5, SpoolTypes, SpoolInserts
<1>7. /\ o \in OutcomeType /\ ~o.exit /\ o.fail = "none"
      /\ o.ready.onOk = ready.onOk /\ o.ready.pollFor = ready.pollFor
      /\ Numbers(o, Here)
  BY <1>6, SpoolTypes, SetTasksType DEF Here, Outcome
<1>8. /\ Load(t, start) \in OutcomeType /\ Follows(Load(t, start), o)
      /\ Load(t, start).fail # "panic"
  <2> HIDE DEF o
  <2>1. ASSUME ready.onOk = "NotAwaitingOk"
        PROVE  /\ DespoolTask(o) \in OutcomeType /\ Follows(DespoolTask(o), o)
               /\ DespoolTask(o).fail \in {"none", "error"}
    BY <1>7, <2>1, SpoolTypes, DespoolTaskFollows DEF NoPollDue
  <2>2. Follows(o, o)
    BY <1>7, NumbersSame, FollowsSame
  <2> QED BY <1>4, <1>7, <2>1, <2>2
<1>9. /\ Load(t, start).exit => Load(t, start).ready.tasks = <<>>
      /\ Turn(ready) => Turn(Load(t, start).ready)
  BY <1>7, <1>8 DEF Follows, Turn
<1>10. Numbers(Load(t, start), Here)
  BY <1>7, <1>8, NumbersTransitive DEF Follows
<1>11. QED BY <1>5, <1>6, <1>7, <1>8, <1>9, <1>10

-----------------------------------------------------------------------------
(***************************************************************************)
(* What the consumption of an event comes to.                              *)
(***************************************************************************)

\* A handler of ReadyState that adds no task to the spool.
Handled ==
  st = "Ready" /\ \E o \in OutcomeType : Follows(o, Here) /\ Complete(o, armed)

\* The first acknowledgement of a connecting driver.
Connected ==
  /\ st = "Connecting"
  /\ \E o \in OutcomeType : Follows(o, Outcome(DefaultReady, prog)) /\ Complete(o, {})

\* A handler that leaves the spool and the feedback alone.
LEMMA HandledSame ==
  ASSUME TypeOK, st = "Ready", NEW o \in OutcomeType,
         o.ready.tasks = ready.tasks, o.prog = prog, ~o.exit, Numbers(o, Here),
         Turn(ready) => Turn(o.ready), Complete(o, armed)
  PROVE  Handled
<1>1. Here.ready = ready /\ Here.prog = prog
  BY DEF Here, Outcome
<1>2. Follows(o, Here)
  BY <1>1, SpoolTypes, FollowsSame
<1>3. QED BY <1>2 DEF Handled

\* The events of the connection and of the port.
LEMMA ConnectionCases ==
  ASSUME TypeOK,
         \/ ConsumeInit \/ ConsumeSerialPortOpened \/ ConsumeSerialPortDisconnected
         \/ ConsumeSerialPortError \/ ConsumeConnectionTimeout
         \/ ConsumeDeviceDiscovered \/ ConsumeDeviceDisconnected
  PROVE  \/ Ignore \/ Fail \/ Disconnect
         \/ st # "Ready" /\ \E n \in 0 .. Bauds : NextBaud(n)
         \/ st = "Connecting" /\ ResetLineNumber
<1>1. Bauds \in 0 .. Bauds /\ bauds \in 0 .. Bauds
  BY DriverAssumption DEF TypeOK
<1>2. QED BY <1>1
  DEF ConsumeInit, ConsumeSerialPortOpened, ConsumeSerialPortDisconnected,
      ConsumeSerialPortError, ConsumeConnectionTimeout, ConsumeDeviceDiscovered,
      ConsumeDeviceDisconnected

\* An acknowledgement.
LEMMA OkCases ==
  ASSUME TypeOK, ConsumeOk
  PROVE  Ignore \/ AppendToError \/ Handled \/ Connected
<1> DEFINE ack(o, type) == ReceiveOk(ReceiveFeedback(o, Temperatures(type), "none"))
           first == Outcome(DefaultReady, prog)
<1>1. PICK type \in {"Ok", "OkTemperatures"} :
        \/ st = "Ready" /\ Complete(ack(Here, type), armed)
        \/ st = "Connecting" /\ Complete(ack(first, type), {})
        \/ AppendToError
        \/ Ignore
  BY DEF ConsumeOk
<1>2. first \in OutcomeType
  BY SpoolTypes, DefaultReadyType, OutcomeOfNothing
<1>3. /\ ack(Here, type) \in OutcomeType /\ Follows(ack(Here, type), Here)
      /\ ack(first, type) \in OutcomeType /\ Follows(ack(first, type), first)
  BY <1>2, SpoolTypes, AcknowledgedFollows
<1> HIDE DEF ack
<1>4. QED BY <1>1, <1>3 DEF Handled, Connected

\* Feedback.
LEMMA FeedbackCases ==
  ASSUME TypeOK, ConsumeFeedback
  PROVE  Ignore \/ AppendToError \/ Handled
<1>1. PICK type \in {"Temperatures", "Positions", "Busy", "PausedForUser"} :
        \/ /\ st = "Ready"
           /\ \E verdict \in Verdicts :
                Complete([ReceiveFeedback(Here, type, verdict)
                            EXCEPT !.cancel = @ \cup {"tickle_delay"}], armed)
        \/ AppendToError
        \/ Ignore
  BY DEF ConsumeFeedback
<1>2. ASSUME st = "Ready", NEW verdict \in Verdicts,
             Complete([ReceiveFeedback(Here, type, verdict)
                         EXCEPT !.cancel = @ \cup {"tickle_delay"}], armed)
      PROVE  Handled
  <2> DEFINE o == ReceiveFeedback(Here, type, verdict)
             c == [o EXCEPT !.cancel = @ \cup {"tickle_delay"}]
  <2>1. o \in OutcomeType /\ Follows(o, Here)
    BY SpoolTypes, ReceiveFeedbackFollows
  <2>2. Complete(c, armed)
    BY <1>2
  <2> HIDE DEF o
  <2>3. /\ c \in OutcomeType /\ c.ready = o.ready /\ c.prog = o.prog /\ c.exit = o.exit
        /\ c.send = o.send
    BY <2>1 DEF OutcomeType
  <2> HIDE DEF c
  <2>4. Follows(c, o)
    BY <2>1, <2>3, NumbersSame, FollowsSame
  <2>5. Follows(c, Here)
    BY <2>1, <2>3, <2>4, SpoolTypes, FollowsTransitive
  <2> QED BY <1>2, <2>2, <2>3, <2>5 DEF Handled
<1>3. QED BY <1>1, <1>2

\* The other responses but the one that adds a task.
LEMMA ResponseCases ==
  ASSUME TypeOK,
         \/ ConsumeError \/ ConsumeGreeting \/ ConsumeResend \/ ConsumeUnknown
  PROVE  \/ Ignore \/ AppendToError \/ Fail \/ Handled
         \/ st = "Connecting" /\ ResetLineNumber
<1> DEFINE o == SetOnOk(Here, "Resend")
<1>1. /\ o \in OutcomeType /\ o.ready.tasks = ready.tasks /\ o.prog = prog
      /\ ~o.exit /\ Turn(o.ready) /\ Numbers(o, Here)
  BY SpoolTypes, SetOnOkType DEF OnOk, Here, Outcome, Turn
<1>2. \/ Ignore \/ AppendToError \/ Fail
      \/ st = "Ready" /\ Complete(o, armed)
      \/ st = "Connecting" /\ ResetLineNumber
  BY DEF ConsumeError, ConsumeGreeting, ConsumeResend, ConsumeUnknown
<1> HIDE DEF o
<1>3. QED BY <1>1, <1>2, HandledSame

\* The timers of ReadyState.
LEMMA TimerCases ==
  ASSUME TypeOK, ConsumePollFeedback \/ ConsumeTickleSerialPort
  PROVE  Ignore \/ Fail \/ Handled
<1>1. /\ Here \in OutcomeType /\ Here.ready = ready /\ Here.prog = prog /\ ~Here.exit
      /\ ready \in ReadyState
  BY SpoolTypes DEF Here, Outcome, TypeOK
<1>2. CASE ConsumePollFeedback
  <2> DEFINE o == SetPollFor(Here, "PollTemperature")
             m == PollFeedback(o, "PollTemperature")
  <2>1. /\ o \in OutcomeType /\ o.ready.tasks = ready.tasks /\ o.prog = prog
        /\ ~o.exit /\ o.ready.onOk = ready.onOk /\ Numbers(o, Here)
    BY <1>1, SetPollForType DEF Polling
  <2>2. \/ Ignore
        \/ st = "Ready" /\ \/ ready.onOk # "NotAwaitingOk" /\ Complete(o, armed)
                           \/ Complete(m, armed)
    BY <1>2 DEF ConsumePollFeedback
  <2> HIDE DEF o
  <2>3. /\ m \in OutcomeType /\ m.ready.tasks = ready.tasks /\ m.prog = prog
        /\ ~m.exit /\ Turn(m.ready) /\ Numbers(m, Here)
    BY <2>1, PollFeedbackType, NumbersTransitive DEF Turn
  <2>4. ready.onOk # "NotAwaitingOk" => Turn(o.ready)
    BY <2>1 DEF Turn
  <2> HIDE DEF m
  <2> QED BY <2>1, <2>2, <2>3, <2>4, HandledSame
<1>3. CASE ConsumeTickleSerialPort
  <2> DEFINE r == [ready EXCEPT !.tickles = @ + 1]
             o == With(Here, r)
             m == SendSerial(o, 0, "M105", 0, "gcode")
  <2>1. Ignore \/ Fail \/ (st = "Ready" /\ Complete(m, armed))
    BY <1>3 DEF ConsumeTickleSerialPort
  <2>2. /\ r \in ReadyState /\ r.tasks = ready.tasks /\ (Turn(ready) => Turn(r))
        /\ r.line = ready.line
    BY <1>1 DEF ReadyState, Turn
  <2> HIDE DEF r
  <2>3. /\ o \in OutcomeType /\ o.ready = r /\ o.prog = prog /\ ~o.exit
        /\ Numbers(o, Here)
    BY <1>1, <2>2, WithType
  <2> HIDE DEF o
  <2>4. /\ m \in OutcomeType /\ m.ready.tasks = ready.tasks /\ m.prog = prog
        /\ ~m.exit /\ (Turn(ready) => Turn(m.ready)) /\ Numbers(m, Here)
    <3>1. o \in OutcomeType /\ 0 \in Nat /\ "M105" \in Code /\ "M105" # "M110"
      BY <2>3 DEF Code
    <3>2. /\ m \in OutcomeType /\ m.ready = o.ready /\ m.prog = o.prog
          /\ m.exit = o.exit
      BY <3>1, SendUnnumbered
    <3>3. Numbers(m, o)
      BY <3>1, SendUnnumbered
    <3> HIDE DEF m
    <3>4. Numbers(m, Here)
      BY <2>3, <3>3, NumbersTransitive
    <3> QED BY <2>2, <2>3, <3>2, <3>4
  <2> HIDE DEF m
  <2> QED BY <2>1, <2>4, HandledSame
<1>4. QED BY <1>2, <1>3

\* Every event.
LEMMA ConsumeCases ==
  ASSUME TypeOK, Consume
  PROVE  /\ queue # <<>>
         /\ \/ Ignore \/ AppendToError \/ Fail \/ Disconnect
            \/ st # "Ready" /\ \E n \in 0 .. Bauds : NextBaud(n)
            \/ st = "Connecting" /\ ResetLineNumber
            \/ Handled \/ Connected
            \/ ConsumeAutoreportTemp \/ ConsumeSpoolTask \/ ConsumeGCodeLoaded
            \/ ConsumePauseTask \/ ConsumeDeleteTaskHistory \/ ConsumeEstop
            \/ ConsumeReset \/ ConsumeResetWhenIdle
<1>1. queue # <<>>
  BY DEF Receives, Consume,
     ConsumeInit, ConsumeSerialPortOpened, ConsumeSerialPortDisconnected,
     ConsumeSerialPortError, ConsumeConnectionTimeout, ConsumeDeviceDiscovered,
     ConsumeDeviceDisconnected, ConsumeOk, ConsumeFeedback, ConsumeError, ConsumeGreeting,
     ConsumeResend, ConsumeAutoreportTemp, ConsumeUnknown, ConsumeSpoolTask,
     ConsumeGCodeLoaded, ConsumeGCodeLoadFailed, ConsumePauseTask,
     ConsumeDeleteTaskHistory, ConsumeEstop, ConsumeReset, ConsumeResetWhenIdle,
     ConsumeProtobufClientConnection, ConsumePollFeedback, ConsumeTickleSerialPort
<1>2. ConsumeGCodeLoadFailed => Fail
  BY DEF ConsumeGCodeLoadFailed
<1>3. ConsumeProtobufClientConnection => Ignore
  BY DEF ConsumeProtobufClientConnection
<1>4. QED BY <1>1, <1>2, <1>3, ConnectionCases, OkCases, FeedbackCases, ResponseCases,
             TimerCases
          DEF Consume

-----------------------------------------------------------------------------
\* The capability that makes the driver ask for reports keeps the types.
LEMMA ConsumeAutoreportTempType ==
  ASSUME TypeOK, ConsumeAutoreportTemp
  PROVE  TypeOK'
<1>1. queue # <<>>
  BY DEF Receives, ConsumeAutoreportTemp
<1>2. armed \in SUBSET Delays
  BY DEF TypeOK
<1>3. QED BY <1>1, <1>2, AutoreportReadyType, CompleteType, AppendToErrorType, IgnoreType
          DEF ConsumeAutoreportTemp

\* Spooling a task keeps the types.
LEMMA ConsumeSpoolTaskType ==
  ASSUME TypeOK, ConsumeSpoolTask
  PROVE  TypeOK'
<1> DEFINE t == Head(queue).task
           n == Head(queue).n
           o == Load(t, n)
<1>1. queue # <<>> /\ Head(queue).type = "SpoolTask"
  BY DEF Receives, ConsumeSpoolTask
<1>2. t \in Task /\ n \in Nat
  BY <1>1, QueueTypes DEF TypeOK, TaskMessages
<1>3. o \in OutcomeType
  BY <1>2, LoadFollows
<1>4. armed \in SUBSET Delays
  BY DEF TypeOK
<1>5. CASE Errored(o.ready.tasks, o.prog)
  BY <1>1, <1>3, <1>5, OutcomeTasks, ErroredType
<1>6. CASE Execute(o, armed) /\ taken' = taken \cup {t} /\ UNCHANGED srv
  <2>1. /\ st' \in States /\ bauds' \in 0 .. Bauds /\ ready' \in ReadyState
        /\ prog' \in Progress /\ idleReset' \in BOOLEAN /\ queue' \in Seq(Event)
        /\ armed' \subseteq Delays /\ port' \in {"closed", "open", "dead"}
        /\ proc' \in {"Running", "Exited", "Panicked", "Stuck"}
        /\ tx' \in Seq(WireLine) /\ rx' \in Seq(Response)
        /\ fw' \in Firmwares /\ budget' \in Budgets
    BY <1>1, <1>3, <1>4, <1>6, ExecuteType
  <2>2. taken' \subseteq Task
    BY <1>2, <1>6 DEF TypeOK
  <2>3. srv' \in [Task -> {"new", "spooled", "pausing", "paused", "over"}]
    BY <1>6 DEF TypeOK
  <2> QED BY <2>1, <2>2, <2>3 DEF TypeOK, Progress, Firmwares, Budgets
<1>7. CASE /\ \/ /\ queue' = Append(Tail(queue), TaskEv("GCodeLoaded", t, n))
                 /\ UNCHANGED budget
              \/ /\ Spend("faults")
                 /\ queue' = Append(Tail(queue), TaskEv("GCodeLoadFailed", t, n))
           /\ proc' = IF Full THEN "Stuck" ELSE proc
           /\ taken' = taken \cup {t}
           /\ UNCHANGED <<st, bauds, ready, prog, idleReset, armed, port, tx, rx, fw, srv>>
  <2>1. budget \in [faults : Nat, requests : Nat, polls : Nat, reports : Nat]
    BY DEF TypeOK
  <2>2. budget' \in [faults : Nat, requests : Nat, polls : Nat, reports : Nat]
    BY <1>7, <2>1, SpendType
  <2>3. /\ TaskEv("GCodeLoaded", t, n) \in Event
        /\ TaskEv("GCodeLoadFailed", t, n) \in Event
    BY <1>2, EventTypes DEF TaskMessages
  <2>4. queue' \in Seq(Event)
    BY <1>1, <1>7, <2>3, QueueTypes DEF TypeOK
  <2>5. proc' \in {"Running", "Exited", "Panicked", "Stuck"}
    BY <1>7 DEF TypeOK
  <2>6. taken' \subseteq Task
    BY <1>2, <1>7 DEF TypeOK
  <2> QED BY <1>7, <2>2, <2>4, <2>5, <2>6 DEF TypeOK
<1>8. CASE Ignore
  BY <1>1, <1>8, IgnoreType
<1>9. QED BY <1>5, <1>6, <1>7, <1>8 DEF ConsumeSpoolTask

\* A task that has been read keeps the types.
LEMMA ConsumeGCodeLoadedType ==
  ASSUME TypeOK, ConsumeGCodeLoaded
  PROVE  TypeOK'
<1>1. queue # <<>> /\ Head(queue).type = "GCodeLoaded"
  BY DEF Receives, ConsumeGCodeLoaded
<1>2. Head(queue).task \in Task /\ Head(queue).n \in Nat
  BY <1>1, QueueTypes DEF TypeOK, TaskMessages
<1>3. Load(Head(queue).task, Head(queue).n) \in OutcomeType
  BY <1>2, LoadFollows
<1>4. armed \in SUBSET Delays
  BY DEF TypeOK
<1>5. QED BY <1>1, <1>3, <1>4, CompleteType, IgnoreType DEF ConsumeGCodeLoaded

\* Pausing a task keeps the types.
LEMMA ConsumePauseTaskType ==
  ASSUME TypeOK, ConsumePauseTask
  PROVE  TypeOK'
<1> DEFINE t == Head(queue).task
           i == Position(ready.tasks, t)
           rest == Unspool(ready.tasks, t)
           gone == ready.tasks[i]
<1>1. queue # <<>> /\ Head(queue).type = "PauseTask"
  BY DEF Receives, ConsumePauseTask
<1>2. t \in Task
  BY <1>1, QueueTypes DEF TypeOK, TaskMessages
<1>3. CASE Ignore
  BY <1>1, <1>3, IgnoreType
<1>4. CASE /\ t \in Ids(ready.tasks)
           /\ ready' = [ready EXCEPT !.tasks = rest]
           /\ prog' = Push(prog, <<gone>>, "Paused")
           /\ srv' = [srv EXCEPT ![t] = IF @ = "pausing" THEN "paused" ELSE @]
           /\ queue' = Tail(queue)
           /\ proc' = IF idleReset /\ rest = <<>> THEN "Exited" ELSE proc
           /\ UNCHANGED <<st, bauds, idleReset, armed, port, tx, rx, fw, taken, budget>>
  <2>1. rest \in Seq(SpooledTask) /\ i \in 1 .. Len(ready.tasks)
    BY <1>4, SpoolTypes, UnspoolRemoves
  <2>2. gone.count \in Nat
    BY <2>1, SpoolTypes, LenProperties
  <2> HIDE DEF rest, gone, i
  <2>3. ready' \in ReadyState
    BY <1>4, <2>1 DEF TypeOK, ReadyState
  <2>4. prog' \in Progress
    <3>1. \A j \in DOMAIN <<gone>> : <<gone>>[j].count \in Nat
      BY <2>2
    <3>2. QED BY <1>4, <3>1, SpoolTypes, PushType DEF TaskStatus
  <2>5. srv' \in [Task -> {"new", "spooled", "pausing", "paused", "over"}]
    BY <1>2, <1>4 DEF TypeOK
  <2>6. proc' \in {"Running", "Exited", "Panicked", "Stuck"}
    BY <1>4 DEF TypeOK
  <2>7. queue' \in Seq(Event)
    BY <1>1, <1>4, QueueTypes DEF TypeOK
  <2>8. QED BY <1>4, <2>3, <2>4, <2>5, <2>6, <2>7 DEF TypeOK, Progress
<1>5. QED BY <1>3, <1>4 DEF ConsumePauseTask

\* Deleting the history of a task keeps the types.
LEMMA ConsumeDeleteTaskHistoryType ==
  ASSUME TypeOK, ConsumeDeleteTaskHistory
  PROVE  TypeOK'
<1> DEFINE t == Head(queue).task
<1>1. queue # <<>> /\ Head(queue).type = "DeleteTaskHistory"
  BY DEF Receives, ConsumeDeleteTaskHistory
<1>2. queue' \in Seq(Event)
  BY <1>1, QueueTypes DEF TypeOK, ConsumeDeleteTaskHistory
<1>3. "None" \in TaskStatus
  BY DEF TaskStatus
<1>4. prog' \in [Task -> [status : TaskStatus, n : Nat]]
  BY <1>3 DEF TypeOK, ConsumeDeleteTaskHistory
<1>5. taken' \subseteq Task
  BY DEF TypeOK, ConsumeDeleteTaskHistory
<1>6. QED BY <1>2, <1>4, <1>5 DEF TypeOK, ConsumeDeleteTaskHistory

\* An emergency stop keeps the types.
LEMMA ConsumeEstopType ==
  ASSUME TypeOK, ConsumeEstop
  PROVE  TypeOK'
<1>1. /\ queue # <<>>
      /\ Leave("EStopped", ready.tasks, prog, "Cancelled")
      /\ OpenPort
  BY DEF Receives, ConsumeEstop
<1>2. /\ st' \in States /\ bauds' \in 0 .. Bauds /\ ready' \in ReadyState
      /\ prog' \in Progress /\ idleReset' \in BOOLEAN /\ armed' \subseteq Delays
      /\ srv' \in [Task -> {"new", "spooled", "pausing", "paused", "over"}]
      /\ taken' \subseteq Task
  BY <1>1, SpoolTypes, LeaveType DEF States, TaskStatus
<1>3. /\ budget' \in Budgets /\ port' \in {"closed", "open", "dead"}
      /\ tx' \in Seq(WireLine) /\ rx' \in Seq(Response) /\ queue' \in Seq(Event)
      /\ proc' \in {"Running", "Exited", "Panicked", "Stuck"}
      /\ fw' \in Firmwares
  BY <1>1, OpenPortType
<1>4. QED BY <1>2, <1>3 DEF TypeOK, Progress, Firmwares, Budgets

\* The messages that may end the process keep the types.
LEMMA ResetsType ==
  ASSUME TypeOK, ConsumeReset \/ ConsumeResetWhenIdle
  PROVE  TypeOK'
<1>1. queue # <<>>
  BY DEF Receives, ConsumeReset, ConsumeResetWhenIdle
<1>2. queue' \in Seq(Event)
  BY <1>1, QueueTypes DEF TypeOK, ConsumeReset, ConsumeResetWhenIdle
<1>3. proc' \in {"Running", "Exited", "Panicked", "Stuck"} /\ idleReset' \in BOOLEAN
  BY DEF TypeOK, ConsumeReset, ConsumeResetWhenIdle
<1>4. UNCHANGED <<st, bauds, ready, prog, armed, port, tx, rx, fw, srv, taken, budget>>
  BY DEF ConsumeReset, ConsumeResetWhenIdle
<1>5. QED BY <1>2, <1>3, <1>4 DEF TypeOK

\* Whatever the reactor consumes keeps the types.
LEMMA ConsumeType ==
  ASSUME TypeOK, Consume
  PROVE  TypeOK'
<1>1. queue # <<>>
  BY ConsumeCases
<1>2. armed \in SUBSET Delays /\ {} \in SUBSET Delays
  BY DEF TypeOK
<1>3. CASE Handled \/ Connected
  BY <1>1, <1>2, <1>3, CompleteType DEF Handled, Connected
<1>4. QED BY <1>1, <1>3, ConsumeCases, IgnoreType, AppendToErrorType, FailType,
             DisconnectType, NextBaudType, ResetLineNumberType, ConsumeAutoreportTempType,
             ConsumeSpoolTaskType, ConsumeGCodeLoadedType, ConsumePauseTaskType,
             ConsumeDeleteTaskHistoryType, ConsumeEstopType, ResetsType

-----------------------------------------------------------------------------
\* Sending an event to the channel.
LEMMA SendType ==
  ASSUME queue \in Seq(Event), NEW e \in Event, Send(e)
  PROVE  queue' \in Seq(Event)
BY AppendProperties DEF Send

\* The delays, the reader and the loss of the port keep the types.
LEMMA PortType ==
  ASSUME TypeOK, Read \/ Unplug \/ \E key \in Delays : Fire(key)
  PROVE  TypeOK'
<1>1. queue \in Seq(Event) /\ budget \in Budgets
  BY DEF TypeOK, Budgets
<1>2. ASSUME NEW key \in Delays, Fire(key)
      PROVE  TypeOK'
  <2>1. DelayEvent[key] \in OtherEvents
    BY DEF Delays, DelayEvent, OtherEvents
  <2>2. queue' \in Seq(Event)
    BY <1>1, <1>2, <2>1, EventTypes, SendType DEF Fire
  <2>3. UNCHANGED budget \/ Spend("polls") \/ Spend("faults")
    BY <1>2 DEF Fire
  <2>4. budget' \in Budgets
    BY <1>1, <2>3, SpendType DEF Budgets
  <2> QED BY <1>2, <2>2, <2>4 DEF TypeOK, Fire, Budgets
<1>3. CASE Read
  <2>1. Head(rx) \in Event /\ Tail(rx) \in Seq(Response)
    BY <1>3, EventTypes, HeadTailProperties DEF TypeOK, Read
  <2>2. queue' \in Seq(Event)
    BY <1>1, <1>3, <2>1, SendType DEF Read
  <2> QED BY <1>3, <2>1, <2>2 DEF TypeOK, Read
<1>4. CASE Unplug
  <2>1. \A type \in {"SerialPortDisconnected", "SerialPortError"} : Ev(type) \in Event
    BY EventTypes DEF OtherEvents, PortEvents
  <2>2. queue' \in Seq(Event)
    BY <1>1, <1>4, <2>1, SendType DEF Unplug
  <2>3. budget' \in Budgets
    BY <1>1, <1>4, SpendType DEF Unplug, Budgets
  <2>4. <<>> \in Seq(WireLine) /\ <<>> \in Seq(Response)
    OBVIOUS
  <2> QED BY <1>4, <2>2, <2>3, <2>4 DEF TypeOK, Unplug, Budgets
<1>5. QED BY <1>2, <1>3, <1>4

\* The messages of the server keep the types.
LEMMA ServerType ==
  ASSUME TypeOK,
         \/ \E t \in Task : ServerSpools(t) \/ ServerPauses(t) \/ ServerDeletesHistory(t)
         \/ \E type \in Messages : ServerRequests(type)
  PROVE  TypeOK'
<1>1. queue \in Seq(Event) /\ budget \in Budgets
  BY DEF TypeOK, Budgets
<1>2. ASSUME NEW t \in Task, ServerSpools(t)
      PROVE  TypeOK'
  <2>1. prog[t].n + 1 \in Nat /\ 0 \in Nat
    BY DEF TypeOK
  <2>2. TaskEv("SpoolTask", t, 0) \in Event /\ TaskEv("SpoolTask", t, prog[t].n + 1) \in Event
    BY <2>1, EventTypes DEF TaskMessages
  <2>3. queue' \in Seq(Event)
    BY <1>1, <1>2, <2>2, SendType DEF ServerSpools
  <2>4. srv' \in [Task -> {"new", "spooled", "pausing", "paused", "over"}]
    BY <1>2 DEF TypeOK, ServerSpools
  <2> QED BY <1>2, <2>3, <2>4 DEF TypeOK, ServerSpools
<1>3. ASSUME NEW t \in Task, ServerPauses(t)
      PROVE  TypeOK'
  <2>1. TaskEv("PauseTask", t, 0) \in Event
    BY EventTypes DEF TaskMessages
  <2>2. queue' \in Seq(Event)
    BY <1>1, <1>3, <2>1, SendType DEF ServerPauses
  <2>3. srv' \in [Task -> {"new", "spooled", "pausing", "paused", "over"}]
    BY <1>3 DEF TypeOK, ServerPauses
  <2>4. budget' \in Budgets
    BY <1>1, <1>3, SpendType DEF ServerPauses, Budgets
  <2> QED BY <1>3, <2>2, <2>3, <2>4 DEF TypeOK, ServerPauses, Budgets
<1>4. ASSUME NEW t \in Task, ServerDeletesHistory(t)
      PROVE  TypeOK'
  <2>1. TaskEv("DeleteTaskHistory", t, 0) \in Event
    BY EventTypes DEF TaskMessages
  <2>2. queue' \in Seq(Event)
    BY <1>1, <1>4, <2>1, SendType DEF ServerDeletesHistory
  <2>3. budget' \in Budgets
    BY <1>1, <1>4, SpendType DEF ServerDeletesHistory, Budgets
  <2> QED BY <1>4, <2>2, <2>3 DEF TypeOK, ServerDeletesHistory, Budgets
<1>5. ASSUME NEW type \in Messages, ServerRequests(type)
      PROVE  TypeOK'
  <2>1. Ev(type) \in Event
    BY EventTypes DEF OtherEvents
  <2>2. queue' \in Seq(Event)
    BY <1>1, <1>5, <2>1, SendType DEF ServerRequests
  <2>3. Spend("faults") \/ Spend("requests")
    BY <1>5 DEF ServerRequests
  <2>4. budget' \in Budgets
    BY <1>1, <2>3, SpendType DEF Budgets
  <2> QED BY <1>5, <2>2, <2>4 DEF TypeOK, ServerRequests, Budgets
<1>6. QED BY <1>2, <1>3, <1>4, <1>5

-----------------------------------------------------------------------------
\* What the firmware answers are events.
LEMMA AnswerType ==
  ASSUME NEW line
  PROVE  Answer(line) \in Seq(Response)
<1>1. /\ ResponseEv("OkTemperatures", 0) \in Response /\ ResponseEv("Positions", 0) \in Response
      /\ ResponseEv("Ok", 0) \in Response /\ ResponseEv("AutoreportTemp", 0) \in Response
  BY EventTypes DEF Responses
<1>2. /\ <<ResponseEv("OkTemperatures", 0)>> \in Seq(Response)
      /\ <<ResponseEv("Positions", 0), ResponseEv("Ok", 0)>> \in Seq(Response)
      /\ <<ResponseEv("AutoreportTemp", 0), ResponseEv("Ok", 0)>> \in Seq(Response)
      /\ <<ResponseEv("Ok", 0)>> \in Seq(Response)
  BY <1>1
<1>3. QED BY <1>2 DEF Answer

\* Accepting a line keeps the type of the firmware.
LEMMA AcceptType ==
  ASSUME fw \in Firmwares, NEW line \in WireLine, Accept(line)
  PROVE  fw' \in Firmwares
<1> DEFINE last == IF line.code = "M110" THEN 0
                   ELSE IF line.num = 0 THEN fw.last ELSE line.num
           ran == IF line.code \in Task
                  THEN [fw.ran EXCEPT ![line.code] = Append(@, line.pos)] ELSE fw.ran
           reports == fw.autoreports \/ line.code = AUTOREPORT_TEMP
<1>1. line.num \in Nat /\ line.pos \in Nat
  BY DEF WireLine
<1>2. last \in Nat
  BY <1>1 DEF Firmwares
<1>3. ran \in [Task -> Seq(Nat)]
  <2>1. fw.ran \in [Task -> Seq(Nat)]
    BY DEF Firmwares
  <2>2. ASSUME line.code \in Task
        PROVE  Append(fw.ran[line.code], line.pos) \in Seq(Nat)
    BY <1>1, <2>1, <2>2, AppendProperties
  <2>3. QED BY <2>1, <2>2
<1>4. PICK a \in BOOLEAN : a = reports
  OBVIOUS
<1>5. fw' = [fw EXCEPT !.last = last, !.ran = ran, !.autoreports = reports]
  BY DEF Accept
<1> HIDE DEF last, ran, reports
<1>6. QED BY <1>2, <1>3, <1>4, <1>5 DEF Firmwares

\* The firmware's turn: what it has left to do.
LEMMA TurnsType ==
  ASSUME TypeOK, Turns
  PROVE  /\ Head(tx) \in WireLine /\ tx' \in Seq(WireLine)
         /\ rx' \in Seq(Response) /\ fw' \in Firmwares /\ budget' \in Budgets => TypeOK'
<1>1. Head(tx) \in WireLine /\ tx' \in Seq(WireLine)
  BY HeadTailProperties DEF TypeOK, Turns
<1>2. QED BY <1>1 DEF TypeOK, Turns, Firmwares, Budgets

\* The answers of the firmware, and what happens to them, keep the types.
LEMMA FirmwareTurnsType ==
  ASSUME TypeOK,
         \/ FirmwareAnswers \/ LineCorrupted \/ NewlineLost \/ AnswerLost \/ FirmwarePauses
  PROVE  TypeOK'
<1>1. Turns
  BY DEF FirmwareAnswers, LineCorrupted, NewlineLost, AnswerLost, FirmwarePauses
<1>2. fw \in Firmwares /\ budget \in Budgets
  BY DEF TypeOK, Firmwares, Budgets
<1>3. budget' \in Budgets
  <2>1. UNCHANGED budget \/ Spend("faults") \/ Spend("reports")
    BY DEF FirmwareAnswers, LineCorrupted, NewlineLost, AnswerLost, FirmwarePauses
  <2> QED BY <1>2, <2>1, SpendType DEF Budgets
<1>4. fw' \in Firmwares
  <2>1. \/ fw' = fw \/ Accept(Head(tx))
        \/ fw' = [fw EXCEPT !.glued = FALSE] \/ fw' = [fw EXCEPT !.glued = TRUE]
    BY DEF FirmwareAnswers, LineCorrupted, NewlineLost, AnswerLost, FirmwarePauses
  <2>2. [fw EXCEPT !.glued = FALSE] \in Firmwares /\ [fw EXCEPT !.glued = TRUE] \in Firmwares
    BY <1>2 DEF Firmwares
  <2> QED BY <1>1, <1>2, <2>1, <2>2, TurnsType, AcceptType
<1>5. rx' \in Seq(Response)
  <2> DEFINE answer == Answer(Head(tx))
  <2>1. answer \in Seq(Response)
    BY AnswerType
  <2>2. SubSeq(answer, 1, Len(answer) - 1) \in Seq(Response)
    <3>1. Len(answer) \in Nat /\ \A i \in 1 .. Len(answer) : answer[i] \in Response
      BY <2>1, LenProperties, ElementOfSeq
    <3> HIDE DEF answer
    <3>2. QED BY <2>1, <3>1, SubSeqProperties
  <2>3. /\ ResponseEv("Error", 0) \in Response /\ ResponseEv("Ok", 0) \in Response
        /\ ResponseEv("PausedForUser", 0) \in Response
        /\ ResponseEv("Resend", fw.last + 1) \in Response
    BY <1>2, EventTypes DEF Responses, Firmwares
  <2>4. /\ AskAgain \in Seq(Response) /\ <<>> \in Seq(Response)
        /\ <<ResponseEv("Error", 0)>> \in Seq(Response)
        /\ <<ResponseEv("PausedForUser", 0), ResponseEv("Ok", 0), ResponseEv("Ok", 0)>>
              \in Seq(Response)
    BY <2>3 DEF AskAgain
  <2>5. rx' \in { answer, SubSeq(answer, 1, Len(answer) - 1), AskAgain, <<>>,
                  <<ResponseEv("Error", 0)>>,
                  <<ResponseEv("PausedForUser", 0), ResponseEv("Ok", 0), ResponseEv("Ok", 0)>> }
    BY DEF FirmwareAnswers, LineCorrupted, NewlineLost, AnswerLost, FirmwarePauses
  <2> QED BY <2>1, <2>2, <2>4, <2>5
<1>6. QED BY <1>1, <1>3, <1>4, <1>5, TurnsType

\* What the firmware does of its own accord keeps the types.
LEMMA FirmwareUnaskedType ==
  ASSUME TypeOK,
         \/ FirmwareRestarts \/ FirmwareBoots
         \/ \E type \in {"Temperatures", "Busy", "Unknown", "Error"} : FirmwareReports(type)
  PROVE  TypeOK'
<1>1. fw \in Firmwares /\ budget \in Budgets
  BY DEF TypeOK, Firmwares, Budgets
<1>2. <<>> \in Seq(Response) /\ <<>> \in Seq(WireLine)
  OBVIOUS
<1>3. CASE FirmwareRestarts
  <2>1. fw' \in Firmwares
    BY <1>1, <1>3 DEF FirmwareRestarts, Firmwares
  <2>2. budget' \in Budgets
    BY <1>1, <1>3, SpendType DEF FirmwareRestarts, Budgets
  <2> QED BY <1>2, <1>3, <2>1, <2>2 DEF TypeOK, FirmwareRestarts, Firmwares, Budgets
<1>4. CASE FirmwareBoots
  <2>1. fw' \in Firmwares
    BY <1>1, <1>4 DEF FirmwareBoots, Firmwares
  <2>2. ResponseEv("Greeting", 0) \in Response
    BY EventTypes DEF Responses
  <2>3. <<ResponseEv("Greeting", 0)>> \in Seq(Response)
    BY <2>2
  <2>4. rx' \in Seq(Response) /\ tx' \in Seq(WireLine)
    BY <1>2, <1>4, <2>3 DEF FirmwareBoots, TypeOK
  <2> QED BY <1>4, <2>1, <2>4 DEF TypeOK, FirmwareBoots, Firmwares
<1>5. ASSUME NEW type \in {"Temperatures", "Busy", "Unknown", "Error"}, FirmwareReports(type)
      PROVE  TypeOK'
  <2>1. ResponseEv(type, 0) \in Response
    BY EventTypes DEF Responses
  <2>2. <<ResponseEv(type, 0)>> \in Seq(Response)
    BY <2>1
  <2>3. Spend("reports") \/ Spend("faults")
    BY <1>5 DEF FirmwareReports
  <2>4. budget' \in Budgets
    BY <1>1, <2>3, SpendType DEF Budgets
  <2>5. rx' \in Seq(Response)
    BY <1>5, <2>2 DEF FirmwareReports
  <2> QED BY <1>5, <2>4, <2>5 DEF TypeOK, FirmwareReports, Budgets
<1>6. QED BY <1>3, <1>4, <1>5

\* The model starts with typed variables.
LEMMA InitType ==
  ASSUME Init
  PROVE  TypeOK
<1>1. NoReady \in ReadyState
  <2>1. <<>> \in Seq(SpooledTask)
    OBVIOUS
  <2> QED BY <2>1, DefaultReadyType DEF NoReady, ReadyState
<1>2. PICK available \in {0, 1} : queue = <<[Ev("Init") EXCEPT !.n = available]>>
  BY DEF Init
<1>3. [Ev("Init") EXCEPT !.n = available] \in Event
  BY DEF Ev, Event, OtherEvents
<1>4. queue \in Seq(Event)
  BY <1>2, <1>3
<1>5. prog \in [Task -> [status : TaskStatus, n : Nat]]
  BY DEF Init, TaskStatus
<1>6. fw \in [ last : Nat, booting : BOOLEAN, glued : BOOLEAN, autoreports : BOOLEAN,
              ran : [Task -> Seq(Nat)] ]
  BY DEF Init
<1>7. /\ tx \in Seq(WireLine) /\ rx \in Seq(Response)
      /\ bauds \in 0 .. Bauds /\ st \in States
  BY DriverAssumption DEF Init, States
<1>8. budget \in [faults : Nat, requests : Nat, polls : Nat, reports : Nat]
  BY DriverAssumption DEF Init
<1>9. QED BY <1>1, <1>4, <1>5, <1>6, <1>7, <1>8 DEF Init, TypeOK

\* Every step of the model keeps the types.
LEMMA NextType ==
  ASSUME TypeOK, [Next]_vars
  PROVE  TypeOK'
<1>1. CASE Next
  BY <1>1, ConsumeType, PortType, ServerType, FirmwareTurnsType, FirmwareUnaskedType
     DEF Next, Firmware
<1>2. CASE UNCHANGED vars
  BY <1>2 DEF TypeOK, vars
<1>3. QED BY <1>1, <1>2

\* The variables keep their types: no event reaches a handler that the channel
\* cannot carry, the candidate baud rates never go below zero, and a task that
\* is loaded, resumed or paused leaves the spool well formed.
THEOREM TypeCorrect == Spec => []TypeOK
<1>1. Init => TypeOK
  BY InitType
<1>2. TypeOK /\ [Next]_vars => TypeOK'
  BY NextType
<1>3. QED BY <1>1, <1>2, PTL DEF Spec

-----------------------------------------------------------------------------
(***************************************************************************)
(* The delays and the state.                                               *)
(***************************************************************************)

\* A state that keeps its delays, or loses some, or drops them all.
LEMMA DelaysKept ==
  ASSUME DelaysMatchState, (st' = st /\ armed' \subseteq armed) \/ armed' = {}
  PROVE  DelaysMatchState'
BY DEF DelaysMatchState

\* The end of a handler arms no connection timeout.
LEMMA CompleteDelays ==
  ASSUME DelaysMatchState, NEW o \in OutcomeType, NEW delays,
         "connection_timeout" \notin delays, Complete(o, delays)
  PROVE  DelaysMatchState'
<1>1. CASE o.fail = "error"
  <2>1. armed' = {}
    BY <1>1 DEF Complete, Errored, Leave
  <2> QED BY <2>1, DelaysKept
<1>2. CASE o.fail = "panic"
  BY <1>2, DelaysKept DEF Complete
<1>3. CASE o.fail \notin {"error", "panic"}
  <2>1. o.arm \subseteq {"tickle_delay", "polling_delay"}
    BY DEF OutcomeType
  <2>2. st' = "Ready" /\ "connection_timeout" \notin armed'
    BY <1>3, <2>1 DEF Complete, Execute
  <2> QED BY <2>2 DEF DelaysMatchState
<1>4. QED BY <1>1, <1>2, <1>3

\* Whatever the reactor consumes leaves the delays to the state they belong to.
LEMMA ConsumeDelays ==
  ASSUME TypeOK, DelaysMatchState, Consume
  PROVE  DelaysMatchState'
<1>1. CASE Ignore \/ AppendToError
  BY <1>1, DelaysKept DEF Ignore, AppendToError
<1>2. CASE Fail \/ Disconnect \/ ConsumeEstop
  <2>1. armed' = {}
    BY <1>2 DEF Fail, Errored, Disconnect, ConsumeEstop, Leave
  <2> QED BY <2>1, DelaysKept
<1>3. CASE \E n \in 0 .. Bauds : NextBaud(n)
  <2>1. Disconnect \/ (st' = "Connecting" /\ armed' = {"connection_timeout"})
    BY <1>3 DEF NextBaud
  <2> QED BY <1>2, <2>1 DEF DelaysMatchState
<1>4. CASE st = "Connecting" /\ ResetLineNumber
  BY <1>4 DEF DelaysMatchState, ResetLineNumber
<1>5. ASSUME NEW o \in OutcomeType, st = "Ready", Complete(o, armed)
      PROVE  DelaysMatchState'
  <2>1. "connection_timeout" \notin armed
    BY <1>5 DEF DelaysMatchState
  <2> QED BY <1>5, <2>1, CompleteDelays
<1>6. CASE Handled \/ Connected
  <2>1. "connection_timeout" \notin {}
    OBVIOUS
  <2> QED BY <1>5, <1>6, <2>1, CompleteDelays DEF Handled, Connected
<1>7. CASE ConsumeAutoreportTemp
  BY <1>1, <1>5, <1>7, AutoreportReadyType DEF ConsumeAutoreportTemp
<1>8. CASE ConsumeSpoolTask
  <2> DEFINE o == Load(Head(queue).task, Head(queue).n)
  <2>1. CASE Errored(o.ready.tasks, o.prog)
    BY <2>1, DelaysKept DEF Errored, Leave
  <2>2. CASE st = "Ready" /\ o.fail # "error" /\ Execute(o, armed)
    <3>1. Head(queue).task \in Task /\ Head(queue).n \in Nat
      BY <1>8, QueueTypes DEF TypeOK, TaskMessages, Receives, ConsumeSpoolTask
    <3>2. o \in OutcomeType
      BY <3>1, LoadFollows
    <3> HIDE DEF o
    <3>3. o.arm \subseteq {"tickle_delay", "polling_delay"}
      BY <3>2 DEF OutcomeType
    <3>4. st' = "Ready" /\ "connection_timeout" \notin armed'
      BY <2>2, <3>3 DEF Execute, DelaysMatchState
    <3> QED BY <3>4 DEF DelaysMatchState
  <2>3. CASE UNCHANGED <<st, armed>>
    BY <2>3, DelaysKept
  <2> QED BY <1>1, <1>8, <2>1, <2>2, <2>3 DEF ConsumeSpoolTask
<1>9. CASE ConsumeGCodeLoaded
  <2>1. Head(queue).task \in Task /\ Head(queue).n \in Nat
    BY <1>9, QueueTypes DEF TypeOK, TaskMessages, Receives, ConsumeGCodeLoaded
  <2>2. Load(Head(queue).task, Head(queue).n) \in OutcomeType
    BY <2>1, LoadFollows
  <2> QED BY <1>1, <1>5, <1>9, <2>2 DEF ConsumeGCodeLoaded
<1>10. CASE \/ ConsumePauseTask \/ ConsumeDeleteTaskHistory \/ ConsumeReset
            \/ ConsumeResetWhenIdle
  <2>1. UNCHANGED <<st, armed>>
    BY <1>10 DEF ConsumePauseTask, ConsumeDeleteTaskHistory, ConsumeReset,
                 ConsumeResetWhenIdle, Ignore
  <2> QED BY <2>1, DelaysKept
<1>11. QED BY <1>1, <1>2, <1>3, <1>4, <1>6, <1>7, <1>8, <1>9, <1>10, ConsumeCases

\* A delay fires only in the state it belongs to: a timer that fires in one of
\* the other states was queued before the state was left.
THEOREM DelaysCorrect == Spec => []DelaysMatchState
<1>1. Init => DelaysMatchState
  BY DEF Init, DelaysMatchState
<1>2. TypeOK /\ DelaysMatchState /\ [Next]_vars => DelaysMatchState'
  <2> SUFFICES ASSUME TypeOK, DelaysMatchState, [Next]_vars
               PROVE  DelaysMatchState'
    OBVIOUS
  <2>1. CASE Consume
    BY <2>1, ConsumeDelays
  <2>2. CASE Next /\ ~Consume
    <3>1. st' = st /\ armed' \subseteq armed
      BY <2>2 DEF Next, Fire, Read, Unplug, ServerSpools, ServerPauses, ServerDeletesHistory,
                  ServerRequests, Firmware, FirmwareAnswers, LineCorrupted, NewlineLost,
                  AnswerLost, FirmwarePauses, Turns, FirmwareRestarts, FirmwareBoots,
                  FirmwareReports
    <3> QED BY <3>1, DelaysKept
  <2>3. CASE UNCHANGED vars
    BY <2>3, DelaysKept DEF vars
  <2> QED BY <2>1, <2>2, <2>3
<1>3. QED BY <1>1, <1>2, TypeCorrect, PTL DEF Spec

-----------------------------------------------------------------------------
(***************************************************************************)
(* The polls and the acknowledgements.                                     *)
(***************************************************************************)

\* The end of a handler that leaves a poll its turn, and of a ReadyState.
LEMMA CompletePolls ==
  ASSUME NEW o \in OutcomeType, NEW delays, Turn(ready), Turn(o.ready),
         Complete(o, delays)
  PROVE  Turn(ready')
<1>1. Turn(NoReady)
  BY DEF NoReady, DefaultReady, Turn
<1>2. QED BY <1>1 DEF Complete, Execute, Errored, Leave

\* Whatever the reactor consumes leaves a poll its turn.
LEMMA ConsumePolls ==
  ASSUME TypeOK, Turn(ready), Consume
  PROVE  Turn(ready')
<1>1. ready \in ReadyState /\ Here \in OutcomeType /\ Here.ready = ready
  BY SpoolTypes DEF TypeOK, Here, Outcome
<1>2. CASE \/ Ignore \/ AppendToError \/ ResetLineNumber
           \/ ConsumeDeleteTaskHistory \/ ConsumeReset \/ ConsumeResetWhenIdle
  BY <1>2 DEF Ignore, AppendToError, ResetLineNumber, ConsumeDeleteTaskHistory,
              ConsumeReset, ConsumeResetWhenIdle
<1>3. CASE Fail \/ Disconnect \/ ConsumeEstop
  <2>1. Turn(NoReady)
    BY DEF NoReady, DefaultReady, Turn
  <2>2. ready' = NoReady
    BY <1>3 DEF Fail, Errored, Disconnect, ConsumeEstop, Leave
  <2> QED BY <2>1, <2>2
<1>4. CASE \E n \in 0 .. Bauds : NextBaud(n)
  <2>1. Disconnect \/ ready' = ready
    BY <1>4 DEF NextBaud
  <2> QED BY <1>3, <2>1
<1>5. CASE Handled
  <2>1. PICK o \in OutcomeType : Follows(o, Here) /\ Complete(o, armed)
    BY <1>5 DEF Handled
  <2>2. Turn(o.ready)
    BY <1>1, <2>1 DEF Follows
  <2> QED BY <2>1, <2>2, CompletePolls
<1>6. CASE Connected
  <2>1. PICK o \in OutcomeType : Follows(o, Outcome(DefaultReady, prog)) /\ Complete(o, {})
    BY <1>6 DEF Connected
  <2>2. Turn(o.ready)
    BY <2>1 DEF Follows, Turn, Outcome, DefaultReady
  <2> QED BY <2>1, <2>2, CompletePolls
<1>7. CASE ConsumeAutoreportTemp
  <2> DEFINE ts == <<NewTask(AUTOREPORT_TEMP, 0, 0)>> \o ready.tasks
             r == [ready EXCEPT !.tasks = ts, !.autoreport = TRUE]
             o == With(Here, r)
  <2>1. o \in OutcomeType
    BY AutoreportReadyType
  <2>2. o.ready = r
    <3> HIDE DEF r
    <3> QED BY <1>1 DEF With, OutcomeType
  <2>3. Turn(r)
    <3> HIDE DEF ts
    <3> QED BY <1>1 DEF Turn, ReadyState
  <2>4. Ignore \/ AppendToError \/ Complete(o, armed)
    BY <1>7 DEF ConsumeAutoreportTemp
  <2> HIDE DEF o, r
  <2> QED BY <1>2, <2>1, <2>2, <2>3, <2>4, CompletePolls
<1>8. CASE ConsumeSpoolTask \/ ConsumeGCodeLoaded
  <2> DEFINE o == Load(Head(queue).task, Head(queue).n)
  <2>1. Head(queue).task \in Task /\ Head(queue).n \in Nat
    BY <1>8, QueueTypes DEF TypeOK, TaskMessages, Receives, ConsumeSpoolTask,
                            ConsumeGCodeLoaded
  <2>2. o \in OutcomeType /\ Turn(o.ready)
    BY <2>1, LoadFollows
  <2>3. \/ Complete(o, armed) \/ Errored(o.ready.tasks, o.prog) \/ Execute(o, armed)
        \/ ready' = ready
    BY <1>8 DEF ConsumeSpoolTask, ConsumeGCodeLoaded, Ignore
  <2> HIDE DEF o
  <2>4. Turn(NoReady)
    BY DEF NoReady, DefaultReady, Turn
  <2>5. CASE Errored(o.ready.tasks, o.prog) \/ Execute(o, armed)
    BY <2>2, <2>4, <2>5 DEF Errored, Leave, Execute
  <2> QED BY <2>2, <2>3, <2>5, CompletePolls
<1>9. CASE ConsumePauseTask
  <2>1. ready' = ready \/ \E ts : ready' = [ready EXCEPT !.tasks = ts]
    BY <1>9 DEF ConsumePauseTask, Ignore
  <2> QED BY <1>1, <2>1 DEF Turn, ReadyState
<1>10. QED BY <1>2, <1>3, <1>4, <1>5, <1>6, <1>7, <1>8, <1>9, ConsumeCases

\* A ReadyState that awaits no acknowledgement has no poll to send before the
\* next task (receive_ok, despool, poll_feedback and GCodeLoaded of ReadyState).
THEOREM PollsCorrect == Spec => []PollsAwaitTheirTurn
<1>1. Init => PollsAwaitTheirTurn
  BY DEF Init, PollsAwaitTheirTurn, NoReady, DefaultReady
<1>2. TypeOK /\ PollsAwaitTheirTurn /\ [Next]_vars => PollsAwaitTheirTurn'
  <2> SUFFICES ASSUME TypeOK, Turn(ready), [Next]_vars
               PROVE  Turn(ready')
    BY DEF PollsAwaitTheirTurn, Turn
  <2>1. CASE Consume
    BY <2>1, ConsumePolls
  <2>2. CASE Next /\ ~Consume
    <3>1. ready' = ready
      BY <2>2 DEF Next, Fire, Read, Unplug, ServerSpools, ServerPauses, ServerDeletesHistory,
                  ServerRequests, Firmware, FirmwareAnswers, LineCorrupted, NewlineLost,
                  AnswerLost, FirmwarePauses, Turns, FirmwareRestarts, FirmwareBoots,
                  FirmwareReports
    <3> QED BY <3>1
  <2>3. CASE UNCHANGED vars
    BY <2>3 DEF vars
  <2> QED BY <2>1, <2>2, <2>3
<1>3. QED BY <1>1, <1>2, TypeCorrect, PTL DEF Spec

-----------------------------------------------------------------------------
(***************************************************************************)
(* The life of a task.                                                     *)
(***************************************************************************)
\* An event that will add its task to the spool.
IsLoad(e) == e.type \in {"SpoolTask", "GCodeLoaded"}

Pending(q, t) == \E i \in DOMAIN q : IsLoad(q[i]) /\ q[i].task = t

Deleting(q, t) == \E i \in DOMAIN q : q[i].type = "DeleteTaskHistory" /\ q[i].task = t

OneLoad(q) ==
  \A i, j \in DOMAIN q :
    IsLoad(q[i]) /\ IsLoad(q[j]) /\ q[i].task = q[j].task => i = j

\* Of the spool ts, the feedback p, the channel q and the server s: a task is in
\* at most one place, the server sends a task it has not sent or knows paused
\* only once it is in none, and an entry that has settled belongs to a task that
\* is in none and will not come back.
Lifecycle(ts, p, q, s) ==
  /\ OneLoad(q)
  /\ Once(ts)
  /\ Matches(p, ts)
  /\ \A t \in Task :
       /\ Pending(q, t) => t \notin Ids(ts)
       /\ s[t] \in {"new", "paused"} => ~Pending(q, t) /\ t \notin Ids(ts)
       /\ p[t].status \in Settled =>
            ~Pending(q, t) /\ t \notin Ids(ts) /\ s[t] \notin {"new", "paused"}
       /\ Deleting(q, t) => "DeleteTaskHistory" \in Requests

\* The settled entries of p are the same in n.
Keeps(p, n) == \A t \in Task : p[t].status \in Settled => n[t] = p[t]

\* The inductive invariant.
LifecycleInv ==
  /\ Lifecycle(ready.tasks, prog, queue, srv)
  /\ st # "Ready" => ready.tasks = <<>>

-----------------------------------------------------------------------------
(***************************************************************************)
(* The channel.                                                            *)
(***************************************************************************)

\* The channel r loads and deletes nothing that q does not.
Within(r, q) ==
  /\ OneLoad(q) => OneLoad(r)
  /\ \A t \in Task : (Pending(r, t) => Pending(q, t)) /\ (Deleting(r, t) => Deleting(q, t))

\* The first event, and the channel without it.
LEMMA TailWithin ==
  ASSUME NEW q \in Seq(Event), q # <<>>
  PROVE  /\ Within(Tail(q), q)
         /\ IsLoad(Head(q)) => Pending(q, Head(q).task)
         /\ IsLoad(Head(q)) /\ OneLoad(q) => ~Pending(Tail(q), Head(q).task)
         /\ Head(q).type = "DeleteTaskHistory" => Deleting(q, Head(q).task)
<1> DEFINE r == Tail(q)
<1>1. /\ Len(q) \in Nat /\ DOMAIN q = 1 .. Len(q) /\ 1 \in DOMAIN q /\ Head(q) = q[1]
  BY LenProperties, EmptySeq
<1>2. /\ DOMAIN r = 1 .. Len(q) - 1
      /\ \A i \in 1 .. Len(q) - 1 : r[i] = q[i + 1]
  BY HeadTailProperties, LenProperties
<1>3. \A i \in DOMAIN r : i + 1 \in DOMAIN q /\ i + 1 # 1 /\ r[i] = q[i + 1]
  BY <1>1, <1>2
<1> HIDE DEF r
<1>4. OneLoad(q) => OneLoad(r)
  <2> SUFFICES ASSUME OneLoad(q), NEW i \in DOMAIN r, NEW j \in DOMAIN r,
                      IsLoad(r[i]), IsLoad(r[j]), r[i].task = r[j].task
               PROVE  i = j
    BY DEF OneLoad
  <2>1. i + 1 = j + 1
    BY <1>3 DEF OneLoad
  <2> QED BY <1>1, <1>2, <2>1
<1>5. \A t \in Task : (Pending(r, t) => Pending(q, t)) /\ (Deleting(r, t) => Deleting(q, t))
  BY <1>3 DEF Pending, Deleting
<1>6. IsLoad(Head(q)) /\ OneLoad(q) => ~Pending(r, Head(q).task)
  BY <1>1, <1>3 DEF Pending, OneLoad
<1>7. Within(r, q)
  BY <1>4, <1>5 DEF Within
<1>8. QED BY <1>1, <1>6, <1>7 DEF r, Pending, Deleting

\* The channel with another event at its end.
LEMMA AppendWithin ==
  ASSUME NEW q \in Seq(Event), NEW e \in Event
  PROVE  /\ \A t : Pending(Append(q, e), t) <=> Pending(q, t) \/ (IsLoad(e) /\ e.task = t)
         /\ \A t : Deleting(Append(q, e), t)
                     <=> Deleting(q, t) \/ (e.type = "DeleteTaskHistory" /\ e.task = t)
         /\ OneLoad(q) /\ (IsLoad(e) => ~Pending(q, e.task)) => OneLoad(Append(q, e))
<1> DEFINE r == Append(q, e)
           m == Len(q) + 1
<1>1. Len(q) \in Nat /\ DOMAIN q = 1 .. Len(q)
  BY LenProperties
<1>2. /\ r \in Seq(Event) /\ Len(r) = Len(q) + 1
      /\ \A i \in 1 .. Len(q) : r[i] = q[i]
      /\ r[m] = e
  BY AppendProperties
<1>3. DOMAIN r = DOMAIN q \cup {m} /\ \A i \in DOMAIN q : r[i] = q[i]
  BY <1>1, <1>2, LenProperties
<1> HIDE DEF r, m
<1>4. \A t : Pending(r, t) <=> Pending(q, t) \/ (IsLoad(e) /\ e.task = t)
  BY <1>2, <1>3 DEF Pending
<1>5. \A t : Deleting(r, t) <=> Deleting(q, t) \/ (e.type = "DeleteTaskHistory" /\ e.task = t)
  BY <1>2, <1>3 DEF Deleting
<1>6. OneLoad(q) /\ (IsLoad(e) => ~Pending(q, e.task)) => OneLoad(r)
  BY <1>2, <1>3 DEF OneLoad, Pending
<1>7. QED BY <1>4, <1>5, <1>6 DEF r

\* An event that neither loads nor deletes.
LEMMA AppendQuiet ==
  ASSUME NEW q \in Seq(Event), NEW e \in Event, ~IsLoad(e), e.type # "DeleteTaskHistory"
  PROVE  Within(Append(q, e), q)
BY AppendWithin DEF Within

\* A channel that loads and deletes less.
LEMMA WithinLife ==
  ASSUME NEW ts, NEW p, NEW q, NEW s, NEW r, Lifecycle(ts, p, q, s), Within(r, q)
  PROVE  Lifecycle(ts, p, r, s)
BY DEF Lifecycle, Within

-----------------------------------------------------------------------------
(***************************************************************************)
(* The spool and the feedback.                                             *)
(***************************************************************************)

\* The spool us is the spool ts with the task x somewhere in it.
Inserts(us, ts, x) ==
  /\ Len(us) = Len(ts) + 1
  /\ \E k \in 0 .. Len(ts) :
       /\ \A i \in 1 .. k : us[i] = ts[i]
       /\ us[k + 1] = x
       /\ \A i \in 1 .. Len(ts) - k : us[k + 1 + i] = ts[k + i]

\* What a spool with one task more holds.
LEMMA InsertsTasks ==
  ASSUME NEW ts \in Seq(SpooledTask), NEW us \in Seq(SpooledTask), NEW x \in SpooledTask,
         Inserts(us, ts, x)
  PROVE  /\ \E j \in DOMAIN us : us[j] = x
         /\ \A i \in DOMAIN ts : \E j \in DOMAIN us : us[j] = ts[i]
         /\ \A j \in DOMAIN us : us[j] = x \/ \E i \in DOMAIN ts : us[j] = ts[i]
         /\ Once(ts) /\ (x.id \in Task => x.id \notin Ids(ts)) => Once(us)
         /\ Once(us) => Once(ts) /\ (x.id \in Task => x.id \notin Ids(ts))
<1>1. /\ Len(ts) \in Nat /\ DOMAIN ts = 1 .. Len(ts)
      /\ DOMAIN us = 1 .. Len(ts) + 1
  BY LenProperties DEF Inserts
<1>2. PICK k \in 0 .. Len(ts) :
        /\ \A i \in 1 .. k : us[i] = ts[i]
        /\ us[k + 1] = x
        /\ \A i \in 1 .. Len(ts) - k : us[k + 1 + i] = ts[k + i]
  BY DEF Inserts
<1> DEFINE f(i) == IF i <= k THEN i ELSE i + 1
           g(j) == IF j <= k THEN j ELSE j - 1
<1>3. ASSUME NEW i \in DOMAIN ts
      PROVE  f(i) \in DOMAIN us /\ f(i) # k + 1 /\ g(f(i)) = i /\ us[f(i)] = ts[i]
  <2>1. CASE i <= k
    BY <1>1, <1>2, <2>1
  <2>2. CASE ~(i <= k)
    <3>1. i - k \in 1 .. Len(ts) - k /\ k + (i - k) = i /\ k + 1 + (i - k) = i + 1
      BY <1>1, <2>2
    <3>2. us[i + 1] = ts[i]
      BY <1>2, <3>1
    <3> QED BY <1>1, <2>2, <3>2
  <2> QED BY <2>1, <2>2
<1>4. ASSUME NEW j \in DOMAIN us, j # k + 1
      PROVE  g(j) \in DOMAIN ts /\ f(g(j)) = j
  BY <1>1, <1>4
<1>5. k + 1 \in DOMAIN us /\ us[k + 1] = x
  BY <1>1, <1>2
<1> HIDE DEF f, g
<1>6. \A j \in DOMAIN us : j # k + 1 => us[j] = ts[g(j)] /\ g(j) \in DOMAIN ts
  BY <1>3, <1>4
<1>7. Once(ts) /\ (x.id \in Task => x.id \notin Ids(ts)) => Once(us)
  <2> SUFFICES ASSUME Once(ts), x.id \in Task => x.id \notin Ids(ts),
                      NEW i \in DOMAIN us, NEW j \in DOMAIN us,
                      us[i].id \in Task, us[i].id = us[j].id
               PROVE  i = j
    BY DEF Once
  <2>1. CASE i = k + 1 \/ j = k + 1
    BY <1>5, <1>6, <2>1 DEF Ids
  <2>2. CASE i # k + 1 /\ j # k + 1
    <3>1. g(i) = g(j)
      BY <1>6, <2>2 DEF Once
    <3> QED BY <1>4, <2>2, <3>1
  <2> QED BY <2>1, <2>2
<1>8. Once(us) => Once(ts) /\ (x.id \in Task => x.id \notin Ids(ts))
  <2> SUFFICES ASSUME Once(us)
               PROVE  Once(ts) /\ (x.id \in Task => x.id \notin Ids(ts))
    OBVIOUS
  <2>1. ASSUME NEW i \in DOMAIN ts, NEW j \in DOMAIN ts, ts[i].id \in Task,
               ts[i].id = ts[j].id
        PROVE  i = j
    <3>1. f(i) = f(j)
      BY <1>3, <2>1 DEF Once
    <3> QED BY <1>3, <3>1
  <2>2. ASSUME NEW i \in DOMAIN ts, x.id \in Task
        PROVE  ts[i].id # x.id
    BY <1>3, <1>5, <2>2 DEF Once
  <2> QED BY <2>1, <2>2 DEF Once, Ids
<1>9. /\ \E j \in DOMAIN us : us[j] = x
      /\ \A i \in DOMAIN ts : \E j \in DOMAIN us : us[j] = ts[i]
      /\ \A j \in DOMAIN us : us[j] = x \/ \E i \in DOMAIN ts : us[j] = ts[i]
  BY <1>3, <1>5, <1>6
<1>10. QED BY <1>7, <1>8, <1>9

\* The spool takes in a task at one place.
LEMMA SpoolInsertsTask ==
  ASSUME NEW ts \in Seq(SpooledTask), NEW x \in SpooledTask
  PROVE  Inserts(Spool(ts, x), ts, x)
BY SpoolInserts DEF Inserts

\* The task that is unspooled was at one place of the spool.
LEMMA UnspoolInsertsTask ==
  ASSUME NEW ts \in Seq(SpooledTask), NEW t, t \in Ids(ts)
  PROVE  Inserts(ts, Unspool(ts, t), ts[Position(ts, t)])
<1> DEFINE rest == Unspool(ts, t)
           at == Position(ts, t)
<1>1. /\ Len(rest) = Len(ts) - 1
      /\ at \in 1 .. Len(ts)
      /\ \A i \in 1 .. at - 1 : rest[i] = ts[i]
      /\ \A i \in 1 .. Len(ts) - at : rest[at - 1 + i] = ts[at + i]
  BY UnspoolRemoves
<1>2. Len(ts) \in Nat
  BY LenProperties
<1> HIDE DEF rest, at
<1> DEFINE k == at - 1
<1>3. k \in 0 .. Len(rest) /\ k + 1 = at /\ Len(rest) - k = Len(ts) - at
  BY <1>1, <1>2
<1> HIDE DEF k
<1>4. Len(ts) = Len(rest) + 1
  BY <1>1, <1>2
<1>5. \A i \in 1 .. k : ts[i] = rest[i]
  BY <1>1, <1>3 DEF k
<1>6. \A i \in 1 .. Len(rest) - k : ts[k + 1 + i] = rest[k + i]
  BY <1>1, <1>3 DEF k
<1>7. QED BY <1>3, <1>4, <1>5, <1>6 DEF Inserts, rest, at

-----------------------------------------------------------------------------
(***************************************************************************)
(* The life of the tasks.                                                  *)
(***************************************************************************)

\* A handler that adds no task to the spool.
LEMMA FollowsLife ==
  ASSUME NEW o \in OutcomeType, NEW n \in OutcomeType, NEW q, NEW s,
         Lifecycle(o.ready.tasks, o.prog, q, s), Follows(n, o)
  PROVE  /\ Lifecycle(n.ready.tasks, n.prog, q, s)
         /\ Keeps(o.prog, n.prog)
<1> DEFINE ts == o.ready.tasks
           us == n.ready.tasks
<1>1. /\ Ids(us) \subseteq Ids(ts) /\ Once(us)
      /\ Matches(n.prog, us)
      /\ \A t \in Task : t \notin Ids(ts) => n.prog[t] = o.prog[t]
  BY OutcomeTasks, TailOfIds DEF Follows, Lifecycle
<1>2. \A t \in Task : t \in Ids(us) => n.prog[t].status \notin Settled
  BY <1>1 DEF Matches, Ids
<1>3. ASSUME NEW t \in Task
      PROVE  /\ Pending(q, t) => t \notin Ids(us)
             /\ s[t] \in {"new", "paused"} => ~Pending(q, t) /\ t \notin Ids(us)
             /\ n.prog[t].status \in Settled =>
                  ~Pending(q, t) /\ t \notin Ids(us) /\ s[t] \notin {"new", "paused"}
             /\ Deleting(q, t) => "DeleteTaskHistory" \in Requests
  <2> HIDE DEF ts, us
  <2>1. /\ Pending(q, t) => t \notin Ids(ts)
        /\ s[t] \in {"new", "paused"} => ~Pending(q, t) /\ t \notin Ids(ts)
        /\ o.prog[t].status \in Settled =>
             ~Pending(q, t) /\ t \notin Ids(ts) /\ s[t] \notin {"new", "paused"}
        /\ Deleting(q, t) => "DeleteTaskHistory" \in Requests
    BY DEF Lifecycle, ts
  <2> QED BY <1>1, <1>2, <2>1
<1>4. \A t \in Task : o.prog[t].status \in Settled => n.prog[t] = o.prog[t]
  BY <1>1 DEF Lifecycle
<1>5. QED BY <1>1, <1>3, <1>4 DEF Lifecycle, Keeps

\* The end of a ReadyState, whose tasks settle.
LEMMA LeaveLife ==
  ASSUME NEW ts \in Seq(SpooledTask), NEW p \in Progress, NEW q,
         NEW s \in [Task -> {"new", "spooled", "pausing", "paused", "over"}],
         NEW n \in [Task -> {"new", "spooled", "pausing", "paused", "over"}],
         NEW status \in Settled, Lifecycle(ts, p, q, s),
         \A t \in Task : n[t] \in {"new", "paused"} => s[t] = "new"
  PROVE  /\ Lifecycle(<<>>, Push(p, ts, status), q, n)
         /\ Keeps(p, Push(p, ts, status))
<1> DEFINE r == Push(p, ts, status)
<1>1. \A t \in Task : /\ t \in Ids(ts) => r[t].status = status
                      /\ t \notin Ids(ts) => r[t] = p[t]
  BY PushEntries DEF Ids
<1> HIDE DEF r
<1>2. Once(<<>>) /\ Ids(<<>>) = {}
  BY DEF Once, Ids
<1>3. Matches(r, <<>>)
  <2> SUFFICES ASSUME NEW t \in Task
               PROVE  r[t].status # "Started"
    BY DEF Matches
  <2>1. t \notin Ids(ts) => p[t].status # "Started"
    BY DEF Lifecycle, Matches, Ids
  <2>2. status # "Started"
    BY DEF Settled
  <2>3. CASE t \in Ids(ts)
    <3>1. r[t].status = status
      BY <1>1, <2>3
    <3> QED BY <2>2, <3>1
  <2>4. CASE t \notin Ids(ts)
    BY <1>1, <2>1, <2>4
  <2> QED BY <2>3, <2>4
<1>4. ASSUME NEW t \in Task
      PROVE  /\ Pending(q, t) => t \notin Ids(<<>>)
             /\ n[t] \in {"new", "paused"} => ~Pending(q, t) /\ t \notin Ids(<<>>)
             /\ r[t].status \in Settled =>
                  ~Pending(q, t) /\ t \notin Ids(<<>>) /\ n[t] \notin {"new", "paused"}
             /\ Deleting(q, t) => "DeleteTaskHistory" \in Requests
  <2>1. /\ Pending(q, t) => t \notin Ids(ts)
        /\ s[t] \in {"new", "paused"} => ~Pending(q, t) /\ t \notin Ids(ts)
        /\ p[t].status \in Settled =>
             ~Pending(q, t) /\ t \notin Ids(ts) /\ s[t] \notin {"new", "paused"}
        /\ Deleting(q, t) => "DeleteTaskHistory" \in Requests
    BY DEF Lifecycle
  <2>2. n[t] \in {"new", "paused"} => s[t] \in {"new", "paused"}
    OBVIOUS
  <2> QED BY <1>1, <1>2, <2>1, <2>2
<1>5. \A t \in Task : p[t].status \in Settled => r[t] = p[t]
  BY <1>1 DEF Lifecycle
<1>6. QED BY <1>2, <1>3, <1>4, <1>5 DEF Lifecycle, Keeps, r

\* The task of the first event joins the spool.
LEMMA LoadLife ==
  ASSUME NEW ts \in Seq(SpooledTask), NEW us \in Seq(SpooledTask), NEW x \in SpooledTask,
         NEW p, NEW q \in Seq(Event), NEW s, q # <<>>,
         Inserts(us, ts, x), Lifecycle(ts, p, q, s),
         IsLoad(Head(q)), Head(q).task = x.id, x.id \in Task, ~x.started
  PROVE  Lifecycle(us, p, Tail(q), s)
<1> DEFINE r == Tail(q)
<1>1. Within(r, q) /\ Pending(q, x.id) /\ ~Pending(r, x.id)
  BY TailWithin DEF Lifecycle
<1> HIDE DEF r
<1>2. Lifecycle(ts, p, r, s)
  BY <1>1, WithinLife
<1>3. x.id \notin Ids(ts)
  BY <1>1 DEF Lifecycle
<1>4. /\ Once(us)
      /\ \E j \in DOMAIN us : us[j] = x
      /\ \A i \in DOMAIN ts : \E j \in DOMAIN us : us[j] = ts[i]
      /\ \A j \in DOMAIN us : us[j] = x \/ \E i \in DOMAIN ts : us[j] = ts[i]
  BY <1>2, <1>3, InsertsTasks DEF Lifecycle
<1>5. Ids(us) = Ids(ts) \cup {x.id}
  <2>1. Ids(us) \subseteq Ids(ts) \cup {x.id}
    BY <1>4 DEF Ids
  <2>2. Ids(ts) \subseteq Ids(us) /\ x.id \in Ids(us)
    BY <1>4 DEF Ids
  <2> QED BY <2>1, <2>2
<1>6. p[x.id].status \notin Settled /\ s[x.id] \notin {"new", "paused"}
  BY <1>1 DEF Lifecycle, Within
<1>7. Matches(p, us)
  <2> SUFFICES ASSUME NEW t \in Task
               PROVE  /\ p[t].status = "Started" => \E i \in DOMAIN us : us[i].id = t /\ us[i].started
                      /\ (\E i \in DOMAIN us : us[i].id = t /\ us[i].started)
                           => p[t].status \in RunningStatus
                      /\ (\E i \in DOMAIN us : us[i].id = t) => p[t].status \notin Settled
    BY DEF Matches
  <2>1. (\E i \in DOMAIN us : us[i].id = t /\ us[i].started)
          <=> (\E i \in DOMAIN ts : ts[i].id = t /\ ts[i].started)
    BY <1>4
  <2>2. (\E i \in DOMAIN us : us[i].id = t) => t = x.id \/ \E i \in DOMAIN ts : ts[i].id = t
    BY <1>4
  <2> QED BY <1>2, <1>6, <2>1, <2>2 DEF Lifecycle, Matches
<1>8. ASSUME NEW t \in Task
      PROVE  /\ Pending(r, t) => t \notin Ids(us)
             /\ s[t] \in {"new", "paused"} => ~Pending(r, t) /\ t \notin Ids(us)
             /\ p[t].status \in Settled =>
                  ~Pending(r, t) /\ t \notin Ids(us) /\ s[t] \notin {"new", "paused"}
             /\ Deleting(r, t) => "DeleteTaskHistory" \in Requests
  BY <1>1, <1>2, <1>5, <1>6 DEF Lifecycle
<1>9. QED BY <1>2, <1>4, <1>7, <1>8 DEF Lifecycle, r

\* One of the driver's own tasks joins the spool.
LEMMA InternalLife ==
  ASSUME NEW ts \in Seq(SpooledTask), NEW us \in Seq(SpooledTask), NEW x \in SpooledTask,
         NEW p, NEW q, NEW s, Inserts(us, ts, x), Lifecycle(ts, p, q, s), x.id \notin Task
  PROVE  Lifecycle(us, p, q, s)
<1>1. /\ Once(us)
      /\ \A i \in DOMAIN ts : \E j \in DOMAIN us : us[j] = ts[i]
      /\ \A j \in DOMAIN us : us[j] = x \/ \E i \in DOMAIN ts : us[j] = ts[i]
  BY InsertsTasks DEF Lifecycle
<1>2. \A t \in Task : t \in Ids(us) <=> t \in Ids(ts)
  BY <1>1 DEF Ids
<1>3. Matches(p, us)
  <2> SUFFICES ASSUME NEW t \in Task
               PROVE  /\ p[t].status = "Started" => \E i \in DOMAIN us : us[i].id = t /\ us[i].started
                      /\ (\E i \in DOMAIN us : us[i].id = t /\ us[i].started)
                           => p[t].status \in RunningStatus
                      /\ (\E i \in DOMAIN us : us[i].id = t) => p[t].status \notin Settled
    BY DEF Matches
  <2>1. (\E i \in DOMAIN us : us[i].id = t /\ us[i].started)
          <=> (\E i \in DOMAIN ts : ts[i].id = t /\ ts[i].started)
    BY <1>1
  <2>2. (\E i \in DOMAIN us : us[i].id = t) => \E i \in DOMAIN ts : ts[i].id = t
    BY <1>1
  <2> QED BY <2>1, <2>2 DEF Lifecycle, Matches
<1>4. QED BY <1>1, <1>2, <1>3 DEF Lifecycle

\* A task is paused.
LEMMA PauseLife ==
  ASSUME NEW ts \in Seq(SpooledTask), NEW us \in Seq(SpooledTask), NEW x \in SpooledTask,
         NEW p \in Progress, NEW q, NEW s, NEW n,
         Inserts(ts, us, x), Lifecycle(ts, p, q, s), x.id \in Task,
         \A t \in Task : t # x.id => n[t] = s[t]
  PROVE  /\ Lifecycle(us, Push(p, <<x>>, "Paused"), q, n)
         /\ Keeps(p, Push(p, <<x>>, "Paused"))
<1> DEFINE r == Push(p, <<x>>, "Paused")
<1>1. /\ Once(us) /\ x.id \notin Ids(us)
      /\ \E j \in DOMAIN ts : ts[j] = x
      /\ \A i \in DOMAIN us : \E j \in DOMAIN ts : ts[j] = us[i]
      /\ \A j \in DOMAIN ts : ts[j] = x \/ \E i \in DOMAIN us : ts[j] = us[i]
  BY InsertsTasks DEF Lifecycle
<1>2. \A t \in Task : /\ t = x.id => r[t].status = "Paused"
                      /\ t # x.id => r[t] = p[t]
  <2>1. DOMAIN <<x>> = {1} /\ <<x>>[1] = x
    OBVIOUS
  <2> QED BY <2>1, PushEntries
<1> HIDE DEF r
<1>3. /\ x.id \in Ids(ts) /\ Ids(us) \subseteq Ids(ts)
      /\ r[x.id].status # "Started" /\ r[x.id].status \notin Settled
  <2>1. r[x.id].status = "Paused"
    BY <1>2
  <2>2. r[x.id].status # "Started" /\ r[x.id].status \notin Settled
    BY <2>1 DEF Settled
  <2>3. x.id \in Ids(ts) /\ Ids(us) \subseteq Ids(ts)
    BY <1>1 DEF Ids
  <2> QED BY <2>2, <2>3
<1>4. Matches(r, us)
  <2> SUFFICES ASSUME NEW t \in Task
               PROVE  /\ r[t].status = "Started" => \E i \in DOMAIN us : us[i].id = t /\ us[i].started
                      /\ (\E i \in DOMAIN us : us[i].id = t /\ us[i].started)
                           => r[t].status \in RunningStatus
                      /\ (\E i \in DOMAIN us : us[i].id = t) => r[t].status \notin Settled
    BY DEF Matches
  <2>1. CASE t = x.id
    <3>1. ~ \E i \in DOMAIN us : us[i].id = t
      BY <1>1, <2>1 DEF Ids
    <3> QED BY <1>3, <2>1, <3>1
  <2>2. CASE t # x.id
    <3>1. (\E i \in DOMAIN us : us[i].id = t /\ us[i].started)
            <=> (\E i \in DOMAIN ts : ts[i].id = t /\ ts[i].started)
      BY <1>1, <2>2
    <3>2. (\E i \in DOMAIN us : us[i].id = t) => \E i \in DOMAIN ts : ts[i].id = t
      BY <1>1
    <3> QED BY <1>2, <2>2, <3>1, <3>2 DEF Lifecycle, Matches
  <2> QED BY <2>1, <2>2
<1>5. ASSUME NEW t \in Task
      PROVE  /\ Pending(q, t) => t \notin Ids(us)
             /\ n[t] \in {"new", "paused"} => ~Pending(q, t) /\ t \notin Ids(us)
             /\ r[t].status \in Settled =>
                  ~Pending(q, t) /\ t \notin Ids(us) /\ n[t] \notin {"new", "paused"}
             /\ Deleting(q, t) => "DeleteTaskHistory" \in Requests
  <2>1. /\ Pending(q, t) => t \notin Ids(ts)
        /\ s[t] \in {"new", "paused"} => ~Pending(q, t) /\ t \notin Ids(ts)
        /\ p[t].status \in Settled =>
             ~Pending(q, t) /\ t \notin Ids(ts) /\ s[t] \notin {"new", "paused"}
        /\ Deleting(q, t) => "DeleteTaskHistory" \in Requests
    BY DEF Lifecycle
  <2>2. CASE t = x.id
    <3>1. t \in Ids(ts) /\ t \notin Ids(us) /\ r[t].status \notin Settled
      BY <1>1, <1>3, <2>2
    <3> QED BY <2>1, <3>1
  <2>3. CASE t # x.id
    BY <1>2, <1>3, <2>1, <2>3
  <2> QED BY <2>2, <2>3
<1>6. \A t \in Task : p[t].status \in Settled => r[t] = p[t]
  BY <1>2, <1>3 DEF Lifecycle
<1>7. QED BY <1>1, <1>4, <1>5, <1>6 DEF Lifecycle, Keeps, r

-----------------------------------------------------------------------------
(***************************************************************************)
(* The steps of the model.                                                 *)
(***************************************************************************)

\* A step that adds no load to the channel and leaves the tasks alone.
LEMMA QuietStep ==
  ASSUME LifecycleInv, UNCHANGED <<st, ready, prog, srv>>, Within(queue', queue)
  PROVE  LifecycleInv' /\ Keeps(prog, prog')
<1>1. Lifecycle(ready.tasks, prog, queue', srv)
  BY WithinLife DEF LifecycleInv
<1>2. QED BY <1>1 DEF LifecycleInv, Keeps

\* The channel after its first event has been consumed, and another one sent.
LEMMA ConsumedWithin ==
  ASSUME TypeOK, queue # <<>>
  PROVE  /\ Within(Tail(queue), queue)
         /\ \A e \in Event : ~IsLoad(e) /\ e.type # "DeleteTaskHistory" =>
              Within(Append(Tail(queue), e), queue)
<1>1. queue \in Seq(Event) /\ Tail(queue) \in Seq(Event)
  BY QueueTypes DEF TypeOK
<1>2. Within(Tail(queue), queue)
  BY <1>1, TailWithin
<1>3. ASSUME NEW e \in Event, ~IsLoad(e), e.type # "DeleteTaskHistory"
      PROVE  Within(Append(Tail(queue), e), queue)
  <2>1. Within(Append(Tail(queue), e), Tail(queue))
    BY <1>1, <1>3, AppendQuiet
  <2> QED BY <1>2, <2>1 DEF Within
<1>4. QED BY <1>2, <1>3

\* The end of a ReadyState.
LEMMA LeaveStep ==
  ASSUME TypeOK, NEW next \in States, next # "Ready", NEW ts \in Seq(SpooledTask),
         NEW p \in Progress, NEW status \in Settled, Leave(next, ts, p, status),
         Lifecycle(ts, p, queue', srv), Keeps(prog, p)
  PROVE  LifecycleInv' /\ Keeps(prog, prog')
<1>1. /\ st' = next /\ ready' = NoReady /\ prog' = Push(p, ts, status)
      /\ srv' = [ t \in Task |-> IF srv[t] \in {"pausing", "paused"} THEN "over" ELSE srv[t] ]
  BY DEF Leave
<1>2. srv \in [Task -> {"new", "spooled", "pausing", "paused", "over"}]
  BY DEF TypeOK
<1>3. srv' \in [Task -> {"new", "spooled", "pausing", "paused", "over"}]
  BY <1>1, <1>2
<1>4. \A t \in Task : srv'[t] \in {"new", "paused"} => srv[t] = "new"
  BY <1>1, <1>2
<1>5. Lifecycle(<<>>, Push(p, ts, status), queue', srv') /\ Keeps(p, Push(p, ts, status))
  BY <1>2, <1>3, <1>4, LeaveLife
<1>6. NoReady.tasks = <<>>
  BY DEF NoReady, DefaultReady
<1>7. QED BY <1>1, <1>5, <1>6 DEF LifecycleInv, Keeps

\* The error state, whatever the handler that failed had done before.
LEMMA ErroredStep ==
  ASSUME TypeOK, NEW ts \in Seq(SpooledTask), NEW p \in Progress, Errored(ts, p),
         Lifecycle(ts, p, Tail(queue), srv), Keeps(prog, p)
  PROVE  LifecycleInv' /\ Keeps(prog, prog')
<1>1. Leave("Errored", ts, p, "Errored") /\ queue' = Tail(queue)
  BY DEF Errored
<1>2. "Errored" \in Settled /\ "Errored" \in States /\ "Errored" # "Ready"
  BY DEF Settled, States
<1>3. QED BY <1>1, <1>2, LeaveStep

\* A driver in any state fails, or is disconnected.
LEMMA FailStep ==
  ASSUME TypeOK, LifecycleInv, queue # <<>>, Fail \/ Disconnect
  PROVE  LifecycleInv' /\ Keeps(prog, prog')
<1>1. Lifecycle(ready.tasks, prog, Tail(queue), srv)
  BY ConsumedWithin, WithinLife DEF LifecycleInv
<1>2. Keeps(prog, prog)
  BY DEF Keeps
<1>3. CASE Fail
  BY <1>1, <1>2, <1>3, SpoolTypes, ErroredStep DEF Fail
<1>4. CASE Disconnect
  <2>1. Leave("Disconnected", ready.tasks, prog, "Errored") /\ queue' = Tail(queue)
    BY <1>4 DEF Disconnect
  <2>2. "Errored" \in Settled /\ "Disconnected" \in States /\ "Disconnected" # "Ready"
    BY DEF Settled, States
  <2> QED BY <1>1, <1>2, <2>1, <2>2, SpoolTypes, LeaveStep
<1>5. QED BY <1>3, <1>4

\* The end of a handler that leaves the tasks in order.
LEMMA CompleteStep ==
  ASSUME TypeOK, LifecycleInv, queue # <<>>, NEW o \in OutcomeType, NEW delays,
         Complete(o, delays), Lifecycle(o.ready.tasks, o.prog, Tail(queue), srv),
         Keeps(prog, o.prog)
  PROVE  LifecycleInv' /\ Keeps(prog, prog')
<1>1. CASE o.fail = "error"
  BY <1>1, OutcomeTasks, ErroredStep DEF Complete
<1>2. CASE o.fail = "panic"
  <2>1. UNCHANGED <<st, ready, prog, srv>> /\ queue' = Tail(queue)
    BY <1>2 DEF Complete
  <2> QED BY <2>1, ConsumedWithin, QuietStep
<1>3. CASE o.fail \notin {"error", "panic"}
  <2>1. /\ st' = "Ready" /\ ready' = o.ready /\ prog' = o.prog
        /\ queue' = Tail(queue) /\ srv' = srv
    BY <1>3 DEF Complete, Execute
  <2> QED BY <2>1 DEF LifecycleInv
<1>4. QED BY <1>1, <1>2, <1>3

\* A spool with a task in front.
LEMMA FrontInserts ==
  ASSUME NEW ts \in Seq(SpooledTask), NEW x \in SpooledTask
  PROVE  Inserts(<<x>> \o ts, ts, x)
<1> DEFINE us == <<x>> \o ts
<1>1. Len(ts) \in Nat /\ 0 \in 0 .. Len(ts)
  BY LenProperties
<1>2. <<x>> \in Seq(SpooledTask) /\ Len(<<x>>) = 1 /\ <<x>>[1] = x
  OBVIOUS
<1>3. Len(us) = Len(ts) + 1 /\ us[1] = x /\ \A i \in 1 .. Len(ts) : us[i + 1] = ts[i]
  <2>1. /\ Len(us) = 1 + Len(ts)
        /\ \A i \in 1 .. 1 + Len(ts) : us[i] = IF i <= 1 THEN <<x>>[i] ELSE ts[i - 1]
    BY <1>2, ConcatProperties
  <2>2. \A i \in 1 .. Len(ts) : i + 1 \in 1 .. 1 + Len(ts) /\ ~(i + 1 <= 1) /\ (i + 1) - 1 = i
    BY <1>1
  <2> QED BY <1>1, <1>2, <2>1, <2>2
<1> HIDE DEF us
<1>4. /\ \A i \in 1 .. 0 : us[i] = ts[i]
      /\ us[0 + 1] = x
      /\ \A i \in 1 .. Len(ts) - 0 : us[0 + 1 + i] = ts[0 + i]
  BY <1>1, <1>3
<1>5. QED BY <1>1, <1>3, <1>4 DEF Inserts, us

\* The handlers of ReadyState, and the first acknowledgement.
LEMMA HandledStep ==
  ASSUME TypeOK, LifecycleInv, queue # <<>>, Handled \/ Connected
  PROVE  LifecycleInv' /\ Keeps(prog, prog')
<1>1. Lifecycle(ready.tasks, prog, Tail(queue), srv)
  BY ConsumedWithin, WithinLife DEF LifecycleInv
<1>2. CASE Handled
  <2>1. PICK o \in OutcomeType : Follows(o, Here) /\ Complete(o, armed)
    BY <1>2 DEF Handled
  <2>2. Here \in OutcomeType /\ Here.ready.tasks = ready.tasks /\ Here.prog = prog
    BY SpoolTypes DEF Here, Outcome
  <2>3. Lifecycle(o.ready.tasks, o.prog, Tail(queue), srv) /\ Keeps(prog, o.prog)
    BY <1>1, <2>1, <2>2, FollowsLife
  <2> QED BY <2>1, <2>3, CompleteStep
<1>3. CASE Connected
  <2> DEFINE x == NewTask(FIRMWARE_INFO, 0, 0)
             b == Outcome(DefaultReady, prog)
  <2>1. PICK o \in OutcomeType : Follows(o, b) /\ Complete(o, {})
    BY <1>3 DEF Connected
  <2>2. b \in OutcomeType /\ b.ready.tasks = <<x>> /\ b.prog = prog
    BY SpoolTypes, DefaultReadyType, OutcomeOfNothing DEF Outcome, DefaultReady
  <2>3. x \in SpooledTask /\ x.id \notin Task
    BY SpoolAssumption DEF NewTask, SpooledTask, AnyTask, Internal
  <2> HIDE DEF x, b
  <2>4. ready.tasks = <<>>
    BY <1>3 DEF Connected, LifecycleInv
  <2>5. <<>> \in Seq(SpooledTask) /\ <<x>> \in Seq(SpooledTask) /\ <<x>> \o <<>> = <<x>>
    BY <2>3
  <2>6. Inserts(<<x>>, <<>>, x)
    <3>1. Inserts(<<x>> \o <<>>, <<>>, x)
      BY <2>3, <2>5, FrontInserts
    <3> QED BY <2>5, <3>1
  <2>7. Lifecycle(<<x>>, prog, Tail(queue), srv)
    BY <1>1, <2>3, <2>4, <2>5, <2>6, InternalLife
  <2>8. Lifecycle(o.ready.tasks, o.prog, Tail(queue), srv) /\ Keeps(prog, o.prog)
    BY <2>1, <2>2, <2>7, FollowsLife
  <2> QED BY <2>1, <2>8, CompleteStep
<1>4. QED BY <1>2, <1>3

\* The driver asks for temperature reports.
LEMMA AutoreportStep ==
  ASSUME TypeOK, LifecycleInv, queue # <<>>, ConsumeAutoreportTemp
  PROVE  LifecycleInv' /\ Keeps(prog, prog')
<1> DEFINE x == NewTask(AUTOREPORT_TEMP, 0, 0)
           ts == <<x>> \o ready.tasks
           r == [ready EXCEPT !.tasks = ts, !.autoreport = TRUE]
           o == With(Here, r)
<1>1. o \in OutcomeType
  BY AutoreportReadyType
<1>2. o.ready.tasks = ts /\ o.prog = prog
  <2>1. ready \in ReadyState /\ Here \in OutcomeType /\ Here.prog = prog
    BY SpoolTypes DEF TypeOK, Here, Outcome
  <2> HIDE DEF ts
  <2>2. r.tasks = ts
    BY <2>1 DEF ReadyState
  <2>3. o.ready = r /\ o.prog = Here.prog
    <3> HIDE DEF r
    <3> QED BY <2>1 DEF With, OutcomeType
  <2> QED BY <2>1, <2>2, <2>3
<1>3. Ignore \/ AppendToError \/ Complete(o, armed)
  BY DEF ConsumeAutoreportTemp
<1> HIDE DEF o
<1>4. x \in SpooledTask /\ x.id \notin Task
  BY SpoolAssumption DEF NewTask, SpooledTask, AnyTask, Internal
<1> HIDE DEF x
<1>5. ts \in Seq(SpooledTask) /\ Inserts(ts, ready.tasks, x)
  <2>1. <<x>> \in Seq(SpooledTask)
    BY <1>4
  <2> QED BY <1>4, <2>1, SpoolTypes, ConcatProperties, FrontInserts
<1> HIDE DEF ts
<1>6. Lifecycle(ready.tasks, prog, Tail(queue), srv)
  BY ConsumedWithin, WithinLife DEF LifecycleInv
<1>7. Lifecycle(ts, prog, Tail(queue), srv)
  BY <1>4, <1>5, <1>6, SpoolTypes, InternalLife
<1>8. CASE Ignore \/ AppendToError
  <2>1. UNCHANGED <<st, ready, prog, srv>> /\ queue' = Tail(queue)
    BY <1>8 DEF Ignore, AppendToError
  <2> QED BY <2>1, ConsumedWithin, QuietStep
<1>9. CASE Complete(o, armed)
  BY <1>1, <1>2, <1>7, <1>9, CompleteStep DEF Keeps
<1>10. QED BY <1>3, <1>8, <1>9

\* The task of the first event is loaded.
LEMMA LoadedLife ==
  ASSUME TypeOK, LifecycleInv, queue # <<>>, IsLoad(Head(queue))
  PROVE  LET o == Load(Head(queue).task, Head(queue).n)
         IN  /\ o \in OutcomeType
             /\ Lifecycle(o.ready.tasks, o.prog, Tail(queue), srv)
             /\ Keeps(prog, o.prog)
<1> DEFINE t == Head(queue).task
           o == Load(t, Head(queue).n)
<1>1. queue \in Seq(Event) /\ t \in Task /\ Head(queue).n \in Nat
  BY QueueTypes DEF TypeOK, IsLoad, TaskMessages
<1>2. PICK x \in SpooledTask :
        /\ x.id = t /\ ~x.started
        /\ Spool(ready.tasks, x) \in Seq(SpooledTask)
        /\ SetTasks(Here, Spool(ready.tasks, x)) \in OutcomeType
        /\ o \in OutcomeType
        /\ Follows(o, SetTasks(Here, Spool(ready.tasks, x)))
  BY <1>1, LoadFollows
<1> DEFINE us == Spool(ready.tasks, x)
           b == SetTasks(Here, us)
<1>3. b.ready.tasks = us /\ b.prog = prog
  <2>1. Here \in OutcomeType /\ Here.prog = prog
    BY SpoolTypes DEF Here, Outcome
  <2> QED BY <1>2, <2>1, SetTasksType
<1>4. Lifecycle(us, prog, Tail(queue), srv)
  <2>1. Inserts(us, ready.tasks, x)
    BY SpoolTypes, SpoolInsertsTask
  <2>2. Lifecycle(ready.tasks, prog, queue, srv)
    BY DEF LifecycleInv
  <2>3. ready.tasks \in Seq(SpooledTask) /\ us \in Seq(SpooledTask)
    BY <1>2, SpoolTypes
  <2> HIDE DEF us
  <2> QED BY <1>1, <1>2, <2>1, <2>2, <2>3, LoadLife
<1> HIDE DEF o, us
<1>5. Lifecycle(o.ready.tasks, o.prog, Tail(queue), srv) /\ Keeps(prog, o.prog)
  <2>1. b \in OutcomeType /\ o \in OutcomeType /\ Follows(o, b)
    BY <1>2 DEF us
  <2> HIDE DEF b
  <2> QED BY <1>3, <1>4, <2>1, FollowsLife
<1>6. QED BY <1>2, <1>5 DEF o

\* A task is spooled, or the reading of its file begins.
LEMMA SpoolTaskStep ==
  ASSUME TypeOK, LifecycleInv, ConsumeSpoolTask
  PROVE  LifecycleInv' /\ Keeps(prog, prog')
<1> DEFINE t == Head(queue).task
           n == Head(queue).n
           o == Load(t, n)
<1>1. queue # <<>> /\ Head(queue).type = "SpoolTask"
  BY DEF Receives, ConsumeSpoolTask
<1>2. IsLoad(Head(queue)) /\ queue \in Seq(Event) /\ t \in Task /\ n \in Nat
  BY <1>1, QueueTypes DEF IsLoad, TypeOK, TaskMessages
<1>3. /\ o \in OutcomeType
      /\ Lifecycle(o.ready.tasks, o.prog, Tail(queue), srv)
      /\ Keeps(prog, o.prog)
  BY <1>1, <1>2, LoadedLife
<1>4. \/ Errored(o.ready.tasks, o.prog)
      \/ Execute(o, armed) /\ UNCHANGED srv
      \/ /\ st = "Ready"
         /\ \E type \in {"GCodeLoaded", "GCodeLoadFailed"} :
              queue' = Append(Tail(queue), TaskEv(type, t, n))
         /\ UNCHANGED <<st, ready, prog, srv>>
      \/ Ignore
  BY DEF ConsumeSpoolTask
<1> HIDE DEF o
<1>5. CASE Errored(o.ready.tasks, o.prog)
  BY <1>3, <1>5, OutcomeTasks, ErroredStep
<1>6. CASE Execute(o, armed) /\ UNCHANGED srv
  <2>1. /\ st' = "Ready" /\ ready' = o.ready /\ prog' = o.prog
        /\ queue' = Tail(queue) /\ srv' = srv
    BY <1>6 DEF Execute
  <2> QED BY <1>3, <2>1 DEF LifecycleInv
<1>7. CASE /\ \E type \in {"GCodeLoaded", "GCodeLoadFailed"} :
                queue' = Append(Tail(queue), TaskEv(type, t, n))
           /\ UNCHANGED <<st, ready, prog, srv>>
  <2>1. PICK type \in {"GCodeLoaded", "GCodeLoadFailed"} :
          queue' = Append(Tail(queue), TaskEv(type, t, n))
    BY <1>7
  <2> DEFINE e == TaskEv(type, t, n)
             r == Tail(queue)
  <2>2. /\ e \in Event /\ e.task = t /\ e.type # "DeleteTaskHistory"
        /\ r \in Seq(Event)
    BY <1>1, <1>2, EventTypes, QueueTypes DEF TaskEv, TaskMessages
  <2>3. /\ Within(r, queue) /\ Pending(queue, t)
        /\ OneLoad(r) /\ ~Pending(r, t)
    <3>1. OneLoad(queue)
      BY DEF LifecycleInv, Lifecycle
    <3>2. /\ Within(r, queue) /\ Pending(queue, t) /\ ~Pending(r, t)
      BY <1>1, <1>2, <3>1, TailWithin
    <3> QED BY <3>1, <3>2 DEF Within
  <2>4. queue' = Append(r, e)
    BY <2>1
  <2> HIDE DEF e, r
  <2>5. /\ \A u : Pending(queue', u) => Pending(r, u) \/ u = t
        /\ \A u : Deleting(queue', u) => Deleting(r, u)
        /\ OneLoad(queue')
    BY <2>2, <2>3, <2>4, AppendWithin
  <2>6. Within(queue', queue)
    BY <2>3, <2>5 DEF Within
  <2> QED BY <1>7, <2>6, QuietStep
<1>8. CASE Ignore
  <2>1. UNCHANGED <<st, ready, prog, srv>> /\ queue' = Tail(queue)
    BY <1>8 DEF Ignore
  <2> QED BY <1>1, <2>1, ConsumedWithin, QuietStep
<1>9. QED BY <1>4, <1>5, <1>6, <1>7, <1>8

\* A file has been read.
LEMMA GCodeLoadedStep ==
  ASSUME TypeOK, LifecycleInv, ConsumeGCodeLoaded
  PROVE  LifecycleInv' /\ Keeps(prog, prog')
<1> DEFINE o == Load(Head(queue).task, Head(queue).n)
<1>1. queue # <<>> /\ IsLoad(Head(queue))
  BY DEF Receives, ConsumeGCodeLoaded, IsLoad
<1>2. /\ o \in OutcomeType
      /\ Lifecycle(o.ready.tasks, o.prog, Tail(queue), srv)
      /\ Keeps(prog, o.prog)
  BY <1>1, LoadedLife
<1>3. Complete(o, armed) \/ Ignore
  BY DEF ConsumeGCodeLoaded
<1> HIDE DEF o
<1>4. CASE Complete(o, armed)
  BY <1>1, <1>2, <1>4, CompleteStep
<1>5. CASE Ignore
  <2>1. UNCHANGED <<st, ready, prog, srv>> /\ queue' = Tail(queue)
    BY <1>5 DEF Ignore
  <2> QED BY <1>1, <2>1, ConsumedWithin, QuietStep
<1>6. QED BY <1>3, <1>4, <1>5

\* A task is paused.
LEMMA PauseTaskStep ==
  ASSUME TypeOK, LifecycleInv, ConsumePauseTask
  PROVE  LifecycleInv' /\ Keeps(prog, prog')
<1> DEFINE t == Head(queue).task
           rest == Unspool(ready.tasks, t)
           gone == ready.tasks[Position(ready.tasks, t)]
<1>1. queue # <<>> /\ Head(queue).type = "PauseTask"
  BY DEF Receives, ConsumePauseTask
<1>2. t \in Task
  BY <1>1, QueueTypes DEF TypeOK, TaskMessages
<1>3. CASE Ignore
  <2>1. UNCHANGED <<st, ready, prog, srv>> /\ queue' = Tail(queue)
    BY <1>3 DEF Ignore
  <2> QED BY <1>1, <2>1, ConsumedWithin, QuietStep
<1>4. CASE /\ st = "Ready" /\ t \in Ids(ready.tasks)
           /\ ready' = [ready EXCEPT !.tasks = rest]
           /\ prog' = Push(prog, <<gone>>, "Paused")
           /\ srv' = [srv EXCEPT ![t] = IF @ = "pausing" THEN "paused" ELSE @]
           /\ queue' = Tail(queue)
           /\ st' = st
  <2>1. /\ rest \in Seq(SpooledTask)
        /\ Position(ready.tasks, t) \in 1 .. Len(ready.tasks)
        /\ gone.id = t
        /\ Inserts(ready.tasks, rest, gone)
    BY <1>4, SpoolTypes, UnspoolRemoves, UnspoolInsertsTask
  <2>2. gone \in SpooledTask
    BY <2>1, SpoolTypes, LenProperties
  <2>3. Lifecycle(ready.tasks, prog, Tail(queue), srv)
    BY <1>1, ConsumedWithin, WithinLife DEF LifecycleInv
  <2>4. \A u \in Task : u # t => srv'[u] = srv[u]
    BY <1>4 DEF TypeOK
  <2>5. ready'.tasks = rest
    <3>1. ready \in ReadyState
      BY DEF TypeOK
    <3> HIDE DEF rest
    <3> QED BY <1>4, <3>1 DEF ReadyState
  <2> HIDE DEF rest, gone, t
  <2>6. /\ Lifecycle(rest, Push(prog, <<gone>>, "Paused"), Tail(queue), srv')
        /\ Keeps(prog, Push(prog, <<gone>>, "Paused"))
    BY <1>2, <2>1, <2>2, <2>3, <2>4, SpoolTypes, PauseLife
  <2> QED BY <1>4, <2>5, <2>6 DEF LifecycleInv
<1>5. QED BY <1>3, <1>4 DEF ConsumePauseTask

\* What SettledIsFinal says of a step.
SettledStays ==
  \A t \in Task :
    prog[t].status \in Settled => prog'[t] = prog[t] \/ prog'[t].status = "None"

\* The history of a task is deleted.
LEMMA DeleteTaskHistoryStep ==
  ASSUME TypeOK, LifecycleInv, ConsumeDeleteTaskHistory
  PROVE  LifecycleInv' /\ SettledStays
<1> DEFINE t == Head(queue).task
<1>1. /\ queue # <<>> /\ Head(queue).type = "DeleteTaskHistory"
      /\ prog' = [prog EXCEPT ![t].status = "None"] /\ queue' = Tail(queue)
      /\ UNCHANGED <<st, ready, srv>>
  BY DEF Receives, ConsumeDeleteTaskHistory
<1>2. t \in Task /\ queue \in Seq(Event) /\ prog \in Progress
  BY <1>1, QueueTypes, SpoolTypes DEF TypeOK, TaskMessages
<1>3. /\ prog'[t].status = "None"
      /\ \A u \in Task : u # t => prog'[u] = prog[u]
  BY <1>1, <1>2 DEF Progress
<1>4. Deleting(queue, t) /\ Within(queue', queue)
  BY <1>1, <1>2, TailWithin
<1> HIDE DEF t
<1>5. Lifecycle(ready.tasks, prog, queue', srv)
  BY <1>4, WithinLife DEF LifecycleInv
<1>6. "None" \in RunningStatus
  BY <1>2, <1>4 DEF LifecycleInv, Lifecycle, RunningStatus
<1>7. prog'[t].status \notin Settled /\ prog'[t].status # "Started"
  BY <1>3 DEF Settled
<1>8. Matches(prog', ready.tasks)
  BY <1>3, <1>5, <1>6, <1>7 DEF Lifecycle, Matches
<1>9. ASSUME NEW u \in Task
      PROVE  prog'[u].status \in Settled => prog[u].status \in Settled
  BY <1>3, <1>7
<1>10. Lifecycle(ready.tasks, prog', queue', srv)
  BY <1>5, <1>8, <1>9 DEF Lifecycle
<1>11. LifecycleInv'
  BY <1>1, <1>10 DEF LifecycleInv
<1>12. QED BY <1>3, <1>11 DEF SettledStays

\* What an opening port sends to the channel is no task.
LEMMA OpenPortWithin ==
  ASSUME TypeOK, queue # <<>>, OpenPort
  PROVE  Within(queue', queue)
<1>1. \A type \in {"SerialPortOpened", "SerialPortDisconnected"} :
        Ev(type) \in Event /\ ~IsLoad(Ev(type)) /\ Ev(type).type # "DeleteTaskHistory"
  BY EventTypes DEF Ev, IsLoad, OtherEvents, PortEvents
<1>2. \E type \in {"SerialPortOpened", "SerialPortDisconnected"} :
        queue' = Append(Tail(queue), Ev(type))
  BY DEF OpenPort
<1>3. QED BY <1>1, <1>2, ConsumedWithin

\* An emergency stop.
LEMMA EstopStep ==
  ASSUME TypeOK, LifecycleInv, ConsumeEstop
  PROVE  LifecycleInv' /\ Keeps(prog, prog')
<1>1. /\ queue # <<>>
      /\ Leave("EStopped", ready.tasks, prog, "Cancelled")
      /\ OpenPort
  BY DEF Receives, ConsumeEstop
<1>2. Lifecycle(ready.tasks, prog, queue', srv)
  BY <1>1, OpenPortWithin, WithinLife DEF LifecycleInv
<1>3. "Cancelled" \in Settled /\ "EStopped" \in States /\ "EStopped" # "Ready"
  BY DEF Settled, States
<1>4. QED BY <1>1, <1>2, <1>3, SpoolTypes, LeaveStep DEF Keeps

\* Connecting, for as long as there are candidates.
LEMMA NextBaudStep ==
  ASSUME TypeOK, LifecycleInv, queue # <<>>, st # "Ready", NEW n, NextBaud(n)
  PROVE  LifecycleInv' /\ Keeps(prog, prog')
<1>1. CASE n = 0
  BY <1>1, FailStep DEF NextBaud
<1>2. CASE n # 0
  <2>1. OpenPort /\ UNCHANGED <<ready, prog, srv>>
    BY <1>2 DEF NextBaud
  <2>2. Lifecycle(ready.tasks, prog, queue', srv)
    BY <2>1, OpenPortWithin, WithinLife DEF LifecycleInv
  <2>3. ready.tasks = <<>>
    BY DEF LifecycleInv
  <2> QED BY <2>1, <2>2, <2>3 DEF LifecycleInv, Keeps
<1>3. QED BY <1>1, <1>2

\* Every event the reactor consumes.
LEMMA ConsumeStep ==
  ASSUME TypeOK, LifecycleInv, Consume
  PROVE  LifecycleInv' /\ SettledStays
<1>1. queue # <<>>
  BY ConsumeCases
<1>2. ASSUME LifecycleInv' /\ Keeps(prog, prog')
      PROVE  LifecycleInv' /\ SettledStays
  BY <1>2 DEF Keeps, SettledStays
<1>3. CASE \/ Ignore \/ AppendToError \/ ResetLineNumber
           \/ ConsumeReset \/ ConsumeResetWhenIdle
  <2>1. UNCHANGED <<st, ready, prog, srv>> /\ queue' = Tail(queue)
    BY <1>3 DEF Ignore, AppendToError, ResetLineNumber, ConsumeReset, ConsumeResetWhenIdle
  <2> QED BY <1>1, <1>2, <2>1, ConsumedWithin, QuietStep
<1>4. QED BY <1>1, <1>2, <1>3, ConsumeCases, FailStep, NextBaudStep, HandledStep,
             AutoreportStep, SpoolTaskStep, GCodeLoadedStep, PauseTaskStep,
             DeleteTaskHistoryStep, EstopStep

\* The environment: only the server adds loads and deletions to the channel.
LEMMA EnvironmentStep ==
  ASSUME TypeOK, LifecycleInv, Next, ~Consume
  PROVE  LifecycleInv' /\ Keeps(prog, prog')
<1>1. UNCHANGED <<st, ready, prog>> /\ queue \in Seq(Event)
  BY DEF Next, Fire, Read, Unplug, ServerSpools, ServerPauses, ServerDeletesHistory,
         ServerRequests, Firmware, FirmwareAnswers, LineCorrupted, NewlineLost,
         AnswerLost, FirmwarePauses, Turns, FirmwareRestarts, FirmwareBoots,
         FirmwareReports, TypeOK
<1>2. ASSUME srv' = srv, Within(queue', queue)
      PROVE  LifecycleInv' /\ Keeps(prog, prog')
  BY <1>1, <1>2, QuietStep
<1>3. ASSUME NEW e \in Event, Send(e), ~IsLoad(e), e.type # "DeleteTaskHistory"
      PROVE  Within(queue', queue)
  BY <1>1, <1>3, AppendQuiet DEF Send
<1>4. CASE Firmware
  <2>1. srv' = srv /\ queue' = queue
    BY <1>4 DEF Firmware, FirmwareAnswers, LineCorrupted, NewlineLost, AnswerLost,
               FirmwarePauses, Turns, FirmwareRestarts, FirmwareBoots, FirmwareReports
  <2> QED BY <1>2, <2>1 DEF Within
<1>5. CASE Unplug \/ \E type \in Messages : ServerRequests(type)
  <2>1. /\ srv' = srv
        /\ \E type \in {"SerialPortDisconnected", "SerialPortError"} \cup Messages :
             Send(Ev(type))
    BY <1>5 DEF Unplug, ServerRequests
  <2>2. \A type \in {"SerialPortDisconnected", "SerialPortError"} \cup Messages :
          Ev(type) \in Event /\ ~IsLoad(Ev(type)) /\ Ev(type).type # "DeleteTaskHistory"
    BY EventTypes DEF Ev, IsLoad, OtherEvents, PortEvents, Messages
  <2> QED BY <1>2, <1>3, <2>1, <2>2
<1>6. CASE \E key \in Delays : Fire(key)
  <2>1. PICK key \in Delays : srv' = srv /\ Send(Ev(DelayEvent[key]))
    BY <1>6 DEF Fire
  <2>2. /\ DelayEvent[key] \in OtherEvents
        /\ DelayEvent[key] \notin {"SpoolTask", "GCodeLoaded", "DeleteTaskHistory"}
    BY DEF Delays, DelayEvent, OtherEvents
  <2>3. /\ Ev(DelayEvent[key]) \in Event /\ ~IsLoad(Ev(DelayEvent[key]))
        /\ Ev(DelayEvent[key]).type # "DeleteTaskHistory"
    BY <2>2, EventTypes DEF Ev, IsLoad
  <2> QED BY <1>2, <1>3, <2>1, <2>3
<1>7. CASE Read
  <2>1. /\ rx \in Seq(Response) /\ rx # <<>> /\ Send(Head(rx)) /\ srv' = srv
    BY <1>7 DEF TypeOK, Read
  <2>2. Head(rx) \in Response
    BY <2>1, HeadTailProperties
  <2>3. Head(rx) \in Event /\ ~IsLoad(Head(rx)) /\ Head(rx).type # "DeleteTaskHistory"
    BY <2>2, EventTypes DEF Response, Responses, IsLoad
  <2> QED BY <1>2, <1>3, <2>1, <2>3
<1>8. CASE \E t \in Task : ServerPauses(t)
  <2>1. PICK t \in Task : ServerPauses(t)
    BY <1>8
  <2>2. /\ TaskEv("PauseTask", t, 0) \in Event /\ ~IsLoad(TaskEv("PauseTask", t, 0))
        /\ TaskEv("PauseTask", t, 0).type # "DeleteTaskHistory"
    BY EventTypes DEF TaskMessages, TaskEv, IsLoad
  <2>3. Within(queue', queue)
    BY <1>3, <2>1, <2>2 DEF ServerPauses
  <2>4. Lifecycle(ready.tasks, prog, queue', srv)
    BY <2>3, WithinLife DEF LifecycleInv
  <2>5. \A u \in Task : srv'[u] \in {"new", "paused"} => srv[u] \in {"new", "paused"}
    BY <2>1 DEF ServerPauses, TypeOK
  <2>6. Lifecycle(ready.tasks, prog, queue', srv')
    BY <2>4, <2>5 DEF Lifecycle
  <2> QED BY <1>1, <2>6 DEF LifecycleInv, Keeps
<1>9. CASE \E t \in Task : ServerDeletesHistory(t)
  <2>1. PICK t \in Task : ServerDeletesHistory(t)
    BY <1>9
  <2> DEFINE e == TaskEv("DeleteTaskHistory", t, 0)
  <2>2. e \in Event /\ ~IsLoad(e) /\ e.task = t
    BY EventTypes DEF TaskMessages, TaskEv, IsLoad
  <2>3. queue' = Append(queue, e) /\ srv' = srv /\ "DeleteTaskHistory" \in Requests
    BY <2>1 DEF ServerDeletesHistory, Send
  <2> HIDE DEF e
  <2>4. /\ \A u : Pending(queue', u) => Pending(queue, u)
        /\ \A u : Deleting(queue', u) => Deleting(queue, u) \/ u = t
        /\ OneLoad(queue) => OneLoad(queue')
    BY <1>1, <2>2, <2>3, AppendWithin
  <2>5. Lifecycle(ready.tasks, prog, queue', srv)
    BY <2>3, <2>4 DEF LifecycleInv, Lifecycle
  <2> QED BY <1>1, <2>3, <2>5 DEF LifecycleInv, Keeps
<1>10. CASE \E t \in Task : ServerSpools(t)
  <2>1. PICK t \in Task : ServerSpools(t)
    BY <1>10
  <2>2. PICK n \in Nat : Send(TaskEv("SpoolTask", t, n))
    BY <2>1 DEF ServerSpools, TypeOK
  <2> DEFINE e == TaskEv("SpoolTask", t, n)
  <2>3. e \in Event /\ e.task = t /\ e.type = "SpoolTask"
    BY EventTypes DEF TaskMessages, TaskEv
  <2>4. queue' = Append(queue, e)
    BY <2>2 DEF Send
  <2> HIDE DEF e
  <2>5. srv[t] \in {"new", "paused"} /\ srv' = [srv EXCEPT ![t] = "spooled"]
    BY <2>1 DEF ServerSpools
  <2>6. /\ ~Pending(queue, t) /\ t \notin Ids(ready.tasks)
        /\ prog[t].status \notin Settled
    BY <2>5 DEF LifecycleInv, Lifecycle
  <2>7. srv'[t] = "spooled" /\ \A u \in Task : u # t => srv'[u] = srv[u]
    BY <2>5 DEF TypeOK
  <2>8. /\ \A u : Pending(queue', u) => Pending(queue, u) \/ u = t
        /\ \A u : Deleting(queue', u) => Deleting(queue, u)
        /\ OneLoad(queue) => OneLoad(queue')
    BY <1>1, <2>3, <2>4, <2>6, AppendWithin
  <2>9. Lifecycle(ready.tasks, prog, queue', srv')
    BY <2>6, <2>7, <2>8 DEF LifecycleInv, Lifecycle
  <2> QED BY <1>1, <2>9 DEF LifecycleInv, Keeps
<1>11. QED BY <1>4, <1>5, <1>6, <1>7, <1>8, <1>9, <1>10 DEF Next

-----------------------------------------------------------------------------
(***************************************************************************)
(* The theorems.                                                           *)
(***************************************************************************)

\* At the start nothing is spooled, loaded, deleted or reported.
LEMMA InitLife ==
  ASSUME Init
  PROVE  LifecycleInv
<1>1. PICK available \in {0, 1} : queue = <<[Ev("Init") EXCEPT !.n = available]>>
  BY DEF Init
<1>2. /\ DOMAIN queue = {1} /\ queue[1].type = "Init"
  BY <1>1 DEF Ev
<1>3. OneLoad(queue) /\ \A t \in Task : ~Pending(queue, t) /\ ~Deleting(queue, t)
  BY <1>2 DEF OneLoad, Pending, Deleting, IsLoad
<1>4. ready.tasks = <<>>
  BY DefaultReadyType DEF Init, NoReady, ReadyState
<1>5. \A t \in Task : prog[t].status = "None"
  BY DEF Init
<1>6. Once(<<>>) /\ Ids(<<>>) = {} /\ Matches(prog, <<>>)
  BY <1>5 DEF Once, Ids, Matches
<1>7. Lifecycle(<<>>, prog, queue, srv)
  BY <1>3, <1>5, <1>6 DEF Lifecycle, Settled
<1>8. QED BY <1>4, <1>7 DEF LifecycleInv

\* Every step keeps the invariant, and the entries that have settled.
LEMMA NextLife ==
  ASSUME TypeOK, LifecycleInv, [Next]_vars
  PROVE  LifecycleInv' /\ SettledStays
<1>1. CASE Consume
  BY <1>1, ConsumeStep
<1>2. CASE Next /\ ~Consume
  BY <1>2, EnvironmentStep DEF Keeps, SettledStays
<1>3. CASE UNCHANGED vars
  BY <1>3 DEF vars, LifecycleInv, SettledStays
<1>4. QED BY <1>1, <1>2, <1>3

\* Each task is in at most one place (the spool, or one event that will load
\* it), the feedback matches the spool, and what has settled or was never sent
\* is in neither: the inductive invariant of the theorems below.
THEOREM LifecycleCorrect == Spec => []LifecycleInv
<1>1. Init => LifecycleInv
  BY InitLife
<1>2. TypeOK /\ LifecycleInv /\ [Next]_vars => LifecycleInv'
  BY NextLife
<1>3. QED BY <1>1, <1>2, TypeCorrect, PTL DEF Spec

\* The feedback reports a task as started exactly while a started task of its
\* id is in the spool (push_task_progress and the handlers that call it).
THEOREM ProgressCorrect == Spec => []ProgressMatchesSpool
<1>1. LifecycleInv => ProgressMatchesSpool
  BY DEF LifecycleInv, Lifecycle, Matches, ProgressMatchesSpool
<1>2. QED BY <1>1, LifecycleCorrect, PTL

\* Once the driver has confirmed a pause nothing of the task is left that could
\* send another line (the PauseTask handler of ReadyState::consume).
THEOREM PauseCorrect == Spec => []ConfirmedPauseHolds
<1>1. LifecycleInv => ConfirmedPauseHolds
  BY DEF LifecycleInv, Lifecycle, ConfirmedPauseHolds, Pending, IsLoad
<1>2. QED BY <1>1, LifecycleCorrect, PTL

\* An entry of the feedback that has settled changes no more until the server
\* deletes it (push_task_progress, errored, disconnect and estop).
THEOREM SettledCorrect == Spec => SettledIsFinal
<1>1. TypeOK /\ LifecycleInv /\ [Next]_vars
        => [\A t \in Task : prog[t].status \in Settled
              => prog'[t] = prog[t] \/ prog'[t].status = "None"]_vars
  BY NextLife DEF SettledStays
<1>2. QED BY <1>1, TypeCorrect, LifecycleCorrect, PTL DEF Spec, SettledIsFinal

-----------------------------------------------------------------------------
(***************************************************************************)
(* No task is lost.                                                        *)
(***************************************************************************)

\* The outcome of the reading of a task's file.
IsRead(e) == e.type \in {"GCodeLoaded", "GCodeLoadFailed"}

Reading(q, t) == \E i \in DOMAIN q : IsRead(q[i]) /\ q[i].task = t

\* Of the spool ts, the feedback p and the channel q: where the task t may be.
Accounted(ts, p, q, t) ==
  t \in Ids(ts) \/ Reading(q, t) \/ p[t].status \in {"Finished", "Paused"}

\* The inductive invariant.
TakenInv ==
  /\ st # "Ready" => taken = {}
  /\ \A t \in taken : Accounted(ready.tasks, prog, queue, t)

\* The channel gains an event, or loses one that is not the outcome of a reading.
LEMMA ReadingStays ==
  ASSUME NEW q \in Seq(Event), NEW t, Reading(q, t)
  PROVE  /\ \A e \in Event : Reading(Append(q, e), t)
         /\ q # <<>>
         /\ ~(IsRead(Head(q)) /\ Head(q).task = t) => Reading(Tail(q), t)
<1>1. PICK i \in DOMAIN q : IsRead(q[i]) /\ q[i].task = t
  BY DEF Reading
<1>2. Len(q) \in Nat /\ DOMAIN q = 1 .. Len(q)
  BY LenProperties
<1>3. ASSUME NEW e \in Event
      PROVE  Reading(Append(q, e), t)
  <2>1. DOMAIN Append(q, e) = 1 .. Len(q) + 1 /\ Append(q, e)[i] = q[i]
    BY <1>2, AppendProperties, LenProperties
  <2> QED BY <1>1, <1>2, <2>1 DEF Reading
<1>4. q # <<>>
  BY <1>1, <1>2, EmptySeq
<1>5. ASSUME ~(IsRead(Head(q)) /\ Head(q).task = t)
      PROVE  Reading(Tail(q), t)
  <2>1. /\ Head(q) = q[1]
        /\ DOMAIN Tail(q) = 1 .. Len(q) - 1
        /\ \A j \in 1 .. Len(q) - 1 : Tail(q)[j] = q[j + 1]
    BY <1>4, HeadTailProperties, LenProperties
  <2>2. i # 1
    BY <1>1, <1>5, <2>1
  <2>3. i - 1 \in DOMAIN Tail(q) /\ Tail(q)[i - 1] = q[i]
    <3>1. i - 1 \in 1 .. Len(q) - 1 /\ (i - 1) + 1 = i
      BY <1>2, <2>2
    <3> QED BY <2>1, <3>1
  <2> QED BY <1>1, <2>3 DEF Reading
<1>6. QED BY <1>3, <1>4, <1>5

\* The reactor has consumed an event that is not the outcome of a reading.
LEMMA ConsumedAccounted ==
  ASSUME queue \in Seq(Event), queue # <<>>, NEW t, NEW ts, NEW p,
         Accounted(ts, p, queue, t), ~(IsRead(Head(queue)) /\ Head(queue).task = t)
  PROVE  /\ Accounted(ts, p, Tail(queue), t)
         /\ \A e \in Event : Accounted(ts, p, Append(Tail(queue), e), t)
<1>1. Tail(queue) \in Seq(Event)
  BY QueueTypes
<1>2. QED BY <1>1, ReadingStays DEF Accounted

\* A handler drops a task only when it has finished it.
LEMMA FollowsAccounted ==
  ASSUME NEW o, NEW b, Follows(o, b), NEW ts, NEW q, NEW r, NEW t \in Task,
         Ids(ts) \subseteq Ids(b.ready.tasks), Accounted(ts, b.prog, q, t),
         Reading(q, t) => Reading(r, t) \/ t \in Ids(b.ready.tasks)
  PROVE  Accounted(o.ready.tasks, o.prog, r, t)
BY DEF Follows, Accounted

\* A step that leaves the tasks alone, or drops them all.
LEMMA QuietTaken ==
  ASSUME TypeOK, TakenInv, st' \in {st, "Ready"}, taken' = taken,
         \A t \in taken : Accounted(ready'.tasks, prog', queue', t)
  PROVE  TakenInv'
BY DEF TakenInv

LEMMA LeaveTaken ==
  ASSUME taken' = {}
  PROVE  TakenInv'
BY DEF TakenInv

\* The end of a handler.
LEMMA CompleteTaken ==
  ASSUME TypeOK, TakenInv, NEW o, NEW delays, Complete(o, delays),
         o.fail = "panic" => \A t \in taken : Accounted(ready.tasks, prog, Tail(queue), t),
         \A t \in taken : Accounted(o.ready.tasks, o.prog, Tail(queue), t)
  PROVE  TakenInv'
<1>1. CASE o.fail = "error"
  BY <1>1, LeaveTaken DEF Complete, Errored, Leave
<1>2. CASE o.fail = "panic"
  BY <1>2, QuietTaken DEF Complete
<1>3. CASE o.fail \notin {"error", "panic"}
  BY <1>3, QuietTaken DEF Complete, Execute
<1>4. QED BY <1>1, <1>2, <1>3

\* The outcome of a reading has its own handlers.
LEMMA ReadCases ==
  ASSUME Consume, IsRead(Head(queue))
  PROVE  ConsumeGCodeLoaded \/ ConsumeGCodeLoadFailed
BY DEF Receives, IsRead, Consume,
   ConsumeInit, ConsumeSerialPortOpened, ConsumeSerialPortDisconnected,
   ConsumeSerialPortError, ConsumeConnectionTimeout, ConsumeDeviceDiscovered,
   ConsumeDeviceDisconnected, ConsumeOk, ConsumeFeedback, ConsumeError, ConsumeGreeting,
   ConsumeResend, ConsumeAutoreportTemp, ConsumeUnknown, ConsumeSpoolTask,
   ConsumePauseTask, ConsumeDeleteTaskHistory, ConsumeEstop, ConsumeReset,
   ConsumeResetWhenIdle, ConsumeProtobufClientConnection, ConsumePollFeedback,
   ConsumeTickleSerialPort

\* A task that is loaded joins the spool, and the others keep their places.
LEMMA LoadAccounted ==
  ASSUME TypeOK, queue # <<>>, NEW t \in Task, NEW n \in Nat,
         ~IsRead(Head(queue)) \/ Head(queue).task = t
  PROVE  /\ Load(t, n).fail # "panic"
         /\ \A u \in Task :
              u = t \/ Accounted(ready.tasks, prog, queue, u)
                => Accounted(Load(t, n).ready.tasks, Load(t, n).prog, Tail(queue), u)
<1> DEFINE o == Load(t, n)
<1>1. PICK x \in SpooledTask :
        /\ x.id = t
        /\ Spool(ready.tasks, x) \in Seq(SpooledTask)
        /\ Follows(o, SetTasks(Here, Spool(ready.tasks, x)))
        /\ o.fail # "panic"
  BY LoadFollows
<1> DEFINE b == SetTasks(Here, Spool(ready.tasks, x))
<1>2. b.ready.tasks = Spool(ready.tasks, x) /\ b.prog = prog
  <2>1. Here \in OutcomeType /\ Here.prog = prog
    BY SpoolTypes DEF Here, Outcome
  <2> QED BY <1>1, <2>1, SetTasksType
<1>3. t \in Ids(b.ready.tasks) /\ Ids(ready.tasks) \subseteq Ids(b.ready.tasks)
  <2>1. Inserts(Spool(ready.tasks, x), ready.tasks, x)
    BY SpoolTypes, SpoolInsertsTask
  <2>2. /\ \E j \in DOMAIN Spool(ready.tasks, x) : Spool(ready.tasks, x)[j] = x
        /\ \A i \in DOMAIN ready.tasks :
             \E j \in DOMAIN Spool(ready.tasks, x) : Spool(ready.tasks, x)[j] = ready.tasks[i]
    BY <1>1, <2>1, SpoolTypes, InsertsTasks
  <2> QED BY <1>1, <1>2, <2>2 DEF Ids
<1>4. Follows(o, b)
  BY <1>1
<1> HIDE DEF o, b
<1>5. ASSUME NEW u \in Task, u = t \/ Accounted(ready.tasks, prog, queue, u)
      PROVE  Accounted(o.ready.tasks, o.prog, Tail(queue), u)
  <2>1. CASE u = t
    BY <1>3, <1>4, <2>1 DEF Follows, Accounted
  <2>2. CASE u # t
    <3>1. queue \in Seq(Event)
      BY DEF TypeOK
    <3>2. Accounted(ready.tasks, b.prog, Tail(queue), u)
      BY <1>2, <1>5, <2>2, <3>1, ConsumedAccounted
    <3> QED BY <1>3, <1>4, <3>2, FollowsAccounted
  <2> QED BY <2>1, <2>2
<1>6. QED BY <1>1, <1>5 DEF o

\* A task is paused, and the others keep their places.
LEMMA PauseTaken ==
  ASSUME TypeOK, TakenInv, ConsumePauseTask
  PROVE  TakenInv'
<1> DEFINE t == Head(queue).task
           rest == Unspool(ready.tasks, t)
           gone == ready.tasks[Position(ready.tasks, t)]
<1>1. /\ queue # <<>> /\ queue \in Seq(Event) /\ t \in Task /\ ~IsRead(Head(queue))
      /\ taken \subseteq Task
  BY QueueTypes DEF Receives, ConsumePauseTask, TypeOK, TaskMessages, IsRead
<1>2. \A u \in taken : Accounted(ready.tasks, prog, Tail(queue), u)
  BY <1>1, ConsumedAccounted DEF TakenInv
<1>3. CASE Ignore
  BY <1>2, <1>3, QuietTaken DEF Ignore
<1>4. CASE /\ t \in Ids(ready.tasks)
           /\ ready' = [ready EXCEPT !.tasks = rest]
           /\ prog' = Push(prog, <<gone>>, "Paused")
           /\ queue' = Tail(queue)
           /\ UNCHANGED <<st, taken>>
  <2>1. Inserts(ready.tasks, rest, gone) /\ rest \in Seq(SpooledTask) /\ gone.id = t
    BY <1>4, SpoolTypes, UnspoolRemoves, UnspoolInsertsTask
  <2>2. gone \in SpooledTask
    BY <1>4, SpoolTypes, UnspoolRemoves, LenProperties
  <2>3. ready'.tasks = rest
    <3>1. ready \in ReadyState
      BY DEF TypeOK
    <3> HIDE DEF rest
    <3> QED BY <1>4, <3>1 DEF ReadyState
  <2> HIDE DEF rest, gone
  <2>4. Ids(ready.tasks) \subseteq Ids(rest) \cup {t}
    <3>1. \A j \in DOMAIN ready.tasks :
            ready.tasks[j] = gone \/ \E i \in DOMAIN rest : ready.tasks[j] = rest[i]
      BY <2>1, <2>2, SpoolTypes, InsertsTasks
    <3> QED BY <2>1, <3>1 DEF Ids
  <2>5. \A u \in Task : /\ u = t => prog'[u].status = "Paused"
                        /\ u # t => prog'[u] = prog[u]
    <3>1. DOMAIN <<gone>> = {1} /\ <<gone>>[1] = gone
      OBVIOUS
    <3> QED BY <1>4, <2>1, <3>1, SpoolTypes, PushEntries
  <2> HIDE DEF t
  <2>6. \A u \in taken : Accounted(ready'.tasks, prog', queue', u)
    BY <1>1, <1>2, <1>4, <2>3, <2>4, <2>5 DEF Accounted
  <2> QED BY <1>4, <2>6, QuietTaken
<1>5. QED BY <1>3, <1>4 DEF ConsumePauseTask

\* A task is spooled, or the reading of its file begins.
LEMMA SpoolTaken ==
  ASSUME TypeOK, TakenInv, ConsumeSpoolTask
  PROVE  TakenInv'
<1> DEFINE t == Head(queue).task
           n == Head(queue).n
           o == Load(t, n)
<1>1. /\ queue # <<>> /\ queue \in Seq(Event) /\ t \in Task /\ n \in Nat
      /\ ~IsRead(Head(queue)) /\ taken \subseteq Task
  BY QueueTypes DEF Receives, ConsumeSpoolTask, TypeOK, TaskMessages, IsRead
<1>2. \A u \in taken \cup {t} : Accounted(o.ready.tasks, o.prog, Tail(queue), u)
  BY <1>1, LoadAccounted DEF TakenInv
<1>3. \/ Errored(o.ready.tasks, o.prog)
      \/ Execute(o, armed) /\ taken' = taken \cup {t}
      \/ /\ st = "Ready" /\ taken' = taken \cup {t}
         /\ \E type \in {"GCodeLoaded", "GCodeLoadFailed"} :
              queue' = Append(Tail(queue), TaskEv(type, t, n))
         /\ UNCHANGED <<st, ready, prog>>
      \/ Ignore
  BY DEF ConsumeSpoolTask
<1> HIDE DEF o
<1>4. CASE Errored(o.ready.tasks, o.prog)
  BY <1>4, LeaveTaken DEF Errored, Leave
<1>5. CASE Execute(o, armed) /\ taken' = taken \cup {t}
  BY <1>2, <1>5 DEF Execute, TakenInv
<1>6. CASE /\ st = "Ready" /\ taken' = taken \cup {t}
           /\ \E type \in {"GCodeLoaded", "GCodeLoadFailed"} :
                queue' = Append(Tail(queue), TaskEv(type, t, n))
           /\ UNCHANGED <<st, ready, prog>>
  <2>1. PICK type \in {"GCodeLoaded", "GCodeLoadFailed"} :
          queue' = Append(Tail(queue), TaskEv(type, t, n))
    BY <1>6
  <2> DEFINE e == TaskEv(type, t, n)
             r == Tail(queue)
  <2>2. e \in Event /\ IsRead(e) /\ e.task = t /\ r \in Seq(Event) /\ queue' = Append(r, e)
    BY <1>1, <2>1, EventTypes, QueueTypes DEF TaskEv, TaskMessages, IsRead
  <2>3. \A u \in taken : Accounted(ready.tasks, prog, queue', u)
    BY <1>1, <2>2, ConsumedAccounted DEF TakenInv
  <2> HIDE DEF e, r
  <2>4. Reading(queue', t)
    <3>1. Len(r) + 1 \in DOMAIN queue' /\ queue'[Len(r) + 1] = e
      BY <2>2, AppendProperties, LenProperties
    <3> QED BY <2>2, <3>1 DEF Reading
  <2> QED BY <1>6, <2>3, <2>4 DEF TakenInv, Accounted
<1>7. CASE Ignore
  <2>1. \A u \in taken : Accounted(ready.tasks, prog, Tail(queue), u)
    BY <1>1, ConsumedAccounted DEF TakenInv
  <2> QED BY <1>7, <2>1, QuietTaken DEF Ignore
<1>8. QED BY <1>3, <1>4, <1>5, <1>6, <1>7

\* The outcome of a reading is consumed.
LEMMA ReadTaken ==
  ASSUME TypeOK, TakenInv, ConsumeGCodeLoaded \/ ConsumeGCodeLoadFailed
  PROVE  TakenInv'
<1> DEFINE o == Load(Head(queue).task, Head(queue).n)
<1>1. CASE ConsumeGCodeLoadFailed
  BY <1>1, LeaveTaken DEF ConsumeGCodeLoadFailed, Fail, Errored, Leave
<1>2. CASE st # "Ready" /\ Ignore
  BY <1>2 DEF TakenInv, Ignore
<1>3. CASE ConsumeGCodeLoaded /\ Complete(o, armed)
  <2>1. /\ queue # <<>> /\ Head(queue).task \in Task /\ Head(queue).n \in Nat
        /\ taken \subseteq Task
    BY <1>3, QueueTypes DEF Receives, ConsumeGCodeLoaded, TypeOK, TaskMessages
  <2>2. o.fail # "panic" /\ \A t \in taken : Accounted(o.ready.tasks, o.prog, Tail(queue), t)
    BY <2>1, LoadAccounted DEF TakenInv
  <2> HIDE DEF o
  <2> QED BY <1>3, <2>2, CompleteTaken
<1>4. QED BY <1>1, <1>2, <1>3 DEF ConsumeGCodeLoaded

\* Every event the reactor consumes.
LEMMA ConsumeTaken ==
  ASSUME TypeOK, TakenInv, Consume
  PROVE  TakenInv'
<1>1. /\ queue # <<>> /\ queue \in Seq(Event) /\ taken \subseteq Task
  BY ConsumeCases DEF TypeOK
<1>2. CASE IsRead(Head(queue))
  BY <1>2, ReadCases, ReadTaken
<1>3. CASE ~IsRead(Head(queue))
  <2>1. /\ \A t \in taken : Accounted(ready.tasks, prog, Tail(queue), t)
        /\ \A t \in taken, e \in Event : Accounted(ready.tasks, prog, Append(Tail(queue), e), t)
    BY <1>1, <1>3, ConsumedAccounted DEF TakenInv
  <2>2. CASE \/ Ignore \/ AppendToError \/ ResetLineNumber
             \/ ConsumeReset \/ ConsumeResetWhenIdle
    <3>1. UNCHANGED <<st, ready, prog, taken>> /\ queue' = Tail(queue)
      BY <2>2 DEF Ignore, AppendToError, ResetLineNumber, ConsumeReset, ConsumeResetWhenIdle
    <3> QED BY <2>1, <3>1, QuietTaken
  <2>3. CASE Fail \/ Disconnect \/ ConsumeEstop
    BY <2>3, LeaveTaken DEF Fail, Errored, Disconnect, ConsumeEstop, Leave
  <2>4. CASE st # "Ready" /\ \E n \in 0 .. Bauds : NextBaud(n)
    <3>1. Disconnect \/ taken' = {}
      BY <2>4 DEF NextBaud, TakenInv
    <3> QED BY <2>3, <3>1, LeaveTaken
  <2>5. CASE Handled
    <3>1. PICK o \in OutcomeType : Follows(o, Here) /\ Complete(o, armed)
      BY <2>5 DEF Handled
    <3>2. Here.ready.tasks = ready.tasks /\ Here.prog = prog
      BY DEF Here, Outcome
    <3>3. \A t \in taken : Accounted(o.ready.tasks, o.prog, Tail(queue), t)
      BY <1>1, <2>1, <3>1, <3>2, FollowsAccounted
    <3> QED BY <2>1, <3>1, <3>3, CompleteTaken
  <2>6. CASE Connected
    <3>1. PICK o \in OutcomeType : Complete(o, {})
      BY <2>6 DEF Connected
    <3>2. taken = {}
      BY <2>6 DEF Connected, TakenInv
    <3> QED BY <3>1, <3>2, CompleteTaken
  <2>7. CASE ConsumeAutoreportTemp
    <3> DEFINE x == NewTask(AUTOREPORT_TEMP, 0, 0)
               ts == <<x>> \o ready.tasks
               r == [ready EXCEPT !.tasks = ts, !.autoreport = TRUE]
               o == With(Here, r)
    <3>1. Ignore \/ AppendToError \/ Complete(o, armed)
      BY <2>7 DEF ConsumeAutoreportTemp
    <3>2. o.ready = r /\ o.prog = prog /\ o.fail = "none"
      <4>1. Here \in OutcomeType /\ Here.prog = prog /\ Here.fail = "none"
        BY SpoolTypes DEF Here, Outcome
      <4> HIDE DEF r
      <4> QED BY <4>1 DEF With, OutcomeType
    <3>3. r.tasks = ts
      <4>1. ready \in ReadyState
        BY DEF TypeOK
      <4> HIDE DEF ts
      <4> QED BY <4>1 DEF ReadyState
    <3>4. Ids(ready.tasks) \subseteq Ids(ts)
      <4>1. x \in SpooledTask /\ <<x>> \in Seq(SpooledTask)
        BY DEF NewTask, SpooledTask, AnyTask, Internal
      <4> HIDE DEF x
      <4>2. ts \in Seq(SpooledTask) /\ Inserts(ts, ready.tasks, x)
        BY <4>1, SpoolTypes, ConcatProperties, FrontInserts
      <4> HIDE DEF ts
      <4>3. \A i \in DOMAIN ready.tasks : \E j \in DOMAIN ts : ts[j] = ready.tasks[i]
        BY <4>1, <4>2, SpoolTypes, InsertsTasks
      <4> QED BY <4>3 DEF Ids
    <3> HIDE DEF o, r, ts
    <3>5. \A t \in taken : Accounted(o.ready.tasks, o.prog, Tail(queue), t)
      BY <2>1, <3>2, <3>3, <3>4 DEF Accounted
    <3> QED BY <2>2, <3>1, <3>2, <3>5, CompleteTaken
  <2>8. CASE ConsumeDeleteTaskHistory
    <3>1. /\ taken' = taken \ {Head(queue).task} /\ UNCHANGED <<st, ready>>
          /\ prog' = [prog EXCEPT ![Head(queue).task].status = "None"]
          /\ queue' = Tail(queue)
      BY <2>8 DEF ConsumeDeleteTaskHistory
    <3>2. \A t \in taken' : t \in taken /\ prog'[t] = prog[t]
      BY <1>1, <3>1 DEF TypeOK
    <3> QED BY <2>1, <3>1, <3>2 DEF TakenInv, Accounted
  <2>9. CASE ConsumeGCodeLoaded
    BY <2>9, ReadTaken
  <2> QED BY <2>2, <2>3, <2>4, <2>5, <2>6, <2>7, <2>8, <2>9, ConsumeCases, PauseTaken,
             SpoolTaken
<1>4. QED BY <1>2, <1>3

\* The environment only adds to the channel.
LEMMA EnvironmentTaken ==
  ASSUME TypeOK, TakenInv, Next, ~Consume
  PROVE  TakenInv'
<1>1. /\ UNCHANGED <<st, ready, prog, taken>> /\ queue \in Seq(Event)
      /\ queue' = queue \/ \E e : queue' = Append(queue, e)
  BY DEF Next, Fire, Read, Unplug, ServerSpools, ServerPauses, ServerDeletesHistory,
         ServerRequests, Firmware, FirmwareAnswers, LineCorrupted, NewlineLost,
         AnswerLost, FirmwarePauses, Turns, FirmwareRestarts, FirmwareBoots,
         FirmwareReports, TypeOK, Send
<1>2. \A t \in taken : Reading(queue, t) => Reading(queue', t)
  <2>1. CASE queue' = queue
    BY <2>1
  <2>2. ASSUME NEW e, queue' = Append(queue, e), NEW t \in taken, Reading(queue, t)
        PROVE  Reading(queue', t)
    <3>1. PICK i \in DOMAIN queue : IsRead(queue[i]) /\ queue[i].task = t
      BY <2>2 DEF Reading
    <3>2. Len(queue) \in Nat /\ DOMAIN queue = 1 .. Len(queue)
      BY <1>1, LenProperties
    <3>3. DOMAIN queue' = 1 .. Len(queue) + 1 /\ queue'[i] = queue[i]
      <4>1. \A j \in 1 .. Len(queue) : queue[j] \in Event \cup {e}
        BY <1>1, ElementOfSeq
      <4>2. queue \in Seq(Event \cup {e})
        BY <1>1, <3>2, <4>1
      <4> QED BY <2>2, <3>2, <4>2, AppendProperties, LenProperties
    <3> QED BY <3>1, <3>2, <3>3 DEF Reading
  <2> QED BY <1>1, <2>1, <2>2
<1>3. QED BY <1>1, <1>2 DEF TakenInv, Accounted

\* A task the driver has accepted is in the spool, about to be loaded into it,
\* or reported as finished or paused (the SpoolTask, GCodeLoaded, PauseTask and
\* Ok handlers of ReadyState::consume, in any interleaving).
THEOREM AccountedCorrect == Spec => []TasksAccountedFor
<1>1. Init => TakenInv
  BY DEF Init, TakenInv
<1>2. TypeOK /\ TakenInv /\ [Next]_vars => TakenInv'
  <2> SUFFICES ASSUME TypeOK, TakenInv, [Next]_vars
               PROVE  TakenInv'
    OBVIOUS
  <2>1. CASE UNCHANGED vars
    BY <2>1 DEF vars, TakenInv
  <2> QED BY <2>1, ConsumeTaken, EnvironmentTaken
<1>3. TakenInv => TasksAccountedFor
  BY DEF TakenInv, TasksAccountedFor, Accounted, Reading, IsRead
<1>4. QED BY <1>1, <1>2, <1>3, TypeCorrect, PTL DEF Spec

-----------------------------------------------------------------------------
(***************************************************************************)
(* The end of the process.                                                 *)
(***************************************************************************)

\* The step ends the process.
Ends == proc = "Running" /\ proc' = "Exited"

\* A handler whose effects end the process leaves nothing spooled.
LEMMA CompleteEnds ==
  ASSUME NEW o \in OutcomeType, NEW delays, o.exit => o.ready.tasks = <<>>,
         Ends, Complete(o, delays) \/ Execute(o, delays)
  PROVE  ready'.tasks = <<>>
<1>1. Execute(o, delays)
  BY DEF Ends, Complete, Errored
<1>2. o.exit /\ ready' = o.ready
  BY <1>1 DEF Execute, Ends
<1>3. QED BY <1>2

\* Every event the reactor consumes but Reset.
LEMMA ConsumeEnds ==
  ASSUME TypeOK, LifecycleInv, Consume, Ends, Head(queue).type # "Reset"
  PROVE  ready'.tasks = <<>>
<1>1. ~ \/ Ignore \/ AppendToError \/ Fail \/ Disconnect
        \/ \E n \in 0 .. Bauds : NextBaud(n)
        \/ ResetLineNumber \/ ConsumeDeleteTaskHistory \/ ConsumeEstop
        \/ ConsumeReset
  BY DEF Ends, Ignore, AppendToError, Fail, Errored, Disconnect, NextBaud, OpenPort,
         ResetLineNumber, ConsumeDeleteTaskHistory, ConsumeEstop, ConsumeReset, Receives
<1>2. CASE Handled \/ Connected
  <2>1. PICK o \in OutcomeType, b \in {Here, Outcome(DefaultReady, prog)}, delays \in {armed, {}} :
          Follows(o, b) /\ Complete(o, delays)
    BY <1>2 DEF Handled, Connected
  <2>2. ~b.exit
    BY DEF Here, Outcome
  <2> QED BY <2>1, <2>2, CompleteEnds DEF Follows
<1>3. CASE ConsumeAutoreportTemp
  <2> DEFINE o == With(Here, [ready EXCEPT !.tasks = <<NewTask(AUTOREPORT_TEMP, 0, 0)>> \o @,
                                           !.autoreport = TRUE])
  <2>1. o \in OutcomeType /\ ~o.exit
    BY AutoreportReadyType DEF With, Here, Outcome
  <2>2. Complete(o, armed)
    BY <1>1, <1>3 DEF ConsumeAutoreportTemp
  <2> HIDE DEF o
  <2> QED BY <2>1, <2>2, CompleteEnds
<1>4. CASE ConsumeSpoolTask \/ ConsumeGCodeLoaded
  <2> DEFINE o == Load(Head(queue).task, Head(queue).n)
  <2>1. Head(queue).task \in Task /\ Head(queue).n \in Nat
    BY <1>4, QueueTypes DEF TypeOK, TaskMessages, Receives, ConsumeSpoolTask,
                            ConsumeGCodeLoaded
  <2>2. o \in OutcomeType /\ (o.exit => o.ready.tasks = <<>>)
    BY <2>1, LoadFollows
  <2>3. Complete(o, armed) \/ Execute(o, armed)
    BY <1>1, <1>4 DEF ConsumeSpoolTask, ConsumeGCodeLoaded, Ends, Errored
  <2> HIDE DEF o
  <2> QED BY <2>2, <2>3, CompleteEnds
<1>5. CASE ConsumePauseTask
  <2>1. PICK ts : ready' = [ready EXCEPT !.tasks = ts] /\ ts = <<>>
    BY <1>1, <1>5 DEF ConsumePauseTask, Ends
  <2>2. ready \in ReadyState
    BY DEF TypeOK
  <2> QED BY <2>1, <2>2 DEF ReadyState
<1>6. CASE ConsumeResetWhenIdle
  BY <1>6 DEF ConsumeResetWhenIdle, Ends, LifecycleInv
<1>7. QED BY <1>1, <1>2, <1>3, <1>4, <1>5, <1>6, ConsumeCases

\* A reset when idle ends the process only when the spool is empty
\* (ResetWhenIdle, the PauseTask handler and despool_task of the driver).
THEOREM IdleResetCorrect == Spec => IdleResetSparesTheSpool
<1>1. TypeOK /\ LifecycleInv /\ [Next]_vars
        => [proc = "Running" /\ proc' = "Exited" /\ Head(queue).type # "Reset"
              => ready'.tasks = <<>>]_vars
  <2> SUFFICES ASSUME TypeOK, LifecycleInv, Next, Ends, Head(queue).type # "Reset"
               PROVE  ready'.tasks = <<>>
    BY DEF Ends
  <2>1. CASE ~Consume
    <3>1. proc' = proc
      BY <2>1 DEF Next, Fire, Read, Unplug, ServerSpools, ServerPauses, ServerDeletesHistory,
                  ServerRequests, Firmware, FirmwareAnswers, LineCorrupted, NewlineLost,
                  AnswerLost, FirmwarePauses, Turns, FirmwareRestarts, FirmwareBoots,
                  FirmwareReports
    <3> QED BY <3>1 DEF Ends
  <2> QED BY <2>1, ConsumeEnds
<1>2. QED BY <1>1, TypeCorrect, LifecycleCorrect, PTL DEF Spec, IdleResetSparesTheSpool

-----------------------------------------------------------------------------
(***************************************************************************)
(* The numbers of the lines in transit.                                    *)
(***************************************************************************)

\* Lines without numbers, before any has been accepted or given out.
LEMMA InStepStart ==
  ASSUME NEW lines \in Seq(WireLine), \A i \in DOMAIN lines : lines[i].num = 0
  PROVE  InStep(lines, 0, 1)
<1> DEFINE c == [i \in 0 .. Len(lines) |-> 0]
<1>1. Len(lines) \in Nat /\ DOMAIN lines = 1 .. Len(lines)
  BY LenProperties
<1>2. c \in [0 .. Len(lines) -> Nat] /\ \A i \in 0 .. Len(lines) : c[i] = 0
  OBVIOUS
<1> HIDE DEF c
<1>3. c[0] = 0 /\ c[Len(lines)] + 1 = 1
  BY <1>1, <1>2
<1>4. ASSUME NEW i \in 1 .. Len(lines)
      PROVE  lines[i].num = 0 /\ c[i] = c[i - 1] /\ c[i] = 0
  <2>1. i \in 0 .. Len(lines) /\ i - 1 \in 0 .. Len(lines)
    BY <1>1
  <2>2. QED BY <1>1, <1>2, <2>1
<1>5. QED BY <1>2, <1>3, <1>4 DEF InStep

\* The first of several lines in step is one the firmware expects, and the
\* others are in step with what it expects then.
LEMMA InStepHead ==
  ASSUME NEW lines \in Seq(WireLine), lines # <<>>, NEW last \in Nat, NEW line \in Nat,
         InStep(lines, last, line)
  PROVE  LET x == Head(lines)
         IN  /\ x.num \in {0, last + 1}
             /\ InStep(Tail(lines), IF x.code = "M110" THEN 0
                                    ELSE IF x.num = 0 THEN last ELSE x.num, line)
<1> DEFINE x == Head(lines)
           rest == Tail(lines)
           m == Len(lines)
           next == IF x.code = "M110" THEN 0 ELSE IF x.num = 0 THEN last ELSE x.num
<1>1. /\ m \in Nat /\ m > 0 /\ rest \in Seq(WireLine)
      /\ x = lines[1] /\ Len(rest) = m - 1
      /\ \A i \in 1 .. m - 1 : rest[i] = lines[i + 1]
  BY HeadTailProperties, LenProperties, EmptySeq
<1>2. PICK c \in [0 .. m -> Nat] :
        /\ c[0] = last /\ c[m] + 1 = line
        /\ \A i \in 1 .. m :
             \/ /\ lines[i].num = 0 /\ c[i] = c[i - 1]
                /\ lines[i].code = "M110" => c[i] = 0
             \/ /\ lines[i].num = c[i] /\ c[i] = c[i - 1] + 1
                /\ lines[i].code # "M110"
  BY DEF InStep
<1> HIDE DEF m, rest, x
<1>3. /\ 1 \in 1 .. m /\ 0 \in 0 .. m /\ 1 \in 0 .. m /\ 1 - 1 = 0
  BY <1>1
<1>4. \/ x.num = 0 /\ c[1] = last /\ (x.code = "M110" => c[1] = 0)
      \/ x.num = c[1] /\ c[1] = last + 1 /\ x.code # "M110"
  BY <1>1, <1>2, <1>3
<1>5. x.num \in {0, last + 1} /\ c[1] = next
  BY <1>4
<1> HIDE DEF next
<1> DEFINE d == [i \in 0 .. m - 1 |-> c[i + 1]]
<1>6. \A i \in 0 .. m - 1 : i + 1 \in 0 .. m /\ c[i + 1] \in Nat
  BY <1>1, <1>2
<1>7. d \in [0 .. m - 1 -> Nat] /\ \A i \in 0 .. m - 1 : d[i] = c[i + 1]
  BY <1>6
<1> HIDE DEF d
<1>8. d[0] = next /\ d[m - 1] + 1 = line
  <2>1. 0 \in 0 .. m - 1 /\ m - 1 \in 0 .. m - 1 /\ (m - 1) + 1 = m /\ 0 + 1 = 1
    BY <1>1
  <2>2. QED BY <1>2, <1>5, <1>7, <2>1
<1>9. ASSUME NEW i \in 1 .. m - 1
      PROVE  \/ /\ rest[i].num = 0 /\ d[i] = d[i - 1]
                /\ rest[i].code = "M110" => d[i] = 0
             \/ /\ rest[i].num = d[i] /\ d[i] = d[i - 1] + 1
                /\ rest[i].code # "M110"
  <2>1. /\ i \in 0 .. m - 1 /\ i - 1 \in 0 .. m - 1 /\ i + 1 \in 1 .. m
        /\ (i - 1) + 1 = i /\ (i + 1) - 1 = i
    BY <1>1
  <2>2. d[i] = c[i + 1] /\ d[i - 1] = c[i] /\ rest[i] = lines[i + 1]
    BY <1>1, <1>7, <2>1
  <2>3. \/ /\ lines[i + 1].num = 0 /\ c[i + 1] = c[i]
           /\ lines[i + 1].code = "M110" => c[i + 1] = 0
        \/ /\ lines[i + 1].num = c[i + 1] /\ c[i + 1] = c[i] + 1
           /\ lines[i + 1].code # "M110"
    BY <1>2, <2>1
  <2>4. QED BY <2>2, <2>3
<1>10. InStep(rest, next, line)
  BY <1>1, <1>7, <1>8, <1>9 DEF InStep
<1>11. QED BY <1>5, <1>10 DEF next, rest, x

\* What it is to be in step, counted.
LEMMA InStepCounts ==
  ASSUME NEW lines \in Seq(WireLine), NEW last \in Nat, NEW line \in Nat,
         InStep(lines, last, line)
  PROVE  LET upTo(i) == Cardinality({j \in 1 .. i : lines[j].num > 0})
         IN  /\ \A i \in DOMAIN lines : lines[i].num > 0 => lines[i].num = last + upTo(i)
             /\ line = last + upTo(Len(lines)) + 1
<1> DEFINE m == Len(lines)
           U(i) == {j \in 1 .. i : lines[j].num > 0}
<1>1. m \in Nat /\ DOMAIN lines = 1 .. m
  BY LenProperties
<1>2. PICK c \in [0 .. m -> Nat] :
        /\ c[0] = last /\ c[m] + 1 = line
        /\ \A i \in 1 .. m :
             \/ /\ lines[i].num = 0 /\ c[i] = c[i - 1]
                /\ lines[i].code = "M110" => c[i] = 0
             \/ /\ lines[i].num = c[i] /\ c[i] = c[i - 1] + 1
                /\ lines[i].code # "M110"
  BY DEF InStep
<1> HIDE DEF m
<1> DEFINE T == {i \in 0 .. m : IsFiniteSet(U(i)) /\ c[i] = last + Cardinality(U(i))}
<1>3. 0 \in T
  <2>1. U(0) = {}
    OBVIOUS
  <2>2. IsFiniteSet(U(0)) /\ Cardinality(U(0)) = 0
    BY <2>1, FS_EmptySet
  <2>3. QED BY <1>1, <1>2, <2>2
<1>4. ASSUME NEW k \in 0 .. m - 1, k \in T
      PROVE  k + 1 \in T
  <2>1. /\ k + 1 \in 1 .. m /\ k + 1 \in 0 .. m /\ (k + 1) - 1 = k
        /\ k \in Nat /\ c[k] \in Nat /\ c[k + 1] \in Nat
    <3>1. /\ k + 1 \in 1 .. m /\ k + 1 \in 0 .. m /\ (k + 1) - 1 = k
          /\ k \in Nat /\ k \in 0 .. m
      BY <1>1
    <3>2. QED BY <1>2, <3>1
  <2>2. IsFiniteSet(U(k)) /\ Cardinality(U(k)) \in Nat /\ c[k] = last + Cardinality(U(k))
    BY <1>4, FS_CardinalityType
  <2>3. \/ lines[k + 1].num = 0 /\ c[k + 1] = c[k]
        \/ lines[k + 1].num = c[k + 1] /\ c[k + 1] = c[k] + 1
    BY <1>2, <2>1
  <2>4. CASE lines[k + 1].num = 0 /\ c[k + 1] = c[k]
    <3>1. U(k + 1) = U(k)
      BY <2>1, <2>4
    <3>2. QED BY <2>1, <2>2, <2>4, <3>1
  <2>5. CASE lines[k + 1].num = c[k + 1] /\ c[k + 1] = c[k] + 1
    <3>1. U(k + 1) = U(k) \cup {k + 1} /\ k + 1 \notin U(k)
      BY <2>1, <2>5
    <3>2. IsFiniteSet(U(k + 1)) /\ Cardinality(U(k + 1)) = Cardinality(U(k)) + 1
      <4> HIDE DEF U
      <4>1. QED BY <2>2, <3>1, FS_AddElement
    <3>3. QED BY <2>1, <2>2, <2>5, <3>2
  <2>6. QED BY <2>3, <2>4, <2>5
<1>5. \A i \in 0 .. m : c[i] = last + Cardinality(U(i))
  <2>1. 0 .. m \subseteq T
    <3> HIDE DEF T
    <3>1. QED BY <1>1, <1>3, <1>4, IntervalInduction
  <2>2. QED BY <2>1
<1> HIDE DEF U
<1>6. ASSUME NEW i \in 1 .. m, lines[i].num > 0
      PROVE  lines[i].num = last + Cardinality(U(i))
  <2>1. lines[i].num = c[i] /\ i \in 0 .. m
    BY <1>1, <1>2, <1>6
  <2>2. QED BY <1>5, <2>1
<1>7. line = last + Cardinality(U(m)) + 1
  <2>1. m \in 0 .. m
    BY <1>1
  <2>2. QED BY <1>2, <1>5, <2>1
<1>8. QED BY <1>1, <1>6, <1>7 DEF U, m

-----------------------------------------------------------------------------
\* The types of the events under way in q.
Has(q, types) == \E i \in DOMAIN q : q[i].type \in types

Acks == {"Ok", "OkTemperatures"}

\* What makes a connecting driver send, or tells it that it has connected.
Stirring == Acks \cup {"Greeting", "SerialPortOpened"}

\* The reports of a lost port.
Losses == {"SerialPortDisconnected", "DeviceDisconnected"}

InitFirst(q) == \A i \in DOMAIN q : q[i].type = "Init" => i = 1

OneTimeout(q) ==
  \A i, j \in DOMAIN q :
    q[i].type = "ConnectionTimeout" /\ q[j].type = "ConnectionTimeout" => i = j

\* Nothing is under way that a connecting driver would answer with a line.
Idle == tx = <<>> /\ ~fw.booting /\ ~Has(queue, Stirring) /\ ~Has(rx, Stirring)

\* What the channel of a driver may hold whose link has lost nothing.
QueueOK ==
  /\ ~Has(queue, Losses)
  /\ InitFirst(queue) /\ OneTimeout(queue)
  /\ Has(queue, {"Init"}) => st = "Disconnected"
  /\ Has(queue, {"ConnectionTimeout"}) => "connection_timeout" \notin armed

\* How far such a driver and its firmware agree: no line has a number before the
\* first acknowledgement, which a firmware that boots cannot have sent; once a
\* connection has timed out nothing of it is under way; and a driver that is
\* ready numbers its lines in step.
LineOK ==
  /\ ~fw.glued
  /\ st \in {"Disconnected", "Connecting"} =>
       fw.last = 0 /\ \A i \in DOMAIN tx : tx[i].num = 0
  /\ st = "Disconnected" => Idle /\ ~Has(queue, {"ConnectionTimeout"})
  /\ st = "Connecting" =>
       /\ fw.booting => ~Has(queue, Acks) /\ ~Has(rx, Acks)
       /\ Has(queue, {"ConnectionTimeout"}) => Idle
  /\ st = "Ready" => ~fw.booting /\ InStep(tx, fw.last, ready.line)

LinkOK == QueueOK /\ LineOK

LinkInv ==
  /\ budget.faults <= MaxFaults
  /\ budget.faults = MaxFaults /\ proc = "Running" => LinkOK

\* No more is under way in p than in q.
Calmer(p, q) ==
  \A types \in {Stirring, Acks, {"ConnectionTimeout"}} : Has(p, types) => Has(q, types)

-----------------------------------------------------------------------------
\* A channel without its first event.
LEMMA TailHas ==
  ASSUME NEW q \in Seq(Event), q # <<>>
  PROVE  /\ \A types : Has(Tail(q), types) => Has(q, types)
         /\ \A types : Head(q).type \in types => Has(q, types)
         /\ InitFirst(q) => ~Has(Tail(q), {"Init"})
         /\ OneTimeout(q) => OneTimeout(Tail(q))
         /\ OneTimeout(q) /\ Head(q).type = "ConnectionTimeout"
              => ~Has(Tail(q), {"ConnectionTimeout"})
<1> DEFINE m == Len(q)
           r == Tail(q)
<1>1. /\ m \in Nat /\ m > 0 /\ DOMAIN q = 1 .. m
      /\ r \in Seq(Event) /\ DOMAIN r = 1 .. m - 1
      /\ Head(q) = q[1] /\ \A i \in 1 .. m - 1 : r[i] = q[i + 1]
  BY HeadTailProperties, LenProperties, EmptySeq
<1> HIDE DEF m, r
<1>2. \A i \in DOMAIN r : i + 1 \in DOMAIN q /\ i + 1 # 1 /\ r[i] = q[i + 1] /\ i \in Nat
  BY <1>1
<1>3. 1 \in DOMAIN q
  BY <1>1
<1>4. ASSUME NEW types, Has(r, types)
      PROVE  Has(q, types)
  BY <1>2, <1>4 DEF Has
<1>5. ASSUME NEW types, Head(q).type \in types
      PROVE  Has(q, types)
  BY <1>1, <1>3, <1>5 DEF Has
<1>6. ASSUME InitFirst(q)
      PROVE  ~Has(r, {"Init"})
  BY <1>2, <1>6 DEF Has, InitFirst
<1>7. ASSUME OneTimeout(q)
      PROVE  OneTimeout(r)
  BY <1>2, <1>7 DEF OneTimeout
<1>8. ASSUME OneTimeout(q), Head(q).type = "ConnectionTimeout"
      PROVE  ~Has(r, {"ConnectionTimeout"})
  BY <1>1, <1>2, <1>3, <1>8 DEF OneTimeout, Has
<1>9. QED BY <1>4, <1>5, <1>6, <1>7, <1>8 DEF r

\* A channel to which an event is sent.
LEMMA AppendHas ==
  ASSUME NEW q \in Seq(Event), NEW e \in Event
  PROVE  /\ \A types : Has(Append(q, e), types) => Has(q, types) \/ e.type \in types
         /\ InitFirst(q) /\ e.type # "Init" => InitFirst(Append(q, e))
         /\ OneTimeout(q) /\ (e.type = "ConnectionTimeout" => ~Has(q, {"ConnectionTimeout"}))
              => OneTimeout(Append(q, e))
<1> DEFINE m == Len(q)
           r == Append(q, e)
<1>1. /\ m \in Nat /\ DOMAIN q = 1 .. m /\ DOMAIN r = 1 .. m + 1
      /\ r[m + 1] = e /\ \A i \in 1 .. m : r[i] = q[i]
  BY LenProperties, AppendProperties
<1> HIDE DEF m, r
<1>2. \A i \in DOMAIN r : \/ i = m + 1 /\ r[i] = e
                          \/ i \in DOMAIN q /\ r[i] = q[i]
  BY <1>1
<1>3. ASSUME NEW types, Has(r, types)
      PROVE  Has(q, types) \/ e.type \in types
  BY <1>2, <1>3 DEF Has
<1>4. ASSUME InitFirst(q), e.type # "Init"
      PROVE  InitFirst(r)
  BY <1>2, <1>4 DEF InitFirst
<1>5. ASSUME OneTimeout(q), e.type = "ConnectionTimeout" => ~Has(q, {"ConnectionTimeout"})
      PROVE  OneTimeout(r)
  BY <1>2, <1>5 DEF OneTimeout, Has
<1>6. QED BY <1>3, <1>4, <1>5 DEF r

\* The channel after an event has been consumed that starts no attempt to connect.
LEMMA ConsumedLink ==
  ASSUME TypeOK, QueueOK, queue # <<>>, queue' = Tail(queue),
         "connection_timeout" \in armed' => "connection_timeout" \in armed
  PROVE  QueueOK' /\ Calmer(queue', queue)
<1>1. queue \in Seq(Event)
  BY DEF TypeOK
<1>2. /\ \A types : Has(queue', types) => Has(queue, types)
      /\ ~Has(queue', {"Init"}) /\ OneTimeout(queue')
  BY <1>1, TailHas DEF QueueOK
<1>3. InitFirst(queue')
  BY <1>2 DEF Has, InitFirst
<1>4. QED BY <1>2, <1>3 DEF QueueOK, Calmer

\* The channel after an event has been sent that says nothing of the connection.
LEMMA SentLink ==
  ASSUME TypeOK, QueueOK, NEW e \in Event, queue' = Append(queue, e), st' = st,
         armed' \subseteq armed,
         e.type \notin Losses \cup {"Init", "ConnectionTimeout"}
  PROVE  QueueOK' /\ (e.type \notin Stirring => Calmer(queue', queue))
<1>1. queue \in Seq(Event)
  BY DEF TypeOK
<1>2. /\ \A types : Has(queue', types) => Has(queue, types) \/ e.type \in types
      /\ InitFirst(queue') /\ OneTimeout(queue')
  BY <1>1, AppendHas DEF QueueOK
<1>3. QueueOK'
  BY <1>2 DEF QueueOK
<1>4. ASSUME e.type \notin Stirring
      PROVE  Calmer(queue', queue)
  BY <1>2, <1>4 DEF Calmer, Stirring
<1>5. QED BY <1>3, <1>4

\* A step that leaves the lines alone.
LEMMA LineKept ==
  ASSUME LineOK, Calmer(queue', queue), Calmer(rx', rx), UNCHANGED <<st, tx, fw>>,
         ready'.line = ready.line
  PROVE  LineOK'
<1>1. Idle => Idle'
  BY DEF Idle, Calmer
<1>2. Has(queue', {"ConnectionTimeout"}) => Has(queue, {"ConnectionTimeout"})
  BY DEF Calmer
<1>3. (Has(queue', Acks) => Has(queue, Acks)) /\ (Has(rx', Acks) => Has(rx, Acks))
  BY DEF Calmer
<1>4. QED BY <1>1, <1>2, <1>3 DEF LineOK

\* A step that ends the use of the link.
LEMMA LineLeft ==
  ASSUME LineOK, st' \in {"Errored", "EStopped"}, fw'.glued = fw.glued
  PROVE  LineOK'
BY DEF LineOK

\* A response that is under way no more, and one that was not.
LEMMA CalmerSame == \A q : Calmer(q, q)
BY DEF Calmer

-----------------------------------------------------------------------------
\* Events without effect, and those of the error state.
LEMMA IgnoreLink ==
  ASSUME TypeOK, LinkOK, queue # <<>>, Ignore \/ AppendToError \/ Fail
  PROVE  LinkOK'
<1>1. CASE Ignore
  BY <1>1, ConsumedLink, LineKept, CalmerSame DEF Ignore, LinkOK
<1>2. CASE AppendToError
  BY <1>2, ConsumedLink, LineKept, CalmerSame DEF AppendToError, LinkOK
<1>3. CASE Fail
  BY <1>3, ConsumedLink, LineLeft DEF Fail, Errored, Leave, LinkOK
<1>4. QED BY <1>1, <1>2, <1>3

LEMMA ErroredLink ==
  ASSUME TypeOK, LinkOK, queue # <<>>, NEW ts, NEW p, Errored(ts, p)
  PROVE  LinkOK'
BY ConsumedLink, LineLeft DEF Errored, Leave, LinkOK

\* The effects of a handler that numbers its lines in step with those under way.
LEMMA ExecuteLink ==
  ASSUME TypeOK, LinkOK, queue # <<>>, NEW o \in OutcomeType, NEW delays,
         "connection_timeout" \notin delays, NEW b, b.send = <<>>, Numbers(o, b),
         ~fw.booting, InStep(tx, fw.last, b.ready.line),
         Execute(o, delays), proc' = "Running"
  PROVE  LinkOK'
<1>1. tx \in Seq(WireLine) /\ fw.last \in Nat /\ o.send \in Seq(WireLine)
  BY DEF TypeOK, OutcomeType
<1>2. o.arm \subseteq {"tickle_delay", "polling_delay"}
  BY DEF OutcomeType
<1>3. QueueOK'
  <2>1. queue' = Tail(queue) /\ "connection_timeout" \notin armed'
    BY <1>2 DEF Execute
  <2>2. QED BY <2>1, ConsumedLink DEF LinkOK
<1>4. tx' = tx \o o.send
  <2>1. CASE port = "open"
    BY <2>1 DEF Execute
  <2>2. CASE port # "open"
    <3>1. o.send = <<>> /\ tx' = tx
      BY <2>2 DEF Execute
    <3>2. tx \o <<>> = tx
      BY <1>1
    <3>3. QED BY <3>1, <3>2
  <2>3. QED BY <2>1, <2>2
<1>5. tx \o b.send = tx
  BY <1>1
<1>6. InStep(tx', fw.last, o.ready.line)
  BY <1>1, <1>4, <1>5 DEF Numbers
<1>7. st' = "Ready" /\ fw' = fw /\ ready' = o.ready
  BY DEF Execute
<1>8. LineOK'
  BY <1>6, <1>7 DEF LineOK, LinkOK
<1>9. QED BY <1>3, <1>8 DEF LinkOK

\* The end of such a handler.
LEMMA CompleteLink ==
  ASSUME TypeOK, LinkOK, queue # <<>>, NEW o \in OutcomeType, NEW delays,
         "connection_timeout" \notin delays, NEW b, b.send = <<>>, Numbers(o, b),
         ~fw.booting, InStep(tx, fw.last, b.ready.line),
         Complete(o, delays), proc' = "Running"
  PROVE  LinkOK'
<1>1. CASE o.fail = "error"
  BY <1>1, ErroredLink DEF Complete
<1>2. CASE o.fail = "panic"
  BY <1>2 DEF Complete
<1>3. CASE o.fail \notin {"error", "panic"}
  BY <1>3, ExecuteLink DEF Complete
<1>4. QED BY <1>1, <1>2, <1>3

\* A driver that may open its port: nothing of an earlier connection is under way.
Calm ==
  /\ st \in {"Disconnected", "Connecting"} /\ Idle /\ fw.last = 0
  /\ ~Has(Tail(queue), {"ConnectionTimeout"})

\* A step that is no fault.
LEMMA NoFault ==
  ASSUME TypeOK, budget'.faults = budget.faults
  PROVE  ~Spend("faults")
<1>1. budget \in Budgets /\ budget.faults \in Nat
  BY DEF TypeOK, Budgets
<1>2. ASSUME Spend("faults")
      PROVE  FALSE
  <2>1. budget'.faults = budget.faults - 1
    BY <1>1, <1>2 DEF Spend, Budgets
  <2>2. QED BY <1>1, <2>1
<1>3. QED BY <1>2

\* The opening of the port.
LEMMA OpenPortLink ==
  ASSUME TypeOK, QueueOK, queue # <<>>, OpenPort, budget'.faults = budget.faults,
         "connection_timeout" \in armed' => ~Has(Tail(queue), {"ConnectionTimeout"})
  PROVE  /\ QueueOK'
         /\ tx' = <<>> /\ rx' = <<>>
         /\ fw'.glued = fw.glued /\ fw'.last = fw.last
         /\ \A types : "SerialPortOpened" \notin types /\ Has(queue', types)
                         => Has(Tail(queue), types)
<1> DEFINE e == Ev("SerialPortOpened")
           q == Tail(queue)
<1>1. queue' = Append(q, e) /\ (fw' = fw \/ fw' = [fw EXCEPT !.booting = TRUE])
  BY NoFault DEF OpenPort
<1>2. e \in Event /\ e.type = "SerialPortOpened"
  BY EventTypes DEF Ev, OtherEvents, PortEvents
<1>3. q \in Seq(Event) /\ queue \in Seq(Event)
  BY QueueTypes DEF TypeOK
<1>4. /\ \A types : Has(q, types) => Has(queue, types)
      /\ ~Has(q, {"Init"}) /\ OneTimeout(q)
  BY <1>3, TailHas DEF QueueOK
<1>5. InitFirst(q)
  BY <1>4 DEF Has, InitFirst
<1> HIDE DEF e, q
<1>6. /\ \A types : Has(queue', types) => Has(q, types) \/ "SerialPortOpened" \in types
      /\ InitFirst(queue') /\ OneTimeout(queue')
  BY <1>1, <1>2, <1>3, <1>4, <1>5, AppendHas
<1>7. /\ ~Has(queue', Losses) /\ ~Has(queue', {"Init"})
      /\ Has(queue', {"ConnectionTimeout"}) => Has(q, {"ConnectionTimeout"})
  BY <1>4, <1>6 DEF QueueOK, Losses
<1>8. QueueOK'
  <2>1. Has(queue', {"ConnectionTimeout"}) => "connection_timeout" \notin armed'
    BY <1>7 DEF q
  <2>2. QED BY <1>6, <1>7, <2>1 DEF QueueOK
<1>9. fw'.glued = fw.glued /\ fw'.last = fw.last
  BY <1>1 DEF TypeOK
<1>10. QED BY <1>6, <1>8, <1>9 DEF OpenPort, q

\* A disconnection of a driver that has not connected, and its next attempt.
LEMMA NextBaudLink ==
  ASSUME TypeOK, LinkOK, queue # <<>>, Calm, NEW n, NextBaud(n),
         budget'.faults = budget.faults
  PROVE  LinkOK'
<1>1. queue \in Seq(Event) /\ \A types : Has(Tail(queue), types) => Has(queue, types)
  BY TailHas DEF TypeOK
<1>2. ~Has(<<>>, Stirring) /\ ~Has(<<>>, Acks)
  BY DEF Has
<1>3. CASE Disconnect
  <2>1. /\ st' = "Disconnected" /\ queue' = Tail(queue) /\ armed' = {}
        /\ tx' = <<>> /\ rx' = <<>> /\ fw' = fw
    BY <1>3 DEF Disconnect, Leave, ClosePort
  <2>2. QueueOK'
    BY <2>1, ConsumedLink DEF LinkOK
  <2>3. Idle'
    BY <1>1, <1>2, <2>1 DEF Calm, Idle
  <2>4. LineOK'
    BY <2>1, <2>3 DEF Calm, LineOK, LinkOK
  <2>5. QED BY <2>2, <2>4 DEF LinkOK
<1>4. CASE ~Disconnect
  <2>1. st' = "Connecting" /\ OpenPort
    BY <1>4 DEF NextBaud
  <2>2. /\ QueueOK'
        /\ tx' = <<>> /\ rx' = <<>>
        /\ fw'.glued = fw.glued /\ fw'.last = fw.last
        /\ \A types : "SerialPortOpened" \notin types /\ Has(queue', types)
                         => Has(Tail(queue), types)
    BY <2>1, OpenPortLink DEF Calm, LinkOK
  <2>3. ~Has(queue', Acks) /\ ~Has(queue', {"ConnectionTimeout"})
    <3>1. Has(queue, Acks) => Has(queue, Stirring)
      BY DEF Has, Stirring
    <3>2. "SerialPortOpened" \notin Acks
      BY DEF Acks
    <3>3. QED BY <1>1, <2>2, <3>1, <3>2 DEF Calm, Idle
  <2>4. LineOK'
    BY <1>2, <2>1, <2>2, <2>3 DEF Calm, LineOK, LinkOK
  <2>5. QED BY <2>2, <2>4 DEF LinkOK
<1>5. QED BY <1>3, <1>4

\* A connecting driver that resets the line numbers.
LEMMA ResetLineNumberLink ==
  ASSUME TypeOK, LinkOK, queue # <<>>, st = "Connecting", ResetLineNumber,
         Has(queue, Stirring)
  PROVE  LinkOK'
<1>1. QueueOK' /\ Calmer(queue', queue)
  BY ConsumedLink DEF ResetLineNumber, LinkOK
<1>2. ~Has(queue', {"ConnectionTimeout"}) /\ (Has(queue', Acks) => Has(queue, Acks))
  BY <1>1 DEF LinkOK, LineOK, Idle, Calmer
<1>3. \A i \in DOMAIN tx' : tx'[i].num = 0
  <2> DEFINE w == [num |-> 0, code |-> "M110", pos |-> 0]
  <2>1. tx' = Append(tx, w) \/ tx' = tx
    BY DEF ResetLineNumber
  <2>2. tx \in Seq(WireLine) /\ \A i \in DOMAIN tx : tx[i].num = 0
    BY DEF TypeOK, LinkOK, LineOK
  <2>3. w.num = 0 /\ w \in WireLine
    BY DEF WireLine, Code
  <2> HIDE DEF w
  <2>4. \A i \in DOMAIN Append(tx, w) : Append(tx, w)[i].num = 0
    <3>1. /\ Len(tx) \in Nat /\ DOMAIN tx = 1 .. Len(tx)
          /\ DOMAIN Append(tx, w) = 1 .. Len(tx) + 1
          /\ Append(tx, w)[Len(tx) + 1] = w
          /\ \A i \in 1 .. Len(tx) : Append(tx, w)[i] = tx[i]
      BY <2>2, <2>3, LenProperties, AppendProperties
    <3>2. QED BY <2>2, <2>3, <3>1
  <2>5. QED BY <2>1, <2>2, <2>4
<1>4. st' = st /\ rx' = rx /\ fw' = fw
  BY DEF ResetLineNumber
<1>5. LineOK'
  BY <1>2, <1>3, <1>4 DEF LinkOK, LineOK
<1>6. QED BY <1>1, <1>5 DEF LinkOK

\* The events of the connection and of the port.
LEMMA ConnectionLink ==
  ASSUME TypeOK, LinkOK, budget'.faults = budget.faults,
         \/ ConsumeInit \/ ConsumeSerialPortOpened \/ ConsumeSerialPortDisconnected
         \/ ConsumeSerialPortError \/ ConsumeConnectionTimeout
         \/ ConsumeDeviceDiscovered \/ ConsumeDeviceDisconnected
  PROVE  LinkOK'
<1>1. queue # <<>> /\ queue \in Seq(Event)
  BY DEF TypeOK, Receives, ConsumeInit, ConsumeSerialPortOpened,
         ConsumeSerialPortDisconnected, ConsumeSerialPortError, ConsumeConnectionTimeout,
         ConsumeDeviceDiscovered, ConsumeDeviceDisconnected
<1>2. /\ \A types : Head(queue).type \in types => Has(queue, types)
      /\ \A types : Has(Tail(queue), types) => Has(queue, types)
      /\ Head(queue).type = "ConnectionTimeout" => ~Has(Tail(queue), {"ConnectionTimeout"})
  BY <1>1, TailHas DEF LinkOK, QueueOK
<1>3. st = "Disconnected" => Calm
  BY <1>2 DEF Calm, LinkOK, LineOK
<1>4. CASE Ignore \/ Fail
  BY <1>1, <1>4, IgnoreLink
<1>5. CASE ConsumeInit
  <2>1. st = "Disconnected"
    <3>1. Head(queue).type \in {"Init"}
      BY <1>5 DEF ConsumeInit, Receives
    <3>2. QED BY <1>2, <3>1 DEF LinkOK, QueueOK
  <2>2. QED BY <1>1, <1>3, <1>4, <1>5, <2>1, NextBaudLink DEF ConsumeInit
<1>6. CASE ConsumeSerialPortOpened
  <2>1. Head(queue).type \in Stirring
    BY <1>6 DEF ConsumeSerialPortOpened, Receives, Stirring
  <2>2. Has(queue, Stirring)
    BY <1>2, <2>1
  <2>3. QED BY <1>1, <1>4, <1>6, <2>2, ResetLineNumberLink DEF ConsumeSerialPortOpened
<1>7. CASE ConsumeSerialPortDisconnected \/ ConsumeDeviceDisconnected
  <2>1. Head(queue).type \in Losses
    BY <1>7 DEF ConsumeSerialPortDisconnected, ConsumeDeviceDisconnected, Receives, Losses
  <2>2. QED BY <1>2, <2>1 DEF LinkOK, QueueOK
<1>8. CASE ConsumeSerialPortError
  BY <1>4, <1>8 DEF ConsumeSerialPortError
<1>9. CASE ConsumeConnectionTimeout
  <2>1. Head(queue).type = "ConnectionTimeout"
    BY <1>9 DEF ConsumeConnectionTimeout, Receives
  <2>2. Has(queue, {"ConnectionTimeout"})
    BY <1>2, <2>1
  <2>3. st = "Connecting" => Calm
    BY <1>2, <2>1, <2>2 DEF Calm, LinkOK, LineOK
  <2>4. QED BY <1>1, <1>4, <1>9, <2>3, NextBaudLink DEF ConsumeConnectionTimeout
<1>10. CASE ConsumeDeviceDiscovered
  BY <1>1, <1>3, <1>4, <1>10, NextBaudLink DEF ConsumeDeviceDiscovered
<1>11. QED BY <1>5, <1>6, <1>7, <1>8, <1>9, <1>10

\* The outcome a handler starts from, and the one of a driver that connects.
LEMMA HereLink ==
  ASSUME TypeOK, LinkOK, DelaysMatchState
  PROVE  /\ Here.send = <<>> /\ Here.ready = ready
         /\ st = "Ready" => /\ "connection_timeout" \notin armed
                            /\ ~fw.booting /\ InStep(tx, fw.last, Here.ready.line)
         /\ Outcome(DefaultReady, prog).send = <<>>
         /\ st = "Connecting" /\ ~fw.booting =>
              InStep(tx, fw.last, Outcome(DefaultReady, prog).ready.line)
<1>1. Here.send = <<>> /\ Here.ready = ready
  BY DEF Here, Outcome
<1>2. Outcome(DefaultReady, prog).send = <<>> /\ Outcome(DefaultReady, prog).ready.line = 1
  BY DEF Outcome, DefaultReady
<1>3. tx \in Seq(WireLine)
  BY DEF TypeOK
<1>4. st = "Connecting" => InStep(tx, fw.last, 1)
  BY <1>3, InStepStart DEF LinkOK, LineOK
<1>5. QED BY <1>1, <1>2, <1>4 DEF LinkOK, LineOK, DelaysMatchState

\* Handlers that add no task to the spool, and the first acknowledgement.
LEMMA HandledLink ==
  ASSUME TypeOK, LinkOK, DelaysMatchState, queue # <<>>, Handled, proc' = "Running"
  PROVE  LinkOK'
<1>1. st = "Ready"
  BY DEF Handled
<1>2. PICK o \in OutcomeType : Numbers(o, Here) /\ Complete(o, armed)
  BY DEF Handled, Follows
<1>3. QED BY <1>1, <1>2, HereLink, CompleteLink

LEMMA ConnectedLink ==
  ASSUME TypeOK, LinkOK, DelaysMatchState, queue # <<>>, Connected, proc' = "Running",
         ~fw.booting
  PROVE  LinkOK'
<1> DEFINE b == Outcome(DefaultReady, prog)
<1>1. st = "Connecting"
  BY DEF Connected
<1>2. PICK o \in OutcomeType : Numbers(o, b) /\ Complete(o, {})
  BY DEF Connected, Follows
<1>3. b.send = <<>> /\ InStep(tx, fw.last, b.ready.line)
  BY <1>1, HereLink
<1> HIDE DEF b
<1>4. "connection_timeout" \notin {}
  OBVIOUS
<1>5. QED BY <1>2, <1>3, <1>4, CompleteLink

\* The responses.
LEMMA ResponsesLink ==
  ASSUME TypeOK, LinkOK, DelaysMatchState, proc' = "Running",
         \/ ConsumeOk \/ ConsumeFeedback \/ ConsumeError \/ ConsumeGreeting
         \/ ConsumeResend \/ ConsumeAutoreportTemp \/ ConsumeUnknown
  PROVE  LinkOK'
<1>1. queue # <<>> /\ queue \in Seq(Event)
  BY DEF TypeOK, Receives, ConsumeOk, ConsumeFeedback, ConsumeError, ConsumeGreeting,
         ConsumeResend, ConsumeAutoreportTemp, ConsumeUnknown
<1>2. \A types : Head(queue).type \in types => Has(queue, types)
  BY <1>1, TailHas
<1>3. CASE Ignore \/ AppendToError \/ Fail
  BY <1>1, <1>3, IgnoreLink
<1>4. CASE Handled
  BY <1>1, <1>4, HandledLink
<1>5. CASE ConsumeOk
  <2>1. Head(queue).type \in Acks
    BY <1>5 DEF ConsumeOk, Receives, Acks
  <2>2. st = "Connecting" => ~fw.booting
    BY <1>2, <2>1 DEF LinkOK, LineOK
  <2>3. CASE Connected
    BY <1>1, <2>2, <2>3, ConnectedLink DEF Connected
  <2>4. QED BY <1>3, <1>4, <1>5, <2>3, OkCases
<1>6. CASE ConsumeFeedback
  BY <1>3, <1>4, <1>6, FeedbackCases
<1>7. CASE ConsumeGreeting
  <2>1. Head(queue).type \in Stirring
    BY <1>7 DEF ConsumeGreeting, Receives, Stirring
  <2>2. Has(queue, Stirring)
    BY <1>2, <2>1
  <2>3. QED BY <1>1, <1>3, <1>7, <2>2, ResetLineNumberLink DEF ConsumeGreeting
<1>8. CASE ConsumeError \/ ConsumeResend \/ ConsumeUnknown
  <2> DEFINE o == SetOnOk(Here, "Resend")
  <2>1. o \in OutcomeType /\ Numbers(o, Here)
    BY SpoolTypes, SetOnOkType DEF OnOk
  <2>2. \/ Ignore \/ AppendToError \/ Fail
        \/ st = "Ready" /\ Complete(o, armed)
    BY <1>8 DEF ConsumeError, ConsumeResend, ConsumeUnknown
  <2> HIDE DEF o
  <2>3. QED BY <1>1, <1>3, <2>1, <2>2, HereLink, CompleteLink
<1>9. CASE ConsumeAutoreportTemp
  <2> DEFINE o == With(Here, [ready EXCEPT
                               !.tasks = <<NewTask(AUTOREPORT_TEMP, 0, 0)>> \o @,
                               !.autoreport = TRUE])
  <2>1. o \in OutcomeType /\ Numbers(o, Here)
    BY AutoreportReadyType
  <2>2. \/ Ignore \/ AppendToError
        \/ st = "Ready" /\ Complete(o, armed)
    BY <1>9 DEF ConsumeAutoreportTemp
  <2> HIDE DEF o
  <2>3. QED BY <1>1, <1>3, <2>1, <2>2, HereLink, CompleteLink
<1>10. QED BY <1>5, <1>6, <1>7, <1>8, <1>9

\* A loaded task.
LEMMA LoadedLink ==
  ASSUME TypeOK, LinkOK, DelaysMatchState, proc' = "Running",
         ConsumeSpoolTask \/ ConsumeGCodeLoaded
  PROVE  LinkOK'
<1> DEFINE t == Head(queue).task
           n == Head(queue).n
           o == Load(t, n)
<1>1. queue # <<>> /\ Head(queue).type \in {"SpoolTask", "GCodeLoaded"}
  BY DEF Receives, ConsumeSpoolTask, ConsumeGCodeLoaded
<1>2. t \in Task /\ n \in Nat
  BY <1>1, QueueTypes DEF TypeOK, TaskMessages
<1>3. o \in OutcomeType /\ Numbers(o, Here)
  BY <1>2, LoadFollows
<1>4. CASE Ignore
  BY <1>1, <1>4, IgnoreLink
<1>5. CASE ConsumeGCodeLoaded
  <2>1. Ignore \/ (st = "Ready" /\ Complete(o, armed))
    BY <1>5 DEF ConsumeGCodeLoaded
  <2> HIDE DEF o
  <2>2. QED BY <1>1, <1>3, <1>4, <2>1, HereLink, CompleteLink
<1>6. CASE ConsumeSpoolTask
  <2>1. CASE st = "Ready" /\ Errored(o.ready.tasks, o.prog)
    BY <1>1, <2>1, ErroredLink
  <2>2. CASE st = "Ready" /\ Execute(o, armed)
    <3> HIDE DEF o
    <3>1. QED BY <1>1, <1>3, <2>2, HereLink, ExecuteLink
  <2>3. CASE /\ \/ queue' = Append(Tail(queue), TaskEv("GCodeLoaded", t, n))
                \/ queue' = Append(Tail(queue), TaskEv("GCodeLoadFailed", t, n))
             /\ UNCHANGED <<st, ready, armed, tx, rx, fw>>
    <3>1. PICK e \in Event : /\ queue' = Append(Tail(queue), e)
                             /\ e.type \in {"GCodeLoaded", "GCodeLoadFailed"}
      <4>1. /\ TaskEv("GCodeLoaded", t, n) \in Event
            /\ TaskEv("GCodeLoadFailed", t, n) \in Event
        BY <1>2, EventTypes DEF TaskMessages
      <4>2. /\ TaskEv("GCodeLoaded", t, n).type = "GCodeLoaded"
            /\ TaskEv("GCodeLoadFailed", t, n).type = "GCodeLoadFailed"
        BY DEF TaskEv
      <4>3. QED BY <2>3, <4>1, <4>2
    <3> DEFINE q == Tail(queue)
    <3>2. queue \in Seq(Event) /\ q \in Seq(Event)
      BY <1>1, QueueTypes DEF TypeOK
    <3>3. /\ \A types : Has(q, types) => Has(queue, types)
          /\ ~Has(q, {"Init"}) /\ OneTimeout(q)
      BY <1>1, <3>2, TailHas DEF LinkOK, QueueOK
    <3>4. InitFirst(q)
      BY <3>3 DEF Has, InitFirst
    <3>5. queue' = Append(q, e)
      BY <3>1
    <3> HIDE DEF q
    <3>6. /\ \A types : Has(queue', types) => Has(q, types) \/ e.type \in types
          /\ InitFirst(queue') /\ OneTimeout(queue')
      BY <3>1, <3>2, <3>3, <3>4, <3>5, AppendHas
    <3>7. \A types : {"GCodeLoaded", "GCodeLoadFailed"} \cap types = {} =>
            (Has(queue', types) => Has(queue, types))
      BY <3>1, <3>3, <3>6
    <3>8. \A types \in {Losses, {"Init"}, {"ConnectionTimeout"}, Stirring, Acks} :
            {"GCodeLoaded", "GCodeLoadFailed"} \cap types = {}
      BY DEF Losses, Stirring, Acks
    <3>9. QueueOK' /\ Calmer(queue', queue)
      BY <2>3, <3>6, <3>7, <3>8 DEF LinkOK, QueueOK, Calmer
    <3>10. LineOK'
      BY <2>3, <3>9, LineKept, CalmerSame DEF LinkOK
    <3>11. QED BY <3>9, <3>10 DEF LinkOK
  <2>4. QED BY <1>4, <1>6, <2>1, <2>2, <2>3 DEF ConsumeSpoolTask
<1>7. QED BY <1>5, <1>6

\* The messages that load no task, and the timers of ReadyState.
LEMMA MessagesLink ==
  ASSUME TypeOK, LinkOK, DelaysMatchState, proc' = "Running",
         budget'.faults = budget.faults,
         \/ ConsumeGCodeLoadFailed \/ ConsumePauseTask \/ ConsumeDeleteTaskHistory
         \/ ConsumeEstop \/ ConsumeReset \/ ConsumeResetWhenIdle
         \/ ConsumeProtobufClientConnection \/ ConsumePollFeedback
         \/ ConsumeTickleSerialPort
  PROVE  LinkOK'
<1>1. queue # <<>>
  BY DEF Receives, ConsumeGCodeLoadFailed, ConsumePauseTask, ConsumeDeleteTaskHistory,
         ConsumeEstop, ConsumeReset, ConsumeResetWhenIdle,
         ConsumeProtobufClientConnection, ConsumePollFeedback, ConsumeTickleSerialPort
<1>2. CASE Ignore \/ Fail
  BY <1>1, <1>2, IgnoreLink
<1>3. CASE ConsumeGCodeLoadFailed \/ ConsumeProtobufClientConnection
  BY <1>2, <1>3 DEF ConsumeGCodeLoadFailed, ConsumeProtobufClientConnection
<1>4. CASE ConsumePollFeedback \/ ConsumeTickleSerialPort
  BY <1>1, <1>2, <1>4, TimerCases, HandledLink
<1>5. CASE ConsumeReset
  BY <1>5 DEF ConsumeReset
<1>6. CASE /\ queue' = Tail(queue) /\ UNCHANGED <<st, armed, tx, rx, fw>>
           /\ ready'.line = ready.line
  BY <1>1, <1>6, ConsumedLink, LineKept, CalmerSame DEF LinkOK
<1>7. CASE ConsumePauseTask
  <2>1. Ignore \/ (queue' = Tail(queue) /\ UNCHANGED <<st, armed, tx, rx, fw>>)
    BY <1>7 DEF ConsumePauseTask
  <2>2. Ignore \/ ready'.line = ready.line
    BY <1>7 DEF ConsumePauseTask, TypeOK, ReadyState
  <2>3. QED BY <1>2, <1>6, <2>1, <2>2
<1>8. CASE ConsumeDeleteTaskHistory \/ ConsumeResetWhenIdle
  BY <1>6, <1>8 DEF ConsumeDeleteTaskHistory, ConsumeResetWhenIdle
<1>9. CASE ConsumeEstop
  <2>1. OpenPort /\ st' = "EStopped" /\ armed' = {}
    BY <1>9 DEF ConsumeEstop, Leave
  <2>2. QueueOK' /\ fw'.glued = fw.glued
    BY <1>1, <2>1, OpenPortLink DEF LinkOK
  <2>3. QED BY <2>1, <2>2, LineLeft DEF LinkOK
<1>10. QED BY <1>3, <1>4, <1>5, <1>7, <1>8, <1>9

\* The reader of the port.
LEMMA ReadLink ==
  ASSUME TypeOK, LinkOK, Read
  PROVE  LinkOK'
<1> DEFINE e == Head(rx)
<1>1. rx \in Seq(Response) /\ rx # <<>> /\ queue \in Seq(Event)
  BY DEF TypeOK, Read
<1>2. e \in Response /\ e \in Event /\ e = rx[1] /\ 1 \in DOMAIN rx
  <2>1. Len(rx) \in Nat /\ Len(rx) # 0 /\ DOMAIN rx = 1 .. Len(rx)
    BY <1>1, LenProperties, EmptySeq
  <2>2. QED BY <1>1, <2>1, HeadTailProperties, EventTypes
<1>3. e.type \in Responses
  BY <1>2 DEF Response
<1>4. e.type \notin Losses \cup {"Init", "ConnectionTimeout", "SerialPortOpened"}
  BY <1>3 DEF Responses, Losses
<1>5. \A types : Has(Tail(rx), types) => Has(rx, types)
  <2>1. Tail(rx) \in Seq(Response) /\ DOMAIN Tail(rx) = 1 .. Len(rx) - 1
        /\ DOMAIN rx = 1 .. Len(rx) /\ Len(rx) \in Nat
        /\ \A i \in 1 .. Len(rx) - 1 : Tail(rx)[i] = rx[i + 1]
    BY <1>1, HeadTailProperties, LenProperties
  <2>2. \A i \in DOMAIN Tail(rx) : i + 1 \in DOMAIN rx /\ Tail(rx)[i] = rx[i + 1]
    BY <2>1
  <2>3. QED BY <2>2 DEF Has
<1>6. \A types : e.type \in types => Has(rx, types)
  BY <1>2 DEF Has
<1>7. /\ queue' = Append(queue, e) /\ rx' = Tail(rx)
      /\ UNCHANGED <<st, ready, armed, tx, fw>>
  BY DEF Read, Send
<1> HIDE DEF e
<1>8. QueueOK'
  BY <1>2, <1>4, <1>7, SentLink DEF LinkOK
<1>9. \A types : Has(queue', types) => Has(queue, types) \/ e.type \in types
  BY <1>1, <1>2, <1>7, AppendHas
<1>10. /\ Has(queue', Stirring) => Has(queue, Stirring) \/ Has(rx, Stirring)
       /\ Has(queue', Acks) => Has(queue, Acks) \/ Has(rx, Acks)
       /\ Has(queue', {"ConnectionTimeout"}) => Has(queue, {"ConnectionTimeout"})
       /\ Has(rx', Stirring) => Has(rx, Stirring)
       /\ Has(rx', Acks) => Has(rx, Acks)
  BY <1>4, <1>5, <1>6, <1>7, <1>9
<1>11. Idle => Idle'
  BY <1>7, <1>10 DEF Idle
<1>12. LineOK'
  BY <1>7, <1>10, <1>11 DEF LineOK, LinkOK
<1>13. QED BY <1>8, <1>12 DEF LinkOK

\* A delay that fires.
LEMMA FireLink ==
  ASSUME TypeOK, LinkOK, DelaysMatchState, budget'.faults = budget.faults,
         NEW key \in Delays, Fire(key)
  PROVE  LinkOK'
<1> DEFINE e == Ev(DelayEvent[key])
<1>1. /\ queue' = Append(queue, e) /\ armed' = armed \ {key} /\ key \in armed
      /\ UNCHANGED <<st, ready, tx, rx, fw>>
  BY DEF Fire, Send
<1>2. e \in Event /\ e.type = DelayEvent[key]
  <2>1. DelayEvent[key] \in OtherEvents
    BY DEF Delays, DelayEvent, OtherEvents
  <2>2. QED BY <2>1, EventTypes DEF Ev
<1>3. queue \in Seq(Event)
  BY DEF TypeOK
<1>4. CASE key # "connection_timeout"
  <2>1. e.type \in {"TickleSerialPort", "PollFeedback"}
    BY <1>2, <1>4 DEF Delays, DelayEvent
  <2>2. e.type \notin Losses \cup {"Init", "ConnectionTimeout"} /\ e.type \notin Stirring
    BY <2>1 DEF Losses, Stirring, Acks
  <2> HIDE DEF e
  <2>3. QueueOK' /\ Calmer(queue', queue)
    BY <1>1, <1>2, <2>2, SentLink DEF LinkOK
  <2>4. LineOK'
    BY <1>1, <2>3, LineKept, CalmerSame DEF LinkOK
  <2>5. QED BY <2>3, <2>4 DEF LinkOK
<1>5. CASE key = "connection_timeout"
  <2>1. Silent
    BY <1>5, NoFault DEF Fire
  <2>2. e.type = "ConnectionTimeout"
    BY <1>2, <1>5 DEF DelayEvent
  <2>3. st = "Connecting" /\ ~Has(queue, {"ConnectionTimeout"})
    BY <1>1, <1>5 DEF DelaysMatchState, LinkOK, QueueOK
  <2>4. ~Has(queue, Stirring) /\ ~Has(queue, Acks)
    <3>1. Acks \subseteq Stirring /\ Stirring \subseteq Responses \cup PortEvents
      BY DEF Stirring, Acks, Responses, PortEvents
    <3>2. QED BY <2>1, <3>1 DEF Silent, Has
  <2> HIDE DEF e
  <2>5. /\ \A types : Has(queue', types) => Has(queue, types) \/ "ConnectionTimeout" \in types
        /\ InitFirst(queue') /\ OneTimeout(queue')
    BY <1>1, <1>2, <1>3, <2>2, <2>3, AppendHas DEF LinkOK, QueueOK
  <2>6. /\ ~Has(queue', Losses) /\ (Has(queue', {"Init"}) => Has(queue, {"Init"}))
        /\ ~Has(queue', Stirring) /\ ~Has(queue', Acks)
    <3>1. /\ "ConnectionTimeout" \notin Losses /\ "ConnectionTimeout" \notin {"Init"}
          /\ "ConnectionTimeout" \notin Stirring /\ "ConnectionTimeout" \notin Acks
      BY DEF Losses, Stirring, Acks
    <3>2. QED BY <2>4, <2>5, <3>1 DEF LinkOK, QueueOK
  <2>7. QueueOK'
    <3>1. "connection_timeout" \notin armed'
      BY <1>1, <1>5
    <3>2. QED BY <1>1, <2>5, <2>6, <3>1 DEF LinkOK, QueueOK
  <2>8. tx' = <<>> /\ ~fw'.booting /\ ~Has(rx', Stirring)
    BY <1>1, <2>1 DEF Silent, Has
  <2>9. Idle'
    BY <2>6, <2>8 DEF Idle
  <2>10. LineOK'
    <3>1. LineOK /\ UNCHANGED <<st, tx, fw, ready>> /\ st' = "Connecting"
      BY <1>1, <2>3 DEF LinkOK
    <3>2. ~fw'.booting
      BY <2>8
    <3>3. QED BY <3>1, <3>2, <2>9 DEF LineOK
  <2>11. QED BY <2>7, <2>10 DEF LinkOK
<1>6. QED BY <1>4, <1>5

\* The messages of the server.
LEMMA ServerLink ==
  ASSUME TypeOK, LinkOK, budget'.faults = budget.faults,
         \/ \E t \in Task : ServerSpools(t) \/ ServerPauses(t) \/ ServerDeletesHistory(t)
         \/ \E type \in Messages : ServerRequests(type)
  PROVE  LinkOK'
<1>1. \E e \in Event : /\ queue' = Append(queue, e)
                       /\ e.type \in TaskMessages \cup (Messages \ {"DeviceDisconnected"})
  <2>1. ASSUME NEW t \in Task, ServerSpools(t) \/ ServerPauses(t) \/ ServerDeletesHistory(t)
        PROVE  \E type \in TaskMessages, n \in Nat : queue' = Append(queue, TaskEv(type, t, n))
    <3>1. prog[t].n + 1 \in Nat /\ 0 \in Nat
      BY DEF TypeOK
    <3>2. QED BY <2>1, <3>1 DEF ServerSpools, ServerPauses, ServerDeletesHistory, Send,
                                TaskMessages
  <2>2. ASSUME NEW type \in Messages, ServerRequests(type)
        PROVE  queue' = Append(queue, Ev(type)) /\ type # "DeviceDisconnected"
    BY <2>2, NoFault DEF ServerRequests, Send
  <2>3. \A type \in TaskMessages, t \in Task, n \in Nat :
          TaskEv(type, t, n) \in Event /\ TaskEv(type, t, n).type = type
    BY EventTypes DEF TaskEv
  <2>4. \A type \in Messages : Ev(type) \in Event /\ Ev(type).type = type
    BY EventTypes DEF Ev, OtherEvents
  <2>5. QED BY <2>1, <2>2, <2>3, <2>4
<1>2. PICK e \in Event :
        /\ queue' = Append(queue, e)
        /\ e.type \in TaskMessages \cup (Messages \ {"DeviceDisconnected"})
  BY <1>1
<1>3. UNCHANGED <<st, ready, armed, tx, rx, fw>>
  BY DEF ServerSpools, ServerPauses, ServerDeletesHistory, ServerRequests
<1>4. e.type \notin Losses \cup {"Init", "ConnectionTimeout"} /\ e.type \notin Stirring
  BY <1>2 DEF Losses, Stirring, Acks, TaskMessages, Messages
<1>5. QueueOK' /\ Calmer(queue', queue)
  BY <1>2, <1>3, <1>4, SentLink DEF LinkOK
<1>6. LineOK'
  BY <1>3, <1>5, LineKept, CalmerSame DEF LinkOK
<1>7. QED BY <1>5, <1>6 DEF LinkOK

\* The firmware turns to a line that it expects, and answers it.
LEMMA TurnsLink ==
  ASSUME TypeOK, LinkOK, Turns, InOrder(Head(tx)) => Accept(Head(tx)),
         ~InOrder(Head(tx)) => fw' = fw
  PROVE  LinkOK'
<1> DEFINE x == Head(tx)
<1>1. /\ tx \in Seq(WireLine) /\ tx # <<>> /\ ~fw.booting /\ ~fw.glued
      /\ fw \in Firmwares /\ fw.last \in Nat /\ ready.line \in Nat
  BY DEF TypeOK, ReadyState, Turns, LinkOK, LineOK, Firmwares
<1>2. tx' = Tail(tx) /\ UNCHANGED <<st, ready, queue, armed>>
  BY DEF Turns
<1>3. ~Idle /\ st # "Disconnected"
  BY <1>1 DEF Idle, LinkOK, LineOK
<1>4. fw'.booting = FALSE /\ fw'.glued = FALSE
  BY <1>1 DEF Accept, Firmwares
<1>5. QueueOK'
  BY <1>2 DEF LinkOK, QueueOK
<1>6. CASE st = "Connecting"
  <2>1. fw.last = 0 /\ (\A i \in DOMAIN tx : tx[i].num = 0)
        /\ ~Has(queue, {"ConnectionTimeout"})
    BY <1>3, <1>6 DEF LinkOK, LineOK
  <2>2. x.num = 0 /\ \A i \in DOMAIN Tail(tx) : Tail(tx)[i].num = 0
    <3>1. /\ Len(tx) \in Nat /\ Len(tx) # 0 /\ DOMAIN tx = 1 .. Len(tx)
          /\ x = tx[1] /\ DOMAIN Tail(tx) = 1 .. Len(tx) - 1
          /\ \A i \in 1 .. Len(tx) - 1 : Tail(tx)[i] = tx[i + 1]
      BY <1>1, HeadTailProperties, LenProperties, EmptySeq
    <3>2. 1 \in DOMAIN tx /\ \A i \in DOMAIN Tail(tx) : i + 1 \in DOMAIN tx
      BY <3>1
    <3>3. QED BY <2>1, <3>1, <3>2
  <2>3. fw'.last = 0
    <3>1. InOrder(x)
      BY <2>2 DEF InOrder
    <3>2. QED BY <1>1, <2>1, <2>2, <3>1 DEF Accept, Firmwares
  <2>4. LineOK'
    BY <1>2, <1>4, <1>6, <2>1, <2>2, <2>3 DEF LineOK
  <2>5. QED BY <1>5, <2>4 DEF LinkOK
<1>7. CASE st = "Ready"
  <2>1. InStep(tx, fw.last, ready.line)
    BY <1>7 DEF LinkOK, LineOK
  <2>2. /\ x.num \in {0, fw.last + 1}
        /\ InStep(Tail(tx), IF x.code = "M110" THEN 0
                            ELSE IF x.num = 0 THEN fw.last ELSE x.num, ready.line)
    BY <1>1, <2>1, InStepHead
  <2>3. fw'.last = IF x.code = "M110" THEN 0 ELSE IF x.num = 0 THEN fw.last ELSE x.num
    <3>1. InOrder(x)
      BY <2>2 DEF InOrder
    <3>2. QED BY <1>1, <3>1 DEF Accept, Firmwares
  <2>4. LineOK'
    BY <1>2, <1>4, <1>7, <2>2, <2>3 DEF LineOK
  <2>5. QED BY <1>5, <2>4 DEF LinkOK
<1>8. CASE st \notin {"Disconnected", "Connecting", "Ready"}
  <2>1. LineOK'
    BY <1>2, <1>4, <1>8 DEF LineOK
  <2>2. QED BY <1>5, <2>1 DEF LinkOK
<1>9. QED BY <1>3, <1>6, <1>7, <1>8

\* Reports that were not asked for.
LEMMA ReportsLink ==
  ASSUME TypeOK, LinkOK, budget'.faults = budget.faults,
         NEW type \in {"Temperatures", "Busy", "Unknown", "Error"}, FirmwareReports(type)
  PROVE  LinkOK'
<1>1. type # "Error"
  BY NoFault DEF FirmwareReports
<1>2. rx' = <<ResponseEv(type, 0)>>
      /\ UNCHANGED <<st, ready, queue, armed, tx, fw>>
  BY DEF FirmwareReports
<1>3. \A i \in DOMAIN rx' : rx'[i].type = type
  BY <1>2 DEF ResponseEv
<1>4. ~Has(rx', Stirring) /\ ~Has(rx', Acks)
  BY <1>1, <1>3 DEF Has, Stirring, Acks
<1>5. QueueOK'
  BY <1>2 DEF LinkOK, QueueOK
<1>6. Idle => Idle'
  BY <1>2, <1>4 DEF Idle
<1>7. LineOK'
  BY <1>2, <1>4, <1>6 DEF LinkOK, LineOK
<1>8. QED BY <1>5, <1>7 DEF LinkOK

\* A firmware that has restarted.
LEMMA BootsLink ==
  ASSUME TypeOK, LinkOK, FirmwareBoots
  PROVE  LinkOK'
<1>1. fw \in Firmwares /\ fw.booting /\ tx \in Seq(WireLine)
  BY DEF TypeOK, Firmwares, FirmwareBoots
<1>2. st \notin {"Disconnected", "Ready"} /\ ~Idle
  BY <1>1 DEF LinkOK, LineOK, Idle
<1>3. UNCHANGED <<st, ready, queue, armed>>
  BY DEF FirmwareBoots
<1>4. ~fw'.booting /\ ~fw'.glued /\ fw'.last = 0
  BY <1>1 DEF FirmwareBoots, Firmwares
<1>5. QueueOK'
  BY <1>3 DEF LinkOK, QueueOK
<1>6. st = "Connecting" => \A i \in DOMAIN tx' : tx'[i].num = 0
  <2>1. tx' = tx \/ tx' = <<>>
    BY DEF FirmwareBoots
  <2>2. QED BY <2>1 DEF LinkOK, LineOK
<1>7. LineOK'
  BY <1>2, <1>3, <1>4, <1>6 DEF LinkOK, LineOK
<1>8. QED BY <1>5, <1>7 DEF LinkOK

\* The firmware.
LEMMA FirmwareLink ==
  ASSUME TypeOK, LinkOK, budget'.faults = budget.faults, Firmware
  PROVE  LinkOK'
<1>1. CASE FirmwareAnswers
  <2>1. ~fw.glued
    BY DEF LinkOK, LineOK
  <2>2. QED BY <1>1, <2>1, TurnsLink DEF FirmwareAnswers
<1>2. CASE FirmwarePauses
  BY <1>2, TurnsLink DEF FirmwarePauses
<1>3. CASE LineCorrupted \/ NewlineLost \/ AnswerLost \/ FirmwareRestarts
  BY <1>3, NoFault DEF LineCorrupted, NewlineLost, AnswerLost, FirmwareRestarts
<1>4. CASE FirmwareBoots
  BY <1>4, BootsLink
<1>5. CASE \E type \in {"Temperatures", "Busy", "Unknown", "Error"} : FirmwareReports(type)
  BY <1>5, ReportsLink
<1>6. QED BY <1>1, <1>2, <1>3, <1>4, <1>5 DEF Firmware

\* No step gives a fault back, and a process that has ended stays so.
LEMMA NextBudget ==
  ASSUME TypeOK, [Next]_vars
  PROVE  /\ budget'.faults <= budget.faults
         /\ proc' = "Running" => proc = "Running"
         /\ budget'.faults \in Nat /\ budget.faults \in Nat
<1>1. budget \in Budgets /\ budget.faults \in Nat
  BY DEF TypeOK, Budgets
<1>2. ASSUME NEW kind \in {"faults", "requests", "polls", "reports"}, Spend(kind)
      PROVE  budget'.faults \in Nat /\ budget'.faults <= budget.faults
  <2>1. budget' = [budget EXCEPT ![kind] = budget[kind] - 1] /\ budget[kind] > 0
    BY <1>2 DEF Spend
  <2>2. CASE kind = "faults"
    BY <1>1, <2>1, <2>2 DEF Budgets
  <2>3. CASE kind # "faults"
    BY <1>1, <2>1, <2>3 DEF Budgets
  <2>4. QED BY <2>2, <2>3
<1>3. CASE Consume
  <2>1. proc = "Running"
    BY <1>3 DEF Consume, Receives, ConsumeInit, ConsumeSerialPortOpened,
         ConsumeSerialPortDisconnected, ConsumeSerialPortError, ConsumeConnectionTimeout,
         ConsumeDeviceDiscovered, ConsumeDeviceDisconnected, ConsumeOk, ConsumeFeedback,
         ConsumeError, ConsumeGreeting, ConsumeResend, ConsumeAutoreportTemp,
         ConsumeUnknown, ConsumeSpoolTask, ConsumeGCodeLoaded, ConsumeGCodeLoadFailed,
         ConsumePauseTask, ConsumeDeleteTaskHistory, ConsumeEstop, ConsumeReset,
         ConsumeResetWhenIdle, ConsumeProtobufClientConnection, ConsumePollFeedback,
         ConsumeTickleSerialPort
  <2>2. budget' = budget \/ Spend("faults")
    <3>1. \A o, delays : Complete(o, delays) => budget' = budget
      BY DEF Complete, Execute, Errored
    <3>2. Handled \/ Connected => budget' = budget
      BY <3>1 DEF Handled, Connected
    <3>3. Ignore \/ AppendToError \/ Fail \/ Disconnect => budget' = budget
      BY DEF Ignore, AppendToError, Fail, Errored, Disconnect
    <3>4. OpenPort => budget' = budget \/ Spend("faults")
      BY DEF OpenPort
    <3>5. (\E n \in 0 .. Bauds : NextBaud(n)) \/ ConsumeEstop => OpenPort \/ Disconnect
      BY DEF NextBaud, ConsumeEstop
    <3>6. ConsumeSpoolTask => budget' = budget \/ Spend("faults")
      BY <3>3 DEF ConsumeSpoolTask, Execute, Errored
    <3>7. ResetLineNumber \/ ConsumeAutoreportTemp => budget' = budget
      BY <3>1, <3>3 DEF ResetLineNumber, ConsumeAutoreportTemp
    <3>8. (\/ ConsumeGCodeLoaded \/ ConsumePauseTask \/ ConsumeDeleteTaskHistory
           \/ ConsumeReset \/ ConsumeResetWhenIdle) => budget' = budget
      BY <3>1, <3>3 DEF ConsumeGCodeLoaded, ConsumePauseTask, ConsumeDeleteTaskHistory,
           ConsumeReset, ConsumeResetWhenIdle
    <3>9. \/ Ignore \/ AppendToError \/ Fail \/ Disconnect \/ Handled \/ Connected
          \/ OpenPort \/ ConsumeSpoolTask \/ ResetLineNumber \/ ConsumeAutoreportTemp
          \/ ConsumeGCodeLoaded \/ ConsumePauseTask \/ ConsumeDeleteTaskHistory
          \/ ConsumeReset \/ ConsumeResetWhenIdle
      BY <1>3, <3>5, ConsumeCases
    <3>10. QED BY <3>2, <3>3, <3>4, <3>6, <3>7, <3>8, <3>9
  <2>3. QED BY <1>1, <1>2, <2>1, <2>2
<1>4. CASE Next /\ ~Consume
  <2>1. \/ budget' = budget
        \/ \E kind \in {"faults", "requests", "polls", "reports"} : Spend(kind)
    BY <1>4 DEF Next, Fire, Read, Unplug, ServerSpools, ServerPauses,
         ServerDeletesHistory, ServerRequests, Firmware, FirmwareAnswers, LineCorrupted,
         NewlineLost, AnswerLost, FirmwarePauses, FirmwareRestarts, FirmwareBoots,
         FirmwareReports
  <2>2. proc' = proc
    BY <1>4 DEF Next, Fire, Read, Unplug, ServerSpools, ServerPauses,
         ServerDeletesHistory, ServerRequests, Firmware, FirmwareAnswers, LineCorrupted,
         NewlineLost, AnswerLost, FirmwarePauses, Turns, FirmwareRestarts, FirmwareBoots,
         FirmwareReports
  <2>3. QED BY <1>1, <1>2, <2>1, <2>2
<1>5. CASE UNCHANGED vars
  BY <1>1, <1>5 DEF vars
<1>6. QED BY <1>3, <1>4, <1>5

\* At the start.
LEMMA InitLink ==
  ASSUME Init
  PROVE  LinkInv
<1> DEFINE e(n) == [Ev("Init") EXCEPT !.n = n]
<1>1. PICK available \in {0, 1} : queue = <<e(available)>>
  BY DEF Init
<1>2. \A i \in DOMAIN queue : i = 1 /\ queue[i].type = "Init"
  BY <1>1 DEF Ev
<1>3. /\ ~Has(queue, Losses) /\ ~Has(queue, Stirring) /\ ~Has(queue, {"ConnectionTimeout"})
      /\ InitFirst(queue) /\ OneTimeout(queue)
  BY <1>2 DEF Has, Losses, Stirring, Acks, InitFirst, OneTimeout
<1>4. QueueOK
  BY <1>3 DEF QueueOK, Init
<1>5. LineOK
  <2>1. tx = <<>> /\ rx = <<>> /\ st = "Disconnected"
        /\ ~fw.booting /\ ~fw.glued /\ fw.last = 0
    BY DEF Init
  <2>2. ~Has(rx, Stirring)
    BY <2>1 DEF Has
  <2>3. QED BY <1>3, <2>1, <2>2 DEF LineOK, Idle
<1>6. budget.faults = MaxFaults /\ MaxFaults \in Nat
  BY DriverAssumption DEF Init
<1>7. QED BY <1>4, <1>5, <1>6 DEF LinkInv, LinkOK

\* Every step keeps it: one that is no fault, because nothing is lost in it;
\* a fault, because nothing is claimed after it.
LEMMA NextLink ==
  ASSUME TypeOK, DelaysMatchState, LinkInv, [Next]_vars
  PROVE  LinkInv'
<1>1. /\ budget'.faults <= budget.faults /\ budget.faults <= MaxFaults
      /\ budget'.faults \in Nat /\ budget.faults \in Nat /\ MaxFaults \in Nat
      /\ proc' = "Running" => proc = "Running"
  BY NextBudget, DriverAssumption DEF LinkInv
<1>2. budget'.faults <= MaxFaults
  BY <1>1
<1>3. ASSUME budget'.faults = MaxFaults, proc' = "Running"
      PROVE  LinkOK'
  <2>1. budget'.faults = budget.faults /\ LinkOK
    BY <1>1, <1>3 DEF LinkInv
  <2>2. CASE Consume
    BY <1>3, <2>1, <2>2, ConnectionLink, ResponsesLink, LoadedLink, MessagesLink
       DEF Consume
  <2>3. CASE \E key \in Delays : Fire(key)
    BY <2>1, <2>3, FireLink
  <2>4. CASE Read
    BY <2>1, <2>4, ReadLink
  <2>5. CASE Unplug
    BY <2>1, <2>5, NoFault DEF Unplug
  <2>6. CASE \/ \E t \in Task : ServerSpools(t) \/ ServerPauses(t) \/ ServerDeletesHistory(t)
             \/ \E type \in Messages : ServerRequests(type)
    BY <2>1, <2>6, ServerLink
  <2>7. CASE Firmware
    BY <2>1, <2>7, FirmwareLink
  <2>8. CASE UNCHANGED vars
    BY <2>1, <2>8 DEF vars, LinkOK, QueueOK, LineOK, Idle
  <2>9. QED BY <2>2, <2>3, <2>4, <2>5, <2>6, <2>7, <2>8 DEF Next
<1>4. QED BY <1>2, <1>3 DEF LinkInv

\* As long as no fault has happened, what the channel, the wire and the firmware
\* hold of a connection fits the state of the driver (State::consume,
\* reset_line_number, reconnect_with_next_baud and the handlers of ReadyState).
THEOREM LinkCorrect == Spec => []LinkInv
<1>1. Init => LinkInv
  BY InitLink
<1>2. TypeOK /\ DelaysMatchState /\ LinkInv /\ [Next]_vars => LinkInv'
  BY NextLink
<1>3. QED BY <1>1, <1>2, TypeCorrect, DelaysCorrect, PTL DEF Spec

\* Over a link that has lost nothing the lines in transit are numbered without a
\* gap from the one the firmware expects (send_serial with a line number,
\* reset_line_number and the firmware's rule).
THEOREM NumbersCorrect == Spec => []LineNumbersInStep
<1>1. TypeOK /\ LinkInv => LineNumbersInStep
  <2> SUFFICES ASSUME TypeOK, LinkInv, st = "Ready", proc = "Running",
                      budget.faults = MaxFaults
               PROVE  LET upTo(i) == Cardinality({j \in 1 .. i : tx[j].num > 0})
                      IN  /\ \A i \in DOMAIN tx :
                               tx[i].num > 0 => tx[i].num = fw.last + upTo(i)
                          /\ ready.line = fw.last + upTo(Len(tx)) + 1
    BY DEF LineNumbersInStep
  <2>1. tx \in Seq(WireLine) /\ fw.last \in Nat /\ ready.line \in Nat
    BY DEF TypeOK, ReadyState
  <2>2. InStep(tx, fw.last, ready.line)
    BY DEF LinkInv, LinkOK, LineOK
  <2>3. QED BY <2>1, <2>2, InStepCounts
<1>2. QED BY <1>1, TypeCorrect, LinkCorrect, PTL

=============================================================================
