----------------------------- MODULE LossProofs -----------------------------
(***************************************************************************)
(* How the records, which are the machine's, agree with the spool, which   *)
(* is the driver's, for every set of tasks, every number of operations and *)
(* faults and every size of the mailbox.                                   *)
(*                                                                         *)
(* The driver runs no task whose record has settled: the invariant (Apart) *)
(* follows the one stream of feedback that the machine hears.              *)
(*                                                                         *)
(* No task stays recorded as running which the driver has lost, unless a   *)
(* restart of the actor misleads it (Misleads). The two differ by what is  *)
(* on its way, so the invariant (Foretold) says what the mailbox has in    *)
(* store: behind each message that will record a task as running there is  *)
(* one that takes it back, or the driver has the task.                     *)
(***************************************************************************)
EXTENDS MachineActorProofs

-----------------------------------------------------------------------------
(***************************************************************************)
(* The events of the driver's stream in the mailbox, and their order.      *)
(***************************************************************************)
Served == {"ready", "estopped"}

Streamed(e) == e.type \in {"Feedback", "Closed"}

Events(box) == {box[i] : i \in {j \in 1 .. Len(box) : Streamed(box[j])}}

\* The end of a stream is behind its feedbacks, and behind a feedback of a driver
\* that is ready or stopped there is none of one that is not.
Follows(a, b) ==
  /\ a.type = "Closed" => ~Streamed(b)
  /\ a.type = "Feedback" /\ b.type = "Feedback" /\ a.st \in Served => b.st \in Served

Ordered(box) == \A i, j \in 1 .. Len(box) : i < j => Follows(box[i], box[j])

\* What is left of a mailbox behind which nothing of the stream has come.
Leads(a, b) == Events(b) \subseteq Events(a) /\ (Ordered(a) => Ordered(b))

LEMMA LeadsBeyond ==
  /\ \A a : Leads(a, a)
  /\ \A a, b, c : Leads(a, b) /\ Leads(b, c) => Leads(a, c)
BY DEF Leads

LEMMA EventIs ==
  ASSUME NEW box, NEW e \in Events(box)
  PROVE  Streamed(e) /\ \E i \in 1 .. Len(box) : box[i] = e
BY DEF Events

LEMMA EventsJoin ==
  ASSUME NEW M, NEW s \in Seq(M), NEW x \in Seq(M)
  PROVE  /\ Events(s \o x) = Events(s) \cup Events(x)
         /\ Ordered(s) /\ Ordered(x) /\ (\A a \in Events(s), b \in Events(x) : Follows(a, b))
              => Ordered(s \o x)
<1> DEFINE q == s \o x
           n == Len(s)
           k == Len(x)
<1>1. /\ n \in Nat /\ k \in Nat /\ Len(q) = n + k
      /\ \A i \in 1 .. n : i \in 1 .. n + k /\ q[i] = s[i]
      /\ \A i \in 1 .. k : n + i \in 1 .. n + k /\ q[n + i] = x[i]
  BY ConcatProperties
<1>2. \A i \in 1 .. n + k : i \in 1 .. n \/ (i - n \in 1 .. k /\ i = n + (i - n))
  BY <1>1
<1>3. Events(q) \subseteq Events(s) \cup Events(x)
  <2>1. SUFFICES ASSUME NEW i \in 1 .. n + k, Streamed(q[i])
                 PROVE  q[i] \in Events(s) \cup Events(x)
    BY <1>1 DEF Events
  <2> HIDE DEF q, n, k
  <2>2. CASE i \in 1 .. n
    <3>1. q[i] = s[i]
      BY <1>1, <2>2
    <3>2. QED
      BY <2>1, <2>2, <3>1 DEF Events, n
  <2>3. CASE i - n \in 1 .. k /\ i = n + (i - n)
    <3>1. q[i] = x[i - n]
      BY <1>1, <2>3
    <3>2. QED
      BY <2>1, <2>3, <3>1 DEF Events, k
  <2>4. QED
    BY <1>2, <2>2, <2>3
<1>4. Events(s) \cup Events(x) \subseteq Events(q)
  <2>1. ASSUME NEW i \in 1 .. n, Streamed(s[i]) PROVE s[i] \in Events(q)
    <3> HIDE DEF q, n, k
    <3>1. i \in 1 .. Len(q) /\ q[i] = s[i]
      BY <1>1
    <3>2. QED
      BY <2>1, <3>1 DEF Events
  <2>2. ASSUME NEW i \in 1 .. k, Streamed(x[i]) PROVE x[i] \in Events(q)
    <3> HIDE DEF q, n, k
    <3>1. n + i \in 1 .. Len(q) /\ q[n + i] = x[i]
      BY <1>1
    <3>2. QED
      BY <2>2, <3>1 DEF Events
  <2>3. QED
    BY <2>1, <2>2 DEF Events
<1>5. ASSUME Ordered(s), Ordered(x), \A a \in Events(s), b \in Events(x) : Follows(a, b)
      PROVE  Ordered(q)
  <2>1. SUFFICES ASSUME NEW i \in 1 .. n + k, NEW j \in 1 .. n + k, i < j
                 PROVE  Follows(q[i], q[j])
    BY <1>1 DEF Ordered
  <2>2. \A c, d : ~Streamed(c) \/ ~Streamed(d) => Follows(c, d)
    BY DEF Follows, Streamed
  <2> HIDE DEF q, n, k
  <2>3. CASE i \in 1 .. n /\ j \in 1 .. n
    <3>1. q[i] = s[i] /\ q[j] = s[j]
      BY <1>1, <2>3
    <3>2. QED
      BY <1>5, <2>1, <2>3, <3>1 DEF Ordered, n
  <2>4. CASE i \in 1 .. n /\ j - n \in 1 .. k /\ j = n + (j - n)
    <3>1. q[i] = s[i] /\ q[j] = x[j - n]
      BY <1>1, <2>4
    <3>2. CASE Streamed(q[i]) /\ Streamed(q[j])
      <4>1. q[i] \in Events(s) /\ q[j] \in Events(x)
        BY <2>4, <3>1, <3>2 DEF Events, n, k
      <4>2. QED
        BY <1>5, <4>1
    <3>3. QED
      BY <2>2, <3>2
  <2>5. CASE i - n \in 1 .. k /\ i = n + (i - n) /\ j - n \in 1 .. k /\ j = n + (j - n)
    <3>1. q[i] = x[i - n] /\ q[j] = x[j - n] /\ i - n < j - n
      BY <1>1, <2>1, <2>5
    <3>2. QED
      BY <1>5, <2>5, <3>1 DEF Ordered, k
  <2>6. i \in 1 .. n \/ (i - n \in 1 .. k /\ i = n + (i - n))
    BY <1>2
  <2>7. j \in 1 .. n \/ (j - n \in 1 .. k /\ j = n + (j - n))
    BY <1>2
  <2>8. ~(i \notin 1 .. n /\ j \in 1 .. n)
    BY <1>1, <2>1
  <2>9. QED
    BY <2>3, <2>4, <2>5, <2>6, <2>7, <2>8
<1>6. QED
  BY <1>3, <1>4, <1>5

LEMMA LeadsTail ==
  ASSUME NEW M, NEW s \in Seq(M), s # <<>>
  PROVE  /\ Leads(s, Tail(s))
         /\ Ordered(s) => \A e \in Events(Tail(s)) : Follows(Head(s), e)
         /\ Streamed(Head(s)) => Head(s) \in Events(s)
<1> DEFINE x == Tail(s)
<1>1. /\ Len(s) \in Nat \ {0} /\ Len(x) = Len(s) - 1 /\ Head(s) = s[1]
      /\ \A i \in 1 .. Len(x) : x[i] = s[i + 1]
  BY HeadTailProperties
<1> HIDE DEF x
<1>2. \A i \in 1 .. Len(x) : i + 1 \in 1 .. Len(s) /\ x[i] = s[i + 1] /\ 1 < i + 1
  BY <1>1
<1>3. Events(x) \subseteq Events(s)
  BY <1>2 DEF Events
<1>4. ASSUME Ordered(s), NEW i \in 1 .. Len(x), NEW j \in 1 .. Len(x), i < j
      PROVE  Follows(x[i], x[j])
  <2>1. i + 1 \in 1 .. Len(s) /\ j + 1 \in 1 .. Len(s) /\ i + 1 < j + 1
    BY <1>2, <1>4
  <2>2. QED
    BY <1>2, <1>4, <2>1 DEF Ordered
<1>5. ASSUME Ordered(s), NEW e \in Events(x) PROVE Follows(Head(s), e)
  <2>1. PICK i \in 1 .. Len(x) : x[i] = e
    BY EventIs
  <2>2. 1 \in 1 .. Len(s) /\ i + 1 \in 1 .. Len(s) /\ 1 < i + 1
    BY <1>1, <1>2
  <2>3. QED
    BY <1>1, <1>2, <1>5, <2>1, <2>2 DEF Ordered
<1>6. Streamed(Head(s)) => Head(s) \in Events(s)
  <2>1. 1 \in 1 .. Len(s)
    BY <1>1
  <2>2. QED
    BY <1>1, <2>1 DEF Events
<1>7. QED
  BY <1>3, <1>4, <1>5, <1>6 DEF Leads, Ordered, x

LEMMA EventsNone ==
  ASSUME NEW M, NEW e \in M, ~Streamed(e)
  PROVE  Events(<<e>>) = {} /\ Ordered(<<e>>)
BY DEF Events, Ordered

LEMMA EventsOne ==
  ASSUME NEW M, NEW e \in M
  PROVE  Events(<<e>>) \subseteq {e} /\ Ordered(<<e>>)
BY DEF Events, Ordered

LEMMA LeadsAppend ==
  ASSUME NEW M, NEW s \in Seq(M), NEW e, ~Streamed(e)
  PROVE  Leads(s, Append(s, e))
<1> DEFINE N == M \cup {e}
<1>1. s \in Seq(N) /\ <<e>> \in Seq(N) /\ e \in N
  BY SeqMonotonic
<1>2. Append(s, e) = s \o <<e>>
  <2>1. e \in N /\ s \in Seq(N)
    BY <1>1
  <2> HIDE DEF N
  <2>2. QED
    BY <2>1, AppendIsConcat
<1> DEFINE x == <<e>>
<1>3. Events(x) = {} /\ Ordered(x)
  BY <1>1, EventsNone
<1>4. x \in Seq(N)
  BY <1>1
<1> HIDE DEF N, x
<1>5. /\ Events(s \o x) = Events(s) \cup Events(x)
      /\ Ordered(s) => Ordered(s \o x)
  <2>1. \A a \in Events(s), b \in Events(x) : Follows(a, b)
    BY <1>3
  <2>2. /\ Events(s \o x) = Events(s) \cup Events(x)
        /\ Ordered(s) /\ Ordered(x) => Ordered(s \o x)
    BY <1>1, <1>4, <2>1, EventsJoin
  <2>3. QED
    BY <1>3, <2>2
<1>6. QED
  BY <1>2, <1>3, <1>5 DEF Leads, x

LEMMA LeadsStale ==
  ASSUME NEW r, NEW u, NEW S, NEW U, NEW ts, Moved(r, u, S, U, ts),
         NEW box \in Seq(Messages(r, S))
  PROVE  Leads(box, StaleIn(ts, box))
<1> DEFINE x == StaleIn(ts, box)
<1>1. /\ Len(box) \in Nat /\ Len(x) = Len(box)
      /\ \A i \in 1 .. Len(box) : x[i].type = box[i].type
  BY StaleKeeps
<1>2. ASSUME NEW i \in 1 .. Len(box), Streamed(box[i]) PROVE x[i] = box[i]
  <2>1. x[i] = Stale(ts, box[i])
    BY DEF StaleIn, Stale
  <2>2. QED
    BY <1>2, <2>1 DEF Stale, Streamed
<1> HIDE DEF x
<1>3. \A i \in 1 .. Len(box) : Streamed(x[i]) <=> Streamed(box[i])
  BY <1>1 DEF Streamed
<1>4. Events(x) \subseteq Events(box)
  BY <1>1, <1>2, <1>3 DEF Events
<1>5. ASSUME Ordered(box), NEW i \in 1 .. Len(x), NEW j \in 1 .. Len(x), i < j
      PROVE  Follows(x[i], x[j])
  <2>1. i \in 1 .. Len(box) /\ j \in 1 .. Len(box) /\ Follows(box[i], box[j])
    BY <1>1, <1>5 DEF Ordered
  <2>2. CASE Streamed(box[i]) /\ Streamed(box[j])
    BY <1>2, <2>1, <2>2
  <2>3. CASE ~Streamed(box[i]) \/ ~Streamed(box[j])
    BY <1>1, <2>1, <2>3 DEF Follows, Streamed
  <2>4. QED
    BY <2>2, <2>3
<1>6. QED
  BY <1>4, <1>5 DEF Leads, Ordered, x

LEMMA LeadsPlain ==
  ASSUME NEW M, NEW s \in Seq(M), NEW x \in Seq(M), \A i \in 1 .. Len(x) : ~Streamed(x[i])
  PROVE  Leads(s, s \o x)
<1>1. Events(x) = {} /\ Ordered(x)
  BY DEF Events, Ordered, Follows, Streamed
<1>2. /\ Events(s \o x) = Events(s) \cup Events(x)
      /\ Ordered(s) => Ordered(s \o x)
  BY <1>1, EventsJoin
<1>3. QED
  BY <1>1, <1>2 DEF Leads

-----------------------------------------------------------------------------
(***************************************************************************)
(* The driver runs nothing unseen: the inductive invariant.                *)
(***************************************************************************)

\* How often the driver has a task, in its socket and in its spool.
Driven(t) == CountOf(wire, OnWire(t)) + CountOf(drv.spool, {t})

\* The machine can be sent tasks.
Up(mm) == mm.status \in {"Printing", "Ready"} \/ mm.homed

\* The stream carries nothing but feedbacks of the driver that the machine is
\* connected to, and a machine without a stream shows nothing of one.
Linked ==
  /\ Ordered(mail)
  /\ m.conn # "none" => m.attempting
  /\ m.conn # "live" => ~drv.up /\ wire = <<>> /\ drv.spool = <<>>
  /\ m.conn = "live" => drv.up /\ \A e \in Events(mail) : e.type = "Feedback"
  /\ m.conn = "none" => Events(mail) = {} /\ ~Up(m) /\ m.saved = NoTask

\* The machine has seen the driver ready, and so have the feedbacks that are left.
Serving == m.seen /\ drv.st \in Served /\ \A e \in Events(mail) : e.st \in Served

\* The driver does not fall back behind the feedbacks that are still to be handled,
\* and it has tasks only from a machine that has seen it ready.
Lives ==
  /\ drv.st # "ready" => drv.spool = <<>>
  /\ \A e \in Events(mail) : /\ e.st \in Served => drv.st \in Served
                             /\ drv.st = "ready" => e.st # "estopped"
  /\ Up(m) => Serving
  /\ \A t \in Task : Driven(t) > 0 => Serving

OnceDriven == \A t \in Inlines : Driven(t) <= 1

NewInlines == \A t \in Inlines : rec[t] = "created" => t \notin sent

\* No entry says that a task has come to its end.
Endless(t) == {e \in [task : Task, status : Progress] : e.task = t => e.status \notin Final}
NoEnd(prog, t) == prog \in Seq(Endless(t))

\* The tasks that are still to be run: the driver has them, or they are paused and
\* the machine has been told or will be.
Held(t) == \/ drv.st = "ready" /\ Driven(t) > 0
           \/ m.saved = t
           \/ \E e \in Events(mail) : e.flag = t

Unended == \A t \in Task : Held(t) => /\ NoEnd(drv.prog, t)
                                      /\ \A e \in Events(mail) : NoEnd(e.prog, t)

Unsettled == \A t \in Task : drv.st = "ready" /\ Driven(t) > 0 => rec[t] \in Pending

Apart ==
  ~parted => /\ Linked
             /\ m.conn = "live" => Lives
             /\ OnceDriven
             /\ NewInlines
             /\ ~crossed /\ m.conn = "live" => Unsettled /\ Unended

LEMMA DrivenIs ==
  ASSUME TypeOK, NEW t \in Task
  PROVE  /\ CountOf(wire, OnWire(t)) \in Nat /\ CountOf(drv.spool, {t}) \in Nat
         /\ Driven(t) \in Nat
         /\ Driven(t) > 0 => t \in sent
         /\ Driven(t) = 0 => ~InDriver(t)
<1>1. wire \in Seq(Wires(sent)) /\ drv.spool \in Seq(sent)
  BY DEF TypeOK, Drivers
<1>2. CountOf(wire, OnWire(t)) \in Nat /\ CountOf(drv.spool, {t}) \in Nat
  BY <1>1, CountIsNat
<1>3. \A i \in 1 .. Len(wire) : wire[i] \in Wires(sent)
  BY <1>1
<1>4. \A i \in 1 .. Len(drv.spool) : drv.spool[i] \in sent
  BY <1>1
<1>5. ASSUME t \notin sent PROVE Driven(t) = 0
  <2>1. \A i \in 1 .. Len(wire) : wire[i] \notin OnWire(t)
    BY <1>3, <1>5 DEF Wires, OnWire
  <2>2. \A i \in 1 .. Len(drv.spool) : drv.spool[i] \notin {t}
    BY <1>4, <1>5
  <2>3. CountOf(wire, OnWire(t)) = 0 /\ CountOf(drv.spool, {t}) = 0
    BY <1>1, <2>1, <2>2, CountNone
  <2>4. QED
    BY <2>3 DEF Driven
<1>6. ASSUME Driven(t) = 0 PROVE ~InDriver(t)
  <2>1. CountOf(wire, OnWire(t)) = 0 /\ CountOf(drv.spool, {t}) = 0
    BY <1>2, <1>6 DEF Driven
  <2>2. ASSUME NEW i \in 1 .. Len(wire) PROVE ~(wire[i].type = "SpoolTask" /\ wire[i].task = t)
    <3>1. wire[i] \in Wireable /\ wire[i] \notin OnWire(t)
      BY <1>1, <1>3, <2>1, CountSome DEF Wires
    <3>2. QED
      BY <3>1 DEF OnWire
  <2>3. ASSUME NEW i \in 1 .. Len(drv.spool) PROVE drv.spool[i] # t
    BY <1>1, <2>1, CountSome
  <2>4. QED
    BY <2>2, <2>3 DEF InDriver
<1>7. QED
  BY <1>2, <1>5, <1>6 DEF Driven

\* What is in the mailbox.
LEMMA EventTypes ==
  ASSUME TypeOK, NEW e \in Events(mail), e.type = "Feedback"
  PROVE  /\ e \in Feedbacks /\ e.prog \in Entries(sent) /\ e.flag \in Maybe(Prints \cap sent)
         /\ e.st \in DriverSt /\ e.blocking \in BOOLEAN
<1>1. PICK i \in 1 .. Len(mail) : mail[i] = e
  BY EventIs
<1>2. mail \in Seq(Messages(rec, sent))
  BY DEF TypeOK
<1>3. e \in Messages(rec, sent)
  BY <1>1, <1>2
<1>4. e \in Feedbacks /\ e.prog \in Entries(sent) /\ e.flag \in Maybe(sent)
  BY <1>3, MailableByType DEF Messages, Names
<1>5. QED
  BY <1>4 DEF Feedbacks, Maybe

\* What was not sent has not come to its end.
LEMMA UnsentUnended ==
  ASSUME TypeOK, NEW t, t \notin sent
  PROVE  \A prog \in Entries(sent) : NoEnd(prog, t)
<1>1. [task : sent, status : Progress] \subseteq Endless(t)
  BY DEF Endless, TypeOK
<1>2. QED
  BY <1>1, SeqMonotonic DEF NoEnd, Entries

-----------------------------------------------------------------------------
(***************************************************************************)
(* A step of the server, which sends the tasks ts to the driver, ...       *)
(***************************************************************************)
Serves(ts) ==
  /\ UNCHANGED drv /\ sent' = sent \cup ts
  /\ m'.conn = m.conn /\ m'.attempting = m.attempting
  /\ Leads(mail, mail')
  /\ m.conn # "live" => wire' = wire
  /\ m.conn = "none" => ~Up(m') /\ m'.saved = NoTask
  /\ m.conn = "live" => /\ m.seen => m'.seen
                        /\ \A t \in Task : CountOf(wire', OnWire(t))
                                             <= CountOf(wire, OnWire(t)) + One(t \in ts)
                        /\ Up(m') \/ ts # {} => Serving'

\* ... to which it had not sent them before.
Sends(ts) ==
  /\ \A t \in Inlines : t \in ts => t \notin sent
  /\ \A t \in Inlines : rec'[t] = "created" => t \notin sent'

Tracks(ts) ==
  /\ \A t \in Task : drv.st = "ready" /\ (Driven(t) > 0 \/ t \in ts) => rec'[t] \in Pending
  /\ \A t \in ts : t \notin sent \/ t = m.saved
  /\ m'.saved \in {NoTask, m.saved} \/ \E e \in Events(mail) : e.flag = m'.saved

LEMMA ServerStep ==
  ASSUME TypeOK, TypeOK', Apart, ~parted, NEW ts \in SUBSET Task, Serves(ts), Sends(ts),
         crossed => crossed', ~crossed' /\ m.conn = "live" => Tracks(ts)
  PROVE  Apart'
<1>1. Linked /\ OnceDriven /\ NewInlines /\ (m.conn = "live" => Lives)
  BY DEF Apart
<1>2. /\ drv' = drv /\ m'.conn = m.conn /\ m'.attempting = m.attempting
      /\ Events(mail') \subseteq Events(mail) /\ (Ordered(mail) => Ordered(mail'))
  BY DEF Serves, Leads
<1>3. Linked'
  BY <1>1, <1>2 DEF Linked, Serves
<1>4. \A t \in Task : /\ Driven(t) \in Nat /\ Driven(t)' \in Nat /\ CountOf(wire, OnWire(t)) \in Nat
                      /\ CountOf(wire', OnWire(t)) \in Nat
                      /\ CountOf(drv.spool, {t}) \in Nat /\ (Driven(t) > 0 => t \in sent)
  <2>1. \A t \in Task : /\ Driven(t) \in Nat /\ CountOf(wire, OnWire(t)) \in Nat
                        /\ CountOf(drv.spool, {t}) \in Nat /\ (Driven(t) > 0 => t \in sent)
    BY DrivenIs
  <2>2. \A t \in Task : CountOf(wire', OnWire(t)) \in Nat
    BY CountIsNat DEF TypeOK
  <2>3. QED
    BY <1>2, <2>1, <2>2 DEF Driven
<1>5. \A t \in Task : Driven(t)' <= Driven(t) + One(m.conn = "live" /\ t \in ts)
  <2>1. SUFFICES ASSUME NEW t \in Task
                 PROVE  Driven(t)' <= Driven(t) + One(m.conn = "live" /\ t \in ts)
    OBVIOUS
  <2>2. CASE m.conn = "live"
    <3>1. CountOf(wire', OnWire(t)) <= CountOf(wire, OnWire(t)) + One(t \in ts)
      BY <2>2 DEF Serves
    <3>2. QED
      BY <1>2, <1>4, <2>2, <3>1 DEF Driven, One
  <2>3. CASE m.conn # "live"
    <3>1. wire' = wire
      BY <2>3 DEF Serves
    <3>2. QED
      BY <1>2, <1>4, <2>3, <3>1 DEF Driven, One
  <2>4. QED
    BY <2>2, <2>3
<1>6. \A t \in Task : /\ Driven(t)' > 0 => Driven(t) > 0 \/ (m.conn = "live" /\ t \in ts)
                      /\ t \notin ts => Driven(t)' <= Driven(t)
                      /\ Driven(t)' <= Driven(t) + 1
  <2>1. SUFFICES ASSUME NEW t \in Task
                 PROVE  /\ Driven(t)' > 0 => Driven(t) > 0 \/ (m.conn = "live" /\ t \in ts)
                        /\ t \notin ts => Driven(t)' <= Driven(t)
                        /\ Driven(t)' <= Driven(t) + 1
    OBVIOUS
  <2> DEFINE a == Driven(t)
             b == Driven(t)'
  <2>2. a \in Nat /\ b \in Nat /\ b <= a + One(m.conn = "live" /\ t \in ts)
    BY <1>4, <1>5
  <2> HIDE DEF a, b
  <2>3. /\ b > 0 => a > 0 \/ (m.conn = "live" /\ t \in ts)
        /\ t \notin ts => b <= a
        /\ b <= a + 1
    BY <2>2 DEF One
  <2>4. QED
    BY <2>3 DEF a, b
<1>7. OnceDriven'
  <2>1. SUFFICES ASSUME NEW t \in Inlines PROVE Driven(t)' <= 1
    BY DEF OnceDriven
  <2>2. t \in Task /\ Driven(t) <= 1
    BY <1>1 DEF OnceDriven, Task
  <2>3. t \in ts => ~(Driven(t) > 0)
    BY <1>4, <2>2 DEF Sends
  <2> DEFINE a == Driven(t)
             b == Driven(t)'
  <2>4. /\ a \in Nat /\ b \in Nat /\ a <= 1 /\ b <= a + 1
        /\ t \in ts => ~(a > 0)
        /\ t \notin ts => b <= a
    BY <1>4, <1>6, <2>2, <2>3
  <2> HIDE DEF a, b
  <2>5. b <= 1
    BY <2>4
  <2>6. QED
    BY <2>5 DEF b
<1>8. NewInlines'
  BY DEF NewInlines, Sends
<1>9. ASSUME m.conn = "live" PROVE Lives'
  <2>1. Lives
    BY <1>1, <1>9
  <2>2. Serving => Serving'
    BY <1>2, <1>9 DEF Serving, Serves
  <2>3. Up(m)' => Serving'
    BY <1>9 DEF Serves
  <2>4. ASSUME NEW t \in Task, Driven(t)' > 0 PROVE Serving'
    <3>1. Driven(t) > 0 \/ t \in ts
      BY <1>6, <2>4
    <3>2. Driven(t) > 0 => Serving
      BY <2>1 DEF Lives
    <3>3. t \in ts => Serving'
      BY <1>9 DEF Serves
    <3>4. QED
      BY <2>2, <3>1, <3>2, <3>3
  <2>5. /\ drv'.st # "ready" => drv'.spool = <<>>
        /\ \A e \in Events(mail') : /\ e.st \in Served => drv'.st \in Served
                                    /\ drv'.st = "ready" => e.st # "estopped"
    BY <1>2, <2>1 DEF Lives
  <2>6. QED
    BY <2>3, <2>4, <2>5 DEF Lives
<1>10. ASSUME ~crossed', m.conn = "live" PROVE Unsettled' /\ Unended'
  <2>1. Unended /\ Tracks(ts) /\ Linked
    BY <1>1, <1>10 DEF Apart
  <2>2. Unsettled'
    BY <1>2, <1>6, <2>1 DEF Unsettled, Tracks
  <2>3. \A e \in Events(mail) : e.type = "Feedback" /\ e.prog \in Entries(sent)
    BY <1>10, <2>1, EventTypes DEF Linked
  <2>4. drv.prog \in Entries(sent)
    BY DEF TypeOK, Drivers
  <2>5. ASSUME NEW t \in Task, Held(t)'
        PROVE  NoEnd(drv.prog, t) /\ \A e \in Events(mail) : NoEnd(e.prog, t)
    <3>1. CASE t \notin sent
      BY <2>3, <2>4, <3>1, UnsentUnended
    <3>2. CASE Held(t)
      BY <2>1, <3>2 DEF Unended
    <3>3. CASE t \in sent /\ ~Held(t)
      <4>1. drv'.st = "ready" /\ Driven(t)' > 0 => t = m.saved
        BY <1>2, <1>6, <2>1, <3>3 DEF Held, Tracks
      <4>2. t # NoTask
        BY TasksAssumption
      <4>3. m'.saved = t => m.saved = t \/ \E e \in Events(mail) : e.flag = t
        BY <2>1, <4>2 DEF Tracks
      <4>4. QED
        BY <1>2, <2>5, <3>3, <4>1, <4>3 DEF Held
    <3>4. QED
      BY <3>1, <3>2, <3>3
  <2>6. QED
    BY <1>2, <2>2, <2>5 DEF Unended
<1>11. QED
  BY <1>2, <1>3, <1>7, <1>8, <1>9, <1>10 DEF Apart

\* A step of the server that sends no task and learns nothing of the driver.
LEMMA QuietServer ==
  ASSUME TypeOK, TypeOK', Apart, parted => parted', UNCHANGED <<drv, sent>>,
         m'.conn = m.conn, m'.attempting = m.attempting, m'.seen = m.seen,
         Up(m') => Up(m), m'.saved \in {NoTask, m.saved},
         Leads(mail, mail'),
         m.conn # "live" => wire' = wire,
         \A t \in Task : CountOf(wire', OnWire(t)) <= CountOf(wire, OnWire(t)),
         \A t \in Inlines : rec'[t] = "created" /\ t \in sent => rec[t] = "created",
         ~crossed' => \A t \in sent : rec'[t] = rec[t] \/ rec'[t] \in Pending,
         crossed => crossed'
  PROVE  Apart'
<1> DEFINE ts == {}
<1>0. SUFFICES ASSUME ~parted PROVE Apart'
  BY DEF Apart
<1>1. Linked /\ OnceDriven /\ NewInlines /\ (m.conn = "live" => Lives)
  BY <1>0 DEF Apart
<1>2. Events(mail') \subseteq Events(mail)
  BY DEF Leads
<1>3. \A t \in Task : CountOf(wire', OnWire(t)) \in Nat /\ CountOf(wire, OnWire(t)) \in Nat
  BY CountIsNat DEF TypeOK
<1>4. \A t \in Task : CountOf(wire', OnWire(t)) <= CountOf(wire, OnWire(t)) + One(t \in ts)
  BY <1>3 DEF One
<1>5. m.conn = "live" /\ Up(m') => Serving'
  BY <1>1, <1>2 DEF Lives, Serving
<1>6. m.conn = "none" => ~Up(m') /\ m'.saved = NoTask
  BY <1>1 DEF Linked
<1>7. Serves(ts)
  BY <1>4, <1>5, <1>6 DEF Serves
<1>8. Sends(ts)
  BY <1>1 DEF Sends, NewInlines
<1>9. ASSUME ~crossed', m.conn = "live" PROVE Tracks(ts)
  <2>1. Unsettled
    BY <1>0, <1>9 DEF Apart
  <2>2. ASSUME NEW t \in Task, drv.st = "ready", Driven(t) > 0 PROVE rec'[t] \in Pending
    <3>1. t \in sent
      BY <2>2, DrivenIs
    <3>2. QED
      BY <1>9, <2>1, <2>2, <3>1 DEF Unsettled
  <2>3. QED
    BY <2>2 DEF Tracks
<1> HIDE DEF ts
<1>10. ts \in SUBSET Task
  BY DEF ts
<1>11. QED
  BY <1>0, <1>7, <1>8, <1>9, <1>10, ServerStep

LEMMA WireSame ==
  ASSUME TypeOK
  PROVE  \A t \in Task : CountOf(wire, OnWire(t)) <= CountOf(wire, OnWire(t))
<1>1. SUFFICES ASSUME NEW t \in Task PROVE CountOf(wire, OnWire(t)) <= CountOf(wire, OnWire(t))
  OBVIOUS
<1>2. CountOf(wire, OnWire(t)) \in Nat
  BY DrivenIs
<1>3. QED
  BY <1>2

\* A step that changes only the mailbox and what is not about the driver.
LEMMA MailOnly ==
  ASSUME IInv, IInv', Apart, UNCHANGED <<rec, m, wire, drv, sent, parted, crossed>>,
         Leads(mail, mail')
  PROVE  Apart'
<1>1. TypeOK /\ TypeOK'
  BY DEF IInv
<1>2. \A t \in Task : CountOf(wire', OnWire(t)) <= CountOf(wire, OnWire(t))
  BY <1>1, WireSame
<1>3. QED
  BY <1>1, <1>2, QuietServer

\* The messages that the actor takes, and that others put into its mailbox.
LEMMA LeadsNext ==
  ASSUME IInv, mail # <<>>
  PROVE  /\ Leads(mail, Tail(mail)) /\ Tail(mail) \in Seq(Messages(rec, sent))
         /\ \A e : ~Streamed(e) => Leads(mail, Append(Tail(mail), e)) /\ Leads(mail, Append(mail, e))
<1>1. mail \in Seq(Messages(rec, sent)) /\ Tail(mail) \in Seq(Messages(rec, sent))
  BY ReceivesHead, SoundNow
<1>2. Leads(mail, Tail(mail))
  BY <1>1, LeadsTail
<1>3. ASSUME NEW e, ~Streamed(e)
      PROVE  Leads(mail, Append(Tail(mail), e)) /\ Leads(mail, Append(mail, e))
  <2>1. Leads(Tail(mail), Append(Tail(mail), e)) /\ Leads(mail, Append(mail, e))
    BY <1>1, <1>3, LeadsAppend
  <2>2. QED
    BY <1>2, <2>1, LeadsBeyond
<1>4. QED
  BY <1>1, <1>2, <1>3

LEMMA SignalsPlain ==
  \A type \in {"Connect", "Broken", "Stop", "ResetWhenIdle", "StopMachine", "ResetMachine",
               "AddDevice"} : ~Streamed(Msg(type))
BY DEF Msg, Streamed

\* The mutations of the clients and the compilations.
LEMMA ClientsUnseen ==
  ASSUME IInv, IInv', Apart, Clients
  PROVE  Apart'
<1>0. /\ TypeOK /\ TypeOK' /\ mail \in Seq(Messages(rec, sent)) /\ rec \in [Task -> Statuses]
      /\ \A t \in Task : CountOf(wire, OnWire(t)) <= CountOf(wire, OnWire(t))
      /\ Prints \cap Inlines = {}
  BY SoundNow, WireSame, TasksAssumption DEF IInv, TypeOK
<1>1. ASSUME NEW p \in Prints, PrintMutation(p) PROVE Apart'
  <2>1. /\ UNCHANGED <<m, mail, wire, drv, sent, parted, crossed>>
        /\ rec' = [rec EXCEPT ![p] = "created"]
    BY <1>1 DEF PrintMutation
  <2>2. \A t \in Task : rec'[t] = rec[t] \/ (t = p /\ rec'[t] \in Pending)
    BY <1>0, <2>1 DEF Pending
  <2>3. Leads(mail, mail')
    BY <2>1, LeadsBeyond
  <2>4. \A t \in Inlines : rec'[t] = rec[t]
    BY <1>0, <2>2 DEF Task
  <2>5. \A t \in sent : rec'[t] = rec[t] \/ rec'[t] \in Pending
    BY <1>0, <2>2 DEF TypeOK
  <2>6. QED
    BY <1>0, <2>1, <2>3, <2>4, <2>5, QuietServer
<1>2. ASSUME NEW p \in Prints, PausePrint(p) PROVE Apart'
  <2>1. ~Streamed([type |-> "Pause", task |-> p])
    BY DEF Streamed
  <2>2. Leads(mail, mail')
    BY <1>0, <1>2, <2>1, LeadsAppend DEF PausePrint, Post
  <2>3. QED
    BY <1>2, <2>2, MailOnly DEF PausePrint, database, history
<1>3. ASSUME NEW p \in Prints, CheckPaused(p) PROVE Apart'
  <2>1. Leads(mail, mail')
    BY <1>3, LeadsBeyond DEF CheckPaused
  <2>2. QED
    BY <1>3, <2>1, MailOnly DEF CheckPaused, history
<1>4. ASSUME NEW p \in Prints, NEW hook \in NewInline, CommitResume(p, hook) PROVE Apart'
  <2>1. CASE UNCHANGED <<rec, mail>>
    <3>1. Leads(mail, mail')
      BY <2>1, LeadsBeyond
    <3>2. QED
      BY <1>4, <2>1, <3>1, MailOnly DEF CommitResume
  <2>2. CASE /\ rec[p] = "paused"
             /\ rec' = [rec EXCEPT ![p] = "created", ![hook] = "created"]
             /\ mail' = Append(StaleIn({p}, mail),
                          [type |-> "Resume", task |-> p, hook |-> hook, fresh |-> TRUE,
                           freshHook |-> TRUE])
    <3>1. UNCHANGED <<m, wire, drv, sent, parted, crossed>>
      BY <1>4 DEF CommitResume
    <3>2. hook \in Task /\ hook \in Inlines /\ hook \notin sent /\ rec[hook] = "absent"
      BY NewInlineIs
    <3>3. \A t \in Task : rec'[t] = rec[t] \/ (t \in {p, hook} /\ rec'[t] \in Pending)
      BY <1>0, <2>2, <3>2 DEF Pending
    <3>4. Moved(rec, rec, sent, sent, {p})
      BY DEF Moved
    <3>5. Leads(mail, StaleIn({p}, mail)) /\ StaleIn({p}, mail) \in Seq(Messages(rec, sent))
      BY <1>0, <3>4, LeadsStale, StaleKeeps
    <3>6. Leads(mail, mail')
      <4> DEFINE e == [type |-> "Resume", task |-> p, hook |-> hook, fresh |-> TRUE,
                       freshHook |-> TRUE]
                 x == StaleIn({p}, mail)
      <4>1. ~Streamed(e)
        BY DEF Streamed
      <4>2. mail' = Append(x, e)
        BY <2>2
      <4> HIDE DEF e, x
      <4>3. Leads(x, Append(x, e))
        BY <3>5, <4>1, LeadsAppend DEF x
      <4>4. QED
        BY <3>5, <4>2, <4>3, LeadsBeyond DEF x
    <3>7. \A t \in Inlines : rec'[t] = "created" /\ t \in sent => rec[t] = "created"
      BY <1>0, <3>2, <3>3 DEF Task
    <3>8. \A t \in sent : rec'[t] = rec[t] \/ rec'[t] \in Pending
      BY <1>0, <3>3 DEF TypeOK
    <3>9. QED
      BY <1>0, <3>1, <3>6, <3>7, <3>8, QuietServer
  <2>3. QED
    BY <1>4, <2>1, <2>2 DEF CommitResume
<1>5. ASSUME NEW t \in NewInline, NEW override \in BOOLEAN, ExecGCodes(t, override) PROVE Apart'
  <2>1. /\ UNCHANGED <<m, wire, drv, sent, parted, crossed>>
        /\ rec' = [rec EXCEPT ![t] = "created"]
        /\ mail' = Append(mail, [type |-> "SpoolTask", task |-> t, override |-> override,
                                 fresh |-> TRUE])
    BY <1>5 DEF ExecGCodes, Post
  <2>2. t \in Task /\ t \notin sent
    BY NewInlineIs
  <2>3. \A u \in Task : rec'[u] = rec[u] \/ (u = t /\ rec'[u] \in Pending)
    BY <1>0, <2>1, <2>2 DEF Pending
  <2>4. Leads(mail, mail')
    <3>1. ~Streamed([type |-> "SpoolTask", task |-> t, override |-> override, fresh |-> TRUE])
      BY DEF Streamed
    <3>2. QED
      BY <1>0, <2>1, <3>1, LeadsAppend
  <2>5. \A u \in Inlines : rec'[u] = "created" /\ u \in sent => rec[u] = "created"
    BY <2>2, <2>3 DEF Task
  <2>6. \A u \in sent : rec'[u] = rec[u] \/ rec'[u] \in Pending
    BY <1>0, <2>3 DEF TypeOK
  <2>7. QED
    BY <1>0, <2>1, <2>4, <2>5, <2>6, QuietServer
<1>6. ASSUME NEW type \in {"StopMachine", "ResetMachine", "AddDevice"}, Request(type) PROVE Apart'
  <2>1. Leads(mail, mail')
    BY <1>0, <1>6, LeadsAppend, SignalsPlain DEF Request, Post
  <2>2. QED
    BY <1>6, <2>1, MailOnly DEF Request, database, history
<1>7. QED
  BY <1>1, <1>2, <1>3, <1>4, <1>5, <1>6 DEF Clients

LEMMA CompilationUnseen ==
  ASSUME IInv, IInv', Apart, Compilation
  PROVE  Apart'
<1>0. /\ TypeOK /\ TypeOK' /\ mail \in Seq(Messages(rec, sent)) /\ rec \in [Task -> Statuses]
      /\ \A t \in Task : CountOf(wire, OnWire(t)) <= CountOf(wire, OnWire(t))
      /\ Prints \cap Inlines = {}
  BY SoundNow, WireSame, TasksAssumption DEF IInv, TypeOK
<1>1. ASSUME NEW p \in Prints, CompilePrint(p) PROVE Apart'
  <2>1. ~Streamed([type |-> "SpoolPrint", task |-> p, auto |-> job[p].auto, fresh |-> job[p].held,
                   late |-> job[p].late])
    BY DEF Streamed
  <2>2. Leads(mail, mail')
    BY <1>0, <1>1, <2>1, LeadsAppend DEF CompilePrint, Post
  <2>3. QED
    BY <1>1, <2>2, MailOnly DEF CompilePrint, history
<1>2. ASSUME NEW p \in Prints, CompileFails(p) \/ ReadFailed(p) PROVE Apart'
  <2>1. UNCHANGED <<rec, m, mail, wire, drv, sent, parted, crossed>>
    BY <1>2 DEF CompileFails, ReadFailed, history
  <2>2. QED
    BY <2>1, LeadsBeyond, MailOnly
<1>3. ASSUME NEW p \in Prints, SettleFailed(p) PROVE Apart'
  <2>1. /\ UNCHANGED <<m, wire, drv, sent, parted, crossed>> /\ job[p].phase = "settling"
        /\ \/ rec' = [rec EXCEPT ![p] = "errored"] /\ mail' = StaleIn({p}, mail)
           \/ rec' = rec /\ mail' = mail
    BY <1>3 DEF SettleFailed, history
  <2>2. \A t \in Task : rec'[t] = rec[t] \/ t = p
    BY <1>0, <2>1
  <2>3. Leads(mail, mail')
    <3>1. Moved(rec, rec, sent, sent, {p})
      BY DEF Moved
    <3>2. QED
      BY <1>0, <2>1, <3>1, LeadsStale, LeadsBeyond
  <2>4. \A t \in Inlines : rec'[t] = rec[t]
    BY <1>0, <2>2 DEF Task
  <2>5. ASSUME ~crossed PROVE p \notin sent
    <3>1. p \in sent => AskedIn(mail, job, p) = 0
      BY <2>5, SoundNow
    <3>2. CountOf(mail, Asks(p)) \in Nat
      BY <1>0, PlacesAreNat
    <3>3. QED
      BY <2>1, <3>1, <3>2 DEF AskedIn, One
  <2>6. ~crossed' => \A t \in sent : rec'[t] = rec[t] \/ rec'[t] \in Pending
    BY <1>0, <2>1, <2>2, <2>5 DEF TypeOK
  <2>7. QED
    BY <1>0, <2>1, <2>3, <2>4, <2>6, QuietServer
<1>4. QED
  BY <1>1, <1>2, <1>3 DEF Compilation

-----------------------------------------------------------------------------
(***************************************************************************)
(* The history of the driver.                                              *)
(***************************************************************************)
LEMMA PutNoEnd ==
  ASSUME NEW t, NEW prog, NoEnd(prog, t), NEW u \in Task, NEW status \in Progress,
         u = t => status \notin Final
  PROVE  NoEnd(Put(prog, u, status), t)
<1>1. /\ [task |-> u, status |-> status] \in Endless(t)
      /\ \A e \in Endless(t) : e.task = u => [e EXCEPT !.status = status] \in Endless(t)
  BY DEF Endless
<1>2. QED
  BY <1>1, PutIn DEF NoEnd

LEMMA PutAllNoEnd ==
  ASSUME NEW t, NEW prog, NoEnd(prog, t), NEW ts \in Seq(Task), NEW status \in Progress,
         \A i \in 1 .. Len(ts) : ts[i] # t
  PROVE  NoEnd(PutAll(prog, ts, status)[Len(ts)], t)
<1> DEFINE Y == Seq(Endless(t))
           T == Task \ {t}
<1>1. \A x \in Y, u \in T : Put(x, u, status) \in Y
  BY PutNoEnd DEF NoEnd
<1>2. prog \in Y
  BY DEF NoEnd
<1>3. ts \in Seq(T)
  OBVIOUS
<1> HIDE DEF Y, T
<1>4. PutAll(prog, ts, status)[Len(ts)] \in Y
  BY <1>1, <1>2, <1>3, PutAllIn
<1>5. QED
  BY <1>4 DEF NoEnd, Y

LEMMA RunNoEnd ==
  ASSUME NEW S \in SUBSET Task, NEW d \in Drivers(S), NEW t, NoEnd(d.prog, t)
  PROVE  /\ NoEnd(Run(d).prog, t)
         /\ Run(d).st = d.st /\ Run(d).up = d.up /\ Run(d).spool = d.spool
<1>1. CASE d.spool = <<>>
  BY <1>1 DEF Run
<1>2. CASE d.spool # <<>>
  <2>1. Head(d.spool) \in Task /\ "started" \in Progress /\ "started" \notin Final
    BY <1>2 DEF Drivers, Progress, Final
  <2>2. NoEnd(Put(d.prog, Head(d.spool), "started"), t)
    BY <2>1, PutNoEnd
  <2>3. QED
    BY <1>2, <2>2 DEF Run, Drivers
<1>3. QED
  BY <1>1, <1>2

LEMMA RunIs ==
  ASSUME NEW S, NEW d \in Drivers(S)
  PROVE  Run(d).st = d.st /\ Run(d).up = d.up /\ Run(d).spool = d.spool
BY DEF Run, Drivers

-----------------------------------------------------------------------------
(***************************************************************************)
(* A step of the driver that the machine is connected to.                  *)
(***************************************************************************)
\* What the driver broadcasts after a step: its state, and whose pause it answers.
Tells(x) ==
  /\ x \in Seq(Messages(rec, sent))
  /\ \A e \in Events(x) :
       /\ e.type = "Feedback" /\ e.st = drv'.st /\ e.prog = drv'.prog
       /\ e.flag = NoTask \/ (drv.st = "ready" /\ e.flag \in Task /\ Driven(e.flag) > 0)

\* It does not fall back, has no more tasks, and loses none that is still to be run.
GoesOn ==
  /\ drv.up /\ drv'.up
  /\ \A t \in Task : Driven(t)' <= Driven(t)
  /\ drv'.st # "ready" => drv'.spool = <<>>
  /\ drv'.st = drv.st \/ drv'.st = "estopped" \/ drv.st \notin Served
  /\ drv.st = "estopped" => drv'.st = "estopped"
  /\ ~crossed => \A t \in Task : Held(t)' /\ Held(t) /\ NoEnd(drv.prog, t) => NoEnd(drv'.prog, t)

LEMMA OrderedSame ==
  ASSUME NEW x, NEW st, \A e \in Events(x) : e.type = "Feedback" /\ e.st = st
  PROVE  Ordered(x)
<1>1. SUFFICES ASSUME NEW i \in 1 .. Len(x), NEW j \in 1 .. Len(x), i < j
               PROVE  Follows(x[i], x[j])
  BY DEF Ordered
<1>2. CASE Streamed(x[i]) /\ Streamed(x[j])
  <2>1. x[i] \in Events(x) /\ x[j] \in Events(x)
    BY <1>2 DEF Events
  <2>2. x[i].type = "Feedback" /\ x[i].st = st /\ x[j].st = st
    BY <2>1
  <2>3. QED
    BY <2>2 DEF Follows
<1>3. CASE ~(Streamed(x[i]) /\ Streamed(x[j]))
  BY <1>3 DEF Follows, Streamed
<1>4. QED
  BY <1>2, <1>3

LEMMA DriverStep ==
  ASSUME TypeOK, TypeOK', Apart, parted => parted', UNCHANGED <<rec, m, sent, crossed>>,
         GoesOn, NEW x, Tells(x), mail' = Hear(mail, x)
  PROVE  Apart'
<1>0. SUFFICES ASSUME ~parted PROVE Apart'
  BY DEF Apart
<1>1. m.conn = "live" /\ Linked /\ Lives /\ OnceDriven /\ NewInlines
  BY <1>0 DEF Apart, GoesOn, Linked
<1>2. mail \in Seq(Messages(rec, sent)) /\ x \in Seq(Messages(rec, sent)) /\ mail' = mail \o x
  BY <1>1 DEF TypeOK, Hear, Tells
<1>3. \A e \in Events(mail) : e.type = "Feedback"
  BY <1>1 DEF Linked
<1>4. Events(mail') = Events(mail) \cup Events(x) /\ Ordered(mail')
  <2>1. Ordered(mail)
    BY <1>1 DEF Linked
  <2>2. Ordered(x)
    BY OrderedSame DEF Tells
  <2>3. \A a \in Events(mail), b \in Events(x) : Follows(a, b)
    BY <1>1, <1>3 DEF Follows, Lives, Tells, GoesOn, Served
  <2>4. QED
    BY <1>2, <2>1, <2>2, <2>3, EventsJoin
<1>5. Linked'
  BY <1>1, <1>3, <1>4 DEF Linked, GoesOn, Tells
<1>6. \A t \in Task : Driven(t) \in Nat /\ Driven(t)' \in Nat
  <2>1. wire' \in Seq(Wires(sent')) /\ drv'.spool \in Seq(sent')
    BY DEF TypeOK, Drivers
  <2>2. ASSUME NEW t \in Task PROVE Driven(t) \in Nat /\ Driven(t)' \in Nat
    <3>1. CountOf(wire', OnWire(t)) \in Nat /\ CountOf(drv'.spool, {t}) \in Nat
      BY <2>1, CountIsNat
    <3>2. Driven(t)' \in Nat
      BY <3>1 DEF Driven
    <3>3. QED
      BY <3>2, DrivenIs
  <2>3. QED
    BY <2>2
<1>7. \A t \in Task : Driven(t)' > 0 => Driven(t) > 0
  BY <1>6 DEF GoesOn
<1>8. OnceDriven'
  <2>1. SUFFICES ASSUME NEW t \in Inlines PROVE Driven(t)' <= 1
    BY DEF OnceDriven
  <2> DEFINE a == Driven(t)
             b == Driven(t)'
  <2>2. t \in Task
    BY DEF Task
  <2>3. a \in Nat /\ b \in Nat /\ b <= a /\ a <= 1
    BY <1>1, <1>6, <2>2 DEF OnceDriven, GoesOn
  <2> HIDE DEF a, b
  <2>4. b <= 1
    BY <2>3
  <2>5. QED
    BY <2>4 DEF b
<1>9. NewInlines'
  BY <1>1 DEF NewInlines
<1>10. Serving => Serving'
  BY <1>4 DEF Serving, GoesOn, Tells, Served
<1>11. Lives'
  <2>1. drv'.st # "ready" => drv'.spool = <<>>
    BY DEF GoesOn
  <2>2. ASSUME NEW e \in Events(mail')
        PROVE  (e.st \in Served => drv'.st \in Served) /\ (drv'.st = "ready" => e.st # "estopped")
    <3>1. CASE e \in Events(x)
      BY <3>1 DEF Tells
    <3>2. CASE e \in Events(mail)
      BY <1>1, <3>2 DEF Lives, GoesOn, Served
    <3>3. QED
      BY <1>4, <3>1, <3>2
  <2>3. Up(m)' => Serving'
    BY <1>1, <1>10 DEF Lives
  <2>4. \A t \in Task : Driven(t)' > 0 => Serving'
    BY <1>1, <1>7, <1>10 DEF Lives
  <2>5. QED
    BY <2>1, <2>2, <2>3, <2>4 DEF Lives
<1>12. ASSUME ~crossed PROVE Unsettled' /\ Unended'
  <2>1. Unsettled /\ Unended
    BY <1>0, <1>1, <1>12 DEF Apart
  <2>2. \A t \in Task : drv'.st = "ready" /\ Driven(t)' > 0 => drv.st = "ready" /\ Driven(t) > 0
    BY <1>1, <1>7 DEF Lives, Serving, GoesOn, Served
  <2>3. Unsettled'
    BY <2>1, <2>2 DEF Unsettled
  <2>4. ASSUME NEW t \in Task, Held(t)' PROVE Held(t)
    <3>1. CASE drv'.st = "ready" /\ Driven(t)' > 0
      BY <2>2, <3>1 DEF Held
    <3>2. CASE m'.saved = t
      BY <3>2 DEF Held
    <3>3. CASE \E e \in Events(mail') : e.flag = t
      <4>1. PICK e \in Events(mail') : e.flag = t
        BY <3>3
      <4>2. t # NoTask
        BY TasksAssumption
      <4>3. QED
        BY <1>4, <4>1, <4>2 DEF Held, Tells
    <3>4. QED
      BY <2>4, <3>1, <3>2, <3>3 DEF Held
  <2>5. ASSUME NEW t \in Task, Held(t)'
        PROVE  NoEnd(drv'.prog, t) /\ \A e \in Events(mail') : NoEnd(e.prog, t)
    <3>1. Held(t) /\ NoEnd(drv.prog, t) /\ \A e \in Events(mail) : NoEnd(e.prog, t)
      BY <2>1, <2>4, <2>5 DEF Unended
    <3>2. NoEnd(drv'.prog, t)
      BY <1>12, <2>5, <3>1 DEF GoesOn
    <3>3. \A e \in Events(x) : e.prog = drv'.prog
      BY DEF Tells
    <3>4. QED
      BY <1>4, <3>1, <3>2, <3>3
  <2>6. QED
    BY <2>3, <2>5 DEF Unended
<1>13. QED
  BY <1>1, <1>5, <1>8, <1>9, <1>11, <1>12 DEF Apart

\* A step that the driver tells, ...
LEMMA TellUnseen ==
  ASSUME TypeOK, TypeOK', Apart, parted => parted', UNCHANGED <<rec, m, sent, crossed>>,
         NEW d \in Drivers(sent), NEW flag \in Maybe(Prints \cap sent), Tell(d, flag), GoesOn,
         flag = NoTask \/ (drv.st = "ready" /\ flag \in Task /\ Driven(flag) > 0)
  PROVE  Apart'
<1>1. PICK b \in Blocking : mail' = Hear(mail, <<Feedback(d, flag, b)>>)
  BY DEF Tell
<1>2. drv' = d
  BY DEF Tell
<1> DEFINE e == Feedback(d, flag, b)
           x == <<e>>
<1>3. e \in Messages(rec, sent)
  <2>1. b \in BOOLEAN /\ sent \subseteq Task /\ NoTask \notin Prints
    BY TasksAssumption DEF TypeOK, Task
  <2>2. QED
    BY <2>1, FeedbackCounts
<1>4. e.type = "Feedback" /\ e.st = d.st /\ e.prog = d.prog /\ e.flag = flag
  BY DEF Feedback
<1> HIDE DEF e
<1>5. x \in Seq(Messages(rec, sent)) /\ Events(x) \subseteq {e}
  BY <1>3, EventsOne
<1> HIDE DEF x
<1>6. Tells(x)
  BY <1>2, <1>4, <1>5 DEF Tells
<1>7. mail' = Hear(mail, x)
  BY <1>1 DEF x, e
<1>8. QED
  BY <1>6, <1>7, DriverStep

\* ... and one that it does not tell.
LEMMA SilentUnseen ==
  ASSUME TypeOK, TypeOK', Apart, parted => parted', UNCHANGED <<rec, m, mail, sent, crossed>>, GoesOn
  PROVE  Apart'
<1> DEFINE x == <<>>
<1>1. x \in Seq(Messages(rec, sent)) /\ Events(x) = {}
  BY DEF Events
<1>2. mail' = Hear(mail, x)
  BY DEF Hear, TypeOK
<1> HIDE DEF x
<1>3. Tells(x)
  BY <1>1 DEF Tells
<1>4. QED
  BY <1>2, <1>3, DriverStep

LEMMA WireTakes ==
  ASSUME TypeOK, wire # <<>>, NEW t \in Task
  PROVE  /\ CountOf(wire, OnWire(t)) = CountOf(Tail(wire), OnWire(t)) + One(Head(wire) \in OnWire(t))
         /\ CountOf(Tail(wire), OnWire(t)) \in Nat
         /\ CountOf(Tail(wire), OnWire(t)) <= CountOf(wire, OnWire(t))
<1>1. wire \in Seq(Wires(sent)) /\ Tail(wire) \in Seq(Wires(sent))
  BY DEF TypeOK
<1>2. CountOf(wire, OnWire(t)) = CountOf(Tail(wire), OnWire(t)) + One(Head(wire) \in OnWire(t))
  BY <1>1, TailCounts
<1>3. CountOf(Tail(wire), OnWire(t)) \in Nat
  BY <1>1, CountIsNat
<1>4. QED
  BY <1>2, <1>3 DEF One

LEMMA DrivenLess ==
  ASSUME TypeOK, TypeOK', NEW t \in Task, CountOf(wire', OnWire(t)) <= CountOf(wire, OnWire(t)),
         CountOf(drv'.spool, {t}) <= CountOf(drv.spool, {t})
  PROVE  Driven(t)' <= Driven(t)
<1>1. wire' \in Seq(Wires(sent')) /\ drv'.spool \in Seq(sent')
  BY DEF TypeOK, Drivers
<1>2. CountOf(wire', OnWire(t)) \in Nat /\ CountOf(drv'.spool, {t}) \in Nat
  BY <1>1, CountIsNat
<1>3. CountOf(wire, OnWire(t)) \in Nat /\ CountOf(drv.spool, {t}) \in Nat
  BY DrivenIs
<1>4. QED
  BY <1>2, <1>3 DEF Driven

LEMMA DriverNow ==
  ASSUME IInv, IInv', Apart, ~parted, drv.up
  PROVE  /\ TypeOK /\ TypeOK' /\ m.conn = "live" /\ Linked /\ Lives /\ OnceDriven
         /\ drv.spool # <<>> => drv.st = "ready"
         /\ drv \in Drivers(sent) /\ drv.spool \in Seq(sent) /\ drv.spool \in Seq(Task)
         /\ drv.prog \in Entries(sent) /\ sent \in SUBSET Task
<1>1. TypeOK /\ TypeOK' /\ drv \in Drivers(sent) /\ sent \in SUBSET Task
  BY DEF IInv, TypeOK
<1>2. m.conn = "live" /\ Linked /\ Lives /\ OnceDriven
  BY DEF Apart, Linked
<1>3. drv.spool \in Seq(sent) /\ drv.prog \in Entries(sent)
  BY <1>1 DEF Drivers
<1>4. drv.spool \in Seq(Task)
  BY <1>1, <1>3, SeqMonotonic
<1>5. QED
  BY <1>1, <1>2, <1>3, <1>4 DEF Lives

\* A task of the spool is nowhere else.
LEMMA SpooledOnce ==
  ASSUME IInv, IInv', Apart, ~parted, drv.up, ~crossed, NEW t \in Task, CountOf(drv.spool, {t}) > 0
  PROVE  Driven(t) <= 1 /\ m.saved # t /\ \A e \in Events(mail) : e.flag # t
<1>1. /\ TypeOK /\ m.conn = "live" /\ Linked /\ OnceDriven /\ sent \in SUBSET Task
      /\ mail \in Seq(Messages(rec, sent))
  BY DriverNow, SoundNow
<1>2. /\ CountOf(wire, OnWire(t)) \in Nat /\ CountOf(drv.spool, {t}) \in Nat
  BY <1>1, DrivenIs
<1>3. ASSUME NEW e \in Events(mail), e.flag = t
      PROVE  t \in Prints /\ \E i \in 1 .. Len(mail) : mail[i] \in Answers(t)
  <2>1. e.type = "Feedback"
    BY <1>1 DEF Linked
  <2>2. e \in Feedbacks /\ e.flag \in Maybe(Prints \cap sent)
    BY <1>1, <2>1, EventTypes
  <2>3. t # NoTask
    BY TasksAssumption
  <2>4. e \in Answers(t)
    BY <1>3, <2>1, <2>2 DEF Answers, Mailable
  <2>5. QED
    BY <1>3, <2>2, <2>3, <2>4, EventIs DEF Maybe
<1>4. m.saved = t => t \in Prints
  BY <1>1, TasksAssumption DEF TypeOK, Machines, Maybe
<1>5. CASE t \in Prints
  <2>1. AskedIn(mail, job, t) + Away(mail, wire, drv.spool, m, t) <= 1
    BY <1>5, SoundNow
  <2>2. AskedIn(mail, job, t) \in Nat /\ CountOf(mail, Answers(t)) \in Nat
    BY <1>1, <1>5, LoadIsNat, CountIsNat
  <2>3. /\ CountOf(mail, Answers(t)) = 0 /\ m.saved # t
        /\ CountOf(wire, OnWire(t)) + CountOf(drv.spool, {t}) <= 1
    BY <1>2, <2>1, <2>2 DEF Away, One
  <2>4. \A i \in 1 .. Len(mail) : mail[i] \notin Answers(t)
    BY <1>1, <2>3, CountSome
  <2>5. QED
    BY <1>3, <2>3, <2>4 DEF Driven
<1>6. CASE t \notin Prints
  <2>1. t \in Inlines
    BY <1>6 DEF Task
  <2>2. QED
    BY <1>1, <1>3, <1>4, <1>6, <2>1 DEF OnceDriven
<1>7. QED
  BY <1>5, <1>6

LEMMA SpoolCounts ==
  ASSUME TypeOK, NEW t \in Task
  PROVE  (\E i \in 1 .. Len(drv.spool) : drv.spool[i] = t) => CountOf(drv.spool, {t}) > 0
<1>1. drv.spool \in Seq(sent) /\ CountOf(drv.spool, {t}) \in Nat
  BY DrivenIs DEF TypeOK, Drivers
<1> DEFINE c == CountOf(drv.spool, {t})
<1>2. ASSUME NEW i \in 1 .. Len(drv.spool), drv.spool[i] = t PROVE c # 0
  BY <1>1, <1>2, CountSome
<1>3. c \in Nat
  BY <1>1
<1> HIDE DEF c
<1>4. (\E i \in 1 .. Len(drv.spool) : drv.spool[i] = t) => c > 0
  BY <1>2, <1>3
<1>5. QED
  BY <1>4 DEF c

\* The driver takes a message, and its spool stays as it is.
LEMMA DrivenTaken ==
  ASSUME TypeOK, TypeOK', wire # <<>>, wire' = Tail(wire), drv'.spool = drv.spool
  PROVE  \A t \in Task : Driven(t)' <= Driven(t)
<1>1. SUFFICES ASSUME NEW t \in Task PROVE Driven(t)' <= Driven(t)
  OBVIOUS
<1>2. CountOf(drv.spool, {t}) \in Nat /\ CountOf(wire', OnWire(t)) <= CountOf(wire, OnWire(t))
  BY WireTakes, DrivenIs
<1>3. CountOf(drv'.spool, {t}) <= CountOf(drv.spool, {t})
  BY <1>2
<1>4. QED
  BY <1>2, <1>3, DrivenLess

LEMMA DriverHelloUnseen ==
  ASSUME IInv, IInv', Apart, DriverHello
  PROVE  Apart'
<1>0. SUFFICES ASSUME ~parted PROVE Apart'
  BY DEF Apart, DriverHello, DriverKeeps, history
<1>1. /\ drv.up /\ wire # <<>> /\ wire' = Tail(wire) /\ drv' = drv
      /\ UNCHANGED <<rec, m, sent, parted, crossed>>
  BY DEF DriverHello, DriverReceives, DriverKeeps, database, history
<1>2. /\ TypeOK /\ TypeOK' /\ m.conn = "live" /\ Linked /\ Lives /\ drv \in Drivers(sent)
  BY <1>0, <1>1, DriverNow
<1>3. PICK b \in Blocking :
        mail' = Hear(mail, <<[type |-> "Init", old |-> drv.old], Feedback(drv, NoTask, b)>>)
  BY DEF DriverHello
<1> DEFINE i == [type |-> "Init", old |-> drv.old]
           f == Feedback(drv, NoTask, b)
           x == <<i, f>>
<1>4. f \in Messages(rec, sent) /\ i \in Messages(rec, sent)
  <2>1. drv.old \in BOOLEAN
    BY <1>2 DEF Drivers
  <2>2. QED
    BY <1>2, <2>1, NeutralFeedback, NeutralOnes
<1>5. ~Streamed(i) /\ f.type = "Feedback" /\ f.st = drv.st /\ f.prog = drv.prog /\ f.flag = NoTask
  BY DEF Streamed, Feedback
<1> HIDE DEF i, f
<1>6. x \in Seq(Messages(rec, sent)) /\ \A e \in Events(x) : e = f
  <2>1. x \in Seq(Messages(rec, sent))
    BY <1>4
  <2>2. ASSUME NEW e \in Events(x) PROVE e = f
    <3>1. Streamed(e) /\ \E k \in 1 .. Len(x) : x[k] = e
      BY <2>2, EventIs
    <3>2. Len(x) = 2 /\ x[1] = i /\ x[2] = f
      OBVIOUS
    <3>3. QED
      BY <1>5, <3>1, <3>2
  <2>3. QED
    BY <2>1, <2>2
<1> HIDE DEF x
<1>7. Tells(x)
  BY <1>1, <1>5, <1>6 DEF Tells
<1>8. mail' = Hear(mail, x)
  BY <1>3 DEF x, i, f
<1>9. \A t \in Task : Driven(t)' <= Driven(t)
  BY <1>1, <1>2, DrivenTaken
<1>10. GoesOn
  BY <1>1, <1>2, <1>9 DEF GoesOn, Lives
<1>11. QED
  BY <1>1, <1>2, <1>7, <1>8, <1>10, DriverStep

LEMMA DriverSpoolUnseen ==
  ASSUME IInv, IInv', Apart, DriverSpool
  PROVE  Apart'
<1>0. SUFFICES ASSUME ~parted PROVE Apart'
  BY DEF Apart, DriverSpool, DriverKeeps, history
<1> DEFINE e == Head(wire)
           t == e.task
<1>1. /\ drv.up /\ wire # <<>> /\ wire' = Tail(wire) /\ e.type = "SpoolTask"
      /\ UNCHANGED <<rec, m, sent, parted, crossed>>
  BY DEF DriverSpool, DriverReceives, DriverKeeps, database, history
<1>2. /\ TypeOK /\ TypeOK' /\ m.conn = "live" /\ Linked /\ Lives /\ drv \in Drivers(sent)
      /\ drv.spool \in Seq(sent) /\ sent \in SUBSET Task
  BY <1>0, <1>1, DriverNow
<1>3. t \in sent /\ t \in Task /\ \A u \in Task : e \in OnWire(u) <=> t \in {u}
  <2>1. e \in Wires(sent)
    BY <1>1, <1>2 DEF TypeOK
  <2>2. QED
    BY <1>1, <1>2, <2>1 DEF Wires, OnWire
<1>4. \A u \in Task : /\ CountOf(wire, OnWire(u)) = CountOf(wire', OnWire(u)) + One(t \in {u})
                      /\ CountOf(wire', OnWire(u)) \in Nat /\ CountOf(drv.spool, {u}) \in Nat
  <2>1. SUFFICES ASSUME NEW u \in Task
        PROVE  /\ CountOf(wire, OnWire(u)) = CountOf(wire', OnWire(u)) + One(t \in {u})
               /\ CountOf(wire', OnWire(u)) \in Nat /\ CountOf(drv.spool, {u}) \in Nat
    OBVIOUS
  <2>2. One(t \in {u}) = One(e \in OnWire(u))
    BY <1>3 DEF One
  <2>3. QED
    BY <1>1, <1>2, <2>2, WireTakes, DrivenIs
<1>5. ASSUME NEW spool, drv'.spool = spool,
             \A u \in Task : CountOf(spool, {u}) = One(t \in {u}) + CountOf(drv.spool, {u})
      PROVE  \A u \in Task : Driven(u)' <= Driven(u)
  <2>1. SUFFICES ASSUME NEW u \in Task PROVE Driven(u)' <= Driven(u)
    OBVIOUS
  <2> DEFINE o == One(t \in {u})
             a == CountOf(wire', OnWire(u))
             b == CountOf(drv.spool, {u})
  <2>2. o \in Nat /\ a \in Nat /\ b \in Nat
    BY <1>4 DEF One
  <2>3. CountOf(wire, OnWire(u)) = a + o /\ CountOf(drv'.spool, {u}) = o + b
    BY <1>4, <1>5
  <2> HIDE DEF o, a, b
  <2>4. Driven(u) = (a + o) + b /\ Driven(u)' = a + (o + b)
    BY <2>3 DEF Driven, a, b
  <2>5. QED
    BY <2>2, <2>4
<1>6. CASE drv.st # "ready"
  <2>1. UNCHANGED <<drv, mail>>
    BY <1>6 DEF DriverSpool
  <2>2. GoesOn
    BY <1>1, <1>2, <2>1, DrivenTaken DEF GoesOn, Lives
  <2>3. QED
    BY <1>1, <1>2, <2>1, <2>2, SilentUnseen
<1>7. CASE drv.st = "ready" /\ Tell(Run([drv EXCEPT !.spool = <<t>> \o @]), NoTask)
  <2> DEFINE d == [drv EXCEPT !.spool = <<t>> \o @]
             spool == <<t>> \o drv.spool
  <2>1. spool \in Seq(sent)
    BY <1>2, <1>3
  <2>2. \A u \in Task : CountOf(spool, {u}) = One(t \in {u}) + CountOf(drv.spool, {u})
    <3> DEFINE x == <<t>>
    <3>1. x \in Seq(sent) /\ \A T : CountOf(x, T) = One(t \in T)
      BY <1>3, CountOne DEF One
    <3> HIDE DEF x
    <3>2. \A T : CountOf(x \o drv.spool, T) = CountOf(x, T) + CountOf(drv.spool, T)
      BY <1>2, <3>1, CountConcat
    <3>3. QED
      BY <3>1, <3>2 DEF x
  <2>3. d \in Drivers(sent) /\ d.spool = spool /\ d.st = drv.st /\ d.up = drv.up /\ d.prog = drv.prog
    <3> HIDE DEF spool
    <3>1. d = [drv EXCEPT !.spool = spool]
      BY DEF spool
    <3> HIDE DEF d
    <3>2. QED
      BY <1>2, <2>1, <3>1 DEF Drivers
  <2>4. drv' = Run(d)
    BY <1>7 DEF Tell
  <2>5. Tell(Run(d), NoTask)
    BY <1>7
  <2> HIDE DEF d, spool
  <2>6. Run(d) \in Drivers(sent) /\ Run(d).st = drv.st /\ Run(d).up = drv.up /\ Run(d).spool = spool
    BY <2>3, RunType, RunIs
  <2>7. \A u \in Task : Driven(u)' <= Driven(u)
    BY <1>5, <2>2, <2>4, <2>6
  <2>8. \A u \in Task : NoEnd(drv.prog, u) => NoEnd(drv'.prog, u)
    BY <1>2, <2>3, <2>4, RunNoEnd
  <2>9. GoesOn
    BY <1>1, <1>7, <2>4, <2>6, <2>7, <2>8 DEF GoesOn
  <2>10. QED
    BY <1>1, <1>2, <2>5, <2>6, <2>9, FlagsNone, TellUnseen
<1>8. CASE drv.st = "ready" /\ drv' = [drv EXCEPT !.spool = Append(@, t)] /\ UNCHANGED mail
  <2> DEFINE spool == Append(drv.spool, t)
  <2>1. drv'.spool = spool /\ drv'.st = drv.st /\ drv'.up = drv.up /\ drv'.prog = drv.prog
    <3>1. drv' = [drv EXCEPT !.spool = spool]
      BY <1>8
    <3> HIDE DEF spool
    <3>2. QED
      BY <1>2, <3>1 DEF Drivers
  <2>2. \A u \in Task : CountOf(spool, {u}) = One(t \in {u}) + CountOf(drv.spool, {u})
    <3>1. SUFFICES ASSUME NEW u \in Task
                   PROVE  CountOf(spool, {u}) = One(t \in {u}) + CountOf(drv.spool, {u})
      OBVIOUS
    <3>2. t \in sent
      BY <1>3
    <3> HIDE DEF t
    <3>3. CountOf(spool, {u}) = CountOf(drv.spool, {u}) + One(t \in {u})
      BY <1>2, <3>2, CountAppend DEF One
    <3>4. CountOf(drv.spool, {u}) \in Nat
      BY <1>4
    <3> HIDE DEF spool
    <3>5. QED
      BY <3>3, <3>4 DEF One
  <2> HIDE DEF spool
  <2>3. \A u \in Task : Driven(u)' <= Driven(u)
    BY <1>5, <2>1, <2>2
  <2>4. GoesOn
    BY <1>1, <1>8, <2>1, <2>3 DEF GoesOn
  <2>5. QED
    BY <1>1, <1>2, <1>8, <2>4, SilentUnseen
<1>9. QED
  BY <1>6, <1>7, <1>8 DEF DriverSpool

LEMMA DriverPauseUnseen ==
  ASSUME IInv, IInv', Apart, DriverPause
  PROVE  Apart'
<1>0. SUFFICES ASSUME ~parted PROVE Apart'
  BY DEF Apart, DriverPause, DriverKeeps, history
<1> DEFINE t == Head(wire).task
<1>1. /\ drv.up /\ wire # <<>> /\ wire' = Tail(wire) /\ Head(wire).type = "Pause"
      /\ UNCHANGED <<rec, m, sent, parted, crossed>>
  BY DEF DriverPause, DriverReceives, DriverKeeps, database, history
<1>2. /\ TypeOK /\ TypeOK' /\ m.conn = "live" /\ Linked /\ Lives /\ drv \in Drivers(sent)
      /\ drv.spool \in Seq(sent) /\ sent \in SUBSET Task /\ drv.prog \in Entries(sent)
      /\ drv.spool # <<>> => drv.st = "ready"
  BY <1>0, <1>1, DriverNow
<1>3. t \in Prints /\ t \in Task
  <2>1. Head(wire) \in Wires(sent)
    BY <1>1, <1>2 DEF TypeOK
  <2>2. QED
    BY <1>1, <2>1 DEF Wires, Wireable, Task
<1>4. CASE ~\E i \in 1 .. Len(drv.spool) : drv.spool[i] = t
  <2>1. UNCHANGED <<drv, mail>>
    BY <1>4 DEF DriverPause
  <2>2. GoesOn
    BY <1>1, <1>2, <2>1, DrivenTaken DEF GoesOn, Lives
  <2>3. QED
    BY <1>1, <1>2, <2>1, <2>2, SilentUnseen
<1>5. CASE \E i \in 1 .. Len(drv.spool) : drv.spool[i] = t
  <2> DEFINE gone == {i \in DOMAIN drv.spool : drv.spool[i] = t}
             spool == Without(drv.spool, gone)
             prog == Put(drv.prog, t, "paused")
             d == [drv EXCEPT !.spool = spool, !.prog = prog]
  <2>1. t \in sent /\ drv.spool # <<>> /\ Driven(t) > 0
    <3>1. t \in sent /\ drv.spool # <<>>
      BY <1>2, <1>5
    <3>2. CountOf(drv.spool, {t}) > 0
      BY <1>2, <1>3, <1>5, SpoolCounts
    <3>3. CountOf(drv.spool, {t}) \in Nat /\ CountOf(wire, OnWire(t)) \in Nat
      BY <1>2, <1>3, DrivenIs
    <3>4. QED
      BY <3>1, <3>2, <3>3 DEF Driven
  <2>2. prog \in Entries(sent)
    BY <1>2, <2>1, PutType DEF Progress
  <2>3. spool \in Seq(sent) /\ \A u \in Task : CountOf(spool, {u}) <= CountOf(drv.spool, {u})
    <3> HIDE DEF gone
    <3>1. QED
      BY <1>2, WithoutCounts
  <2>4. \A u \in Task : NoEnd(drv.prog, u) => NoEnd(prog, u)
    <3>1. "paused" \in Progress /\ "paused" \notin Final
      BY DEF Progress, Final
    <3> HIDE DEF t
    <3>2. QED
      BY <1>3, <3>1, PutNoEnd
  <2>5. Tell(Run(d), t)
    BY <1>5 DEF DriverPause
  <2> HIDE DEF spool, prog
  <2>6. d \in Drivers(sent) /\ d.spool = spool /\ d.st = drv.st /\ d.up = drv.up /\ d.prog = prog
    BY <1>2, <2>2, <2>3 DEF Drivers
  <2> HIDE DEF d
  <2>7. Run(d) \in Drivers(sent) /\ Run(d).st = drv.st /\ Run(d).up = drv.up /\ Run(d).spool = spool
    BY <2>6, RunType, RunIs
  <2>8. drv' = Run(d)
    BY <2>5 DEF Tell
  <2>9. \A u \in Task : Driven(u)' <= Driven(u)
    <3>1. \A u \in Task : CountOf(wire', OnWire(u)) <= CountOf(wire, OnWire(u))
      BY <1>1, <1>2, WireTakes
    <3>2. QED
      BY <1>2, <2>3, <2>7, <2>8, <3>1, DrivenLess
  <2>10. \A u \in Task : NoEnd(drv.prog, u) => NoEnd(drv'.prog, u)
    BY <1>2, <2>4, <2>6, <2>8, RunNoEnd
  <2>11. GoesOn
    BY <1>1, <1>2, <2>1, <2>7, <2>8, <2>9, <2>10 DEF GoesOn
  <2>12. t \in Maybe(Prints \cap sent)
    BY <1>3, <2>1 DEF Maybe
  <2> HIDE DEF t
  <2>13. QED
    BY <1>1, <1>2, <1>3, <2>1, <2>5, <2>7, <2>11, <2>12, TellUnseen
<1>6. QED
  BY <1>4, <1>5

LEMMA DriverDeleteUnseen ==
  ASSUME IInv, IInv', Apart, DriverDelete
  PROVE  Apart'
<1>0. SUFFICES ASSUME ~parted PROVE Apart'
  BY DEF Apart, DriverDelete, DriverKeeps, history
<1> DEFINE gone == {i \in DOMAIN drv.prog : drv.prog[i].task = Head(wire).task}
           prog == Without(drv.prog, gone)
<1>1. /\ drv.up /\ wire # <<>> /\ wire' = Tail(wire) /\ drv' = [drv EXCEPT !.prog = prog]
      /\ UNCHANGED <<rec, m, mail, sent, parted, crossed>>
  BY DEF DriverDelete, DriverReceives, DriverKeeps, database, history
<1>2. /\ TypeOK /\ TypeOK' /\ m.conn = "live" /\ Linked /\ Lives /\ drv \in Drivers(sent)
  BY <1>0, <1>1, DriverNow
<1> HIDE DEF gone
<1>3. \A u \in Task : NoEnd(drv.prog, u) => NoEnd(prog, u)
  BY WithoutCounts DEF NoEnd
<1> HIDE DEF prog
<1>4. drv'.spool = drv.spool /\ drv'.st = drv.st /\ drv'.up = drv.up /\ drv'.prog = prog
  BY <1>1, <1>2 DEF Drivers
<1>5. GoesOn
  BY <1>1, <1>2, <1>3, <1>4, DrivenTaken DEF GoesOn, Lives
<1>6. QED
  BY <1>1, <1>2, <1>5, SilentUnseen

LEMMA DriverEstopUnseen ==
  ASSUME IInv, IInv', Apart, DriverEstop
  PROVE  Apart'
<1>0. SUFFICES ASSUME ~parted PROVE Apart'
  BY DEF Apart, DriverEstop, DriverKeeps, history
<1> DEFINE prog == PutAll(drv.prog, drv.spool, "cancelled")[Len(drv.spool)]
           d == Lose(drv, "estopped", "cancelled")
<1>1. /\ drv.up /\ wire # <<>> /\ wire' = Tail(wire) /\ Tell(d, NoTask)
      /\ UNCHANGED <<rec, m, sent, parted, crossed>>
  BY DEF DriverEstop, DriverReceives, DriverKeeps, database, history
<1>2. /\ TypeOK /\ TypeOK' /\ m.conn = "live" /\ Linked /\ Lives /\ drv \in Drivers(sent)
      /\ drv.spool \in Seq(Task)
  BY <1>0, <1>1, DriverNow
<1>3. d = [drv EXCEPT !.st = "estopped", !.spool = <<>>, !.prog = prog]
  BY DEF Lose
<1>4. d \in Drivers(sent)
  BY <1>2, LoseType DEF DriverSt, Progress
<1> HIDE DEF prog
<1>5. d.up = drv.up /\ d.st = "estopped" /\ d.spool = <<>> /\ d.prog = prog
  BY <1>2, <1>3 DEF Drivers
<1> HIDE DEF d
<1>6. drv' = d
  BY <1>1 DEF Tell
<1>7. \A u \in Task : Driven(u)' <= Driven(u)
  <2>1. SUFFICES ASSUME NEW u \in Task PROVE Driven(u)' <= Driven(u)
    OBVIOUS
  <2>2. CountOf(wire', OnWire(u)) <= CountOf(wire, OnWire(u))
    BY <1>1, <1>2, WireTakes
  <2>3. CountOf(drv'.spool, {u}) = 0 /\ CountOf(drv.spool, {u}) \in Nat
    BY <1>2, <1>5, <1>6, CountEmpty, DrivenIs
  <2>4. CountOf(drv'.spool, {u}) <= CountOf(drv.spool, {u})
    BY <2>3
  <2>5. QED
    BY <1>2, <2>2, <2>4, DrivenLess
<1>8. ASSUME ~crossed, NEW u \in Task, Held(u)', Held(u), NoEnd(drv.prog, u) PROVE NoEnd(prog, u)
  <2>1. m.saved = u \/ \E e \in Events(mail) : e.flag = u
    <3>1. m'.saved = u \/ \E e \in Events(mail') : e.flag = u
      BY <1>5, <1>6, <1>8 DEF Held
    <3>2. PICK b \in Blocking : mail' = Hear(mail, <<Feedback(d, NoTask, b)>>)
      BY <1>1 DEF Tell
    <3> DEFINE f == Feedback(d, NoTask, b)
               x == <<f>>
    <3>3. f \in Messages(rec, sent) /\ f.flag = NoTask
      BY <1>2, <1>4, NeutralFeedback DEF Feedback
    <3> HIDE DEF f
    <3>4. x \in Seq(Messages(rec, sent)) /\ Events(x) \subseteq {f}
      BY <3>3, EventsOne
    <3> HIDE DEF x
    <3>5. mail \in Seq(Messages(rec, sent)) /\ mail' = mail \o x
      BY <1>2, <3>2 DEF TypeOK, Hear, x, f
    <3>6. Events(mail') = Events(mail) \cup Events(x)
      BY <3>4, <3>5, EventsJoin
    <3>7. u # NoTask
      BY TasksAssumption
    <3>8. QED
      BY <1>1, <3>1, <3>3, <3>4, <3>6, <3>7
  <2>2. ~(CountOf(drv.spool, {u}) > 0)
    BY <1>0, <1>1, <1>8, <2>1, SpooledOnce
  <2>3. \A i \in 1 .. Len(drv.spool) : drv.spool[i] # u
    BY <1>2, <2>2, SpoolCounts
  <2>4. "cancelled" \in Progress
    BY DEF Progress
  <2>5. QED
    BY <1>2, <1>8, <2>3, <2>4, PutAllNoEnd DEF prog
<1>9. GoesOn
  BY <1>1, <1>5, <1>6, <1>7, <1>8 DEF GoesOn
<1>10. QED
  BY <1>1, <1>2, <1>4, <1>9, FlagsNone, TellUnseen

-----------------------------------------------------------------------------
(***************************************************************************)
(* The end of the driver, and its connection to the printer.               *)
(***************************************************************************)
LEMMA DriverConnectsUnseen ==
  ASSUME IInv, IInv', Apart, DriverConnects
  PROVE  Apart'
<1>0. SUFFICES ASSUME ~parted PROVE Apart'
  BY DEF Apart, DriverConnects, DriverKeeps, history
<1> DEFINE st == IF drv.st = "disconnected" THEN "connecting" ELSE "ready"
           d == [drv EXCEPT !.st = st]
<1>1. /\ drv.up /\ wire' = wire /\ drv.st \in {"disconnected", "connecting"} /\ Tell(d, NoTask)
      /\ UNCHANGED <<rec, m, sent, parted, crossed>>
  BY DEF DriverConnects, DriverKeeps, database, history
<1>2. /\ TypeOK /\ TypeOK' /\ m.conn = "live" /\ Linked /\ Lives /\ drv \in Drivers(sent)
      /\ drv.spool = <<>>
  BY <1>0, <1>1, DriverNow
<1>3. st \in {"connecting", "ready"}
  OBVIOUS
<1> HIDE DEF st
<1>4. d \in Drivers(sent) /\ d.up = drv.up /\ d.st = st /\ d.spool = drv.spool /\ d.prog = drv.prog
  BY <1>2, <1>3 DEF Drivers, DriverSt
<1> HIDE DEF d
<1>5. drv' = d
  BY <1>1 DEF Tell
<1>6. \A u \in Task : Driven(u)' <= Driven(u)
  <2>1. SUFFICES ASSUME NEW u \in Task PROVE Driven(u)' <= Driven(u)
    OBVIOUS
  <2>2. CountOf(drv.spool, {u}) \in Nat /\ CountOf(wire, OnWire(u)) \in Nat
    BY <1>2, DrivenIs
  <2>3. /\ CountOf(wire', OnWire(u)) <= CountOf(wire, OnWire(u))
        /\ CountOf(drv'.spool, {u}) <= CountOf(drv.spool, {u})
    BY <1>1, <1>4, <1>5, <2>2
  <2>4. QED
    BY <1>2, <2>3, DrivenLess
<1>7. GoesOn
  BY <1>1, <1>2, <1>3, <1>4, <1>5, <1>6 DEF GoesOn, Served
<1>8. QED
  BY <1>1, <1>2, <1>4, <1>7, FlagsNone, TellUnseen

\* The end of the driver's process.
LEMMA ExitUnseen ==
  ASSUME IInv, IInv', Apart, UNCHANGED <<rec, sent, parted, crossed>>, drv.up, Exit, m' = Dead,
         NEW box \in Seq(Messages(rec, sent)), Leads(mail, box),
         NEW x \in Seq(Messages(rec, sent)), Ordered(x), mail' = Hear(box, x),
         \A e \in Events(x) : e.type = "Feedback" => e.st = drv.st
  PROVE  Apart'
<1>0. SUFFICES ASSUME ~parted PROVE Apart'
  BY DEF Apart
<1>1. /\ TypeOK /\ m.conn = "live" /\ Linked /\ Lives /\ OnceDriven /\ NewInlines
  BY <1>0, DriverNow DEF Apart
<1>2. mail' = box \o x
  BY <1>1 DEF Hear
<1>3. m' = [m EXCEPT !.conn = "dead"] /\ m'.conn = "dead" /\ m'.attempting = m.attempting
  BY <1>1 DEF Dead, TypeOK, Machines
<1>4. drv'.spool = <<>> /\ wire' = <<>> /\ ~drv'.up
  BY DEF Exit, NewDriver
<1>5. Ordered(mail')
  <2>1. Ordered(box) /\ Events(box) \subseteq Events(mail)
    BY <1>1 DEF Linked, Leads
  <2>2. ASSUME NEW a \in Events(box), NEW b \in Events(x) PROVE Follows(a, b)
    BY <1>1, <2>1 DEF Linked, Lives, Follows
  <2>3. QED
    BY <1>2, <2>1, <2>2, EventsJoin
<1>6. Linked'
  BY <1>1, <1>3, <1>4, <1>5 DEF Linked
<1>7. \A t \in Task : Driven(t)' = 0
  <2>1. \A t \in Task : CountOf(wire', OnWire(t)) = 0 /\ CountOf(drv'.spool, {t}) = 0
    BY <1>4, CountEmpty
  <2>2. QED
    BY <2>1 DEF Driven
<1>8. OnceDriven' /\ NewInlines'
  BY <1>1, <1>7 DEF OnceDriven, NewInlines, Task
<1>9. QED
  BY <1>3, <1>6, <1>8 DEF Apart

LEMMA ClosedPlain ==
  /\ \A r, S : <<Msg("Closed")>> \in Seq(Messages(r, S))
  /\ Ordered(<<Msg("Closed")>>)
  /\ \A e \in Events(<<Msg("Closed")>>) : e.type # "Feedback"
<1>1. \A r, S : Msg("Closed") \in Messages(r, S)
  BY NeutralOnes
<1> DEFINE c == Msg("Closed")
<1>2. c.type = "Closed"
  BY DEF Msg
<1> HIDE DEF c
<1>3. Events(<<c>>) \subseteq {c} /\ Ordered(<<c>>)
  BY EventsOne
<1>4. QED
  BY <1>1, <1>2, <1>3 DEF c

LEMMA DriverCrashUnseen ==
  ASSUME IInv, IInv', Apart, DriverCrash
  PROVE  Apart'
<1>1. /\ drv.up /\ Exit /\ m' = Dead /\ mail' = Hear(mail, <<Msg("Closed")>>)
      /\ UNCHANGED <<rec, sent, parted, crossed>>
  BY DEF DriverCrash, Closes, database, history
<1>2. mail \in Seq(Messages(rec, sent)) /\ Leads(mail, mail)
  BY SoundNow, LeadsBeyond
<1>3. QED
  BY <1>1, <1>2, ClosedPlain, ExitUnseen

LEMMA DriverResetWhenIdleUnseen ==
  ASSUME IInv, IInv', Apart, DriverResetWhenIdle
  PROVE  Apart'
<1>0. SUFFICES ASSUME ~parted PROVE Apart'
  BY DEF Apart, DriverResetWhenIdle, history
<1>1. drv.up /\ wire # <<>> /\ UNCHANGED <<rec, sent, parted, crossed>>
  BY DEF DriverResetWhenIdle, database, history
<1>2. CASE Exit /\ m' = Dead /\ mail' = Closes(mail)
  <2>1. mail \in Seq(Messages(rec, sent)) /\ Leads(mail, mail)
    BY SoundNow, LeadsBeyond
  <2>2. QED
    BY <1>1, <1>2, <2>1, ClosedPlain, ExitUnseen DEF Closes
<1>3. CASE drv' = [drv EXCEPT !.idle = TRUE] /\ wire' = Tail(wire) /\ UNCHANGED <<m, mail>>
  <2>1. TypeOK /\ TypeOK' /\ Lives /\ drv \in Drivers(sent)
    BY <1>0, <1>1, DriverNow
  <2>2. drv'.up = drv.up /\ drv'.st = drv.st /\ drv'.spool = drv.spool /\ drv'.prog = drv.prog
    BY <1>3, <2>1 DEF Drivers
  <2>3. GoesOn
    BY <1>1, <1>3, <2>1, <2>2, DrivenTaken DEF GoesOn, Lives
  <2>4. QED
    BY <1>1, <1>3, <2>1, <2>3, SilentUnseen
<1>4. QED
  BY <1>2, <1>3 DEF DriverResetWhenIdle

LEMMA DriverFinishUnseen ==
  ASSUME IInv, IInv', Apart, DriverFinish
  PROVE  Apart'
<1>0. SUFFICES ASSUME ~parted PROVE Apart'
  BY DEF Apart, DriverFinish, history
<1> DEFINE t == Head(drv.spool)
           prog == Put(drv.prog, t, "finished")
           c == [drv EXCEPT !.spool = Tail(@), !.prog = prog]
           d == Run(c)
<1>1. drv.up /\ drv.spool # <<>> /\ UNCHANGED <<rec, sent, parted, crossed>>
  BY DEF DriverFinish, database, history
<1>2. /\ TypeOK /\ TypeOK' /\ m.conn = "live" /\ Linked /\ Lives /\ drv \in Drivers(sent)
      /\ drv.st = "ready" /\ drv.spool \in Seq(sent) /\ drv.prog \in Entries(sent)
      /\ sent \in SUBSET Task
  BY <1>0, <1>1, DriverNow
<1>3. t \in sent /\ Tail(drv.spool) \in Seq(sent) /\ prog \in Entries(sent) /\ "finished" \in Progress
  <2>1. t \in sent /\ Tail(drv.spool) \in Seq(sent) /\ "finished" \in Progress
    BY <1>1, <1>2 DEF Progress
  <2> HIDE DEF t
  <2>2. prog \in Entries(sent)
    BY <1>2, <2>1, PutType
  <2>3. QED
    BY <2>1, <2>2
<1>4. c \in Drivers(sent) /\ c.st = drv.st /\ c.up = drv.up /\ c.spool = Tail(drv.spool) /\ c.prog = prog
  <2> HIDE DEF prog
  <2>1. QED
    BY <1>2, <1>3 DEF Drivers
<1> HIDE DEF c
<1>5. d \in Drivers(sent) /\ d.st = drv.st /\ d.up = drv.up /\ d.spool = Tail(drv.spool)
  BY <1>4, RunType, RunIs
<1>6. CASE Exit /\ m' = Dead /\ \E b \in Blocking :
             mail' = Hear(mail, <<Feedback(d, NoTask, b), Msg("Closed")>>)
  <2> HIDE DEF d
  <2>1. PICK b \in Blocking : mail' = Hear(mail, <<Feedback(d, NoTask, b), Msg("Closed")>>)
    BY <1>6
  <2> DEFINE f == Feedback(d, NoTask, b)
             e == Msg("Closed")
             x == <<f, e>>
  <2>2. f \in Messages(rec, sent) /\ e \in Messages(rec, sent)
    BY <1>2, <1>5, NeutralFeedback, NeutralOnes
  <2>3. f.type = "Feedback" /\ f.st = drv.st /\ e.type = "Closed"
    BY <1>5 DEF Feedback, Msg
  <2> HIDE DEF f, e
  <2>4. /\ x \in Seq(Messages(rec, sent)) /\ Len(x) = 2 /\ x[1] = f /\ x[2] = e
    BY <2>2
  <2> HIDE DEF x
  <2>5. Ordered(x)
    <3>1. SUFFICES ASSUME NEW i \in 1 .. Len(x), NEW j \in 1 .. Len(x), i < j
                   PROVE  Follows(x[i], x[j])
      BY DEF Ordered
    <3>2. i = 1 /\ j = 2
      BY <2>4, <3>1
    <3>3. QED
      BY <2>3, <2>4, <3>2 DEF Follows
  <2>6. \A a \in Events(x) : a.type = "Feedback" => a.st = drv.st
    <3>1. SUFFICES ASSUME NEW a \in Events(x) PROVE a.type = "Feedback" => a.st = drv.st
      OBVIOUS
    <3>2. PICK i \in 1 .. Len(x) : x[i] = a
      BY EventIs
    <3>3. a = f \/ a = e
      BY <2>4, <3>2
    <3>4. QED
      BY <2>3, <3>3
  <2>7. mail' = Hear(mail, x)
    BY <2>1 DEF x, f, e
  <2>8. mail \in Seq(Messages(rec, sent)) /\ Leads(mail, mail)
    BY SoundNow, LeadsBeyond
  <2>9. QED
    BY <1>1, <1>6, <2>4, <2>5, <2>6, <2>7, <2>8, ExitUnseen
<1>7. CASE Tell(d, NoTask) /\ UNCHANGED <<m, wire>>
  <2> HIDE DEF d
  <2>1. drv' = d
    BY <1>7 DEF Tell
  <2>2. \A u \in Task : /\ CountOf(drv.spool, {u}) = CountOf(drv'.spool, {u}) + One(t \in {u})
                        /\ CountOf(drv'.spool, {u}) \in Nat /\ CountOf(drv.spool, {u}) \in Nat
                        /\ CountOf(wire, OnWire(u)) \in Nat
    BY <1>1, <1>2, <1>3, <1>5, <2>1, TailCounts, CountIsNat, DrivenIs
  <2>3. \A u \in Task : Driven(u)' <= Driven(u)
    <3>1. SUFFICES ASSUME NEW u \in Task PROVE Driven(u)' <= Driven(u)
      OBVIOUS
    <3>2. /\ CountOf(wire', OnWire(u)) <= CountOf(wire, OnWire(u))
          /\ CountOf(drv'.spool, {u}) <= CountOf(drv.spool, {u})
      BY <1>7, <2>2 DEF One
    <3>3. QED
      BY <1>2, <3>2, DrivenLess
  <2>4. ASSUME ~crossed, NEW u \in Task, Held(u)', NoEnd(drv.prog, u) PROVE u # t
    <3>1. SUFFICES ASSUME u = t PROVE FALSE
      OBVIOUS
    <3> DEFINE a == CountOf(wire, OnWire(u))
               b == CountOf(drv.spool, {u})
               k == CountOf(drv'.spool, {u})
    <3>2. a \in Nat /\ b \in Nat /\ k \in Nat /\ b = k + 1
      BY <2>2, <3>1 DEF One
    <3>3. Driven(u) = a + b /\ Driven(u)' = a + k
      BY <1>7 DEF Driven
    <3>4. b > 0
      <4> HIDE DEF a, b, k
      <4>1. QED
        BY <3>2
    <3>5. Driven(u) <= 1 /\ m.saved # u /\ \A e \in Events(mail) : e.flag # u
      BY <1>0, <1>1, <2>4, <3>4, SpooledOnce
    <3>6. Driven(u)' = 0
      <4> HIDE DEF a, b, k
      <4>1. QED
        BY <3>2, <3>3, <3>5
    <3>7. \E e \in Events(mail') : e.flag = u
      BY <1>7, <2>4, <3>5, <3>6 DEF Held
    <3>8. PICK bl \in Blocking : mail' = Hear(mail, <<Feedback(d, NoTask, bl)>>)
      BY <1>7 DEF Tell
    <3> DEFINE f == Feedback(d, NoTask, bl)
               x == <<f>>
    <3>9. f \in Messages(rec, sent) /\ f.flag = NoTask
      BY <1>2, <1>5, NeutralFeedback DEF Feedback
    <3> HIDE DEF f
    <3>10. x \in Seq(Messages(rec, sent)) /\ Events(x) \subseteq {f}
      BY <3>9, EventsOne
    <3> HIDE DEF x
    <3>11. mail \in Seq(Messages(rec, sent)) /\ mail' = mail \o x
      BY <1>2, <3>8 DEF TypeOK, Hear, x, f
    <3>12. Events(mail') = Events(mail) \cup Events(x)
      BY <3>10, <3>11, EventsJoin
    <3>13. u # NoTask
      BY TasksAssumption
    <3>14. QED
      BY <3>5, <3>7, <3>9, <3>10, <3>12, <3>13
  <2>5. ASSUME ~crossed, NEW u \in Task, Held(u)', NoEnd(drv.prog, u) PROVE NoEnd(drv'.prog, u)
    <3>1. u # t
      BY <2>4, <2>5
    <3>2. t \in Task
      BY <1>2, <1>3
    <3> HIDE DEF t
    <3>3. NoEnd(prog, u)
      BY <1>3, <2>5, <3>1, <3>2, PutNoEnd
    <3> HIDE DEF prog
    <3>4. QED
      BY <1>2, <1>4, <2>1, <3>3, RunNoEnd DEF d
  <2>6. drv'.st = "ready"
    BY <1>2, <1>5, <2>1
  <2>7. GoesOn
    BY <1>1, <1>2, <1>5, <2>1, <2>3, <2>5, <2>6 DEF GoesOn
  <2>8. QED
    BY <1>1, <1>2, <1>5, <1>7, <2>7, FlagsNone, TellUnseen
<1>8. QED
  BY <1>6, <1>7 DEF DriverFinish, c

-----------------------------------------------------------------------------
(***************************************************************************)
(* The handlers of the actor that send no task.                            *)
(***************************************************************************)
LEMMA SendsNoTask ==
  ASSUME TypeOK, NEW x \in Seq(Wires(sent)), \A i \in 1 .. Len(x) : x[i].type # "SpoolTask"
  PROVE  /\ \A t \in Task : CountOf(Sent(x), OnWire(t)) <= CountOf(wire, OnWire(t))
         /\ m.conn # "live" => Sent(x) = wire
<1>1. SUFFICES ASSUME NEW t \in Task
               PROVE  CountOf(Sent(x), OnWire(t)) <= CountOf(wire, OnWire(t))
  BY DEF Sent
<1>2. CountOf(x, OnWire(t)) = 0
  <2>1. \A i \in 1 .. Len(x) : x[i] \notin OnWire(t)
    BY DEF OnWire
  <2>2. QED
    BY <2>1, CountNone
<1>3. /\ CountOf(Sent(x), OnWire(t)) \in Nat /\ CountOf(wire, OnWire(t)) \in Nat
      /\ CountOf(Sent(x), OnWire(t)) <= CountOf(wire, OnWire(t)) + CountOf(x, OnWire(t))
  BY SentType DEF TypeOK
<1>4. QED
  BY <1>2, <1>3

\* A handler of the actor that refuses, ignores or hands on what it takes.
LEMMA HandsOnUnseen ==
  ASSUME IInv, IInv', Apart, mail # <<>>, UNCHANGED <<rec, m, wire, drv, sent, parted, crossed>>,
         \/ mail' = Tail(mail)
         \/ \E type \in {"Connect", "Stop", "ResetWhenIdle"} :
              mail' = Append(Tail(mail), Msg(type)) \/ mail' = Append(mail, Msg(type))
  PROVE  Apart'
<1>1. Leads(mail, mail')
  BY LeadsNext, SignalsPlain
<1>2. QED
  BY <1>1, MailOnly

LEMMA RetryConnectUnseen ==
  ASSUME IInv, IInv', Apart, RetryConnect
  PROVE  Apart'
<1>1. Leads(mail, mail')
  BY SoundNow, LeadsAppend, SignalsPlain DEF RetryConnect, Post
<1>2. QED
  BY <1>1, MailOnly DEF RetryConnect, database, history

LEMMA ForwardUnseen ==
  ASSUME IInv, IInv', Apart, NEW type, NEW out \in {"ResetWhenIdle", "Estop"},
         Forward(type, Msg(out))
  PROVE  Apart'
<1>1. PICK ok \in SendResults :
        /\ wire' = IF ok THEN Sent(<<Msg(out)>>) ELSE wire
        /\ IF ok THEN mail' = Tail(mail) ELSE StopActor(Tail(mail))
  BY DEF Forward
<1>2. mail # <<>> /\ UNCHANGED <<rec, m, drv, sent, parted, crossed>> /\ TypeOK /\ TypeOK'
  BY DEF Forward, Receives, database, history, IInv
<1>3. CASE ~ok
  BY <1>1, <1>2, <1>3, HandsOnUnseen DEF StopActor
<1>4. CASE ok
  <2> DEFINE e == Msg(out)
             x == <<e>>
  <2>1. e \in Wires(sent) /\ e.type # "SpoolTask"
    BY WireSignals
  <2> HIDE DEF e
  <2>2. x \in Seq(Wires(sent)) /\ \A i \in 1 .. Len(x) : x[i].type # "SpoolTask"
    BY <2>1
  <2> HIDE DEF x
  <2>3. wire' = Sent(x)
    BY <1>1, <1>4 DEF x, e
  <2>4. /\ \A t \in Task : CountOf(wire', OnWire(t)) <= CountOf(wire, OnWire(t))
        /\ m.conn # "live" => wire' = wire
    BY <1>2, <2>2, <2>3, SendsNoTask
  <2>5. Leads(mail, mail')
    BY <1>1, <1>2, <1>4, LeadsNext
  <2>6. QED
    BY <1>2, <2>4, <2>5, QuietServer
<1>5. QED
  BY <1>3, <1>4

LEMMA HandleResetMachineUnseen ==
  ASSUME IInv, IInv', Apart, HandleResetMachine
  PROVE  Apart'
<1>1. mail # <<>> /\ UNCHANGED <<rec, sent, parted, crossed>>
  BY DEF HandleResetMachine, Receives, database, history
<1>2. CASE drv.up /\ Exit /\ m' = Dead /\ mail' = Closes(Tail(mail))
  <2>1. Leads(mail, Tail(mail)) /\ Tail(mail) \in Seq(Messages(rec, sent))
    BY <1>1, LeadsNext
  <2>2. QED
    BY <1>1, <1>2, <2>1, ClosedPlain, ExitUnseen DEF Closes
<1>3. CASE StopActor(Tail(mail)) /\ UNCHANGED <<m, wire, drv>>
  BY <1>1, <1>3, HandsOnUnseen DEF StopActor
<1>4. QED
  BY <1>2, <1>3 DEF HandleResetMachine

LEMMA HandleConnectUnseen ==
  ASSUME IInv, IInv', Apart, HandleConnect
  PROVE  Apart'
<1>0. SUFFICES ASSUME ~parted PROVE Apart'
  BY DEF Apart, HandleConnect, Ignore, history
<1>1. mail # <<>> /\ UNCHANGED <<rec, sent, parted, crossed>> /\ TypeOK /\ TypeOK'
  BY DEF HandleConnect, Receives, Ignore, database, history, IInv
<1>2. Linked /\ OnceDriven /\ NewInlines
  BY <1>0 DEF Apart
<1>3. Leads(mail, Tail(mail))
  BY <1>1, LeadsNext
<1> DEFINE mm == IF m.data THEN m ELSE NewData(m)
<1>4. CASE Ignore
  BY <1>1, <1>4, HandsOnUnseen DEF Ignore
<1>5. ASSUME ~m.attempting
      PROVE  /\ m.conn = "none" /\ ~drv.up /\ wire = <<>> /\ Events(mail) = {}
             /\ mm.conn = "none" /\ mm.attempting = m.attempting /\ mm.seen = m.seen
             /\ ~Up(mm) /\ mm.saved = NoTask /\ mm \in Machines(sent)
  <2>1. m.conn = "none" /\ ~drv.up /\ wire = <<>> /\ Events(mail) = {} /\ ~Up(m) /\ m.saved = NoTask
    BY <1>2, <1>5 DEF Linked
  <2>2. m \in Machines(sent) /\ NewData(m) \in Machines(sent)
    BY <1>1, MachineTypes DEF TypeOK
  <2>3. /\ NewData(m).conn = m.conn /\ NewData(m).attempting = m.attempting
        /\ NewData(m).seen = m.seen /\ NewData(m).saved = NoTask /\ ~Up(NewData(m))
    BY <2>2 DEF NewData, Machines, Up
  <2>4. QED
    BY <2>1, <2>2, <2>3
<1> HIDE DEF mm
<1>6. CASE ~m.attempting /\ mail' = Tail(mail) /\ m' = mm /\ UNCHANGED <<wire, drv>>
  <2>1. \A t \in Task : CountOf(wire', OnWire(t)) <= CountOf(wire, OnWire(t))
    BY <1>1, <1>6, WireSame
  <2>2. QED
    BY <1>1, <1>3, <1>5, <1>6, <2>1, QuietServer
<1>7. CASE /\ ~m.attempting /\ mail' = Tail(mail)
           /\ m' = [mm EXCEPT !.attempting = TRUE, !.conn = "live"]
           /\ drv' = IF drv.up THEN drv ELSE NewDriver
           /\ wire' = Append(wire, Msg("Hello"))
  <2>1. /\ m'.conn = "live" /\ m'.attempting /\ m'.saved = NoTask /\ ~Up(m')
    BY <1>5, <1>7 DEF Machines, Up
  <2>2. Events(mail') = {} /\ Ordered(mail')
    BY <1>2, <1>3, <1>5, <1>7 DEF Leads, Linked
  <2>3. drv' = NewDriver /\ drv'.up /\ drv'.st = "disconnected" /\ drv'.spool = <<>>
    BY <1>5, <1>7 DEF NewDriver
  <2>4. \A t \in Task : Driven(t)' = 0
    <3> DEFINE e == Msg("Hello")
    <3>1. e \in Wires(sent) /\ e.type # "SpoolTask"
      BY WireSignals
    <3>2. wire' = Append(<<>>, e)
      BY <1>5, <1>7
    <3> HIDE DEF e
    <3>3. \A t \in Task : CountOf(<<e>>, OnWire(t)) = 0
      BY <3>1, CountOne DEF OnWire
    <3>4. \A t \in Task : CountOf(wire', OnWire(t)) = 0 /\ CountOf(drv'.spool, {t}) = 0
      <4>1. wire' = <<e>>
        BY <3>2
      <4>2. QED
        BY <2>3, <3>3, <4>1, CountEmpty
    <3>5. QED
      BY <3>4 DEF Driven
  <2>5. Linked'
    BY <2>1, <2>2, <2>3 DEF Linked
  <2>6. Lives'
    BY <2>1, <2>2, <2>3, <2>4 DEF Lives
  <2>7. OnceDriven' /\ NewInlines'
    BY <1>1, <1>2, <2>4 DEF OnceDriven, NewInlines, Task
  <2>8. Unsettled'
    BY <2>4 DEF Unsettled
  <2>9. Unended'
    BY <2>1, <2>2, <2>3, TasksAssumption DEF Unended, Held
  <2>10. QED
    BY <2>5, <2>6, <2>7, <2>8, <2>9 DEF Apart
<1>8. QED
  BY <1>4, <1>6, <1>7 DEF HandleConnect, mm

LEMMA HandleClosedUnseen ==
  ASSUME IInv, IInv', Apart, HandleClosed
  PROVE  Apart'
<1>0. SUFFICES ASSUME ~parted PROVE Apart'
  BY DEF Apart, HandleClosed, history
<1>1. /\ mail # <<>> /\ Head(mail).type = "Closed" /\ TypeOK
      /\ UNCHANGED <<rec, wire, drv, sent, parted, crossed>>
  BY DEF HandleClosed, Receives, database, history, IInv
<1>2. Linked /\ OnceDriven /\ NewInlines
  BY <1>0 DEF Apart
<1>3. mail \in Seq(Messages(rec, sent)) /\ Tail(mail) \in Seq(Messages(rec, sent))
  BY <1>1, LeadsNext, SoundNow
<1>4. Head(mail) \in Events(mail) /\ \A e \in Events(Tail(mail)) : Follows(Head(mail), e)
  BY <1>1, <1>2, <1>3, LeadsTail DEF Linked, Streamed
<1>5. m.conn = "dead" /\ ~drv.up /\ wire = <<>> /\ drv.spool = <<>>
  BY <1>1, <1>2, <1>4 DEF Linked, TypeOK, Machines
<1>6. Events(Tail(mail)) = {}
  BY <1>1, <1>4, EventIs DEF Follows
<1>7. mail' = Append(Tail(mail), Msg("Connect"))
  BY <1>5 DEF HandleClosed
<1>8. Leads(Tail(mail), mail') /\ Leads(mail, mail')
  BY <1>1, <1>3, <1>7, LeadsAppend, LeadsNext, SignalsPlain
<1>9. Events(mail') = {} /\ Ordered(mail')
  BY <1>2, <1>6, <1>8 DEF Leads, Linked
<1>10. m'.conn = "none" /\ m'.saved = NoTask /\ ~Up(m')
  <2> DEFINE st == IF m.data /\ m.status = "Stopped" THEN "Stopped" ELSE "Disconnected"
             mm == [NewData(m) EXCEPT !.conn = "none", !.attempting = FALSE, !.seen = FALSE]
  <2>1. m' = InStatus(mm, st)
    BY DEF HandleClosed
  <2>2. mm.conn = "none" /\ ~mm.homed /\ mm \in Machines(sent)
    <3>1. NewData(m) \in Machines(sent) /\ ~NewData(m).homed
      <4>1. m \in Machines(sent)
        BY <1>1 DEF TypeOK
      <4>2. QED
        BY <4>1, NewDataForgets
    <3> DEFINE n == NewData(m)
    <3> HIDE DEF n
    <3>2. QED
      BY <3>1 DEF Machines, n
  <2>3. st \in {"Stopped", "Disconnected"}
    OBVIOUS
  <2> HIDE DEF mm, st
  <2>4. QED
    BY <2>1, <2>2, <2>3 DEF InStatus, Machines, Up
<1>11. Linked'
  BY <1>1, <1>5, <1>9, <1>10 DEF Linked
<1>12. \A t \in Task : Driven(t)' = Driven(t)
  BY <1>1 DEF Driven
<1>13. OnceDriven' /\ NewInlines'
  BY <1>1, <1>2, <1>12 DEF OnceDriven, NewInlines, Task
<1>14. QED
  BY <1>10, <1>11, <1>13 DEF Apart

-----------------------------------------------------------------------------
(***************************************************************************)
(* The handlers of the actor that send tasks.                              *)
(***************************************************************************)
LEMMA CountOnce ==
  ASSUME NEW M, NEW x \in Seq(M), NEW T,
         \A i, j \in 1 .. Len(x) : x[i] \in T /\ x[j] \in T => i = j
  PROVE  CountOf(x, T) <= 1
<1>1. CASE \A i \in 1 .. Len(x) : x[i] \notin T
  BY <1>1, CountNone
<1>2. CASE \E k \in 1 .. Len(x) : x[k] \in T
  <2>1. PICK k \in 1 .. Len(x) : x[k] \in T
    BY <1>2
  <2>2. {i \in 1 .. Len(x) : x[i] \in T} = {k}
    BY <2>1
  <2>3. Cardinality({i \in 1 .. Len(x) : x[i] \in T}) = 1
    BY <2>2, FS_Singleton
  <2>4. QED
    BY <2>3 DEF CountOf
<1>3. QED
  BY <1>1, <1>2

\* What is sent to a driver brings it each task at most once.
Once(x, ts) ==
  /\ \A i \in 1 .. Len(x) : x[i].type = "SpoolTask" => x[i].task \in ts
  /\ \A i, j \in 1 .. Len(x) : x[i].type = "SpoolTask" /\ x[j].type = "SpoolTask"
                                 /\ x[i].task = x[j].task => i = j

LEMMA SendsOnce ==
  ASSUME TypeOK, NEW S \in SUBSET Task, sent \subseteq S, NEW x \in Seq(Wires(S)), NEW ts, Once(x, ts)
  PROVE  /\ \A t \in Task : CountOf(Sent(x), OnWire(t)) <= CountOf(wire, OnWire(t)) + One(t \in ts)
         /\ m.conn # "live" => Sent(x) = wire
<1>1. SUFFICES ASSUME NEW t \in Task
               PROVE  CountOf(Sent(x), OnWire(t)) <= CountOf(wire, OnWire(t)) + One(t \in ts)
  BY DEF Sent
<1>2. wire \in Seq(Wires(S))
  BY GrowsWithSent DEF TypeOK
<1>3. /\ CountOf(Sent(x), OnWire(t)) \in Nat /\ CountOf(wire, OnWire(t)) \in Nat
      /\ CountOf(x, OnWire(t)) \in Nat
      /\ CountOf(Sent(x), OnWire(t)) <= CountOf(wire, OnWire(t)) + CountOf(x, OnWire(t))
  BY <1>2, SentType
<1>4. CountOf(x, OnWire(t)) <= One(t \in ts)
  <2>1. CASE t \in ts
    <3>1. \A i, j \in 1 .. Len(x) : x[i] \in OnWire(t) /\ x[j] \in OnWire(t) => i = j
      BY DEF Once, OnWire
    <3>2. CountOf(x, OnWire(t)) <= 1
      BY <3>1, CountOnce
    <3>3. QED
      BY <2>1, <3>2 DEF One
  <2>2. CASE t \notin ts
    <3>1. \A i \in 1 .. Len(x) : x[i] \notin OnWire(t)
      BY <2>2 DEF Once, OnWire
    <3>2. CountOf(x, OnWire(t)) = 0
      BY <3>1, CountNone
    <3>3. QED
      BY <2>2, <3>2 DEF One
  <2>3. QED
    BY <2>1, <2>2
<1> DEFINE a == CountOf(Sent(x), OnWire(t))
           b == CountOf(wire, OnWire(t))
           c == CountOf(x, OnWire(t))
           o == One(t \in ts)
<1>5. a \in Nat /\ b \in Nat /\ c \in Nat /\ o \in Nat /\ a <= b + c /\ c <= o
  BY <1>3, <1>4 DEF One
<1> HIDE DEF a, b, c, o
<1>6. a <= b + o
  BY <1>5
<1>7. QED
  BY <1>6 DEF a, b, o

\* What is left of the mailbox when the copies of ts in it have become stale.
LEMMA LeadsRest ==
  ASSUME IInv, mail # <<>>, NEW ts
  PROVE  /\ Leads(mail, StaleIn(ts, Tail(mail)))
         /\ StaleIn(ts, Tail(mail)) \in Seq(Messages(rec, sent))
         /\ Leads(mail, Append(StaleIn(ts, Tail(mail)), Msg("Stop")))
<1> DEFINE rest == Tail(mail)
           box == StaleIn(ts, rest)
<1>1. Leads(mail, rest) /\ rest \in Seq(Messages(rec, sent))
  BY LeadsNext
<1>2. Moved(rec, rec, sent, sent, ts)
  BY DEF Moved
<1> HIDE DEF rest
<1>3. Leads(rest, box) /\ box \in Seq(Messages(rec, sent))
  BY <1>1, <1>2, LeadsStale, StaleKeeps
<1> HIDE DEF box
<1>4. Leads(box, Append(box, Msg("Stop")))
  BY <1>3, LeadsAppend, SignalsPlain
<1>5. QED
  BY <1>1, <1>3, <1>4, LeadsBeyond DEF rest, box

LEMMA LeadsTwice ==
  ASSUME IInv, mail # <<>>, NEW ts, NEW more
  PROVE  /\ Leads(Tail(mail), StaleIn(more, StaleIn(ts, Tail(mail))))
         /\ StaleIn(more, StaleIn(ts, Tail(mail))) \in Seq(Messages(rec, sent))
         /\ Leads(mail, StaleIn(more, StaleIn(ts, Tail(mail))))
         /\ Leads(mail, Append(StaleIn(more, StaleIn(ts, Tail(mail))), Msg("Stop")))
<1> DEFINE rest == Tail(mail)
           one == StaleIn(ts, rest)
           box == StaleIn(more, one)
<1>1. Leads(mail, rest) /\ rest \in Seq(Messages(rec, sent))
  BY LeadsNext
<1>2. Moved(rec, rec, sent, sent, ts) /\ Moved(rec, rec, sent, sent, more)
  BY DEF Moved
<1> HIDE DEF rest
<1>3. Leads(rest, one) /\ one \in Seq(Messages(rec, sent))
  BY <1>1, <1>2, LeadsStale, StaleKeeps
<1> HIDE DEF one
<1>4. Leads(one, box) /\ box \in Seq(Messages(rec, sent))
  BY <1>2, <1>3, LeadsStale, StaleKeeps
<1> HIDE DEF box
<1>5. Leads(box, Append(box, Msg("Stop")))
  BY <1>4, LeadsAppend, SignalsPlain
<1>6. Leads(rest, box) /\ Leads(mail, box) /\ Leads(mail, Append(box, Msg("Stop")))
  BY <1>1, <1>3, <1>4, <1>5, LeadsBeyond
<1>7. QED
  BY <1>4, <1>6 DEF rest, one, box

\* What the machine knows goes on as long as neither it nor the driver forgets it.
LEMMA ServingStays ==
  ASSUME Apart, ~parted, m.conn = "live", Up(m), m.seen => m'.seen, UNCHANGED drv, Leads(mail, mail')
  PROVE  Serving'
BY DEF Apart, Lives, Serving, Leads

LEMMA SpoolsUnseen ==
  ASSUME IInv, IInv', Apart, mail # <<>>, Head(mail).type \in {"SpoolTask", "SpoolPrint"},
         m.conn # "none", Up(m), NEW override \in BOOLEAN, NEW lands \in BOOLEAN,
         lands => Head(mail).fresh \/ Head(mail).type = "SpoolPrint",
         wire' = Sent(<<SpoolMsg(Head(mail).task, override)>>),
         rec' = Spooled(rec, Head(mail).task, lands),
         mail' = StaleIn(IF lands THEN {Head(mail).task} ELSE {}, Tail(mail)),
         sent' = sent \cup {Head(mail).task},
         m'.saved \in {m.saved, NoTask}, m'.conn = m.conn, m'.attempting = m.attempting,
         m'.seen = m.seen,
         parted' = (parted \/ ~lands), UNCHANGED <<drv, crossed>>
  PROVE  Apart'
<1> DEFINE e == Head(mail)
           t == e.task
           ts == {t}
           f == SpoolMsg(t, override)
           x == <<f>>
<1>0. SUFFICES ASSUME ~parted, lands PROVE Apart'
  BY DEF Apart
<1>1. TypeOK /\ TypeOK' /\ rec \in [Task -> Statuses] /\ sent \in SUBSET Task
  BY DEF IInv, TypeOK
<1>2. /\ e \in Mailable
      /\ e.type = "SpoolTask" => t \in Inlines
      /\ e.type = "SpoolPrint" => t \in Prints
      /\ t \in Task /\ (e.type = "SpoolTask" => rec[t] = "created")
  <2>1. e \in Mailable /\ Names(e, rec, sent)
    BY ReceivesHead
  <2>2. e.type = "SpoolTask" => t \in Inlines
    BY <2>1, MailableByType DEF SpoolTasks
  <2>3. e.type = "SpoolPrint" => t \in Prints
    BY <2>1, MailableByType DEF SpoolPrints
  <2>4. QED
    BY <1>0, <2>1, <2>2, <2>3 DEF Names, Task
<1>3. Linked /\ NewInlines
  BY <1>0 DEF Apart
<1>4. Leads(mail, mail')
  BY LeadsRest
<1>5. ~crossed /\ t \in Prints => t \notin sent
  <2>1. SUFFICES ASSUME ~crossed, t \in Prints, t \in sent PROVE FALSE
    OBVIOUS
  <2>2. e.type = "SpoolPrint"
    BY <1>2, <2>1, TasksAssumption
  <2>3. e \in Asks(t)
    BY <1>2, <2>2 DEF Asks
  <2>4. AskedIn(mail, job, t) = 0
    BY <2>1, SoundNow
  <2>5. /\ CountOf(mail, Asks(t)) = CountOf(Tail(mail), Asks(t)) + One(e \in Asks(t))
        /\ Tail(mail) \in Seq(Messages(rec, sent)) /\ CountOf(mail, Asks(t)) \in Nat
    BY <1>1, <2>1, ReceivesHead, PlacesAreNat
  <2>6. CountOf(Tail(mail), Asks(t)) \in Nat
    BY <2>5, CountIsNat
  <2>7. QED
    BY <2>3, <2>4, <2>5, <2>6 DEF AskedIn, One
<1>6. t \in Inlines => t \notin sent
  BY <1>2, <1>3, TasksAssumption DEF NewInlines
<1> HIDE DEF e
<1>7. f \in Wires(sent') /\ f.type = "SpoolTask" /\ f.task = t
  <2>1. sent' \in SUBSET Task /\ t \in sent'
    BY <1>1, <1>2 DEF e
  <2> HIDE DEF t
  <2>2. QED
    BY <2>1, SpoolMsgIs DEF SpoolMsg
<1>8. \A u \in Task : rec'[u] = IF u = t THEN "sent" ELSE rec[u]
  BY <1>0, <1>1, <1>2 DEF Spooled, e
<1> HIDE DEF f, t
<1>9. x \in Seq(Wires(sent')) /\ Once(x, ts)
  BY <1>7 DEF Once
<1>10. sent' \in SUBSET Task /\ sent \subseteq sent' /\ sent' = sent \cup ts
  BY <1>1, <1>2 DEF t, e
<1> HIDE DEF x
<1>11. /\ \A u \in Task : CountOf(wire', OnWire(u)) <= CountOf(wire, OnWire(u)) + One(u \in ts)
       /\ m.conn # "live" => wire' = wire
  <2>1. wire' = Sent(x)
    BY DEF x, f, t, e
  <2> HIDE DEF ts
  <2>2. QED
    BY <1>1, <1>9, <1>10, <2>1, SendsOnce
<1>12. m.conn = "live" => Serving'
  BY <1>0, <1>4, ServingStays
<1>13. Serves(ts)
  BY <1>4, <1>10, <1>11, <1>12 DEF Serves
<1>14. Sends(ts)
  BY <1>3, <1>6, <1>8, <1>10 DEF Sends, NewInlines, Task
<1>15. ASSUME ~crossed', m.conn = "live" PROVE Tracks(ts)
  <2>1. Unsettled /\ ~crossed
    BY <1>0, <1>15 DEF Apart
  <2>2. t \notin sent
    BY <1>2, <1>5, <1>6, <2>1 DEF Task
  <2>3. \A u \in Task : drv.st = "ready" /\ (Driven(u) > 0 \/ u \in ts) => rec'[u] \in Pending
    BY <1>8, <2>1 DEF Unsettled, Pending
  <2>4. QED
    BY <2>2, <2>3 DEF Tracks
<1>16. ts \in SUBSET Task
  BY <1>2
<1> HIDE DEF ts
<1>17. QED
  BY <1>0, <1>1, <1>13, <1>14, <1>15, <1>16, ServerStep

LEMMA CanStartUp == \A p, override, auto : CanStart(p, override, auto) => Up(m)
BY DEF CanStart, Up

LEMMA HandleSpoolTaskUnseen ==
  ASSUME IInv, IInv', Apart, HandleSpoolTask
  PROVE  Apart'
<1> DEFINE e == Head(mail)
<1>1. mail # <<>> /\ e.type = "SpoolTask" /\ UNCHANGED drv
  BY DEF HandleSpoolTask, Receives
<1>2. e.override \in BOOLEAN /\ e.fresh \in BOOLEAN
  <2>1. e \in SpoolTasks
    BY <1>1, ReceivesHead, MailableByType
  <2>2. QED
    BY <2>1 DEF SpoolTasks
<1> HIDE DEF e
<1>3. CASE Refuse
  BY <1>1, <1>3, HandsOnUnseen DEF Refuse, history
<1>4. CASE StopActor(Tail(mail)) /\ UNCHANGED <<rec, m, wire, history>>
  BY <1>1, <1>4, HandsOnUnseen DEF StopActor, history
<1>5. CASE ~Refuse /\ ~(StopActor(Tail(mail)) /\ UNCHANGED <<rec, m, wire, history>>)
  <2>1. CanStart(e.task, e.override, FALSE)
    BY <1>5 DEF HandleSpoolTask, e
  <2>2. PICK ok \in SendResults :
          /\ ok
          /\ wire' = Sent(<<SpoolMsg(e.task, e.override)>>)
          /\ rec' = Spooled(rec, e.task, e.fresh)
          /\ mail' = StaleIn(IF e.fresh THEN {e.task} ELSE {}, Tail(mail))
          /\ Spend({e.task}) /\ sent' = sent \cup {e.task}
          /\ parted' = (parted \/ ~e.fresh) /\ crossed' = crossed
          /\ m' = m
    BY <1>5 DEF HandleSpoolTask, e
  <2>3. m.conn # "none"
    BY <2>2 DEF SendResults
  <2>4. Up(m)
    BY <2>1, CanStartUp
  <2>5. PICK lands \in BOOLEAN : lands = e.fresh
    BY <1>2
  <2>6. /\ rec' = Spooled(rec, e.task, lands) /\ parted' = (parted \/ ~lands)
        /\ mail' = StaleIn(IF lands THEN {e.task} ELSE {}, Tail(mail))
        /\ lands => e.fresh \/ e.type = "SpoolPrint"
    BY <2>2, <2>5
  <2>7. QED
    BY <1>1, <1>2, <2>2, <2>3, <2>4, <2>6, SpoolsUnseen DEF e
<1>6. QED
  BY <1>3, <1>4, <1>5

LEMMA PrintingSame ==
  ASSUME TypeOK, NEW p, NEW paused
  PROVE  /\ Printing(m, p, paused).conn = m.conn /\ Printing(m, p, paused).attempting = m.attempting
         /\ Printing(m, p, paused).seen = m.seen /\ Printing(m, p, paused).saved = NoTask
BY DEF Printing, TypeOK, Machines

LEMMA HandleSpoolPrintUnseen ==
  ASSUME IInv, IInv', Apart, HandleSpoolPrint
  PROVE  Apart'
<1> DEFINE e == Head(mail)
           p == e.task
<1>1. mail # <<>> /\ e.type = "SpoolPrint" /\ UNCHANGED drv /\ TypeOK /\ TypeOK'
  BY DEF HandleSpoolPrint, Receives, IInv
<1> HIDE DEF e
<1>3. CASE mail' = Tail(mail) /\ UNCHANGED <<rec, m, wire, history>>
  BY <1>1, <1>3, HandsOnUnseen DEF history
<1>4. CASE StopActor(StaleIn(IF e.fresh THEN {p} ELSE {}, Tail(mail))) /\ UNCHANGED <<rec, m, wire, history>>
  <2>1. Leads(mail, mail')
    BY <1>1, <1>4, LeadsRest DEF StopActor
  <2>2. QED
    BY <1>1, <1>4, <2>1, MailOnly DEF history
<1>5. CASE ~(mail' = Tail(mail) /\ UNCHANGED <<rec, m, wire, history>>)
           /\ ~(StopActor(StaleIn(IF e.fresh THEN {p} ELSE {}, Tail(mail)))
                /\ UNCHANGED <<rec, m, wire, history>>)
  <2>1. CanStart(p, FALSE, e.auto)
    BY <1>5 DEF HandleSpoolPrint, e
  <2>2. PICK ok \in SendResults :
          /\ ok
          /\ wire' = Sent(<<SpoolMsg(p, FALSE)>>)
          /\ rec' = Spooled(rec, p, e.fresh \/ e.late)
          /\ mail' = StaleIn(IF e.fresh \/ e.late THEN {p} ELSE {}, Tail(mail))
          /\ m' = Printing(m, p, FALSE)
          /\ Spend({p}) /\ sent' = sent \cup {p}
          /\ parted' = (parted \/ ~(e.fresh \/ e.late)) /\ crossed' = crossed
    BY <1>5 DEF HandleSpoolPrint, e
  <2>3. m.conn # "none"
    BY <2>2 DEF SendResults
  <2>4. Up(m)
    BY <2>1, CanStartUp
  <2>5. /\ m'.conn = m.conn /\ m'.attempting = m.attempting /\ m'.seen = m.seen
        /\ m'.saved \in {m.saved, NoTask}
    BY <1>1, <2>2, PrintingSame
  <2>6. PICK no, lands \in BOOLEAN : no = FALSE /\ lands = (e.fresh \/ e.late)
    OBVIOUS
  <2>7. /\ wire' = Sent(<<SpoolMsg(p, no)>>) /\ rec' = Spooled(rec, p, lands)
        /\ mail' = StaleIn(IF lands THEN {p} ELSE {}, Tail(mail))
        /\ parted' = (parted \/ ~lands)
    BY <2>2, <2>6
  <2>8. QED
    BY <1>1, <2>2, <2>3, <2>4, <2>5, <2>7, SpoolsUnseen DEF e
<1>6. QED
  BY <1>3, <1>4, <1>5

LEMMA PauseSendsOnce ==
  ASSUME NEW S \in SUBSET Task, NEW p \in Prints, NEW hook \in Inlines,
         NEW ok \in BOOLEAN, NEW okHook \in BOOLEAN, okHook => hook \in S
  PROVE  /\ PauseSends(p, hook, ok, okHook) \in Seq(Wires(S))
         /\ Once(PauseSends(p, hook, ok, okHook), IF okHook THEN {hook} ELSE {})
<1> DEFINE e == [type |-> "Pause", task |-> p]
           f == SpoolMsg(hook, FALSE)
           x == PauseSends(p, hook, ok, okHook)
<1>1. e \in Wires(S) /\ e.type # "SpoolTask"
  BY DEF Wires, Wireable
<1>2. okHook => f \in Wires(S)
  BY SpoolMsgIs
<1>3. f.task = hook /\ f.type = "SpoolTask"
  BY DEF SpoolMsg
<1>4. x = (IF ok THEN <<e>> ELSE <<>>) \o (IF okHook THEN <<f>> ELSE <<>>)
  BY DEF PauseSends
<1> HIDE DEF e, f, x
<1>5. CASE ok /\ okHook
  <2> DEFINE a == <<e>>
             b == <<f>>
  <2>1. a \in Seq(Wires(S)) /\ b \in Seq(Wires(S)) /\ Len(a) = 1 /\ Len(b) = 1 /\ a[1] = e /\ b[1] = f
    BY <1>1, <1>2, <1>5
  <2> HIDE DEF a, b
  <2>2. x \in Seq(Wires(S)) /\ Len(x) = 2 /\ x[1] = e /\ x[2] = f
    <3>1. x = a \o b
      BY <1>4, <1>5 DEF a, b
    <3>2. QED
      BY <2>1, <3>1, ConcatProperties
  <2>3. \A i \in 1 .. Len(x) : x[i].type = "SpoolTask" => i = 2 /\ x[i] = f
    BY <1>1, <2>2
  <2>4. QED
    BY <1>3, <1>5, <2>2, <2>3 DEF Once, x
<1>6. CASE ok /\ ~okHook
  <2>1. x = <<e>>
    BY <1>4, <1>6
  <2>2. x \in Seq(Wires(S)) /\ \A i \in 1 .. Len(x) : x[i].type # "SpoolTask"
    BY <1>1, <2>1
  <2>3. QED
    BY <2>2 DEF Once, x
<1>7. CASE ~ok /\ okHook
  <2>1. x = <<f>>
    BY <1>4, <1>7
  <2>2. x \in Seq(Wires(S)) /\ \A i \in 1 .. Len(x) : i = 1 /\ x[i] = f
    BY <1>2, <1>7, <2>1
  <2>3. QED
    BY <1>3, <1>7, <2>2 DEF Once, x
<1>8. CASE ~ok /\ ~okHook
  <2>1. x = <<>>
    BY <1>4, <1>8
  <2>2. QED
    BY <2>1 DEF Once, x
<1>9. QED
  BY <1>5, <1>6, <1>7, <1>8

LEMMA PausesUnseen ==
  ASSUME IInv, IInv', Apart, NEW hook \in NewInline, NEW ok \in SendResults, NEW okHook \in SendResults,
         NEW x \in {<<>>, <<Msg("Stop")>>, <<Msg("Stop"), Msg("Stop")>>},
         PausesBy(hook, ok, okHook, x), m.homed
  PROVE  Apart'
<1> DEFINE p == Head(mail).task
           ts == IF okHook THEN {hook} ELSE {}
<1>0. SUFFICES ASSUME ~parted PROVE Apart'
  BY DEF Apart, PausesBy
<1>1. /\ TypeOK /\ TypeOK' /\ rec \in [Task -> Statuses] /\ sent \in SUBSET Task /\ mail # <<>>
      /\ sent' \in SUBSET Task
      /\ UNCHANGED <<drv, parted, crossed>> /\ ok \in BOOLEAN /\ okHook \in BOOLEAN
  BY SendResultsAre DEF IInv, TypeOK, PausesBy
<1>2. hook \in Inlines /\ hook \in Task /\ hook \notin sent
  BY NewInlineIs
<1>3. p \in Prints /\ p \in Task /\ p # hook
  <2>1. Head(mail) \in Pauses
    BY <1>1, ReceivesHead, MailableByType DEF PausesBy
  <2>2. QED
    BY <1>2, <2>1, TasksAssumption DEF Pauses, Task
<1>4. /\ m' = Printing(m, p, TRUE) /\ wire' = Sent(PauseSends(p, hook, ok, okHook))
      /\ mail' = StaleIn({p}, Tail(mail)) \o x /\ sent' = sent \cup ts
      /\ rec' = [rec EXCEPT ![p] = "paused", ![hook] = IF okHook THEN "sent" ELSE "created"]
  BY DEF PausesBy
<1> HIDE DEF p
<1>5. /\ m'.conn = m.conn /\ m'.attempting = m.attempting /\ m'.seen = m.seen /\ m'.saved = NoTask
  BY <1>1, <1>4, PrintingSame
<1>6. Linked /\ NewInlines /\ Up(m)
  BY <1>0 DEF Apart, Up
<1>7. m.conn # "none"
  BY <1>6 DEF Linked
<1>8. Leads(mail, mail')
  <2> DEFINE box == StaleIn({p}, Tail(mail))
             s == Msg("Stop")
  <2>1. Leads(mail, box) /\ box \in Seq(Messages(rec, sent))
    BY <1>1, LeadsRest
  <2>2. s \in Messages(rec, sent) /\ ~Streamed(s)
    BY NeutralOnes, SignalsPlain
  <2>3. x \in {<<>>, <<s>>, <<s, s>>} /\ mail' = box \o x
    BY <1>4
  <2> HIDE DEF box, s
  <2>4. x \in Seq(Messages(rec, sent)) /\ \A i \in 1 .. Len(x) : ~Streamed(x[i])
    <3>1. CASE x = <<>>
      BY <3>1
    <3>2. CASE x = <<s>>
      BY <2>2, <3>2
    <3>3. CASE x = <<s, s>>
      BY <2>2, <3>3
    <3>4. QED
      BY <2>3, <3>1, <3>2, <3>3
  <2>5. Leads(box, box \o x)
    BY <2>1, <2>4, LeadsPlain
  <2>6. QED
    BY <2>1, <2>3, <2>5, LeadsBeyond
<1>9. /\ \A t \in Task : CountOf(wire', OnWire(t)) <= CountOf(wire, OnWire(t)) + One(t \in ts)
      /\ m.conn # "live" => wire' = wire
  <2> DEFINE y == PauseSends(p, hook, ok, okHook)
  <2>1. y \in Seq(Wires(sent')) /\ Once(y, ts)
    BY <1>1, <1>2, <1>3, <1>4, PauseSendsOnce
  <2>2. wire' = Sent(y) /\ sent \subseteq sent'
    BY <1>4
  <2> HIDE DEF y, ts
  <2>3. QED
    BY <1>1, <2>1, <2>2, SendsOnce
<1>10. m.conn = "live" => Serving'
  BY <1>0, <1>1, <1>5, <1>6, <1>8, ServingStays
<1>11. \A t \in Task : rec'[t] = IF t = p THEN "paused"
                                 ELSE IF t = hook THEN (IF okHook THEN "sent" ELSE "created")
                                 ELSE rec[t]
  BY <1>1, <1>2, <1>3, <1>4
<1>12. Serves(ts)
  BY <1>1, <1>4, <1>5, <1>7, <1>8, <1>9, <1>10 DEF Serves
<1>13. Sends(ts)
  <2>1. \A t \in Inlines : t \in ts => t \notin sent
    BY <1>2
  <2>2. ASSUME NEW t \in Inlines, rec'[t] = "created" PROVE t \notin sent'
    <3>1. t \in Task /\ t # p
      BY <1>11, <2>2 DEF Task
    <3>2. (t = hook /\ ~okHook) \/ (t # hook /\ rec[t] = "created")
      BY <1>11, <2>2, <3>1
    <3>3. QED
      BY <1>2, <1>4, <1>6, <3>2 DEF NewInlines
  <2>3. QED
    BY <2>1, <2>2 DEF Sends
<1>14. ASSUME ~crossed', m.conn = "live" PROVE Tracks(ts)
  <2>1. Unsettled
    BY <1>0, <1>1, <1>14 DEF Apart
  <2>2. \A t \in ts : t \notin sent
    BY <1>2
  <2>3. \A t \in Task : drv.st = "ready" /\ (Driven(t) > 0 \/ t \in ts) => rec'[t] \in Pending
    BY <1>11, <2>1 DEF Unsettled, Pending
  <2>4. QED
    BY <1>5, <2>2, <2>3 DEF Tracks
<1>15. ts \in SUBSET Task
  BY <1>2
<1> HIDE DEF ts
<1>16. QED
  BY <1>0, <1>1, <1>12, <1>13, <1>14, <1>15, ServerStep

LEMMA HandlePauseUnseen ==
  ASSUME IInv, IInv', Apart, HandlePause
  PROVE  Apart'
<1> DEFINE e == Head(mail)
           p == e.task
           Goes2(hook, ok, okHook) ==
             /\ m' = Printing(m, p, TRUE)
             /\ rec' = [rec EXCEPT ![p] = "paused",
                                   ![hook] = IF okHook THEN "sent" ELSE "created"]
             /\ wire' = Sent(PauseSends(p, hook, ok, okHook))
             /\ LET rest == StaleIn({p}, Tail(mail))
                IN  IF ok /\ okHook THEN mail' = rest
                    ELSE IF ok \/ okHook THEN StopActor(rest)
                    ELSE mail' = rest \o <<Msg("Stop"), Msg("Stop")>>
             /\ credit' = [credit EXCEPT ![hook] = IF okHook THEN @ ELSE @ + 1]
             /\ sent' = IF okHook THEN sent \cup {hook} ELSE sent
             /\ job' = StaleJobs({p}, job)
<1>1. /\ mail # <<>> /\ e.type = "Pause"
      /\ UNCHANGED <<resuming, retry, drv, parted, crossed, ops, faults>>
  BY DEF HandlePause, Receives, bounds
<1>2. CASE Refuse /\ UNCHANGED job
  BY <1>1, <1>2, HandsOnUnseen DEF Refuse, history
<1>3. CASE /\ m.homed /\ rec[p] \notin Final \cup {"paused"}
           /\ \E hook \in NewInline, ok \in SendResults, okHook \in SendResults : Goes2(hook, ok, okHook)
  <2>1. PICK hook \in NewInline, ok \in SendResults, okHook \in SendResults : Goes2(hook, ok, okHook)
    BY <1>3
  <2> DEFINE rest == Tail(mail)
             box == StaleIn({p}, rest)
  <2>2. \/ mail' = box \/ mail' = Append(box, Msg("Stop"))
        \/ mail' = box \o <<Msg("Stop"), Msg("Stop")>>
    BY <2>1 DEF StopActor
  <2>3. box \in Seq(Messages(rec, sent))
    BY <1>1, LeadsRest
  <2> HIDE DEF box
  <2>4. box = box \o <<>> /\ Append(box, Msg("Stop")) = box \o <<Msg("Stop")>>
    <3>1. Msg("Stop") \in Messages(rec, sent)
      BY NeutralOnes
    <3>2. QED
      BY <2>3, <3>1, ConcatEmptySeq, AppendIsConcat
  <2>5. PICK x \in {<<>>, <<Msg("Stop")>>, <<Msg("Stop"), Msg("Stop")>>} : mail' = box \o x
    BY <2>2, <2>4
  <2>6. PausesBy(hook, ok, okHook, x)
    BY <1>1, <1>3, <2>1, <2>5 DEF PausesBy, box
  <2>7. QED
    BY <1>3, <2>5, <2>6, PausesUnseen
<1>4. QED
  <2>1. \E homed \in {FALSE, m.homed} :
          IF ~m.data \/ ~homed \/ rec[p] \in Final \cup {"paused"}
          THEN Refuse /\ UNCHANGED job
          ELSE \E hook \in NewInline, ok \in SendResults, okHook \in SendResults : Goes2(hook, ok, okHook)
    BY Zenon DEF HandlePause, PauseSends
  <2> HIDE DEF Goes2
  <2>2. QED
    BY <1>2, <1>3, <2>1 DEF Goes2

LEMMA ResumeSendsOnce ==
  ASSUME NEW S \in SUBSET Task, NEW p \in Prints, NEW warm \in Inlines, NEW hook \in Inlines,
         warm # hook, NEW n \in 0 .. 3, FirstOf(warm, hook, p, n) \subseteq S
  PROVE  /\ ResumeSends(warm, hook, p, n) \in Seq(Wires(S))
         /\ Once(ResumeSends(warm, hook, p, n), FirstOf(warm, hook, p, n))
<1> DEFINE o == InOrder(warm, hook, p)
           x == ResumeSends(warm, hook, p, n)
           ts == FirstOf(warm, hook, p, n)
<1>1. o[1] = warm /\ o[2] = hook /\ o[3] = p
  BY DEF InOrder
<1>2. Len(x) = n /\ \A i \in 1 .. n : x[i] = SpoolMsg(o[i], FALSE)
  BY DEF ResumeSends
<1>3. \A i \in 1 .. n : o[i] \in ts /\ o[i] \in S
  BY DEF FirstOf
<1>4. \A i, j \in 1 .. n : o[i] = o[j] => i = j
  <2>1. warm # p /\ hook # p
    BY TasksAssumption
  <2>2. \A i \in 1 .. n : i = 1 \/ i = 2 \/ i = 3
    OBVIOUS
  <2> HIDE DEF o
  <2>3. QED
    BY <1>1, <2>1, <2>2
<1> HIDE DEF o, ts
<1>5. \A i \in 1 .. n : x[i] \in Wires(S) /\ x[i].task = o[i]
  <2>1. SUFFICES ASSUME NEW i \in 1 .. n PROVE x[i] \in Wires(S) /\ x[i].task = o[i]
    OBVIOUS
  <2> DEFINE t == o[i]
  <2>2. t \in S /\ x[i] = SpoolMsg(t, FALSE)
    BY <1>2, <1>3
  <2> HIDE DEF t, x
  <2>3. SpoolMsg(t, FALSE) \in Wires(S) /\ SpoolMsg(t, FALSE).task = t
    <3>1. SpoolMsg(t, FALSE) \in Wires(S)
      BY <2>2, SpoolMsgIs
    <3>2. QED
      BY <3>1 DEF SpoolMsg
  <2>4. QED
    BY <2>2, <2>3 DEF t
<1>6. x \in Seq(Wires(S))
  <2>1. x = [i \in 1 .. n |-> x[i]]
    BY DEF ResumeSends
  <2> HIDE DEF x
  <2>2. QED
    BY <1>5, <2>1
<1> HIDE DEF x
<1>7. Once(x, ts)
  BY <1>2, <1>3, <1>4, <1>5 DEF Once
<1>8. QED
  BY <1>6, <1>7 DEF x, ts

LEMMA ResumesUnseen ==
  ASSUME IInv, IInv', Apart, NEW warm \in NewInline, NEW n \in 0 .. 3, ResumesBy(warm, n),
         Up(m), m.conn = "live" => n = 3
  PROVE  Apart'
<1> DEFINE e == Head(mail)
           ts == FirstOf(warm, e.hook, e.task, n)
<1>0. SUFFICES ASSUME ~parted, e.fresh, e.freshHook PROVE Apart'
  BY DEF Apart, ResumesBy
<1>1. /\ TypeOK /\ TypeOK' /\ rec \in [Task -> Statuses] /\ sent \in SUBSET Task /\ mail # <<>>
      /\ sent' \in SUBSET Task /\ UNCHANGED drv /\ e.type = "Resume"
  BY DEF IInv, TypeOK, ResumesBy
<1>2. warm \in Inlines /\ warm \in Task /\ warm \notin sent /\ rec[warm] = "absent"
  BY NewInlineIs
<1>3. /\ e.task \in Prints /\ e.hook \in Inlines /\ rec[e.hook] = "created" /\ e.hook # warm
      /\ e.task \in Task /\ e.hook \in Task
  <2>1. e \in Mailable /\ Names(e, rec, sent)
    BY <1>1, ReceivesHead
  <2>2. e \in Resumes
    BY <1>1, <2>1, MailableByType
  <2>3. QED
    BY <1>0, <1>1, <1>2, <2>1, <2>2 DEF Names, Resumes, Task
<1>4. ts \subseteq {warm, e.hook, e.task} /\ n # 3 => ts \subseteq {warm, e.hook}
  BY FirstAre
<1>5. Fresh(warm) = {warm, e.hook, e.task}
  BY <1>0 DEF Fresh
<1>6. ts \subseteq {warm, e.hook, e.task}
  BY FirstAre
<1>7. /\ rec' = [t \in Task |-> IF t \in ts THEN "sent" ELSE IF t = warm THEN "created" ELSE rec[t]]
      /\ wire' = Sent(ResumeSends(warm, e.hook, e.task, n)) /\ sent' = sent \cup ts
      /\ mail' = StaleIn(ts, Tail(mail)) \/ mail' = Append(StaleIn(ts, Tail(mail)), Msg("Stop"))
      /\ m' = Printing(m, e.task, FALSE) \/ m' = [m EXCEPT !.saved = NoTask]
      /\ ~crossed' => ~crossed /\ m.saved = e.task
      /\ parted' = (parted \/ ~e.fresh \/ ~e.freshHook)
  <2>1. ts \cap Fresh(warm) = ts
    BY <1>5, <1>6
  <2>2. QED
    BY <2>1 DEF ResumesBy
<1> DEFINE y == ResumeSends(warm, e.hook, e.task, n)
<1>8. y \in Seq(Wires(sent')) /\ Once(y, ts)
  BY <1>1, <1>2, <1>3, <1>7, ResumeSendsOnce
<1>9. wire' = Sent(y) /\ sent \subseteq sent'
  BY <1>7
<1> HIDE DEF e, ts, y
<1>10. /\ \A t \in Task : CountOf(wire', OnWire(t)) <= CountOf(wire, OnWire(t)) + One(t \in ts)
       /\ m.conn # "live" => wire' = wire
  BY <1>1, <1>8, <1>9, SendsOnce
<1>11. /\ m'.conn = m.conn /\ m'.attempting = m.attempting /\ m'.seen = m.seen /\ m'.saved = NoTask
  <2>1. CASE m' = [m EXCEPT !.saved = NoTask]
    BY <1>1, <2>1 DEF TypeOK, Machines
  <2>2. CASE m' = Printing(m, e.task, FALSE)
    <3> DEFINE p == e.task
    <3>1. m' = Printing(m, p, FALSE)
      BY <2>2
    <3> HIDE DEF p
    <3>2. QED
      BY <1>1, <3>1, PrintingSame
  <2>3. QED
    BY <1>7, <2>1, <2>2
<1>12. Linked /\ NewInlines /\ m.conn # "none"
  BY <1>0 DEF Apart, Linked
<1>13. Leads(mail, mail')
  BY <1>1, <1>7, LeadsRest
<1>14. m.conn = "live" => Serving'
  BY <1>0, <1>1, <1>11, <1>13, ServingStays
<1>15. Serves(ts)
  BY <1>1, <1>7, <1>10, <1>11, <1>12, <1>13, <1>14 DEF Serves
<1>16. Sends(ts)
  <2>1. e.hook \notin sent
    BY <1>3, <1>12 DEF NewInlines
  <2>2. \A t \in Inlines : t \in ts => t \notin sent
    BY <1>2, <1>3, <1>6, <2>1, TasksAssumption
  <2>3. ASSUME NEW t \in Inlines, rec'[t] = "created" PROVE t \notin sent'
    <3>1. t \in Task /\ t \notin ts
      BY <1>7, <2>3 DEF Task
    <3>2. t = warm \/ rec[t] = "created"
      BY <1>7, <2>3, <3>1
    <3>3. QED
      BY <1>2, <1>7, <1>12, <3>1, <3>2 DEF NewInlines
  <2>4. QED
    BY <2>2, <2>3 DEF Sends
<1>17. ASSUME ~crossed', m.conn = "live" PROVE Tracks(ts)
  <2>1. Unsettled /\ m.saved = e.task
    BY <1>0, <1>7, <1>17 DEF Apart
  <2>2. e.hook \notin sent
    BY <1>3, <1>12 DEF NewInlines
  <2>3. \A t \in ts : t \notin sent \/ t = m.saved
    BY <1>2, <1>6, <2>1, <2>2
  <2>4. \A t \in Task : drv.st = "ready" /\ (Driven(t) > 0 \/ t \in ts) => rec'[t] \in Pending
    BY <1>7, <2>1 DEF Unsettled, Pending
  <2>5. QED
    BY <1>11, <2>3, <2>4 DEF Tracks
<1>18. ts \in SUBSET Task
  BY <1>2, <1>3, <1>6
<1>19. QED
  BY <1>0, <1>1, <1>7, <1>15, <1>16, <1>17, <1>18, ServerStep

LEMMA HandleResumeUnseen ==
  ASSUME IInv, IInv', Apart, HandleResume
  PROVE  Apart'
<1> DEFINE e == Head(mail)
<1>1. /\ mail # <<>> /\ e.type = "Resume" /\ SendResults \subseteq BOOLEAN
      /\ UNCHANGED <<resuming, retry, drv, ops, faults>>
  BY SendResultsAre DEF HandleResume, Receives, bounds, IInv
<1>2. CASE Refuse /\ UNCHANGED job
  BY <1>1, <1>2, HandsOnUnseen DEF Refuse, history
<1>3. CASE ~(Refuse /\ UNCHANGED job)
  <2>1. m.status = "Printing"
    BY <1>3 DEF HandleResume
  <2>2. PICK warm \in NewInline, n \in {IF ok THEN 3 ELSE 0 : ok \in SendResults}
                                        \cup (IF m.conn = "dead" THEN {1, 2} ELSE {}) :
              LET order == <<warm, e.hook, e.task>>
                  fresh == {warm} \cup (IF e.freshHook THEN {e.hook} ELSE {})
                                  \cup (IF e.fresh THEN {e.task} ELSE {})
                  done  == {order[i] : i \in 1 .. n}
              IN  /\ rec' = [t \in Task |-> IF t \in done \cap fresh THEN "sent"
                                            ELSE IF t = warm THEN "created" ELSE rec[t]]
                  /\ wire' = Sent([i \in 1 .. n |-> SpoolMsg(order[i], FALSE)])
                  /\ sent' = sent \cup done
                  /\ credit' = [t \in Task |->
                       credit[t] + (IF t = warm THEN 1 ELSE 0) - (IF t \in done THEN 1 ELSE 0)]
                  /\ mail' = LET rest == StaleIn(done \cap fresh, Tail(mail))
                             IN  IF n = 3 THEN rest ELSE Append(rest, Msg("Stop"))
                  /\ m' = IF n = 3 THEN Printing(m, e.task, FALSE)
                                   ELSE [m EXCEPT !.saved = NoTask]
                  /\ job' = StaleJobs(done \cap fresh, job)
                  /\ parted' = (parted \/ ~e.fresh \/ ~e.freshHook)
                  /\ crossed' = (crossed \/ m.saved # e.task)
    BY <1>3 DEF HandleResume
  <2>3. n \in 0 .. 3 /\ (m.conn = "live" => n = 3)
    <3>1. n \in 0 .. 3
      OBVIOUS
    <3>2. ASSUME m.conn = "live" PROVE n = 3
      <4>1. SendResults = {TRUE}
        BY <3>2 DEF SendResults
      <4>2. PICK ok \in SendResults : n = IF ok THEN 3 ELSE 0
        BY <3>2
      <4>3. QED
        BY <4>1, <4>2
    <3>3. QED
      BY <3>1, <3>2
  <2>4. ResumesBy(warm, n)
    BY <1>1, <2>2 DEF ResumesBy, Fresh, FirstOf, InOrder, ResumeSends
  <2>5. QED
    BY <2>1, <2>3, <2>4, ResumesUnseen DEF Up
<1>4. QED
  BY <1>2, <1>3

-----------------------------------------------------------------------------
(***************************************************************************)
(* A feedback is recorded: no task that is still to be run is settled.     *)
(***************************************************************************)
\* The works in which the tasks ts are still to be run, nothing has failed unless a
\* send has, and no inline task counts as new that was sent before.
Keeping(next, states, ts, ok) ==
  {w \in Works(next, states) :
     /\ ok => ~w.failed
     /\ \A t \in ts : w.rec[t] \in Pending
     /\ \A t \in Inlines : w.rec[t] = "created" => rec[t] = "created"}

LEMMA WorkKeeping ==
  ASSUME TypeOK, NEW next, NEW fb, NEW ts, \A t \in ts : rec[t] \in Pending, NEW ok
  PROVE  Work(fb, next) \in Keeping(next, {m.saved, NoTask}, ts, ok)
<1>1. Work(fb, next) \in Works(next, {m.saved, NoTask})
  BY WorkIs
<1>2. Work(fb, next).rec = rec /\ ~Work(fb, next).failed
  BY DEF Work
<1> DEFINE w == Work(fb, next)
<1> HIDE DEF w
<1>3. QED
  BY <1>1, <1>2 DEF Keeping

LEMMA FirstKeeping ==
  ASSUME TypeOK, NEW next, NEW states, NoTask \in states, NEW ok,
         NEW w \in Keeping(next, states, {}, ok), NEW fb, NEW pick
  PROVE  FirstFeedback(w, fb, pick) \in Keeping(next, states, {}, ok)
<1> DEFINE f == FirstFeedback(w, fb, pick)
<1>1. /\ w \in Works(next, states) /\ (ok => ~w.failed)
      /\ \A t \in Inlines : w.rec[t] = "created" => rec[t] = "created"
  BY DEF Keeping
<1>2. f \in Works(next, states)
  BY <1>1, FirstFeedbackIs
<1>3. f.failed = w.failed /\ \A t \in Task : f.rec[t] \in {"errored", w.rec[t]}
  BY <1>1 DEF FirstFeedback, Works
<1> HIDE DEF f
<1>4. \A t \in Inlines : f.rec[t] = "created" => rec[t] = "created"
  BY <1>1, <1>3 DEF Task
<1>5. QED
  BY <1>1, <1>2, <1>3, <1>4 DEF Keeping, f

\* What one entry changes of the records.
LEMMA ProgressRecords ==
  ASSUME IInv, NEW next, Startable(next), NEW states,
         NEW w \in Works(next, states), NEW e \in [task : sent, status : Progress],
         NEW pick, NEW ok \in BOOLEAN
  PROVE  /\ ok /\ ~w.failed => ~RecordProgress(w, e, pick, ok).failed
         /\ \A t \in Task : \/ RecordProgress(w, e, pick, ok).rec[t] = w.rec[t]
                            \/ t = e.task /\ RecordProgress(w, e, pick, ok).rec[t] = e.status
                            \/ t \in Prints /\ RecordProgress(w, e, pick, ok).rec[t] = "created"
<1> DEFINE a == e.task
           status == e.status
           changed == w.rec[a] \notin Final /\ ~(w.rec[a] = "paused" /\ status = "paused")
           u == [w EXCEPT !.touched = @ \cup {a},
                          !.again = @ \cup ({a} \cap w.touched)]
           s == Settle(u, a, status)
           p == AfterPrint(s, a, pick)
           z == [u EXCEPT !.rec = [@ EXCEPT ![a] = status]]
           v == IF ~changed THEN u
                ELSE IF status \in Final THEN p
                ELSE z
           x == IF ok THEN Append(v.out, [type |-> "DeleteTaskHistory", task |-> a]) ELSE v.out
           Fits(y) ==
             /\ DOMAIN y = DOMAIN w /\ y.failed = w.failed
             /\ \A t \in Task : \/ y.rec[t] = w.rec[t]
                                \/ t = a /\ y.rec[t] = status
                                \/ t \in Prints /\ y.rec[t] = "created"
<1>1. RecordProgress(w, e, pick, ok) =
        IF w.failed \/ w.rec[a] = "absent" THEN w
        ELSE IF changed /\ status \in Final \cup {"paused"}
        THEN [v EXCEPT !.out = x, !.failed = ~ok] ELSE v
  BY DEF RecordProgress
<1>2. /\ w \in [rec : [Task -> Statuses], m : Machines(sent), touched : SUBSET Task,
                again : SUBSET Task, out : Seq(Deletes), next : {NoTask, next},
                auto : {NoTask, next}, failed : BOOLEAN]
      /\ a \in Task
  BY SoundNow DEF Works, TypeOK
<1>3. /\ u \in [rec : [Task -> Statuses], m : Machines(sent), touched : SUBSET Task,
                again : SUBSET Task, out : Seq(Deletes), next : {NoTask, next},
                auto : {NoTask, next}, failed : BOOLEAN]
      /\ u.rec = w.rec /\ u.failed = w.failed /\ DOMAIN u = DOMAIN w /\ u.next = w.next
  BY <1>2
<1>4. w.next # NoTask => w.next \in Prints
  BY <1>2 DEF Startable
<1> HIDE DEF a, status, u
<1>5. Fits(w) /\ Fits(u)
  BY <1>2, <1>3
<1>6. Fits(z)
  BY <1>2, <1>3
<1>7. Fits(s)
  <2>1. CASE s = [u EXCEPT !.rec = [u.rec EXCEPT ![a] = status]]
    BY <1>2, <1>3, <2>1
  <2>2. CASE /\ w.next # NoTask
             /\ s = [u EXCEPT !.rec = [[u.rec EXCEPT ![a] = status] EXCEPT ![u.next] = "created"],
                              !.auto = u.next, !.next = NoTask]
    BY <1>2, <1>3, <1>4, <2>2
  <2>3. QED
    BY <1>3, <2>1, <2>2 DEF Settle
<1> HIDE DEF s
<1>8. p.rec = s.rec /\ p.failed = s.failed /\ DOMAIN p = DOMAIN s
  BY DEF AfterPrint
<1>9. Fits(p)
  BY <1>7, <1>8
<1> HIDE DEF p, z, changed
<1>10. Fits(v)
  BY <1>5, <1>6, <1>9
<1> HIDE DEF v, x
<1>11. /\ [v EXCEPT !.out = x, !.failed = ~ok].rec = v.rec
       /\ [v EXCEPT !.out = x, !.failed = ~ok].failed = ~ok
  BY <1>2, <1>10
<1> DEFINE R == RecordProgress(w, e, pick, ok)
           l == [v EXCEPT !.out = x, !.failed = ~ok]
<1>12. (R = w \/ R = v \/ R = l) /\ l.rec = v.rec /\ l.failed = ~ok
  BY <1>1, <1>11
<1> HIDE DEF R, l
<1>13. /\ ok /\ ~w.failed => ~R.failed
       /\ \A t \in Task : \/ R.rec[t] = w.rec[t]
                          \/ t = a /\ R.rec[t] = status
                          \/ t \in Prints /\ R.rec[t] = "created"
  BY <1>5, <1>10, <1>12
<1>14. QED
  BY <1>13 DEF a, status, R

\* The entries that do not say that one of the tasks ts has come to its end.
Unfinal(ts) == {e \in [task : sent, status : Progress] : \A t \in ts : e \in Endless(t)}

LEMMA ProgressKeeping ==
  ASSUME IInv, NEW next, Startable(next), NEW states, NoTask \in states,
         NEW ts \in SUBSET Task, NEW ok \in BOOLEAN, NEW pick,
         NEW w \in Keeping(next, states, ts, ok), NEW e \in Unfinal(ts)
  PROVE  RecordProgress(w, e, pick, ok) \in Keeping(next, states, ts, ok)
<1> DEFINE y == RecordProgress(w, e, pick, ok)
<1>1. /\ w \in Works(next, states) /\ (ok => ~w.failed)
      /\ \A t \in ts : w.rec[t] \in Pending
      /\ \A t \in Inlines : w.rec[t] = "created" => rec[t] = "created"
  BY DEF Keeping
<1>2. e \in [task : sent, status : Progress] /\ \A t \in ts : e.task = t => e.status \notin Final
  BY DEF Unfinal, Endless
<1>3. y \in Works(next, states)
  BY <1>1, <1>2, RecordProgressIs
<1>4. /\ ok /\ ~w.failed => ~y.failed
      /\ \A t \in Task : \/ y.rec[t] = w.rec[t]
                         \/ t = e.task /\ y.rec[t] = e.status
                         \/ t \in Prints /\ y.rec[t] = "created"
  BY <1>1, <1>2, ProgressRecords
<1>5. e.status # "created" /\ (e.status \notin Final => e.status \in Pending)
  BY <1>2 DEF Progress, Pending, Final
<1> HIDE DEF y
<1>6. \A t \in ts : y.rec[t] \in Pending
  BY <1>1, <1>2, <1>4, <1>5 DEF Pending
<1>7. \A t \in Inlines : y.rec[t] = "created" => rec[t] = "created"
  BY <1>1, <1>4, <1>5, TasksAssumption DEF Task
<1>8. QED
  BY <1>1, <1>3, <1>4, <1>6, <1>7 DEF Keeping, y

LEMMA BlockingKeeping ==
  ASSUME TypeOK, NEW next, NEW states, NEW ts, NEW ok, NEW w \in Keeping(next, states, ts, ok),
         NEW fb, fb.blocking \in BOOLEAN
  PROVE  RecordBlocking(w, fb) \in Keeping(next, states, ts, ok)
<1> DEFINE y == RecordBlocking(w, fb)
<1>1. /\ w \in Works(next, states) /\ (ok => ~w.failed)
      /\ \A t \in ts : w.rec[t] \in Pending
      /\ \A t \in Inlines : w.rec[t] = "created" => rec[t] = "created"
  BY DEF Keeping
<1>2. y \in Works(next, states)
  BY <1>1, RecordBlockingIs
<1>3. y.rec = w.rec /\ y.failed = w.failed
  BY <1>1 DEF RecordBlocking, Works
<1> HIDE DEF y
<1>4. QED
  BY <1>1, <1>2, <1>3 DEF Keeping, y

\* A machine that can be sent tasks behind a feedback has learnt from it that the
\* driver is ready.
LEMMA UpdateKeeping ==
  ASSUME TypeOK, NEW next, NEW states, NoTask \in states, NEW ts \in SUBSET Task, NEW ok,
         NEW w \in Keeping(next, states, ts, ok), NEW fb,
         fb.st \in DriverSt, fb.flag \in Maybe(Prints \cap sent), ts = {} \/ fb.st = "ready"
  PROVE  /\ UpdateMachine(w, fb) \in Keeping(next, states \cup {fb.flag}, ts, ok)
         /\ ok => /\ UpdateMachine(w, fb).m.seen
                  /\ Up(UpdateMachine(w, fb).m) => fb.st = "ready"
<1> DEFINE s       == MachineStatus(fb.st)
           differs == s # w.m.status \/ s = "Errored"
           gone    == IF differs /\ s # "Ready" THEN Running(w.rec) ELSE {}
           mm      == IF differs /\ ~(w.m.status = "Printing" /\ s = "Ready")
                      THEN InStatus(w.m, s) ELSE w.m
           saved   == IF mm.saved = NoTask /\ mm.status = "Printing" /\ mm.paused
                      THEN fb.flag ELSE mm.saved
           r       == [t \in Task |-> IF t \in gone THEN "errored" ELSE w.rec[t]]
           nn      == [mm EXCEPT !.seen = TRUE, !.homed = fb.st = "ready", !.saved = saved]
           y       == UpdateMachine(w, fb)
<1>1. /\ w \in Works(next, states) /\ (ok => ~w.failed)
      /\ \A t \in ts : w.rec[t] \in Pending
      /\ \A t \in Inlines : w.rec[t] = "created" => rec[t] = "created"
  BY DEF Keeping
<1>2. /\ y \in Works(next, states \cup {fb.flag})
      /\ y = IF w.failed THEN w
             ELSE [w EXCEPT !.rec = r, !.m = nn, !.touched = @ \cup gone,
                            !.again = @ \cup (gone \cap w.touched)]
      /\ w.m \in Machines(sent)
  <2>1. y \in Works(next, states \cup {fb.flag})
    BY <1>1, UpdateMachineIs
  <2>2. w.m \in Machines(sent)
    BY <1>1, WorkHas
  <2>3. QED
    BY <2>1, <2>2 DEF UpdateMachine
<1>3. /\ s \in {"Disconnected", "Connecting", "Ready", "Errored", "Stopped"}
      /\ s = "Ready" <=> fb.st = "ready"
  BY DEF MachineStatus, DriverSt
<1>4. fb.st = "ready" => gone = {}
  BY <1>3
<1> HIDE DEF s, gone, y
<1>5. mm \in [DOMAIN mm -> UNION {{mm[i]} : i \in DOMAIN mm}] /\ "seen" \in DOMAIN mm /\ "homed" \in DOMAIN mm
      /\ "saved" \in DOMAIN mm /\ "status" \in DOMAIN mm /\ (mm.status \in {"Printing", "Ready"} => s = "Ready")
  BY <1>2, <1>3 DEF InStatus, Machines
<1> HIDE DEF differs, mm
<1>6. /\ nn.seen /\ nn.homed = (fb.st = "ready") /\ nn.status = mm.status
  BY <1>5
<1> HIDE DEF nn, r
<1>7. ~w.failed => y.m = nn /\ y.rec = r /\ y.failed = w.failed
  BY <1>1, <1>2 DEF Works
<1>8. ok => y.m.seen /\ (Up(y.m) => fb.st = "ready")
  BY <1>1, <1>3, <1>5, <1>6, <1>7 DEF Up
<1>9. \A t \in Task : y.rec[t] = w.rec[t] \/ (t \in gone /\ y.rec[t] = "errored")
  BY <1>2, <1>7 DEF r
<1>10. /\ \A t \in ts : y.rec[t] \in Pending
       /\ \A t \in Inlines : y.rec[t] = "created" => rec[t] = "created"
       /\ ok => ~y.failed
  BY <1>1, <1>2, <1>4, <1>7, <1>9 DEF Task
<1>11. QED
  BY <1>2, <1>8, <1>10 DEF Keeping, y

\* A feedback that reaches the machine while the driver has tasks that are still to
\* be run: the machine has seen this driver, which is ready, and none has come to its end.
LEMMA FeedbackOfServer ==
  ASSUME IInv, Apart, ~parted, m.conn = "live", mail # <<>>, Head(mail).type = "Feedback",
         NEW t \in Task, drv.st = "ready", Driven(t) > 0
  PROVE  /\ m.seen /\ Head(mail).st = "ready"
         /\ ~crossed => rec[t] \in Pending /\ NoEnd(Head(mail).prog, t)
<1> DEFINE e == Head(mail)
<1>1. Lives /\ Linked /\ (~crossed => Unsettled /\ Unended)
  BY DEF Apart
<1>2. e \in Events(mail)
  BY SoundNow, LeadsTail DEF Streamed
<1> HIDE DEF e
<1>3. Serving
  BY <1>1 DEF Lives
<1>4. e.st \in Served /\ e.st # "estopped"
  BY <1>1, <1>2, <1>3 DEF Lives, Serving
<1>5. ~crossed => rec[t] \in Pending /\ NoEnd(e.prog, t)
  BY <1>1, <1>2 DEF Unsettled, Unended, Held
<1>6. QED
  BY <1>3, <1>4, <1>5 DEF Serving, Served, e

LEMMA TakesUnseen ==
  ASSUME IInv, IInv', Apart, NEW next, NEW ts, NEW ok,
         NEW w \in Keeping(next, {m.saved, NoTask} \cup {Head(mail).flag}, ts, ok), Takes(w),
         m.conn = "live" => ok,
         ok => w.m.seen /\ (Up(w.m) => Head(mail).st = "ready"),
         ~crossed /\ m.conn = "live"
           => \A t \in Task : drv.st = "ready" /\ Driven(t) > 0 => t \in ts
  PROVE  Apart'
<1> DEFINE e == Head(mail)
           none == {}
<1>0. SUFFICES ASSUME ~parted PROVE Apart'
  BY DEF Apart, Takes
<1>1. /\ TypeOK /\ TypeOK' /\ mail # <<>> /\ e.type = "Feedback"
      /\ rec' = w.rec /\ m' = w.m /\ wire' = Sent(w.out)
      /\ UNCHANGED <<drv, sent, parted, crossed>>
      /\ \/ mail' = StaleIn(w.again, StaleIn(w.touched, Tail(mail)))
         \/ mail' = Append(StaleIn(w.again, StaleIn(w.touched, Tail(mail))), Msg("Stop"))
  BY DEF Takes, IInv
<1>2. Linked /\ NewInlines /\ (m.conn = "live" => Lives)
  BY <1>0 DEF Apart
<1>3. /\ e \in Events(mail) /\ \A x \in Events(Tail(mail)) : Follows(e, x)
      /\ Tail(mail) \in Seq(Messages(rec, sent))
  <2>1. Ordered(mail) /\ mail \in Seq(Messages(rec, sent))
    BY <1>2, SoundNow DEF Linked
  <2>2. QED
    BY <1>1, <2>1, LeadsTail, LeadsNext DEF Streamed
<1>4. m.conn # "none"
  BY <1>2, <1>3 DEF Linked
<1>5. Leads(mail, mail')
  BY <1>1, LeadsTwice
<1>6. Events(mail') \subseteq Events(Tail(mail))
  <2> DEFINE rest == Tail(mail)
             box == StaleIn(w.again, StaleIn(w.touched, rest))
  <2>3. Leads(rest, box) /\ box \in Seq(Messages(rec, sent))
    BY <1>1, LeadsTwice
  <2> HIDE DEF box
  <2>4. Leads(box, Append(box, Msg("Stop")))
    BY <2>3, LeadsAppend, SignalsPlain
  <2>5. mail' = box \/ mail' = Append(box, Msg("Stop"))
    BY <1>1 DEF box
  <2>6. QED
    BY <2>3, <2>4, <2>5 DEF Leads
<1> HIDE DEF e
<1>7. /\ w \in Works(next, {m.saved, NoTask} \cup {e.flag})
      /\ \A t \in ts : w.rec[t] \in Pending
      /\ \A t \in Inlines : w.rec[t] = "created" => rec[t] = "created"
  BY DEF Keeping, e
<1>8. /\ m'.conn = m.conn /\ m'.attempting = m.attempting
      /\ m'.saved \in {m.saved, NoTask} \/ m'.saved = e.flag
      /\ w.out \in Seq(Deletes)
  BY <1>1, <1>7, WorkHas
<1>9. /\ \A t \in Task : CountOf(wire', OnWire(t)) <= CountOf(wire, OnWire(t))
      /\ m.conn # "live" => wire' = wire
  <2> DEFINE x == w.out
  <2>1. Deletes \subseteq Wires(sent) /\ \A d \in Deletes : d.type # "SpoolTask"
    BY DEF Deletes, Wires, Wireable
  <2>2. x \in Seq(Wires(sent))
    BY <1>8, <2>1, SeqMonotonic
  <2>3. \A i \in 1 .. Len(x) : x[i].type # "SpoolTask"
    <3> HIDE DEF x
    <3>1. x \in Seq(Deletes)
      BY <1>8 DEF x
    <3>2. QED
      BY <2>1, <3>1
  <2>4. wire' = Sent(x)
    BY <1>1
  <2> HIDE DEF x
  <2>5. QED
    BY <1>1, <2>2, <2>3, <2>4, SendsNoTask
<1>10. \A t \in Task : CountOf(wire', OnWire(t)) <= CountOf(wire, OnWire(t)) + One(t \in none)
  <2>1. \A t \in Task : CountOf(wire', OnWire(t)) \in Nat /\ CountOf(wire, OnWire(t)) \in Nat
    BY <1>1, CountIsNat DEF TypeOK
  <2>2. QED
    BY <1>9, <2>1 DEF One
<1>11. ASSUME m.conn = "live" PROVE m'.seen /\ (Up(m') => Serving')
  <2>1. m'.seen /\ (Up(m') => e.st = "ready")
    BY <1>1, <1>11 DEF e
  <2>2. ASSUME e.st = "ready" PROVE drv.st \in Served /\ \A x \in Events(mail') : x.st \in Served
    <3>1. drv.st \in Served
      BY <1>2, <1>3, <1>11, <2>2 DEF Lives, Served
    <3>2. \A x \in Events(mail) : x.type = "Feedback"
      BY <1>2, <1>11 DEF Linked
    <3>3. Events(mail') \subseteq Events(mail)
      BY <1>5 DEF Leads
    <3>4. QED
      BY <1>1, <1>3, <1>6, <2>2, <3>1, <3>2, <3>3 DEF Follows, Served, e
  <2>3. QED
    BY <1>1, <2>1, <2>2 DEF Serving
<1>12. Serves(none)
  BY <1>1, <1>4, <1>5, <1>8, <1>9, <1>10, <1>11 DEF Serves
<1>13. Sends(none)
  BY <1>1, <1>2, <1>7 DEF Sends, NewInlines
<1>14. ASSUME ~crossed', m.conn = "live" PROVE Tracks(none)
  <2>1. \A t \in Task : drv.st = "ready" /\ Driven(t) > 0 => rec'[t] \in Pending
    BY <1>1, <1>7, <1>14
  <2>2. m'.saved \in {NoTask, m.saved} \/ \E x \in Events(mail) : x.flag = m'.saved
    BY <1>3, <1>8
  <2>3. QED
    BY <2>1, <2>2 DEF Tracks
<1> HIDE DEF none
<1>15. none \in SUBSET Task
  BY DEF none
<1>16. QED
  BY <1>0, <1>1, <1>12, <1>13, <1>14, <1>15, ServerStep

LEMMA HandleFeedbackUnseen ==
  ASSUME IInv, IInv', Apart, HandleFeedback
  PROVE  Apart'
<1> DEFINE fb == Head(mail)
           states == {m.saved, NoTask}
           ts == {t \in Task : ~crossed /\ m.conn = "live" /\ drv.st = "ready" /\ Driven(t) > 0}
<1>0. SUFFICES ASSUME ~parted PROVE Apart'
  BY DEF Apart, HandleFeedback
<1>1. /\ mail # <<>> /\ fb.type = "Feedback" /\ SendResults \subseteq BOOLEAN /\ TypeOK
      /\ UNCHANGED <<resuming, retry, drv, sent, parted, crossed, ops, faults>>
  BY SendResultsAre DEF HandleFeedback, Receives, bounds, IInv
<1>2. /\ fb \in Mailable /\ Names(fb, rec, sent)
  BY <1>1, ReceivesHead
<1>3. /\ fb.prog \in Entries(sent) /\ fb.blocking \in BOOLEAN /\ fb.st \in DriverSt
      /\ fb.flag \in Maybe(Prints \cap sent)
  <2>1. fb \in Feedbacks /\ fb.prog \in Entries(sent) /\ fb.flag \in Maybe(sent)
    BY <1>1, <1>2, MailableByType DEF Names
  <2>2. QED
    BY <2>1 DEF Feedbacks, Maybe
<1>4. PICK pick \in Prints, ok \in SendResults,
           next \in {NoTask} \cup {p \in Prints : Automatic /\ rec[p] = "absent"} :
        LET w == UpdateMachine(UpdateTasks(Work(fb, next), fb, pick, ok), fb)
            jobs == IF w.auto = NoTask THEN job
                    ELSE [job EXCEPT ![w.auto] =
                           [NoJob EXCEPT !.phase = "compiling", !.auto = TRUE, !.held = TRUE]]
        IN  /\ rec' = w.rec
            /\ m' = w.m
            /\ wire' = Sent(w.out)
            /\ job' = StaleJobs(w.again, StaleJobs(w.touched, jobs))
            /\ mail' = LET rest == StaleIn(w.again, StaleIn(w.touched, Tail(mail)))
                       IN  IF w.failed THEN Append(rest, Msg("Stop")) ELSE rest
            /\ credit' = [t \in Task |-> credit[t] + (IF t = w.auto THEN 1 ELSE 0)]
  BY DEF HandleFeedback
<1> DEFINE w0 == Work(fb, next)
           w1 == IF w0.m.seen THEN w0 ELSE FirstFeedback(w0, fb, pick)
           w2 == Recorded(w1, fb, pick, ok)[Len(fb.prog)]
           w3 == RecordBlocking(w2, fb)
           w4 == UpdateMachine(w3, fb)
<1>5. Takes(w4)
  BY <1>1, <1>4 DEF Takes, UpdateTasks
<1>6. /\ Startable(next) /\ NoTask \in states /\ ok \in BOOLEAN
      /\ m.conn = "live" => ok
  BY <1>1, <1>4 DEF Startable, SendResults
<1>7. /\ ts \in SUBSET Task
      /\ \A t \in ts : m.seen /\ fb.st = "ready" /\ rec[t] \in Pending /\ NoEnd(fb.prog, t)
  BY <1>0, <1>1, FeedbackOfServer
<1>8. ~crossed /\ m.conn = "live"
        => \A t \in Task : drv.st = "ready" /\ Driven(t) > 0 => t \in ts
  OBVIOUS
<1>9. fb.prog \in Seq(Unfinal(ts))
  <2> DEFINE s == fb.prog
             E == [task : sent, status : Progress]
  <2>1. s \in Seq(E) /\ \A t \in ts : s \in Seq(Endless(t))
    BY <1>3, <1>7 DEF Entries, NoEnd
  <2> HIDE DEF s, ts, E
  <2>2. ASSUME NEW i \in 1 .. Len(s) PROVE s[i] \in Unfinal(ts)
    <3>1. s[i] \in E
      BY <2>1
    <3>2. ASSUME NEW t \in ts PROVE s[i] \in Endless(t)
      <4>1. s \in Seq(Endless(t))
        BY <2>1
      <4>2. QED
        BY <4>1
    <3>3. QED
      BY <3>1, <3>2 DEF Unfinal, E
  <2>3. QED
    BY <2>1, <2>2 DEF s
<1> HIDE DEF fb, states, ts
<1>10. w0 \in Keeping(next, states, ts, ok) /\ w0.m = m
  <2>1. w0 \in Keeping(next, states, ts, ok)
    BY <1>1, <1>7, WorkKeeping DEF states
  <2>2. QED
    BY <2>1 DEF Work
<1> HIDE DEF w0
<1>11. w1 \in Keeping(next, states, ts, ok)
  <2>1. CASE m.seen
    BY <1>10, <2>1
  <2>2. CASE ~m.seen
    <3>1. ts = {}
      BY <1>7, <2>2
    <3>2. QED
      BY <1>1, <1>6, <1>10, <2>2, <3>1, FirstKeeping
  <2>3. QED
    BY <2>1, <2>2
<1> HIDE DEF w1
<1>12. w2 \in Keeping(next, states, ts, ok)
  <2> DEFINE Y == Keeping(next, states, ts, ok)
             E == Unfinal(ts)
  <2>1. \A y \in Y, e \in E : RecordProgress(y, e, pick, ok) \in Y
    BY <1>6, <1>7, ProgressKeeping
  <2>2. w1 \in Y /\ fb.prog \in Seq(E)
    BY <1>9, <1>11
  <2> HIDE DEF Y, E
  <2>3. Recorded(w1, fb, pick, ok)[Len(fb.prog)] \in Y
    BY <2>1, <2>2, RecordedIn
  <2>4. QED
    BY <2>3 DEF Y
<1> HIDE DEF w2
<1>13. w3 \in Keeping(next, states, ts, ok)
  BY <1>1, <1>3, <1>12, BlockingKeeping
<1> HIDE DEF w3
<1>14. /\ w4 \in Keeping(next, states \cup {fb.flag}, ts, ok)
       /\ ok => w4.m.seen /\ (Up(w4.m) => fb.st = "ready")
  <2>1. ts = {} \/ fb.st = "ready"
    BY <1>7
  <2>2. QED
    BY <1>1, <1>3, <1>6, <1>7, <1>13, <2>1, UpdateKeeping
<1> HIDE DEF w4
<1>15. /\ w4 \in Keeping(next, {m.saved, NoTask} \cup {Head(mail).flag}, ts, ok)
       /\ ok => w4.m.seen /\ (Up(w4.m) => Head(mail).st = "ready")
  BY <1>14 DEF states, fb
<1>16. QED
  BY <1>5, <1>6, <1>8, <1>15, TakesUnseen

LEMMA StreamBreaksUnseen ==
  ASSUME IInv, IInv', Apart, StreamBreaks
  PROVE  Apart'
<1>1. Leads(mail, mail')
  BY SoundNow, LeadsAppend, SignalsPlain DEF StreamBreaks, Post
<1>2. QED
  BY <1>1, MailOnly DEF StreamBreaks, database, history

\* The handlers of the actor that hand on what they take, or drop it.
LEMMA HandlersUnseen ==
  ASSUME IInv, IInv', Apart,
         HandleBroken \/ HandleInit \/ HandleAddDevice \/ FeedbackWithoutData
  PROVE  Apart'
<1>1. /\ mail # <<>> /\ UNCHANGED <<rec, m, wire, drv, sent, parted, crossed>>
      /\ \/ mail' = Tail(mail)
         \/ mail' = Append(Tail(mail), Msg("Stop"))
         \/ mail' = Append(Tail(mail), Msg("ResetWhenIdle"))
  BY DEF HandleBroken, HandleInit, HandleAddDevice, FeedbackWithoutData, Receives, StopActor,
         database, history
<1>2. QED
  BY <1>1, HandsOnUnseen

LEMMA StepUnseen ==
  ASSUME IInv, IInv', Apart, [Next]_vars
  PROVE  Apart'
<1>1. CASE Actor
  <2>1. CASE HandleStop
    BY <2>1 DEF HandleStop, Apart
  <2>2. CASE HandleBroken \/ HandleInit \/ HandleAddDevice \/ FeedbackWithoutData
    BY <2>2, HandlersUnseen
  <2>3. CASE HandleResetWhenIdle \/ HandleStopMachine
    BY <2>3, ForwardUnseen DEF HandleResetWhenIdle, HandleStopMachine
  <2>4. CASE HandleConnect \/ HandleClosed \/ HandleResetMachine
    BY <2>4, HandleConnectUnseen, HandleClosedUnseen, HandleResetMachineUnseen
  <2>5. CASE HandleSpoolTask \/ HandleSpoolPrint
    BY <2>5, HandleSpoolTaskUnseen, HandleSpoolPrintUnseen
  <2>6. CASE HandlePause \/ HandleResume
    BY <2>6, HandlePauseUnseen, HandleResumeUnseen
  <2>7. CASE HandleFeedback
    BY <2>7, HandleFeedbackUnseen
  <2>8. QED
    BY <1>1, <2>1, <2>2, <2>3, <2>4, <2>5, <2>6, <2>7 DEF Actor
<1>2. CASE Driver
  BY <1>2, DriverHelloUnseen, DriverSpoolUnseen, DriverPauseUnseen, DriverDeleteUnseen,
     DriverEstopUnseen, DriverResetWhenIdleUnseen, DriverFinishUnseen, DriverConnectsUnseen
     DEF Driver
<1>3. CASE Failures
  <2>1. ASSUME NEW st, DriverFails(st) PROVE Apart'
    BY <2>1 DEF DriverFails, Apart
  <2>2. CASE ServerRestart
    BY <2>2 DEF ServerRestart, Apart
  <2>3. QED
    BY <1>3, <2>1, <2>2, DriverCrashUnseen, StreamBreaksUnseen DEF Failures
<1>4. CASE UNCHANGED vars
  BY <1>4 DEF vars, Apart, Linked, Lives, OnceDriven, NewInlines, Unsettled, Unended, Held,
              Serving, Driven
<1>5. QED
  BY <1>1, <1>2, <1>3, <1>4, ClientsUnseen, CompilationUnseen, RetryConnectUnseen DEF Next

LEMMA InitApart == Init => Apart
<1> DEFINE c == Msg("Connect")
<1>1. SUFFICES ASSUME Init PROVE Apart
  OBVIOUS
<1>2. /\ mail = <<c>> /\ m.conn = "none" /\ ~Up(m) /\ m.saved = NoTask
      /\ ~drv.up /\ wire = <<>> /\ drv.spool = <<>> /\ rec = [t \in Task |-> "absent"]
  BY <1>1 DEF Init, NewMachine, NewDriver, Up
<1>3. ~Streamed(c)
  BY SignalsPlain
<1> HIDE DEF c
<1>4. Events(mail) = {} /\ Ordered(mail)
  <2> DEFINE M == {c}
  <2>1. c \in M
    OBVIOUS
  <2>2. QED
    BY <1>2, <1>3, <2>1, EventsNone
<1>5. Linked
  BY <1>2, <1>4 DEF Linked
<1>6. \A t \in Task : Driven(t) = 0
  <2>1. \A t \in Task : CountOf(wire, OnWire(t)) = 0 /\ CountOf(drv.spool, {t}) = 0
    BY <1>2, CountEmpty
  <2>2. QED
    BY <2>1 DEF Driven
<1>7. OnceDriven
  BY <1>6 DEF OnceDriven, Task
<1>8. NewInlines
  BY <1>2 DEF NewInlines, Task
<1>9. QED
  BY <1>2, <1>5, <1>7, <1>8 DEF Apart

\* As long as nothing has parted the two, the driver runs no task whose record has
\* settled: once nothing is on its way any more, whatever it has in its spool is
\* recorded as still to be run.
THEOREM NothingRunsUnseenHolds == Spec => []NothingRunsUnseen
<1>1. Init => Apart
  BY InitApart
<1>2. IInv /\ IInv' /\ Apart /\ [Next]_vars => Apart'
  BY StepUnseen
<1>3. IInv /\ Apart => NothingRunsUnseen
  <2>1. SUFFICES ASSUME IInv, Apart, Quiet, ~parted, ~crossed, NEW t \in Task, InDriver(t)
                 PROVE  rec[t] \in Pending
    BY DEF NothingRunsUnseen
  <2>2. Driven(t) > 0
    <3>1. TypeOK
      BY <2>1 DEF IInv
    <3>2. Driven(t) \in Nat /\ Driven(t) # 0
      BY <2>1, <3>1, DrivenIs
    <3>3. QED
      BY <3>2
  <2>3. Unsettled /\ drv.st = "ready"
    BY <2>1 DEF Apart, Quiet
  <2>4. QED
    BY <2>2, <2>3 DEF Unsettled
<1>4. QED
  BY <1>1, <1>2, <1>3, Invariant, PTL DEF Spec

-----------------------------------------------------------------------------
(***************************************************************************)
(* What the mailbox has in store: feedbacks, and what is behind them.      *)
(***************************************************************************)
Opens   == {e \in Mailable : e.type \in {"Connect", "Closed"}}
Cuts    == {e \in Mailable : e.type \in {"Closed", "Stop", "Broken"}}
Tidings == {e \in Mailable : e.type = "Feedback"}
Readies == {e \in Tidings : e.st = "ready"}
Unready == Cuts \cup (Tidings \ Readies)

\* What ends more than one stream, or what one of the driver's states ends.
Verdicts == {Y \in SUBSET (Tidings \cup Cuts) : Cuts \subseteq Y}

Has(box, X) == \E i \in 1 .. Len(box) : box[i] \in X

Followed(box, X, Y) ==
  \A i \in 1 .. Len(box) : box[i] \in X => \E j \in 1 .. Len(box) : i < j /\ box[j] \in Y

\* No feedback is behind a connection or an end, unless a cut is behind the feedback.
Guarded(box) ==
  \A i, j \in 1 .. Len(box) : i < j /\ box[i] \in Opens /\ box[j] \in Tidings =>
    \E k \in 1 .. Len(box) : j < k /\ box[k] \in Cuts

\* What is left of a mailbox behind which no feedback has come.
Continues(a, b) ==
  /\ \A X \in SUBSET Tidings : Has(b, X) => Has(a, X)
  /\ \A Y \in Verdicts : Has(a, Y) => Has(b, Y)
  /\ \A X \in SUBSET Tidings, Y \in Verdicts : Followed(a, X, Y) => Followed(b, X, Y)
  /\ Guarded(a) => Guarded(b)

LEMMA ContinuesBeyond ==
  /\ \A a : Continues(a, a)
  /\ \A a, b, c : Continues(a, b) /\ Continues(b, c) => Continues(a, c)
BY DEF Continues

LEMMA HasOne ==
  \A e, X, Y : /\ Has(<<e>>, X) <=> e \in X
               /\ Followed(<<e>>, X, Y) <=> e \notin X
BY DEF Has, Followed

LEMMA HasTwo ==
  \A e, f, X, Y : /\ Has(<<e, f>>, X) <=> e \in X \/ f \in X
                  /\ e \notin X \/ f \in Y => (Followed(<<e, f>>, X, Y) <=> f \notin X)
<1>1. SUFFICES ASSUME NEW e, NEW f, NEW X, NEW Y
               PROVE  /\ Has(<<e, f>>, X) <=> e \in X \/ f \in X
                      /\ e \notin X \/ f \in Y => (Followed(<<e, f>>, X, Y) <=> f \notin X)
  OBVIOUS
<1> DEFINE s == <<e, f>>
<1>2. 1 .. Len(s) = {1, 2} /\ s[1] = e /\ s[2] = f
  OBVIOUS
<1> HIDE DEF s
<1>3. Has(s, X) <=> e \in X \/ f \in X
  BY <1>2 DEF Has
<1>4. e \notin X \/ f \in Y => (Followed(s, X, Y) <=> f \notin X)
  BY <1>2 DEF Followed
<1>5. QED
  BY <1>3, <1>4 DEF s

LEMMA JoinedBoxes ==
  ASSUME NEW M, NEW s \in Seq(M), NEW x \in Seq(M)
  PROVE  /\ \A X : Has(s \o x, X) <=> Has(s, X) \/ Has(x, X)
         /\ \A X, Y : Followed(x, X, Y) /\ (Followed(s, X, Y) \/ Has(x, Y)) => Followed(s \o x, X, Y)
         /\ ~Has(x, Tidings) /\ (Guarded(s) \/ Has(x, Cuts)) => Guarded(s \o x)
<1> DEFINE q == s \o x
           n == Len(s)
           k == Len(x)
<1>1. /\ n \in Nat /\ k \in Nat /\ Len(q) = n + k
      /\ \A i \in 1 .. n : i \in 1 .. n + k /\ q[i] = s[i]
      /\ \A i \in 1 .. k : n + i \in 1 .. n + k /\ q[n + i] = x[i]
  BY ConcatProperties
<1>2. \A i \in 1 .. n + k : i \in 1 .. n \/ (i - n \in 1 .. k /\ i = n + (i - n))
  BY <1>1
<1> HIDE DEF q, n, k
<1>3. ASSUME NEW X PROVE Has(q, X) <=> Has(s, X) \/ Has(x, X)
  <2>1. ASSUME Has(q, X) PROVE Has(s, X) \/ Has(x, X)
    <3>1. PICK i \in 1 .. n + k : q[i] \in X
      BY <1>1, <2>1 DEF Has
    <3>2. CASE i \in 1 .. n
      BY <1>1, <3>1, <3>2 DEF Has, n
    <3>3. CASE i - n \in 1 .. k /\ i = n + (i - n)
      <4>1. x[i - n] \in X
        BY <1>1, <3>1, <3>3
      <4>2. QED
        BY <3>3, <4>1 DEF Has, k
    <3>4. QED
      BY <1>2, <3>2, <3>3
  <2>2. Has(s, X) => Has(q, X)
    BY <1>1 DEF Has, n
  <2>3. Has(x, X) => Has(q, X)
    BY <1>1 DEF Has, k
  <2>4. QED
    BY <2>1, <2>2, <2>3
<1>4. ASSUME NEW Y, Has(x, Y), NEW i \in 1 .. n PROVE \E j \in 1 .. Len(q) : i < j /\ q[j] \in Y
  <2>1. PICK j \in 1 .. k : x[j] \in Y
    BY <1>4 DEF Has, k
  <2>2. n + j \in 1 .. Len(q) /\ q[n + j] \in Y /\ i < n + j
    BY <1>1, <2>1
  <2>3. QED
    BY <2>2
<1>5. ASSUME NEW X, NEW Y, Followed(x, X, Y), Followed(s, X, Y) \/ Has(x, Y) PROVE Followed(q, X, Y)
  <2>1. SUFFICES ASSUME NEW i \in 1 .. n + k, q[i] \in X
                 PROVE  \E j \in 1 .. Len(q) : i < j /\ q[j] \in Y
    BY <1>1 DEF Followed
  <2>2. CASE i \in 1 .. n
    <3>1. CASE Followed(s, X, Y)
      <4>1. PICK j \in 1 .. n : i < j /\ s[j] \in Y
        BY <1>1, <2>1, <2>2, <3>1 DEF Followed, n
      <4>2. QED
        BY <1>1, <4>1
    <3>2. QED
      BY <1>4, <1>5, <2>2, <3>1
  <2>3. CASE i - n \in 1 .. k /\ i = n + (i - n)
    <3>1. x[i - n] \in X
      BY <1>1, <2>1, <2>3
    <3>2. PICK j \in 1 .. k : i - n < j /\ x[j] \in Y
      BY <1>5, <2>3, <3>1 DEF Followed, k
    <3>3. n + j \in 1 .. Len(q) /\ q[n + j] \in Y /\ i < n + j
      BY <1>1, <2>3, <3>2
    <3>4. QED
      BY <3>3
  <2>4. QED
    BY <1>2, <2>2, <2>3
<1>6. ASSUME ~Has(x, Tidings), Guarded(s) \/ Has(x, Cuts) PROVE Guarded(q)
  <2>1. SUFFICES ASSUME NEW i \in 1 .. n + k, NEW j \in 1 .. n + k,
                        i < j, q[i] \in Opens, q[j] \in Tidings
                 PROVE  \E l \in 1 .. Len(q) : j < l /\ q[l] \in Cuts
    BY <1>1 DEF Guarded
  <2>2. j \in 1 .. n
    <3>1. SUFFICES ASSUME j - n \in 1 .. k, j = n + (j - n) PROVE FALSE
      BY <1>2
    <3>2. x[j - n] \in Tidings
      BY <1>1, <2>1, <3>1
    <3>3. QED
      BY <1>6, <3>1, <3>2 DEF Has, k
  <2>3. i \in 1 .. n
    BY <1>1, <2>1, <2>2
  <2>4. CASE Guarded(s)
    <3>1. PICK l \in 1 .. n : j < l /\ s[l] \in Cuts
      BY <1>1, <2>1, <2>2, <2>3, <2>4 DEF Guarded, n
    <3>2. QED
      BY <1>1, <3>1
  <2>5. QED
    BY <1>4, <1>6, <2>2, <2>4
<1>7. QED
  BY <1>3, <1>5, <1>6 DEF q

LEMMA TailOfBox ==
  ASSUME NEW M, NEW s \in Seq(M), s # <<>>
  PROVE  /\ \A X : Has(s, X) <=> Head(s) \in X \/ Has(Tail(s), X)
         /\ \A X, Y : Followed(s, X, Y) => /\ Followed(Tail(s), X, Y)
                                           /\ Head(s) \in X => Has(Tail(s), Y)
         /\ Guarded(s) => /\ Guarded(Tail(s))
                          /\ Head(s) \in Opens => Followed(Tail(s), Tidings, Cuts)
<1> DEFINE x == Tail(s)
<1>1. /\ Len(s) \in Nat \ {0} /\ Len(x) = Len(s) - 1 /\ Head(s) = s[1]
      /\ \A i \in 1 .. Len(x) : x[i] = s[i + 1]
  BY HeadTailProperties
<1> HIDE DEF x
<1>2. /\ \A i \in 1 .. Len(x) : i + 1 \in 1 .. Len(s) /\ x[i] = s[i + 1] /\ 1 < i + 1
      /\ 1 \in 1 .. Len(s) /\ s[1] = Head(s)
  BY <1>1
<1>3. \A i \in 1 .. Len(s) : i = 1 \/ (i - 1 \in 1 .. Len(x) /\ i = (i - 1) + 1 /\ x[i - 1] = s[i])
  <2>1. SUFFICES ASSUME NEW i \in 1 .. Len(s), i # 1
                 PROVE  i - 1 \in 1 .. Len(x) /\ i = (i - 1) + 1 /\ x[i - 1] = s[i]
    OBVIOUS
  <2>2. i - 1 \in 1 .. Len(x) /\ i = (i - 1) + 1
    BY <1>1, <2>1
  <2>3. QED
    BY <1>2, <2>2
<1>4. ASSUME NEW X PROVE Has(s, X) <=> Head(s) \in X \/ Has(x, X)
  BY <1>2, <1>3 DEF Has
<1>5. ASSUME NEW Y, NEW i \in 1 .. Len(s), \E j \in 1 .. Len(s) : i < j /\ s[j] \in Y
      PROVE  \E j \in 1 .. Len(x) : i - 1 < j /\ x[j] \in Y
  <2>1. PICK j \in 1 .. Len(s) : i < j /\ s[j] \in Y
    BY <1>5
  <2>2. j # 1
    BY <1>1, <2>1
  <2>3. j - 1 \in 1 .. Len(x) /\ x[j - 1] \in Y /\ i - 1 < j - 1
    BY <1>1, <1>3, <2>1, <2>2
  <2>4. QED
    BY <2>3
<1>6. ASSUME NEW X, NEW Y, Followed(s, X, Y)
      PROVE  Followed(x, X, Y) /\ (Head(s) \in X => Has(x, Y))
  <2>1. ASSUME NEW i \in 1 .. Len(x), x[i] \in X PROVE \E j \in 1 .. Len(x) : i < j /\ x[j] \in Y
    <3>1. i + 1 \in 1 .. Len(s) /\ s[i + 1] \in X /\ (i + 1) - 1 = i
      BY <1>2, <2>1
    <3>2. \E j \in 1 .. Len(s) : i + 1 < j /\ s[j] \in Y
      BY <1>6, <3>1 DEF Followed
    <3>3. QED
      BY <1>5, <3>1, <3>2
  <2>2. ASSUME Head(s) \in X PROVE Has(x, Y)
    <3>1. \E j \in 1 .. Len(s) : 1 < j /\ s[j] \in Y
      BY <1>2, <1>6, <2>2 DEF Followed
    <3>2. QED
      BY <1>2, <1>5, <3>1 DEF Has
  <2>3. QED
    BY <2>1, <2>2 DEF Followed
<1>7. ASSUME Guarded(s) PROVE Guarded(x) /\ (Head(s) \in Opens => Followed(x, Tidings, Cuts))
  <2>1. ASSUME NEW i \in 1 .. Len(s), NEW j \in 1 .. Len(x), i < j + 1, s[i] \in Opens, x[j] \in Tidings
        PROVE  \E k \in 1 .. Len(x) : j < k /\ x[k] \in Cuts
    <3>1. j + 1 \in 1 .. Len(s) /\ s[j + 1] \in Tidings /\ (j + 1) - 1 = j
      BY <1>2, <2>1
    <3>2. \E k \in 1 .. Len(s) : j + 1 < k /\ s[k] \in Cuts
      BY <1>7, <2>1, <3>1 DEF Guarded
    <3>3. QED
      BY <1>5, <3>1, <3>2
  <2>2. ASSUME NEW i \in 1 .. Len(x), NEW j \in 1 .. Len(x), i < j, x[i] \in Opens, x[j] \in Tidings
        PROVE  \E k \in 1 .. Len(x) : j < k /\ x[k] \in Cuts
    <3>1. i + 1 \in 1 .. Len(s) /\ s[i + 1] \in Opens /\ i + 1 < j + 1
      BY <1>2, <2>2
    <3>2. QED
      BY <2>1, <2>2, <3>1
  <2>3. ASSUME Head(s) \in Opens, NEW j \in 1 .. Len(x), x[j] \in Tidings
        PROVE  \E k \in 1 .. Len(x) : j < k /\ x[k] \in Cuts
    BY <1>2, <2>1, <2>3
  <2>4. QED
    BY <2>2, <2>3 DEF Guarded, Followed
<1>8. QED
  BY <1>4, <1>6, <1>7 DEF x

LEMMA Followers ==
  ASSUME NEW box, NEW X \in SUBSET Tidings, NEW Y \in Verdicts, Followed(box, Tidings, Cuts)
  PROVE  Followed(box, X, Y)
BY DEF Followed, Verdicts

LEMMA CutsAreVerdicts ==
  ASSUME NEW Y \in Verdicts
  PROVE  /\ Cuts \subseteq Y /\ Y \subseteq Tidings \cup Cuts
         /\ \A box : Has(box, Cuts) => Has(box, Y)
BY DEF Verdicts, Has

LEMMA ContinuesTail ==
  ASSUME NEW M, NEW s \in Seq(M), s # <<>>, Head(s) \notin Tidings \cup Cuts
  PROVE  Continues(s, Tail(s))
<1>1. /\ \A X : Has(s, X) <=> Head(s) \in X \/ Has(Tail(s), X)
      /\ \A X, Y : Followed(s, X, Y) => Followed(Tail(s), X, Y)
      /\ Guarded(s) => Guarded(Tail(s))
  BY TailOfBox
<1>2. \A Y \in Verdicts : Head(s) \notin Y
  BY DEF Verdicts
<1>3. QED
  BY <1>1, <1>2 DEF Continues

\* Messages that are no feedback, behind what there was or behind the rest of it.
LEMMA ContinuesJoin ==
  ASSUME NEW M, NEW s \in Seq(M), NEW x \in Seq(M), ~Has(x, Tidings)
  PROVE  /\ Continues(s, s \o x)
         /\ s # <<>> /\ Has(x, Cuts) => Continues(s, Tail(s) \o x)
<1>1. \A X \in SUBSET Tidings : ~Has(x, X)
  BY DEF Has
<1>2. \A X \in SUBSET Tidings : \A Y : Followed(x, X, Y)
  BY <1>1 DEF Followed, Has
<1>3. Continues(s, s \o x)
  <2>1. /\ \A X : Has(s \o x, X) <=> Has(s, X) \/ Has(x, X)
        /\ \A X, Y : Followed(x, X, Y) /\ (Followed(s, X, Y) \/ Has(x, Y)) => Followed(s \o x, X, Y)
        /\ Guarded(s) => Guarded(s \o x)
    BY JoinedBoxes
  <2>2. QED
    BY <1>1, <1>2, <2>1 DEF Continues
<1>4. ASSUME s # <<>>, Has(x, Cuts) PROVE Continues(s, Tail(s) \o x)
  <2> DEFINE r == Tail(s)
             q == r \o x
  <2>1. /\ r \in Seq(M)
        /\ \A X : Has(s, X) <=> Head(s) \in X \/ Has(r, X)
        /\ \A X, Y : Followed(s, X, Y) => Followed(r, X, Y)
        /\ Guarded(s) => Guarded(r)
    BY <1>4, TailOfBox
  <2> HIDE DEF r
  <2>2. /\ \A X : Has(q, X) <=> Has(r, X) \/ Has(x, X)
        /\ \A X, Y : Followed(x, X, Y) /\ (Followed(r, X, Y) \/ Has(x, Y)) => Followed(q, X, Y)
        /\ Guarded(q)
    BY <1>4, <2>1, JoinedBoxes
  <2> HIDE DEF q
  <2>3. \A Y \in Verdicts : Has(x, Y)
    BY <1>4, CutsAreVerdicts
  <2>4. Continues(s, q)
    BY <1>1, <1>2, <2>1, <2>2, <2>3 DEF Continues
  <2>5. QED
    BY <2>4 DEF q, r
<1>5. QED
  BY <1>3, <1>4

\* One message that is no feedback.
LEMMA ContinuesAppend ==
  ASSUME NEW M, NEW s \in Seq(M), NEW e, e \notin Tidings
  PROVE  /\ Continues(s, Append(s, e))
         /\ s # <<>> /\ e \in Cuts => Continues(s, Append(Tail(s), e))
         /\ \A X : Has(Append(s, e), X) <=> Has(s, X) \/ e \in X
<1> DEFINE N == M \cup {e}
           x == <<e>>
<1>1. s \in Seq(N) /\ x \in Seq(N) /\ e \in N
  BY SeqMonotonic
<1>2. ASSUME NEW r \in Seq(N) PROVE Append(r, e) = r \o x
  <2>1. e \in N
    BY <1>1
  <2> HIDE DEF N
  <2>2. Append(r, e) = r \o <<e>>
    BY <2>1, AppendIsConcat
  <2>3. QED
    BY <2>2
<1>3. \A X : Has(x, X) <=> e \in X
  BY HasOne
<1> HIDE DEF N, x
<1>4. ~Has(x, Tidings)
  BY <1>3
<1>5. /\ Continues(s, s \o x)
      /\ s # <<>> /\ Has(x, Cuts) => Continues(s, Tail(s) \o x)
  BY <1>1, <1>4, ContinuesJoin
<1>6. \A X : Has(s \o x, X) <=> Has(s, X) \/ Has(x, X)
  BY <1>1, JoinedBoxes
<1>7. s # <<>> => Tail(s) \in Seq(N)
  BY <1>1, HeadTailProperties
<1>8. QED
  BY <1>1, <1>2, <1>3, <1>5, <1>6, <1>7

LEMMA ContinuesStale ==
  ASSUME NEW r, NEW u, NEW S, NEW U, NEW ts, Moved(r, u, S, U, ts),
         NEW box \in Seq(Messages(r, S))
  PROVE  /\ Continues(box, StaleIn(ts, box))
         /\ \A Y \in Verdicts : Has(StaleIn(ts, box), Y) <=> Has(box, Y)
<1> DEFINE x == StaleIn(ts, box)
           Seen == Tidings \cup Cuts \cup Opens
<1>1. /\ Len(box) \in Nat /\ Len(x) = Len(box)
      /\ \A i \in 1 .. Len(box) : x[i].type = box[i].type
  BY StaleKeeps
<1>2. ASSUME NEW i \in 1 .. Len(box) PROVE x[i] = box[i] \/ (x[i] \notin Seen /\ box[i] \notin Seen)
  <2>1. x[i] = Stale(ts, box[i])
    BY DEF StaleIn, Stale
  <2>2. CASE box[i].type \in {"SpoolTask", "SpoolPrint", "Resume"}
    BY <1>1, <2>2 DEF Tidings, Cuts, Opens
  <2>3. QED
    BY <2>1, <2>2 DEF Stale
<1> HIDE DEF x
<1>3. \A X \in SUBSET Seen, i \in 1 .. Len(box) : x[i] \in X <=> box[i] \in X
  BY <1>2
<1>4. \A X \in SUBSET Seen : Has(x, X) <=> Has(box, X)
  BY <1>1, <1>3 DEF Has
<1>5. \A X, Y \in SUBSET Seen : Followed(box, X, Y) => Followed(x, X, Y)
  BY <1>1, <1>3 DEF Followed
<1>6. Guarded(box) => Guarded(x)
  <2>1. Opens \in SUBSET Seen /\ Tidings \in SUBSET Seen /\ Cuts \in SUBSET Seen
    OBVIOUS
  <2> HIDE DEF Seen
  <2>2. \A i \in 1 .. Len(box) : /\ x[i] \in Opens <=> box[i] \in Opens
                                 /\ x[i] \in Tidings <=> box[i] \in Tidings
                                 /\ x[i] \in Cuts <=> box[i] \in Cuts
    BY <1>3, <2>1
  <2>3. QED
    BY <1>1, <2>2 DEF Guarded
<1>7. /\ \A X \in SUBSET Tidings : X \in SUBSET Seen
      /\ \A Y \in Verdicts : Y \in SUBSET Seen
  BY DEF Verdicts
<1> HIDE DEF Seen
<1>8. QED
  BY <1>4, <1>5, <1>6, <1>7 DEF Continues, x

-----------------------------------------------------------------------------
(***************************************************************************)
(* The inductive invariant.                                                *)
(***************************************************************************)
InSpool(t) == \E i \in 1 .. Len(drv.spool) : drv.spool[i] = t
InWire(t)  == \E i \in 1 .. Len(wire) : wire[i].type = "SpoolTask" /\ wire[i].task = t

StartedIn(prog, t) == \E k \in 1 .. Len(prog) : prog[k].task = t /\ prog[k].status = "started"
StoppedIn(prog, t) == \E k \in 1 .. Len(prog) : prog[k].task = t /\ prog[k].status # "started"

\* A feedback that shows a task as running, and what takes that back.
Starts(t) == {e \in Tidings : StartedIn(e.prog, t)}
Ends(t)   == Unready \cup {e \in Tidings : StoppedIn(e.prog, t)}

\* A driver that is not ready runs nothing.
Wrong == {e \in Tidings : e.st # "ready" /\ \E t \in Task : StartedIn(e.prog, t)}

Shown(mm) == mm.status \in {"Printing", "Ready"}
Sending == {"sent", "started"}

DriverTrue == /\ drv.st # "ready" => drv.spool = <<>>
              /\ \A t \in Task : StartedIn(drv.prog, t) => InSpool(t)

MachineTrue == /\ m.homed => Shown(m)
               /\ m.conn # "none" => m.attempting

\* Without a stream, every feedback is one that an end or a restart will undo. A
\* machine without data restarts at the first feedback.
Parting ==
  /\ m.data => Followed(mail, Tidings, Cuts)
  /\ ~m.data => Guarded(mail)
  /\ m.seen \/ Shown(m) => Has(mail, Cuts)

\* With a stream, each change of the driver is on its way to the machine.
Telling ==
  /\ drv.st # "ready" => /\ Followed(mail, Readies, Unready)
                         /\ Shown(m) => Has(mail, Unready)
  /\ m.seen /\ ~Shown(m) => Has(mail, Cuts) \/ \A t \in Task : rec[t] \notin Sending
  /\ \A t \in Task : InSpool(t) \/ Followed(mail, Starts(t), Ends(t))
  /\ m.seen => \A t \in Task : rec[t] \in Sending => InSpool(t) \/ InWire(t) \/ Has(mail, Ends(t))

Foretold ==
  /\ DriverTrue /\ MachineTrue
  /\ ~Has(mail, Wrong)
  /\ m.conn # "live" => Parting
  /\ m.conn = "live" => Telling

LEMMA SignsAre ==
  /\ Tidings \in SUBSET Tidings /\ Wrong \in SUBSET Tidings /\ Readies \in SUBSET Tidings
  /\ Cuts \in Verdicts /\ Unready \in Verdicts
  /\ \A t : Starts(t) \in SUBSET Tidings /\ Ends(t) \in Verdicts
BY DEF Wrong, Readies, Verdicts, Unready, Starts, Ends

\* A step of the server that tells nothing new: it passes messages on, and it sends
\* tasks only while the machine shows itself as ready or printing.
LEMMA ServerForetold ==
  ASSUME Foretold, drv' = drv, Continues(mail, mail'),
         /\ m'.conn = m.conn /\ m'.attempting = m.attempting /\ m'.seen = m.seen
         /\ m'.data = m.data /\ m'.homed = m.homed /\ (Shown(m') <=> Shown(m)),
         \A t \in Task : InWire(t) => InWire(t)',
         \A t \in Task : rec'[t] \in Sending =>
                           rec[t] \in Sending \/ (Shown(m) /\ (m.conn = "live" => InWire(t)'))
  PROVE  Foretold'
<1>1. /\ \A X \in SUBSET Tidings : Has(mail', X) => Has(mail, X)
      /\ \A Y \in Verdicts : Has(mail, Y) => Has(mail', Y)
      /\ \A X \in SUBSET Tidings, Y \in Verdicts : Followed(mail, X, Y) => Followed(mail', X, Y)
      /\ Guarded(mail) => Guarded(mail')
  BY DEF Continues
<1>2. DriverTrue' /\ MachineTrue' /\ ~Has(mail', Wrong)
  BY <1>1, SignsAre DEF Foretold, DriverTrue, MachineTrue, InSpool, Shown
<1>3. ASSUME m'.conn # "live" PROVE Parting'
  <2>1. Parting
    BY <1>3 DEF Foretold
  <2>2. QED
    BY <1>1, <2>1, SignsAre DEF Parting, Shown
<1>4. ASSUME m'.conn = "live" PROVE Telling'
  <2>1. Telling
    BY <1>4 DEF Foretold
  <2>2. drv'.st # "ready" => Followed(mail', Readies, Unready) /\ (Shown(m') => Has(mail', Unready))
    BY <1>1, <2>1, SignsAre DEF Telling
  <2>3. m'.seen /\ ~Shown(m') => Has(mail', Cuts) \/ \A t \in Task : rec'[t] \notin Sending
    BY <1>1, <2>1, SignsAre DEF Telling
  <2>4. \A t \in Task : InSpool(t)' \/ Followed(mail', Starts(t), Ends(t))
    BY <1>1, <2>1, SignsAre DEF Telling, InSpool
  <2>5. ASSUME m'.seen, NEW t \in Task, rec'[t] \in Sending
        PROVE  InSpool(t)' \/ InWire(t)' \/ Has(mail', Ends(t))
    <3>1. rec[t] \in Sending => InSpool(t) \/ InWire(t) \/ Has(mail, Ends(t))
      BY <2>1, <2>5 DEF Telling
    <3>2. InSpool(t) => InSpool(t)'
      BY DEF InSpool
    <3>3. Has(mail, Ends(t)) => Has(mail', Ends(t))
      BY <1>1, SignsAre
    <3>4. QED
      BY <1>4, <2>5, <3>1, <3>2, <3>3
  <2>6. QED
    BY <2>2, <2>3, <2>4, <2>5 DEF Telling, Shown
<1>5. QED
  BY <1>2, <1>3, <1>4 DEF Foretold

\* What is sent is behind what was sent before.
LEMMA WireKeeps ==
  ASSUME wire \in Seq(Wires(sent)), NEW x \in Seq(Wires(sent')), sent \subseteq sent'
  PROVE  /\ wire' = wire \/ wire' = Sent(x) => \A t \in Task : InWire(t) => InWire(t)'
         /\ m.conn = "live" /\ wire' = Sent(x) =>
              \A t \in Task : (\E i \in 1 .. Len(x) : x[i].type = "SpoolTask" /\ x[i].task = t)
                                => InWire(t)'
<1>1. wire \in Seq(Wires(sent'))
  BY SeqMonotonic DEF Wires
<1> DEFINE q == wire \o x
           n == Len(wire)
           k == Len(x)
<1>2. /\ n \in Nat /\ k \in Nat /\ Len(q) = n + k
      /\ \A i \in 1 .. n : i \in 1 .. n + k /\ q[i] = wire[i]
      /\ \A i \in 1 .. k : n + i \in 1 .. n + k /\ q[n + i] = x[i]
  BY <1>1, ConcatProperties
<1> HIDE DEF q, k
<1>3. wire' = q => \A t \in Task : InWire(t) => InWire(t)'
  BY <1>2 DEF InWire
<1>4. wire' = wire => \A t \in Task : InWire(t) => InWire(t)'
  BY DEF InWire
<1>5. ASSUME wire' = q, NEW t \in Task, NEW i \in 1 .. k, x[i].type = "SpoolTask", x[i].task = t
      PROVE  InWire(t)'
  <2>1. n + i \in 1 .. Len(wire') /\ wire'[n + i] = x[i]
    BY <1>2, <1>5
  <2>2. QED
    BY <1>5, <2>1 DEF InWire
<1>6. wire' = Sent(x) => wire' = q \/ wire' = wire
  BY DEF Sent, q
<1>7. m.conn = "live" => Sent(x) = q
  BY DEF Sent, q
<1>8. QED
  BY <1>3, <1>4, <1>5, <1>6, <1>7 DEF k

\* A step that changes only the mailbox and what is not about the driver.
LEMMA MailForetold ==
  ASSUME Foretold, UNCHANGED <<m, wire, drv>>, Continues(mail, mail'),
         \A t \in Task : rec'[t] \in Sending => rec[t] \in Sending
  PROVE  Foretold'
<1>1. \A t \in Task : InWire(t) => InWire(t)'
  BY DEF InWire
<1>2. QED
  BY <1>1, ServerForetold

\* Messages by their type.
LEMMA NoTidings ==
  /\ \A e : e.type # "Feedback" => e \notin Tidings
  /\ \A e : e.type \notin {"Feedback", "Closed", "Stop", "Broken"} => e \notin Tidings \cup Cuts
  /\ \A type \in {"Closed", "Stop", "Broken"} : Msg(type) \in Cuts /\ Msg(type) \notin Tidings
  /\ \A type \in {"Connect", "ResetWhenIdle", "StopMachine", "ResetMachine", "AddDevice"} :
       Msg(type) \notin Tidings /\ Msg(type) \notin Cuts
<1>1. \A type \in {"Closed", "Stop", "Broken"} : Msg(type) \in Mailable /\ Msg(type).type = type
  BY DEF Msg, Mailable, Signals
<1>2. \A type : Msg(type).type = type
  BY DEF Msg
<1>3. QED
  BY <1>1, <1>2 DEF Tidings, Cuts

\* The messages that the actor takes, and that others put into its mailbox.
LEMMA ContinuesNext ==
  ASSUME IInv, mail # <<>>
  PROVE  /\ Tail(mail) \in Seq(Messages(rec, sent))
         /\ \A e : e \notin Tidings => Continues(mail, Append(mail, e))
         /\ \A e : e \notin Tidings /\ e \in Cuts => Continues(mail, Append(Tail(mail), e))
         /\ Head(mail).type \notin {"Feedback", "Closed", "Stop", "Broken"} =>
              /\ Continues(mail, Tail(mail))
              /\ \A e : e \notin Tidings => Continues(mail, Append(Tail(mail), e))
<1>1. mail \in Seq(Messages(rec, sent)) /\ Tail(mail) \in Seq(Messages(rec, sent))
  BY ReceivesHead, SoundNow
<1>2. ASSUME NEW e, e \notin Tidings
      PROVE  /\ Continues(mail, Append(mail, e))
             /\ e \in Cuts => Continues(mail, Append(Tail(mail), e))
             /\ Continues(Tail(mail), Append(Tail(mail), e))
  BY <1>1, <1>2, ContinuesAppend
<1>3. Head(mail).type \notin {"Feedback", "Closed", "Stop", "Broken"} => Continues(mail, Tail(mail))
  BY <1>1, ContinuesTail, NoTidings
<1>4. ASSUME Head(mail).type \notin {"Feedback", "Closed", "Stop", "Broken"}, NEW e, e \notin Tidings
      PROVE  Continues(mail, Append(Tail(mail), e))
  BY <1>2, <1>3, <1>4, ContinuesBeyond
<1>5. QED
  BY <1>1, <1>2, <1>3, <1>4

\* What is left of the mailbox when the copies of ts in it have become stale, with
\* messages behind it that are no feedback.
LEMMA ContinuesRest ==
  ASSUME IInv, mail # <<>>, Head(mail).type \notin {"Feedback", "Closed", "Stop", "Broken"},
         NEW ts, NEW x \in {<<>>, <<Msg("Stop")>>, <<Msg("Stop"), Msg("Stop")>>}
  PROVE  /\ Continues(mail, StaleIn(ts, Tail(mail)) \o x)
         /\ Continues(mail, StaleIn(ts, Tail(mail)))
         /\ Continues(mail, Append(StaleIn(ts, Tail(mail)), Msg("Stop")))
<1> DEFINE rest == Tail(mail)
           box == StaleIn(ts, rest)
           s == Msg("Stop")
<1>1. Continues(mail, rest) /\ rest \in Seq(Messages(rec, sent))
  BY ContinuesNext
<1>2. Moved(rec, rec, sent, sent, ts)
  BY DEF Moved
<1>3. s \in Messages(rec, sent) /\ s \notin Tidings
  BY NeutralOnes, NoTidings
<1>4. x \in {<<>>, <<s>>, <<s, s>>}
  OBVIOUS
<1> HIDE DEF rest, s
<1>5. Continues(rest, box) /\ box \in Seq(Messages(rec, sent))
  BY <1>1, <1>2, ContinuesStale, StaleKeeps
<1> HIDE DEF box
<1>6. x \in Seq(Messages(rec, sent)) /\ ~Has(x, Tidings)
  <2>1. CASE x = <<>>
    BY <2>1 DEF Has
  <2>2. CASE x = <<s>>
    <3>1. <<s>> \in Seq(Messages(rec, sent))
      BY <1>3
    <3>2. ~Has(<<s>>, Tidings)
      BY <1>3, HasOne
    <3>3. QED
      BY <2>2, <3>1, <3>2
  <2>3. CASE x = <<s, s>>
    <3>1. <<s, s>> \in Seq(Messages(rec, sent))
      BY <1>3
    <3>2. ~Has(<<s, s>>, Tidings)
      BY <1>3, HasTwo
    <3>3. QED
      BY <2>3, <3>1, <3>2
  <2>4. QED
    BY <1>4, <2>1, <2>2, <2>3
<1>7. Continues(box, box \o x) /\ Continues(box, Append(box, s))
  BY <1>3, <1>5, <1>6, ContinuesJoin, ContinuesAppend
<1>8. QED
  BY <1>1, <1>5, <1>7, ContinuesBeyond DEF rest, box, s

\* The mutations of the clients and the compilations.
LEMMA ClientsForetold ==
  ASSUME IInv, Foretold, Clients
  PROVE  Foretold'
<1>0. mail \in Seq(Messages(rec, sent)) /\ rec \in [Task -> Statuses]
  BY SoundNow DEF IInv, TypeOK
<1>1. ASSUME NEW p \in Prints, PrintMutation(p) PROVE Foretold'
  <2>1. UNCHANGED <<m, mail, wire, drv>> /\ rec' = [rec EXCEPT ![p] = "created"]
    BY <1>1 DEF PrintMutation
  <2>2. \A t \in Task : rec'[t] \in Sending => rec[t] \in Sending
    BY <1>0, <2>1 DEF Sending
  <2>3. Continues(mail, mail')
    BY <2>1, ContinuesBeyond
  <2>4. QED
    BY <2>1, <2>2, <2>3, MailForetold
<1>2. ASSUME NEW p \in Prints, PausePrint(p) PROVE Foretold'
  <2>1. [type |-> "Pause", task |-> p] \notin Tidings
    BY DEF Tidings
  <2>2. Continues(mail, mail')
    BY <1>0, <1>2, <2>1, ContinuesAppend DEF PausePrint, Post
  <2>3. QED
    BY <1>2, <2>2, MailForetold DEF PausePrint, database
<1>3. ASSUME NEW p \in Prints, CheckPaused(p) PROVE Foretold'
  <2>1. Continues(mail, mail')
    BY <1>3, ContinuesBeyond DEF CheckPaused
  <2>2. QED
    BY <1>3, <2>1, MailForetold DEF CheckPaused
<1>4. ASSUME NEW p \in Prints, NEW hook \in NewInline, CommitResume(p, hook) PROVE Foretold'
  <2>0. UNCHANGED <<m, wire, drv>>
    BY <1>4 DEF CommitResume
  <2>1. CASE UNCHANGED <<rec, mail>>
    <3>1. Continues(mail, mail')
      BY <2>1, ContinuesBeyond
    <3>2. QED
      BY <2>0, <2>1, <3>1, MailForetold
  <2>2. CASE /\ rec' = [rec EXCEPT ![p] = "created", ![hook] = "created"]
             /\ mail' = Append(StaleIn({p}, mail),
                          [type |-> "Resume", task |-> p, hook |-> hook, fresh |-> TRUE,
                           freshHook |-> TRUE])
    <3>1. \A t \in Task : rec'[t] \in Sending => rec[t] \in Sending
      BY <1>0, <2>2 DEF Sending
    <3>2. Moved(rec, rec, sent, sent, {p})
      BY DEF Moved
    <3> DEFINE e == [type |-> "Resume", task |-> p, hook |-> hook, fresh |-> TRUE,
                     freshHook |-> TRUE]
               x == StaleIn({p}, mail)
    <3>3. Continues(mail, x) /\ x \in Seq(Messages(rec, sent))
      BY <1>0, <3>2, ContinuesStale, StaleKeeps
    <3>4. e \notin Tidings /\ mail' = Append(x, e)
      BY <2>2 DEF Tidings
    <3> HIDE DEF e, x
    <3>5. Continues(x, Append(x, e))
      BY <3>3, <3>4, ContinuesAppend
    <3>6. Continues(mail, mail')
      BY <3>3, <3>4, <3>5, ContinuesBeyond
    <3>7. QED
      BY <2>0, <3>1, <3>6, MailForetold
  <2>3. QED
    BY <1>4, <2>1, <2>2 DEF CommitResume
<1>5. ASSUME NEW t \in NewInline, NEW override \in BOOLEAN, ExecGCodes(t, override) PROVE Foretold'
  <2>1. /\ UNCHANGED <<m, wire, drv>>
        /\ rec' = [rec EXCEPT ![t] = "created"]
        /\ mail' = Append(mail, [type |-> "SpoolTask", task |-> t, override |-> override,
                                 fresh |-> TRUE])
    BY <1>5 DEF ExecGCodes, Post
  <2>2. \A u \in Task : rec'[u] \in Sending => rec[u] \in Sending
    BY <1>0, <2>1 DEF Sending
  <2>3. Continues(mail, mail')
    <3>1. [type |-> "SpoolTask", task |-> t, override |-> override, fresh |-> TRUE] \notin Tidings
      BY DEF Tidings
    <3>2. QED
      BY <1>0, <2>1, <3>1, ContinuesAppend
  <2>4. QED
    BY <2>1, <2>2, <2>3, MailForetold
<1>6. ASSUME NEW type \in {"StopMachine", "ResetMachine", "AddDevice"}, Request(type) PROVE Foretold'
  <2>1. Continues(mail, mail')
    BY <1>0, <1>6, ContinuesAppend, NoTidings DEF Request, Post
  <2>2. QED
    BY <1>6, <2>1, MailForetold DEF Request, database
<1>7. QED
  BY <1>1, <1>2, <1>3, <1>4, <1>5, <1>6 DEF Clients

LEMMA CompilationForetold ==
  ASSUME IInv, Foretold, Compilation
  PROVE  Foretold'
<1>0. mail \in Seq(Messages(rec, sent)) /\ rec \in [Task -> Statuses]
  BY SoundNow DEF IInv, TypeOK
<1>1. ASSUME NEW p \in Prints, CompilePrint(p) PROVE Foretold'
  <2>1. [type |-> "SpoolPrint", task |-> p, auto |-> job[p].auto, fresh |-> job[p].held, late |-> job[p].late] \notin Tidings
    BY DEF Tidings
  <2>2. Continues(mail, mail')
    BY <1>0, <1>1, <2>1, ContinuesAppend DEF CompilePrint, Post
  <2>3. QED
    BY <1>1, <2>2, MailForetold DEF CompilePrint
<1>2. ASSUME NEW p \in Prints, CompileFails(p) \/ ReadFailed(p) PROVE Foretold'
  <2>1. UNCHANGED <<rec, m, mail, wire, drv>>
    BY <1>2 DEF CompileFails, ReadFailed
  <2>2. QED
    BY <2>1, ContinuesBeyond, MailForetold
<1>3. ASSUME NEW p \in Prints, SettleFailed(p) PROVE Foretold'
  <2>1. /\ UNCHANGED <<m, wire, drv>>
        /\ rec' = [rec EXCEPT ![p] = "errored"] \/ rec' = rec
        /\ mail' = StaleIn({p}, mail) \/ mail' = mail
    BY <1>3 DEF SettleFailed
  <2>2. \A t \in Task : rec'[t] \in Sending => rec[t] \in Sending
    BY <1>0, <2>1 DEF Sending
  <2>3. Moved(rec, rec, sent, sent, {p})
    BY DEF Moved
  <2>4. Continues(mail, mail')
    BY <1>0, <2>1, <2>3, ContinuesStale, ContinuesBeyond
  <2>5. QED
    BY <2>1, <2>2, <2>4, MailForetold
<1>4. QED
  BY <1>1, <1>2, <1>3 DEF Compilation

-----------------------------------------------------------------------------
(***************************************************************************)
(* The handlers of the actor that send no task.                            *)
(***************************************************************************)
\* A handler that refuses, ignores or hands on what it takes.
LEMMA HandsOnForetold ==
  ASSUME IInv, Foretold, mail # <<>>, UNCHANGED <<rec, m, wire, drv>>,
         \/ mail' = Append(Tail(mail), Msg("Stop"))
         \/ /\ Head(mail).type \notin {"Feedback", "Closed", "Stop", "Broken"}
            /\ mail' = Tail(mail) \/ mail' = Append(Tail(mail), Msg("ResetWhenIdle"))
  PROVE  Foretold'
<1>1. Continues(mail, mail')
  BY ContinuesNext, NoTidings
<1>2. QED
  BY <1>1, MailForetold

LEMMA RetryConnectForetold ==
  ASSUME IInv, Foretold, RetryConnect
  PROVE  Foretold'
<1>1. Continues(mail, mail')
  BY SoundNow, ContinuesAppend, NoTidings DEF RetryConnect, Post
<1>2. QED
  BY <1>1, MailForetold DEF RetryConnect, database

LEMMA ForwardForetold ==
  ASSUME IInv, Foretold, NEW type \in {"ResetWhenIdle", "StopMachine"},
         NEW out \in {"ResetWhenIdle", "Estop"}, Forward(type, Msg(out))
  PROVE  Foretold'
<1>1. PICK ok \in SendResults :
        /\ wire' = IF ok THEN Sent(<<Msg(out)>>) ELSE wire
        /\ IF ok THEN mail' = Tail(mail) ELSE StopActor(Tail(mail))
  BY DEF Forward
<1>2. mail # <<>> /\ Head(mail).type = type /\ UNCHANGED <<rec, m, drv, sent>>
  BY DEF Forward, Receives, database, history
<1>3. CASE ~ok
  BY <1>1, <1>2, <1>3, HandsOnForetold DEF StopActor
<1>4. CASE ok
  <2> DEFINE e == Msg(out)
             x == <<e>>
  <2>1. e \in Wires(sent)
    BY WireSignals
  <2>2. wire \in Seq(Wires(sent))
    BY DEF IInv, TypeOK
  <2> HIDE DEF e
  <2>3. x \in Seq(Wires(sent'))
    BY <1>2, <2>1
  <2> HIDE DEF x
  <2>4. wire' = Sent(x)
    BY <1>1, <1>4 DEF x, e
  <2>5. \A t \in Task : InWire(t) => InWire(t)'
    BY <1>2, <2>2, <2>3, <2>4, WireKeeps
  <2>6. Continues(mail, mail')
    BY <1>1, <1>2, <1>4, ContinuesNext
  <2>7. QED
    BY <1>2, <2>5, <2>6, ServerForetold
<1>5. QED
  BY <1>3, <1>4

LEMMA HandlersForetold ==
  ASSUME IInv, Foretold,
         HandleBroken \/ HandleInit \/ HandleAddDevice \/ FeedbackWithoutData
  PROVE  Foretold'
BY HandsOnForetold DEF HandleBroken, HandleInit, HandleAddDevice, FeedbackWithoutData,
                       StopActor, Receives, database

LEMMA StreamBreaksForetold ==
  ASSUME IInv, Foretold, StreamBreaks
  PROVE  Foretold'
<1>1. Continues(mail, mail')
  BY SoundNow, ContinuesAppend, NoTidings DEF StreamBreaks, Post
<1>2. QED
  BY <1>1, MailForetold DEF StreamBreaks, database

-----------------------------------------------------------------------------
(***************************************************************************)
(* The handlers of the actor that send tasks.                              *)
(***************************************************************************)
\* The machine that is left by them, as far as the invariant knows it.
SameLink(mm) ==
  /\ mm.conn = m.conn /\ mm.attempting = m.attempting /\ mm.seen = m.seen
  /\ mm.data = m.data /\ mm.homed = m.homed

LEMMA SendsForetold ==
  ASSUME IInv, Foretold, drv' = drv, Continues(mail, mail'),
         SameLink(m'), Shown(m), Shown(m'),
         sent \subseteq sent', NEW x \in Seq(Wires(sent')), wire' = Sent(x),
         NEW ts, \A t \in Task : rec'[t] \in Sending => rec[t] \in Sending \/ t \in ts,
         m.conn = "live" => \A t \in ts : \E i \in 1 .. Len(x) : x[i].type = "SpoolTask" /\ x[i].task = t
  PROVE  Foretold'
<1>1. wire \in Seq(Wires(sent))
  BY DEF IInv, TypeOK
<1>2. /\ \A t \in Task : InWire(t) => InWire(t)'
      /\ m.conn = "live" =>
           \A t \in Task : (\E i \in 1 .. Len(x) : x[i].type = "SpoolTask" /\ x[i].task = t)
                             => InWire(t)'
  BY <1>1, WireKeeps
<1>3. \A t \in Task : rec'[t] \in Sending =>
                        rec[t] \in Sending \/ (Shown(m) /\ (m.conn = "live" => InWire(t)'))
  BY <1>2
<1>4. QED
  BY <1>2, <1>3, ServerForetold DEF SameLink

LEMMA PrintingShown ==
  ASSUME TypeOK, NEW p, NEW paused
  PROVE  SameLink(Printing(m, p, paused)) /\ Shown(Printing(m, p, paused))
BY DEF Printing, TypeOK, Machines, SameLink, Shown

LEMMA SpoolsForetold ==
  ASSUME IInv, Foretold, mail # <<>>, Head(mail).type \in {"SpoolTask", "SpoolPrint"},
         Shown(m), NEW override \in BOOLEAN, NEW lands \in BOOLEAN,
         wire' = Sent(<<SpoolMsg(Head(mail).task, override)>>),
         rec' = Spooled(rec, Head(mail).task, lands),
         mail' = StaleIn(IF lands THEN {Head(mail).task} ELSE {}, Tail(mail)),
         sent' = sent \cup {Head(mail).task},
         SameLink(m'), Shown(m'), UNCHANGED drv
  PROVE  Foretold'
<1> DEFINE e == Head(mail)
           t == e.task
           f == SpoolMsg(t, override)
           x == <<f>>
<1>1. rec \in [Task -> Statuses] /\ sent \in SUBSET Task
  BY DEF IInv, TypeOK
<1>2. t \in Task
  <2>1. e \in Mailable
    BY ReceivesHead
  <2>2. QED
    BY <2>1, MailableByType DEF SpoolTasks, SpoolPrints, Task
<1>3. Continues(mail, mail')
  <2> DEFINE ts == IF lands THEN {t} ELSE {}
  <2>1. mail' = StaleIn(ts, Tail(mail))
    OBVIOUS
  <2> HIDE DEF ts
  <2>2. QED
    BY <2>1, ContinuesRest
<1>4. \A u \in Task : rec'[u] \in Sending => rec[u] \in Sending \/ u \in {t}
  BY <1>1, <1>2 DEF Spooled
<1> HIDE DEF e
<1>5. f \in Wires(sent') /\ f.type = "SpoolTask" /\ f.task = t
  <2>1. sent' \in SUBSET Task /\ t \in sent'
    BY <1>1, <1>2 DEF e
  <2> HIDE DEF t
  <2>2. QED
    BY <2>1, SpoolMsgIs DEF SpoolMsg
<1>6. wire' = Sent(x) /\ sent \subseteq sent'
  BY DEF e
<1> HIDE DEF f, t
<1>7. x \in Seq(Wires(sent')) /\ \A u \in {t} : \E i \in 1 .. Len(x) : x[i].type = "SpoolTask" /\ x[i].task = u
  <2>1. x \in Seq(Wires(sent')) /\ 1 \in 1 .. Len(x) /\ x[1] = f
    BY <1>5
  <2>2. QED
    BY <1>5, <2>1
<1> HIDE DEF x
<1>8. QED
  BY <1>3, <1>4, <1>6, <1>7, SendsForetold

LEMMA CanStartShown == \A p, override, auto : CanStart(p, override, auto) => Shown(m)
BY DEF CanStart, Shown

LEMMA HandleSpoolTaskForetold ==
  ASSUME IInv, Foretold, HandleSpoolTask
  PROVE  Foretold'
<1> DEFINE e == Head(mail)
<1>1. mail # <<>> /\ e.type = "SpoolTask" /\ UNCHANGED drv /\ TypeOK
  BY DEF HandleSpoolTask, Receives, IInv
<1>2. e.override \in BOOLEAN /\ e.fresh \in BOOLEAN
  <2>1. e \in SpoolTasks
    BY <1>1, ReceivesHead, MailableByType
  <2>2. QED
    BY <2>1 DEF SpoolTasks
<1> HIDE DEF e
<1>3. CASE Refuse
  BY <1>1, <1>3, HandsOnForetold DEF Refuse, e
<1>4. CASE StopActor(Tail(mail)) /\ UNCHANGED <<rec, m, wire, history>>
  BY <1>1, <1>4, HandsOnForetold DEF StopActor
<1>5. CASE ~Refuse /\ ~(StopActor(Tail(mail)) /\ UNCHANGED <<rec, m, wire, history>>)
  <2>1. CanStart(e.task, e.override, FALSE)
    BY <1>5 DEF HandleSpoolTask, e
  <2>2. PICK ok \in SendResults :
          /\ ok
          /\ wire' = Sent(<<SpoolMsg(e.task, e.override)>>)
          /\ rec' = Spooled(rec, e.task, e.fresh)
          /\ mail' = StaleIn(IF e.fresh THEN {e.task} ELSE {}, Tail(mail))
          /\ Spend({e.task}) /\ sent' = sent \cup {e.task}
          /\ parted' = (parted \/ ~e.fresh) /\ crossed' = crossed
          /\ m' = m
    BY <1>5 DEF HandleSpoolTask, e
  <2>3. Shown(m) /\ SameLink(m') /\ Shown(m')
    BY <2>1, <2>2, CanStartShown DEF SameLink
  <2>4. PICK lands \in BOOLEAN : lands = e.fresh
    BY <1>2
  <2>5. /\ rec' = Spooled(rec, e.task, lands)
        /\ mail' = StaleIn(IF lands THEN {e.task} ELSE {}, Tail(mail))
    BY <2>2, <2>4
  <2>6. QED
    BY <1>1, <1>2, <2>2, <2>3, <2>5, SpoolsForetold DEF e
<1>6. QED
  BY <1>3, <1>4, <1>5

LEMMA HandleSpoolPrintForetold ==
  ASSUME IInv, Foretold, HandleSpoolPrint
  PROVE  Foretold'
<1> DEFINE e == Head(mail)
           p == e.task
<1>1. mail # <<>> /\ e.type = "SpoolPrint" /\ UNCHANGED drv /\ TypeOK
  BY DEF HandleSpoolPrint, Receives, IInv
<1> HIDE DEF e
<1>2. CASE mail' = Tail(mail) /\ UNCHANGED <<rec, m, wire, history>>
  BY <1>1, <1>2, HandsOnForetold DEF e
<1>3. CASE StopActor(StaleIn(IF e.fresh THEN {p} ELSE {}, Tail(mail))) /\ UNCHANGED <<rec, m, wire, history>>
  <2>1. Continues(mail, mail')
    <3> DEFINE ts == IF e.fresh THEN {p} ELSE {}
    <3>1. mail' = Append(StaleIn(ts, Tail(mail)), Msg("Stop"))
      BY <1>3 DEF StopActor
    <3> HIDE DEF ts
    <3>2. QED
      BY <1>1, <3>1, ContinuesRest DEF e
  <2>2. QED
    BY <1>1, <1>3, <2>1, MailForetold
<1>4. CASE ~(mail' = Tail(mail) /\ UNCHANGED <<rec, m, wire, history>>)
           /\ ~(StopActor(StaleIn(IF e.fresh THEN {p} ELSE {}, Tail(mail)))
                /\ UNCHANGED <<rec, m, wire, history>>)
  <2>1. CanStart(p, FALSE, e.auto)
    BY <1>4 DEF HandleSpoolPrint, e
  <2>2. PICK ok \in SendResults :
          /\ ok
          /\ wire' = Sent(<<SpoolMsg(p, FALSE)>>)
          /\ rec' = Spooled(rec, p, e.fresh \/ e.late)
          /\ mail' = StaleIn(IF e.fresh \/ e.late THEN {p} ELSE {}, Tail(mail))
          /\ m' = Printing(m, p, FALSE)
          /\ Spend({p}) /\ sent' = sent \cup {p}
          /\ parted' = (parted \/ ~(e.fresh \/ e.late)) /\ crossed' = crossed
    BY <1>4 DEF HandleSpoolPrint, e
  <2>3. Shown(m)
    BY <2>1, CanStartShown
  <2>4. SameLink(m') /\ Shown(m')
    BY <1>1, <2>2, PrintingShown
  <2>5. PICK no, lands \in BOOLEAN : no = FALSE /\ lands = (e.fresh \/ e.late)
    OBVIOUS
  <2>6. /\ wire' = Sent(<<SpoolMsg(p, no)>>) /\ rec' = Spooled(rec, p, lands)
        /\ mail' = StaleIn(IF lands THEN {p} ELSE {}, Tail(mail))
    BY <2>2, <2>5
  <2>7. QED
    BY <1>1, <2>2, <2>3, <2>4, <2>6, SpoolsForetold DEF e
<1>5. QED
  BY <1>2, <1>3, <1>4

\* What is joined is there.
LEMMA JoinedLast ==
  ASSUME NEW M, NEW a \in Seq(M), NEW f \in M
  PROVE  \E i \in 1 .. Len(a \o <<f>>) : (a \o <<f>>)[i] = f
<1> DEFINE b == <<f>>
<1>1. b \in Seq(M) /\ Len(b) = 1 /\ b[1] = f
  OBVIOUS
<1> HIDE DEF b
<1>2. Len(a) + 1 \in 1 .. Len(a \o b) /\ (a \o b)[Len(a) + 1] = f
  <2>1. Len(a) \in Nat
    BY LenProperties
  <2>2. /\ Len(a \o b) = Len(a) + Len(b)
        /\ \A i \in 1 .. Len(a) + Len(b) :
              (a \o b)[i] = IF i <= Len(a) THEN a[i] ELSE b[i - Len(a)]
    BY <1>1, ConcatProperties
  <2>3. Len(a) + 1 \in 1 .. Len(a) + Len(b) /\ ~(Len(a) + 1 <= Len(a)) /\ (Len(a) + 1) - Len(a) = 1
    BY <1>1, <2>1
  <2>4. QED
    BY <1>1, <2>2, <2>3
<1>3. QED
  BY <1>2 DEF b

LEMMA PausesForetold ==
  ASSUME IInv, IInv', Foretold, NEW hook \in NewInline, NEW ok \in SendResults, NEW okHook \in SendResults,
         NEW x \in {<<>>, <<Msg("Stop")>>, <<Msg("Stop"), Msg("Stop")>>},
         PausesBy(hook, ok, okHook, x), m.homed
  PROVE  Foretold'
<1> DEFINE p == Head(mail).task
           ts == IF okHook THEN {hook} ELSE {}
           y == PauseSends(p, hook, ok, okHook)
<1>1. /\ TypeOK /\ rec \in [Task -> Statuses] /\ sent \in SUBSET Task /\ mail # <<>>
      /\ sent' \in SUBSET Task /\ Head(mail).type = "Pause"
      /\ UNCHANGED drv /\ ok \in BOOLEAN /\ okHook \in BOOLEAN
  BY SendResultsAre DEF IInv, TypeOK, PausesBy
<1>2. hook \in Inlines /\ hook \in Task
  BY NewInlineIs
<1>3. p \in Prints
  <2>1. Head(mail) \in Pauses
    BY <1>1, ReceivesHead, MailableByType
  <2>2. QED
    BY <2>1 DEF Pauses
<1>4. /\ m' = Printing(m, p, TRUE) /\ wire' = Sent(y)
      /\ mail' = StaleIn({p}, Tail(mail)) \o x /\ sent' = sent \cup ts
      /\ rec' = [rec EXCEPT ![p] = "paused", ![hook] = IF okHook THEN "sent" ELSE "created"]
  BY DEF PausesBy
<1>5. Continues(mail, mail')
  BY <1>1, <1>4, ContinuesRest
<1> HIDE DEF p
<1>6. Shown(m) /\ SameLink(m') /\ Shown(m')
  BY <1>1, <1>4, PrintingShown DEF Foretold, MachineTrue
<1>7. y \in Seq(Wires(sent')) /\ sent \subseteq sent'
  BY <1>1, <1>2, <1>3, <1>4, PauseSendsOnce
<1>8. \A t \in Task : rec'[t] \in Sending => rec[t] \in Sending \/ t \in ts
  BY <1>1, <1>4 DEF Sending
<1>9. \A t \in ts : \E i \in 1 .. Len(y) : y[i].type = "SpoolTask" /\ y[i].task = t
  <2>1. ASSUME okHook PROVE \E i \in 1 .. Len(y) : y[i].type = "SpoolTask" /\ y[i].task = hook
    <3> DEFINE f == SpoolMsg(hook, FALSE)
               e == [type |-> "Pause", task |-> p]
               a == IF ok THEN <<e>> ELSE <<>>
    <3>1. y = a \o <<f>>
      BY <2>1 DEF PauseSends
    <3>2. f.type = "SpoolTask" /\ f.task = hook
      BY DEF SpoolMsg
    <3> HIDE DEF e, f, y
    <3>3. f \in {e, f} /\ <<e>> \in Seq({e, f}) /\ <<>> \in Seq({e, f})
      OBVIOUS
    <3>4. a \in Seq({e, f})
      BY <1>1, <3>3
    <3> HIDE DEF a
    <3>5. QED
      BY <3>1, <3>2, <3>3, <3>4, JoinedLast
  <2>2. QED
    BY <2>1
<1> HIDE DEF ts, y
<1>10. QED
  BY <1>1, <1>4, <1>5, <1>6, <1>7, <1>8, <1>9, SendsForetold

LEMMA HandlePauseForetold ==
  ASSUME IInv, IInv', Foretold, HandlePause
  PROVE  Foretold'
<1> DEFINE e == Head(mail)
           p == e.task
           Goes2(hook, ok, okHook) ==
             /\ m' = Printing(m, p, TRUE)
             /\ rec' = [rec EXCEPT ![p] = "paused",
                                   ![hook] = IF okHook THEN "sent" ELSE "created"]
             /\ wire' = Sent(PauseSends(p, hook, ok, okHook))
             /\ LET rest == StaleIn({p}, Tail(mail))
                IN  IF ok /\ okHook THEN mail' = rest
                    ELSE IF ok \/ okHook THEN StopActor(rest)
                    ELSE mail' = rest \o <<Msg("Stop"), Msg("Stop")>>
             /\ credit' = [credit EXCEPT ![hook] = IF okHook THEN @ ELSE @ + 1]
             /\ sent' = IF okHook THEN sent \cup {hook} ELSE sent
             /\ job' = StaleJobs({p}, job)
<1>1. /\ mail # <<>> /\ e.type = "Pause"
      /\ UNCHANGED <<resuming, retry, drv, parted, crossed, ops, faults>>
  BY DEF HandlePause, Receives, bounds
<1>2. CASE Refuse /\ UNCHANGED job
  BY <1>1, <1>2, HandsOnForetold DEF Refuse
<1>3. CASE /\ m.homed /\ rec[p] \notin Final \cup {"paused"}
           /\ \E hook \in NewInline, ok \in SendResults, okHook \in SendResults : Goes2(hook, ok, okHook)
  <2>1. PICK hook \in NewInline, ok \in SendResults, okHook \in SendResults : Goes2(hook, ok, okHook)
    BY <1>3
  <2> DEFINE rest == Tail(mail)
             box == StaleIn({p}, rest)
  <2>2. \/ mail' = box \/ mail' = Append(box, Msg("Stop"))
        \/ mail' = box \o <<Msg("Stop"), Msg("Stop")>>
    BY <2>1 DEF StopActor
  <2>3. box \in Seq(Messages(rec, sent))
    BY <1>1, LeadsRest
  <2> HIDE DEF box
  <2>4. box = box \o <<>> /\ Append(box, Msg("Stop")) = box \o <<Msg("Stop")>>
    <3>1. Msg("Stop") \in Messages(rec, sent)
      BY NeutralOnes
    <3>2. QED
      BY <2>3, <3>1, ConcatEmptySeq, AppendIsConcat
  <2>5. PICK x \in {<<>>, <<Msg("Stop")>>, <<Msg("Stop"), Msg("Stop")>>} : mail' = box \o x
    BY <2>2, <2>4
  <2>6. PausesBy(hook, ok, okHook, x)
    BY <1>1, <1>3, <2>1, <2>5 DEF PausesBy, box
  <2>7. QED
    BY <1>3, <2>5, <2>6, PausesForetold
<1>4. QED
  <2>1. \E homed \in {FALSE, m.homed} :
          IF ~m.data \/ ~homed \/ rec[p] \in Final \cup {"paused"}
          THEN Refuse /\ UNCHANGED job
          ELSE \E hook \in NewInline, ok \in SendResults, okHook \in SendResults : Goes2(hook, ok, okHook)
    BY Zenon DEF HandlePause, PauseSends
  <2> HIDE DEF Goes2
  <2>2. QED
    BY <1>2, <1>3, <2>1 DEF Goes2

LEMMA ResumesForetold ==
  ASSUME IInv, IInv', Foretold, NEW warm \in NewInline, NEW n \in 0 .. 3, ResumesBy(warm, n),
         m.status = "Printing", m.conn = "live" => n = 3
  PROVE  Foretold'
<1> DEFINE e == Head(mail)
           done == FirstOf(warm, e.hook, e.task, n)
           ts == done \cap Fresh(warm)
           y == ResumeSends(warm, e.hook, e.task, n)
<1>1. /\ TypeOK /\ rec \in [Task -> Statuses] /\ sent \in SUBSET Task /\ mail # <<>>
      /\ sent' \in SUBSET Task /\ UNCHANGED drv /\ e.type = "Resume"
  BY DEF IInv, TypeOK, ResumesBy
<1>2. warm \in Inlines /\ warm \in Task
  BY NewInlineIs
<1>3. e.task \in Prints /\ e.hook \in Inlines
  <2>1. e \in Resumes
    BY <1>1, ReceivesHead, MailableByType
  <2>2. QED
    BY <2>1 DEF Resumes
<1>4. /\ rec' = [t \in Task |-> IF t \in ts THEN "sent" ELSE IF t = warm THEN "created" ELSE rec[t]]
      /\ wire' = Sent(y) /\ sent' = sent \cup done
      /\ mail' = StaleIn(ts, Tail(mail)) \/ mail' = Append(StaleIn(ts, Tail(mail)), Msg("Stop"))
      /\ m' = Printing(m, e.task, FALSE) \/ m' = [m EXCEPT !.saved = NoTask]
  BY DEF ResumesBy
<1>5. y \in Seq(Wires(sent'))
  <2>1. \A i \in 1 .. n : /\ InOrder(warm, e.hook, e.task)[i] \in done
                          /\ y[i] = SpoolMsg(InOrder(warm, e.hook, e.task)[i], FALSE)
    BY DEF FirstOf, ResumeSends
  <2>2. y = [i \in 1 .. n |-> y[i]]
    BY DEF ResumeSends
  <2> DEFINE o == InOrder(warm, e.hook, e.task)
  <2> HIDE DEF e, done, y, o
  <2>3. ASSUME NEW i \in 1 .. n PROVE y[i] \in Wires(sent')
    <3> DEFINE t == o[i]
    <3>1. t \in sent' /\ y[i] = SpoolMsg(t, FALSE)
      BY <1>4, <2>1 DEF o
    <3> HIDE DEF t
    <3>2. SpoolMsg(t, FALSE) \in Wires(sent')
      BY <1>1, <3>1, SpoolMsgIs
    <3>3. QED
      BY <3>1, <3>2
  <2>4. QED
    BY <2>2, <2>3
<1>6. \A t \in ts : \E i \in 1 .. Len(y) : y[i].type = "SpoolTask" /\ y[i].task = t
  <2>1. ASSUME NEW t \in ts PROVE \E i \in 1 .. Len(y) : y[i].type = "SpoolTask" /\ y[i].task = t
    <3>1. PICK i \in 1 .. n : t = InOrder(warm, e.hook, e.task)[i]
      BY DEF FirstOf
    <3>2. Len(y) = n /\ y[i] = SpoolMsg(t, FALSE)
      BY <3>1 DEF ResumeSends
    <3>3. QED
      BY <3>2 DEF SpoolMsg
  <2>2. QED
    BY <2>1
<1> HIDE DEF done, y, ts
<1>7. Continues(mail, mail')
  BY <1>1, <1>4, ContinuesRest
<1> HIDE DEF e
<1>8. SameLink(m') /\ Shown(m) /\ Shown(m')
  <2>1. CASE m' = [m EXCEPT !.saved = NoTask]
    BY <1>1, <2>1 DEF TypeOK, Machines, SameLink, Shown
  <2>2. CASE m' = Printing(m, e.task, FALSE)
    <3> DEFINE p == e.task
    <3>1. m' = Printing(m, p, FALSE)
      BY <2>2
    <3> HIDE DEF p
    <3>2. QED
      BY <1>1, <3>1, PrintingShown DEF Shown
  <2>3. QED
    BY <1>4, <2>1, <2>2
<1>9. \A t \in Task : rec'[t] \in Sending => rec[t] \in Sending \/ t \in ts
  BY <1>4 DEF Sending
<1>10. QED
  BY <1>1, <1>4, <1>5, <1>6, <1>7, <1>8, <1>9, SendsForetold

LEMMA HandleResumeForetold ==
  ASSUME IInv, IInv', Foretold, HandleResume
  PROVE  Foretold'
<1> DEFINE e == Head(mail)
<1>1. /\ mail # <<>> /\ e.type = "Resume" /\ SendResults \subseteq BOOLEAN
      /\ UNCHANGED <<resuming, retry, drv, ops, faults>>
  BY SendResultsAre DEF HandleResume, Receives, bounds, IInv
<1>2. CASE Refuse /\ UNCHANGED job
  BY <1>1, <1>2, HandsOnForetold DEF Refuse
<1>3. CASE ~(Refuse /\ UNCHANGED job)
  <2>1. m.status = "Printing"
    BY <1>3 DEF HandleResume
  <2>2. PICK warm \in NewInline, n \in {IF ok THEN 3 ELSE 0 : ok \in SendResults}
                                        \cup (IF m.conn = "dead" THEN {1, 2} ELSE {}) :
              LET order == <<warm, e.hook, e.task>>
                  fresh == {warm} \cup (IF e.freshHook THEN {e.hook} ELSE {})
                                  \cup (IF e.fresh THEN {e.task} ELSE {})
                  done  == {order[i] : i \in 1 .. n}
              IN  /\ rec' = [t \in Task |-> IF t \in done \cap fresh THEN "sent"
                                            ELSE IF t = warm THEN "created" ELSE rec[t]]
                  /\ wire' = Sent([i \in 1 .. n |-> SpoolMsg(order[i], FALSE)])
                  /\ sent' = sent \cup done
                  /\ credit' = [t \in Task |->
                       credit[t] + (IF t = warm THEN 1 ELSE 0) - (IF t \in done THEN 1 ELSE 0)]
                  /\ mail' = LET rest == StaleIn(done \cap fresh, Tail(mail))
                             IN  IF n = 3 THEN rest ELSE Append(rest, Msg("Stop"))
                  /\ m' = IF n = 3 THEN Printing(m, e.task, FALSE)
                                   ELSE [m EXCEPT !.saved = NoTask]
                  /\ job' = StaleJobs(done \cap fresh, job)
                  /\ parted' = (parted \/ ~e.fresh \/ ~e.freshHook)
                  /\ crossed' = (crossed \/ m.saved # e.task)
    BY <1>3 DEF HandleResume
  <2>3. n \in 0 .. 3 /\ (m.conn = "live" => n = 3)
    <3>1. n \in 0 .. 3
      OBVIOUS
    <3>2. ASSUME m.conn = "live" PROVE n = 3
      <4>1. SendResults = {TRUE}
        BY <3>2 DEF SendResults
      <4>2. PICK ok \in SendResults : n = IF ok THEN 3 ELSE 0
        BY <3>2
      <4>3. QED
        BY <4>1, <4>2
    <3>3. QED
      BY <3>1, <3>2
  <2>4. ResumesBy(warm, n)
    BY <1>1, <2>2 DEF ResumesBy, Fresh, FirstOf, InOrder, ResumeSends
  <2>5. QED
    BY <2>1, <2>3, <2>4, ResumesForetold
<1>4. QED
  BY <1>2, <1>3

-----------------------------------------------------------------------------
(***************************************************************************)
(* What the driver's history of tasks shows as started.                    *)
(***************************************************************************)
LEMMA PutMarks ==
  ASSUME NEW S, NEW prog \in Entries(S), NEW u, NEW status
  PROVE  /\ \A t : StartedIn(Put(prog, u, status), t) =>
                     IF t = u THEN status = "started" ELSE StartedIn(prog, t)
         /\ \A t : t # u /\ StoppedIn(prog, t) => StoppedIn(Put(prog, u, status), t)
         /\ status # "started" => StoppedIn(Put(prog, u, status), u)
<1> DEFINE E == [task : S, status : Progress]
           n == Len(prog)
           e == [task |-> u, status |-> status]
           q == Put(prog, u, status)
<1>0. prog \in Seq(E)
  BY DEF Entries
<1>1. n \in Nat /\ \A i \in 1 .. n : prog[i] \in E
  <2> HIDE DEF E
  <2>1. QED
    BY <1>0
<1>2. e.task = u /\ e.status = status
  OBVIOUS
<1> HIDE DEF e
<1>3. CASE \E i \in 1 .. n : prog[i].task = u
  <2> DEFINE x == [i \in 1 .. n |-> IF prog[i].task = u THEN [prog[i] EXCEPT !.status = status] ELSE prog[i]]
  <2>1. q = x
    BY <1>3 DEF Put
  <2>2. Len(x) = n /\ \A i \in 1 .. n : /\ x[i].task = prog[i].task
                                        /\ x[i].status = IF prog[i].task = u THEN status ELSE prog[i].status
    BY <1>1
  <2> HIDE DEF x, q, n
  <2>3. ASSUME NEW t, StartedIn(x, t) PROVE IF t = u THEN status = "started" ELSE StartedIn(prog, t)
    BY <2>2, <2>3 DEF StartedIn, n
  <2>4. ASSUME NEW t, t # u, StoppedIn(prog, t) PROVE StoppedIn(x, t)
    BY <2>2, <2>4 DEF StoppedIn, n
  <2>5. ASSUME status # "started" PROVE StoppedIn(x, u)
    BY <1>3, <2>2, <2>5 DEF StoppedIn
  <2>6. QED
    BY <2>1, <2>3, <2>4, <2>5 DEF q
<1>4. CASE ~\E i \in 1 .. n : prog[i].task = u
  <2> DEFINE x == Append(prog, e)
  <2>1. q = x
    BY <1>4 DEF Put, e
  <2>2. Len(x) = n + 1 /\ x[n + 1] = e /\ \A i \in 1 .. n : x[i] = prog[i]
    <3>1. prog \in Seq(E)
      BY DEF Entries
    <3> HIDE DEF E
    <3>2. QED
      BY <3>1
  <2> HIDE DEF x, q, n
  <2>3. ASSUME NEW t, StartedIn(x, t) PROVE IF t = u THEN status = "started" ELSE StartedIn(prog, t)
    <3>1. PICK k \in 1 .. n + 1 : x[k].task = t /\ x[k].status = "started"
      BY <2>2, <2>3 DEF StartedIn
    <3>2. CASE k = n + 1
      BY <1>2, <2>2, <3>1, <3>2
    <3>3. CASE k \in 1 .. n
      BY <1>4, <2>2, <3>1, <3>3 DEF StartedIn, n
    <3>4. QED
      BY <1>1, <3>2, <3>3
  <2>4. ASSUME NEW t, StoppedIn(prog, t) PROVE StoppedIn(x, t)
    <3>1. PICK k \in 1 .. n : prog[k].task = t /\ prog[k].status # "started"
      BY <2>4 DEF StoppedIn, n
    <3>2. k \in 1 .. Len(x) /\ x[k] = prog[k]
      BY <1>1, <2>2
    <3>3. QED
      BY <3>1, <3>2 DEF StoppedIn
  <2>5. ASSUME status # "started" PROVE StoppedIn(x, u)
    <3>1. n + 1 \in 1 .. Len(x)
      BY <1>1, <2>2
    <3>2. QED
      BY <1>2, <2>2, <2>5, <3>1 DEF StoppedIn
  <2>6. QED
    BY <2>1, <2>3, <2>4, <2>5 DEF q
<1>5. QED
  BY <1>3, <1>4 DEF q

\* The tasks of a spool that is lost are not shown as started any more.
LEMMA PutAllMarks ==
  ASSUME NEW S, NEW prog \in Entries(S), NEW ts \in Seq(S), NEW status \in Progress,
         status # "started", NEW t
  PROVE  StartedIn(PutAll(prog, ts, status)[Len(ts)], t) =>
           StartedIn(prog, t) /\ \A i \in 1 .. Len(ts) : ts[i] # t
<1> DEFINE n == Len(ts)
           Y == Entries(S)
<1>1. n \in Nat /\ \A k \in 1 .. n : ts[k] \in S
  OBVIOUS
<1>2. \A x \in Y, u \in S : Put(x, u, status) \in Y
  BY PutType
<1> HIDE DEF Y
<1>3. PICK g \in [0 .. n -> Y] :
        /\ PutAll(prog, ts, status) = g
        /\ \A k \in 0 .. n : g[k] = IF k = 0 THEN prog ELSE Put(g[k - 1], ts[k], status)
  <2>1. prog \in Y
    BY DEF Y
  <2>2. QED
    BY <1>2, <2>1, PutAllUnfolds
<1> DEFINE Fine(k) == StartedIn(g[k], t) => StartedIn(prog, t) /\ \A i \in 1 .. k : ts[i] # t
           U == {k \in 0 .. n : Fine(k)}
<1>4. 0 \in U
  <2>1. g[0] = prog
    BY <1>1, <1>3
  <2>2. QED
    BY <1>1, <2>1
<1>5. ASSUME NEW k \in 0 .. n - 1, k \in U PROVE k + 1 \in U
  <2> HIDE DEF n
  <2>1. k \in 0 .. n /\ k + 1 \in 0 .. n /\ k + 1 # 0 /\ (k + 1) - 1 = k
    BY <1>1
  <2>2. g[k + 1] = Put(g[k], ts[k + 1], status) /\ g[k] \in Entries(S)
    BY <1>3, <2>1 DEF Y
  <2>3. StartedIn(g[k + 1], t) => t # ts[k + 1] /\ StartedIn(g[k], t)
    <3> DEFINE x == g[k]
               u == ts[k + 1]
    <3>1. x \in Entries(S) /\ g[k + 1] = Put(x, u, status)
      BY <2>2
    <3> HIDE DEF x, u
    <3>2. StartedIn(Put(x, u, status), t) => t # u /\ StartedIn(x, t)
      BY <3>1, PutMarks
    <3>3. QED
      BY <3>1, <3>2 DEF x, u
  <2>4. Fine(k)
    BY <1>5
  <2>5. \A i \in 1 .. k + 1 : i \in 1 .. k \/ i = k + 1
    BY <2>1
  <2>6. Fine(k + 1)
    BY <2>3, <2>4, <2>5
  <2>7. QED
    BY <2>1, <2>6
<1>6. 0 .. n \subseteq U
  <2> HIDE DEF U, n
  <2>1. QED
    BY <1>1, <1>4, <1>5, IntervalInduction
<1>7. n \in U
  BY <1>1, <1>6
<1>8. QED
  BY <1>3, <1>7

In(spool, t) == \E i \in 1 .. Len(spool) : spool[i] = t

\* What is not among the positions that go stays.
LEMMA WithoutLeaves ==
  ASSUME NEW X, NEW s \in Seq(X), NEW gone
  PROVE  \A l \in 1 .. Len(s) :
           l \notin gone => In(Without(s, gone), s[l])
<1> DEFINE n == Len(s)
<1>1. PICK g \in [0 .. n -> Seq(X)] :
        /\ Without(s, gone) = g[n]
        /\ \A k \in 0 .. n : g[k] = IF k = 0 THEN <<>>
                                    ELSE IF k \in gone THEN g[k - 1] ELSE Append(g[k - 1], s[k])
  BY WithoutUnfolds
<1>0. SUFFICES ASSUME NEW l \in 1 .. Len(s), l \notin gone
               PROVE  In(Without(s, gone), s[l])
  OBVIOUS
<1> DEFINE x == s[l]
<1>2. l \in 1 .. n /\ s[l] = x /\ l \notin gone
  BY <1>0
<1> HIDE DEF x
<1> DEFINE Holds(q) == \E i \in 1 .. Len(q) : q[i] = x
           Fine(k) == k >= l => Holds(g[k])
           U == {k \in 0 .. n : Fine(k)}
<1>3. n \in Nat
  OBVIOUS
<1>4. 0 \in U
  BY <1>3
<1>5. ASSUME NEW k \in 0 .. n - 1, k \in U PROVE k + 1 \in U
  <2>1. k \in 0 .. n /\ k + 1 \in 0 .. n /\ k + 1 # 0 /\ (k + 1) - 1 = k /\ k + 1 \in 1 .. n
    BY <1>3
  <2>2. g[k + 1] = IF k + 1 \in gone THEN g[k] ELSE Append(g[k], s[k + 1])
    <3> HIDE DEF n
    <3>1. QED
      BY <1>1, <2>1
  <2>3. g[k] \in Seq(X) /\ s[k + 1] \in X
    BY <2>1
  <2>4. Holds(g[k]) => Holds(Append(g[k], s[k + 1]))
    <3>1. SUFFICES ASSUME NEW i \in 1 .. Len(g[k]), g[k][i] = x PROVE Holds(Append(g[k], s[k + 1]))
      OBVIOUS
    <3>2. i \in 1 .. Len(Append(g[k], s[k + 1])) /\ Append(g[k], s[k + 1])[i] = x
      BY <2>3, <3>1
    <3>3. QED
      BY <3>2
  <2>5. s[k + 1] = x => Holds(Append(g[k], s[k + 1]))
    <3>1. Len(g[k]) + 1 \in 1 .. Len(Append(g[k], s[k + 1])) /\ Append(g[k], s[k + 1])[Len(g[k]) + 1] = s[k + 1]
      BY <2>3
    <3>2. QED
      BY <3>1
  <2> HIDE DEF Holds
  <2>6. k + 1 >= l => k >= l \/ k + 1 = l
    BY <2>1
  <2>7. Fine(k)
    BY <1>5
  <2>8. Fine(k + 1)
    <3> HIDE DEF n
    <3>1. k >= l => Holds(g[k + 1])
      BY <2>2, <2>4, <2>7
    <3>2. k + 1 = l => Holds(g[k + 1])
      BY <1>2, <2>2, <2>5
    <3>3. QED
      BY <2>6, <3>1, <3>2
  <2>9. QED
    BY <2>1, <2>8
<1>6. 0 .. n \subseteq U
  <2> HIDE DEF U, n
  <2>1. QED
    BY <1>3, <1>4, <1>5, IntervalInduction
<1>7. n \in U /\ n >= l
  BY <1>3, <1>6
<1>8. Holds(g[n])
  <2> HIDE DEF Holds, n
  <2>1. QED
    BY <1>7
<1>9. QED
  <2> HIDE DEF n
  <2>1. QED
    BY <1>1, <1>8 DEF x, In

\* ... and nothing is added.
LEMMA WithoutFrom ==
  ASSUME NEW X, NEW s \in Seq(X), NEW gone, NEW i \in 1 .. Len(Without(s, gone))
  PROVE  \E j \in 1 .. Len(s) : s[j] = Without(s, gone)[i]
<1> DEFINE Z == {s[j] : j \in 1 .. Len(s)}
<1>1. s \in Seq(Z)
  OBVIOUS
<1> HIDE DEF Z
<1>2. Without(s, gone) \in Seq(Z)
  BY <1>1, WithoutCounts
<1>3. Without(s, gone)[i] \in Z
  BY <1>2
<1>4. QED
  BY <1>3 DEF Z

LEMMA RunMarks ==
  ASSUME NEW S, NEW d \in Drivers(S)
  PROVE  /\ \A t : StartedIn(Run(d).prog, t) => StartedIn(d.prog, t) \/ \E i \in 1 .. Len(d.spool) : d.spool[i] = t
         /\ \A t : StoppedIn(d.prog, t) /\ ~(\E i \in 1 .. Len(d.spool) : d.spool[i] = t)
                     => StoppedIn(Run(d).prog, t)
<1>1. CASE d.spool = <<>>
  BY <1>1 DEF Run
<1>2. CASE d.spool # <<>>
  <2> DEFINE u == Head(d.spool)
  <2>1. d.prog \in Entries(S) /\ d.spool \in Seq(S)
    BY DEF Drivers
  <2>2. u = d.spool[1] /\ 1 \in 1 .. Len(d.spool)
    BY <1>2, <2>1
  <2> HIDE DEF u
  <2>3. Run(d).prog = Put(d.prog, u, "started")
    BY <1>2 DEF Run, Drivers, u
  <2>4. /\ \A t : StartedIn(Put(d.prog, u, "started"), t) => t = u \/ StartedIn(d.prog, t)
        /\ \A t : t # u /\ StoppedIn(d.prog, t) => StoppedIn(Put(d.prog, u, "started"), t)
    BY <2>1, PutMarks
  <2>5. QED
    BY <2>2, <2>3, <2>4
<1>3. QED
  BY <1>1, <1>2

-----------------------------------------------------------------------------
(***************************************************************************)
(* What the driver tells, and what it does without a word.                 *)
(***************************************************************************)
\* Messages of which one is a feedback, and the others tell nothing.
Reports(x, f) ==
  /\ x \in Seq(Messages(rec, sent))
  /\ \A X \in SUBSET (Tidings \cup Cuts) : Has(x, X) <=> f \in X
  /\ \A X \in SUBSET Tidings : \A Y : f \notin X => Followed(x, X, Y)

LEMMA ReportsAre ==
  ASSUME NEW f \in Messages(rec, sent), f.type = "Feedback"
  PROVE  /\ f \in Tidings /\ Reports(<<f>>, f)
         /\ \A i \in Messages(rec, sent) : i.type = "Init" => Reports(<<i, f>>, f)
<1>1. f \in Tidings
  BY DEF Tidings, Messages
<1>2. Reports(<<f>>, f)
  <2>1. <<f>> \in Seq(Messages(rec, sent))
    OBVIOUS
  <2>2. QED
    BY <2>1, HasOne DEF Reports
<1>3. ASSUME NEW i \in Messages(rec, sent), i.type = "Init" PROVE Reports(<<i, f>>, f)
  <2>1. i \notin Tidings /\ i \notin Cuts
    BY <1>3 DEF Tidings, Cuts
  <2>2. <<i, f>> \in Seq(Messages(rec, sent))
    BY <1>3
  <2>3. \A X \in SUBSET (Tidings \cup Cuts) : Has(<<i, f>>, X) <=> f \in X
    BY <2>1, HasTwo
  <2>4. \A X \in SUBSET Tidings : \A Y : f \notin X => Followed(<<i, f>>, X, Y)
    BY <2>1, HasTwo
  <2>5. QED
    BY <2>2, <2>3, <2>4 DEF Reports
<1>4. QED
  BY <1>1, <1>2, <1>3

\* A step that the driver tells: a task leaves its spool only with its end shown.
LEMMA ToldForetold ==
  ASSUME IInv, Foretold, UNCHANGED <<rec, m>>, NEW f \in Tidings, NEW x, Reports(x, f),
         f.st = drv'.st, f.prog = drv'.prog, mail' = Hear(mail, x), DriverTrue',
         \A t \in Task : InSpool(t) => InSpool(t)' \/ drv'.st # "ready" \/ StoppedIn(drv'.prog, t),
         \A t \in Task : InWire(t) => InWire(t)' \/ InSpool(t)'
  PROVE  Foretold'
<1>1. mail \in Seq(Messages(rec, sent)) /\ x \in Seq(Messages(rec, sent))
  BY SoundNow DEF Reports
<1>2. MachineTrue'
  BY DEF Foretold, MachineTrue, Shown
<1>3. CASE m.conn # "live"
  <2>1. mail' = mail
    BY <1>3 DEF Hear
  <2>2. QED
    BY <1>2, <1>3, <2>1 DEF Foretold, Parting, Shown
<1>4. CASE m.conn = "live"
  <2> DEFINE box == mail \o x
  <2>1. mail' = box
    BY <1>4 DEF Hear
  <2>2. /\ \A X : Has(box, X) <=> Has(mail, X) \/ Has(x, X)
        /\ \A X, Y : Followed(x, X, Y) /\ (Followed(mail, X, Y) \/ Has(x, Y)) => Followed(box, X, Y)
    BY <1>1, JoinedBoxes
  <2> HIDE DEF box
  <2>3. \A Y \in Verdicts : Has(x, Y) <=> f \in Y
    BY DEF Reports, Verdicts
  <2>4. \A X \in SUBSET Tidings : /\ Has(x, X) <=> f \in X
                                  /\ \A Y : f \notin X => Followed(x, X, Y)
    BY DEF Reports
  <2>5. drv'.st # "ready" => f \in Unready /\ f \notin Readies /\ \A t : f \in Ends(t)
    BY DEF Unready, Readies, Ends
  <2>6. \A t \in Task : f \in Starts(t) => InSpool(t)'
    BY DEF Starts, DriverTrue
  <2>7. ~Has(mail', Wrong)
    <3>1. f \notin Wrong
      BY DEF Wrong, DriverTrue, InSpool
    <3>2. QED
      BY <2>1, <2>2, <2>4, <3>1, SignsAre DEF Foretold
  <2>8. Telling
    BY <1>4 DEF Foretold
  <2>9. drv'.st # "ready" => Followed(mail', Readies, Unready) /\ Has(mail', Unready)
    BY <2>1, <2>2, <2>3, <2>4, <2>5, SignsAre
  <2>10. m'.seen /\ ~Shown(m') => Has(mail', Cuts) \/ \A t \in Task : rec'[t] \notin Sending
    BY <2>1, <2>2, <2>8 DEF Telling, Shown
  <2>11. ASSUME NEW t \in Task PROVE InSpool(t) => InSpool(t)' \/ f \in Ends(t)
    BY <2>5, <2>11 DEF Ends
  <2>12. ASSUME NEW t \in Task, ~InSpool(t)' PROVE Followed(mail', Starts(t), Ends(t))
    <3>1. f \notin Starts(t)
      BY <2>6, <2>12
    <3>2. Followed(mail, Starts(t), Ends(t)) \/ Has(x, Ends(t))
      BY <2>3, <2>8, <2>11, <2>12, SignsAre DEF Telling
    <3>3. Followed(x, Starts(t), Ends(t))
      BY <2>4, <3>1, SignsAre
    <3>4. QED
      BY <2>1, <2>2, <3>2, <3>3
  <2>13. ASSUME m'.seen, NEW t \in Task, rec'[t] \in Sending
         PROVE  InSpool(t)' \/ InWire(t)' \/ Has(mail', Ends(t))
    <3>1. InSpool(t) \/ InWire(t) \/ Has(mail, Ends(t))
      BY <2>8, <2>13 DEF Telling
    <3>2. Has(x, Ends(t)) <=> f \in Ends(t)
      BY <2>3, SignsAre
    <3>3. QED
      BY <2>1, <2>2, <2>11, <3>1, <3>2
  <2>14. Telling'
    BY <2>9, <2>10, <2>12, <2>13 DEF Telling
  <2>15. QED
    BY <1>2, <1>4, <2>7, <2>14 DEF Foretold
<1>5. QED
  BY <1>3, <1>4

\* A step that it does not tell: nothing leaves its spool, and what a driver drops
\* that is not ready will be told to be lost.
LEMMA SilentForetold ==
  ASSUME Foretold, UNCHANGED <<rec, m, mail>>, drv'.st = drv.st, DriverTrue',
         \A t \in Task : InSpool(t) => InSpool(t)',
         \A t \in Task : InWire(t) => InWire(t)' \/ InSpool(t)' \/ drv.st # "ready"
  PROVE  Foretold'
<1>1. MachineTrue' /\ ~Has(mail', Wrong)
  BY DEF Foretold, MachineTrue, Shown
<1>2. ASSUME m'.conn # "live" PROVE Parting'
  BY <1>2 DEF Foretold, Parting, Shown
<1>3. ASSUME m'.conn = "live" PROVE Telling'
  <2>1. Telling
    BY <1>3 DEF Foretold
  <2>2. drv'.st # "ready" => Followed(mail', Readies, Unready) /\ (Shown(m') => Has(mail', Unready))
    BY <2>1 DEF Telling
  <2>3. m'.seen /\ ~Shown(m') => Has(mail', Cuts) \/ \A t \in Task : rec'[t] \notin Sending
    BY <2>1 DEF Telling
  <2>4. \A t \in Task : InSpool(t)' \/ Followed(mail', Starts(t), Ends(t))
    BY <2>1 DEF Telling
  <2>5. ASSUME m'.seen, NEW t \in Task, rec'[t] \in Sending
        PROVE  InSpool(t)' \/ InWire(t)' \/ Has(mail', Ends(t))
    <3>1. InSpool(t) \/ InWire(t) \/ Has(mail, Ends(t))
      BY <2>1, <2>5 DEF Telling
    <3>2. \A box : Has(box, Cuts) \/ Has(box, Unready) => Has(box, Ends(t))
      BY DEF Has, Ends, Unready
    <3>3. drv.st # "ready" => Has(mail, Ends(t))
      BY <2>1, <2>5, <3>2 DEF Telling
    <3>4. QED
      BY <3>1, <3>3
  <2>6. QED
    BY <2>2, <2>3, <2>4, <2>5 DEF Telling, Shown
<1>4. QED
  BY <1>1, <1>2, <1>3 DEF Foretold

\* What a message that is taken from the socket can have been.
LEMMA WireTaken ==
  ASSUME IInv, wire # <<>>, wire' = Tail(wire)
  PROVE  \A t \in Task : InWire(t) => InWire(t)' \/ (Head(wire).type = "SpoolTask" /\ Head(wire).task = t)
<1> DEFINE x == Tail(wire)
<1>1. wire \in Seq(Wires(sent))
  BY DEF IInv, TypeOK
<1>2. /\ Len(wire) \in Nat \ {0} /\ Len(x) = Len(wire) - 1 /\ Head(wire) = wire[1]
      /\ \A i \in 1 .. Len(x) : x[i] = wire[i + 1]
  BY <1>1, HeadTailProperties
<1>3. wire' = x
  OBVIOUS
<1> HIDE DEF x
<1>4. ASSUME NEW i \in 1 .. Len(wire), i # 1 PROVE i - 1 \in 1 .. Len(x) /\ x[i - 1] = wire[i]
  <2>1. i - 1 \in 1 .. Len(x) /\ (i - 1) + 1 = i
    BY <1>2, <1>4
  <2>2. QED
    BY <1>2, <2>1
<1>5. ASSUME NEW t \in Task, NEW i \in 1 .. Len(wire), wire[i].type = "SpoolTask", wire[i].task = t
      PROVE  InWire(t)' \/ (Head(wire).type = "SpoolTask" /\ Head(wire).task = t)
  <2>1. CASE i = 1
    BY <1>2, <1>5, <2>1
  <2>2. CASE i # 1
    <3>1. i - 1 \in 1 .. Len(wire') /\ wire'[i - 1] = wire[i]
      BY <1>3, <1>4, <1>5, <2>2
    <3>2. QED
      BY <1>5, <3>1 DEF InWire
  <2>3. QED
    BY <2>1, <2>2
<1>6. QED
  BY <1>5 DEF InWire

\* What the driver takes, in short.
LEMMA TakenForetold ==
  ASSUME IInv, NEW type, DriverReceives(type), DriverKeeps
  PROVE  /\ wire # <<>> /\ wire' = Tail(wire) /\ Head(wire).type = type /\ UNCHANGED <<rec, m, sent>>
         /\ drv \in Drivers(sent) /\ drv.spool \in Seq(sent) /\ drv.prog \in Entries(sent)
         /\ Head(wire) \in Wires(sent) /\ TypeOK /\ sent \in SUBSET Task
         /\ type # "SpoolTask" => \A t \in Task : InWire(t) => InWire(t)'
<1>1. wire # <<>> /\ wire' = Tail(wire) /\ Head(wire).type = type
  BY DEF DriverReceives
<1>2. \A t \in Task : InWire(t) => InWire(t)' \/ (Head(wire).type = "SpoolTask" /\ Head(wire).task = t)
  BY <1>1, WireTaken
<1>3. QED
  BY <1>1, <1>2, DriverTakes DEF IInv, TypeOK

LEMMA TellsFeedback ==
  ASSUME IInv, NEW d \in Drivers(sent), NEW flag \in Maybe(Prints \cap sent), NEW b \in Blocking
  PROVE  /\ Feedback(d, flag, b) \in Messages(rec, sent) /\ Feedback(d, flag, b).type = "Feedback"
         /\ Feedback(d, flag, b).st = d.st /\ Feedback(d, flag, b).prog = d.prog
<1>1. b \in BOOLEAN /\ sent \subseteq Task /\ NoTask \notin Prints
  BY TasksAssumption DEF IInv, TypeOK, Task
<1>2. QED
  BY <1>1, FeedbackCounts DEF Feedback

LEMMA TellForetold ==
  ASSUME IInv, Foretold, UNCHANGED <<rec, m>>, NEW d \in Drivers(sent),
         NEW flag \in Maybe(Prints \cap sent), Tell(d, flag), DriverTrue',
         \A t \in Task : InSpool(t) => InSpool(t)' \/ d.st # "ready" \/ StoppedIn(d.prog, t),
         \A t \in Task : InWire(t) => InWire(t)' \/ InSpool(t)'
  PROVE  Foretold'
<1>1. PICK b \in Blocking : mail' = Hear(mail, <<Feedback(d, flag, b)>>)
  BY DEF Tell
<1>2. drv' = d
  BY DEF Tell
<1> DEFINE f == Feedback(d, flag, b)
           x == <<f>>
<1>3. f \in Messages(rec, sent) /\ f.type = "Feedback" /\ f.st = d.st /\ f.prog = d.prog
  BY TellsFeedback
<1> HIDE DEF f
<1>4. f \in Tidings /\ Reports(x, f)
  BY <1>3, ReportsAre
<1> HIDE DEF x
<1>5. mail' = Hear(mail, x)
  BY <1>1 DEF x, f
<1>6. QED
  BY <1>2, <1>3, <1>4, <1>5, ToldForetold

-----------------------------------------------------------------------------
(***************************************************************************)
(* The steps of the driver.                                                *)
(***************************************************************************)
\* The driver runs the first task of a spool, and tells it.
LEMMA RunForetold ==
  ASSUME IInv, Foretold, UNCHANGED <<rec, m>>, NEW d \in Drivers(sent),
         NEW flag \in Maybe(Prints \cap sent), Tell(Run(d), flag), d.st = "ready",
         \A t \in Task : StartedIn(d.prog, t) => In(d.spool, t),
         \A t \in Task : InSpool(t) => In(d.spool, t) \/ StoppedIn(d.prog, t),
         \A t \in Task : InWire(t) => InWire(t)' \/ In(d.spool, t)
  PROVE  Foretold'
<1>1. drv' = Run(d)
  BY DEF Tell
<1>2. Run(d) \in Drivers(sent) /\ Run(d).st = d.st /\ Run(d).spool = d.spool
  BY RunType, RunIs
<1>3. /\ \A t : StartedIn(Run(d).prog, t) => StartedIn(d.prog, t) \/ In(d.spool, t)
      /\ \A t : StoppedIn(d.prog, t) /\ ~In(d.spool, t) => StoppedIn(Run(d).prog, t)
  BY RunMarks DEF In
<1>4. \A t : InSpool(t)' <=> In(d.spool, t)
  BY <1>1, <1>2 DEF InSpool, In
<1>5. DriverTrue'
  BY <1>1, <1>2, <1>3, <1>4 DEF DriverTrue
<1>6. \A t \in Task : InSpool(t) => InSpool(t)' \/ Run(d).st # "ready" \/ StoppedIn(Run(d).prog, t)
  BY <1>3, <1>4
<1>7. QED
  BY <1>2, <1>4, <1>5, <1>6, TellForetold

LEMMA DriverHelloForetold ==
  ASSUME IInv, Foretold, DriverHello
  PROVE  Foretold'
<1>1. DriverReceives("Hello") /\ DriverKeeps /\ drv' = drv
  BY DEF DriverHello
<1>2. UNCHANGED <<rec, m>> /\ drv \in Drivers(sent) /\ \A t \in Task : InWire(t) => InWire(t)'
  BY <1>1, TakenForetold
<1>3. PICK b \in Blocking :
        mail' = Hear(mail, <<[type |-> "Init", old |-> drv.old], Feedback(drv, NoTask, b)>>)
  BY DEF DriverHello
<1> DEFINE i == [type |-> "Init", old |-> drv.old]
           f == Feedback(drv, NoTask, b)
           x == <<i, f>>
<1>4. f \in Messages(rec, sent) /\ f.type = "Feedback" /\ f.st = drv.st /\ f.prog = drv.prog
  BY <1>2, FlagsNone, TellsFeedback
<1>5. i \in Messages(rec, sent) /\ i.type = "Init"
  <2>1. drv.old \in BOOLEAN
    BY <1>2 DEF Drivers
  <2>2. QED
    BY <2>1, NeutralOnes
<1> HIDE DEF i, f
<1>6. f \in Tidings /\ Reports(x, f)
  BY <1>4, <1>5, ReportsAre
<1> HIDE DEF x
<1>7. mail' = Hear(mail, x)
  BY <1>3 DEF x, i, f
<1>8. DriverTrue' /\ \A t \in Task : InSpool(t) => InSpool(t)'
  BY <1>1 DEF Foretold, DriverTrue, InSpool
<1>9. QED
  BY <1>1, <1>2, <1>4, <1>6, <1>7, <1>8, ToldForetold

LEMMA DriverSpoolForetold ==
  ASSUME IInv, Foretold, DriverSpool
  PROVE  Foretold'
<1> DEFINE e == Head(wire)
           t == e.task
<1>1. DriverReceives("SpoolTask") /\ DriverKeeps
  BY DEF DriverSpool
<1>2. /\ UNCHANGED <<rec, m>> /\ drv \in Drivers(sent) /\ drv.spool \in Seq(sent)
      /\ e \in Wires(sent) /\ e.type = "SpoolTask" /\ wire # <<>> /\ wire' = Tail(wire)
      /\ sent \in SUBSET Task
  BY <1>1, TakenForetold
<1>3. t \in sent
  BY <1>2 DEF Wires
<1>4. \A u \in Task : InWire(u) => InWire(u)' \/ u = t
  BY <1>2, WireTaken
<1> HIDE DEF e
<1>5. CASE drv.st # "ready" /\ UNCHANGED <<drv, mail>>
  <2>1. DriverTrue' /\ \A u \in Task : InSpool(u) => InSpool(u)'
    BY <1>5 DEF Foretold, DriverTrue, InSpool
  <2>2. QED
    BY <1>2, <1>5, <2>1, SilentForetold
<1>6. CASE drv.st = "ready" /\ Tell(Run([drv EXCEPT !.spool = <<t>> \o @]), NoTask)
  <2> DEFINE x == <<t>>
             spool == x \o drv.spool
             d == [drv EXCEPT !.spool = spool]
  <2>1. x \in Seq(sent) /\ Len(x) = 1 /\ x[1] = t
    BY <1>3
  <2> HIDE DEF x
  <2>2. /\ spool \in Seq(sent) /\ \A u : In(drv.spool, u) \/ u = t => In(spool, u)
    <3> DEFINE y == drv.spool
    <3>1. y \in Seq(sent)
      BY <1>2
    <3> HIDE DEF y
    <3>2. /\ x \o y \in Seq(sent) /\ Len(x \o y) = Len(x) + Len(y)
          /\ \A i \in 1 .. Len(x) : (x \o y)[i] = x[i]
          /\ \A i \in 1 .. Len(y) : (x \o y)[Len(x) + i] = y[i]
      BY <2>1, <3>1, ConcatProperties
    <3> DEFINE q == x \o y
    <3>3. Len(q) = 1 + Len(y) /\ q[1] = t /\ \A i \in 1 .. Len(y) : q[1 + i] = y[i]
      BY <2>1, <3>2
    <3> HIDE DEF q
    <3>4. Len(y) \in Nat
      BY <3>1
    <3>5. 1 \in 1 .. Len(q) /\ \A i \in 1 .. Len(y) : 1 + i \in 1 .. Len(q)
      BY <3>3, <3>4
    <3>6. \A u : In(y, u) \/ u = t => In(q, u)
      BY <3>3, <3>5 DEF In
    <3>7. QED
      BY <3>2, <3>6 DEF y, q
  <2>3. Tell(Run(d), NoTask)
    BY <1>6 DEF x
  <2> HIDE DEF spool
  <2>4. d \in Drivers(sent) /\ d.spool = spool /\ d.st = "ready" /\ d.prog = drv.prog
    BY <1>2, <1>6, <2>2 DEF Drivers
  <2> HIDE DEF d
  <2>5. \A u \in Task : StartedIn(d.prog, u) => In(d.spool, u)
    BY <2>2, <2>4 DEF Foretold, DriverTrue, InSpool, In
  <2>6. \A u \in Task : InSpool(u) => In(d.spool, u)
    BY <2>2, <2>4 DEF InSpool, In
  <2>7. \A u \in Task : InWire(u) => InWire(u)' \/ In(d.spool, u)
    BY <1>4, <2>2, <2>4
  <2>8. QED
    BY <1>2, <2>3, <2>4, <2>5, <2>6, <2>7, FlagsNone, RunForetold
<1>7. CASE drv.st = "ready" /\ drv' = [drv EXCEPT !.spool = Append(@, t)] /\ UNCHANGED mail
  <2> DEFINE spool == Append(drv.spool, t)
  <2>1. \A u : In(drv.spool, u) \/ u = t => In(spool, u)
    <3> DEFINE y == drv.spool
    <3>1. y \in Seq(sent)
      BY <1>2
    <3> HIDE DEF y, t
    <3>2. /\ \A j \in 1 .. Len(y) : j \in 1 .. Len(Append(y, t)) /\ Append(y, t)[j] = y[j]
          /\ Len(y) + 1 \in 1 .. Len(Append(y, t)) /\ Append(y, t)[Len(y) + 1] = t
      BY <1>3, <3>1
    <3>3. \A u : In(y, u) \/ u = t => In(Append(y, t), u)
      BY <3>2 DEF In
    <3>4. QED
      BY <3>3 DEF y
  <2> HIDE DEF spool
  <2>2. drv'.spool = spool /\ drv'.st = drv.st /\ drv'.prog = drv.prog
    BY <1>2, <1>7 DEF Drivers, spool
  <2>3. \A u : InSpool(u) \/ u = t => InSpool(u)'
    BY <2>1, <2>2 DEF InSpool, In
  <2>4. DriverTrue'
    BY <1>7, <2>2, <2>3 DEF Foretold, DriverTrue
  <2>5. QED
    BY <1>2, <1>4, <1>7, <2>2, <2>3, <2>4, SilentForetold
<1>8. QED
  BY <1>5, <1>6, <1>7 DEF DriverSpool, e

LEMMA DriverPauseForetold ==
  ASSUME IInv, Foretold, DriverPause
  PROVE  Foretold'
<1> DEFINE t == Head(wire).task
<1>1. DriverReceives("Pause") /\ DriverKeeps
  BY DEF DriverPause
<1>2. /\ UNCHANGED <<rec, m>> /\ drv \in Drivers(sent) /\ drv.spool \in Seq(sent)
      /\ drv.prog \in Entries(sent) /\ Head(wire) \in Wires(sent) /\ Head(wire).type = "Pause"
      /\ \A u \in Task : InWire(u) => InWire(u)'
  BY <1>1, TakenForetold
<1>3. t \in Prints /\ t \in Task
  BY <1>2 DEF Wires, Wireable, Task
<1>4. CASE ~\E i \in 1 .. Len(drv.spool) : drv.spool[i] = t
  <2>1. UNCHANGED <<drv, mail>>
    BY <1>4 DEF DriverPause
  <2>2. DriverTrue' /\ \A u \in Task : InSpool(u) => InSpool(u)'
    BY <2>1 DEF Foretold, DriverTrue, InSpool
  <2>3. QED
    BY <1>2, <2>1, <2>2, SilentForetold
<1>5. CASE \E i \in 1 .. Len(drv.spool) : drv.spool[i] = t
  <2> DEFINE old == drv.spool
             gone == {i \in DOMAIN old : old[i] = t}
             spool == Without(old, gone)
             prog == Put(drv.prog, t, "paused")
             d == [drv EXCEPT !.spool = spool, !.prog = prog]
  <2>1. t \in sent
    BY <1>2, <1>5
  <2>2. Tell(Run(d), t)
    BY <1>5 DEF DriverPause
  <2> HIDE DEF t
  <2>3. old \in Seq(sent) /\ gone = {i \in 1 .. Len(old) : old[i] = t}
    BY <1>2
  <2> HIDE DEF old, gone
  <2>4. spool \in Seq(sent) /\ ~In(spool, t)
    <3>1. spool \in Seq(sent) /\ CountOf(spool, {t}) = 0
      BY <2>3, WithoutCounts
    <3> HIDE DEF spool
    <3>2. QED
      BY <3>1, CountSome DEF In
  <2>5. \A u : In(old, u) => In(spool, u) \/ u = t
    <3>1. SUFFICES ASSUME NEW u, u # t, NEW i \in 1 .. Len(old), old[i] = u PROVE In(spool, u)
      BY DEF In
    <3>2. i \notin gone
      BY <2>3, <3>1
    <3>3. In(spool, old[i])
      BY <2>3, <3>1, <3>2, WithoutLeaves
    <3>4. QED
      BY <3>1, <3>3
  <2>6. /\ prog \in Entries(sent) /\ StoppedIn(prog, t)
        /\ \A u : StartedIn(prog, u) => u # t /\ StartedIn(drv.prog, u)
    <3>1. "paused" \in Progress /\ "paused" # "started"
      BY DEF Progress
    <3>2. QED
      BY <1>2, <2>1, <3>1, PutType, PutMarks
  <2> HIDE DEF spool, prog
  <2>7. d \in Drivers(sent) /\ d.spool = spool /\ d.st = drv.st /\ d.prog = prog
    BY <1>2, <2>4, <2>6 DEF Drivers
  <2> HIDE DEF d
  <2>8. \A u : InSpool(u) <=> In(old, u)
    BY DEF InSpool, In, old
  <2>9. d.st = "ready"
    <3>1. drv.spool # <<>>
      BY <1>2, <1>5
    <3>2. QED
      BY <2>7, <3>1 DEF Foretold, DriverTrue
  <2>10. \A u \in Task : StartedIn(d.prog, u) => In(d.spool, u)
    BY <2>5, <2>6, <2>7, <2>8 DEF Foretold, DriverTrue
  <2>11. \A u \in Task : InSpool(u) => In(d.spool, u) \/ StoppedIn(d.prog, u)
    BY <2>5, <2>6, <2>7, <2>8
  <2>12. t \in Maybe(Prints \cap sent)
    BY <1>3, <2>1 DEF Maybe, t
  <2>13. QED
    BY <1>2, <2>2, <2>7, <2>9, <2>10, <2>11, <2>12, RunForetold
<1>6. QED
  BY <1>4, <1>5

LEMMA DriverDeleteForetold ==
  ASSUME IInv, Foretold, DriverDelete
  PROVE  Foretold'
<1> DEFINE old == drv.prog
           gone == {i \in DOMAIN old : old[i].task = Head(wire).task}
           prog == Without(old, gone)
<1>1. DriverReceives("DeleteTaskHistory") /\ DriverKeeps
  BY DEF DriverDelete
<1>2. /\ UNCHANGED <<rec, m, mail>> /\ drv \in Drivers(sent) /\ drv.prog \in Entries(sent)
      /\ drv' = [drv EXCEPT !.prog = prog]
      /\ \A u \in Task : InWire(u) => InWire(u)'
  BY <1>1, TakenForetold DEF DriverDelete
<1>3. old \in Seq([task : sent, status : Progress])
  BY <1>2 DEF Entries
<1> HIDE DEF old, gone
<1>4. \A i \in 1 .. Len(prog) : \E j \in 1 .. Len(old) : old[j] = prog[i]
  BY <1>3, WithoutFrom
<1> HIDE DEF prog
<1>5. \A u : StartedIn(prog, u) => StartedIn(drv.prog, u)
  BY <1>4 DEF StartedIn, old
<1>6. drv'.spool = drv.spool /\ drv'.st = drv.st /\ drv'.prog = prog
  BY <1>2 DEF Drivers
<1>7. DriverTrue' /\ \A u \in Task : InSpool(u) => InSpool(u)'
  BY <1>5, <1>6 DEF Foretold, DriverTrue, InSpool
<1>8. QED
  BY <1>2, <1>6, <1>7, SilentForetold

\* The spool is lost, and no task shown as started any more.
LEMMA LoseForetold ==
  ASSUME IInv, Foretold, UNCHANGED <<rec, m>>, NEW st \in DriverSt, st # "ready",
         NEW status \in Progress, status # "started", Tell(Lose(drv, st, status), NoTask),
         \A t \in Task : InWire(t) => InWire(t)'
  PROVE  Foretold'
<1> DEFINE prog == PutAll(drv.prog, drv.spool, status)[Len(drv.spool)]
           d == Lose(drv, st, status)
<1>1. /\ drv \in Drivers(sent) /\ drv.spool \in Seq(sent) /\ drv.prog \in Entries(sent)
      /\ sent \in SUBSET Task
  BY DEF IInv, TypeOK, Drivers
<1>2. d = [drv EXCEPT !.st = st, !.spool = <<>>, !.prog = prog]
  BY DEF Lose
<1>3. d \in Drivers(sent)
  BY <1>1, LoseType
<1>4. \A t \in Task : ~StartedIn(prog, t)
  <2>1. SUFFICES ASSUME NEW t \in Task, StartedIn(prog, t) PROVE FALSE
    OBVIOUS
  <2>2. StartedIn(drv.prog, t) /\ \A i \in 1 .. Len(drv.spool) : drv.spool[i] # t
    BY <1>1, <2>1, PutAllMarks
  <2>3. QED
    BY <2>2 DEF Foretold, DriverTrue, InSpool
<1> HIDE DEF prog
<1>5. d.st = st /\ d.spool = <<>> /\ d.prog = prog
  BY <1>1, <1>2 DEF Drivers
<1>6. drv' = d
  BY DEF Tell
<1> HIDE DEF d
<1>7. DriverTrue'
  BY <1>4, <1>5, <1>6 DEF DriverTrue
<1>8. Tell(d, NoTask)
  BY DEF d
<1>9. QED
  BY <1>3, <1>5, <1>7, <1>8, FlagsNone, TellForetold

LEMMA DriverEstopForetold ==
  ASSUME IInv, Foretold, DriverEstop
  PROVE  Foretold'
<1>1. DriverReceives("Estop") /\ DriverKeeps /\ Tell(Lose(drv, "estopped", "cancelled"), NoTask)
  BY DEF DriverEstop
<1>2. UNCHANGED <<rec, m>> /\ \A u \in Task : InWire(u) => InWire(u)'
  BY <1>1, TakenForetold
<1>3. "estopped" \in DriverSt /\ "cancelled" \in Progress
  BY DEF DriverSt, Progress
<1>4. QED
  BY <1>1, <1>2, <1>3, LoseForetold

LEMMA DriverFailsForetold ==
  ASSUME IInv, Foretold, NEW st \in {"disconnected", "errored"}, DriverFails(st)
  PROVE  Foretold'
<1>1. Tell(Lose(drv, st, "errored"), NoTask) /\ UNCHANGED <<rec, m, wire>>
  BY DEF DriverFails, database
<1>2. \A u \in Task : InWire(u) => InWire(u)'
  BY <1>1 DEF InWire
<1>3. st \in DriverSt /\ st # "ready" /\ "errored" \in Progress
  BY DEF DriverSt, Progress
<1>4. QED
  BY <1>1, <1>2, <1>3, LoseForetold

LEMMA DriverConnectsForetold ==
  ASSUME IInv, Foretold, DriverConnects
  PROVE  Foretold'
<1> DEFINE st == IF drv.st = "disconnected" THEN "connecting" ELSE "ready"
           d == [drv EXCEPT !.st = st]
<1>1. /\ wire' = wire /\ drv.st \in {"disconnected", "connecting"} /\ Tell(d, NoTask)
      /\ UNCHANGED <<rec, m>>
  BY DEF DriverConnects, DriverKeeps, database
<1>2. drv \in Drivers(sent) /\ drv.spool = <<>>
  BY <1>1 DEF IInv, TypeOK, Foretold, DriverTrue
<1>3. st \in {"connecting", "ready"}
  OBVIOUS
<1> HIDE DEF st
<1>4. d \in Drivers(sent) /\ d.spool = drv.spool /\ d.prog = drv.prog
  BY <1>2, <1>3 DEF Drivers, DriverSt
<1> HIDE DEF d
<1>5. drv' = d
  BY <1>1 DEF Tell
<1>6. DriverTrue' /\ \A u \in Task : InSpool(u) => InSpool(u)'
  BY <1>2, <1>4, <1>5 DEF Foretold, DriverTrue, InSpool
<1>7. \A u \in Task : InWire(u) => InWire(u)'
  BY <1>1 DEF InWire
<1>8. QED
  BY <1>1, <1>4, <1>6, <1>7, FlagsNone, TellForetold

-----------------------------------------------------------------------------
(***************************************************************************)
(* The end of the driver, and the machine's connections.                   *)
(***************************************************************************)
LEMMA FollowedIsGuarded == \A box : Followed(box, Tidings, Cuts) => Guarded(box)
BY DEF Followed, Guarded

\* The end of the driver's process, behind all feedbacks.
LEMMA ExitForetold ==
  ASSUME IInv, Foretold, rec' = rec, Exit, m' = Dead,
         NEW box \in Seq(Messages(rec, sent)), Continues(mail, box),
         NEW x \in Seq(Messages(rec, sent)), mail' = Hear(box, x),
         Followed(x, Tidings, Cuts), Has(x, Cuts), ~Has(x, Wrong)
  PROVE  Foretold'
<1>1. DriverTrue'
  BY DEF Exit, NewDriver, DriverTrue, StartedIn
<1>2. m \in Machines(sent) /\ MachineTrue
  BY DEF IInv, TypeOK, Foretold
<1>3. /\ m'.conn # "live" /\ MachineTrue' /\ m'.data = m.data /\ m'.seen = m.seen
      /\ Shown(m') <=> Shown(m)
  BY <1>2 DEF Dead, Machines, MachineTrue, Shown
<1>4. ~Has(box, Wrong)
  BY SignsAre DEF Foretold, Continues
<1>5. CASE m.conn = "live"
  <2>1. mail' = box \o x
    BY <1>5 DEF Hear
  <2>2. ~Has(mail', Wrong) /\ Followed(mail', Tidings, Cuts) /\ Has(mail', Cuts)
    BY <1>4, <2>1, JoinedBoxes
  <2>3. Parting'
    BY <2>2, FollowedIsGuarded DEF Parting
  <2>4. QED
    BY <1>1, <1>3, <2>2, <2>3 DEF Foretold
<1>6. CASE m.conn # "live"
  <2>1. mail' = box
    BY <1>6 DEF Hear
  <2>2. Parting
    BY <1>6 DEF Foretold
  <2>3. Parting'
    BY <1>3, <2>1, <2>2, SignsAre DEF Parting, Continues
  <2>4. QED
    BY <1>1, <1>3, <1>4, <2>1, <2>3 DEF Foretold
<1>7. QED
  BY <1>5, <1>6

LEMMA ClosesAll ==
  /\ <<Msg("Closed")>> \in Seq(Messages(rec, sent)) /\ Followed(<<Msg("Closed")>>, Tidings, Cuts)
  /\ Has(<<Msg("Closed")>>, Cuts) /\ ~Has(<<Msg("Closed")>>, Wrong)
<1> DEFINE c == Msg("Closed")
<1>1. c \in Messages(rec, sent) /\ c \in Cuts /\ c \notin Tidings
  BY NeutralOnes, NoTidings
<1> HIDE DEF c
<1>2. /\ <<c>> \in Seq(Messages(rec, sent)) /\ Followed(<<c>>, Tidings, Cuts)
      /\ Has(<<c>>, Cuts) /\ ~Has(<<c>>, Wrong)
  BY <1>1, HasOne DEF Wrong
<1>3. QED
  BY <1>2 DEF c

LEMMA DriverCrashForetold ==
  ASSUME IInv, Foretold, DriverCrash
  PROVE  Foretold'
<1>1. rec' = rec /\ Exit /\ m' = Dead /\ mail' = Hear(mail, <<Msg("Closed")>>)
  BY DEF DriverCrash, Closes, database
<1>2. mail \in Seq(Messages(rec, sent)) /\ Continues(mail, mail)
  BY SoundNow, ContinuesBeyond
<1>3. QED
  BY <1>1, <1>2, ClosesAll, ExitForetold

LEMMA DriverResetWhenIdleForetold ==
  ASSUME IInv, Foretold, DriverResetWhenIdle
  PROVE  Foretold'
<1>1. wire # <<>> /\ Head(wire).type = "ResetWhenIdle" /\ rec' = rec
  BY DEF DriverResetWhenIdle, database
<1>2. CASE Exit /\ m' = Dead /\ mail' = Closes(mail)
  <2>1. mail \in Seq(Messages(rec, sent)) /\ Continues(mail, mail)
    BY SoundNow, ContinuesBeyond
  <2>2. QED
    BY <1>1, <1>2, <2>1, ClosesAll, ExitForetold DEF Closes
<1>3. CASE drv' = [drv EXCEPT !.idle = TRUE] /\ wire' = Tail(wire) /\ UNCHANGED <<m, mail>>
  <2>1. drv \in Drivers(sent)
    BY DEF IInv, TypeOK
  <2>2. drv'.st = drv.st /\ drv'.spool = drv.spool /\ drv'.prog = drv.prog
    BY <1>3, <2>1 DEF Drivers
  <2>3. DriverTrue' /\ \A t \in Task : InSpool(t) => InSpool(t)'
    BY <2>2 DEF Foretold, DriverTrue, InSpool
  <2>4. \A t \in Task : InWire(t) => InWire(t)'
    BY <1>1, <1>3, WireTaken
  <2>5. QED
    BY <1>1, <1>3, <2>2, <2>3, <2>4, SilentForetold
<1>4. QED
  BY <1>2, <1>3 DEF DriverResetWhenIdle

LEMMA DriverFinishForetold ==
  ASSUME IInv, Foretold, DriverFinish
  PROVE  Foretold'
<1> DEFINE old == drv.spool
           t == Head(old)
           rest == Tail(old)
           prog == Put(drv.prog, t, "finished")
           c == [drv EXCEPT !.spool = rest, !.prog = prog]
           d == Run(c)
<1>1. drv.up /\ old # <<>> /\ rec' = rec
  BY DEF DriverFinish, database
<1>2. /\ drv \in Drivers(sent) /\ drv.st = "ready" /\ old \in Seq(sent) /\ drv.prog \in Entries(sent)
  BY <1>1 DEF IInv, TypeOK, Drivers, Foretold, DriverTrue
<1>3. \/ /\ Exit /\ m' = Dead
         /\ \E b \in Blocking : mail' = Hear(mail, <<Feedback(d, NoTask, b), Msg("Closed")>>)
      \/ Tell(d, NoTask) /\ UNCHANGED <<m, wire>>
  BY DEF DriverFinish
<1>4. \A u : InSpool(u) <=> In(old, u)
  BY DEF InSpool, In
<1> HIDE DEF old
<1>5. t \in sent /\ rest \in Seq(sent) /\ \A u : In(old, u) => In(rest, u) \/ u = t
  <2>1. /\ t \in sent /\ rest \in Seq(sent) /\ Len(old) \in Nat \ {0} /\ Len(rest) = Len(old) - 1
        /\ t = old[1] /\ \A i \in 1 .. Len(rest) : rest[i] = old[i + 1]
    BY <1>1, <1>2, HeadTailProperties
  <2> HIDE DEF rest
  <2>2. ASSUME NEW i \in 1 .. Len(old), i # 1 PROVE i - 1 \in 1 .. Len(rest) /\ rest[i - 1] = old[i]
    <3>1. i - 1 \in 1 .. Len(rest) /\ (i - 1) + 1 = i
      BY <2>1, <2>2
    <3>2. QED
      BY <2>1, <3>1
  <2>3. QED
    BY <2>1, <2>2 DEF In
<1> HIDE DEF t, rest
<1>6. /\ prog \in Entries(sent) /\ StoppedIn(prog, t)
      /\ \A u : StartedIn(prog, u) => u # t /\ StartedIn(drv.prog, u)
  <2>1. "finished" \in Progress /\ "finished" # "started"
    BY DEF Progress
  <2>2. QED
    BY <1>2, <1>5, <2>1, PutType, PutMarks
<1> HIDE DEF prog
<1>7. c \in Drivers(sent) /\ c.spool = rest /\ c.st = "ready" /\ c.prog = prog
  BY <1>2, <1>5, <1>6 DEF Drivers
<1> HIDE DEF c
<1>8. CASE Tell(d, NoTask) /\ UNCHANGED <<m, wire>>
  <2>1. \A u \in Task : StartedIn(c.prog, u) => In(c.spool, u)
    BY <1>4, <1>5, <1>6, <1>7 DEF Foretold, DriverTrue
  <2>2. \A u \in Task : InSpool(u) => In(c.spool, u) \/ StoppedIn(c.prog, u)
    BY <1>4, <1>5, <1>6, <1>7
  <2>3. \A u \in Task : InWire(u) => InWire(u)'
    BY <1>8 DEF InWire
  <2>4. QED
    BY <1>1, <1>7, <1>8, <2>1, <2>2, <2>3, FlagsNone, RunForetold
<1>9. ASSUME Exit, m' = Dead, NEW b \in Blocking,
             mail' = Hear(mail, <<Feedback(d, NoTask, b), Msg("Closed")>>)
      PROVE  Foretold'
  <2>1. d \in Drivers(sent) /\ d.st = "ready"
    BY <1>7, RunType, RunIs
  <2> HIDE DEF d
  <2> DEFINE f == Feedback(d, NoTask, b)
             e == Msg("Closed")
             x == <<f, e>>
  <2>2. f \in Messages(rec, sent) /\ f.type = "Feedback" /\ f.st = "ready"
    BY <2>1, FlagsNone, TellsFeedback
  <2>3. e \in Messages(rec, sent) /\ e \in Cuts /\ e \notin Tidings
    BY NeutralOnes, NoTidings
  <2> HIDE DEF f, e
  <2>4. f \notin Wrong /\ e \notin Wrong
    BY <2>2, <2>3 DEF Wrong
  <2>5. x \in Seq(Messages(rec, sent)) /\ Followed(x, Tidings, Cuts) /\ Has(x, Cuts) /\ ~Has(x, Wrong)
    BY <2>2, <2>3, <2>4, HasTwo
  <2> HIDE DEF x
  <2>6. mail' = Hear(mail, x)
    BY <1>9 DEF x, f, e
  <2>7. mail \in Seq(Messages(rec, sent)) /\ Continues(mail, mail)
    BY SoundNow, ContinuesBeyond
  <2>8. QED
    BY <1>1, <1>9, <2>5, <2>6, <2>7, ExitForetold
<1>10. QED
  BY <1>3, <1>8, <1>9

LEMMA HandleResetMachineForetold ==
  ASSUME IInv, Foretold, HandleResetMachine
  PROVE  Foretold'
<1>1. mail # <<>> /\ Head(mail).type = "ResetMachine" /\ rec' = rec
  BY DEF HandleResetMachine, Receives, database
<1>2. CASE drv.up /\ Exit /\ m' = Dead /\ mail' = Closes(Tail(mail))
  <2>1. Continues(mail, Tail(mail)) /\ Tail(mail) \in Seq(Messages(rec, sent))
    BY <1>1, ContinuesNext
  <2>2. QED
    BY <1>1, <1>2, <2>1, ClosesAll, ExitForetold DEF Closes
<1>3. CASE StopActor(Tail(mail)) /\ UNCHANGED <<m, wire, drv>>
  BY <1>1, <1>3, HandsOnForetold DEF StopActor
<1>4. QED
  BY <1>2, <1>3 DEF HandleResetMachine

\* What an attempt to connect and the end of a stream find behind them, while there
\* is no stream.
LEMMA PartingRest ==
  ASSUME IInv, Foretold, m.conn # "live", mail # <<>>, Head(mail).type \in {"Connect", "Closed"}
  PROVE  /\ Followed(Tail(mail), Tidings, Cuts) /\ ~Has(Tail(mail), Wrong)
         /\ Head(mail).type = "Connect" /\ (m.seen \/ Shown(m)) => Has(Tail(mail), Cuts)
<1>1. mail \in Seq(Messages(rec, sent)) /\ Head(mail) \in Mailable
  BY SoundNow, ReceivesHead
<1>2. Head(mail) \in Opens
  BY <1>1 DEF Opens
<1>3. /\ \A X : Has(mail, X) <=> Head(mail) \in X \/ Has(Tail(mail), X)
      /\ \A X, Y : Followed(mail, X, Y) => Followed(Tail(mail), X, Y)
      /\ Guarded(mail) => Followed(Tail(mail), Tidings, Cuts)
  BY <1>1, <1>2, TailOfBox
<1>4. Parting /\ ~Has(mail, Wrong)
  BY DEF Foretold
<1>5. Followed(Tail(mail), Tidings, Cuts) /\ ~Has(Tail(mail), Wrong)
  BY <1>3, <1>4 DEF Parting
<1>6. Head(mail).type = "Connect" => Head(mail) \notin Cuts
  BY DEF Cuts
<1>7. (m.seen \/ Shown(m)) => Has(mail, Cuts)
  BY <1>4 DEF Parting
<1>8. QED
  BY <1>3, <1>5, <1>6, <1>7

LEMMA HandleConnectForetold ==
  ASSUME IInv, Foretold, HandleConnect
  PROVE  Foretold'
<1> DEFINE mm == IF m.data THEN m ELSE NewData(m)
<1>1. mail # <<>> /\ Head(mail).type = "Connect" /\ rec' = rec
  BY DEF HandleConnect, Receives, Ignore, database
<1>2. CASE Ignore
  BY <1>1, <1>2, HandsOnForetold DEF Ignore, database
<1>3. ASSUME ~m.attempting
      PROVE  /\ mm \in Machines(sent) /\ mm.conn = "none" /\ mm.data /\ mm.attempting = m.attempting
             /\ mm.homed => Shown(mm)
             /\ Followed(Tail(mail), Tidings, Cuts) /\ ~Has(Tail(mail), Wrong)
             /\ mm.seen \/ Shown(mm) => Has(Tail(mail), Cuts)
  <2>1. m.conn = "none" /\ (m.homed => Shown(m))
    BY <1>3 DEF Foretold, MachineTrue
  <2>2. m \in Machines(sent) /\ NewData(m) \in Machines(sent)
    BY MachineTypes DEF IInv, TypeOK
  <2>3. /\ NewData(m).conn = m.conn /\ NewData(m).attempting = m.attempting /\ NewData(m).data
        /\ NewData(m).seen = m.seen /\ ~NewData(m).homed /\ ~Shown(NewData(m))
    BY <2>2 DEF NewData, Machines, Shown
  <2>4. /\ Followed(Tail(mail), Tidings, Cuts) /\ ~Has(Tail(mail), Wrong)
        /\ m.seen \/ Shown(m) => Has(Tail(mail), Cuts)
    BY <1>1, <2>1, PartingRest
  <2>5. QED
    BY <2>1, <2>2, <2>3, <2>4
<1> HIDE DEF mm
<1>4. CASE ~m.attempting /\ mail' = Tail(mail) /\ m' = mm /\ UNCHANGED <<wire, drv>>
  <2>1. DriverTrue'
    BY <1>4 DEF Foretold, DriverTrue, InSpool
  <2>2. m'.conn # "live" /\ MachineTrue' /\ Parting' /\ ~Has(mail', Wrong)
    BY <1>3, <1>4 DEF MachineTrue, Parting
  <2>3. QED
    BY <2>1, <2>2 DEF Foretold
<1>5. CASE /\ ~m.attempting /\ mail' = Tail(mail)
           /\ m' = [mm EXCEPT !.attempting = TRUE, !.conn = "live"]
           /\ drv' = IF drv.up THEN drv ELSE NewDriver
  <2>1. DriverTrue'
    <3>1. CASE drv' = drv
      BY <3>1 DEF Foretold, DriverTrue, InSpool
    <3>2. CASE drv' = NewDriver
      BY <3>2 DEF NewDriver, DriverTrue, StartedIn
    <3>3. QED
      BY <1>5, <3>1, <3>2
  <2>2. /\ m'.conn = "live" /\ m'.attempting /\ m'.seen = mm.seen /\ m'.homed = mm.homed
        /\ Shown(m') <=> Shown(mm)
    BY <1>3, <1>5 DEF Machines, Shown
  <2>3. MachineTrue' /\ ~Has(mail', Wrong)
    BY <1>3, <1>5, <2>2 DEF MachineTrue
  <2>4. Followed(mail', Tidings, Cuts) /\ (m'.seen \/ Shown(m') => Has(mail', Cuts))
    BY <1>3, <1>5, <2>2
  <2>5. \A Y \in Verdicts : m'.seen \/ Shown(m') => Has(mail', Y)
    BY <2>4, CutsAreVerdicts
  <2>6. \A X \in SUBSET Tidings, Y \in Verdicts : Followed(mail', X, Y)
    BY <2>4, Followers
  <2>7. Telling'
    BY <2>4, <2>5, <2>6, SignsAre DEF Telling
  <2>8. QED
    BY <2>1, <2>2, <2>3, <2>7 DEF Foretold
<1>6. QED
  BY <1>2, <1>4, <1>5 DEF HandleConnect, mm

LEMMA HandleClosedForetold ==
  ASSUME IInv, Foretold, HandleClosed
  PROVE  Foretold'
<1> DEFINE rest == Tail(mail)
           c == Msg("Connect")
           e == Msg("Closed")
<1>1. /\ mail # <<>> /\ Head(mail).type = "Closed" /\ UNCHANGED <<rec, wire, drv>>
  BY DEF HandleClosed, Receives, database
<1>2. mail \in Seq(Messages(rec, sent)) /\ rest \in Seq(Messages(rec, sent))
  BY <1>1, SoundNow, ContinuesNext
<1>3. /\ c \in Messages(rec, sent) /\ e \in Messages(rec, sent)
      /\ c \notin Tidings /\ e \notin Tidings /\ e \in Cuts
  BY NeutralOnes, NoTidings
<1>4. ~Has(rest, Wrong)
  BY <1>1, <1>2, TailOfBox DEF Foretold
<1>5. m'.conn = "none" /\ m'.data /\ ~m'.seen /\ ~Shown(m') /\ ~m'.homed
  <2> DEFINE st == IF m.data /\ m.status = "Stopped" THEN "Stopped" ELSE "Disconnected"
             n == NewData(m)
             mm == [n EXCEPT !.conn = "none", !.attempting = FALSE, !.seen = FALSE]
  <2>1. m' = InStatus(mm, st)
    BY DEF HandleClosed
  <2>2. n \in Machines(sent) /\ ~n.homed /\ n.data
    <3>1. m \in Machines(sent)
      BY DEF IInv, TypeOK
    <3>2. QED
      BY <3>1, NewDataForgets
  <2> HIDE DEF n
  <2>3. mm.conn = "none" /\ ~mm.homed /\ mm.data /\ ~mm.seen /\ mm \in Machines(sent)
    BY <2>2 DEF Machines
  <2>4. st \in {"Stopped", "Disconnected"}
    OBVIOUS
  <2> HIDE DEF mm, st
  <2>5. QED
    BY <2>1, <2>3, <2>4 DEF InStatus, Machines, Shown
<1>6. DriverTrue' /\ MachineTrue'
  BY <1>1, <1>5 DEF Foretold, DriverTrue, InSpool, MachineTrue
<1>7. \/ m.conn = "live" /\ mail' \in {rest \o <<c, e>>, rest \o <<e, c>>}
      \/ m.conn # "live" /\ mail' = rest \o <<c>>
  <2>1. CASE m.conn = "live"
    BY <2>1 DEF HandleClosed
  <2>2. CASE m.conn # "live"
    <3>1. mail' = Append(rest, c)
      BY <2>2 DEF HandleClosed
    <3> HIDE DEF rest, c
    <3>2. Append(rest, c) = rest \o <<c>>
      BY <1>2, <1>3, AppendIsConcat
    <3>3. QED
      BY <2>2, <3>1, <3>2
  <2>3. QED
    BY <2>1, <2>2
<1>8. m.conn # "live" => Followed(rest, Tidings, Cuts)
  BY <1>1, PartingRest
<1> HIDE DEF rest, c, e
<1>9. PICK x \in Seq(Messages(rec, sent)) : /\ mail' = rest \o x /\ ~Has(x, Tidings)
                                            /\ Has(x, Cuts) \/ Followed(rest, Tidings, Cuts)
  <2>1. /\ <<c, e>> \in Seq(Messages(rec, sent)) /\ <<e, c>> \in Seq(Messages(rec, sent))
        /\ <<c>> \in Seq(Messages(rec, sent))
    BY <1>3
  <2>2. /\ ~Has(<<c, e>>, Tidings) /\ Has(<<c, e>>, Cuts)
        /\ ~Has(<<e, c>>, Tidings) /\ Has(<<e, c>>, Cuts)
        /\ ~Has(<<c>>, Tidings)
    BY <1>3, HasOne, HasTwo
  <2>3. QED
    BY <1>7, <1>8, <2>1, <2>2
<1>10. Followed(x, Tidings, Cuts) /\ ~Has(x, Wrong)
  BY <1>9 DEF Followed, Has, Wrong
<1>11. Followed(mail', Tidings, Cuts) /\ ~Has(mail', Wrong)
  BY <1>2, <1>4, <1>9, <1>10, JoinedBoxes
<1>12. QED
  BY <1>5, <1>6, <1>11 DEF Foretold, Parting

\* A new machine whose first connection leaves no feedback behind it.
LEMMA NewForetold ==
  ASSUME DriverTrue', m' = NewMachine, ~Has(mail', Wrong), Guarded(mail')
  PROVE  Foretold'
<1>1. m'.conn = "none" /\ ~m'.data /\ ~m'.seen /\ ~Shown(m') /\ ~m'.homed
  BY DEF NewMachine, Shown
<1>2. QED
  BY <1>1 DEF Foretold, MachineTrue, Parting

LEMMA OnlyConnects ==
  /\ ~Has(<<Msg("Connect")>>, Wrong) /\ Guarded(<<Msg("Connect")>>)
<1> DEFINE c == Msg("Connect")
<1>1. c \notin Tidings
  BY NoTidings
<1> HIDE DEF c
<1>2. ~Has(<<c>>, Wrong) /\ Followed(<<c>>, Tidings, Cuts)
  BY <1>1, HasOne DEF Wrong
<1>3. QED
  BY <1>2, FollowedIsGuarded DEF c

LEMMA ServerRestartForetold ==
  ASSUME IInv, Foretold, ServerRestart
  PROVE  Foretold'
<1>1. drv \in Drivers(sent)
  BY DEF IInv, TypeOK
<1>2. m' = NewMachine /\ mail' = <<Msg("Connect")>> /\ drv' = [drv EXCEPT !.old = drv.up]
  BY DEF ServerRestart
<1>3. drv'.st = drv.st /\ drv'.spool = drv.spool /\ drv'.prog = drv.prog
  BY <1>1, <1>2 DEF Drivers
<1>4. DriverTrue'
  BY <1>3 DEF Foretold, DriverTrue, InSpool
<1>5. QED
  BY <1>2, <1>4, OnlyConnects, NewForetold

LEMMA HandleStopForetold ==
  ASSUME IInv, Foretold, HandleStop, Guarded(mail)
  PROVE  Foretold'
<1>1. /\ mail # <<>> /\ UNCHANGED <<wire, drv>> /\ m' = NewMachine
      /\ mail' = Append(Tail(mail), Msg("Connect"))
  BY DEF HandleStop, Receives
<1>2. DriverTrue'
  BY <1>1 DEF Foretold, DriverTrue, InSpool
<1> DEFINE rest == Tail(mail)
           c == Msg("Connect")
<1>3. mail \in Seq(Messages(rec, sent)) /\ rest \in Seq(Messages(rec, sent)) /\ c \notin Tidings
  BY <1>1, SoundNow, ContinuesNext, NoTidings
<1>4. Guarded(rest) /\ ~Has(rest, Wrong)
  BY <1>1, <1>3, TailOfBox DEF Foretold
<1>5. mail' = Append(rest, c)
  BY <1>1
<1> HIDE DEF rest, c
<1>6. Continues(rest, mail')
  BY <1>3, <1>5, ContinuesAppend
<1>7. Guarded(mail') /\ ~Has(mail', Wrong)
  BY <1>4, <1>6, SignsAre DEF Continues
<1>8. QED
  BY <1>1, <1>2, <1>7, NewForetold

-----------------------------------------------------------------------------
(***************************************************************************)
(* What a feedback makes of the machine and of what is recorded as running.*)
(***************************************************************************)
\* The works whose machine shows itself as before or as printing, and, unless a
\* send has failed, the tasks recorded as running are among busy.
Bearing(next, states, busy, ok) ==
  {w \in Works(next, states) :
     /\ w.m.seen = m.seen /\ w.m.data = m.data /\ w.m.homed = m.homed
     /\ Shown(m) => Shown(w.m)
     /\ ok => ~w.failed /\ \A t \in Task : w.rec[t] \in Sending => t \in busy}

LEMMA WorkBearing ==
  ASSUME TypeOK, NEW next, NEW fb, NEW ok
  PROVE  Work(fb, next) \in Bearing(next, {m.saved, NoTask}, {t \in Task : rec[t] \in Sending}, ok)
<1>1. Work(fb, next) \in Works(next, {m.saved, NoTask})
  BY WorkIs
<1>2. /\ Work(fb, next).rec = rec /\ ~Work(fb, next).failed /\ Work(fb, next).m = m
  BY DEF Work
<1> DEFINE w == Work(fb, next)
<1> HIDE DEF w
<1>3. QED
  BY <1>1, <1>2 DEF Bearing

LEMMA FirstBearing ==
  ASSUME TypeOK, NEW next, NEW states, NoTask \in states, NEW busy, NEW ok,
         NEW w \in Bearing(next, states, busy, ok), NEW fb, NEW pick
  PROVE  FirstFeedback(w, fb, pick) \in Bearing(next, states, busy \cap Listed(fb), ok)
<1> DEFINE running == {t \in Running(w.rec) : w.rec[t] # "created"}
           lost    == running \ Listed(fb)
           kept    == (running \cap Listed(fb)) \cap Prints
           r       == [t \in Task |-> IF t \in lost THEN "errored" ELSE w.rec[t]]
           c       == IF pick \in kept THEN pick ELSE CHOOSE p \in kept : TRUE
           mm      == IF kept = {} THEN w.m ELSE Printing(w.m, c, FALSE)
           f       == FirstFeedback(w, fb, pick)
<1>1. /\ w \in Works(next, states) /\ w.m \in Machines(sent) /\ w.rec \in [Task -> Statuses]
      /\ w.m.seen = m.seen /\ w.m.data = m.data /\ w.m.homed = m.homed
      /\ Shown(m) => Shown(w.m)
      /\ ok => ~w.failed /\ \A t \in Task : w.rec[t] \in Sending => t \in busy
  BY DEF Bearing, Works
<1>2. f \in Works(next, states)
  BY <1>1, FirstFeedbackIs
<1>3. f.rec = r /\ f.m = mm /\ f.failed = w.failed
  BY <1>1 DEF FirstFeedback, Works
<1>4. mm = w.m \/ mm = Printing(w.m, c, FALSE)
  OBVIOUS
<1>5. ASSUME NEW t \in Task, r[t] \in Sending PROVE w.rec[t] \in Sending /\ t \in Listed(fb)
  <2>1. t \notin lost /\ r[t] = w.rec[t]
    BY <1>5 DEF Sending
  <2>2. t \in running
    BY <1>5, <2>1 DEF Running, Sending, Pending
  <2>3. QED
    BY <1>5, <2>1, <2>2
<1> HIDE DEF c, mm, r, f
<1>6. /\ mm.seen = w.m.seen /\ mm.data = w.m.data /\ mm.homed = w.m.homed
      /\ Shown(w.m) => Shown(mm)
  <2>1. CASE mm = w.m
    BY <2>1
  <2>2. CASE mm = Printing(w.m, c, FALSE)
    <3> DEFINE old == w.m
    <3>1. old \in Machines(sent) /\ mm = Printing(old, c, FALSE)
      BY <1>1, <2>2
    <3> HIDE DEF old
    <3>2. mm.seen = old.seen /\ mm.data = old.data /\ mm.homed = old.homed /\ mm.status = "Printing"
      BY <3>1 DEF Printing, Machines
    <3>3. QED
      BY <3>2 DEF old, Shown
  <2>3. QED
    BY <1>4, <2>1, <2>2
<1>7. f.m.seen = m.seen /\ f.m.data = m.data /\ f.m.homed = m.homed /\ (Shown(m) => Shown(f.m))
  BY <1>1, <1>3, <1>6
<1>8. ok => ~f.failed /\ \A t \in Task : f.rec[t] \in Sending => t \in busy \cap Listed(fb)
  BY <1>1, <1>3, <1>5
<1>9. QED
  BY <1>2, <1>7, <1>8 DEF Bearing, f

\* What one entry makes of the machine, and a task it shows as stopped is not recorded
\* as running any more.
LEMMA ProgressBears ==
  ASSUME IInv, NEW next, Startable(next), NEW states,
         NEW w \in Works(next, states), NEW e \in [task : sent, status : Progress],
         NEW pick, NEW ok \in BOOLEAN
  PROVE  /\ RecordProgress(w, e, pick, ok).m.seen = w.m.seen
         /\ RecordProgress(w, e, pick, ok).m.data = w.m.data
         /\ RecordProgress(w, e, pick, ok).m.homed = w.m.homed
         /\ Shown(w.m) => Shown(RecordProgress(w, e, pick, ok).m)
         /\ ~w.failed /\ e.status # "started" => RecordProgress(w, e, pick, ok).rec[e.task] \notin Sending
<1> DEFINE a == e.task
           status == e.status
           changed == w.rec[a] \notin Final /\ ~(w.rec[a] = "paused" /\ status = "paused")
           u == [w EXCEPT !.touched = @ \cup {a}, !.again = @ \cup ({a} \cap w.touched)]
           s == Settle(u, a, status)
           p == AfterPrint(s, a, pick)
           z == [u EXCEPT !.rec = [@ EXCEPT ![a] = status]]
           v == IF ~changed THEN u
                ELSE IF status \in Final THEN p
                ELSE z
           x == IF ok THEN Append(v.out, [type |-> "DeleteTaskHistory", task |-> a]) ELSE v.out
           l == [v EXCEPT !.out = x, !.failed = ~ok]
           R == RecordProgress(w, e, pick, ok)
           Fields == {"rec", "m", "touched", "again", "out", "next", "auto", "failed"}
           Fits(y) == /\ y.m.seen = w.m.seen /\ y.m.data = w.m.data /\ y.m.homed = w.m.homed
                      /\ Shown(w.m) => Shown(y.m)
           Stops(y) == status # "started" => y.rec[a] \notin Sending
<1>1. R = IF w.failed \/ w.rec[a] = "absent" THEN w
          ELSE IF changed /\ status \in Final \cup {"paused"} THEN l ELSE v
  BY DEF RecordProgress
<1>2. /\ w \in [rec : [Task -> Statuses], m : Machines(sent), touched : SUBSET Task, again : SUBSET Task,
                out : Seq(Deletes), next : {NoTask, next}, auto : {NoTask, next},
                failed : BOOLEAN]
      /\ a \in Task /\ status \in Progress
  BY SoundNow DEF Works, TypeOK
<1>3. /\ u \in [rec : [Task -> Statuses], m : Machines(sent), touched : SUBSET Task, again : SUBSET Task,
                out : Seq(Deletes), next : {NoTask, next}, auto : {NoTask, next},
                failed : BOOLEAN]
      /\ u.rec = w.rec /\ u.m = w.m
  BY <1>2
<1>4. DOMAIN w = Fields /\ DOMAIN u = Fields
  BY <1>2, <1>3
<1> HIDE DEF a, status, u, Fields, R
<1>5. s.m = u.m /\ DOMAIN s = DOMAIN u /\ (s.rec[a] = status \/ s.rec[a] = "created")
  <2>1. CASE s = [u EXCEPT !.rec = [u.rec EXCEPT ![a] = status]]
    BY <1>2, <1>3, <2>1
  <2>2. CASE s = [u EXCEPT !.rec = [[u.rec EXCEPT ![a] = status] EXCEPT ![u.next] = "created"],
                           !.auto = u.next, !.next = NoTask]
    <3> DEFINE r == [u.rec EXCEPT ![a] = status]
               b == u.next
               q == [r EXCEPT ![b] = "created"]
    <3>1. DOMAIN r = Task /\ r[a] = status
      BY <1>2, <1>3
    <3> HIDE DEF r, b
    <3>2. q[a] = status \/ q[a] = "created"
      BY <1>2, <3>1
    <3> HIDE DEF q
    <3>3. s.rec = q /\ s.m = u.m /\ DOMAIN s = DOMAIN u
      BY <1>3, <2>2 DEF q, r, b
    <3>4. QED
      BY <3>2, <3>3
  <2>3. QED
    BY <2>1, <2>2 DEF Settle
<1> HIDE DEF s
<1>6. p.rec = s.rec /\ DOMAIN p = DOMAIN s /\ Fits(p)
  <2> DEFINE old == s.m
             prints == Running(s.rec) \cap Prints
             c == IF pick \in prints THEN pick ELSE CHOOSE q \in prints : TRUE
             b == s.rec[c] = "paused"
  <2>1. old \in Machines(sent) /\ old = w.m
    BY <1>3, <1>5
  <2>2. p.rec = s.rec /\ DOMAIN p = DOMAIN s
    BY DEF AfterPrint
  <2>3. p.m \in {old, InStatus(old, "Ready"), Printing(old, c, b)}
    <3>1. "m" \in DOMAIN s
      BY <1>4, <1>5 DEF Fields
    <3>2. QED
      BY <3>1 DEF AfterPrint
  <2> HIDE DEF old, c, b, p
  <2>4. CASE p.m = old
    BY <2>1, <2>2, <2>4
  <2>5. CASE p.m = InStatus(old, "Ready")
    <3>1. p.m.seen = old.seen /\ p.m.data = old.data /\ p.m.homed = old.homed /\ p.m.status = "Ready"
      BY <2>1, <2>5 DEF InStatus, Machines
    <3>2. QED
      BY <2>1, <2>2, <3>1 DEF Shown
  <2>6. CASE p.m = Printing(old, c, b)
    <3>1. p.m.seen = old.seen /\ p.m.data = old.data /\ p.m.homed = old.homed /\ p.m.status = "Printing"
      BY <2>1, <2>6 DEF Printing, Machines
    <3>2. QED
      BY <2>1, <2>2, <3>1 DEF Shown
  <2>7. QED
    BY <2>3, <2>4, <2>5, <2>6
<1>7. Fits(w) /\ Fits(u)
  BY <1>3
<1>8. z.m = u.m /\ DOMAIN z = DOMAIN u /\ z.rec[a] = status
  BY <1>2, <1>3
<1>9. Fits(z)
  BY <1>7, <1>8
<1> HIDE DEF p, z, Fits
<1>10. status # "started" => status \notin Sending
  BY <1>2 DEF Progress, Final, Sending
<1>11. Stops(p) /\ Stops(z)
  BY <1>5, <1>6, <1>8, <1>10 DEF Sending
<1>12. ~changed => Stops(u)
  BY <1>3 DEF Sending, Final
<1>13. w.rec[a] = "absent" => Stops(w)
  BY DEF Sending
<1>14. Fits(v) /\ Stops(v) /\ DOMAIN v = Fields
  BY <1>4, <1>5, <1>6, <1>7, <1>8, <1>9, <1>11, <1>12
<1> HIDE DEF v, x, changed
<1>15. l.m = v.m /\ l.rec = v.rec
  BY <1>14 DEF Fields
<1> HIDE DEF l
<1>16. Fits(l) /\ Stops(l)
  BY <1>14, <1>15 DEF Fits
<1>17. Fits(R) /\ (~w.failed => Stops(R))
  BY <1>1, <1>7, <1>13, <1>14, <1>16
<1>18. QED
  BY <1>17 DEF Fits, R, a, status

LEMMA ProgressBearing ==
  ASSUME IInv, NEW next, Startable(next), NEW states, NoTask \in states,
         NEW busy, NEW ok \in BOOLEAN, NEW pick,
         NEW w \in Bearing(next, states, busy, ok), NEW e \in [task : sent, status : Progress]
  PROVE  /\ e.status # "started" \/ e.task \in busy
              => RecordProgress(w, e, pick, ok) \in Bearing(next, states, busy, ok)
         /\ e.status # "started"
              => RecordProgress(w, e, pick, ok) \in Bearing(next, states, busy \ {e.task}, ok)
<1> DEFINE y == RecordProgress(w, e, pick, ok)
<1>1. /\ w \in Works(next, states)
      /\ w.m.seen = m.seen /\ w.m.data = m.data /\ w.m.homed = m.homed
      /\ Shown(m) => Shown(w.m)
      /\ ok => ~w.failed /\ \A t \in Task : w.rec[t] \in Sending => t \in busy
  BY DEF Bearing
<1>2. y \in Works(next, states)
  BY <1>1, RecordProgressIs
<1>3. /\ ok /\ ~w.failed => ~y.failed
      /\ \A t \in Task : \/ y.rec[t] = w.rec[t]
                         \/ t = e.task /\ y.rec[t] = e.status
                         \/ t \in Prints /\ y.rec[t] = "created"
  BY <1>1, ProgressRecords
<1>4. /\ y.m.seen = w.m.seen /\ y.m.data = w.m.data /\ y.m.homed = w.m.homed
      /\ Shown(w.m) => Shown(y.m)
      /\ ~w.failed /\ e.status # "started" => y.rec[e.task] \notin Sending
  BY <1>1, ProgressBears
<1>5. e.status \in Sending => e.status = "started"
  BY DEF Progress, Final, Sending
<1> HIDE DEF y
<1>6. \A t \in Task : y.rec[t] \in Sending =>
                        w.rec[t] \in Sending \/ (t = e.task /\ e.status = "started")
  BY <1>3, <1>5 DEF Sending
<1>7. ok => /\ ~y.failed
            /\ e.status # "started" \/ e.task \in busy
                 => \A t \in Task : y.rec[t] \in Sending => t \in busy
            /\ e.status # "started"
                 => \A t \in Task : y.rec[t] \in Sending => t \in busy \ {e.task}
  BY <1>1, <1>3, <1>4, <1>6
<1>8. QED
  BY <1>1, <1>2, <1>4, <1>7 DEF Bearing, y

\* After the entries of a feedback, a task is recorded as running only if one of them
\* shows it so, or if it was before and none shows it as stopped.
Left(busy, prog) == {t \in Task : StartedIn(prog, t) \/ (t \in busy /\ ~StoppedIn(prog, t))}

LEMMA RecordedBearing ==
  ASSUME IInv, NEW next, Startable(next), NEW states, NoTask \in states,
         NEW busy, NEW ok \in BOOLEAN, NEW pick,
         NEW w \in Bearing(next, states, busy, ok), NEW fb, fb.prog \in Entries(sent)
  PROVE  Recorded(w, fb, pick, ok)[Len(fb.prog)] \in Bearing(next, states, Left(busy, fb.prog), ok)
<1> DEFINE prog == fb.prog
           n == Len(prog)
           R == Recorded(w, fb, pick, ok)
           E == [task : sent, status : Progress]
           all == Bearing(next, states, Task, ok)
<1>1. prog \in Seq(E) /\ n \in Nat /\ \A k \in 1 .. n : prog[k] \in E
  <2> DEFINE s == fb.prog
  <2>1. s \in Seq(E)
    BY DEF Entries
  <2> HIDE DEF s, E
  <2>2. Len(s) \in Nat /\ \A k \in 1 .. Len(s) : s[k] \in E
    BY <2>1
  <2>3. QED
    BY <2>1, <2>2 DEF s
<1>2. w \in all
  BY DEF Bearing
<1>3. \A y \in all, e \in E : RecordProgress(y, e, pick, ok) \in all
  <2>1. SUFFICES ASSUME NEW y \in all, NEW e \in E PROVE RecordProgress(y, e, pick, ok) \in all
    OBVIOUS
  <2>2. e.task \in Task
    BY SoundNow DEF TypeOK
  <2>3. QED
    BY <2>2, ProgressBearing
<1>4. /\ R[0] = w
      /\ \A k \in 0 .. n : R[k] \in all
      /\ \A k \in 1 .. n : R[k] = RecordProgress(R[k - 1], prog[k], pick, ok)
  <2> HIDE DEF all, E
  <2>1. fb.prog \in Seq(E)
    BY <1>1
  <2>2. QED
    BY <1>2, <1>3, <2>1, RecordedSteps
<1> HIDE DEF R, n, E
<1>5. ASSUME NEW t \in Task, t \notin Left(busy, prog)
      PROVE  R[n] \in Bearing(next, states, Task \ {t}, ok)
  <2> DEFINE rest == Task \ {t}
             Y == Bearing(next, states, rest, ok)
  <2>1. ASSUME NEW k \in 1 .. n PROVE prog[k].task = t => prog[k].status # "started"
    BY <1>5, <2>1 DEF Left, StartedIn, n
  <2>2. ASSUME NEW k \in 1 .. n, R[k - 1] \in Y PROVE R[k] \in Y
    <3> DEFINE e == prog[k]
               y == R[k - 1]
    <3>1. /\ y \in Bearing(next, states, rest, ok) /\ e \in [task : sent, status : Progress]
          /\ e.task \in Task
      BY <1>1, <2>2, SoundNow DEF E, TypeOK
    <3>2. e.status # "started" \/ e.task \in rest
      BY <2>1, <3>1
    <3>3. R[k] = RecordProgress(y, e, pick, ok)
      BY <1>4
    <3> HIDE DEF y, e, rest
    <3>4. RecordProgress(y, e, pick, ok) \in Bearing(next, states, rest, ok)
      BY <3>1, <3>2, ProgressBearing
    <3>5. QED
      BY <3>3, <3>4
  <2>3. PICK i \in 0 .. n : R[i] \in Y
    <3>1. CASE t \notin busy
      <4>1. w \in Y
        <5>1. w \in Works(next, states)
          BY DEF Bearing
        <5>2. \A x \in Task : x \in busy => x \in rest
          BY <3>1
        <5> HIDE DEF rest
        <5>3. QED
          BY <5>2 DEF Bearing
      <4>2. 0 \in 0 .. n
        BY <1>1
      <4>3. QED
        BY <1>4, <4>1, <4>2
    <3>2. CASE StoppedIn(prog, t)
      <4>1. PICK k \in 1 .. n : prog[k].task = t /\ prog[k].status # "started"
        BY <3>2 DEF StoppedIn, n
      <4> DEFINE e == prog[k]
                 y == R[k - 1]
      <4>2. k - 1 \in 0 .. n /\ k \in 0 .. n
        BY <1>1, <4>1
      <4>3. y \in all /\ e \in [task : sent, status : Progress] /\ e.task = t /\ e.status # "started"
        BY <1>1, <1>4, <4>1, <4>2 DEF E
      <4>4. R[k] = RecordProgress(y, e, pick, ok)
        BY <1>4
      <4> HIDE DEF y, e
      <4>5. RecordProgress(y, e, pick, ok) \in Bearing(next, states, Task \ {e.task}, ok)
        BY <4>3, ProgressBearing
      <4>6. QED
        BY <4>2, <4>3, <4>4, <4>5
    <3>3. QED
      BY <1>5, <3>1, <3>2 DEF Left
  <2>4. 0 .. n \subseteq {k \in 0 .. n : k < i \/ R[k] \in Y}
    <3> DEFINE T == {k \in 0 .. n : k < i \/ R[k] \in Y}
    <3> HIDE DEF Y
    <3>1. i \in Nat /\ n \in Nat
      BY <1>1, <2>3
    <3>2. 0 \in T
      BY <2>3, <3>1
    <3>3. ASSUME NEW k \in 0 .. n - 1, k \in T PROVE k + 1 \in T
      <4>1. /\ k + 1 \in 1 .. n /\ (k + 1) - 1 = k /\ k + 1 \in 0 .. n
            /\ k < i => k + 1 < i \/ k + 1 = i
        BY <3>1
      <4>2. R[k] \in Y => R[k + 1] \in Y
        BY <2>2, <4>1
      <4>3. QED
        BY <2>3, <3>3, <4>1, <4>2
    <3> HIDE DEF T
    <3>4. 0 .. n \subseteq T
      BY <3>1, <3>2, <3>3, IntervalInduction
    <3>5. QED
      BY <3>4 DEF T
  <2>5. n \in 0 .. n /\ ~(n < i)
    BY <1>1, <2>3
  <2>6. QED
    BY <2>4, <2>5
<1>6. n \in 0 .. n
  BY <1>1
<1> DEFINE v == R[n]
<1>7. v \in all
  BY <1>4, <1>6
<1> HIDE DEF v, prog
<1>8. ASSUME ok, NEW t \in Task, v.rec[t] \in Sending PROVE t \in Left(busy, prog)
  <2>1. SUFFICES ASSUME t \notin Left(busy, prog) PROVE FALSE
    OBVIOUS
  <2>2. v \in Bearing(next, states, Task \ {t}, ok)
    BY <1>5, <2>1 DEF v
  <2>3. QED
    BY <1>8, <2>2 DEF Bearing
<1>9. v \in Bearing(next, states, Left(busy, prog), ok)
  BY <1>7, <1>8 DEF Bearing
<1>10. QED
  BY <1>9 DEF v, R, n, prog

LEMMA BlockingBearing ==
  ASSUME TypeOK, NEW next, NEW states, NEW busy, NEW ok, NEW w \in Bearing(next, states, busy, ok),
         NEW fb, fb.blocking \in BOOLEAN
  PROVE  RecordBlocking(w, fb) \in Bearing(next, states, busy, ok)
<1> DEFINE y == RecordBlocking(w, fb)
<1>1. /\ w \in Works(next, states) /\ w.m \in Machines(sent)
      /\ w.m.seen = m.seen /\ w.m.data = m.data /\ w.m.homed = m.homed
      /\ Shown(m) => Shown(w.m)
      /\ ok => ~w.failed /\ \A t \in Task : w.rec[t] \in Sending => t \in busy
  BY DEF Bearing, Works
<1>2. y \in Works(next, states)
  BY <1>1, RecordBlockingIs
<1>3. y.rec = w.rec /\ y.failed = w.failed
  BY <1>1 DEF RecordBlocking, Works
<1>4. y.m = w.m \/ y.m = [w.m EXCEPT !.blocked = fb.blocking]
  BY <1>1 DEF RecordBlocking, Works
<1> HIDE DEF y
<1>5. y.m.seen = w.m.seen /\ y.m.data = w.m.data /\ y.m.homed = w.m.homed /\ y.m.status = w.m.status
  BY <1>1, <1>4 DEF Machines
<1>6. QED
  BY <1>1, <1>2, <1>3, <1>5 DEF Bearing, Shown, y

\* A machine that has taken over the status of the driver.
LEMMA UpdateBears ==
  ASSUME TypeOK, MachineTrue, NEW next, NEW states, NEW busy, NEW ok,
         NEW w \in Bearing(next, states, busy, ok), NEW fb, fb.st \in DriverSt
  PROVE  /\ UpdateMachine(w, fb).m.data = m.data
         /\ UpdateMachine(w, fb).m.homed => Shown(UpdateMachine(w, fb).m)
         /\ ok => /\ ~UpdateMachine(w, fb).failed
                  /\ UpdateMachine(w, fb).m.seen
                  /\ Shown(UpdateMachine(w, fb).m) <=> fb.st = "ready"
                  /\ \A t \in Task : UpdateMachine(w, fb).rec[t] \in Sending =>
                                       t \in busy /\ (fb.st = "ready" \/ ~Shown(m))
<1> DEFINE s       == MachineStatus(fb.st)
           differs == s # w.m.status \/ s = "Errored"
           gone    == IF differs /\ s # "Ready" THEN Running(w.rec) ELSE {}
           mm      == IF differs /\ ~(w.m.status = "Printing" /\ s = "Ready")
                      THEN InStatus(w.m, s) ELSE w.m
           saved   == IF mm.saved = NoTask /\ mm.status = "Printing" /\ mm.paused
                      THEN fb.flag ELSE mm.saved
           r       == [t \in Task |-> IF t \in gone THEN "errored" ELSE w.rec[t]]
           nn      == [mm EXCEPT !.seen = TRUE, !.homed = fb.st = "ready", !.saved = saved]
           y       == UpdateMachine(w, fb)
<1>1. /\ w \in Works(next, states) /\ w.m \in Machines(sent) /\ w.rec \in [Task -> Statuses]
      /\ w.m.seen = m.seen /\ w.m.data = m.data /\ w.m.homed = m.homed
      /\ Shown(m) => Shown(w.m)
      /\ ok => ~w.failed /\ \A t \in Task : w.rec[t] \in Sending => t \in busy
  BY DEF Bearing, Works
<1>2. y = IF w.failed THEN w ELSE [w EXCEPT !.rec = r, !.m = nn, !.touched = @ \cup gone,
                                          !.again = @ \cup (gone \cap w.touched)]
  BY DEF UpdateMachine
<1>3. /\ s \in {"Disconnected", "Connecting", "Ready", "Errored", "Stopped"}
      /\ s = "Ready" <=> fb.st = "ready"
  BY DEF MachineStatus, DriverSt
<1>4. mm.status = w.m.status \/ mm.status = s
  <2>1. mm = w.m \/ mm = InStatus(w.m, s)
    OBVIOUS
  <2>2. InStatus(w.m, s).status = s
    BY <1>1 DEF InStatus, Machines
  <2>3. QED
    BY <2>1, <2>2
<1>5. /\ DOMAIN mm = DOMAIN w.m /\ mm.data = w.m.data
      /\ mm.status \in {"Printing", "Ready"} <=> s = "Ready"
  <2> DEFINE old == w.m
             new == InStatus(old, s)
  <2>1. old \in Machines(sent)
    BY <1>1
  <2>2. DOMAIN new = DOMAIN old /\ new.data = old.data /\ new.status = s
    BY <2>1 DEF InStatus, Machines
  <2> HIDE DEF new
  <2>3. mm = IF differs /\ ~(old.status = "Printing" /\ s = "Ready") THEN new ELSE old
    BY DEF new
  <2> HIDE DEF mm, s, old
  <2>4. differs <=> s # old.status \/ s = "Errored"
    BY DEF old
  <2> HIDE DEF differs
  <2>5. QED
    BY <1>3, <2>2, <2>3, <2>4 DEF old
<1>6. ASSUME NEW t \in Task, r[t] \in Sending PROVE w.rec[t] \in Sending /\ (s = "Ready" \/ ~Shown(w.m))
  <2>1. t \notin gone /\ r[t] = w.rec[t]
    BY <1>6 DEF Sending
  <2>2. t \in Running(w.rec)
    BY <1>6, <2>1 DEF Running, Sending, Pending
  <2>3. s # "Ready" => w.m.status = s
    BY <2>1, <2>2
  <2>4. QED
    BY <1>3, <1>6, <2>1, <2>3 DEF Shown
<1>7. {"seen", "homed", "saved", "status", "data"} \subseteq DOMAIN w.m
  BY <1>1 DEF Machines
<1> HIDE DEF s, differs, gone, mm, r, saved
<1>8. /\ nn.seen /\ nn.homed = (fb.st = "ready") /\ nn.status = mm.status /\ nn.data = mm.data
  BY <1>5, <1>7
<1> HIDE DEF nn, y
<1>9. ~w.failed => y.m = nn /\ y.rec = r /\ ~y.failed
  <2>1. {"rec", "m", "touched", "failed"} \subseteq DOMAIN w
    BY <1>1 DEF Works
  <2>2. QED
    BY <1>2, <2>1
<1>10. Shown(nn) <=> fb.st = "ready"
  BY <1>3, <1>5, <1>8 DEF Shown
<1>11. w.failed => y = w
  BY <1>2
<1>12. y.m.data = m.data /\ (y.m.homed => Shown(y.m))
  <2>1. CASE w.failed
    BY <1>1, <1>11, <2>1 DEF MachineTrue
  <2>2. CASE ~w.failed
    BY <1>1, <1>5, <1>8, <1>9, <1>10, <2>2
  <2>3. QED
    BY <2>1, <2>2
<1>13. ok => /\ ~y.failed /\ y.m.seen /\ (Shown(y.m) <=> fb.st = "ready")
             /\ \A t \in Task : y.rec[t] \in Sending => t \in busy /\ (fb.st = "ready" \/ ~Shown(m))
  BY <1>1, <1>3, <1>6, <1>8, <1>9, <1>10
<1>14. QED
  BY <1>12, <1>13 DEF y

\* What the machine learns from the feedback fb of its driver.
Learns(w, fb) ==
  /\ w.m.conn = m.conn /\ w.m.attempting = m.attempting /\ w.m.data = m.data
  /\ w.m.homed => Shown(w.m)
  /\ m.conn = "live" =>
       /\ w.m.seen
       /\ Shown(w.m) <=> fb.st = "ready"
       /\ \A t \in Task : w.rec[t] \in Sending =>
            /\ fb.st = "ready" \/ ~Shown(m)
            /\ \/ StartedIn(fb.prog, t)
               \/ m.seen /\ rec[t] \in Sending /\ ~StoppedIn(fb.prog, t)

LEMMA LearnsForetold ==
  ASSUME IInv, Foretold, m.data, NEW w, w.out \in Seq(Deletes), Takes(w), Learns(w, Head(mail))
  PROVE  Foretold'
<1> DEFINE fb == Head(mail)
           rest == Tail(mail)
<1>1. /\ mail # <<>> /\ fb.type = "Feedback" /\ rec' = w.rec /\ m' = w.m /\ wire' = Sent(w.out)
      /\ UNCHANGED <<drv, sent>>
      /\ \/ mail' = StaleIn(w.again, StaleIn(w.touched, rest))
         \/ mail' = Append(StaleIn(w.again, StaleIn(w.touched, rest)), Msg("Stop"))
  BY DEF Takes
<1>2. /\ mail \in Seq(Messages(rec, sent)) /\ rest \in Seq(Messages(rec, sent))
      /\ wire \in Seq(Wires(sent)) /\ fb \in Mailable
  BY <1>1, SoundNow, ContinuesNext, ReceivesHead DEF TypeOK
<1>3. fb \in Tidings /\ fb \notin Cuts
  BY <1>1, <1>2 DEF Tidings, Cuts
<1>4. Continues(rest, mail')
  <2> DEFINE ts == w.touched
             more == w.again
             one == StaleIn(ts, rest)
             box == StaleIn(more, one)
             x == Msg("Stop")
  <2>1. Moved(rec, rec, sent, sent, ts) /\ Moved(rec, rec, sent, sent, more)
    BY DEF Moved
  <2>2. x \notin Tidings
    BY NoTidings
  <2>3. mail' = box \/ mail' = Append(box, x)
    BY <1>1
  <2> HIDE DEF ts, more, rest, x
  <2>41. Continues(rest, one) /\ one \in Seq(Messages(rec, sent))
    BY <1>2, <2>1, ContinuesStale, StaleKeeps
  <2> HIDE DEF one
  <2>42. Continues(one, box) /\ box \in Seq(Messages(rec, sent))
    BY <2>1, <2>41, ContinuesStale, StaleKeeps
  <2> HIDE DEF box
  <2>4. Continues(rest, box) /\ box \in Seq(Messages(rec, sent))
    BY <2>41, <2>42, ContinuesBeyond
  <2>5. Continues(box, Append(box, x))
    BY <2>2, <2>4, ContinuesAppend
  <2>6. Continues(rest, Append(box, x))
    BY <2>4, <2>5, ContinuesBeyond
  <2>7. QED
    BY <2>3, <2>4, <2>6
<1> HIDE DEF fb, rest
<1>5. /\ \A X \in SUBSET Tidings : Has(mail', X) => Has(rest, X)
      /\ \A Y \in Verdicts : Has(rest, Y) => Has(mail', Y)
      /\ \A X \in SUBSET Tidings, Y \in Verdicts : Followed(rest, X, Y) => Followed(mail', X, Y)
  BY <1>4 DEF Continues
<1>6. /\ \A X : Has(mail, X) <=> fb \in X \/ Has(rest, X)
      /\ \A X, Y : Followed(mail, X, Y) => Followed(rest, X, Y) /\ (fb \in X => Has(rest, Y))
  BY <1>1, <1>2, TailOfBox DEF fb, rest
<1>7. /\ w.m.conn = m.conn /\ w.m.attempting = m.attempting /\ w.m.data = m.data
      /\ w.m.homed => Shown(w.m)
      /\ m.conn = "live" =>
           /\ w.m.seen
           /\ Shown(w.m) <=> fb.st = "ready"
           /\ \A t \in Task : w.rec[t] \in Sending =>
                /\ fb.st = "ready" \/ ~Shown(m)
                /\ \/ StartedIn(fb.prog, t)
                   \/ m.seen /\ rec[t] \in Sending /\ ~StoppedIn(fb.prog, t)
  BY DEF Learns, fb
<1>8. DriverTrue' /\ MachineTrue'
  BY <1>1, <1>7 DEF Foretold, DriverTrue, MachineTrue, InSpool, Shown
<1>9. ~Has(mail', Wrong) /\ fb \notin Wrong
  BY <1>5, <1>6, SignsAre DEF Foretold
<1>10. ASSUME m'.conn # "live" PROVE Parting'
  <2>1. Followed(mail, Tidings, Cuts)
    BY <1>1, <1>7, <1>10 DEF Foretold, Parting
  <2>2. Followed(mail', Tidings, Cuts) /\ Has(mail', Cuts)
    BY <1>3, <1>5, <1>6, <2>1, SignsAre
  <2>3. QED
    BY <1>1, <1>7, <2>2 DEF Parting
<1>11. ASSUME m'.conn = "live" PROVE Telling'
  <2>1. Telling /\ m.conn = "live"
    BY <1>1, <1>7, <1>11 DEF Foretold
  <2>2. ASSUME drv'.st # "ready"
        PROVE  Followed(mail', Readies, Unready) /\ (Shown(m') => Has(mail', Unready))
    <3>1. Followed(mail, Readies, Unready)
      BY <1>1, <2>1, <2>2 DEF Telling
    <3>2. Shown(m') => fb \in Readies
      BY <1>1, <1>3, <1>7, <2>1 DEF Readies
    <3>3. QED
      BY <1>5, <1>6, <3>1, <3>2, SignsAre
  <2>3. ASSUME ~Shown(m'), NEW t \in Task, rec'[t] \in Sending PROVE Has(mail', Cuts)
    <3>1. fb.st # "ready" /\ ~Shown(m)
      BY <1>1, <1>7, <2>1, <2>3
    <3>2. ~StartedIn(fb.prog, t)
      BY <1>3, <1>9, <3>1 DEF Wrong
    <3>3. m.seen /\ rec[t] \in Sending
      BY <1>1, <1>7, <2>1, <2>3, <3>2
    <3>4. Has(mail, Cuts)
      BY <2>1, <3>1, <3>3 DEF Telling
    <3>5. QED
      BY <1>3, <1>5, <1>6, <3>4, SignsAre
  <2>4. \A t \in Task : InSpool(t)' \/ Followed(mail', Starts(t), Ends(t))
    <3>1. SUFFICES ASSUME NEW t \in Task, ~InSpool(t) PROVE Followed(mail', Starts(t), Ends(t))
      BY <1>1 DEF InSpool
    <3>2. Followed(mail, Starts(t), Ends(t))
      BY <2>1, <3>1 DEF Telling
    <3>3. QED
      BY <1>5, <1>6, <3>2, SignsAre
  <2>5. ASSUME NEW t \in Task, rec'[t] \in Sending
        PROVE  InSpool(t)' \/ InWire(t)' \/ Has(mail', Ends(t))
    <3>1. SUFFICES ASSUME ~InSpool(t) PROVE InWire(t)' \/ Has(mail', Ends(t))
      BY <1>1 DEF InSpool
    <3>2. SUFFICES InWire(t) \/ Has(rest, Ends(t))
      <4> DEFINE x == w.out
      <4>1. Deletes \subseteq Wires(sent')
        BY <1>1 DEF Deletes, Wires, Wireable
      <4>2. x \in Seq(Wires(sent'))
        BY <4>1, SeqMonotonic
      <4>3. wire' = Sent(x)
        BY <1>1
      <4> HIDE DEF x
      <4>4. InWire(t) => InWire(t)'
        BY <1>1, <1>2, <4>2, <4>3, WireKeeps
      <4>5. QED
        BY <1>5, <4>4, SignsAre
    <3>3. CASE StartedIn(fb.prog, t)
      <4>1. fb \in Starts(t) /\ Followed(mail, Starts(t), Ends(t))
        BY <1>3, <2>1, <3>1, <3>3 DEF Starts, Telling
      <4>2. QED
        BY <1>6, <4>1
    <3>4. CASE m.seen /\ rec[t] \in Sending /\ ~StoppedIn(fb.prog, t)
      <4>1. InWire(t) \/ Has(mail, Ends(t))
        BY <2>1, <3>1, <3>4 DEF Telling
      <4>2. CASE fb.st = "ready"
        <5>1. fb \notin Ends(t)
          BY <1>3, <3>4, <4>2 DEF Ends, Unready, Readies
        <5>2. QED
          BY <1>6, <4>1, <5>1
      <4>3. CASE fb.st # "ready"
        <5>1. Has(mail, Cuts)
          BY <1>1, <1>7, <2>1, <2>5, <3>4, <4>3 DEF Telling
        <5>2. Has(rest, Cuts)
          BY <1>3, <1>6, <5>1
        <5>3. Cuts \subseteq Ends(t)
          BY DEF Ends, Unready
        <5>4. QED
          BY <5>2, <5>3 DEF Has
      <4>4. QED
        BY <4>2, <4>3
    <3>5. QED
      BY <1>1, <1>7, <2>1, <2>5, <3>3, <3>4
  <2>6. QED
    BY <2>2, <2>3, <2>4, <2>5 DEF Telling, Shown
<1>12. QED
  BY <1>8, <1>9, <1>10, <1>11 DEF Foretold

LEMMA HandleFeedbackForetold ==
  ASSUME IInv, Foretold, HandleFeedback
  PROVE  Foretold'
<1> DEFINE fb == Head(mail)
           states == {m.saved, NoTask}
           now == {t \in Task : rec[t] \in Sending}
           busy == IF m.seen THEN now ELSE now \cap Listed(fb)
<1>1. /\ mail # <<>> /\ fb.type = "Feedback" /\ m.data /\ SendResults \subseteq BOOLEAN /\ TypeOK
      /\ UNCHANGED <<resuming, retry, drv, sent, parted, crossed, ops, faults>>
  BY SendResultsAre DEF HandleFeedback, Receives, bounds, IInv
<1>2. /\ fb \in Mailable /\ Names(fb, rec, sent)
  BY <1>1, ReceivesHead
<1>3. /\ fb.prog \in Entries(sent) /\ fb.blocking \in BOOLEAN /\ fb.st \in DriverSt
      /\ fb.flag \in Maybe(Prints \cap sent)
  <2>1. fb \in Feedbacks /\ fb.prog \in Entries(sent) /\ fb.flag \in Maybe(sent)
    BY <1>1, <1>2, MailableByType DEF Names
  <2>2. QED
    BY <2>1 DEF Feedbacks, Maybe
<1>4. PICK pick \in Prints, ok \in SendResults,
           next \in {NoTask} \cup {p \in Prints : Automatic /\ rec[p] = "absent"} :
        LET w == UpdateMachine(UpdateTasks(Work(fb, next), fb, pick, ok), fb)
            jobs == IF w.auto = NoTask THEN job
                    ELSE [job EXCEPT ![w.auto] =
                           [NoJob EXCEPT !.phase = "compiling", !.auto = TRUE, !.held = TRUE]]
        IN  /\ rec' = w.rec
            /\ m' = w.m
            /\ wire' = Sent(w.out)
            /\ job' = StaleJobs(w.again, StaleJobs(w.touched, jobs))
            /\ mail' = LET rest == StaleIn(w.again, StaleIn(w.touched, Tail(mail)))
                       IN  IF w.failed THEN Append(rest, Msg("Stop")) ELSE rest
            /\ credit' = [t \in Task |-> credit[t] + (IF t = w.auto THEN 1 ELSE 0)]
  BY DEF HandleFeedback
<1> DEFINE w0 == Work(fb, next)
           w1 == IF w0.m.seen THEN w0 ELSE FirstFeedback(w0, fb, pick)
           w2 == Recorded(w1, fb, pick, ok)[Len(fb.prog)]
           w3 == RecordBlocking(w2, fb)
           w4 == UpdateMachine(w3, fb)
           left == Left(busy, fb.prog)
<1>5. Takes(w4)
  BY <1>1, <1>4 DEF Takes, UpdateTasks
<1>6. /\ Startable(next) /\ NoTask \in states /\ ok \in BOOLEAN
      /\ m.conn = "live" => ok
  BY <1>1, <1>4 DEF Startable, SendResults
<1>7. ASSUME NEW t \in left
      PROVE  StartedIn(fb.prog, t) \/ (m.seen /\ rec[t] \in Sending /\ ~StoppedIn(fb.prog, t))
  <2>1. SUFFICES ASSUME ~StartedIn(fb.prog, t) PROVE m.seen /\ rec[t] \in Sending /\ ~StoppedIn(fb.prog, t)
    OBVIOUS
  <2>2. t \in busy /\ ~StoppedIn(fb.prog, t)
    BY <1>7, <2>1 DEF Left
  <2>3. t \notin Listed(fb)
    BY <2>1, <2>2 DEF Listed, StartedIn, StoppedIn
  <2>4. QED
    BY <2>2, <2>3
<1> HIDE DEF fb, states, now, left
<1>8. w0 \in Bearing(next, states, now, ok) /\ w0.m = m
  <2>1. w0 \in Bearing(next, states, now, ok)
    BY <1>1, WorkBearing DEF states, now
  <2>2. w0.m = m
    BY DEF Work
  <2>3. QED
    BY <2>1, <2>2
<1> HIDE DEF w0
<1>9. w1 \in Bearing(next, states, busy, ok)
  <2>1. CASE m.seen
    BY <1>8, <2>1
  <2>2. CASE ~m.seen
    BY <1>1, <1>6, <1>8, <2>2, FirstBearing
  <2>3. QED
    BY <2>1, <2>2
<1> HIDE DEF w1, busy
<1>10. w2 \in Bearing(next, states, left, ok)
  BY <1>3, <1>6, <1>9, RecordedBearing DEF left
<1> HIDE DEF w2
<1>11. w3 \in Bearing(next, states, left, ok)
  BY <1>1, <1>3, <1>10, BlockingBearing
<1> HIDE DEF w3
<1>12. w4 \in Works(next, states \cup {fb.flag})
  <2>1. w3 \in Works(next, states)
    BY <1>11 DEF Bearing
  <2>2. QED
    BY <1>1, <1>3, <1>6, <2>1, UpdateMachineIs
<1>13. /\ w4.m.data = m.data
       /\ w4.m.homed => Shown(w4.m)
       /\ ok => /\ ~w4.failed
                /\ w4.m.seen
                /\ Shown(w4.m) <=> fb.st = "ready"
                /\ \A t \in Task : w4.rec[t] \in Sending =>
                                     t \in left /\ (fb.st = "ready" \/ ~Shown(m))
  <2> DEFINE u == UpdateMachine(w3, fb)
  <2>1. TypeOK /\ MachineTrue /\ fb.st \in DriverSt
    BY <1>1, <1>3 DEF Foretold
  <2>2. /\ u.m.data = m.data
        /\ u.m.homed => Shown(u.m)
        /\ ok => /\ ~u.failed
                 /\ u.m.seen
                 /\ Shown(u.m) <=> fb.st = "ready"
                 /\ \A t \in Task : u.rec[t] \in Sending =>
                                      t \in left /\ (fb.st = "ready" \/ ~Shown(m))
    BY <1>11, <2>1, UpdateBears
  <2>3. w4 = u
    OBVIOUS
  <2> HIDE DEF u, w4
  <2>4. QED
    BY <2>2, <2>3
<1> HIDE DEF w4
<1>14. w4.m.conn = m.conn /\ w4.m.attempting = m.attempting /\ w4.out \in Seq(Deletes)
  BY <1>12, WorkHas
<1>15. Learns(w4, fb)
  BY <1>6, <1>7, <1>13, <1>14 DEF Learns
<1>16. QED
  BY <1>1, <1>5, <1>14, <1>15, LearnsForetold DEF fb

-----------------------------------------------------------------------------
(***************************************************************************)
(* Every step keeps what is foretold.                                      *)
(***************************************************************************)
\* A restart of the actor that leaves it a feedback of the stream it had: the new
\* machine connects before it takes that feedback, and takes it for its first one.
Misleads == HandleStop /\ ~Guarded(mail)

LEMMA StepForetold ==
  ASSUME IInv, IInv', Foretold, [Next]_vars, [~Misleads]_vars
  PROVE  Foretold'
<1>1. CASE Actor
  <2>1. CASE HandleStop
    <3>1. CASE UNCHANGED vars
      <4>1. UNCHANGED <<rec, m, wire, drv, mail>>
        BY <3>1 DEF vars
      <4>2. Continues(mail, mail')
        BY <4>1, ContinuesBeyond
      <4>3. QED
        BY <4>1, <4>2, MailForetold
    <3>2. CASE ~Misleads
      BY <2>1, <3>2, HandleStopForetold DEF Misleads
    <3>3. QED
      BY <3>1, <3>2
  <2>2. CASE HandleBroken \/ HandleInit \/ HandleAddDevice \/ FeedbackWithoutData
    BY <2>2, HandlersForetold
  <2>3. CASE HandleResetWhenIdle \/ HandleStopMachine
    BY <2>3, ForwardForetold DEF HandleResetWhenIdle, HandleStopMachine
  <2>4. CASE HandleConnect \/ HandleClosed \/ HandleResetMachine
    BY <2>4, HandleConnectForetold, HandleClosedForetold, HandleResetMachineForetold
  <2>5. CASE HandleSpoolTask \/ HandleSpoolPrint
    BY <2>5, HandleSpoolTaskForetold, HandleSpoolPrintForetold
  <2>6. CASE HandlePause \/ HandleResume
    BY <2>6, HandlePauseForetold, HandleResumeForetold
  <2>7. CASE HandleFeedback
    BY <2>7, HandleFeedbackForetold
  <2>8. QED
    BY <1>1, <2>1, <2>2, <2>3, <2>4, <2>5, <2>6, <2>7 DEF Actor
<1>2. CASE Driver
  BY <1>2, DriverHelloForetold, DriverSpoolForetold, DriverPauseForetold, DriverDeleteForetold,
     DriverEstopForetold, DriverResetWhenIdleForetold, DriverFinishForetold, DriverConnectsForetold
     DEF Driver
<1>3. CASE Failures
  BY <1>3, DriverFailsForetold, ServerRestartForetold, DriverCrashForetold, StreamBreaksForetold
     DEF Failures
<1>4. CASE UNCHANGED vars
  <2>1. UNCHANGED <<rec, m, wire, drv, mail>>
    BY <1>4 DEF vars
  <2>2. Continues(mail, mail')
    BY <2>1, ContinuesBeyond
  <2>3. QED
    BY <2>1, <2>2, MailForetold
<1>5. QED
  BY <1>1, <1>2, <1>3, <1>4, ClientsForetold, CompilationForetold, RetryConnectForetold DEF Next

LEMMA InitForetold == Init => Foretold
<1> DEFINE c == Msg("Connect")
<1>1. SUFFICES ASSUME Init PROVE Foretold
  OBVIOUS
<1>2. /\ mail = <<Msg("Connect")>> /\ m = NewMachine
      /\ drv = [NewDriver EXCEPT !.up = FALSE]
  BY <1>1 DEF Init
<1>3. drv.spool = <<>> /\ drv.prog = <<>>
  BY <1>2 DEF NewDriver
<1>4. DriverTrue
  BY <1>3 DEF DriverTrue, StartedIn
<1>5. m.conn = "none" /\ ~m.data /\ ~m.seen /\ ~Shown(m) /\ ~m.homed
  BY <1>2 DEF NewMachine, Shown
<1>6. QED
  BY <1>2, <1>4, <1>5, OnlyConnects DEF Foretold, MachineTrue, Parting

-----------------------------------------------------------------------------
\* Unless a restart of the actor leaves it a feedback of the stream it had, whatever
\* was lost with a driver, a stream or the server has been errored once nothing is on
\* its way any more: every task that is recorded as running is one the driver has.
THEOREM NothingIsLostHolds == Spec /\ [][~Misleads]_vars => []NothingIsLost
<1>1. Init => Foretold
  BY InitForetold
<1>2. IInv /\ IInv' /\ Foretold /\ [Next]_vars /\ [~Misleads]_vars => Foretold'
  BY StepForetold
<1>3. Foretold => NothingIsLost
  <2>1. SUFFICES ASSUME Foretold, Quiet, NEW t \in Task, rec[t] \in Sending PROVE InDriver(t)
    BY DEF NothingIsLost, Sending
  <2>2. ~Has(mail, Ends(t))
    BY <2>1 DEF Quiet, Has
  <2>3. InSpool(t) \/ InWire(t)
    BY <2>1, <2>2 DEF Foretold, Telling, Quiet
  <2>4. QED
    BY <2>3 DEF InSpool, InWire, InDriver
<1>4. QED
  BY <1>1, <1>2, <1>3, Invariant, PTL DEF Spec
=============================================================================
