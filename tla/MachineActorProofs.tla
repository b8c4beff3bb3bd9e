------------------------- MODULE MachineActorProofs -------------------------
(***************************************************************************)
(* What MachineActor's runs check on small instances and is proved here    *)
(* for every set of tasks, every number of operations and faults and every *)
(* size of the mailbox: a machine is never left alone, the records of the  *)
(* tasks follow TaskLifecycle, and a print that can be resumed has left    *)
(* the driver. What relates the records to the driver's spool is in        *)
(* LossProofs.                                                             *)
(***************************************************************************)
EXTENDS MachineActor, Integers, TLAPS, SequenceTheorems, FiniteSetTheorems,
        FunctionTheorems, RecursionLemmas

-----------------------------------------------------------------------------
(***************************************************************************)
(* Counting in sequences.                                                  *)
(***************************************************************************)

\* How many of the elements of a sequence are in a set.
CountOf(s, T) == Cardinality({i \in 1 .. Len(s) : s[i] \in T})

LEMMA CountIsNat ==
  ASSUME NEW S, NEW s \in Seq(S), NEW T
  PROVE  /\ IsFiniteSet({i \in 1 .. Len(s) : s[i] \in T})
         /\ CountOf(s, T) \in Nat
<1>1. IsFiniteSet(1 .. Len(s))
  BY FS_Interval
<1>2. IsFiniteSet({i \in 1 .. Len(s) : s[i] \in T})
  BY <1>1, FS_Subset
<1>3. QED
  BY <1>2, FS_CardinalityType DEF CountOf

\* What is appended to a sequence is counted with it.
LEMMA CountConcat ==
  ASSUME NEW S, NEW s \in Seq(S), NEW r \in Seq(S), NEW T
  PROVE  CountOf(s \o r, T) = CountOf(s, T) + CountOf(r, T)
<1> DEFINE n == Len(s)
           A == {i \in 1 .. Len(s) : s[i] \in T}
           B == {i \in 1 .. Len(r) : r[i] \in T}
           C == {i \in 1 .. Len(s \o r) : (s \o r)[i] \in T}
           D == C \ A
           f == [i \in B |-> i + n]
<1>1. /\ n \in Nat /\ Len(r) \in Nat /\ Len(s \o r) = n + Len(r)
      /\ \A i \in 1 .. n : (s \o r)[i] = s[i]
      /\ \A i \in 1 .. Len(r) : (s \o r)[i + n] = r[i]
  <2>1. /\ Len(s \o r) = n + Len(r)
        /\ \A i \in 1 .. n + Len(r) :
             (s \o r)[i] = IF i <= Len(s) THEN s[i] ELSE r[i - Len(s)]
    BY ConcatProperties
  <2>2. n \in Nat /\ Len(r) \in Nat
    OBVIOUS
  <2> HIDE DEF n
  <2>3. ASSUME NEW i \in 1 .. Len(r) PROVE (s \o r)[i + n] = r[i]
    <3>1. i + n \in 1 .. n + Len(r) /\ ~(i + n <= n) /\ (i + n) - n = i
      BY <2>2
    <3>2. QED
      BY <2>1, <3>1 DEF n
  <2>4. ASSUME NEW i \in 1 .. n PROVE (s \o r)[i] = s[i]
    BY <2>1, <2>2 DEF n
  <2>5. QED
    BY <2>1, <2>2, <2>3, <2>4
<1> HIDE DEF n
<1>2. A = C \cap (1 .. n)
  BY <1>1 DEF n
<1>3. D = {i \in n + 1 .. n + Len(r) : (s \o r)[i] \in T}
  BY <1>1, <1>2 DEF n
<1>4. \A i \in B : i + n \in D
  BY <1>1, <1>3
<1>5. \A j \in D : j - n \in B /\ (j - n) + n = j
  <2>1. SUFFICES ASSUME NEW j \in D PROVE j - n \in B /\ (j - n) + n = j
    OBVIOUS
  <2>2. j \in n + 1 .. n + Len(r) /\ (s \o r)[j] \in T
    BY <1>3
  <2>3. j - n \in 1 .. Len(r) /\ (j - n) + n = j
    BY <1>1, <2>2
  <2>4. r[j - n] = (s \o r)[j]
    BY <1>1, <2>3
  <2>5. QED
    BY <2>2, <2>3, <2>4
<1>6. f \in Bijection(B, D)
  <2>1. f \in [B -> D]
    BY <1>4
  <2>2. \A a, b \in B : f[a] = f[b] => a = b
    BY <1>1
  <2>3. \A j \in D : \E i \in B : f[i] = j
    BY <1>5
  <2>4. QED
    BY <2>1, <2>2, <2>3, Fun_IsInj, Fun_IsSurj DEF Bijection, Injection, Surjection
<1>7. IsFiniteSet(A) /\ IsFiniteSet(B)
  BY CountIsNat
<1>8. IsFiniteSet(D) /\ Cardinality(D) = Cardinality(B)
  BY <1>6, <1>7, FS_Bijection DEF ExistsBijection
<1>9. C = A \cup D /\ A \cap D = {}
  BY <1>2
<1>10. Cardinality(A \cup D) = Cardinality(A) + Cardinality(D)
  <2>1. Cardinality(A \cap D) = 0
    BY <1>9, FS_EmptySet
  <2>2. Cardinality(A) \in Nat /\ Cardinality(D) \in Nat
    BY <1>7, <1>8, FS_CardinalityType
  <2> HIDE DEF A, D
  <2>3. Cardinality(A \cup D) = Cardinality(A) + Cardinality(D) - Cardinality(A \cap D)
    BY <1>7, <1>8, FS_Union
  <2>4. QED
    BY <2>1, <2>2, <2>3
<1>11. QED
  BY <1>8, <1>9, <1>10 DEF CountOf

LEMMA CountNone ==
  ASSUME NEW S, NEW s \in Seq(S), NEW T, \A i \in 1 .. Len(s) : s[i] \notin T
  PROVE  CountOf(s, T) = 0
<1>1. {i \in 1 .. Len(s) : s[i] \in T} = {}
  OBVIOUS
<1>2. QED
  BY <1>1, FS_EmptySet DEF CountOf

\* A count of zero leaves no element, and any element counts.
LEMMA CountSome ==
  ASSUME NEW S, NEW s \in Seq(S), NEW T, CountOf(s, T) = 0, NEW i \in 1 .. Len(s)
  PROVE  s[i] \notin T
<1>1. {j \in 1 .. Len(s) : s[j] \in T} = {}
  <2>1. IsFiniteSet({j \in 1 .. Len(s) : s[j] \in T})
    BY CountIsNat
  <2>2. Cardinality({j \in 1 .. Len(s) : s[j] \in T}) = 0
    BY DEF CountOf
  <2>3. QED
    BY <2>1, <2>2, FS_EmptySet
<1>2. QED
  BY <1>1

LEMMA CountEmpty == \A T : CountOf(<<>>, T) = 0
<1>1. SUFFICES ASSUME NEW T PROVE CountOf(<<>>, T) = 0
  OBVIOUS
<1>2. {i \in 1 .. Len(<<>>) : <<>>[i] \in T} = {}
  OBVIOUS
<1>3. QED
  BY <1>2, FS_EmptySet DEF CountOf

LEMMA CountOne ==
  ASSUME NEW e, NEW T
  PROVE  CountOf(<<e>>, T) = IF e \in T THEN 1 ELSE 0
<1>1. Len(<<e>>) = 1 /\ <<e>>[1] = e
  OBVIOUS
<1>2. {i \in 1 .. Len(<<e>>) : <<e>>[i] \in T} = IF e \in T THEN {1} ELSE {}
  BY <1>1
<1>3. Cardinality({1}) = 1 /\ Cardinality({}) = 0
  BY FS_Singleton, FS_EmptySet
<1>4. QED
  BY <1>2, <1>3 DEF CountOf

LEMMA CountAppend ==
  ASSUME NEW S, NEW s \in Seq(S), NEW e \in S, NEW T
  PROVE  CountOf(Append(s, e), T) = CountOf(s, T) + (IF e \in T THEN 1 ELSE 0)
<1>1. Append(s, e) = s \o <<e>> /\ <<e>> \in Seq(S)
  BY AppendIsConcat
<1>2. CountOf(s \o <<e>>, T) = CountOf(s, T) + CountOf(<<e>>, T)
  BY <1>1, CountConcat
<1>3. QED
  BY <1>1, <1>2, CountOne

LEMMA CountTail ==
  ASSUME NEW S, NEW s \in Seq(S), s # <<>>, NEW T
  PROVE  CountOf(s, T) = CountOf(Tail(s), T) + (IF Head(s) \in T THEN 1 ELSE 0)
<1>1. Head(s) \in S /\ Tail(s) \in Seq(S) /\ <<Head(s)>> \in Seq(S)
  BY HeadTailProperties
<1>2. s = <<Head(s)>> \o Tail(s)
  <2>1. /\ Len(s) \in Nat \ {0} /\ Len(Tail(s)) = Len(s) - 1
        /\ \A i \in 1 .. Len(Tail(s)) : Tail(s)[i] = s[i + 1]
    BY HeadTailProperties, EmptySeq
  <2>2. /\ <<Head(s)>> \o Tail(s) \in Seq(S)
        /\ Len(<<Head(s)>> \o Tail(s)) = 1 + Len(Tail(s))
        /\ \A i \in 1 .. 1 + Len(Tail(s)) :
             (<<Head(s)>> \o Tail(s))[i] = IF i <= 1 THEN s[1] ELSE Tail(s)[i - 1]
    BY <1>1, ConcatProperties
  <2>3. ASSUME NEW i \in 1 .. Len(s) PROVE s[i] = (<<Head(s)>> \o Tail(s))[i]
    <3>1. CASE i = 1
      BY <2>1, <2>2, <3>1
    <3>2. CASE i # 1
      <4>1. i - 1 \in 1 .. Len(Tail(s)) /\ (i - 1) + 1 = i /\ ~(i <= 1)
        BY <2>1, <3>2
      <4>2. Tail(s)[i - 1] = s[i]
        BY <2>1, <4>1
      <4>3. QED
        BY <2>1, <2>2, <4>1, <4>2
    <3>3. QED
      BY <3>1, <3>2
  <2>4. Len(s) = Len(<<Head(s)>> \o Tail(s))
    BY <2>1, <2>2
  <2>5. QED
    BY <2>2, <2>3, <2>4, SeqEqual
<1>3. CountOf(<<Head(s)>> \o Tail(s), T) = CountOf(<<Head(s)>>, T) + CountOf(Tail(s), T)
  BY <1>1, CountConcat
<1>4. CountOf(Tail(s), T) \in Nat /\ CountOf(<<Head(s)>>, T) = IF Head(s) \in T THEN 1 ELSE 0
  BY <1>1, CountIsNat, CountOne
<1> DEFINE h == <<Head(s)>>
           t == Tail(s)
<1> HIDE DEF h, t
<1>5. CountOf(s, T) = CountOf(h, T) + CountOf(t, T)
  BY <1>2, <1>3, Zenon DEF h, t
<1>6. QED
  BY <1>4, <1>5 DEF h, t

\* Sequences with the same pattern are counted alike.
LEMMA CountSame ==
  ASSUME NEW s, NEW r, NEW T, NEW U, Len(s) = Len(r),
         \A i \in 1 .. Len(s) : s[i] \in T <=> r[i] \in U
  PROVE  CountOf(s, T) = CountOf(r, U)
<1>1. {i \in 1 .. Len(s) : s[i] \in T} = {i \in 1 .. Len(r) : r[i] \in U}
  OBVIOUS
<1>2. QED
  BY <1>1 DEF CountOf

-----------------------------------------------------------------------------
(***************************************************************************)
(* The types of the variables. What a message may name depends on the      *)
(* records and on the tasks that have been sent.                           *)
(***************************************************************************)

Statuses   == {"absent"} \cup Pending \cup Final
Maybe(S)   == S \cup {NoTask}
DriverSt   == {"disconnected", "connecting", "ready", "errored", "estopped"}
Progress   == {"started", "paused", "finished", "cancelled", "errored"}
Entries(S) == Seq([task : S, status : Progress])

Machines(S) ==
  [conn : {"none", "dead", "live"}, attempting : BOOLEAN, seen : BOOLEAN,
   data : BOOLEAN,
   status : {"Disconnected", "Connecting", "Ready", "Errored", "Stopped", "Printing"},
   task : Maybe(Prints), paused : BOOLEAN, saved : Maybe(Prints \cap S),
   blocked : BOOLEAN, homed : BOOLEAN]

Drivers(S) ==
  [up : BOOLEAN, st : DriverSt, spool : Seq(S), prog : Entries(S),
   idle : BOOLEAN, old : BOOLEAN]

Jobs == [phase : {"none", "compiling", "failing", "settling"}, auto : BOOLEAN,
         held : BOOLEAN, late : BOOLEAN]

Signals == [type : {"Connect", "Closed", "Broken", "Stop", "ResetWhenIdle",
                    "StopMachine", "ResetMachine", "AddDevice"}]
Inits   == [type : {"Init"}, old : BOOLEAN]

Feedbacks == [type : {"Feedback"}, st : DriverSt, prog : Entries(Task),
              flag : Maybe(Prints), blocking : BOOLEAN]

SpoolTasks  == [type : {"SpoolTask"}, task : Inlines, override : BOOLEAN, fresh : BOOLEAN]
SpoolPrints == [type : {"SpoolPrint"}, task : Prints, auto : BOOLEAN, fresh : BOOLEAN,
                late : BOOLEAN]
Pauses      == [type : {"Pause"}, task : Prints]
Resumes     == [type : {"Resume"}, task : Prints, hook : Inlines, fresh : BOOLEAN,
                freshHook : BOOLEAN]

Mailable == Signals \cup Inits \cup Feedbacks \cup SpoolTasks \cup SpoolPrints
              \cup Pauses \cup Resumes

\* A message names records that exist, and its copy of one is fresh only while the
\* record is as it was created; a feedback names what has been sent.
Names(e, r, S) ==
  /\ e.type \in {"SpoolTask", "SpoolPrint", "Pause", "Resume"} => r[e.task] # "absent"
  /\ e.type \in {"SpoolTask", "SpoolPrint", "Resume"} /\ e.fresh => r[e.task] = "created"
  /\ e.type = "Resume" => r[e.hook] # "absent" /\ (e.freshHook => r[e.hook] = "created")
  /\ e.type = "Feedback" => e.prog \in Entries(S) /\ e.flag \in Maybe(S)

Messages(r, S) == {e \in Mailable : Names(e, r, S)}

\* What is sent to the driver.
Wireable == [type : {"Hello", "ResetWhenIdle", "Estop"}]
              \cup [type : {"SpoolTask"}, task : Task, override : BOOLEAN]
              \cup [type : {"Pause"}, task : Prints]
              \cup [type : {"DeleteTaskHistory"}, task : Task]

Wires(S) == {e \in Wireable : e.type = "SpoolTask" => e.task \in S}

TypeOK ==
  /\ rec \in [Task -> Statuses]
  /\ job \in [Prints -> Jobs]
  /\ resuming \subseteq Prints
  /\ m \in Machines(sent)
  /\ mail \in Seq(Messages(rec, sent))
  /\ retry \in BOOLEAN
  /\ wire \in Seq(Wires(sent))
  /\ drv \in Drivers(sent)
  /\ credit \in [Task -> Int]
  /\ sent \subseteq Task
  /\ parted \in BOOLEAN /\ crossed \in BOOLEAN
  /\ ops \in Nat /\ faults \in Nat

-----------------------------------------------------------------------------
(***************************************************************************)
(* The inductive invariant.                                                *)
(***************************************************************************)

\* attempting_to_connect is only left set while a stream lives or an end of it or
\* a restart is still to be handled.
AttemptsEnd ==
  m.attempting => m.conn = "live" \/ Waiting("Closed") \/ Waiting("Stop")

One(b) == IF b THEN 1 ELSE 0

\* The messages that make the actor send a task.
Carry(t) == {e \in Mailable : \/ e.type \in {"SpoolTask", "SpoolPrint"} /\ e.task = t
                              \/ e.type = "Resume" /\ t \in {e.task, e.hook}}

\* A task is carried as often as it has credit.
Credited ==
  \A t \in Task : CountOf(mail, Carry(t)) + One(t \in Prints /\ job[t].phase = "compiling")
                    <= credit[t]

\* A print is inserted once: it is compiled once, and asked for once.
Asks(p)  == {e \in Mailable : e.type = "SpoolPrint" /\ e.task = p}
Asked(p) == One(job[p].phase # "none") + CountOf(mail, Asks(p))

Inserted ==
  \A p \in Prints :
    /\ Asked(p) <= 1
    /\ job[p].phase # "none" => rec[p] # "absent"
    /\ job[p].phase = "compiling" /\ job[p].held => rec[p] = "created"

\* Only what was sent comes to its end in the driver.
EndsAreSent ==
  \A t \in Task : /\ rec[t] \in {"finished", "cancelled"} => t \in sent
                  /\ t \in sent => rec[t] # "absent"

\* A print is in one place: with its insertion, on the way to the driver, in its
\* spool, in the feedback that answers its pause, or in the paused state.
Answers(p) == {e \in Mailable : e.type = "Feedback" /\ e.flag = p}
OnWire(p)  == {e \in Wireable : e.type = "SpoolTask" /\ e.task = p}

Places(p) == Asked(p) + CountOf(mail, Answers(p)) + CountOf(wire, OnWire(p))
               + CountOf(drv.spool, {p}) + One(m.saved = p)

InOnePlace ==
  \A p \in Prints : Places(p) <= 1 /\ (p \in sent => Asked(p) = 0)

IInv ==
  /\ TypeOK
  /\ NeverStranded
  /\ AttemptsEnd
  /\ Credited
  /\ Inserted
  /\ EndsAreSent
  /\ ~crossed => InOnePlace

-----------------------------------------------------------------------------
(***************************************************************************)
(* The operators of the model.                                             *)
(***************************************************************************)

LEMMA WithoutUnfolds ==
  ASSUME NEW X, NEW s \in Seq(X), NEW gone
  PROVE  \E g \in [0 .. Len(s) -> Seq(X)] :
           /\ Without(s, gone) = g[Len(s)]
           /\ \A k \in 0 .. Len(s) :
                g[k] = IF k = 0 THEN <<>>
                       ELSE IF k \in gone THEN g[k - 1] ELSE Append(g[k - 1], s[k])
<1> DEFINE n == Len(s)
           Y == Seq(X)
           Step(x, k) == IF k \in gone THEN x ELSE Append(x, s[k])
           D == [k \in 1 .. n |-> [x \in Y |-> Step(x, k)]]
           Sol(g) == g = [k \in 0 .. n |-> IF k = 0 THEN <<>>
                                           ELSE IF k \in gone THEN g[k - 1]
                                                ELSE Append(g[k - 1], s[k])]
           f == CHOOSE h : Sol(h)
<1>0. n \in Nat /\ <<>> \in Y
  OBVIOUS
<1>1. \A x \in Y, k \in 1 .. n : Step(x, k) \in Y
  OBVIOUS
<1>2. \A x \in Y, k \in 1 .. n : D[k][x] = Step(x, k)
  BY Zenon
<1>3. D \in [1 .. n -> [Y -> Y]]
  <2> HIDE DEF n, Y, Step
  <2>1. QED
    BY <1>1
<1>4. PICK g \in [0 .. n -> Y] :
        \A k \in 0 .. n : g[k] = IF k = 0 THEN <<>> ELSE D[k][g[k - 1]]
  <2> DEFINE c == <<>>
  <2> HIDE DEF n, D, Y, Step, c
  <2>1. n \in Nat /\ c \in Y
    BY <1>0 DEF c
  <2>2. \E g \in [0 .. n -> Y] : Solves(g, n, c, D)
    BY <1>3, <2>1, RecursionExists
  <2>3. QED
    BY <2>2 DEF c, Solves
<1>5. Sol(g)
  <2>1. ASSUME NEW k \in 0 .. n PROVE g[k] = IF k = 0 THEN <<>> ELSE Step(g[k - 1], k)
    <3>1. CASE k = 0
      BY <1>4, <3>1
    <3>2. CASE k # 0
      <4>1. k - 1 \in 0 .. n /\ k \in 1 .. n
        BY <1>0, <3>2
      <4> HIDE DEF D, Step, n, Y
      <4>2. g[k - 1] \in Y
        BY <4>1
      <4>3. g[k] = D[k][g[k - 1]]
        BY <1>4, <3>2
      <4>4. QED
        BY <1>2, <3>2, <4>1, <4>2, <4>3
    <3>3. QED
      BY <3>1, <3>2
  <2> HIDE DEF D, n
  <2>2. g = [k \in 0 .. n |-> g[k]]
    OBVIOUS
  <2>3. QED
    BY <2>1, <2>2
<1>6. Sol(f)
  BY <1>5, Zenon
<1> HIDE DEF f, D
<1>7. \A k \in 0 .. n : f[k] = IF k = 0 THEN <<>> ELSE Step(f[k - 1], k)
  BY <1>6
<1>8. 0 .. n \subseteq {k \in 0 .. n : f[k] \in Y}
  <2> DEFINE T == {k \in 0 .. n : f[k] \in Y}
  <2>1. 0 \in T
    <3> HIDE DEF Step, Y, n
    <3>1. QED
      BY <1>0, <1>7
  <2>2. ASSUME NEW k \in 0 .. n - 1, k \in T PROVE k + 1 \in T
    <3>1. k + 1 \in 1 .. n /\ k + 1 \in 0 .. n /\ (k + 1) - 1 = k /\ k + 1 # 0
      BY <1>0
    <3>2. f[k] \in Y
      BY <2>2
    <3> HIDE DEF Y, Step, n
    <3>3. f[k + 1] = Step(f[k], k + 1)
      BY <1>7, <3>1
    <3>4. QED
      BY <1>1, <3>1, <3>2, <3>3
  <2> HIDE DEF T
  <2>3. QED
    BY <1>0, <2>1, <2>2, IntervalInduction DEF T
<1>9. f \in [0 .. n -> Y]
  <2> HIDE DEF Y
  <2>1. f = [k \in 0 .. n |-> f[k]]
    BY <1>6
  <2>2. QED
    BY <1>8, <2>1
<1>10. Without(s, gone) = f[n]
  BY DEF Without, f
<1>11. QED
  BY <1>7, <1>9, <1>10

\* What is left keeps its order, so nothing is counted twice, and what was to go
\* is gone.
LEMMA WithoutCounts ==
  ASSUME NEW X, NEW s \in Seq(X), NEW gone, NEW T
  PROVE  /\ Without(s, gone) \in Seq(X)
         /\ CountOf(Without(s, gone), T) <= CountOf(s, T)
         /\ (\A i \in 1 .. Len(s) : s[i] \in T => i \in gone) => CountOf(Without(s, gone), T) = 0
<1> DEFINE n == Len(s)
           pre(k) == SubSeq(s, 1, k)
           All == \A i \in 1 .. n : s[i] \in T => i \in gone
<1>1. PICK g \in [0 .. n -> Seq(X)] :
        /\ Without(s, gone) = g[n]
        /\ \A k \in 0 .. n : g[k] = IF k = 0 THEN <<>>
                                    ELSE IF k \in gone THEN g[k - 1] ELSE Append(g[k - 1], s[k])
  BY WithoutUnfolds
<1> DEFINE Fine(k) == /\ CountOf(g[k], T) <= CountOf(pre(k), T)
                      /\ All => CountOf(g[k], T) = 0
           U == {k \in 0 .. n : Fine(k)}
<1>2. n \in Nat /\ \A k \in 0 .. n : pre(k) \in Seq(X) /\ g[k] \in Seq(X)
  OBVIOUS
<1>3. 0 \in U
  <2>1. pre(0) = <<>> /\ g[0] = <<>>
    BY <1>1, <1>2, SubSeqEmpty
  <2>2. CountOf(<<>>, T) = 0
    BY CountEmpty
  <2> HIDE DEF pre, n, All
  <2>3. QED
    BY <1>2, <2>1, <2>2
<1>4. ASSUME NEW k \in 0 .. n - 1, k \in U PROVE k + 1 \in U
  <2>1. k \in 0 .. n /\ k + 1 \in 1 .. n /\ k + 1 \in 0 .. n /\ k + 1 # 0 /\ (k + 1) - 1 = k
    BY <1>2
  <2>2. pre(k + 1) = Append(pre(k), s[k + 1]) /\ s[k + 1] \in X
    BY <1>2, <2>1
  <2>3. g[k + 1] = IF k + 1 \in gone THEN g[k] ELSE Append(g[k], s[k + 1])
    <3> HIDE DEF n
    <3>1. QED
      BY <1>1, <2>1
  <2> HIDE DEF pre, n
  <2>4. /\ CountOf(pre(k), T) \in Nat /\ CountOf(g[k], T) \in Nat
        /\ CountOf(pre(k + 1), T) = CountOf(pre(k), T) + (IF s[k + 1] \in T THEN 1 ELSE 0)
        /\ CountOf(Append(g[k], s[k + 1]), T) = CountOf(g[k], T) + (IF s[k + 1] \in T THEN 1 ELSE 0)
    <3>1. CountOf(pre(k), T) \in Nat /\ CountOf(g[k], T) \in Nat
      BY <1>2, <2>1, CountIsNat
    <3>2. \A x \in Seq(X) :
            CountOf(Append(x, s[k + 1]), T) = CountOf(x, T) + (IF s[k + 1] \in T THEN 1 ELSE 0)
      BY <2>2, CountAppend
    <3>3. QED
      BY <1>2, <2>1, <2>2, <3>1, <3>2
  <2>5. Fine(k)
    BY <1>4
  <2>6. CASE k + 1 \in gone
    BY <2>1, <2>3, <2>4, <2>5, <2>6
  <2>7. CASE k + 1 \notin gone
    <3>1. All => s[k + 1] \notin T
      BY <2>1, <2>7
    <3>2. g[k + 1] = Append(g[k], s[k + 1])
      BY <2>3, <2>7
    <3> HIDE DEF All
    <3>3. CountOf(g[k + 1], T) <= CountOf(pre(k + 1), T)
      BY <2>4, <2>5, <3>2
    <3>4. All => CountOf(g[k + 1], T) = 0
      BY <2>4, <2>5, <3>1, <3>2
    <3>5. QED
      BY <2>1, <3>3, <3>4
  <2>8. QED
    BY <2>6, <2>7
<1>5. Fine(n)
  <2> HIDE DEF U, n, Fine
  <2>1. 0 .. n \subseteq U
    BY <1>2, <1>3, <1>4, IntervalInduction
  <2>2. n \in U
    BY <1>2, <2>1
  <2>3. QED
    BY <2>2 DEF U
<1>6. pre(n) = s
  BY SubSeqFull
<1>7. Without(s, gone) \in Seq(X)
  BY <1>1, <1>2
<1>8. QED
  <2> HIDE DEF pre
  <2>1. QED
    BY <1>1, <1>5, <1>6, <1>7

\* An entry of the history of tasks, within any set of entries.
LEMMA PutIn ==
  ASSUME NEW E, NEW prog \in Seq(E), NEW t, NEW status, [task |-> t, status |-> status] \in E,
         \A e \in E : e.task = t => [e EXCEPT !.status = status] \in E
  PROVE  Put(prog, t, status) \in Seq(E)
<1> DEFINE q == [i \in 1 .. Len(prog) |->
                   IF prog[i].task = t THEN [prog[i] EXCEPT !.status = status] ELSE prog[i]]
<1>1. Len(prog) \in Nat /\ \A i \in 1 .. Len(prog) : prog[i] \in E
  OBVIOUS
<1>2. \A i \in 1 .. Len(prog) : q[i] \in E
  BY <1>1
<1>3. q \in Seq(E)
  BY <1>1, <1>2
<1> DEFINE e == [task |-> t, status |-> status]
<1>4. e \in E
  OBVIOUS
<1> HIDE DEF e
<1>5. Append(prog, e) \in Seq(E)
  BY <1>4
<1>6. QED
  BY <1>3, <1>5 DEF Put, e

LEMMA PutType ==
  ASSUME NEW S, NEW prog \in Entries(S), NEW t \in S, NEW status \in Progress
  PROVE  Put(prog, t, status) \in Entries(S)
<1> DEFINE E == [task : S, status : Progress]
<1>1. [task |-> t, status |-> status] \in E /\ \A e \in E : [e EXCEPT !.status = status] \in E
  OBVIOUS
<1>2. prog \in Seq(E)
  BY DEF Entries
<1> HIDE DEF E
<1>3. Put(prog, t, status) \in Seq(E)
  BY <1>1, <1>2, PutIn
<1>4. QED
  BY <1>3 DEF Entries, E

\* What is put for one task after the other.
LEMMA PutAllUnfolds ==
  ASSUME NEW Y, NEW prog \in Y, NEW T, NEW ts \in Seq(T), NEW status,
         \A x \in Y, t \in T : Put(x, t, status) \in Y
  PROVE  \E g \in [0 .. Len(ts) -> Y] :
           /\ PutAll(prog, ts, status) = g
           /\ \A k \in 0 .. Len(ts) : g[k] = IF k = 0 THEN prog ELSE Put(g[k - 1], ts[k], status)
<1> DEFINE n == Len(ts)
           Step(x, k) == Put(x, ts[k], status)
           D == [k \in 1 .. n |-> [x \in Y |-> Step(x, k)]]
           Sol(g) == g = [k \in 0 .. n |-> IF k = 0 THEN prog ELSE Put(g[k - 1], ts[k], status)]
           f == CHOOSE h : Sol(h)
<1>1. n \in Nat /\ prog \in Y
  OBVIOUS
<1>2. \A x \in Y, k \in 1 .. n : Step(x, k) \in Y
  <2>1. \A k \in 1 .. n : ts[k] \in T
    OBVIOUS
  <2>2. QED
    BY <2>1
<1>3. D \in [1 .. n -> [Y -> Y]] /\ \A x \in Y, k \in 1 .. n : D[k][x] = Step(x, k)
  <2> HIDE DEF n, Step
  <2>1. QED
    BY <1>2
<1>4. PICK g \in [0 .. n -> Y] : Solves(g, n, prog, D)
  <2> HIDE DEF n, D, Step
  <2>1. QED
    BY <1>1, <1>3, RecursionExists
<1>5. Sol(g)
  <2>1. ASSUME NEW k \in 0 .. n PROVE g[k] = IF k = 0 THEN prog ELSE Step(g[k - 1], k)
    <3>1. CASE k = 0
      BY <1>4, <3>1 DEF Solves
    <3>2. CASE k # 0
      <4>1. k - 1 \in 0 .. n /\ k \in 1 .. n
        BY <1>1, <3>2
      <4> HIDE DEF D, Step, n
      <4>2. g[k - 1] \in Y
        BY <4>1
      <4>3. g[k] = D[k][g[k - 1]]
        BY <1>4, <3>2 DEF Solves
      <4>4. QED
        BY <1>3, <3>2, <4>1, <4>2, <4>3
    <3>3. QED
      BY <3>1, <3>2
  <2> HIDE DEF D, n
  <2>2. g = [k \in 0 .. n |-> g[k]]
    OBVIOUS
  <2>3. QED
    BY <2>1, <2>2
<1>6. Sol(f)
  BY <1>5, Zenon
<1> HIDE DEF f, D
<1>7. \A k \in 0 .. n : f[k] = IF k = 0 THEN prog ELSE Step(f[k - 1], k)
  BY <1>6
<1>8. 0 .. n \subseteq {k \in 0 .. n : f[k] \in Y}
  <2> DEFINE U == {k \in 0 .. n : f[k] \in Y}
  <2>1. 0 \in U
    <3> HIDE DEF Step, n
    <3>1. QED
      BY <1>1, <1>7
  <2>2. ASSUME NEW k \in 0 .. n - 1, k \in U PROVE k + 1 \in U
    <3>1. k + 1 \in 1 .. n /\ k + 1 \in 0 .. n /\ (k + 1) - 1 = k /\ k + 1 # 0
      BY <1>1
    <3>2. f[k] \in Y
      BY <2>2
    <3> HIDE DEF Step, n
    <3>3. f[k + 1] = Step(f[k], k + 1)
      BY <1>7, <3>1
    <3>4. QED
      BY <1>2, <3>1, <3>2, <3>3
  <2> HIDE DEF U
  <2>3. QED
    BY <1>1, <2>1, <2>2, IntervalInduction DEF U
<1>9. f \in [0 .. n -> Y]
  <2>1. f = [k \in 0 .. n |-> f[k]]
    BY <1>6
  <2> HIDE DEF n
  <2>2. QED
    BY <1>8, <2>1
<1>10. PutAll(prog, ts, status) = f
  BY DEF PutAll, f
<1>11. QED
  BY <1>7, <1>9, <1>10

LEMMA PutAllIn ==
  ASSUME NEW Y, NEW prog \in Y, NEW T, NEW ts \in Seq(T), NEW status,
         \A x \in Y, t \in T : Put(x, t, status) \in Y
  PROVE  PutAll(prog, ts, status)[Len(ts)] \in Y
<1>1. Len(ts) \in Nat
  OBVIOUS
<1>2. QED
  BY <1>1, PutAllUnfolds

LEMMA PutAllType ==
  ASSUME NEW S, NEW prog \in Entries(S), NEW ts \in Seq(S), NEW status \in Progress
  PROVE  PutAll(prog, ts, status)[Len(ts)] \in Entries(S)
BY PutType, PutAllIn

\* The spool and the progress of the driver keep to what was sent.
LEMMA RunType ==
  ASSUME NEW S, NEW d \in Drivers(S)
  PROVE  Run(d) \in Drivers(S) /\ Run(d).spool = d.spool
<1>1. CASE d.spool = <<>>
  BY <1>1 DEF Run
<1>2. CASE d.spool # <<>>
  <2>1. d.spool \in Seq(S) /\ d.prog \in Entries(S)
    BY DEF Drivers
  <2>2. Head(d.spool) \in S
    BY <1>2, <2>1
  <2>3. Put(d.prog, Head(d.spool), "started") \in Entries(S)
    BY <2>1, <2>2, PutType DEF Progress
  <2>4. QED
    BY <1>2, <2>3 DEF Run, Drivers
<1>3. QED
  BY <1>1, <1>2

LEMMA LoseType ==
  ASSUME NEW S, NEW d \in Drivers(S), NEW st \in DriverSt, NEW status \in Progress
  PROVE  Lose(d, st, status) \in Drivers(S) /\ Lose(d, st, status).spool = <<>>
<1>1. d.spool \in Seq(S) /\ d.prog \in Entries(S)
  BY DEF Drivers
<1>2. PutAll(d.prog, d.spool, status)[Len(d.spool)] \in Entries(S)
  BY <1>1, PutAllType
<1>3. <<>> \in Seq(S) /\ d \in Drivers(S)
  OBVIOUS
<1>4. Lose(d, st, status) =
        [d EXCEPT !.st = st, !.spool = <<>>,
                  !.prog = PutAll(d.prog, d.spool, status)[Len(d.spool)]]
  BY DEF Lose
<1> DEFINE q == PutAll(d.prog, d.spool, status)[Len(d.spool)]
<1> HIDE DEF q
<1>5. QED
  BY <1>2, <1>3, <1>4 DEF Drivers, q

\* What grows with the tasks that are sent.
LEMMA GrowsWithSent ==
  ASSUME NEW S, NEW U, S \subseteq U
  PROVE  /\ Machines(S) \subseteq Machines(U)
         /\ Drivers(S) \subseteq Drivers(U)
         /\ Entries(S) \subseteq Entries(U)
         /\ Seq(Wires(S)) \subseteq Seq(Wires(U))
<1>1. Machines(S) \subseteq Machines(U)
  BY DEF Machines, Maybe
<1>2. Entries(S) \subseteq Entries(U)
  <2>1. [task : S, status : Progress] \subseteq [task : U, status : Progress]
    OBVIOUS
  <2>2. QED
    BY <2>1, SeqMonotonic DEF Entries
<1>3. Seq(S) \subseteq Seq(U)
  BY SeqMonotonic
<1>4. Drivers(S) \subseteq Drivers(U)
  BY <1>2, <1>3 DEF Drivers
<1>5. Wires(S) \subseteq Wires(U)
  BY DEF Wires
<1>6. QED
  BY <1>1, <1>2, <1>4, <1>5, SeqMonotonic

\* Which set a message is from is told by its type.
LEMMA MailableByType ==
  ASSUME NEW e \in Mailable
  PROVE  /\ e.type = "SpoolTask" => e \in SpoolTasks
         /\ e.type = "SpoolPrint" => e \in SpoolPrints
         /\ e.type = "Pause" => e \in Pauses
         /\ e.type = "Resume" => e \in Resumes
         /\ e.type = "Feedback" => e \in Feedbacks
         /\ e.type = "Init" => e \in Inits
         /\ e.type \notin {"SpoolTask", "SpoolPrint", "Pause", "Resume", "Feedback", "Init"}
              => e \in Signals
<1> USE DEF SpoolTasks, SpoolPrints, Pauses, Resumes, Feedbacks, Inits, Signals
<1>1. CASE e \in SpoolTasks
  BY <1>1
<1>2. CASE e \in SpoolPrints
  BY <1>2
<1>3. CASE e \in Pauses
  BY <1>3
<1>4. CASE e \in Resumes
  BY <1>4
<1>5. CASE e \in Feedbacks
  BY <1>5
<1>6. CASE e \in Inits
  BY <1>6
<1>7. CASE e \in Signals
  BY <1>7
<1>8. QED
  BY <1>1, <1>2, <1>3, <1>4, <1>5, <1>6, <1>7 DEF Mailable

\* Making copies stale changes neither what the messages are nor whom they name,
\* and keeps them true to records that change within ts.
Stale(ts, e) ==
  CASE e.type = "SpoolTask" -> [e EXCEPT !.fresh = @ /\ e.task \notin ts]
    [] e.type = "SpoolPrint" -> [e EXCEPT !.fresh = @ /\ e.task \notin ts,
                                          !.late = IF e.task \in ts THEN e.fresh ELSE @]
    [] e.type = "Resume" -> [e EXCEPT !.fresh = @ /\ e.task \notin ts,
                                      !.freshHook = @ /\ e.hook \notin ts]
    [] OTHER -> e

LEMMA StaleOne ==
  ASSUME NEW e \in Mailable, NEW ts, NEW r, NEW u, NEW S, NEW U,
         Names(e, r, S), Entries(S) \subseteq Entries(U), S \subseteq U,
         \A t \in Task : r[t] # "absent" => u[t] # "absent",
         \A t \in Task : t \notin ts /\ r[t] = "created" => u[t] = "created"
  PROVE  /\ Stale(ts, e) \in Mailable /\ Names(Stale(ts, e), u, U)
         /\ Stale(ts, e).type = e.type
         /\ \A t \in Task : Stale(ts, e) \in Carry(t) <=> e \in Carry(t)
         /\ \A p \in Prints : Stale(ts, e) \in Asks(p) <=> e \in Asks(p)
         /\ \A p \in Prints : Stale(ts, e) \in Answers(p) <=> e \in Answers(p)
<1> DEFINE x == Stale(ts, e)
<1>0. x = Stale(ts, e)
  OBVIOUS
<1> HIDE DEF x
<1> USE DEF Carry, Asks, Answers, Task
<1>1. CASE e.type = "SpoolTask"
  <2>1. e \in SpoolTasks /\ x = [e EXCEPT !.fresh = @ /\ e.task \notin ts]
    BY <1>1, <1>0, MailableByType DEF Stale
  <2>2. x \in SpoolTasks /\ x.type = e.type /\ x.task = e.task /\ x.fresh = (e.fresh /\ e.task \notin ts)
    BY <2>1 DEF SpoolTasks
  <2>3. x \in Mailable /\ e.task \in Task
    BY <2>1, <2>2 DEF Mailable, SpoolTasks
  <2>4. QED
    BY <1>0, <1>1, <2>2, <2>3 DEF Names
<1>2. CASE e.type = "SpoolPrint"
  <2>1. e \in SpoolPrints /\ x = [e EXCEPT !.fresh = @ /\ e.task \notin ts,
                                           !.late = IF e.task \in ts THEN e.fresh ELSE @]
    BY <1>2, <1>0, MailableByType DEF Stale
  <2>2. x \in SpoolPrints /\ x.type = e.type /\ x.task = e.task /\ x.fresh = (e.fresh /\ e.task \notin ts)
    BY <2>1 DEF SpoolPrints
  <2>3. x \in Mailable /\ e.task \in Task
    BY <2>1, <2>2 DEF Mailable, SpoolPrints
  <2>4. QED
    BY <1>0, <1>2, <2>2, <2>3 DEF Names
<1>3. CASE e.type = "Resume"
  <2>1. e \in Resumes /\ x = [e EXCEPT !.fresh = @ /\ e.task \notin ts,
                                       !.freshHook = @ /\ e.hook \notin ts]
    BY <1>3, <1>0, MailableByType DEF Stale
  <2>2. /\ x \in Resumes /\ x.type = e.type /\ x.task = e.task /\ x.hook = e.hook
        /\ x.fresh = (e.fresh /\ e.task \notin ts)
        /\ x.freshHook = (e.freshHook /\ e.hook \notin ts)
    BY <2>1 DEF Resumes
  <2>3. x \in Mailable /\ e.task \in Task /\ e.hook \in Task
    BY <2>1, <2>2 DEF Mailable, Resumes
  <2>4. QED
    BY <1>0, <1>3, <2>2, <2>3 DEF Names
<1>4. CASE e.type \notin {"SpoolTask", "SpoolPrint", "Resume"}
  <2>1. x = e
    BY <1>0, <1>4 DEF Stale
  <2>2. e.type = "Pause" => e.task \in Task
    BY MailableByType DEF Pauses
  <2>3. Names(e, u, U)
    BY <1>4, <2>2 DEF Names, Maybe
  <2>4. QED
    BY <1>0, <2>1, <2>3
<1>5. QED
  BY <1>0, <1>1, <1>2, <1>3, <1>4

\* The records that have changed are among ts, none is removed, and more is sent.
Moved(r, u, S, U, ts) ==
  /\ S \subseteq U
  /\ \A t \in Task : r[t] # "absent" => u[t] # "absent"
  /\ \A t \in Task : t \notin ts /\ r[t] = "created" => u[t] = "created"

LEMMA StaleKeeps ==
  ASSUME NEW r, NEW u, NEW S, NEW U, NEW ts, Moved(r, u, S, U, ts),
         NEW box \in Seq(Messages(r, S))
  PROVE  /\ StaleIn(ts, box) \in Seq(Messages(u, U))
         /\ Len(StaleIn(ts, box)) = Len(box)
         /\ \A i \in 1 .. Len(box) : StaleIn(ts, box)[i].type = box[i].type
         /\ \A t \in Task : CountOf(StaleIn(ts, box), Carry(t)) = CountOf(box, Carry(t))
         /\ \A p \in Prints : CountOf(StaleIn(ts, box), Asks(p)) = CountOf(box, Asks(p))
         /\ \A p \in Prints : CountOf(StaleIn(ts, box), Answers(p)) = CountOf(box, Answers(p))
<1> DEFINE s == StaleIn(ts, box)
<1>1. s = [i \in 1 .. Len(box) |-> Stale(ts, box[i])]
  BY DEF StaleIn, Stale
<1>2. Len(box) \in Nat /\ \A i \in 1 .. Len(box) : box[i] \in Messages(r, S)
  OBVIOUS
<1>3. Entries(S) \subseteq Entries(U)
  BY GrowsWithSent DEF Moved
<1>4. ASSUME NEW i \in 1 .. Len(box)
      PROVE  /\ s[i] \in Messages(u, U) /\ s[i].type = box[i].type
             /\ \A t \in Task : s[i] \in Carry(t) <=> box[i] \in Carry(t)
             /\ \A p \in Prints : s[i] \in Asks(p) <=> box[i] \in Asks(p)
             /\ \A p \in Prints : s[i] \in Answers(p) <=> box[i] \in Answers(p)
  <2>1. s[i] = Stale(ts, box[i])
    BY <1>1
  <2>2. box[i] \in Mailable /\ Names(box[i], r, S)
    BY <1>2 DEF Messages
  <2> HIDE DEF s
  <2> DEFINE e == box[i]
  <2> HIDE DEF e
  <2>3. /\ Stale(ts, e) \in Mailable /\ Names(Stale(ts, e), u, U)
        /\ Stale(ts, e).type = e.type
        /\ \A t \in Task : Stale(ts, e) \in Carry(t) <=> e \in Carry(t)
        /\ \A p \in Prints : Stale(ts, e) \in Asks(p) <=> e \in Asks(p)
        /\ \A p \in Prints : Stale(ts, e) \in Answers(p) <=> e \in Answers(p)
    <3>1. e \in Mailable /\ Names(e, r, S)
      BY <2>2 DEF e
    <3>2. /\ S \subseteq U /\ \A t \in Task : r[t] # "absent" => u[t] # "absent"
          /\ \A t \in Task : t \notin ts /\ r[t] = "created" => u[t] = "created"
      BY DEF Moved
    <3>3. QED
      BY <1>3, <3>1, <3>2, StaleOne
  <2>4. QED
    BY <2>1, <2>3 DEF Messages, e
<1> HIDE DEF s
<1>5. s \in Seq(Messages(u, U)) /\ Len(s) = Len(box)
  BY <1>1, <1>2, <1>4
<1>6. \A t \in Task : CountOf(s, Carry(t)) = CountOf(box, Carry(t))
  BY <1>4, <1>5, CountSame
<1>7. \A p \in Prints : CountOf(s, Asks(p)) = CountOf(box, Asks(p))
  BY <1>4, <1>5, CountSame
<1>8. \A p \in Prints : CountOf(s, Answers(p)) = CountOf(box, Answers(p))
  BY <1>4, <1>5, CountSame
<1>9. QED
  BY <1>4, <1>5, <1>6, <1>7, <1>8 DEF s

LEMMA MessagesMove ==
  ASSUME NEW r, NEW u, NEW S, NEW U, Moved(r, u, S, U, {})
  PROVE  Seq(Messages(r, S)) \subseteq Seq(Messages(u, U))
<1>1. Entries(S) \subseteq Entries(U)
  BY GrowsWithSent DEF Moved
<1>2. ASSUME NEW e \in Messages(r, S) PROVE e \in Messages(u, U)
  <2>1. e \in Mailable /\ Names(e, r, S)
    BY DEF Messages
  <2>2. /\ e.type \in {"SpoolTask", "SpoolPrint", "Pause", "Resume"} => e.task \in Task
        /\ e.type = "Resume" => e.hook \in Task
    BY <2>1, MailableByType DEF SpoolTasks, SpoolPrints, Pauses, Resumes, Task
  <2>3. Names(e, u, U)
    BY <1>1, <2>1, <2>2 DEF Names, Moved, Maybe
  <2>4. QED
    BY <2>1, <2>3 DEF Messages
<1>3. QED
  BY <1>2, SeqMonotonic

\* Messages that carry no task and answer no pause.
Neutral(s) ==
  /\ \A t \in Task : CountOf(s, Carry(t)) = 0
  /\ \A p \in Prints : CountOf(s, Asks(p)) = 0 /\ CountOf(s, Answers(p)) = 0

LEMMA NeutralOnes ==
  /\ \A type \in {"Connect", "Closed", "Broken", "Stop", "ResetWhenIdle", "StopMachine",
                  "ResetMachine", "AddDevice"} :
       \A r, S : Msg(type) \in Messages(r, S) /\ Neutral(<<Msg(type)>>)
  /\ \A old \in BOOLEAN : \A r, S :
       [type |-> "Init", old |-> old] \in Messages(r, S) /\ Neutral(<<[type |-> "Init", old |-> old]>>)
  /\ \A p \in Prints : \A r, S :
       r[p] # "absent" => [type |-> "Pause", task |-> p] \in Messages(r, S) /\ Neutral(<<[type |-> "Pause", task |-> p]>>)
<1> USE DEF Messages, Names, Mailable, Neutral, Msg
<1>1. ASSUME NEW type \in {"Connect", "Closed", "Broken", "Stop", "ResetWhenIdle", "StopMachine",
                           "ResetMachine", "AddDevice"}, NEW r, NEW S
      PROVE  Msg(type) \in Messages(r, S) /\ Neutral(<<Msg(type)>>)
  <2>1. Msg(type) \in Signals
    BY DEF Signals
  <2>2. /\ \A t \in Task : Msg(type) \notin Carry(t)
        /\ \A p \in Prints : Msg(type) \notin Asks(p) /\ Msg(type) \notin Answers(p)
    BY DEF Carry, Asks, Answers
  <2>3. QED
    BY <2>1, <2>2, CountOne
<1>2. ASSUME NEW old \in BOOLEAN, NEW r, NEW S
      PROVE  [type |-> "Init", old |-> old] \in Messages(r, S) /\ Neutral(<<[type |-> "Init", old |-> old]>>)
  <2> DEFINE e == [type |-> "Init", old |-> old]
  <2>1. e \in Inits /\ e.type = "Init"
    BY DEF Inits
  <2> HIDE DEF e
  <2>2. /\ \A t \in Task : e \notin Carry(t)
        /\ \A p \in Prints : e \notin Asks(p) /\ e \notin Answers(p)
    BY <2>1 DEF Carry, Asks, Answers
  <2>3. e \in Messages(r, S) /\ Neutral(<<e>>)
    BY <2>1, <2>2, CountOne
  <2>4. QED
    BY <2>3 DEF e
<1>3. ASSUME NEW p \in Prints, NEW r, NEW S, r[p] # "absent"
      PROVE  [type |-> "Pause", task |-> p] \in Messages(r, S) /\ Neutral(<<[type |-> "Pause", task |-> p]>>)
  <2> DEFINE e == [type |-> "Pause", task |-> p]
  <2>1. e \in Pauses /\ e.type = "Pause" /\ e.task = p
    BY DEF Pauses
  <2> HIDE DEF e
  <2>2. /\ \A t \in Task : e \notin Carry(t)
        /\ \A q \in Prints : e \notin Asks(q) /\ e \notin Answers(q)
    BY <2>1 DEF Carry, Asks, Answers
  <2>3. e \in Messages(r, S) /\ Neutral(<<e>>)
    BY <1>3, <2>1, <2>2, CountOne
  <2>4. QED
    BY <2>3 DEF e
<1>4. QED
  BY <1>1, <1>2, <1>3

\* A feedback counts as the answer to the pause that it names, and as nothing else.
LEMMA FeedbackCounts ==
  ASSUME NEW r, NEW S, S \subseteq Task, NoTask \notin Prints,
         NEW d \in Drivers(S), NEW flag \in Maybe(Prints \cap S), NEW b \in BOOLEAN
  PROVE  /\ Feedback(d, flag, b) \in Messages(r, S)
         /\ Feedback(d, flag, b).type = "Feedback"
         /\ \A t \in Task : CountOf(<<Feedback(d, flag, b)>>, Carry(t)) = 0
         /\ \A p \in Prints : /\ CountOf(<<Feedback(d, flag, b)>>, Asks(p)) = 0
                              /\ CountOf(<<Feedback(d, flag, b)>>, Answers(p)) = One(flag = p)
<1> DEFINE e == Feedback(d, flag, b)
<1>1. d.st \in DriverSt /\ d.prog \in Entries(S) /\ d.prog \in Entries(Task)
  <2>1. d.st \in DriverSt /\ d.prog \in Entries(S)
    BY DEF Drivers
  <2>2. QED
    BY <2>1, GrowsWithSent
<1>2. /\ e \in Feedbacks /\ e.type = "Feedback" /\ e.flag = flag /\ e.prog = d.prog
  BY <1>1 DEF Feedback, Feedbacks, Maybe
<1> HIDE DEF e
<1>3. e \in Mailable /\ e \in Messages(r, S)
  BY <1>1, <1>2 DEF Mailable, Messages, Names, Maybe
<1>4. /\ \A t \in Task : e \notin Carry(t)
      /\ \A p \in Prints : e \notin Asks(p) /\ (e \in Answers(p) <=> flag = p)
  BY <1>2, <1>3 DEF Carry, Asks, Answers
<1>5. QED
  BY <1>2, <1>3, <1>4, CountOne DEF One, e

\* What a mailbox holds is counted at its head, its end and where it is joined.
LEMMA MailJoins ==
  ASSUME NEW M \in SUBSET Mailable, NEW s \in Seq(M), NEW x \in Seq(M)
  PROVE  /\ s \o x \in Seq(M)
         /\ \A t \in Task : CountOf(s \o x, Carry(t)) = CountOf(s, Carry(t)) + CountOf(x, Carry(t))
         /\ \A p \in Prints :
              /\ CountOf(s \o x, Asks(p)) = CountOf(s, Asks(p)) + CountOf(x, Asks(p))
              /\ CountOf(s \o x, Answers(p)) = CountOf(s, Answers(p)) + CountOf(x, Answers(p))
BY CountConcat, ConcatProperties

\* All that the invariant counts in the mailbox.
Counts(s) ==
  /\ \A t \in Task : CountOf(s, Carry(t)) \in Nat
  /\ \A p \in Prints : CountOf(s, Asks(p)) \in Nat /\ CountOf(s, Answers(p)) \in Nat

\* One mailbox counts for no more than another.
NoMore(s, x) ==
  /\ \A t \in Task : CountOf(s, Carry(t)) <= CountOf(x, Carry(t))
  /\ \A p \in Prints : /\ CountOf(s, Asks(p)) <= CountOf(x, Asks(p))
                       /\ CountOf(s, Answers(p)) <= CountOf(x, Answers(p))

LEMMA CountsAreNat ==
  ASSUME NEW M, NEW s \in Seq(M)
  PROVE  Counts(s)
BY CountIsNat DEF Counts

LEMMA NeutralEnd ==
  ASSUME NEW M, NEW s \in Seq(M), NEW x \in Seq(M), Neutral(x)
  PROVE  s \o x \in Seq(M) /\ NoMore(s \o x, s)
<1>1. s \o x \in Seq(M)
  OBVIOUS
<1>2. \A T : CountOf(s \o x, T) = CountOf(s, T) + CountOf(x, T) /\ CountOf(s, T) \in Nat
  BY CountConcat, CountIsNat
<1>3. QED
  BY <1>1, <1>2 DEF Neutral, NoMore

LEMMA NeutralTwo ==
  ASSUME NEW M, NEW e \in M, NEW f \in M, Neutral(<<e>>), Neutral(<<f>>)
  PROVE  <<e, f>> \in Seq(M) /\ Neutral(<<e, f>>)
<1>1. <<e, f>> = Append(<<e>>, f) /\ <<e>> \in Seq(M) /\ <<e, f>> \in Seq(M)
  OBVIOUS
<1>2. ASSUME NEW T, CountOf(<<e>>, T) = 0, CountOf(<<f>>, T) = 0
      PROVE  CountOf(<<e, f>>, T) = 0
  <2>1. f \notin T
    BY <1>2, CountOne
  <2> DEFINE s == <<e>>
  <2> HIDE DEF s
  <2>2. CountOf(Append(s, f), T) = 0
    <3>1. s \in Seq(M) /\ CountOf(s, T) = 0
      BY <1>1, <1>2 DEF s
    <3>2. QED
      BY <2>1, <3>1, CountAppend
  <2>3. QED
    BY <1>1, <2>2 DEF s
<1>3. QED
  BY <1>1, <1>2 DEF Neutral

LEMMA TailCounts ==
  ASSUME NEW M, NEW s \in Seq(M), s # <<>>
  PROVE  /\ Head(s) \in M /\ Tail(s) \in Seq(M)
         /\ NoMore(Tail(s), s)
         /\ \A T : CountOf(s, T) = CountOf(Tail(s), T) + One(Head(s) \in T)
<1>1. Head(s) \in M /\ Tail(s) \in Seq(M)
  BY HeadTailProperties
<1>2. \A T : /\ CountOf(s, T) = CountOf(Tail(s), T) + (IF Head(s) \in T THEN 1 ELSE 0)
             /\ CountOf(Tail(s), T) \in Nat
  BY <1>1, CountTail, CountIsNat
<1>3. QED
  BY <1>1, <1>2 DEF NoMore, One

-----------------------------------------------------------------------------
(***************************************************************************)
(* How a step keeps the parts of the invariant.                            *)
(***************************************************************************)
Waits(box, type) == \E i \in 1 .. Len(box) : box[i].type = type

\* NeverStranded and AttemptsEnd, of any machine and mailbox.
Alive(mm, box, later) ==
  /\ mm.conn # "live" => \/ Waits(box, "Connect") \/ Waits(box, "Closed")
                         \/ Waits(box, "Stop") \/ later
  /\ mm.attempting => mm.conn = "live" \/ Waits(box, "Closed") \/ Waits(box, "Stop")

LEMMA AliveIs ==
  /\ NeverStranded /\ AttemptsEnd <=> Alive(m, mail, retry)
  /\ (NeverStranded /\ AttemptsEnd)' <=> Alive(m', mail', retry')
BY DEF NeverStranded, AttemptsEnd, Alive, Waiting, Waits

LEMMA WaitsJoin ==
  ASSUME NEW M, NEW s \in Seq(M), NEW x \in Seq(M), NEW type
  PROVE  Waits(s \o x, type) <=> Waits(s, type) \/ Waits(x, type)
<1>1. /\ Len(s) \in Nat /\ Len(x) \in Nat /\ Len(s \o x) = Len(s) + Len(x)
      /\ \A i \in 1 .. Len(s) + Len(x) :
           (s \o x)[i] = IF i <= Len(s) THEN s[i] ELSE x[i - Len(s)]
  BY ConcatProperties
<1>2. ASSUME Waits(s \o x, type) PROVE Waits(s, type) \/ Waits(x, type)
  <2>1. PICK i \in 1 .. Len(s) + Len(x) : (s \o x)[i].type = type
    BY <1>1, <1>2 DEF Waits
  <2>2. CASE i <= Len(s)
    BY <1>1, <2>1, <2>2 DEF Waits
  <2>3. CASE ~(i <= Len(s))
    <3>1. i - Len(s) \in 1 .. Len(x)
      BY <1>1, <2>3
    <3>2. QED
      BY <1>1, <2>1, <2>3, <3>1 DEF Waits
  <2>4. QED
    BY <2>2, <2>3
<1>3. ASSUME Waits(s, type) PROVE Waits(s \o x, type)
  <2>1. PICK i \in 1 .. Len(s) : s[i].type = type
    BY <1>3 DEF Waits
  <2>2. i \in 1 .. Len(s) + Len(x) /\ i <= Len(s)
    BY <1>1
  <2>3. QED
    BY <1>1, <2>1, <2>2 DEF Waits
<1>4. ASSUME Waits(x, type) PROVE Waits(s \o x, type)
  <2>1. PICK i \in 1 .. Len(x) : x[i].type = type
    BY <1>4 DEF Waits
  <2>2. i + Len(s) \in 1 .. Len(s) + Len(x) /\ ~(i + Len(s) <= Len(s)) /\ (i + Len(s)) - Len(s) = i
    BY <1>1
  <2>3. (s \o x)[i + Len(s)] = x[i]
    BY <1>1, <2>2
  <2>4. QED
    BY <1>1, <2>1, <2>2, <2>3 DEF Waits
<1>5. QED
  BY <1>2, <1>3, <1>4

LEMMA WaitsTail ==
  ASSUME NEW M, NEW s \in Seq(M), s # <<>>, NEW type, Head(s).type # type, Waits(s, type)
  PROVE  Waits(Tail(s), type)
<1>1. Len(Tail(s)) = Len(s) - 1 /\ Len(s) \in Nat /\ \A i \in 1 .. Len(Tail(s)) : Tail(s)[i] = s[i + 1]
  BY HeadTailProperties
<1>2. PICK i \in 1 .. Len(s) : s[i].type = type
  BY DEF Waits
<1>3. i # 1
  BY <1>2
<1>4. i - 1 \in 1 .. Len(Tail(s)) /\ (i - 1) + 1 = i
  BY <1>1, <1>3
<1>5. QED
  BY <1>1, <1>2, <1>4 DEF Waits

LEMMA WaitsOne ==
  \A type, e : Waits(<<e>>, type) <=> e.type = type
<1>1. SUFFICES ASSUME NEW type, NEW e PROVE Waits(<<e>>, type) <=> e.type = type
  OBVIOUS
<1>2. Len(<<e>>) = 1 /\ <<e>>[1] = e
  OBVIOUS
<1>3. QED
  BY <1>2 DEF Waits

LEMMA StaleWaits ==
  ASSUME NEW M, NEW ts, NEW box \in Seq(M), NEW type,
         Len(StaleIn(ts, box)) = Len(box),
         \A i \in 1 .. Len(box) : StaleIn(ts, box)[i].type = box[i].type
  PROVE  Waits(StaleIn(ts, box), type) <=> Waits(box, type)
BY DEF Waits

\* The end of a machine's stream, a restart or an attempt to connect that waits
\* goes on waiting.
StillWaits(box, box2) ==
  /\ Waits(box, "Connect") => Waits(box2, "Connect")
  /\ Waits(box, "Closed") => Waits(box2, "Closed")
  /\ Waits(box, "Stop") => Waits(box2, "Stop")

LEMMA AliveKeeps ==
  ASSUME NEW mm, NEW nn, NEW box, NEW box2, NEW later, NEW later2,
         Alive(mm, box, later), StillWaits(box, box2), later => later2,
         nn.conn = mm.conn, nn.attempting = mm.attempting
  PROVE  Alive(nn, box2, later2)
BY DEF Alive, StillWaits

LEMMA StillWaitsJoin ==
  ASSUME NEW M, NEW s \in Seq(M), NEW x \in Seq(M)
  PROVE  StillWaits(s, s \o x)
BY WaitsJoin DEF StillWaits

LEMMA StillWaitsTail ==
  ASSUME NEW M, NEW s \in Seq(M), s # <<>>, Head(s).type \notin {"Connect", "Closed", "Stop"}
  PROVE  StillWaits(s, Tail(s))
BY WaitsTail DEF StillWaits

LEMMA StillWaitsBeyond ==
  \A a, b, c : StillWaits(a, b) /\ StillWaits(b, c) => StillWaits(a, c)
BY DEF StillWaits

\* The inductive invariant without what is about the connection.
Sound == /\ TypeOK /\ Credited /\ Inserted /\ EndsAreSent
         /\ ~crossed => InOnePlace

LEMMA IInvIs ==
  /\ IInv <=> Sound /\ Alive(m, mail, retry)
  /\ IInv' <=> Sound' /\ Alive(m', mail', retry')
BY AliveIs DEF IInv, Sound

LEMMA NoMoreBeyond ==
  ASSUME NEW M, NEW a \in Seq(M), NEW b \in Seq(M), NEW c \in Seq(M), NoMore(a, b), NoMore(b, c)
  PROVE  NoMore(a, c)
<1>1. Counts(a) /\ Counts(b) /\ Counts(c)
  BY CountsAreNat
<1>2. QED
  BY <1>1 DEF NoMore, Counts

\* Where a print is that is no longer with its insertion.
Away(box, w, spool, mm, p) ==
  CountOf(box, Answers(p)) + CountOf(w, OnWire(p)) + CountOf(spool, {p}) + One(mm.saved = p)

LEMMA AwayIsNat ==
  ASSUME TypeOK, NEW p \in Prints
  PROVE  Away(mail, wire, drv.spool, m, p) \in Nat /\ Asked(p) \in Nat
         /\ Places(p) = Asked(p) + Away(mail, wire, drv.spool, m, p)
<1>1. /\ CountOf(mail, Answers(p)) \in Nat /\ CountOf(wire, OnWire(p)) \in Nat
      /\ CountOf(drv.spool, {p}) \in Nat /\ CountOf(mail, Asks(p)) \in Nat
  BY CountIsNat DEF TypeOK, Drivers
<1>2. QED
  BY <1>1 DEF Away, Asked, Places, One

\* A step that leaves the records, the jobs and the histories alone, and brings no
\* print to a second place.
LEMMA QuietStep ==
  ASSUME Sound, TypeOK', UNCHANGED <<rec, job, credit, sent, crossed>>,
         \A t \in Task : CountOf(mail', Carry(t)) <= CountOf(mail, Carry(t)),
         \A p \in Prints : CountOf(mail', Asks(p)) <= CountOf(mail, Asks(p)),
         \A p \in Prints : Away(mail', wire', drv'.spool, m', p) <= Away(mail, wire, drv.spool, m, p)
  PROVE  Sound'
<1>1. Counts(mail) /\ Counts(mail')
  BY CountsAreNat DEF Sound, TypeOK
<1>2. Credited'
  <2>1. \A t \in Task : credit[t] \in Int
    BY DEF Sound, TypeOK
  <2>2. QED
    BY <1>1, <2>1 DEF Sound, Credited, Counts, One
<1>3. \A p \in Prints : Asked(p)' <= Asked(p) /\ Asked(p)' \in Nat /\ Asked(p) \in Nat
  BY <1>1 DEF Asked, Counts, One
<1>4. Inserted'
  BY <1>3 DEF Sound, Inserted
<1>5. EndsAreSent'
  BY DEF Sound, EndsAreSent
<1>6. ASSUME ~crossed' PROVE InOnePlace'
  <2>1. InOnePlace
    BY <1>6 DEF Sound
  <2>2. SUFFICES ASSUME NEW p \in Prints
                 PROVE  Places(p)' <= 1 /\ (p \in sent' => Asked(p)' = 0)
    BY DEF InOnePlace
  <2>3. Places(p) <= 1 /\ (p \in sent => Asked(p) = 0)
    BY <2>1 DEF InOnePlace
  <2>4. /\ Places(p) = Asked(p) + Away(mail, wire, drv.spool, m, p)
        /\ Away(mail, wire, drv.spool, m, p) \in Nat
    BY AwayIsNat DEF Sound
  <2>5. /\ Places(p)' = Asked(p)' + Away(mail', wire', drv'.spool, m', p)
        /\ Away(mail', wire', drv'.spool, m', p) \in Nat
    <3>1. (TypeOK => /\ Away(mail, wire, drv.spool, m, p) \in Nat
                     /\ Places(p) = Asked(p) + Away(mail, wire, drv.spool, m, p))'
      BY AwayIsNat, PTL
    <3>2. QED
      BY <3>1
  <2>6. QED
    BY <1>3, <2>3, <2>4, <2>5
<1>7. QED
  BY <1>2, <1>4, <1>5, <1>6 DEF Sound

\* What a handler finds at the head of the mailbox.
LEMMA ReceivesHead ==
  ASSUME IInv, mail # <<>>
  PROVE  /\ Head(mail) \in Messages(rec, sent) /\ Head(mail) \in Mailable
         /\ Names(Head(mail), rec, sent)
         /\ Tail(mail) \in Seq(Messages(rec, sent))
         /\ NoMore(Tail(mail), mail)
         /\ \A T : CountOf(mail, T) = CountOf(Tail(mail), T) + One(Head(mail) \in T)
         /\ Head(mail).type \notin {"Connect", "Closed", "Stop"} => StillWaits(mail, Tail(mail))
<1>1. mail \in Seq(Messages(rec, sent))
  BY DEF IInv, TypeOK
<1>2. /\ Head(mail) \in Messages(rec, sent) /\ Tail(mail) \in Seq(Messages(rec, sent))
      /\ NoMore(Tail(mail), mail)
      /\ \A T : CountOf(mail, T) = CountOf(Tail(mail), T) + One(Head(mail) \in T)
  BY <1>1, TailCounts
<1>3. Head(mail).type \notin {"Connect", "Closed", "Stop"} => StillWaits(mail, Tail(mail))
  BY <1>1, StillWaitsTail
<1>4. QED
  BY <1>2, <1>3 DEF Messages

\* A handler that only adds signals to the mailbox behind what it has received.
LEMMA AddSignal ==
  ASSUME NEW box \in Seq(Messages(rec, sent)),
         NEW type \in {"Connect", "Closed", "Broken", "Stop", "ResetWhenIdle", "StopMachine",
                       "ResetMachine", "AddDevice"}
  PROVE  /\ Append(box, Msg(type)) \in Seq(Messages(rec, sent))
         /\ NoMore(Append(box, Msg(type)), box)
         /\ StillWaits(box, Append(box, Msg(type)))
         /\ Waits(Append(box, Msg(type)), type)
<1> DEFINE x == <<Msg(type)>>
<1>1. Msg(type) \in Messages(rec, sent) /\ Neutral(x)
  BY NeutralOnes
<1>2. x \in Seq(Messages(rec, sent)) /\ Append(box, Msg(type)) = box \o x
  BY <1>1, AppendIsConcat
<1>3. Waits(x, type)
  BY WaitsOne DEF Msg
<1> HIDE DEF x
<1>4. QED
  BY <1>1, <1>2, <1>3, NeutralEnd, StillWaitsJoin, WaitsJoin

-----------------------------------------------------------------------------
(***************************************************************************)
(* The steps that leave the records alone: requests of clients and the     *)
(* connection.                                                             *)
(***************************************************************************)
\* The room there is in the mailbox, and the bounds.
LEMMA OpType == ASSUME TypeOK, NEW kind, Op(kind) PROVE ops' \in Nat /\ faults' \in Nat
BY DEF Op, TypeOK

LEMMA FaultType == ASSUME TypeOK, NEW kind, Fault(kind) PROVE ops' \in Nat /\ faults' \in Nat
BY DEF Fault, TypeOK

LEMMA BoundsType == ASSUME TypeOK, UNCHANGED bounds PROVE ops' \in Nat /\ faults' \in Nat
BY DEF bounds, TypeOK

\* A step that changes only the mailbox, the machine and what is in the driver.
LEMMA QuietType ==
  ASSUME TypeOK, UNCHANGED <<rec, job, credit, sent, crossed>>,
         resuming' \subseteq Prints, m' \in Machines(sent),
         mail' \in Seq(Messages(rec, sent)), retry' \in BOOLEAN,
         wire' \in Seq(Wires(sent)), drv' \in Drivers(sent),
         parted' \in BOOLEAN, ops' \in Nat, faults' \in Nat
  PROVE  TypeOK'
BY DEF TypeOK

\* Fewer tasks on the way to the driver and in its spool, and no new paused state.
Fewer == /\ \A p \in Prints : CountOf(wire', OnWire(p)) <= CountOf(wire, OnWire(p))
         /\ \A p \in Prints : CountOf(drv'.spool, {p}) <= CountOf(drv.spool, {p})
         /\ m'.saved \in {m.saved, NoTask}

LEMMA PlacesAreNat ==
  ASSUME TypeOK
  PROVE  \A p \in Prints : /\ CountOf(wire, OnWire(p)) \in Nat /\ CountOf(drv.spool, {p}) \in Nat
                           /\ CountOf(mail, Answers(p)) \in Nat /\ CountOf(mail, Asks(p)) \in Nat
BY CountIsNat DEF TypeOK, Drivers

LEMMA FewerSame ==
  ASSUME TypeOK, UNCHANGED <<wire, drv>>, m'.saved \in {m.saved, NoTask}
  PROVE  Fewer
<1>1. \A p \in Prints : /\ CountOf(wire', OnWire(p)) = CountOf(wire, OnWire(p))
                        /\ CountOf(drv'.spool, {p}) = CountOf(drv.spool, {p})
  OBVIOUS
<1>2. \A p \in Prints : /\ CountOf(wire, OnWire(p)) \in Nat /\ CountOf(drv.spool, {p}) \in Nat
  BY PlacesAreNat
<1>3. \A p \in Prints : /\ CountOf(wire', OnWire(p)) <= CountOf(wire, OnWire(p))
                        /\ CountOf(drv'.spool, {p}) <= CountOf(drv.spool, {p})
  BY <1>1, <1>2
<1>4. QED
  BY <1>3 DEF Fewer

LEMMA FewerStep ==
  ASSUME Sound, TypeOK', UNCHANGED <<rec, job, credit, sent, crossed>>, NoMore(mail', mail), Fewer
  PROVE  Sound'
<1>1. \A p \in Prints :
        /\ CountOf(wire, OnWire(p)) \in Nat /\ CountOf(drv.spool, {p}) \in Nat
        /\ CountOf(wire', OnWire(p)) \in Nat /\ CountOf(drv'.spool, {p}) \in Nat
        /\ CountOf(mail, Answers(p)) \in Nat /\ CountOf(mail', Answers(p)) \in Nat
  BY CountIsNat DEF Sound, TypeOK, Drivers
<1>2. \A p \in Prints : p # NoTask
  BY TasksAssumption DEF Task
<1>3. ASSUME NEW p \in Prints
      PROVE  Away(mail', wire', drv'.spool, m', p) <= Away(mail, wire, drv.spool, m, p)
  <2>1. /\ CountOf(wire', OnWire(p)) <= CountOf(wire, OnWire(p))
        /\ CountOf(drv'.spool, {p}) <= CountOf(drv.spool, {p})
        /\ CountOf(mail', Answers(p)) <= CountOf(mail, Answers(p))
    BY DEF Fewer, NoMore
  <2>2. One(m'.saved = p) <= One(m.saved = p) /\ One(m'.saved = p) \in Nat /\ One(m.saved = p) \in Nat
    BY <1>2 DEF Fewer, One
  <2>3. QED
    BY <1>1, <2>1, <2>2 DEF Away
<1>4. QED
  BY <1>3, QuietStep DEF NoMore

LEMMA PausePrintKeeps ==
  ASSUME IInv, NEW p \in Prints, PausePrint(p)
  PROVE  IInv'
<1> DEFINE e == [type |-> "Pause", task |-> p]
<1>1. TypeOK /\ Sound /\ Alive(m, mail, retry) /\ mail \in Seq(Messages(rec, sent))
  BY IInvIs DEF IInv, TypeOK
<1>2. /\ mail' = Append(mail, e) /\ rec[p] # "absent"
      /\ UNCHANGED <<rec, job, resuming, m, wire, drv, retry, credit, sent, parted, crossed>>
  BY DEF PausePrint, Post, database, history
<1>3. <<e>> \in Seq(Messages(rec, sent)) /\ Neutral(<<e>>) /\ mail' = mail \o <<e>>
  <2>1. e \in Messages(rec, sent) /\ Neutral(<<e>>)
    BY <1>2, NeutralOnes
  <2> HIDE DEF e
  <2>2. QED
    BY <1>1, <1>2, <2>1, AppendIsConcat
<1> HIDE DEF e
<1>4. mail' \in Seq(Messages(rec, sent)) /\ NoMore(mail', mail) /\ StillWaits(mail, mail')
  BY <1>1, <1>3, NeutralEnd, StillWaitsJoin
<1>5. TypeOK'
  <2>1. ops' \in Nat /\ faults' \in Nat
    BY <1>1, OpType DEF PausePrint
  <2>2. QED
    BY <1>1, <1>2, <1>4, <2>1, QuietType DEF TypeOK
<1>6. Sound'
  BY <1>1, <1>2, <1>4, <1>5, FewerSame, FewerStep
<1>7. QED
  BY <1>1, <1>2, <1>4, <1>6, AliveKeeps, IInvIs

LEMMA CheckPausedKeeps ==
  ASSUME IInv, NEW p \in Prints, CheckPaused(p)
  PROVE  IInv'
<1>1. TypeOK /\ Sound /\ Alive(m, mail, retry)
  BY IInvIs DEF IInv
<1>2. /\ UNCHANGED <<rec, job, m, mail, wire, drv, retry, credit, sent, parted, crossed>>
      /\ resuming' = resuming \cup {p}
  BY DEF CheckPaused, history
<1>3. NoMore(mail', mail)
  BY <1>1, <1>2, CountsAreNat DEF NoMore, Counts, TypeOK
<1>4. TypeOK'
  <2>1. ops' \in Nat /\ faults' \in Nat
    BY <1>1, OpType DEF CheckPaused
  <2>2. QED
    BY <1>1, <1>2, <2>1, QuietType DEF TypeOK
<1>5. Sound'
  BY <1>1, <1>2, <1>3, <1>4, FewerSame, FewerStep
<1>6. QED
  BY <1>1, <1>2, <1>5, IInvIs

LEMMA RequestKeeps ==
  ASSUME IInv, NEW type \in {"StopMachine", "ResetMachine", "AddDevice"}, Request(type)
  PROVE  IInv'
<1>1. TypeOK /\ Sound /\ Alive(m, mail, retry) /\ mail \in Seq(Messages(rec, sent))
  BY IInvIs DEF IInv, TypeOK
<1>2. /\ mail' = Append(mail, Msg(type))
      /\ UNCHANGED <<rec, job, resuming, m, wire, drv, retry, credit, sent, parted, crossed>>
  BY DEF Request, Post, database, history
<1>3. mail' \in Seq(Messages(rec, sent)) /\ NoMore(mail', mail) /\ StillWaits(mail, mail')
  BY <1>1, <1>2, AddSignal
<1>4. TypeOK'
  <2>1. ops' \in Nat /\ faults' \in Nat
    BY <1>1, OpType DEF Request
  <2>2. QED
    BY <1>1, <1>2, <1>3, <2>1, QuietType DEF TypeOK
<1>5. Sound'
  BY <1>1, <1>2, <1>3, <1>4, FewerSame, FewerStep
<1>6. QED
  BY <1>1, <1>2, <1>3, <1>5, AliveKeeps, IInvIs

LEMMA RetryConnectKeeps ==
  ASSUME IInv, RetryConnect
  PROVE  IInv'
<1>1. TypeOK /\ Sound /\ Alive(m, mail, retry) /\ mail \in Seq(Messages(rec, sent))
  BY IInvIs DEF IInv, TypeOK
<1>2. /\ mail' = Append(mail, Msg("Connect")) /\ retry' = FALSE
      /\ UNCHANGED <<rec, job, resuming, m, wire, drv, credit, sent, parted, crossed, ops, faults>>
  BY DEF RetryConnect, Post, database, history, bounds
<1>3. /\ mail' \in Seq(Messages(rec, sent)) /\ NoMore(mail', mail)
      /\ StillWaits(mail, mail') /\ Waits(mail', "Connect")
  BY <1>1, <1>2, AddSignal
<1>4. TypeOK'
  BY <1>1, <1>2, <1>3, QuietType DEF TypeOK
<1>5. Sound'
  BY <1>1, <1>2, <1>3, <1>4, FewerSame, FewerStep
<1>6. Alive(m', mail', retry')
  BY <1>1, <1>2, <1>3 DEF Alive, StillWaits
<1>7. QED
  BY <1>5, <1>6, IInvIs

LEMMA PrintingIs ==
  ASSUME NEW S, NEW old \in Machines(S), NEW p \in Prints, NEW paused \in BOOLEAN
  PROVE  /\ Printing(old, p, paused) \in Machines(S) /\ Printing(old, p, paused).saved = NoTask
         /\ Printing(old, p, paused).conn = old.conn
         /\ Printing(old, p, paused).attempting = old.attempting
BY DEF Machines, Maybe, Printing

LEMMA NewDataForgets ==
  ASSUME NEW S, NEW mm \in Machines(S)
  PROVE  NewData(mm) \in Machines(S) /\ ~NewData(mm).homed /\ NewData(mm).data
BY DEF Machines, Maybe, NewData

\* The machine that the supervisor starts, and one that forgets what it knew.
LEMMA MachineTypes ==
  ASSUME NEW S, NEW mm \in Machines(S)
  PROVE  /\ NewMachine \in Machines(S) /\ NewMachine.saved = NoTask
         /\ NewMachine.conn = "none" /\ NewMachine.attempting = FALSE
         /\ NewData(mm) \in Machines(S) /\ NewData(mm).saved = NoTask
         /\ NewData(mm).conn = mm.conn /\ NewData(mm).attempting = mm.attempting
         /\ \A s \in {"Disconnected", "Connecting", "Ready", "Errored", "Stopped", "Printing"} :
              /\ InStatus(mm, s) \in Machines(S) /\ InStatus(mm, s).saved = NoTask
              /\ InStatus(mm, s).conn = mm.conn /\ InStatus(mm, s).attempting = mm.attempting
         /\ \A p \in Prints, paused \in BOOLEAN :
              /\ Printing(mm, p, paused) \in Machines(S) /\ Printing(mm, p, paused).saved = NoTask
              /\ Printing(mm, p, paused).conn = mm.conn
              /\ Printing(mm, p, paused).attempting = mm.attempting
<1>1. /\ NewMachine \in Machines(S) /\ NewMachine.saved = NoTask
      /\ NewMachine.conn = "none" /\ NewMachine.attempting = FALSE
  BY DEF Machines, Maybe, NewMachine
<1>2. /\ NewData(mm) \in Machines(S) /\ NewData(mm).saved = NoTask
      /\ NewData(mm).conn = mm.conn /\ NewData(mm).attempting = mm.attempting
  BY DEF Machines, Maybe, NewData
<1>3. ASSUME NEW s \in {"Disconnected", "Connecting", "Ready", "Errored", "Stopped", "Printing"}
      PROVE  /\ InStatus(mm, s) \in Machines(S) /\ InStatus(mm, s).saved = NoTask
             /\ InStatus(mm, s).conn = mm.conn /\ InStatus(mm, s).attempting = mm.attempting
  BY DEF Machines, Maybe, InStatus
<1>4. QED
  BY <1>1, <1>2, <1>3, PrintingIs

LEMMA HandleStopKeeps ==
  ASSUME IInv, HandleStop
  PROVE  IInv'
<1>1. TypeOK /\ Sound /\ mail # <<>> /\ Tail(mail) \in Seq(Messages(rec, sent)) /\ NoMore(Tail(mail), mail)
  BY IInvIs, ReceivesHead DEF IInv, HandleStop, Receives
<1>2. /\ mail' = Append(Tail(mail), Msg("Connect")) /\ retry' = FALSE /\ m' = NewMachine
      /\ parted' = TRUE
      /\ UNCHANGED <<rec, job, resuming, wire, drv, credit, sent, crossed, ops, faults>>
  BY DEF HandleStop, database, bounds
<1>3. mail' \in Seq(Messages(rec, sent)) /\ NoMore(mail', Tail(mail)) /\ Waits(mail', "Connect")
  BY <1>1, <1>2, AddSignal
<1>4. NoMore(mail', mail)
  BY <1>1, <1>3, NoMoreBeyond DEF TypeOK
<1>5. m' \in Machines(sent) /\ m'.saved = NoTask /\ m'.conn = "none" /\ m'.attempting = FALSE
  BY <1>1, <1>2, MachineTypes DEF TypeOK
<1>6. TypeOK'
  BY <1>1, <1>2, <1>3, <1>5, QuietType DEF TypeOK
<1>7. Sound'
  BY <1>1, <1>2, <1>4, <1>5, <1>6, FewerSame, FewerStep
<1>8. Alive(m', mail', retry')
  BY <1>3, <1>5 DEF Alive
<1>9. QED
  BY <1>7, <1>8, IInvIs

\* A message without a task that is put on the wire.
LEMMA WireNeutral ==
  ASSUME NEW S, NEW s \in Seq(Wires(S)), NEW e \in Wires(S), e.type # "SpoolTask"
  PROVE  /\ Append(s, e) \in Seq(Wires(S))
         /\ \A p \in Prints : CountOf(Append(s, e), OnWire(p)) = CountOf(s, OnWire(p))
<1>1. \A p \in Prints : e \notin OnWire(p)
  BY DEF OnWire
<1>2. \A T : /\ CountOf(Append(s, e), T) = CountOf(s, T) + (IF e \in T THEN 1 ELSE 0)
            /\ CountOf(s, T) \in Nat
  BY CountAppend, CountIsNat
<1>3. QED
  BY <1>1, <1>2

LEMMA WireSignals ==
  \A S : \A type \in {"Hello", "ResetWhenIdle", "Estop"} : Msg(type) \in Wires(S) /\ Msg(type).type = type
BY DEF Msg, Wires, Wireable

LEMMA IgnoreKeeps ==
  ASSUME IInv, mail # <<>>, Head(mail).type \notin {"Closed", "Stop"}, Ignore,
         Head(mail).type = "Connect" => m.attempting
  PROVE  IInv'
<1>1. /\ TypeOK /\ Sound /\ Tail(mail) \in Seq(Messages(rec, sent)) /\ NoMore(Tail(mail), mail)
      /\ Alive(m, mail, retry)
  BY IInvIs, ReceivesHead DEF IInv
<1>2. /\ mail' = Tail(mail)
      /\ UNCHANGED <<rec, job, resuming, m, retry, wire, drv, credit, sent, parted, crossed, ops, faults>>
  BY DEF Ignore, database, bounds, history
<1>3. TypeOK'
  BY <1>1, <1>2, QuietType DEF TypeOK
<1>4. Sound'
  BY <1>1, <1>2, <1>3, FewerSame, FewerStep
<1>5. /\ Waits(mail, "Closed") => Waits(mail', "Closed")
      /\ Waits(mail, "Stop") => Waits(mail', "Stop")
      /\ Head(mail).type # "Connect" /\ Waits(mail, "Connect") => Waits(mail', "Connect")
  BY <1>1, <1>2, WaitsTail DEF TypeOK
<1>6. Alive(m', mail', retry')
  BY <1>1, <1>2, <1>5 DEF Alive
<1>7. QED
  BY <1>4, <1>6, IInvIs

LEMMA HandleConnectKeeps ==
  ASSUME IInv, HandleConnect
  PROVE  IInv'
<1>1. /\ TypeOK /\ Sound /\ mail # <<>> /\ Head(mail).type = "Connect"
      /\ Tail(mail) \in Seq(Messages(rec, sent)) /\ NoMore(Tail(mail), mail)
      /\ m \in Machines(sent) /\ drv \in Drivers(sent) /\ wire \in Seq(Wires(sent))
  BY IInvIs, ReceivesHead DEF IInv, HandleConnect, Receives, TypeOK
<1>2. CASE m.attempting
  BY <1>1, <1>2, IgnoreKeeps DEF HandleConnect
<1>3. CASE ~m.attempting
  <2> DEFINE mm == IF m.data THEN m ELSE NewData(m)
  <2>1. /\ mm \in Machines(sent) /\ mm.saved \in {m.saved, NoTask} /\ ~mm.attempting
    <3>1. /\ NewData(m) \in Machines(sent) /\ NewData(m).saved = NoTask
          /\ NewData(m).attempting = m.attempting
      BY <1>1, MachineTypes
    <3>2. QED
      BY <1>1, <1>3, <3>1
  <2>2. CASE /\ Fault("connect") /\ m' = mm /\ retry' = TRUE /\ UNCHANGED <<wire, drv>>
             /\ mail' = Tail(mail) /\ UNCHANGED <<database, history>>
    <3>1. /\ UNCHANGED <<rec, job, resuming, wire, drv, credit, sent, parted, crossed>>
          /\ ops' \in Nat /\ faults' \in Nat
      BY <1>1, <2>2, FaultType DEF database, history
    <3>2. TypeOK'
      BY <1>1, <2>1, <2>2, <3>1, QuietType DEF TypeOK
    <3>3. Sound'
      BY <1>1, <2>1, <2>2, <3>1, <3>2, FewerSame, FewerStep
    <3>4. Alive(m', mail', retry')
      BY <2>1, <2>2 DEF Alive
    <3>5. QED
      BY <3>3, <3>4, IInvIs
  <2>3. CASE /\ UNCHANGED bounds /\ m' = [mm EXCEPT !.attempting = TRUE, !.conn = "live"]
             /\ drv' = (IF drv.up THEN drv ELSE NewDriver)
             /\ wire' = Append(wire, Msg("Hello")) /\ UNCHANGED retry
             /\ mail' = Tail(mail) /\ UNCHANGED <<database, history>>
    <3>1. /\ UNCHANGED <<rec, job, resuming, retry, credit, sent, parted, crossed>>
          /\ ops' \in Nat /\ faults' \in Nat
      BY <1>1, <2>3, BoundsType DEF database, history
    <3>2. m' \in Machines(sent) /\ m'.saved = mm.saved /\ m'.conn = "live"
      <4> HIDE DEF mm
      <4>1. QED
        BY <2>1, <2>3 DEF Machines
    <3>3. /\ wire' \in Seq(Wires(sent))
          /\ \A p \in Prints : CountOf(wire', OnWire(p)) = CountOf(wire, OnWire(p))
      BY <1>1, <2>3, WireSignals, WireNeutral
    <3>4. NewDriver \in Drivers(sent) /\ NewDriver.spool = <<>>
      BY DEF NewDriver, Drivers, DriverSt, Entries
    <3>5. drv' \in Drivers(sent) /\ \A p \in Prints : CountOf(drv'.spool, {p}) <= CountOf(drv.spool, {p})
      <4>1. \A p \in Prints : CountOf(drv.spool, {p}) \in Nat
        BY <1>1, PlacesAreNat
      <4>2. \A p \in Prints : CountOf(NewDriver.spool, {p}) = 0
        BY <3>4, CountEmpty
      <4>3. CASE drv.up
        BY <1>1, <2>3, <4>1, <4>3
      <4>4. CASE ~drv.up
        <5>1. drv' = NewDriver
          BY <2>3, <4>4
        <5>2. QED
          BY <3>4, <4>1, <4>2, <5>1
      <4>5. QED
        BY <4>3, <4>4
    <3>6. Fewer
      <4>1. \A p \in Prints : CountOf(wire, OnWire(p)) \in Nat
        BY <1>1, PlacesAreNat
      <4>2. \A p \in Prints : CountOf(wire', OnWire(p)) <= CountOf(wire, OnWire(p))
        BY <3>3, <4>1
      <4>3. m'.saved \in {m.saved, NoTask}
        <5> HIDE DEF mm
        <5>1. QED
          BY <2>1, <3>2
      <4>4. QED
        BY <3>5, <4>2, <4>3 DEF Fewer
    <3>7. TypeOK'
      BY <1>1, <2>3, <3>1, <3>2, <3>3, <3>5, QuietType DEF TypeOK
    <3>8. Sound'
      BY <1>1, <2>3, <3>1, <3>6, <3>7, FewerStep
    <3>9. Alive(m', mail', retry')
      BY <3>2 DEF Alive
    <3>10. QED
      BY <3>8, <3>9, IInvIs
  <2>4. QED
    BY <1>3, <2>2, <2>3 DEF HandleConnect
<1>4. QED
  BY <1>2, <1>3

\* A handler that hands on a message, or only answers.
LEMMA HandsOnCounted ==
  ASSUME IInv, mail # <<>>, Head(mail).type \notin {"Connect", "Closed", "Stop"},
         \/ mail' = Tail(mail)
         \/ \E type \in {"Stop", "ResetWhenIdle"} : mail' = Append(Tail(mail), Msg(type)),
         \/ wire' = wire
         \/ \E type \in {"Hello", "ResetWhenIdle", "Estop"} : wire' = Append(wire, Msg(type)),
         UNCHANGED <<rec, job, resuming, m, retry, drv, credit, sent, parted, crossed>>,
         ops' \in Nat, faults' \in Nat
  PROVE  IInv'
<1>1. /\ TypeOK /\ Sound /\ Tail(mail) \in Seq(Messages(rec, sent)) /\ NoMore(Tail(mail), mail)
      /\ Alive(m, mail, retry) /\ StillWaits(mail, Tail(mail)) /\ wire \in Seq(Wires(sent))
  BY IInvIs, ReceivesHead DEF IInv, TypeOK
<1>2. mail' \in Seq(Messages(rec, sent)) /\ NoMore(mail', mail) /\ StillWaits(mail, mail')
  <2>1. CASE mail' = Tail(mail)
    BY <1>1, <2>1
  <2>2. CASE \E type \in {"Stop", "ResetWhenIdle"} : mail' = Append(Tail(mail), Msg(type))
    <3>1. mail' \in Seq(Messages(rec, sent)) /\ NoMore(mail', Tail(mail)) /\ StillWaits(Tail(mail), mail')
      BY <1>1, <2>2, AddSignal
    <3>2. QED
      BY <1>1, <3>1, NoMoreBeyond, StillWaitsBeyond DEF TypeOK
  <2>3. QED
    BY <2>1, <2>2
<1>3. wire' \in Seq(Wires(sent)) /\ \A p \in Prints : CountOf(wire', OnWire(p)) = CountOf(wire, OnWire(p))
  <2>1. CASE wire' = wire
    BY <1>1, <2>1
  <2>2. CASE \E type \in {"Hello", "ResetWhenIdle", "Estop"} : wire' = Append(wire, Msg(type))
    <3>1. PICK type \in {"Hello", "ResetWhenIdle", "Estop"} : wire' = Append(wire, Msg(type))
      BY <2>2
    <3>2. Msg(type) \in Wires(sent) /\ Msg(type).type # "SpoolTask"
      BY WireSignals
    <3>3. QED
      BY <1>1, <3>1, <3>2, WireNeutral
  <2>3. QED
    BY <2>1, <2>2
<1>4. TypeOK'
  BY <1>1, <1>2, <1>3, QuietType DEF TypeOK
<1>5. Fewer
  <2>1. \A p \in Prints : CountOf(wire, OnWire(p)) \in Nat /\ CountOf(drv.spool, {p}) \in Nat
    BY <1>1, PlacesAreNat
  <2>2. ASSUME NEW p \in Prints
        PROVE  /\ CountOf(wire', OnWire(p)) <= CountOf(wire, OnWire(p))
               /\ CountOf(drv'.spool, {p}) <= CountOf(drv.spool, {p})
    <3>1. CountOf(wire', OnWire(p)) = CountOf(wire, OnWire(p)) /\ drv' = drv
      BY <1>3
    <3>2. QED
      BY <2>1, <3>1
  <2>3. QED
    BY <2>2 DEF Fewer
<1>6. Sound'
  BY <1>1, <1>2, <1>4, <1>5, FewerStep
<1>7. Alive(m', mail', retry')
  BY <1>1, <1>2, AliveKeeps
<1>8. QED
  BY <1>6, <1>7, IInvIs

LEMMA HandsOn ==
  ASSUME IInv, mail # <<>>, Head(mail).type \notin {"Connect", "Closed", "Stop"},
         \/ mail' = Tail(mail)
         \/ \E type \in {"Stop", "ResetWhenIdle"} : mail' = Append(Tail(mail), Msg(type)),
         \/ wire' = wire
         \/ \E type \in {"Hello", "ResetWhenIdle", "Estop"} : wire' = Append(wire, Msg(type)),
         UNCHANGED <<rec, job, resuming, m, retry, drv, credit, sent, parted, crossed, ops, faults>>
  PROVE  IInv'
<1>1. ops' \in Nat /\ faults' \in Nat
  BY DEF IInv, TypeOK
<1>2. QED
  BY <1>1, HandsOnCounted

LEMMA HandleBrokenKeeps == ASSUME IInv, HandleBroken PROVE IInv'
BY HandsOn DEF HandleBroken, Receives, StopActor, database, history, bounds

LEMMA HandleInitKeeps == ASSUME IInv, HandleInit PROVE IInv'
BY HandsOn DEF HandleInit, Receives, database, history, bounds

LEMMA HandleAddDeviceKeeps == ASSUME IInv, HandleAddDevice PROVE IInv'
BY HandsOn DEF HandleAddDevice, Receives, database, history, bounds

LEMMA FeedbackWithoutDataKeeps == ASSUME IInv, FeedbackWithoutData PROVE IInv'
BY HandsOn DEF FeedbackWithoutData, Receives, StopActor, database, history, bounds

LEMMA ForwardKeeps ==
  ASSUME IInv, NEW type \in {"ResetWhenIdle", "StopMachine"}, NEW out \in {"ResetWhenIdle", "Estop"},
         Forward(type, Msg(out))
  PROVE  IInv'
<1>1. PICK ok \in SendResults :
        /\ wire' = IF ok THEN Sent(<<Msg(out)>>) ELSE wire
        /\ IF ok THEN mail' = Tail(mail) ELSE StopActor(Tail(mail))
  BY DEF Forward
<1>2. /\ mail # <<>> /\ Head(mail).type = type
      /\ UNCHANGED <<rec, job, resuming, m, retry, drv, credit, sent, parted, crossed, ops, faults>>
  BY DEF Forward, Receives, database, history, bounds
<1>3. wire' = wire \/ wire' = Append(wire, Msg(out))
  <2>1. Msg(out) \in Wires(sent) /\ wire \in Seq(Wires(sent))
    BY WireSignals DEF IInv, TypeOK
  <2>2. wire \o <<Msg(out)>> = Append(wire, Msg(out))
    BY <2>1, AppendIsConcat
  <2>3. QED
    BY <1>1, <2>2 DEF Sent
<1>4. mail' = Tail(mail) \/ mail' = Append(Tail(mail), Msg("Stop"))
  BY <1>1 DEF StopActor
<1>5. QED
  BY <1>2, <1>3, <1>4, HandsOn

LEMMA HandleClosedKeeps ==
  ASSUME IInv, HandleClosed
  PROVE  IInv'
<1> DEFINE mm == [NewData(m) EXCEPT !.conn = "none", !.attempting = FALSE, !.seen = FALSE]
<1>1. /\ TypeOK /\ Sound /\ mail # <<>>
      /\ Tail(mail) \in Seq(Messages(rec, sent)) /\ NoMore(Tail(mail), mail)
      /\ m \in Machines(sent) /\ mail \in Seq(Messages(rec, sent))
  BY IInvIs, ReceivesHead DEF IInv, HandleClosed, Receives, TypeOK
<1>2. UNCHANGED <<rec, job, resuming, retry, wire, drv, credit, sent, parted, crossed, ops, faults>>
  BY DEF HandleClosed, database, history, bounds
<1>3. m' \in Machines(sent) /\ m'.saved = NoTask /\ m'.conn = "none" /\ m'.attempting = FALSE
  <2>1. NewData(m) \in Machines(sent)
    BY <1>1, MachineTypes
  <2>2. mm \in Machines(sent) /\ mm.conn = "none" /\ mm.attempting = FALSE
    BY <2>1 DEF Machines
  <2>3. PICK s \in {"Disconnected", "Stopped"} : m' = InStatus(mm, s)
    BY DEF HandleClosed
  <2> HIDE DEF mm
  <2>4. /\ InStatus(mm, s) \in Machines(sent) /\ InStatus(mm, s).saved = NoTask
        /\ InStatus(mm, s).conn = mm.conn /\ InStatus(mm, s).attempting = mm.attempting
    <3>1. s \in {"Disconnected", "Connecting", "Ready", "Errored", "Stopped", "Printing"}
      OBVIOUS
    <3>2. \A s_1 \in {"Disconnected", "Connecting", "Ready", "Errored", "Stopped", "Printing"} :
            /\ InStatus(mm, s_1) \in Machines(sent) /\ InStatus(mm, s_1).saved = NoTask
            /\ InStatus(mm, s_1).conn = mm.conn /\ InStatus(mm, s_1).attempting = mm.attempting
      BY <2>2, MachineTypes, Zenon
    <3>3. QED
      BY <3>1, <3>2
  <2>5. QED
    BY <2>2, <2>3, <2>4
<1>4. PICK x \in Seq(Messages(rec, sent)) :
        mail' = Tail(mail) \o x /\ Neutral(x) /\ Waits(x, "Connect")
  <2> DEFINE c == Msg("Connect")
             d == Msg("Closed")
  <2>1. /\ c \in Messages(rec, sent) /\ d \in Messages(rec, sent) /\ Neutral(<<c>>) /\ Neutral(<<d>>)
    BY NeutralOnes
  <2>2. c.type = "Connect"
    BY DEF Msg
  <2> HIDE DEF c, d
  <2>3. /\ <<c, d>> \in Seq(Messages(rec, sent)) /\ Neutral(<<c, d>>)
        /\ <<d, c>> \in Seq(Messages(rec, sent)) /\ Neutral(<<d, c>>)
        /\ <<c>> \in Seq(Messages(rec, sent))
    BY <2>1, NeutralTwo
  <2>4. Waits(<<c>>, "Connect") /\ Waits(<<c, d>>, "Connect") /\ Waits(<<d, c>>, "Connect")
    <3>1. /\ Len(<<c, d>>) = 2 /\ <<c, d>>[1] = c
          /\ Len(<<d, c>>) = 2 /\ <<d, c>>[2] = c
      OBVIOUS
    <3>2. QED
      BY <2>2, <3>1, WaitsOne DEF Waits
  <2>5. \/ mail' = Tail(mail) \o <<c, d>> \/ mail' = Tail(mail) \o <<d, c>>
        \/ mail' = Tail(mail) \o <<c>>
    BY <1>1, <2>1, AppendIsConcat DEF HandleClosed, c, d
  <2>6. QED
    BY <2>1, <2>3, <2>4, <2>5
<1>5. /\ mail' \in Seq(Messages(rec, sent)) /\ NoMore(mail', mail) /\ Waits(mail', "Connect")
  <2>1. mail' \in Seq(Messages(rec, sent)) /\ NoMore(mail', Tail(mail))
    BY <1>1, <1>4, NeutralEnd
  <2>2. QED
    BY <1>1, <1>4, <2>1, NoMoreBeyond, WaitsJoin
<1>6. TypeOK'
  BY <1>1, <1>2, <1>3, <1>5, QuietType DEF TypeOK
<1>7. Sound'
  BY <1>1, <1>2, <1>3, <1>5, <1>6, FewerSame, FewerStep
<1>8. Alive(m', mail', retry')
  BY <1>3, <1>5 DEF Alive
<1>9. QED
  BY <1>7, <1>8, IInvIs

-----------------------------------------------------------------------------
(***************************************************************************)
(* The steps of the driver.                                                *)
(***************************************************************************)

\* What the stream puts into the mailbox.
LEMMA HearType ==
  ASSUME TypeOK, NEW box \in Seq(Messages(rec, sent)), NEW x \in Seq(Messages(rec, sent))
  PROVE  /\ Hear(box, x) \in Seq(Messages(rec, sent))
         /\ StillWaits(box, Hear(box, x))
         /\ Neutral(x) => NoMore(Hear(box, x), box)
         /\ \A T : CountOf(Hear(box, x), T) <= CountOf(box, T) + CountOf(x, T)
<1>1. \A T : /\ CountOf(box \o x, T) = CountOf(box, T) + CountOf(x, T)
             /\ CountOf(box, T) \in Nat /\ CountOf(x, T) \in Nat
  BY CountConcat, CountIsNat
<1>2. StillWaits(box, box) /\ StillWaits(box, box \o x)
  BY StillWaitsJoin DEF StillWaits
<1>3. Neutral(x) => NoMore(box \o x, box) /\ NoMore(box, box)
  BY <1>1 DEF Neutral, NoMore
<1>4. box \o x \in Seq(Messages(rec, sent))
  OBVIOUS
<1>5. CASE m.conn = "live"
  BY <1>1, <1>2, <1>3, <1>4, <1>5 DEF Hear
<1>6. CASE m.conn # "live"
  BY <1>1, <1>2, <1>3, <1>6 DEF Hear
<1>7. QED
  BY <1>5, <1>6

\* The driver takes a message or moves on by itself, and may tell its state.
LEMMA DriverMoves ==
  ASSUME IInv, UNCHANGED <<rec, job, resuming, m, retry, credit, sent, crossed>>,
         parted' \in BOOLEAN, ops' \in Nat, faults' \in Nat,
         wire' \in Seq(Wires(sent)), drv' \in Drivers(sent),
         NEW x \in Seq(Messages(rec, sent)), mail' = Hear(mail, x),
         \A t \in Task : CountOf(x, Carry(t)) = 0,
         \A p \in Prints : CountOf(x, Asks(p)) = 0,
         \A p \in Prints : CountOf(x, Answers(p)) + CountOf(wire', OnWire(p)) + CountOf(drv'.spool, {p})
                             <= CountOf(wire, OnWire(p)) + CountOf(drv.spool, {p})
  PROVE  IInv'
<1>1. /\ TypeOK /\ Sound /\ Alive(m, mail, retry) /\ mail \in Seq(Messages(rec, sent))
      /\ m \in Machines(sent) /\ retry \in BOOLEAN /\ resuming \subseteq Prints
  BY IInvIs DEF IInv, TypeOK
<1>2. /\ mail' \in Seq(Messages(rec, sent)) /\ StillWaits(mail, mail')
      /\ \A T : CountOf(mail', T) <= CountOf(mail, T) + CountOf(x, T)
  BY <1>1, HearType
<1>3. TypeOK'
  BY <1>1, <1>2, QuietType
<1>4. Counts(mail) /\ Counts(mail') /\ Counts(x)
  BY <1>1, <1>2, CountsAreNat
<1>5. \A t \in Task : CountOf(mail', Carry(t)) <= CountOf(mail, Carry(t))
  <2>1. SUFFICES ASSUME NEW t \in Task PROVE CountOf(mail', Carry(t)) <= CountOf(mail, Carry(t))
    OBVIOUS
  <2>2. CountOf(mail', Carry(t)) <= CountOf(mail, Carry(t)) + CountOf(x, Carry(t))
    BY <1>2
  <2>3. QED
    BY <1>4, <2>2 DEF Counts
<1>6. \A p \in Prints : CountOf(mail', Asks(p)) <= CountOf(mail, Asks(p))
  <2>1. SUFFICES ASSUME NEW p \in Prints PROVE CountOf(mail', Asks(p)) <= CountOf(mail, Asks(p))
    OBVIOUS
  <2>2. CountOf(mail', Asks(p)) <= CountOf(mail, Asks(p)) + CountOf(x, Asks(p))
    BY <1>2
  <2>3. QED
    BY <1>4, <2>2 DEF Counts
<1>7. ASSUME NEW p \in Prints
      PROVE  Away(mail', wire', drv'.spool, m', p) <= Away(mail, wire, drv.spool, m, p)
  <2>1. CountOf(mail', Answers(p)) <= CountOf(mail, Answers(p)) + CountOf(x, Answers(p))
    BY <1>2
  <2>2. CountOf(x, Answers(p)) + CountOf(wire', OnWire(p)) + CountOf(drv'.spool, {p})
          <= CountOf(wire, OnWire(p)) + CountOf(drv.spool, {p})
    OBVIOUS
  <2>3. /\ CountOf(mail, Answers(p)) \in Nat /\ CountOf(mail', Answers(p)) \in Nat
        /\ CountOf(x, Answers(p)) \in Nat
    BY <1>4 DEF Counts
  <2>4. /\ CountOf(wire, OnWire(p)) \in Nat /\ CountOf(drv.spool, {p}) \in Nat
        /\ CountOf(wire', OnWire(p)) \in Nat /\ CountOf(drv'.spool, {p}) \in Nat
    BY <1>1, CountIsNat DEF TypeOK, Drivers
  <2>5. One(m'.saved = p) = One(m.saved = p) /\ One(m.saved = p) \in Nat
    BY DEF One
  <2> DEFINE a == CountOf(mail, Answers(p))
             b == CountOf(mail', Answers(p))
             c == CountOf(x, Answers(p))
             d == CountOf(wire, OnWire(p))
             e == CountOf(wire', OnWire(p))
             f == CountOf(drv.spool, {p})
             g == CountOf(drv'.spool, {p})
             o == One(m.saved = p)
  <2>6. /\ a \in Nat /\ b \in Nat /\ c \in Nat /\ d \in Nat /\ e \in Nat /\ f \in Nat /\ g \in Nat
        /\ o \in Nat /\ b <= a + c /\ c + e + g <= d + f /\ One(m'.saved = p) = o
    BY <2>1, <2>2, <2>3, <2>4, <2>5
  <2> HIDE DEF a, b, c, d, e, f, g, o
  <2>7. b + e + g + o <= a + d + f + o
    BY <2>6
  <2>8. QED
    BY <2>6, <2>7 DEF Away, a, b, c, d, e, f, g, o
<1>8. Sound'
  BY <1>1, <1>3, <1>5, <1>6, <1>7, QuietStep
<1>9. Alive(m', mail', retry')
  BY <1>1, <1>2, AliveKeeps
<1>10. QED
  BY <1>8, <1>9, IInvIs

\* A new state that is told: a pause is answered when its print has left the spool.
LEMMA TellKeeps ==
  ASSUME IInv, UNCHANGED <<rec, job, resuming, m, retry, credit, sent, crossed>>,
         parted' \in BOOLEAN, ops' \in Nat, faults' \in Nat, wire' \in Seq(Wires(sent)),
         NEW d \in Drivers(sent), NEW flag \in Maybe(Prints \cap sent), Tell(d, flag),
         \A p \in Prints : One(flag = p) + CountOf(wire', OnWire(p)) + CountOf(d.spool, {p})
                             <= CountOf(wire, OnWire(p)) + CountOf(drv.spool, {p})
  PROVE  IInv'
<1>1. sent \subseteq Task /\ NoTask \notin Prints /\ Blocking \subseteq BOOLEAN
  BY TasksAssumption DEF IInv, TypeOK, Task
<1>2. drv' = d
  BY DEF Tell
<1>3. PICK b \in Blocking : mail' = Hear(mail, <<Feedback(d, flag, b)>>)
  BY DEF Tell
<1> DEFINE x == <<Feedback(d, flag, b)>>
<1>4. /\ x \in Seq(Messages(rec, sent))
      /\ \A t \in Task : CountOf(x, Carry(t)) = 0
      /\ \A p \in Prints : CountOf(x, Asks(p)) = 0 /\ CountOf(x, Answers(p)) = One(flag = p)
  <2>1. b \in BOOLEAN
    BY <1>1
  <2>2. Feedback(d, flag, b) \in Messages(rec, sent)
    BY <1>1, <2>1, FeedbackCounts
  <2>3. QED
    BY <1>1, <2>1, <2>2, FeedbackCounts
<1>5. mail' = Hear(mail, x)
  BY <1>3
<1> HIDE DEF x
<1>6. \A p \in Prints : CountOf(x, Answers(p)) + CountOf(wire', OnWire(p)) + CountOf(drv'.spool, {p})
                          <= CountOf(wire, OnWire(p)) + CountOf(drv.spool, {p})
  BY <1>2, <1>4
<1>7. QED
  BY <1>2, <1>4, <1>5, <1>6, DriverMoves

LEMMA DriverSilent ==
  ASSUME IInv, UNCHANGED <<rec, job, resuming, m, mail, retry, credit, sent, crossed>>,
         parted' \in BOOLEAN, ops' \in Nat, faults' \in Nat,
         wire' \in Seq(Wires(sent)), drv' \in Drivers(sent),
         \A p \in Prints : CountOf(wire', OnWire(p)) + CountOf(drv'.spool, {p})
                             <= CountOf(wire, OnWire(p)) + CountOf(drv.spool, {p})
  PROVE  IInv'
<1> DEFINE x == <<>>
<1>1. x \in Seq(Messages(rec, sent)) /\ mail \in Seq(Messages(rec, sent))
  BY DEF IInv, TypeOK
<1>2. mail' = Hear(mail, x)
  <2>1. mail \o x = mail
    BY <1>1, ConcatEmptySeq
  <2>2. QED
    BY <2>1 DEF Hear
<1>3. \A T : CountOf(x, T) = 0
  BY CountEmpty
<1> HIDE DEF x
<1>4. ASSUME NEW p \in Prints
      PROVE  CountOf(x, Answers(p)) + CountOf(wire', OnWire(p)) + CountOf(drv'.spool, {p})
               <= CountOf(wire, OnWire(p)) + CountOf(drv.spool, {p})
  <2>1. CountOf(wire', OnWire(p)) \in Nat /\ CountOf(drv'.spool, {p}) \in Nat
    BY CountIsNat DEF Drivers
  <2>2. /\ CountOf(wire', OnWire(p)) + CountOf(drv'.spool, {p})
             <= CountOf(wire, OnWire(p)) + CountOf(drv.spool, {p})
        /\ CountOf(x, Answers(p)) = 0
    BY <1>3
  <2>3. QED
    BY <2>1, <2>2
<1>5. QED
  BY <1>1, <1>2, <1>3, <1>4, DriverMoves

\* A message that the driver takes from its socket.
LEMMA WireHead ==
  ASSUME IInv, wire # <<>>
  PROVE  /\ Head(wire) \in Wires(sent) /\ Tail(wire) \in Seq(Wires(sent))
         /\ \A p \in Prints : CountOf(wire, OnWire(p)) = CountOf(Tail(wire), OnWire(p))
                                                           + One(Head(wire) \in OnWire(p))
         /\ \A p \in Prints : CountOf(Tail(wire), OnWire(p)) <= CountOf(wire, OnWire(p))
<1>1. wire \in Seq(Wires(sent))
  BY DEF IInv, TypeOK
<1>2. /\ Head(wire) \in Wires(sent) /\ Tail(wire) \in Seq(Wires(sent))
      /\ \A T : CountOf(wire, T) = CountOf(Tail(wire), T) + One(Head(wire) \in T)
      /\ \A T : CountOf(Tail(wire), T) \in Nat
  BY <1>1, TailCounts, CountIsNat
<1>3. QED
  BY <1>2 DEF One

\* What the driver keeps when it takes a message.
LEMMA DriverTakes ==
  ASSUME IInv, NEW type, DriverReceives(type), DriverKeeps
  PROVE  /\ Head(wire) \in Wires(sent) /\ Head(wire).type = type
         /\ wire' = Tail(wire) /\ wire' \in Seq(Wires(sent))
         /\ \A p \in Prints : /\ CountOf(wire, OnWire(p)) = CountOf(wire', OnWire(p)) + One(Head(wire) \in OnWire(p))
                              /\ CountOf(wire', OnWire(p)) <= CountOf(wire, OnWire(p))
                              /\ CountOf(wire, OnWire(p)) \in Nat /\ CountOf(drv.spool, {p}) \in Nat
                              /\ CountOf(wire', OnWire(p)) \in Nat
         /\ UNCHANGED <<rec, job, resuming, m, retry, credit, sent, crossed>>
         /\ parted' \in BOOLEAN /\ ops' \in Nat /\ faults' \in Nat
         /\ drv \in Drivers(sent) /\ drv.spool \in Seq(sent) /\ drv.prog \in Entries(sent)
<1>1. wire # <<>> /\ wire' = Tail(wire) /\ Head(wire).type = type
  BY DEF DriverReceives
<1>2. /\ Head(wire) \in Wires(sent) /\ wire' \in Seq(Wires(sent))
      /\ \A p \in Prints : CountOf(wire, OnWire(p)) = CountOf(wire', OnWire(p)) + One(Head(wire) \in OnWire(p))
      /\ \A p \in Prints : CountOf(wire', OnWire(p)) <= CountOf(wire, OnWire(p))
  BY <1>1, WireHead
<1>3. /\ UNCHANGED <<rec, job, resuming, m, retry, credit, sent, crossed, parted, ops, faults>>
  BY DEF DriverKeeps, database, history, bounds
<1>4. drv \in Drivers(sent) /\ parted \in BOOLEAN /\ ops \in Nat /\ faults \in Nat /\ wire \in Seq(Wires(sent))
  BY DEF IInv, TypeOK
<1>5. drv.spool \in Seq(sent) /\ drv.prog \in Entries(sent)
  BY <1>4 DEF Drivers
<1>6. \A p \in Prints : /\ CountOf(wire, OnWire(p)) \in Nat /\ CountOf(drv.spool, {p}) \in Nat
                        /\ CountOf(wire', OnWire(p)) \in Nat
  BY <1>2, <1>4, <1>5, CountIsNat
<1>7. QED
  BY <1>1, <1>2, <1>3, <1>4, <1>5, <1>6

LEMMA FlagsNone == /\ \A S : NoTask \in Maybe(S)
                   /\ \A p \in Prints : One(NoTask = p) = 0
BY TasksAssumption DEF Maybe, One, Task

\* A feedback that answers no pause.
LEMMA NeutralFeedback ==
  ASSUME TypeOK, NEW d \in Drivers(sent), NEW b \in Blocking
  PROVE  Feedback(d, NoTask, b) \in Messages(rec, sent) /\ Neutral(<<Feedback(d, NoTask, b)>>)
<1> DEFINE none == NoTask
           Counted(e) == /\ e \in Messages(rec, sent)
                         /\ \A t \in Task : CountOf(<<e>>, Carry(t)) = 0
                         /\ \A p \in Prints : /\ CountOf(<<e>>, Asks(p)) = 0
                                              /\ CountOf(<<e>>, Answers(p)) = One(none = p)
<1>1. b \in BOOLEAN /\ sent \subseteq Task /\ NoTask \notin Prints
  BY TasksAssumption DEF TypeOK, Task
<1>2. none \in Maybe(Prints \cap sent) /\ \A p \in Prints : One(none = p) = 0
  BY FlagsNone
<1> HIDE DEF none
<1>3. \A x \in Drivers(sent), y \in BOOLEAN : Counted(Feedback(x, none, y))
  <2>1. SUFFICES ASSUME NEW x \in Drivers(sent), NEW y \in BOOLEAN
                 PROVE  Counted(Feedback(x, none, y))
    OBVIOUS
  <2>2. QED
    BY <1>1, <1>2, FeedbackCounts
<1>4. Counted(Feedback(d, none, b))
  BY <1>1, <1>3
<1>5. QED
  BY <1>2, <1>4 DEF Neutral, none

LEMMA DriverHelloKeeps ==
  ASSUME IInv, DriverHello
  PROVE  IInv'
<1>1. /\ wire' \in Seq(Wires(sent))
      /\ \A p \in Prints : /\ CountOf(wire', OnWire(p)) <= CountOf(wire, OnWire(p))
                           /\ CountOf(wire, OnWire(p)) \in Nat /\ CountOf(wire', OnWire(p)) \in Nat
                           /\ CountOf(drv.spool, {p}) \in Nat
      /\ UNCHANGED <<rec, job, resuming, m, retry, credit, sent, crossed>>
      /\ parted' \in BOOLEAN /\ ops' \in Nat /\ faults' \in Nat
      /\ drv \in Drivers(sent) /\ TypeOK
  BY DriverTakes DEF DriverHello, IInv
<1>2. PICK b \in Blocking :
        mail' = Hear(mail, <<[type |-> "Init", old |-> drv.old], Feedback(drv, NoTask, b)>>)
  BY DEF DriverHello
<1> DEFINE e == [type |-> "Init", old |-> drv.old]
           f == Feedback(drv, NoTask, b)
<1>3. e \in Messages(rec, sent) /\ Neutral(<<e>>)
  <2>1. drv.old \in BOOLEAN
    BY <1>1 DEF Drivers
  <2>2. QED
    BY <2>1, NeutralOnes
<1>4. f \in Messages(rec, sent) /\ Neutral(<<f>>)
  BY <1>1, NeutralFeedback
<1> HIDE DEF e, f
<1>5. <<e, f>> \in Seq(Messages(rec, sent)) /\ Neutral(<<e, f>>)
  BY <1>3, <1>4, NeutralTwo
<1>6. mail' = Hear(mail, <<e, f>>) /\ drv' = drv
  BY <1>2 DEF e, f, DriverHello
<1> DEFINE x == <<e, f>>
<1>7. x \in Seq(Messages(rec, sent)) /\ Neutral(x) /\ mail' = Hear(mail, x)
  BY <1>5, <1>6
<1> HIDE DEF x
<1>8. ASSUME NEW p \in Prints
      PROVE  CountOf(x, Answers(p)) + CountOf(wire', OnWire(p)) + CountOf(drv'.spool, {p})
               <= CountOf(wire, OnWire(p)) + CountOf(drv.spool, {p})
  <2>1. CountOf(x, Answers(p)) = 0 /\ drv'.spool = drv.spool
    BY <1>6, <1>7 DEF Neutral
  <2>2. QED
    BY <1>1, <2>1
<1>9. QED
  BY <1>1, <1>6, <1>7, <1>8, DriverMoves DEF Neutral

LEMMA DriverSpoolKeeps ==
  ASSUME IInv, DriverSpool
  PROVE  IInv'
<1> DEFINE e == Head(wire)
<1>1. /\ e \in Wires(sent) /\ e.type = "SpoolTask" /\ wire' \in Seq(Wires(sent))
      /\ \A p \in Prints : /\ CountOf(wire, OnWire(p)) = CountOf(wire', OnWire(p)) + One(e \in OnWire(p))
                           /\ CountOf(wire', OnWire(p)) <= CountOf(wire, OnWire(p))
                           /\ CountOf(wire, OnWire(p)) \in Nat /\ CountOf(wire', OnWire(p)) \in Nat
                           /\ CountOf(drv.spool, {p}) \in Nat
      /\ UNCHANGED <<rec, job, resuming, m, retry, credit, sent, crossed>>
      /\ parted' \in BOOLEAN /\ ops' \in Nat /\ faults' \in Nat
      /\ drv \in Drivers(sent) /\ drv.spool \in Seq(sent)
  BY DriverTakes DEF DriverSpool
<1>2. e.task \in sent /\ e \in Wireable /\ \A p \in Prints : e \in OnWire(p) <=> e.task \in {p}
  BY <1>1 DEF Wires, OnWire
<1>3. \/ UNCHANGED <<drv, mail>>
      \/ Tell(Run([drv EXCEPT !.spool = <<e.task>> \o @]), NoTask)
      \/ drv' = [drv EXCEPT !.spool = Append(@, e.task)] /\ UNCHANGED mail
  BY DEF DriverSpool
<1>4. CASE UNCHANGED <<drv, mail>>
  <2>1. ASSUME NEW p \in Prints
        PROVE  CountOf(wire', OnWire(p)) + CountOf(drv'.spool, {p})
                 <= CountOf(wire, OnWire(p)) + CountOf(drv.spool, {p})
    BY <1>1, <1>4
  <2>2. QED
    BY <1>1, <1>4, <2>1, DriverSilent
<1>5. CASE Tell(Run([drv EXCEPT !.spool = <<e.task>> \o @]), NoTask)
  <2> DEFINE d == [drv EXCEPT !.spool = <<e.task>> \o @]
             t == e.task
             spool == <<t>> \o drv.spool
  <2>1. t \in sent /\ <<t>> \in Seq(sent)
    BY <1>2
  <2>2. spool \in Seq(sent)
    BY <1>1, <2>1
  <2>3. d \in Drivers(sent) /\ d.spool = spool
    BY <1>1, <2>2 DEF Drivers
  <2>4. \A p \in Prints : CountOf(spool, {p}) = One(e \in OnWire(p)) + CountOf(drv.spool, {p})
    <3> HIDE DEF t
    <3>1. ASSUME NEW T
          PROVE  CountOf(<<t>> \o drv.spool, T) = One(t \in T) + CountOf(drv.spool, T)
      <4> DEFINE s == <<t>>
      <4>1. CountOf(s, T) = One(t \in T) /\ s \in Seq(sent)
        BY <2>1, CountOne DEF One
      <4> HIDE DEF s
      <4>2. CountOf(s \o drv.spool, T) = CountOf(s, T) + CountOf(drv.spool, T)
        BY <1>1, <4>1, CountConcat
      <4>3. QED
        BY <4>1, <4>2 DEF s
    <3>2. \A p \in Prints : One(e \in OnWire(p)) = One(t \in {p})
      BY <1>2 DEF One, t
    <3>3. QED
      BY <3>1, <3>2
  <2> HIDE DEF d, spool
  <2>5. Run(d) \in Drivers(sent) /\ Run(d).spool = spool
    BY <2>3, RunType
  <2>6. ASSUME NEW p \in Prints
        PROVE  One(NoTask = p) + CountOf(wire', OnWire(p)) + CountOf(Run(d).spool, {p})
                 <= CountOf(wire, OnWire(p)) + CountOf(drv.spool, {p})
    <3>1. CountOf(Run(d).spool, {p}) = One(e \in OnWire(p)) + CountOf(drv.spool, {p})
      BY <2>4, <2>5
    <3>2. One(NoTask = p) = 0 /\ One(e \in OnWire(p)) \in Nat
      BY FlagsNone DEF One
    <3> HIDE DEF e
    <3>3. QED
      BY <1>1, <3>1, <3>2
  <2>7. Tell(Run(d), NoTask)
    BY <1>5 DEF d
  <2>8. NoTask \in Maybe(Prints \cap sent)
    BY FlagsNone
  <2>9. QED
    BY <1>1, <2>5, <2>6, <2>7, <2>8, TellKeeps
<1>6. CASE drv' = [drv EXCEPT !.spool = Append(@, e.task)] /\ UNCHANGED mail
  <2> DEFINE t == e.task
             spool == Append(drv.spool, t)
  <2>1. spool \in Seq(sent)
    BY <1>1, <1>2
  <2>2. drv' \in Drivers(sent) /\ drv'.spool = spool
    BY <1>1, <1>6, <2>1 DEF Drivers
  <2>3. ASSUME NEW p \in Prints
        PROVE  CountOf(wire', OnWire(p)) + CountOf(drv'.spool, {p})
                 <= CountOf(wire, OnWire(p)) + CountOf(drv.spool, {p})
    <3>1. One(t \in {p}) = One(e \in OnWire(p)) /\ One(t \in {p}) \in Nat
      BY <1>2 DEF One
    <3>2. t \in sent
      BY <1>2
    <3> HIDE DEF t
    <3>3. CountOf(spool, {p}) = CountOf(drv.spool, {p}) + One(t \in {p})
      BY <1>1, <3>2, CountAppend DEF One
    <3> HIDE DEF e, spool
    <3>4. QED
      BY <1>1, <2>2, <3>1, <3>3
  <2>4. QED
    BY <1>1, <1>6, <2>2, <2>3, DriverSilent
<1>7. QED
  BY <1>3, <1>4, <1>5, <1>6

LEMMA DriverPauseKeeps ==
  ASSUME IInv, DriverPause
  PROVE  IInv'
<1> DEFINE e == Head(wire)
           t == e.task
<1>1. /\ e \in Wires(sent) /\ e.type = "Pause" /\ wire' \in Seq(Wires(sent))
      /\ \A p \in Prints : /\ CountOf(wire', OnWire(p)) <= CountOf(wire, OnWire(p))
                           /\ CountOf(wire, OnWire(p)) \in Nat /\ CountOf(wire', OnWire(p)) \in Nat
                           /\ CountOf(drv.spool, {p}) \in Nat
      /\ UNCHANGED <<rec, job, resuming, m, retry, credit, sent, crossed>>
      /\ parted' \in BOOLEAN /\ ops' \in Nat /\ faults' \in Nat
      /\ drv \in Drivers(sent) /\ drv.spool \in Seq(sent) /\ drv.prog \in Entries(sent)
  BY DriverTakes DEF DriverPause
<1>2. t \in Prints
  BY <1>1 DEF Wires, Wireable
<1>3. CASE ~\E i \in 1 .. Len(drv.spool) : drv.spool[i] = t
  <2>1. UNCHANGED <<drv, mail>>
    BY <1>3 DEF DriverPause
  <2>2. ASSUME NEW p \in Prints
        PROVE  CountOf(wire', OnWire(p)) + CountOf(drv'.spool, {p})
                 <= CountOf(wire, OnWire(p)) + CountOf(drv.spool, {p})
    BY <1>1, <2>1
  <2>3. QED
    BY <1>1, <2>1, <2>2, DriverSilent
<1>4. CASE \E i \in 1 .. Len(drv.spool) : drv.spool[i] = t
  <2> DEFINE gone == {i \in DOMAIN drv.spool : drv.spool[i] = t}
             spool == Without(drv.spool, gone)
             prog == Put(drv.prog, t, "paused")
             d == [drv EXCEPT !.spool = spool, !.prog = prog]
  <2>1. PICK i \in 1 .. Len(drv.spool) : drv.spool[i] = t
    BY <1>4
  <2>2. t \in sent
    BY <1>1, <2>1
  <2>3. prog \in Entries(sent)
    BY <1>1, <2>2, PutType DEF Progress
  <2>4. /\ spool \in Seq(sent)
        /\ \A p \in Prints : CountOf(spool, {p}) <= CountOf(drv.spool, {p})
        /\ CountOf(spool, {t}) = 0
    <3>1. DOMAIN drv.spool = 1 .. Len(drv.spool)
      BY <1>1
    <3>2. \A i_1 \in 1 .. Len(drv.spool) : drv.spool[i_1] \in {t} => i_1 \in gone
      BY <3>1
    <3> HIDE DEF gone, t
    <3>3. QED
      BY <1>1, <3>2, WithoutCounts
  <2>5. d \in Drivers(sent) /\ d.spool = spool
    <3> HIDE DEF spool, prog
    <3>1. QED
      BY <1>1, <2>3, <2>4 DEF Drivers
  <2>6. Tell(Run(d), t)
    BY <1>4 DEF DriverPause
  <2> HIDE DEF d, spool
  <2>7. Run(d) \in Drivers(sent) /\ Run(d).spool = spool
    BY <2>5, RunType
  <2>8. CountOf(drv.spool, {t}) >= 1
    <3>1. CountOf(drv.spool, {t}) # 0
      BY <1>1, <2>1, CountSome
    <3>2. CountOf(drv.spool, {t}) \in Nat
      BY <1>1, CountIsNat
    <3>3. QED
      BY <3>1, <3>2
  <2>9. ASSUME NEW p \in Prints
        PROVE  One(t = p) + CountOf(wire', OnWire(p)) + CountOf(Run(d).spool, {p})
                 <= CountOf(wire, OnWire(p)) + CountOf(drv.spool, {p})
    <3>1. /\ CountOf(wire', OnWire(p)) <= CountOf(wire, OnWire(p))
          /\ CountOf(wire, OnWire(p)) \in Nat /\ CountOf(wire', OnWire(p)) \in Nat
          /\ CountOf(drv.spool, {p}) \in Nat
      BY <1>1
    <3>2. CountOf(spool, {p}) \in Nat /\ CountOf(spool, {p}) <= CountOf(drv.spool, {p})
      BY <2>4, CountIsNat
    <3> HIDE DEF t
    <3>3. CASE p = t
      BY <2>4, <2>7, <2>8, <3>1, <3>3 DEF One
    <3>4. CASE p # t
      BY <2>7, <3>1, <3>2, <3>4 DEF One
    <3>5. QED
      BY <3>3, <3>4
  <2>10. t \in Maybe(Prints \cap sent)
    BY <1>2, <2>2 DEF Maybe
  <2> HIDE DEF t
  <2>11. QED
    BY <1>1, <2>6, <2>7, <2>9, <2>10, TellKeeps
<1>5. QED
  BY <1>3, <1>4

LEMMA DriverDeleteKeeps ==
  ASSUME IInv, DriverDelete
  PROVE  IInv'
<1> DEFINE gone == {i \in DOMAIN drv.prog : drv.prog[i].task = Head(wire).task}
           prog == Without(drv.prog, gone)
<1>1. /\ wire' \in Seq(Wires(sent))
      /\ \A p \in Prints : /\ CountOf(wire', OnWire(p)) <= CountOf(wire, OnWire(p))
                           /\ CountOf(wire, OnWire(p)) \in Nat /\ CountOf(wire', OnWire(p)) \in Nat
                           /\ CountOf(drv.spool, {p}) \in Nat
      /\ UNCHANGED <<rec, job, resuming, m, retry, credit, sent, crossed>>
      /\ parted' \in BOOLEAN /\ ops' \in Nat /\ faults' \in Nat
      /\ drv \in Drivers(sent) /\ drv.prog \in Entries(sent)
  BY DriverTakes DEF DriverDelete
<1>2. drv' = [drv EXCEPT !.prog = prog] /\ mail' = mail
  BY DEF DriverDelete
<1>3. prog \in Entries(sent)
  <2> HIDE DEF gone
  <2>1. QED
    BY <1>1, WithoutCounts DEF Entries
<1> HIDE DEF prog
<1>4. drv' \in Drivers(sent) /\ drv'.spool = drv.spool
  BY <1>1, <1>2, <1>3 DEF Drivers
<1>5. ASSUME NEW p \in Prints
      PROVE  CountOf(wire', OnWire(p)) + CountOf(drv'.spool, {p})
               <= CountOf(wire, OnWire(p)) + CountOf(drv.spool, {p})
  BY <1>1, <1>4
<1>6. QED
  BY <1>1, <1>2, <1>4, <1>5, DriverSilent

\* The driver by itself goes to a state with no more tasks, and tells it.
LEMMA MovesOn ==
  ASSUME IInv, UNCHANGED <<rec, job, resuming, m, retry, credit, sent, crossed>>,
         parted' \in BOOLEAN, ops' \in Nat, faults' \in Nat, wire' \in Seq(Wires(sent)),
         \A p \in Prints : CountOf(wire', OnWire(p)) <= CountOf(wire, OnWire(p)),
         NEW d \in Drivers(sent), Tell(d, NoTask),
         \A p \in Prints : CountOf(d.spool, {p}) <= CountOf(drv.spool, {p})
  PROVE  IInv'
<1>1. \A p \in Prints : /\ CountOf(wire, OnWire(p)) \in Nat /\ CountOf(wire', OnWire(p)) \in Nat
                        /\ CountOf(drv.spool, {p}) \in Nat /\ CountOf(d.spool, {p}) \in Nat
  BY CountIsNat DEF IInv, TypeOK, Drivers
<1>2. NoTask \in Maybe(Prints \cap sent)
  BY FlagsNone
<1>3. ASSUME NEW p \in Prints
      PROVE  One(NoTask = p) + CountOf(wire', OnWire(p)) + CountOf(d.spool, {p})
               <= CountOf(wire, OnWire(p)) + CountOf(drv.spool, {p})
  BY <1>1, FlagsNone
<1>4. QED
  BY <1>2, <1>3, TellKeeps

LEMMA DriverEstopKeeps ==
  ASSUME IInv, DriverEstop
  PROVE  IInv'
<1> DEFINE d == Lose(drv, "estopped", "cancelled")
<1>1. /\ wire' \in Seq(Wires(sent))
      /\ \A p \in Prints : /\ CountOf(wire', OnWire(p)) <= CountOf(wire, OnWire(p))
                           /\ CountOf(drv.spool, {p}) \in Nat
      /\ UNCHANGED <<rec, job, resuming, m, retry, credit, sent, crossed>>
      /\ parted' \in BOOLEAN /\ ops' \in Nat /\ faults' \in Nat
      /\ drv \in Drivers(sent)
  BY DriverTakes DEF DriverEstop
<1>2. d \in Drivers(sent) /\ d.spool = <<>>
  BY <1>1, LoseType DEF DriverSt, Progress
<1>3. Tell(d, NoTask)
  BY DEF DriverEstop
<1> HIDE DEF d
<1>4. \A p \in Prints : CountOf(d.spool, {p}) <= CountOf(drv.spool, {p})
  BY <1>1, <1>2, CountEmpty
<1>5. QED
  BY <1>1, <1>2, <1>3, <1>4, MovesOn

\* The parts of the state that the driver's own steps leave alone.
LEMMA DriverAlone ==
  ASSUME IInv
  PROVE  /\ TypeOK /\ wire \in Seq(Wires(sent)) /\ drv \in Drivers(sent) /\ drv.spool \in Seq(sent)
         /\ drv.prog \in Entries(sent) /\ parted \in BOOLEAN
         /\ \A p \in Prints : /\ CountOf(wire, OnWire(p)) <= CountOf(wire, OnWire(p))
                              /\ CountOf(drv.spool, {p}) <= CountOf(drv.spool, {p})
                              /\ CountOf(wire, OnWire(p)) \in Nat /\ CountOf(drv.spool, {p}) \in Nat
<1>1. TypeOK /\ wire \in Seq(Wires(sent)) /\ drv \in Drivers(sent) /\ parted \in BOOLEAN
  BY DEF IInv, TypeOK
<1>2. drv.spool \in Seq(sent) /\ drv.prog \in Entries(sent)
  BY <1>1 DEF Drivers
<1>3. ASSUME NEW p \in Prints
      PROVE  /\ CountOf(wire, OnWire(p)) <= CountOf(wire, OnWire(p))
             /\ CountOf(drv.spool, {p}) <= CountOf(drv.spool, {p})
             /\ CountOf(wire, OnWire(p)) \in Nat /\ CountOf(drv.spool, {p}) \in Nat
  <2>1. CountOf(wire, OnWire(p)) \in Nat /\ CountOf(drv.spool, {p}) \in Nat
    BY <1>1, PlacesAreNat
  <2>2. QED
    BY <2>1
<1>4. QED
  BY <1>1, <1>2, <1>3

LEMMA DriverFailsKeeps ==
  ASSUME IInv, NEW st \in {"disconnected", "errored"}, DriverFails(st)
  PROVE  IInv'
<1> DEFINE d == Lose(drv, st, "errored")
<1>1. /\ UNCHANGED <<rec, job, resuming, m, retry, wire, credit, sent, crossed>>
      /\ parted' \in BOOLEAN /\ Tell(d, NoTask)
  BY DEF DriverFails, database
<1>2. ops' \in Nat /\ faults' \in Nat
  BY FaultType DEF DriverFails, IInv
<1>3. d \in Drivers(sent) /\ d.spool = <<>>
  BY DriverAlone, LoseType DEF DriverSt, Progress
<1> HIDE DEF d
<1>4. \A p \in Prints : CountOf(d.spool, {p}) <= CountOf(drv.spool, {p})
  BY <1>3, DriverAlone, CountEmpty
<1>5. wire' \in Seq(Wires(sent)) /\ \A p \in Prints : CountOf(wire', OnWire(p)) <= CountOf(wire, OnWire(p))
  BY <1>1, DriverAlone
<1>6. QED
  BY <1>1, <1>2, <1>3, <1>4, <1>5, MovesOn

LEMMA DriverConnectsKeeps ==
  ASSUME IInv, DriverConnects
  PROVE  IInv'
<1> DEFINE d == [drv EXCEPT !.st = IF @ = "disconnected" THEN "connecting" ELSE "ready"]
<1>1. /\ UNCHANGED <<rec, job, resuming, m, retry, wire, credit, sent, parted, crossed, ops, faults>>
      /\ Tell(d, NoTask)
  BY DEF DriverConnects, DriverKeeps, database, history, bounds
<1>2. d \in Drivers(sent) /\ d.spool = drv.spool
  BY DriverAlone DEF Drivers, DriverSt
<1> HIDE DEF d
<1>3. wire' \in Seq(Wires(sent)) /\ \A p \in Prints : CountOf(wire', OnWire(p)) <= CountOf(wire, OnWire(p))
  BY <1>1, DriverAlone
<1>4. \A p \in Prints : CountOf(d.spool, {p}) <= CountOf(drv.spool, {p})
  BY <1>2, DriverAlone
<1>5. parted' \in BOOLEAN /\ ops' \in Nat /\ faults' \in Nat
  BY <1>1 DEF IInv, TypeOK
<1>6. QED
  BY <1>1, <1>2, <1>3, <1>4, <1>5, MovesOn

\* The driver's process ends, and with it what it had.
LEMMA ExitKeeps ==
  ASSUME IInv, UNCHANGED <<rec, job, resuming, retry, credit, sent, parted, crossed>>,
         ops' \in Nat, faults' \in Nat, Exit, m' = Dead,
         NEW box \in Seq(Messages(rec, sent)), NoMore(box, mail), StillWaits(mail, box),
         NEW x \in Seq(Messages(rec, sent)), Neutral(x), Waits(x, "Closed"), mail' = Hear(box, x)
  PROVE  IInv'
<1>1. /\ TypeOK /\ Sound /\ Alive(m, mail, retry) /\ mail \in Seq(Messages(rec, sent))
      /\ m \in Machines(sent)
  BY IInvIs DEF IInv, TypeOK
<1>2. /\ mail' \in Seq(Messages(rec, sent)) /\ NoMore(mail', box) /\ StillWaits(box, mail')
  BY <1>1, HearType
<1>3. NoMore(mail', mail) /\ StillWaits(mail, mail')
  BY <1>1, <1>2, NoMoreBeyond, StillWaitsBeyond
<1>4. m' \in Machines(sent) /\ m'.saved = m.saved /\ m'.attempting = m.attempting
  BY <1>1 DEF Dead, Machines
<1>5. wire' = <<>> /\ wire' \in Seq(Wires(sent)) /\ drv' \in Drivers(sent) /\ drv'.spool = <<>>
  <2>1. wire' = <<>> /\ drv' = [NewDriver EXCEPT !.up = FALSE]
    BY DEF Exit
  <2>2. NewDriver \in Drivers(sent) /\ NewDriver.spool = <<>>
    BY DEF NewDriver, Drivers, DriverSt, Entries
  <2>3. [NewDriver EXCEPT !.up = FALSE] \in Drivers(sent)
    BY <2>2 DEF Drivers
  <2>4. [NewDriver EXCEPT !.up = FALSE].spool = NewDriver.spool
    BY DEF NewDriver
  <2>5. <<>> \in Seq(Wires(sent))
    OBVIOUS
  <2>6. QED
    BY <2>1, <2>2, <2>3, <2>4, <2>5
<1>6. TypeOK'
  BY <1>1, <1>2, <1>4, <1>5, QuietType DEF TypeOK
<1>7. Fewer
  <2>1. \A p \in Prints : CountOf(wire', OnWire(p)) = 0 /\ CountOf(drv'.spool, {p}) = 0
    BY <1>5, CountEmpty
  <2>2. \A p \in Prints : CountOf(wire, OnWire(p)) \in Nat /\ CountOf(drv.spool, {p}) \in Nat
    BY DriverAlone
  <2>3. ASSUME NEW p \in Prints
        PROVE  /\ CountOf(wire', OnWire(p)) <= CountOf(wire, OnWire(p))
               /\ CountOf(drv'.spool, {p}) <= CountOf(drv.spool, {p})
    <3> DEFINE a == CountOf(wire, OnWire(p))
               b == CountOf(drv.spool, {p})
               c == CountOf(wire', OnWire(p))
               d == CountOf(drv'.spool, {p})
    <3>1. a \in Nat /\ b \in Nat /\ c = 0 /\ d = 0
      BY <2>1, <2>2
    <3> HIDE DEF a, b, c, d
    <3>2. c <= a /\ d <= b
      BY <3>1
    <3>3. QED
      BY <3>2 DEF a, b, c, d
  <2>4. QED
    BY <1>4, <2>3 DEF Fewer
<1>8. Sound'
  BY <1>1, <1>3, <1>6, <1>7, FewerStep
<1>9. Alive(m', mail', retry')
  <2>1. CASE m.conn = "live"
    <3>1. mail' = box \o x
      BY <2>1 DEF Hear
    <3>2. Waits(mail', "Closed")
      BY <3>1, WaitsJoin
    <3>3. QED
      BY <3>2 DEF Alive
  <2>2. CASE m.conn # "live"
    <3>1. m'.conn = m.conn
      BY <2>2 DEF Dead
    <3>2. QED
      BY <1>1, <1>3, <1>4, <3>1, AliveKeeps
  <2>3. QED
    BY <2>1, <2>2
<1>10. QED
  BY <1>8, <1>9, IInvIs

LEMMA ClosedWaits ==
  /\ \A r, S : <<Msg("Closed")>> \in Seq(Messages(r, S))
  /\ Neutral(<<Msg("Closed")>>) /\ Waits(<<Msg("Closed")>>, "Closed")
<1> DEFINE e == Msg("Closed")
<1>1. \A r, S : e \in Messages(r, S) /\ Neutral(<<e>>)
  BY NeutralOnes
<1>2. Waits(<<e>>, "Closed")
  BY WaitsOne DEF Msg
<1> HIDE DEF e
<1>3. \A r, S : <<e>> \in Seq(Messages(r, S))
  BY <1>1
<1>4. QED
  BY <1>1, <1>2, <1>3 DEF e

\* The mailbox as it is, for ExitKeeps.
LEMMA MailAsItIs ==
  ASSUME IInv
  PROVE  mail \in Seq(Messages(rec, sent)) /\ NoMore(mail, mail) /\ StillWaits(mail, mail)
<1>1. mail \in Seq(Messages(rec, sent))
  BY DEF IInv, TypeOK
<1>2. QED
  BY <1>1, CountsAreNat DEF NoMore, Counts, StillWaits

LEMMA DriverCrashKeeps ==
  ASSUME IInv, DriverCrash
  PROVE  IInv'
<1>1. /\ UNCHANGED <<rec, job, resuming, retry, credit, sent, parted, crossed>>
      /\ Exit /\ m' = Dead /\ mail' = Hear(mail, <<Msg("Closed")>>)
  BY DEF DriverCrash, Closes, database, history
<1>2. ops' \in Nat /\ faults' \in Nat
  BY FaultType DEF DriverCrash, IInv
<1> DEFINE x == <<Msg("Closed")>>
<1>3. x \in Seq(Messages(rec, sent)) /\ Neutral(x) /\ Waits(x, "Closed") /\ mail' = Hear(mail, x)
  BY <1>1, ClosedWaits
<1> HIDE DEF x
<1>4. QED
  BY <1>1, <1>2, <1>3, MailAsItIs, ExitKeeps

LEMMA DriverResetWhenIdleKeeps ==
  ASSUME IInv, DriverResetWhenIdle
  PROVE  IInv'
<1>1. /\ UNCHANGED <<rec, job, resuming, retry, credit, sent, parted, crossed, ops, faults>>
      /\ wire # <<>>
  BY DEF DriverResetWhenIdle, database, history, bounds
<1>2. ops' \in Nat /\ faults' \in Nat /\ parted' \in BOOLEAN
  BY <1>1 DEF IInv, TypeOK
<1>3. CASE Exit /\ m' = Dead /\ mail' = Closes(mail)
  <2> DEFINE x == <<Msg("Closed")>>
  <2>1. x \in Seq(Messages(rec, sent)) /\ Neutral(x) /\ Waits(x, "Closed") /\ mail' = Hear(mail, x)
    BY <1>3, ClosedWaits DEF Closes
  <2> HIDE DEF x
  <2>2. QED
    BY <1>1, <1>2, <1>3, <2>1, MailAsItIs, ExitKeeps
<1>4. CASE drv' = [drv EXCEPT !.idle = TRUE] /\ wire' = Tail(wire) /\ UNCHANGED <<m, mail>>
  <2>1. drv' \in Drivers(sent) /\ drv'.spool = drv.spool
    BY <1>4, DriverAlone DEF Drivers
  <2>2. wire' \in Seq(Wires(sent)) /\ \A p \in Prints : CountOf(wire', OnWire(p)) <= CountOf(wire, OnWire(p))
    BY <1>1, <1>4, WireHead
  <2>3. ASSUME NEW p \in Prints
        PROVE  CountOf(wire', OnWire(p)) + CountOf(drv'.spool, {p})
                 <= CountOf(wire, OnWire(p)) + CountOf(drv.spool, {p})
    <3>1. CountOf(wire', OnWire(p)) \in Nat
      BY <2>2, CountIsNat
    <3>2. QED
      BY <2>1, <2>2, <3>1, DriverAlone
  <2>4. QED
    BY <1>1, <1>2, <1>4, <2>1, <2>2, <2>3, DriverSilent
<1>5. QED
  BY <1>3, <1>4 DEF DriverResetWhenIdle

LEMMA DriverFinishKeeps ==
  ASSUME IInv, DriverFinish
  PROVE  IInv'
<1> DEFINE prog == Put(drv.prog, Head(drv.spool), "finished")
           c == [drv EXCEPT !.spool = Tail(@), !.prog = prog]
           d == Run(c)
<1>1. /\ UNCHANGED <<rec, job, resuming, retry, credit, sent, parted, crossed, ops, faults>>
      /\ drv.spool # <<>>
  BY DEF DriverFinish, database, history, bounds
<1>2. ops' \in Nat /\ faults' \in Nat /\ parted' \in BOOLEAN
  BY <1>1 DEF IInv, TypeOK
<1>3. /\ Head(drv.spool) \in sent /\ Tail(drv.spool) \in Seq(sent)
      /\ \A p \in Prints : CountOf(Tail(drv.spool), {p}) <= CountOf(drv.spool, {p})
  <2>1. \A T : /\ CountOf(drv.spool, T) = CountOf(Tail(drv.spool), T) + One(Head(drv.spool) \in T)
               /\ CountOf(Tail(drv.spool), T) \in Nat
    BY <1>1, DriverAlone, TailCounts, CountIsNat
  <2>2. QED
    BY <1>1, <2>1, DriverAlone, TailCounts DEF One
<1>4. prog \in Entries(sent)
  BY <1>3, DriverAlone, PutType DEF Progress
<1>5. c \in Drivers(sent) /\ c.spool = Tail(drv.spool)
  <2> HIDE DEF prog
  <2>1. QED
    BY <1>3, <1>4, DriverAlone DEF Drivers
<1> HIDE DEF c
<1>6. d \in Drivers(sent) /\ d.spool = Tail(drv.spool)
  BY <1>5, RunType
<1>7. \/ /\ Exit /\ m' = Dead
         /\ \E b \in Blocking : mail' = Hear(mail, <<Feedback(d, NoTask, b), Msg("Closed")>>)
      \/ Tell(d, NoTask) /\ UNCHANGED <<m, wire>>
  BY DEF DriverFinish, c
<1> HIDE DEF d
<1>8. CASE /\ Exit /\ m' = Dead
           /\ \E b \in Blocking : mail' = Hear(mail, <<Feedback(d, NoTask, b), Msg("Closed")>>)
  <2>1. PICK b \in Blocking : mail' = Hear(mail, <<Feedback(d, NoTask, b), Msg("Closed")>>)
    BY <1>8
  <2> DEFINE f == Feedback(d, NoTask, b)
             e == Msg("Closed")
             x == <<f, e>>
  <2>2. f \in Messages(rec, sent) /\ Neutral(<<f>>)
    BY <1>6, DriverAlone, NeutralFeedback
  <2>3. e \in Messages(rec, sent) /\ Neutral(<<e>>) /\ e.type = "Closed"
    BY NeutralOnes DEF Msg
  <2> HIDE DEF e, f
  <2>4. x \in Seq(Messages(rec, sent)) /\ Neutral(x)
    BY <2>2, <2>3, NeutralTwo
  <2>5. Waits(x, "Closed")
    <3>1. Len(x) = 2 /\ x[2] = e
      OBVIOUS
    <3>2. QED
      BY <2>3, <3>1 DEF Waits
  <2>6. mail' = Hear(mail, x)
    BY <2>1 DEF e, f
  <2> HIDE DEF x
  <2>7. QED
    BY <1>1, <1>2, <1>8, <2>4, <2>5, <2>6, MailAsItIs, ExitKeeps
<1>9. CASE Tell(d, NoTask) /\ UNCHANGED <<m, wire>>
  <2>1. wire' \in Seq(Wires(sent)) /\ \A p \in Prints : CountOf(wire', OnWire(p)) <= CountOf(wire, OnWire(p))
    BY <1>9, DriverAlone
  <2>2. \A p \in Prints : CountOf(d.spool, {p}) <= CountOf(drv.spool, {p})
    BY <1>3, <1>6
  <2>3. QED
    BY <1>1, <1>2, <1>6, <1>9, <2>1, <2>2, MovesOn
<1>10. QED
  BY <1>7, <1>8, <1>9

LEMMA HandleResetMachineKeeps ==
  ASSUME IInv, HandleResetMachine
  PROVE  IInv'
<1>1. /\ UNCHANGED <<rec, job, resuming, retry, credit, sent, parted, crossed>>
      /\ mail # <<>> /\ Head(mail).type = "ResetMachine"
  BY DEF HandleResetMachine, Receives, database, history
<1>2. CASE drv.up /\ Exit /\ m' = Dead /\ mail' = Closes(Tail(mail)) /\ UNCHANGED bounds
  <2> DEFINE x == <<Msg("Closed")>>
             box == Tail(mail)
  <2>1. x \in Seq(Messages(rec, sent)) /\ Neutral(x) /\ Waits(x, "Closed") /\ mail' = Hear(box, x)
    BY <1>2, ClosedWaits DEF Closes
  <2>2. box \in Seq(Messages(rec, sent)) /\ NoMore(box, mail) /\ StillWaits(mail, box)
    BY <1>1, ReceivesHead
  <2>3. ops' \in Nat /\ faults' \in Nat
    BY <1>2, BoundsType DEF IInv
  <2> HIDE DEF x, box
  <2>4. QED
    BY <1>1, <1>2, <2>1, <2>2, <2>3, ExitKeeps
<1>3. CASE /\ IF drv.up THEN Fault("kill") ELSE UNCHANGED bounds
           /\ StopActor(Tail(mail)) /\ UNCHANGED <<m, wire, drv>>
  <2>1. ops' \in Nat /\ faults' \in Nat
    BY <1>3, BoundsType, FaultType DEF IInv
  <2>2. mail' = Append(Tail(mail), Msg("Stop"))
    BY <1>3 DEF StopActor
  <2>3. QED
    BY <1>1, <1>3, <2>1, <2>2, HandsOnCounted
<1>4. QED
  BY <1>2, <1>3 DEF HandleResetMachine

LEMMA StreamBreaksKeeps ==
  ASSUME IInv, StreamBreaks
  PROVE  IInv'
<1>1. TypeOK /\ Sound /\ Alive(m, mail, retry) /\ mail \in Seq(Messages(rec, sent))
  BY IInvIs DEF IInv, TypeOK
<1>2. /\ mail' = Append(mail, Msg("Broken"))
      /\ UNCHANGED <<rec, job, resuming, m, wire, drv, retry, credit, sent, parted, crossed>>
  BY DEF StreamBreaks, Post, database, history
<1>3. mail' \in Seq(Messages(rec, sent)) /\ NoMore(mail', mail) /\ StillWaits(mail, mail')
  BY <1>1, <1>2, AddSignal
<1>4. TypeOK'
  <2>1. ops' \in Nat /\ faults' \in Nat
    BY <1>1, FaultType DEF StreamBreaks
  <2>2. QED
    BY <1>1, <1>2, <1>3, <2>1, QuietType DEF TypeOK
<1>5. Sound'
  BY <1>1, <1>2, <1>3, <1>4, FewerSame, FewerStep
<1>6. QED
  BY <1>1, <1>2, <1>3, <1>5, AliveKeeps, IInvIs

-----------------------------------------------------------------------------
(***************************************************************************)
(* The steps that change records or jobs.                                  *)
(***************************************************************************)
Load(box, jobs, t) ==
  CountOf(box, Carry(t)) + One(t \in Prints /\ jobs[t].phase = "compiling")

AskedIn(box, jobs, p) == One(jobs[p].phase # "none") + CountOf(box, Asks(p))

LEMMA LoadIsNat ==
  ASSUME NEW M, NEW box \in Seq(M), NEW jobs
  PROVE  /\ \A t \in Task : Load(box, jobs, t) \in Nat
         /\ \A p \in Prints : AskedIn(box, jobs, p) \in Nat
BY CountsAreNat DEF Load, AskedIn, Counts, One

LEMMA SoundNow ==
  ASSUME IInv
  PROVE  /\ TypeOK /\ Sound /\ Alive(m, mail, retry)
         /\ mail \in Seq(Messages(rec, sent)) /\ Counts(mail)
         /\ \A t \in Task : Load(mail, job, t) <= credit[t] /\ credit[t] \in Nat
         /\ \A p \in Prints :
              /\ AskedIn(mail, job, p) <= 1
              /\ job[p].phase # "none" => rec[p] # "absent"
              /\ job[p].phase = "compiling" /\ job[p].held => rec[p] = "created"
         /\ \A t \in Task : /\ rec[t] \in {"finished", "cancelled"} => t \in sent
                            /\ t \in sent => rec[t] # "absent"
         /\ ~crossed => \A p \in Prints :
              /\ AskedIn(mail, job, p) + Away(mail, wire, drv.spool, m, p) <= 1
              /\ p \in sent => AskedIn(mail, job, p) = 0
         /\ \A p \in Prints : Away(mail, wire, drv.spool, m, p) \in Nat
<1>1. TypeOK /\ Sound /\ Alive(m, mail, retry) /\ mail \in Seq(Messages(rec, sent))
  BY IInvIs DEF IInv, TypeOK
<1>2. Counts(mail) /\ \A t \in Task : Load(mail, job, t) \in Nat /\ credit[t] \in Int
  BY <1>1, CountsAreNat, LoadIsNat DEF TypeOK
<1>3. \A t \in Task : Load(mail, job, t) <= credit[t]
  BY <1>1 DEF Sound, Credited, Load
<1>4. \A t \in Task : credit[t] \in Nat
  BY <1>2, <1>3
<1>5. \A p \in Prints : AskedIn(mail, job, p) = Asked(p)
  BY DEF Asked, AskedIn
<1>6. \A p \in Prints : /\ Places(p) = Asked(p) + Away(mail, wire, drv.spool, m, p)
                        /\ Away(mail, wire, drv.spool, m, p) \in Nat
  BY <1>1, AwayIsNat
<1>7. QED
  BY <1>1, <1>2, <1>3, <1>4, <1>5, <1>6 DEF Sound, Inserted, EndsAreSent, InOnePlace

LEMMA PlacesAre ==
  TypeOK => \A p \in Prints : Places(p) = Asked(p) + Away(mail, wire, drv.spool, m, p)
BY AwayIsNat

LEMMA SoundNext ==
  ASSUME TypeOK',
         \A t \in Task : Load(mail', job', t) <= credit'[t],
         \A p \in Prints :
           /\ AskedIn(mail', job', p) <= 1
           /\ job'[p].phase # "none" => rec'[p] # "absent"
           /\ job'[p].phase = "compiling" /\ job'[p].held => rec'[p] = "created",
         \A t \in Task : /\ rec'[t] \in {"finished", "cancelled"} => t \in sent'
                         /\ t \in sent' => rec'[t] # "absent",
         ~crossed' => \A p \in Prints :
           /\ AskedIn(mail', job', p) + Away(mail', wire', drv'.spool, m', p) <= 1
           /\ p \in sent' => AskedIn(mail', job', p) = 0
  PROVE  Sound'
<1>1. Credited'
  BY DEF Credited, Load
<1>2. \A p \in Prints : AskedIn(mail', job', p) = Asked(p)'
  BY DEF Asked, AskedIn
<1>3. Inserted' /\ EndsAreSent'
  BY <1>2 DEF Inserted, EndsAreSent
<1>4. (TypeOK => \A p \in Prints :
                   Places(p) = Asked(p) + Away(mail, wire, drv.spool, m, p))'
  BY PlacesAre, PTL
<1>5. \A p \in Prints : Places(p)' = AskedIn(mail', job', p) + Away(mail', wire', drv'.spool, m', p)
  BY <1>2, <1>4
<1>6. ~crossed' => InOnePlace'
  BY <1>2, <1>5 DEF InOnePlace
<1>7. QED
  BY <1>1, <1>3, <1>6 DEF Sound

\* A record that is not there is known to nobody.
LEMMA Unsent ==
  ASSUME TypeOK, NEW p \in Prints, p \notin sent
  PROVE  Away(mail, wire, drv.spool, m, p) = 0
<1>1. p # NoTask
  BY TasksAssumption DEF Task
<1>2. CountOf(mail, Answers(p)) = 0
  <2>1. \A e \in Messages(rec, sent) : e \notin Answers(p)
    BY <1>1 DEF Messages, Names, Answers, Maybe
  <2>2. mail \in Seq(Messages(rec, sent))
    BY DEF TypeOK
  <2>3. QED
    BY <2>1, <2>2, CountNone
<1>3. CountOf(wire, OnWire(p)) = 0
  <2>1. \A e \in Wires(sent) : e \notin OnWire(p)
    BY DEF Wires, OnWire
  <2>2. wire \in Seq(Wires(sent))
    BY DEF TypeOK
  <2>3. QED
    BY <2>1, <2>2, CountNone
<1>4. CountOf(drv.spool, {p}) = 0
  <2>1. drv.spool \in Seq(sent)
    BY DEF TypeOK, Drivers
  <2>2. \A i \in 1 .. Len(drv.spool) : drv.spool[i] \notin {p}
    BY <2>1
  <2>3. QED
    BY <2>1, <2>2, CountNone
<1>5. m.saved # p
  BY <1>1 DEF TypeOK, Machines, Maybe
<1>6. QED
  BY <1>2, <1>3, <1>4, <1>5 DEF Away, One

LEMMA Absent ==
  ASSUME IInv, NEW t \in Task, rec[t] = "absent"
  PROVE  /\ t \notin sent /\ CountOf(mail, Carry(t)) = 0
         /\ t \in Prints => /\ CountOf(mail, Asks(t)) = 0 /\ job[t].phase = "none"
                            /\ Away(mail, wire, drv.spool, m, t) = 0
<1>1. t \notin sent /\ (t \in Prints => job[t].phase = "none")
  BY SoundNow
<1>2. mail \in Seq(Messages(rec, sent)) /\ TypeOK
  BY SoundNow
<1>3. \A e \in Messages(rec, sent) : e \notin Carry(t) /\ (t \in Prints => e \notin Asks(t))
  BY DEF Messages, Names, Carry, Asks
<1>4. CountOf(mail, Carry(t)) = 0 /\ (t \in Prints => CountOf(mail, Asks(t)) = 0)
  BY <1>2, <1>3, CountNone
<1>5. QED
  BY <1>1, <1>2, <1>4, Unsent

LEMMA ServerRestartKeeps ==
  ASSUME IInv, ServerRestart
  PROVE  IInv'
<1> DEFINE e == Msg("Connect")
<1>1. /\ UNCHANGED <<rec, wire, credit, sent, crossed>>
      /\ m' = NewMachine /\ mail' = <<e>> /\ retry' = FALSE /\ parted' = TRUE
      /\ job' = [p \in Prints |-> NoJob] /\ resuming' = {}
      /\ drv' = [drv EXCEPT !.old = drv.up]
  BY DEF ServerRestart
<1>2. TypeOK /\ m \in Machines(sent) /\ drv \in Drivers(sent)
  BY DEF IInv, TypeOK
<1>3. /\ m' \in Machines(sent) /\ m'.saved = NoTask /\ m'.conn = "none" /\ m'.attempting = FALSE
  BY <1>1, <1>2, MachineTypes
<1>4. ops' \in Nat /\ faults' \in Nat
  BY <1>2, FaultType DEF ServerRestart
<1>5. drv' \in Drivers(sent) /\ drv'.spool = drv.spool
  BY <1>1, <1>2 DEF Drivers
<1>6. /\ mail' \in Seq(Messages(rec, sent)) /\ Neutral(mail') /\ Waits(mail', "Connect")
  <2>1. e \in Messages(rec, sent) /\ Neutral(<<e>>) /\ e.type = "Connect"
    BY NeutralOnes DEF Msg
  <2> HIDE DEF e
  <2>2. QED
    BY <1>1, <2>1, WaitsOne
<1>7. job' \in [Prints -> Jobs] /\ \A p \in Prints : job'[p].phase = "none"
  BY <1>1 DEF Jobs, NoJob
<1> HIDE DEF e
<1>8. TypeOK'
  BY <1>1, <1>2, <1>3, <1>4, <1>5, <1>6, <1>7 DEF TypeOK
<1>9. \A t \in Task : Load(mail', job', t) <= credit'[t]
  <2>1. \A t \in Task : Load(mail', job', t) = 0
    BY <1>6, <1>7 DEF Load, Neutral, One
  <2>2. QED
    BY <1>1, <2>1, SoundNow
<1>10. \A p \in Prints : AskedIn(mail', job', p) = 0
  BY <1>6, <1>7 DEF AskedIn, Neutral, One
<1>11. ASSUME ~crossed, NEW p \in Prints PROVE Away(mail', wire', drv'.spool, m', p) <= 1
  <2>1. Away(mail, wire, drv.spool, m, p) <= 1
    BY <1>11, SoundNow, LoadIsNat
  <2>2. One(m'.saved = p) = 0
    BY <1>3, TasksAssumption DEF One, Task
  <2>3. /\ CountOf(wire, OnWire(p)) \in Nat /\ CountOf(drv.spool, {p}) \in Nat
        /\ CountOf(mail, Answers(p)) \in Nat /\ One(m.saved = p) \in Nat
    BY <1>2, PlacesAreNat DEF One
  <2>4. CountOf(mail', Answers(p)) = 0
    BY <1>6 DEF Neutral
  <2>5. CountOf(wire', OnWire(p)) = CountOf(wire, OnWire(p)) /\ CountOf(drv'.spool, {p}) = CountOf(drv.spool, {p})
    BY <1>1, <1>5
  <2>6. QED
    BY <2>1, <2>2, <2>3, <2>4, <2>5 DEF Away
<1>12. \A p \in Prints : Away(mail', wire', drv'.spool, m', p) \in Nat
  <2>1. SUFFICES ASSUME NEW p \in Prints PROVE Away(mail', wire', drv'.spool, m', p) \in Nat
    OBVIOUS
  <2>2. /\ CountOf(wire', OnWire(p)) \in Nat /\ CountOf(drv'.spool, {p}) \in Nat
        /\ CountOf(mail', Answers(p)) \in Nat /\ One(m'.saved = p) \in Nat
    BY <1>8, CountIsNat DEF TypeOK, Drivers, One
  <2>3. QED
    BY <2>2 DEF Away
<1>13. \A t \in Task : /\ rec'[t] \in {"finished", "cancelled"} => t \in sent'
                       /\ t \in sent' => rec'[t] # "absent"
  BY <1>1, SoundNow
<1>14. ~crossed' => \A p \in Prints :
           /\ AskedIn(mail', job', p) + Away(mail', wire', drv'.spool, m', p) <= 1
           /\ p \in sent' => AskedIn(mail', job', p) = 0
  BY <1>1, <1>10, <1>11, <1>12
<1>15. Sound'
  BY <1>7, <1>8, <1>9, <1>10, <1>13, <1>14, SoundNext
<1>16. Alive(m', mail', retry')
  BY <1>3, <1>6 DEF Alive
<1>17. QED
  BY <1>15, <1>16, IInvIs

\* TaskLifecycle's step, of one task.
MovesTo(r, u, was) ==
  \/ u = r
  \/ r = "absent" /\ u \in {"created", "errored"}
  \/ r \in Pending /\ (u \in Pending \cup {"cancelled", "errored"} \/ (u = "finished" /\ was))

SpendsTo(r, u, c, d, was, is) ==
  \/ d = c /\ (is <=> was)
  \/ (r = "absent" \/ (r = "paused" /\ u = "created")) /\ d = c + 1 /\ (is <=> was)
  \/ c > 0 /\ d = c - 1 /\ is

Goes(t) ==
  \/ MovesTo(rec[t], rec'[t], t \in sent)
       /\ SpendsTo(rec[t], rec'[t], credit[t], credit'[t], t \in sent, t \in sent')
  \/ /\ rec[t] = "errored" /\ rec'[t] = "sent" /\ t \notin sent /\ t \in sent'
     /\ SpendsTo(rec[t], rec'[t], credit[t], credit'[t], t \in sent, t \in sent')
  \/ rec[t] = "absent" /\ rec'[t] = "sent" /\ credit'[t] = credit[t] /\ t \in sent'

LEMMA StepsAre ==
  ASSUME IInv', \A t \in Task : Goes(t)
  PROVE  Records!Step
<1>1. Records!TypeOK'
  <2>1. TypeOK' /\ Credited'
    BY DEF IInv
  <2>2. \A t \in Task : Load(mail', job', t) \in Nat
    BY <2>1, LoadIsNat DEF TypeOK
  <2>3. ASSUME NEW t \in Task PROVE credit'[t] \in Nat
    <3>1. credit'[t] \in Int /\ Load(mail', job', t) <= credit'[t]
      BY <2>1 DEF TypeOK, Credited, Load
    <3>2. QED
      BY <2>2, <3>1
  <2>4. credit' \in [Task -> Nat]
    BY <2>1, <2>3 DEF TypeOK
  <2>5. QED
    BY <2>1, <2>4 DEF Records!TypeOK, Records!Status, Records!Pending, Records!Final,
                      TypeOK, Statuses, Pending, Final
<1>2. ASSUME NEW t \in Task
      PROVE  (Records!Moves(t) /\ Records!Spends(t)) \/ Records!InsertsAndSends(t)
  <2>1. Goes(t)
    OBVIOUS
  <2>2. (\/ MovesTo(rec[t], rec'[t], t \in sent)
         \/ rec[t] = "errored" /\ rec'[t] = "sent" /\ t \notin sent /\ t \in sent')
        <=> Records!Moves(t)
    BY DEF MovesTo, Records!Moves, Records!Pending, Records!Final, Pending, Final
  <2>3. SpendsTo(rec[t], rec'[t], credit[t], credit'[t], t \in sent, t \in sent') <=> Records!Spends(t)
    BY DEF SpendsTo, Records!Spends
  <2>4. QED
    BY <2>1, <2>2, <2>3 DEF Goes, Records!InsertsAndSends
<1>3. QED
  BY <1>1, <1>2 DEF Records!Step

\* A task that is left alone.
LEMMA GoesNowhere ==
  ASSUME NEW t \in Task, rec'[t] = rec[t], credit'[t] = credit[t], t \in sent' <=> t \in sent
  PROVE  Goes(t)
BY DEF Goes, MovesTo, SpendsTo

SameCounts(s, x) ==
  /\ \A t \in Task : CountOf(s, Carry(t)) = CountOf(x, Carry(t))
  /\ \A p \in Prints : /\ CountOf(s, Asks(p)) = CountOf(x, Asks(p))
                       /\ CountOf(s, Answers(p)) = CountOf(x, Answers(p))

LEMMA StaleMail ==
  ASSUME NEW r, NEW u, NEW S, NEW U, NEW ts, Moved(r, u, S, U, ts),
         NEW box \in Seq(Messages(r, S))
  PROVE  /\ StaleIn(ts, box) \in Seq(Messages(u, U))
         /\ StillWaits(box, StaleIn(ts, box))
         /\ SameCounts(StaleIn(ts, box), box)
<1>1. /\ StaleIn(ts, box) \in Seq(Messages(u, U))
      /\ Len(StaleIn(ts, box)) = Len(box)
      /\ \A i \in 1 .. Len(box) : StaleIn(ts, box)[i].type = box[i].type
      /\ SameCounts(StaleIn(ts, box), box)
  BY StaleKeeps DEF SameCounts
<1>2. \A type : Waits(StaleIn(ts, box), type) <=> Waits(box, type)
  BY <1>1, StaleWaits
<1>3. QED
  BY <1>1, <1>2 DEF StillWaits

LEMMA AddSignalTo ==
  ASSUME NEW r, NEW S, NEW box \in Seq(Messages(r, S)),
         NEW type \in {"Connect", "Closed", "Broken", "Stop", "ResetWhenIdle", "StopMachine",
                       "ResetMachine", "AddDevice"}
  PROVE  /\ Append(box, Msg(type)) \in Seq(Messages(r, S))
         /\ SameCounts(Append(box, Msg(type)), box)
         /\ StillWaits(box, Append(box, Msg(type)))
         /\ Waits(Append(box, Msg(type)), type)
<1> DEFINE x == <<Msg(type)>>
<1>1. Msg(type) \in Messages(r, S) /\ Neutral(x)
  BY NeutralOnes
<1>2. x \in Seq(Messages(r, S)) /\ Append(box, Msg(type)) = box \o x
  BY <1>1, AppendIsConcat
<1>3. Waits(x, type)
  BY WaitsOne DEF Msg
<1> HIDE DEF x
<1>4. \A T : CountOf(box \o x, T) = CountOf(box, T) + CountOf(x, T) /\ CountOf(box, T) \in Nat
  BY <1>2, CountConcat, CountIsNat
<1>5. SameCounts(box \o x, box)
  BY <1>1, <1>4 DEF Neutral, SameCounts
<1>6. QED
  BY <1>1, <1>2, <1>3, <1>5, StillWaitsJoin, WaitsJoin

\* PrintMutation inserts a record that nobody knows yet.
LEMMA PrintMutationKeeps ==
  ASSUME IInv, NEW p \in Prints, PrintMutation(p)
  PROVE  IInv' /\ Records!Step
<1> DEFINE new == [NoJob EXCEPT !.phase = "compiling", !.held = TRUE]
<1>0. new \in Jobs /\ new.phase = "compiling"
  BY DEF NoJob, Jobs
<1>1. /\ rec[p] = "absent" /\ rec' = [rec EXCEPT ![p] = "created"]
      /\ credit' = [credit EXCEPT ![p] = @ + 1]
      /\ job' = [job EXCEPT ![p] = new]
      /\ UNCHANGED <<resuming, m, mail, retry, wire, drv, sent, parted, crossed>>
  BY DEF PrintMutation
<1> HIDE DEF new
<1>2. TypeOK /\ p \in Task
  BY SoundNow DEF Task
<1>3. /\ p \notin sent /\ CountOf(mail, Carry(p)) = 0
      /\ CountOf(mail, Asks(p)) = 0 /\ Away(mail, wire, drv.spool, m, p) = 0
  BY <1>1, <1>2, Absent
<1>4. /\ rec \in [Task -> Statuses] /\ credit \in [Task -> Int] /\ job \in [Prints -> Jobs]
      /\ mail \in Seq(Messages(rec, sent))
  BY <1>2 DEF TypeOK
<1>5. mail' \in Seq(Messages(rec', sent'))
  <2>1. Moved(rec, rec', sent, sent', {})
    BY <1>1, <1>4 DEF Moved
  <2>2. QED
    BY <1>1, <1>4, <2>1, MessagesMove
<1>6. TypeOK'
  <2>1. ops' \in Nat /\ faults' \in Nat
    BY <1>2, OpType DEF PrintMutation
  <2>2. rec' \in [Task -> Statuses] /\ credit' \in [Task -> Int]
    <3>1. "created" \in Statuses /\ credit[p] + 1 \in Int
      BY <1>2, <1>4 DEF Statuses, Pending
    <3>2. QED
      BY <1>1, <1>4, <3>1
  <2>3. job' \in [Prints -> Jobs]
    BY <1>0, <1>1, <1>4
  <2>4. QED
    BY <1>1, <1>2, <1>5, <2>1, <2>2, <2>3 DEF TypeOK
<1>7. ASSUME NEW t \in Task PROVE Load(mail', job', t) <= credit'[t]
  <2>0. Load(mail, job, t) <= credit[t] /\ credit[t] \in Nat
    BY SoundNow
  <2>1. CASE t = p
    BY <1>0, <1>1, <1>3, <1>4, <2>0, <2>1 DEF Load, One
  <2>2. CASE t # p
    <3>1. credit'[t] = credit[t] /\ (t \in Prints => job'[t] = job[t])
      BY <1>1, <1>4, <2>2
    <3>2. Load(mail', job', t) = Load(mail, job, t)
      BY <1>1, <3>1 DEF Load, One
    <3>3. QED
      BY <2>0, <3>1, <3>2
  <2>3. QED
    BY <2>1, <2>2
<1>8. ASSUME NEW q \in Prints
      PROVE  /\ AskedIn(mail', job', q) <= 1
             /\ job'[q].phase # "none" => rec'[q] # "absent"
             /\ job'[q].phase = "compiling" /\ job'[q].held => rec'[q] = "created"
             /\ q # p => AskedIn(mail', job', q) = AskedIn(mail, job, q)
             /\ q = p => AskedIn(mail', job', q) = 1
  <2>1. CASE q = p
    BY <1>0, <1>1, <1>3, <1>4, <2>1 DEF AskedIn, One, Task
  <2>2. CASE q # p
    <3>1. rec'[q] = rec[q] /\ job'[q] = job[q]
      BY <1>1, <1>4, <2>2 DEF Task
    <3>2. AskedIn(mail', job', q) = AskedIn(mail, job, q)
      BY <1>1, <3>1 DEF AskedIn
    <3>3. QED
      BY <2>2, <3>1, <3>2, SoundNow
  <2>3. QED
    BY <2>1, <2>2
<1>9. ASSUME NEW t \in Task
      PROVE  /\ rec'[t] \in {"finished", "cancelled"} => t \in sent'
             /\ t \in sent' => rec'[t] # "absent"
  BY <1>1, <1>4, SoundNow
<1>10. \A q \in Prints : Away(mail', wire', drv'.spool, m', q) = Away(mail, wire, drv.spool, m, q)
  BY <1>1
<1>11. ASSUME ~crossed', NEW q \in Prints
       PROVE  /\ AskedIn(mail', job', q) + Away(mail', wire', drv'.spool, m', q) <= 1
              /\ q \in sent' => AskedIn(mail', job', q) = 0
  <2>1. CASE q = p
    <3>1. AskedIn(mail', job', q) = 1 /\ q \notin sent'
      BY <1>1, <1>3, <1>8, <2>1
    <3>2. Away(mail', wire', drv'.spool, m', q) = 0
      BY <1>3, <1>10, <2>1
    <3>3. QED
      BY <3>1, <3>2
  <2>2. CASE q # p
    BY <1>1, <1>8, <1>10, <1>11, <2>2, SoundNow
  <2>3. QED
    BY <2>1, <2>2
<1>12. Sound'
  BY <1>6, <1>7, <1>8, <1>9, <1>11, SoundNext
<1>13. IInv'
  BY <1>1, <1>12, SoundNow, IInvIs
<1>14. ASSUME NEW t \in Task PROVE Goes(t)
  <2>1. CASE t = p
    BY <1>1, <1>4, <2>1 DEF Goes, MovesTo, SpendsTo
  <2>2. CASE t # p
    BY <1>1, <1>4, <2>2, GoesNowhere
  <2>3. QED
    BY <2>1, <2>2
<1>15. QED
  BY <1>13, <1>14, StepsAre

LEMMA MailAppend ==
  ASSUME NEW M, NEW s \in Seq(M), NEW e \in M
  PROVE  /\ Append(s, e) \in Seq(M) /\ StillWaits(s, Append(s, e))
         /\ \A T : CountOf(Append(s, e), T) = CountOf(s, T) + One(e \in T) /\ CountOf(s, T) \in Nat
<1>1. Append(s, e) \in Seq(M) /\ Append(s, e) = s \o <<e>> /\ <<e>> \in Seq(M)
  BY AppendIsConcat
<1>2. StillWaits(s, Append(s, e))
  BY <1>1, StillWaitsJoin
<1>3. ASSUME NEW T
      PROVE  CountOf(Append(s, e), T) = CountOf(s, T) + One(e \in T) /\ CountOf(s, T) \in Nat
  BY CountAppend, CountIsNat DEF One
<1>4. QED
  BY <1>1, <1>2, <1>3

\* The compilation asks the actor to spool its print.
LEMMA CompilePrintKeeps ==
  ASSUME IInv, NEW p \in Prints, CompilePrint(p)
  PROVE  IInv'
<1> DEFINE e == [type |-> "SpoolPrint", task |-> p, auto |-> job[p].auto, fresh |-> job[p].held,
              late |-> job[p].late]
<1>1. /\ job[p].phase = "compiling" /\ mail' = Append(mail, e)
      /\ job' = [job EXCEPT ![p] = NoJob]
      /\ UNCHANGED <<rec, resuming, m, retry, wire, drv, credit, sent, parted, crossed, ops, faults>>
  BY DEF CompilePrint, Post, history, bounds
<1>2. TypeOK /\ p \in Task /\ mail \in Seq(Messages(rec, sent)) /\ job \in [Prints -> Jobs]
  BY SoundNow DEF Task, TypeOK
<1>3. /\ e \in Messages(rec, sent) /\ e \in Mailable /\ e.type = "SpoolPrint" /\ e.task = p
  <2>1. rec[p] # "absent" /\ (job[p].held => rec[p] = "created")
    BY <1>1, SoundNow
  <2>2. job[p].auto \in BOOLEAN /\ job[p].held \in BOOLEAN /\ job[p].late \in BOOLEAN
    BY <1>2 DEF Jobs
  <2>3. e \in SpoolPrints
    BY <2>2 DEF SpoolPrints
  <2>4. Names(e, rec, sent)
    BY <2>1 DEF Names
  <2>5. QED
    BY <2>3, <2>4 DEF Messages, Mailable
<1>4. /\ \A t \in Task : e \in Carry(t) <=> t = p
      /\ \A q \in Prints : (e \in Asks(q) <=> q = p) /\ e \notin Answers(q)
  BY <1>3 DEF Carry, Asks, Answers
<1> HIDE DEF e
<1>5. /\ mail' \in Seq(Messages(rec, sent)) /\ StillWaits(mail, mail')
      /\ \A t \in Task : CountOf(mail', Carry(t)) = CountOf(mail, Carry(t)) + One(t = p)
      /\ \A q \in Prints : /\ CountOf(mail', Asks(q)) = CountOf(mail, Asks(q)) + One(q = p)
                           /\ CountOf(mail', Answers(q)) = CountOf(mail, Answers(q))
  <2>1. /\ mail' \in Seq(Messages(rec, sent)) /\ StillWaits(mail, mail')
        /\ \A T : CountOf(mail', T) = CountOf(mail, T) + One(e \in T) /\ CountOf(mail, T) \in Nat
    BY <1>1, <1>2, <1>3, MailAppend
  <2>2. QED
    BY <1>4, <2>1 DEF One
<1>6. TypeOK'
  <2>1. job' \in [Prints -> Jobs]
    BY <1>1, <1>2 DEF Jobs, NoJob
  <2>2. QED
    BY <1>1, <1>2, <1>5, <2>1 DEF TypeOK
<1>7. ASSUME NEW t \in Task PROVE Load(mail', job', t) <= credit'[t]
  <2>1. Load(mail, job, t) <= credit[t] /\ credit[t] \in Nat /\ CountOf(mail, Carry(t)) \in Nat
    BY SoundNow DEF Counts
  <2>2. CASE t = p
    <3>1. job'[t].phase = "none"
      BY <1>1, <1>2, <2>2 DEF NoJob
    <3>2. QED
      BY <1>1, <1>5, <2>1, <2>2, <3>1 DEF Load, One
  <2>3. CASE t # p
    <3>1. t \in Prints => job'[t] = job[t]
      BY <1>1, <1>2, <2>3
    <3>2. QED
      BY <1>1, <1>5, <2>1, <2>3, <3>1 DEF Load, One
  <2>4. QED
    BY <2>2, <2>3
<1>8. ASSUME NEW q \in Prints
      PROVE  /\ AskedIn(mail', job', q) = AskedIn(mail, job, q)
             /\ job'[q].phase # "none" => job'[q] = job[q]
  <2>1. CountOf(mail, Asks(q)) \in Nat
    BY SoundNow DEF Counts
  <2>2. CASE q = p
    <3>1. job'[q].phase = "none" /\ job[q].phase # "none"
      BY <1>1, <1>2, <2>2 DEF NoJob
    <3>2. QED
      BY <1>5, <2>1, <2>2, <3>1 DEF AskedIn, One
  <2>3. CASE q # p
    <3>1. job'[q] = job[q]
      BY <1>1, <1>2, <2>3
    <3>2. QED
      BY <1>5, <2>1, <2>3, <3>1 DEF AskedIn, One
  <2>4. QED
    BY <2>2, <2>3
<1>9. \A q \in Prints : Away(mail', wire', drv'.spool, m', q) = Away(mail, wire, drv.spool, m, q)
  BY <1>1, <1>5 DEF Away
<1>10. Sound'
  <2>1. \A q \in Prints :
          /\ AskedIn(mail', job', q) <= 1
          /\ job'[q].phase # "none" => rec'[q] # "absent"
          /\ job'[q].phase = "compiling" /\ job'[q].held => rec'[q] = "created"
    BY <1>1, <1>8, SoundNow
  <2>2. \A t \in Task : /\ rec'[t] \in {"finished", "cancelled"} => t \in sent'
                        /\ t \in sent' => rec'[t] # "absent"
    BY <1>1, SoundNow
  <2>3. ~crossed' => \A q \in Prints :
           /\ AskedIn(mail', job', q) + Away(mail', wire', drv'.spool, m', q) <= 1
           /\ q \in sent' => AskedIn(mail', job', q) = 0
    BY <1>1, <1>8, <1>9, SoundNow
  <2>4. QED
    BY <1>6, <1>7, <2>1, <2>2, <2>3, SoundNext
<1>11. Alive(m', mail', retry')
  BY <1>1, <1>5, SoundNow, AliveKeeps
<1>12. QED
  BY <1>10, <1>11, IInvIs

\* A compilation that fails, step by step, holds no more than before.
LEMMA JobMoves ==
  ASSUME IInv, NEW p \in Prints, job[p].phase # "none",
         job' \in [Prints -> Jobs], job'[p].phase \in {"none", "failing", "settling"},
         \A q \in Prints : q # p => job'[q] = job[q],
         UNCHANGED <<rec, resuming, m, mail, retry, wire, drv, credit, sent, parted, crossed>>,
         ops' \in Nat, faults' \in Nat
  PROVE  IInv'
<1>1. TypeOK'
  BY SoundNow DEF TypeOK
<1>2. ASSUME NEW t \in Task PROVE Load(mail', job', t) <= credit'[t]
  <2>1. Load(mail, job, t) <= credit[t] /\ CountOf(mail, Carry(t)) \in Nat /\ credit[t] \in Nat
    BY SoundNow DEF Counts
  <2>2. CASE t = p
    BY <2>1, <2>2 DEF Load, One
  <2>3. CASE t # p
    BY <2>1, <2>3 DEF Load, One
  <2>4. QED
    BY <2>2, <2>3
<1>3. ASSUME NEW q \in Prints
      PROVE  /\ AskedIn(mail', job', q) <= AskedIn(mail, job, q)
             /\ AskedIn(mail', job', q) \in Nat /\ AskedIn(mail, job, q) \in Nat
             /\ job'[q].phase # "none" => rec'[q] # "absent"
             /\ job'[q].phase = "compiling" /\ job'[q].held => rec'[q] = "created"
  <2>1. CountOf(mail, Asks(q)) \in Nat
    BY SoundNow DEF Counts
  <2>2. /\ job[q].phase # "none" => rec[q] # "absent"
        /\ job[q].phase = "compiling" /\ job[q].held => rec[q] = "created"
    BY SoundNow
  <2>3. CASE q = p
    BY <2>1, <2>2, <2>3 DEF AskedIn, One
  <2>4. CASE q # p
    BY <2>1, <2>2, <2>4 DEF AskedIn, One
  <2>5. QED
    BY <2>3, <2>4
<1>4. \A q \in Prints : /\ Away(mail', wire', drv'.spool, m', q) = Away(mail, wire, drv.spool, m, q)
                        /\ Away(mail, wire, drv.spool, m, q) \in Nat
  BY SoundNow
<1>5. Sound'
  <2>1. \A q \in Prints : AskedIn(mail', job', q) <= 1
    BY <1>3, SoundNow
  <2>2. \A t \in Task : /\ rec'[t] \in {"finished", "cancelled"} => t \in sent'
                        /\ t \in sent' => rec'[t] # "absent"
    BY SoundNow
  <2>3. ASSUME ~crossed', NEW q \in Prints
        PROVE  /\ AskedIn(mail', job', q) + Away(mail', wire', drv'.spool, m', q) <= 1
               /\ q \in sent' => AskedIn(mail', job', q) = 0
    <3>1. /\ AskedIn(mail, job, q) + Away(mail, wire, drv.spool, m, q) <= 1
          /\ q \in sent => AskedIn(mail, job, q) = 0
      BY <2>3, SoundNow
    <3>2. QED
      BY <1>3, <1>4, <3>1
  <2>4. QED
    BY <1>1, <1>2, <1>3, <2>1, <2>2, <2>3, SoundNext
<1>6. Alive(m', mail', retry')
  BY SoundNow
<1>7. QED
  BY <1>5, <1>6, IInvIs

LEMMA CompileFailsKeeps ==
  ASSUME IInv, NEW p \in Prints, CompileFails(p)
  PROVE  IInv'
<1>1. TypeOK /\ job \in [Prints -> Jobs]
  BY SoundNow DEF TypeOK
<1>2. ops' \in Nat /\ faults' \in Nat
  BY <1>1, FaultType, BoundsType DEF CompileFails
<1>3. /\ job[p].phase = "compiling" /\ job' = [job EXCEPT ![p].phase = "failing"]
      /\ UNCHANGED <<rec, resuming, m, mail, retry, wire, drv, credit, sent, parted, crossed>>
  BY DEF CompileFails, history
<1>4. /\ job' \in [Prints -> Jobs] /\ job'[p].phase = "failing"
      /\ \A q \in Prints : q # p => job'[q] = job[q]
  BY <1>1, <1>3 DEF Jobs
<1>5. QED
  BY <1>2, <1>3, <1>4, JobMoves

LEMMA ReadFailedKeeps ==
  ASSUME IInv, NEW p \in Prints, ReadFailed(p)
  PROVE  IInv'
<1>1. TypeOK /\ job \in [Prints -> Jobs]
  BY SoundNow DEF TypeOK
<1>2. /\ job[p].phase = "failing"
      /\ job' = [job EXCEPT ![p].phase = "settling", ![p].held = TRUE, ![p].late = FALSE]
      /\ UNCHANGED <<rec, resuming, m, mail, retry, wire, drv, credit, sent, parted, crossed, ops, faults>>
  BY DEF ReadFailed, history, bounds
<1>3. ops' \in Nat /\ faults' \in Nat
  BY <1>1, <1>2 DEF TypeOK
<1>4. /\ job' \in [Prints -> Jobs] /\ job'[p].phase = "settling"
      /\ \A q \in Prints : q # p => job'[q] = job[q]
  <2> DEFINE r == [job[p] EXCEPT !.phase = "settling", !.held = TRUE, !.late = FALSE]
  <2>1. job' = [job EXCEPT ![p] = r]
    BY <1>2
  <2>2. r \in Jobs /\ r.phase = "settling"
    BY <1>1 DEF Jobs
  <2> HIDE DEF r
  <2>3. QED
    BY <1>1, <2>1, <2>2
<1>5. QED
  BY <1>2, <1>3, <1>4, JobMoves

\* The end of insert_print settles the record of a print that nobody has sent.
LEMMA SettleFailedKeeps ==
  ASSUME IInv, NEW p \in Prints, SettleFailed(p)
  PROVE  IInv' /\ (Records!Step \/ crossed')
<1> DEFINE settles == m.data /\ job[p].held
<1>1. /\ job[p].phase = "settling" /\ job' = [job EXCEPT ![p] = NoJob]
      /\ rec' = IF settles THEN [rec EXCEPT ![p] = "errored"] ELSE rec
      /\ mail' = IF settles THEN StaleIn({p}, mail) ELSE mail
      /\ UNCHANGED <<resuming, m, retry, wire, drv, credit, sent, parted, crossed, ops, faults>>
  BY DEF SettleFailed, history, bounds
<1> HIDE DEF settles
<1>2. /\ TypeOK /\ p \in Task /\ mail \in Seq(Messages(rec, sent)) /\ job \in [Prints -> Jobs]
      /\ rec \in [Task -> Statuses] /\ rec[p] # "absent" /\ Counts(mail)
  BY <1>1, SoundNow DEF Task, TypeOK
<1>3. /\ mail' \in Seq(Messages(rec', sent')) /\ StillWaits(mail, mail') /\ SameCounts(mail', mail)
  <2>1. CASE settles
    <3>1. Moved(rec, rec', sent, sent', {p})
      BY <1>1, <1>2, <2>1 DEF Moved
    <3>2. QED
      BY <1>1, <1>2, <2>1, <3>1, StaleMail
  <2>2. CASE ~settles
    BY <1>1, <1>2, <2>2 DEF StillWaits, SameCounts
  <2>3. QED
    BY <2>1, <2>2
<1>4. /\ job' \in [Prints -> Jobs] /\ job'[p].phase = "none"
      /\ \A q \in Prints : q # p => job'[q] = job[q]
  BY <1>1, <1>2 DEF Jobs, NoJob
<1>5. rec' \in [Task -> Statuses] /\ \A t \in Task : t # p => rec'[t] = rec[t]
  BY <1>1, <1>2 DEF Statuses, Final
<1>6. rec'[p] \in {rec[p], "errored"}
  BY <1>1, <1>2
<1>7. TypeOK'
  BY <1>1, <1>2, <1>3, <1>4, <1>5 DEF TypeOK
<1>8. ASSUME NEW t \in Task PROVE Load(mail', job', t) <= credit'[t]
  <2>1. /\ Load(mail, job, t) <= credit[t] /\ CountOf(mail, Carry(t)) \in Nat /\ credit[t] \in Nat
        /\ CountOf(mail', Carry(t)) = CountOf(mail, Carry(t)) /\ credit'[t] = credit[t]
    BY <1>1, <1>3, SoundNow DEF Counts, SameCounts
  <2>2. CASE t = p
    BY <1>4, <2>1, <2>2 DEF Load, One
  <2>3. CASE t # p
    BY <1>4, <2>1, <2>3 DEF Load, One
  <2>4. QED
    BY <2>2, <2>3
<1>9. ASSUME NEW q \in Prints
      PROVE  /\ AskedIn(mail', job', q) <= AskedIn(mail, job, q)
             /\ AskedIn(mail', job', q) \in Nat /\ AskedIn(mail, job, q) \in Nat
             /\ job'[q].phase # "none" => rec'[q] # "absent"
             /\ job'[q].phase = "compiling" /\ job'[q].held => rec'[q] = "created"
  <2>1. CountOf(mail, Asks(q)) \in Nat /\ CountOf(mail', Asks(q)) = CountOf(mail, Asks(q)) /\ q \in Task
    BY <1>2, <1>3 DEF Counts, SameCounts, Task
  <2>2. /\ job[q].phase # "none" => rec[q] # "absent"
        /\ job[q].phase = "compiling" /\ job[q].held => rec[q] = "created"
    BY SoundNow
  <2>3. CASE q = p
    BY <1>1, <1>4, <2>1, <2>3 DEF AskedIn, One
  <2>4. CASE q # p
    BY <1>4, <1>5, <2>1, <2>2, <2>4 DEF AskedIn, One
  <2>5. QED
    BY <2>3, <2>4
<1>10. ASSUME NEW t \in Task
       PROVE  /\ rec'[t] \in {"finished", "cancelled"} => t \in sent'
              /\ t \in sent' => rec'[t] # "absent"
  <2>1. rec'[t] \in {rec[t], "errored"}
    BY <1>5, <1>6
  <2>2. QED
    BY <1>1, <2>1, SoundNow
<1>11. \A q \in Prints : /\ Away(mail', wire', drv'.spool, m', q) = Away(mail, wire, drv.spool, m, q)
                         /\ Away(mail, wire, drv.spool, m, q) \in Nat
  BY <1>1, <1>3, SoundNow DEF Away, SameCounts
<1>12. Sound'
  <2>1. \A q \in Prints : AskedIn(mail', job', q) <= 1
    BY <1>9, SoundNow
  <2>2. ASSUME ~crossed', NEW q \in Prints
        PROVE  /\ AskedIn(mail', job', q) + Away(mail', wire', drv'.spool, m', q) <= 1
               /\ q \in sent' => AskedIn(mail', job', q) = 0
    <3>1. /\ AskedIn(mail, job, q) + Away(mail, wire, drv.spool, m, q) <= 1
          /\ q \in sent => AskedIn(mail, job, q) = 0
      BY <1>1, <2>2, SoundNow
    <3>2. QED
      <4>1. /\ AskedIn(mail', job', q) <= AskedIn(mail, job, q)
            /\ AskedIn(mail', job', q) \in Nat /\ AskedIn(mail, job, q) \in Nat
        BY <1>9
      <4>2. /\ Away(mail', wire', drv'.spool, m', q) = Away(mail, wire, drv.spool, m, q)
            /\ Away(mail, wire, drv.spool, m, q) \in Nat
        BY <1>11
      <4>3. sent' = sent
        BY <1>1
      <4>4. QED
        BY <3>1, <4>1, <4>2, <4>3
  <2>3. QED
    BY <1>7, <1>8, <1>9, <1>10, <2>1, <2>2, SoundNext
<1>13. IInv'
  <2>1. Alive(m', mail', retry')
    BY <1>1, <1>3, SoundNow, AliveKeeps
  <2>2. QED
    BY <1>12, <2>1, IInvIs
<1>14. ASSUME ~crossed', NEW t \in Task PROVE Goes(t)
  <2>1. CASE t = p
    <3>1. AskedIn(mail, job, p) # 0
      BY <1>1, <1>2 DEF AskedIn, One, Counts
    <3>2. rec[p] \notin {"finished", "cancelled"}
      BY <1>1, <1>2, <1>14, <3>1, SoundNow
    <3>3. rec[p] \in Pending \cup {"errored"}
      BY <1>2, <3>2 DEF Statuses, Final
    <3>4. MovesTo(rec[p], rec'[p], p \in sent)
      BY <1>6, <3>3 DEF MovesTo, Pending
    <3>5. QED
      BY <1>1, <2>1, <3>4 DEF Goes, SpendsTo
  <2>2. CASE t # p
    BY <1>1, <1>5, <2>2, GoesNowhere
  <2>3. QED
    BY <2>1, <2>2
<1>15. QED
  BY <1>13, <1>14, StepsAre

\* The id of a new inline task is nobody's yet.
LEMMA NewInlineIs ==
  ASSUME IInv, NEW t \in NewInline
  PROVE  /\ t \in Inlines /\ t \in Task /\ t \notin Prints /\ rec[t] = "absent"
         /\ t \notin sent /\ CountOf(mail, Carry(t)) = 0
<1> DEFINE ids == {u \in Inlines : rec[u] = "absent"}
<1>1. ids # {} /\ t = CHOOSE u \in ids : TRUE
  BY DEF NewInline
<1>2. t \in ids
  BY <1>1
<1>3. t \in Task /\ t \notin Prints
  BY <1>2, TasksAssumption DEF Task
<1>4. QED
  BY <1>2, <1>3, Absent

LEMMA ExecGCodesKeeps ==
  ASSUME IInv, NEW t \in NewInline, NEW override \in BOOLEAN, ExecGCodes(t, override)
  PROVE  IInv' /\ Records!Step
<1> DEFINE e == [type |-> "SpoolTask", task |-> t, override |-> override, fresh |-> TRUE]
<1>1. /\ rec' = [rec EXCEPT ![t] = "created"] /\ credit' = [credit EXCEPT ![t] = @ + 1]
      /\ mail' = Append(mail, e)
      /\ UNCHANGED <<job, resuming, m, retry, wire, drv, sent, parted, crossed>>
  BY DEF ExecGCodes, Post
<1>2. /\ TypeOK /\ mail \in Seq(Messages(rec, sent)) /\ Counts(mail)
      /\ rec \in [Task -> Statuses] /\ credit \in [Task -> Int] /\ job \in [Prints -> Jobs]
  BY SoundNow DEF TypeOK
<1>3. /\ t \in Inlines /\ t \in Task /\ t \notin Prints /\ rec[t] = "absent"
      /\ t \notin sent /\ CountOf(mail, Carry(t)) = 0
  BY NewInlineIs
<1>4. /\ e \in Messages(rec', sent') /\ e \in Mailable /\ e.type = "SpoolTask" /\ e.task = t
  <2>1. rec'[t] = "created"
    BY <1>1, <1>2, <1>3
  <2>2. e \in SpoolTasks
    BY <1>3 DEF SpoolTasks
  <2>3. Names(e, rec', sent')
    BY <2>1 DEF Names
  <2>4. QED
    BY <2>2, <2>3 DEF Messages, Mailable
<1>5. /\ \A u \in Task : e \in Carry(u) <=> u = t
      /\ \A q \in Prints : e \notin Asks(q) /\ e \notin Answers(q)
  BY <1>4 DEF Carry, Asks, Answers
<1> HIDE DEF e
<1>6. /\ mail' \in Seq(Messages(rec', sent')) /\ StillWaits(mail, mail')
      /\ \A u \in Task : CountOf(mail', Carry(u)) = CountOf(mail, Carry(u)) + One(u = t)
      /\ \A q \in Prints : /\ CountOf(mail', Asks(q)) = CountOf(mail, Asks(q))
                           /\ CountOf(mail', Answers(q)) = CountOf(mail, Answers(q))
  <2>1. mail \in Seq(Messages(rec', sent'))
    <3>1. Moved(rec, rec', sent, sent', {})
      BY <1>1, <1>2, <1>3 DEF Moved
    <3>2. QED
      BY <1>2, <3>1, MessagesMove
  <2>2. /\ mail' \in Seq(Messages(rec', sent')) /\ StillWaits(mail, mail')
        /\ \A T : CountOf(mail', T) = CountOf(mail, T) + One(e \in T) /\ CountOf(mail, T) \in Nat
    BY <1>1, <1>4, <2>1, MailAppend
  <2>3. QED
    BY <1>5, <2>2 DEF One
<1>7. TypeOK'
  <2>1. ops' \in Nat /\ faults' \in Nat
    BY <1>2, OpType DEF ExecGCodes
  <2>2. rec' \in [Task -> Statuses] /\ credit' \in [Task -> Int]
    <3>1. "created" \in Statuses /\ credit[t] + 1 \in Int
      BY <1>2, <1>3 DEF Statuses, Pending
    <3>2. QED
      BY <1>1, <1>2, <3>1
  <2>3. QED
    BY <1>1, <1>2, <1>6, <2>1, <2>2 DEF TypeOK
<1>8. ASSUME NEW u \in Task PROVE Load(mail', job', u) <= credit'[u]
  <2>1. Load(mail, job, u) <= credit[u] /\ credit[u] \in Nat /\ CountOf(mail, Carry(u)) \in Nat
    BY SoundNow DEF Counts
  <2>2. CASE u = t
    BY <1>1, <1>2, <1>3, <1>6, <2>1, <2>2 DEF Load, One
  <2>3. CASE u # t
    <3>1. credit'[u] = credit[u] /\ CountOf(mail', Carry(u)) = CountOf(mail, Carry(u))
      BY <1>1, <1>2, <1>6, <2>1, <2>3 DEF One
    <3>2. QED
      BY <1>1, <2>1, <3>1 DEF Load
  <2>4. QED
    BY <2>2, <2>3
<1>9. \A u \in Task : u # t => rec'[u] = rec[u]
  BY <1>1, <1>2
<1>10. \A q \in Prints : /\ AskedIn(mail', job', q) = AskedIn(mail, job, q)
                         /\ Away(mail', wire', drv'.spool, m', q) = Away(mail, wire, drv.spool, m, q)
                         /\ rec'[q] = rec[q]
  BY <1>1, <1>3, <1>6, <1>9 DEF AskedIn, Away, Task
<1>11. Sound'
  <2>1. \A q \in Prints :
          /\ AskedIn(mail', job', q) <= 1
          /\ job'[q].phase # "none" => rec'[q] # "absent"
          /\ job'[q].phase = "compiling" /\ job'[q].held => rec'[q] = "created"
    BY <1>1, <1>10, SoundNow
  <2>2. ASSUME NEW u \in Task
        PROVE  /\ rec'[u] \in {"finished", "cancelled"} => u \in sent'
               /\ u \in sent' => rec'[u] # "absent"
    BY <1>1, <1>2, <1>3, SoundNow
  <2>3. ~crossed' => \A q \in Prints :
           /\ AskedIn(mail', job', q) + Away(mail', wire', drv'.spool, m', q) <= 1
           /\ q \in sent' => AskedIn(mail', job', q) = 0
    BY <1>1, <1>10, SoundNow
  <2>4. QED
    BY <1>7, <1>8, <2>1, <2>2, <2>3, SoundNext
<1>12. IInv'
  <2>1. Alive(m', mail', retry')
    BY <1>1, <1>6, SoundNow, AliveKeeps
  <2>2. QED
    BY <1>11, <2>1, IInvIs
<1>13. ASSUME NEW u \in Task PROVE Goes(u)
  <2>1. CASE u = t
    BY <1>1, <1>2, <1>3, <2>1 DEF Goes, MovesTo, SpendsTo
  <2>2. CASE u # t
    BY <1>1, <1>2, <2>2, GoesNowhere
  <2>3. QED
    BY <2>1, <2>2
<1>14. QED
  BY <1>12, <1>13, StepsAre

LEMMA StaleJobsAre ==
  ASSUME NEW ts, NEW jobs \in [Prints -> Jobs]
  PROVE  /\ StaleJobs(ts, jobs) \in [Prints -> Jobs]
         /\ \A q \in Prints : /\ StaleJobs(ts, jobs)[q].phase = jobs[q].phase
                              /\ StaleJobs(ts, jobs)[q].held => jobs[q].held /\ q \notin ts
BY DEF StaleJobs, Jobs

\* ResumePrintMutation: the print and its hook are created anew.
LEMMA CommitResumeKeeps ==
  ASSUME IInv, NEW p \in Prints, NEW hook \in NewInline, CommitResume(p, hook)
  PROVE  IInv' /\ (Records!Step \/ UNCHANGED <<rec, credit, sent>>)
<1> DEFINE e == [type |-> "Resume", task |-> p, hook |-> hook, fresh |-> TRUE, freshHook |-> TRUE]
           box == StaleIn({p}, mail)
<1>1. /\ TypeOK /\ mail \in Seq(Messages(rec, sent)) /\ Counts(mail) /\ Sound /\ Alive(m, mail, retry)
      /\ rec \in [Task -> Statuses] /\ credit \in [Task -> Int] /\ job \in [Prints -> Jobs]
  BY SoundNow DEF TypeOK
<1>2. /\ hook \in Inlines /\ hook \in Task /\ hook \notin Prints /\ rec[hook] = "absent"
      /\ hook \notin sent /\ CountOf(mail, Carry(hook)) = 0 /\ p \in Task
  BY NewInlineIs DEF Task
<1>3. /\ resuming' = resuming \ {p}
      /\ UNCHANGED <<m, retry, wire, drv, sent, parted, crossed, ops, faults>>
  BY DEF CommitResume, bounds
<1>4. CASE ~(rec[p] = "paused" /\ m.data)
  <2>1. UNCHANGED <<rec, credit, mail, job>>
    BY <1>4 DEF CommitResume
  <2>2. NoMore(mail', mail)
    BY <1>1, <2>1 DEF NoMore, Counts
  <2>3. TypeOK'
    BY <1>1, <1>3, <2>1, QuietType DEF TypeOK
  <2>4. Sound'
    BY <1>1, <1>3, <2>1, <2>2, <2>3, FewerSame, FewerStep
  <2>5. QED
    BY <1>1, <1>3, <2>1, <2>4, IInvIs
<1>5. CASE rec[p] = "paused" /\ m.data
  <2>1. /\ rec' = [rec EXCEPT ![p] = "created", ![hook] = "created"]
        /\ credit' = [credit EXCEPT ![p] = @ + 1, ![hook] = @ + 1]
        /\ mail' = Append(box, e) /\ job' = StaleJobs({p}, job)
    BY <1>5 DEF CommitResume
  <2>2. /\ rec' \in [Task -> Statuses] /\ rec'[p] = "created" /\ rec'[hook] = "created"
        /\ \A t \in Task : t \notin {p, hook} => rec'[t] = rec[t]
    <3>1. "created" \in Statuses
      BY DEF Statuses, Pending
    <3>2. QED
      BY <1>1, <1>2, <2>1, <3>1
  <2>3. /\ credit' \in [Task -> Int]
        /\ \A t \in Task : credit'[t] = credit[t] + One(t \in {p, hook})
    <3>1. p # hook
      BY <1>2
    <3>2. credit[p] + 1 \in Int /\ credit[hook] + 1 \in Int
      BY <1>1, <1>2
    <3>3. credit' = [[credit EXCEPT ![p] = credit[p] + 1] EXCEPT ![hook] = credit[hook] + 1]
      BY <1>1, <1>2, <2>1, <3>1
    <3>4. QED
      BY <1>1, <1>2, <3>1, <3>2, <3>3 DEF One
  <2>4. /\ e \in Messages(rec', sent') /\ e \in Mailable /\ e.type = "Resume" /\ e.task = p /\ e.hook = hook
    <3>1. e \in Resumes
      BY <1>2 DEF Resumes
    <3>2. Names(e, rec', sent')
      BY <2>2 DEF Names
    <3>3. QED
      BY <3>1, <3>2 DEF Messages, Mailable
  <2>5. /\ \A t \in Task : e \in Carry(t) <=> t \in {p, hook}
        /\ \A q \in Prints : e \notin Asks(q) /\ e \notin Answers(q)
    BY <2>4 DEF Carry, Asks, Answers
  <2>6. /\ box \in Seq(Messages(rec', sent')) /\ StillWaits(mail, box) /\ SameCounts(box, mail)
    <3>1. Moved(rec, rec', sent, sent', {p})
      BY <1>2, <1>3, <2>2 DEF Moved
    <3>2. QED
      BY <1>1, <3>1, StaleMail
  <2> HIDE DEF e, box
  <2>7. /\ mail' \in Seq(Messages(rec', sent')) /\ StillWaits(mail, mail')
        /\ \A t \in Task : CountOf(mail', Carry(t)) = CountOf(mail, Carry(t)) + One(t \in {p, hook})
        /\ \A q \in Prints : /\ CountOf(mail', Asks(q)) = CountOf(mail, Asks(q))
                             /\ CountOf(mail', Answers(q)) = CountOf(mail, Answers(q))
    <3>1. /\ mail' \in Seq(Messages(rec', sent')) /\ StillWaits(box, mail')
          /\ \A T : CountOf(mail', T) = CountOf(box, T) + One(e \in T) /\ CountOf(box, T) \in Nat
      BY <2>1, <2>4, <2>6, MailAppend
    <3>2. ASSUME NEW t \in Task
          PROVE  CountOf(mail', Carry(t)) = CountOf(mail, Carry(t)) + One(t \in {p, hook})
      BY <2>5, <2>6, <3>1 DEF One, SameCounts
    <3>3. ASSUME NEW q \in Prints
          PROVE  /\ CountOf(mail', Asks(q)) = CountOf(mail, Asks(q))
                 /\ CountOf(mail', Answers(q)) = CountOf(mail, Answers(q))
      BY <2>5, <2>6, <3>1 DEF One, SameCounts
    <3>4. QED
      BY <2>6, <3>1, <3>2, <3>3, StillWaitsBeyond
  <2>8. /\ job' \in [Prints -> Jobs]
        /\ \A q \in Prints : /\ job'[q].phase = job[q].phase
                             /\ job'[q].held => job[q].held /\ q # p
    BY <1>1, <2>1, StaleJobsAre
  <2>9. TypeOK'
    BY <1>1, <1>3, <2>2, <2>3, <2>7, <2>8 DEF TypeOK
  <2>10. ASSUME NEW t \in Task PROVE Load(mail', job', t) <= credit'[t]
    <3>1. Load(mail, job, t) <= credit[t] /\ Load(mail, job, t) \in Nat /\ credit[t] \in Nat
      BY <1>1, SoundNow, LoadIsNat
    <3>2. CountOf(mail', Carry(t)) = CountOf(mail, Carry(t)) + One(t \in {p, hook})
      BY <2>7
    <3>3. One(t \in Prints /\ job'[t].phase = "compiling") = One(t \in Prints /\ job[t].phase = "compiling")
      BY <2>8 DEF One
    <3>4. CountOf(mail, Carry(t)) \in Nat
      BY <1>1 DEF Counts
    <3>5. Load(mail', job', t) = Load(mail, job, t) + One(t \in {p, hook})
      BY <3>2, <3>3, <3>4 DEF Load, One
    <3>6. credit'[t] = credit[t] + One(t \in {p, hook}) /\ One(t \in {p, hook}) \in Nat
      BY <2>3 DEF One
    <3>7. QED
      BY <3>1, <3>5, <3>6
  <2>11. ASSUME NEW q \in Prints
         PROVE  /\ AskedIn(mail', job', q) = AskedIn(mail, job, q)
                /\ Away(mail', wire', drv'.spool, m', q) = Away(mail, wire, drv.spool, m, q)
                /\ job'[q].phase # "none" => rec'[q] # "absent"
                /\ job'[q].phase = "compiling" /\ job'[q].held => rec'[q] = "created"
    <3>1. /\ AskedIn(mail', job', q) = AskedIn(mail, job, q)
          /\ Away(mail', wire', drv'.spool, m', q) = Away(mail, wire, drv.spool, m, q)
      BY <1>3, <2>7, <2>8 DEF AskedIn, Away
    <3>2. q # p => rec'[q] = rec[q]
      BY <1>2, <2>2 DEF Task
    <3>3. q = p => rec'[q] = "created"
      BY <2>2
    <3>4. QED
      BY <2>8, <3>1, <3>2, <3>3, SoundNow
  <2>12. Sound'
    <3>1. \A q \in Prints : AskedIn(mail', job', q) <= 1
      BY <2>11, SoundNow
    <3>2. ASSUME NEW t \in Task
          PROVE  /\ rec'[t] \in {"finished", "cancelled"} => t \in sent'
                 /\ t \in sent' => rec'[t] # "absent"
      <4>1. t \in {p, hook} => rec'[t] = "created"
        BY <2>2
      <4>2. QED
        BY <1>3, <2>2, <4>1, SoundNow
    <3>3. ~crossed' => \A q \in Prints :
             /\ AskedIn(mail', job', q) + Away(mail', wire', drv'.spool, m', q) <= 1
             /\ q \in sent' => AskedIn(mail', job', q) = 0
      BY <1>3, <2>11, SoundNow
    <3>4. QED
      BY <2>9, <2>10, <2>11, <3>1, <3>2, <3>3, SoundNext
  <2>13. IInv'
    <3>1. Alive(m', mail', retry')
      BY <1>1, <1>3, <2>7, AliveKeeps
    <3>2. QED
      BY <2>12, <3>1, IInvIs
  <2>14. ASSUME NEW t \in Task PROVE Goes(t)
    <3>1. CASE t \in {p, hook}
      <4>1. credit'[t] = credit[t] + 1
        BY <2>3, <3>1 DEF One
      <4>2. rec'[t] = "created" /\ rec[t] \in {"paused", "absent"}
        BY <1>2, <1>5, <2>2, <3>1
      <4>3. QED
        BY <1>3, <4>1, <4>2 DEF Goes, MovesTo, SpendsTo, Pending
    <3>2. CASE t \notin {p, hook}
      <4>1. credit'[t] = credit[t]
        BY <1>1, <2>3, <3>2 DEF One
      <4>2. QED
        BY <1>3, <2>2, <3>2, <4>1, GoesNowhere
    <3>3. QED
      BY <3>1, <3>2
  <2>15. QED
    BY <2>13, <2>14, StepsAre
<1>6. QED
  BY <1>4, <1>5

-----------------------------------------------------------------------------
(***************************************************************************)
(* Spooling, pausing and resuming.                                         *)
(***************************************************************************)
LEMMA SpoolMsgIs ==
  ASSUME NEW S \in SUBSET Task, NEW t \in S, NEW override \in BOOLEAN
  PROVE  /\ SpoolMsg(t, override) \in Wires(S)
         /\ \A p \in Prints : SpoolMsg(t, override) \in OnWire(p) <=> p = t
<1>1. SpoolMsg(t, override) \in Wireable /\ SpoolMsg(t, override).type = "SpoolTask"
      /\ SpoolMsg(t, override).task = t
  BY DEF SpoolMsg, Wireable
<1>2. QED
  BY <1>1 DEF Wires, OnWire

LEMMA SentType ==
  ASSUME NEW S, wire \in Seq(Wires(S)), NEW x \in Seq(Wires(S))
  PROVE  /\ Sent(x) \in Seq(Wires(S))
         /\ \A T : /\ CountOf(Sent(x), T) \in Nat /\ CountOf(wire, T) \in Nat /\ CountOf(x, T) \in Nat
                   /\ CountOf(Sent(x), T) <= CountOf(wire, T) + CountOf(x, T)
<1>1. wire \o x \in Seq(Wires(S))
  OBVIOUS
<1>2. ASSUME NEW T
      PROVE  /\ CountOf(wire \o x, T) = CountOf(wire, T) + CountOf(x, T)
             /\ CountOf(wire, T) \in Nat /\ CountOf(x, T) \in Nat
  BY CountConcat, CountIsNat
<1>3. CASE m.conn = "live"
  <2>1. Sent(x) = wire \o x
    BY <1>3 DEF Sent
  <2>2. QED
    BY <1>1, <1>2, <2>1
<1>4. CASE m.conn # "live"
  <2>1. Sent(x) = wire
    BY <1>4 DEF Sent
  <2>2. QED
    BY <1>2, <2>1
<1>5. QED
  BY <1>3, <1>4

\* One message that spools a task.
LEMMA SpoolsOne ==
  ASSUME NEW S \in SUBSET Task, wire \in Seq(Wires(S)), NEW t \in S, NEW override \in BOOLEAN
  PROVE  /\ Sent(<<SpoolMsg(t, override)>>) \in Seq(Wires(S))
         /\ \A p \in Prints :
              /\ CountOf(Sent(<<SpoolMsg(t, override)>>), OnWire(p)) \in Nat
              /\ CountOf(wire, OnWire(p)) \in Nat
              /\ CountOf(Sent(<<SpoolMsg(t, override)>>), OnWire(p))
                   <= CountOf(wire, OnWire(p)) + One(p = t)
<1> DEFINE e == SpoolMsg(t, override)
           x == <<e>>
<1>1. e \in Wires(S) /\ \A p \in Prints : e \in OnWire(p) <=> p = t
  BY SpoolMsgIs
<1> HIDE DEF e
<1>2. x \in Seq(Wires(S)) /\ \A T : CountOf(x, T) = One(e \in T)
  BY <1>1, CountOne DEF One
<1> HIDE DEF x
<1>3. /\ Sent(x) \in Seq(Wires(S))
      /\ \A T : /\ CountOf(Sent(x), T) \in Nat /\ CountOf(wire, T) \in Nat /\ CountOf(x, T) \in Nat
                /\ CountOf(Sent(x), T) <= CountOf(wire, T) + CountOf(x, T)
  BY <1>2, SentType
<1>4. ASSUME NEW p \in Prints
      PROVE  /\ CountOf(Sent(x), OnWire(p)) \in Nat
             /\ CountOf(wire, OnWire(p)) \in Nat
             /\ CountOf(Sent(x), OnWire(p)) <= CountOf(wire, OnWire(p)) + One(p = t)
  <2>1. CountOf(x, OnWire(p)) = One(p = t)
    BY <1>1, <1>2 DEF One
  <2>2. QED
    BY <1>3, <2>1
<1>5. QED
  BY <1>3, <1>4 DEF x, e

\* A task that is sent, and whose record is updated if that lands.
LEMMA SpooledIs ==
  ASSUME TypeOK, NEW t \in Task, NEW lands \in BOOLEAN, rec[t] # "absent"
  PROVE  /\ Spooled(rec, t, lands) \in [Task -> Statuses]
         /\ \A u \in Task : u # t => Spooled(rec, t, lands)[u] = rec[u]
         /\ Spooled(rec, t, lands)[t] = IF lands THEN "sent" ELSE rec[t]
         /\ Moved(rec, Spooled(rec, t, lands), sent, sent \cup {t}, IF lands THEN {t} ELSE {})
         /\ lands => rec[t] \in Pending \cup Final
         /\ (lands => rec[t] \in Pending) => MovesTo(rec[t], Spooled(rec, t, lands)[t], t \in sent)
<1>1. rec \in [Task -> Statuses] /\ "sent" \in Statuses /\ rec[t] \in Pending \cup Final
  BY DEF TypeOK, Statuses, Pending
<1>2. CASE lands
  BY <1>1, <1>2 DEF Spooled, Moved, MovesTo, Pending
<1>3. CASE ~lands
  BY <1>1, <1>3 DEF Spooled, Moved, MovesTo
<1>4. QED
  BY <1>2, <1>3

\* A handler has sent the task that its message carries. The record of a print that
\* was never sent may only have been errored before.
LEMMA SendsTask ==
  ASSUME IInv, mail # <<>>, Head(mail).type \in {"SpoolTask", "SpoolPrint"},
         NEW override \in BOOLEAN, NEW lands \in BOOLEAN,
         lands => Head(mail).fresh \/ Head(mail).type = "SpoolPrint",
         wire' = Sent(<<SpoolMsg(Head(mail).task, override)>>),
         rec' = Spooled(rec, Head(mail).task, lands),
         mail' = StaleIn(IF lands THEN {Head(mail).task} ELSE {}, Tail(mail)),
         Spend({Head(mail).task}), sent' = sent \cup {Head(mail).task},
         m' \in Machines(sent), m'.saved \in {m.saved, NoTask},
         m'.conn = m.conn, m'.attempting = m.attempting,
         parted' \in BOOLEAN, UNCHANGED <<job, resuming, retry, drv, crossed, ops, faults>>
  PROVE  IInv' /\ (Records!Step \/ crossed')
<1> DEFINE e == Head(mail)
           t == e.task
           ts == IF lands THEN {t} ELSE {}
           rest == Tail(mail)
<1>1. /\ e \in Mailable /\ Names(e, rec, sent) /\ rest \in Seq(Messages(rec, sent))
      /\ \A T : CountOf(mail, T) = CountOf(rest, T) + One(e \in T)
      /\ StillWaits(mail, rest) /\ NoMore(rest, mail)
  BY ReceivesHead
<1>2. /\ t \in Task /\ e.fresh \in BOOLEAN /\ (e.type = "SpoolTask" => t \notin Prints)
      /\ e.type = "SpoolPrint" => t \in Prints
  <2>1. e.type = "SpoolTask" => e \in SpoolTasks
    BY <1>1, MailableByType
  <2>2. e.type = "SpoolPrint" => e \in SpoolPrints
    BY <1>1, MailableByType
  <2>3. QED
    BY <2>1, <2>2, TasksAssumption DEF SpoolTasks, SpoolPrints, Task
<1>3. /\ rec[t] # "absent" /\ (e.fresh => rec[t] = "created")
      /\ lands => rec[t] = "created" \/ e.type = "SpoolPrint"
  BY <1>1 DEF Names
<1>4. /\ TypeOK /\ mail \in Seq(Messages(rec, sent)) /\ Counts(mail) /\ Sound /\ Alive(m, mail, retry)
      /\ wire \in Seq(Wires(sent)) /\ sent \subseteq Task /\ m \in Machines(sent)
      /\ drv \in Drivers(sent) /\ credit \in [Task -> Int] /\ job \in [Prints -> Jobs]
  BY SoundNow DEF TypeOK
<1>5. /\ e \in Carry(t)
      /\ \A p \in Prints : /\ e \notin Answers(p)
                           /\ e \in Asks(p) <=> p = t
  BY <1>1, <1>2 DEF Carry, Asks, Answers
<1>6. /\ wire' = Sent(<<SpoolMsg(t, override)>>) /\ rec' = Spooled(rec, t, lands)
      /\ mail' = StaleIn(ts, rest) /\ sent' = sent \cup {t}
      /\ credit' = [u \in Task |-> IF u \in {t} THEN credit[u] - 1 ELSE credit[u]]
  BY DEF Spend
<1> HIDE DEF e, t, ts, rest
<1>7. /\ rec' \in [Task -> Statuses]
      /\ \A u \in Task : u # t => rec'[u] = rec[u]
      /\ rec'[t] = (IF lands THEN "sent" ELSE rec[t])
      /\ Moved(rec, rec', sent, sent', ts)
      /\ lands => rec[t] \in Pending \cup Final
      /\ (lands => rec[t] \in Pending) => MovesTo(rec[t], rec'[t], t \in sent)
  <2> DEFINE r == Spooled(rec, t, lands)
  <2>2. rec' = r /\ ts = (IF lands THEN {t} ELSE {})
    BY <1>6 DEF ts
  <2>3. /\ r \in [Task -> Statuses]
        /\ \A u \in Task : u # t => r[u] = rec[u]
        /\ r[t] = IF lands THEN "sent" ELSE rec[t]
        /\ Moved(rec, r, sent, sent \cup {t}, IF lands THEN {t} ELSE {})
        /\ lands => rec[t] \in Pending \cup Final
        /\ (lands => rec[t] \in Pending) => MovesTo(rec[t], r[t], t \in sent)
    BY <1>2, <1>3, <1>4, SpooledIs
  <2> HIDE DEF r
  <2>4. /\ rec' \in [Task -> Statuses]
        /\ \A u \in Task : u # t => rec'[u] = rec[u]
        /\ rec'[t] = IF lands THEN "sent" ELSE rec[t]
    BY <2>2, <2>3
  <2>5. /\ Moved(rec, rec', sent, sent', ts) /\ (lands => rec[t] \in Pending \cup Final)
        /\ (lands => rec[t] \in Pending) => MovesTo(rec[t], rec'[t], t \in sent)
    BY <1>6, <2>2, <2>3
  <2>6. QED
    BY <2>4, <2>5
<1>8. /\ mail' \in Seq(Messages(rec', sent')) /\ SameCounts(mail', rest) /\ StillWaits(rest, mail')
  BY <1>1, <1>6, <1>7, StaleMail
<1>9. sent \subseteq sent' /\ sent' \subseteq Task /\ t \in sent'
  BY <1>2, <1>4, <1>6
<1>10. /\ wire' \in Seq(Wires(sent'))
       /\ \A p \in Prints : /\ CountOf(wire', OnWire(p)) \in Nat /\ CountOf(wire, OnWire(p)) \in Nat
                            /\ CountOf(wire', OnWire(p)) <= CountOf(wire, OnWire(p)) + One(p = t)
  <2>1. wire \in Seq(Wires(sent'))
    BY <1>4, <1>9, GrowsWithSent
  <2>2. sent' \in SUBSET Task
    BY <1>9
  <2> DEFINE S == sent'
             w == Sent(<<SpoolMsg(t, override)>>)
  <2>3. S \in SUBSET Task /\ wire \in Seq(Wires(S)) /\ t \in S /\ wire' = w
    BY <1>6, <1>9, <2>1, <2>2
  <2> HIDE DEF S
  <2>4. /\ w \in Seq(Wires(S))
        /\ \A p \in Prints : /\ CountOf(w, OnWire(p)) \in Nat /\ CountOf(wire, OnWire(p)) \in Nat
                             /\ CountOf(w, OnWire(p)) <= CountOf(wire, OnWire(p)) + One(p = t)
    BY <2>3, SpoolsOne
  <2> HIDE DEF w
  <2>5. QED
    BY <2>3, <2>4 DEF S
<1>11. m' \in Machines(sent') /\ drv' \in Drivers(sent')
  BY <1>4, <1>9, GrowsWithSent
<1>12. credit' \in [Task -> Int] /\ credit'[t] = credit[t] - 1 /\ \A u \in Task : u # t => credit'[u] = credit[u]
  BY <1>2, <1>4, <1>6
<1>13. TypeOK'
  BY <1>4, <1>7, <1>8, <1>9, <1>10, <1>11, <1>12 DEF TypeOK
<1>14. ASSUME NEW u \in Task
       PROVE  /\ CountOf(mail', Carry(u)) = CountOf(mail, Carry(u)) - One(e \in Carry(u))
              /\ CountOf(mail, Carry(u)) \in Nat /\ CountOf(mail', Carry(u)) \in Nat
  <2>1. CountOf(mail, Carry(u)) = CountOf(rest, Carry(u)) + One(e \in Carry(u))
    BY <1>1
  <2>2. CountOf(mail', Carry(u)) = CountOf(rest, Carry(u)) /\ CountOf(rest, Carry(u)) \in Nat
    BY <1>1, <1>8, CountIsNat DEF SameCounts
  <2>3. QED
    BY <1>4, <2>1, <2>2 DEF One, Counts
<1>15. ASSUME NEW u \in Task PROVE Load(mail', job', u) <= credit'[u]
  <2>1. Load(mail, job, u) <= credit[u] /\ credit[u] \in Nat
    BY SoundNow
  <2>2. Load(mail', job', u) = Load(mail, job, u) - One(e \in Carry(u))
    <3>1. /\ CountOf(mail', Carry(u)) = CountOf(mail, Carry(u)) - One(e \in Carry(u))
          /\ CountOf(mail, Carry(u)) \in Nat /\ CountOf(mail', Carry(u)) \in Nat
      BY <1>14
    <3>2. job' = job
      OBVIOUS
    <3>3. QED
      BY <3>1, <3>2 DEF Load, One
  <2>3. Load(mail, job, u) \in Nat
    BY <1>4, LoadIsNat
  <2>4. CASE u = t
    BY <1>5, <1>12, <2>1, <2>2, <2>3, <2>4 DEF One
  <2>5. CASE u # t
    BY <1>12, <2>1, <2>2, <2>3, <2>5 DEF One
  <2>6. QED
    BY <2>4, <2>5
<1>16. ASSUME NEW p \in Prints
       PROVE  /\ AskedIn(mail', job', p) = AskedIn(mail, job, p) - One(p = t)
              /\ AskedIn(mail', job', p) \in Nat /\ AskedIn(mail, job, p) \in Nat
              /\ job'[p].phase # "none" => rec'[p] # "absent"
              /\ job'[p].phase = "compiling" /\ job'[p].held => rec'[p] = "created"
  <2>1. CountOf(mail, Asks(p)) = CountOf(rest, Asks(p)) + One(p = t)
    BY <1>1, <1>5 DEF One
  <2>2. CountOf(mail', Asks(p)) = CountOf(rest, Asks(p)) /\ CountOf(rest, Asks(p)) \in Nat
    BY <1>1, <1>8, CountIsNat DEF SameCounts
  <2>3. One(p = t) \in Nat /\ One(job[p].phase # "none") \in Nat
    BY DEF One
  <2>4. /\ AskedIn(mail', job', p) = AskedIn(mail, job, p) - One(p = t)
        /\ AskedIn(mail', job', p) \in Nat /\ AskedIn(mail, job, p) \in Nat
    BY <2>1, <2>2, <2>3 DEF AskedIn
  <2>5. p = t => AskedIn(mail', job', p) = 0
    <3>1. AskedIn(mail, job, p) <= 1
      BY SoundNow
    <3>2. QED
      BY <2>4, <3>1 DEF One
  <2>6. p = t => job'[p].phase = "none"
    BY <2>2, <2>5 DEF AskedIn, One
  <2>7. p # t => rec'[p] = rec[p]
    BY <1>7 DEF Task
  <2>8. QED
    BY <2>4, <2>6, <2>7, SoundNow
<1>17. ASSUME NEW p \in Prints
       PROVE  /\ Away(mail', wire', drv'.spool, m', p) \in Nat
              /\ Away(mail', wire', drv'.spool, m', p) <= Away(mail, wire, drv.spool, m, p) + One(p = t)
  <2>1. CountOf(mail', Answers(p)) = CountOf(mail, Answers(p))
    <3>1. One(e \in Answers(p)) = 0
      BY <1>5 DEF One
    <3>2. CountOf(rest, Answers(p)) \in Nat
      BY <1>1, CountIsNat
    <3>3. CountOf(mail, Answers(p)) = CountOf(rest, Answers(p)) + One(e \in Answers(p))
      BY <1>1
    <3>4. CountOf(mail, Answers(p)) = CountOf(rest, Answers(p))
      BY <3>1, <3>2, <3>3
    <3>5. CountOf(mail', Answers(p)) = CountOf(rest, Answers(p))
      BY <1>8 DEF SameCounts
    <3>6. QED
      BY <3>4, <3>5
  <2>2. /\ CountOf(wire', OnWire(p)) \in Nat /\ CountOf(wire, OnWire(p)) \in Nat
        /\ CountOf(wire', OnWire(p)) <= CountOf(wire, OnWire(p)) + One(p = t)
    BY <1>10
  <2>3. CountOf(mail, Answers(p)) \in Nat /\ CountOf(drv.spool, {p}) \in Nat
    BY <1>4, PlacesAreNat
  <2>4. One(m'.saved = p) <= One(m.saved = p) /\ One(m'.saved = p) \in Nat /\ One(m.saved = p) \in Nat
    BY TasksAssumption DEF One, Task
  <2>5. drv'.spool = drv.spool /\ One(p = t) \in Nat
    BY DEF One
  <2>6. /\ Away(mail', wire', drv'.spool, m', p)
             = CountOf(mail', Answers(p)) + CountOf(wire', OnWire(p)) + CountOf(drv.spool, {p})
                 + One(m'.saved = p)
        /\ Away(mail, wire, drv.spool, m, p)
             = CountOf(mail, Answers(p)) + CountOf(wire, OnWire(p)) + CountOf(drv.spool, {p})
                 + One(m.saved = p)
    BY <2>5 DEF Away
  <2>7. \A a, w, x, b, y, z, n \in Nat : x <= w + n /\ y <= z =>
          a + x + b + y \in Nat /\ a + x + b + y <= a + w + b + z + n
    OBVIOUS
  <2>8. QED
    BY <2>1, <2>2, <2>3, <2>4, <2>5, <2>6, <2>7
<1>18. Sound'
  <2>1. ASSUME NEW p \in Prints PROVE AskedIn(mail', job', p) <= 1
    <3>1. AskedIn(mail, job, p) <= 1
      BY SoundNow
    <3>2. /\ AskedIn(mail', job', p) = AskedIn(mail, job, p) - One(p = t)
          /\ AskedIn(mail', job', p) \in Nat /\ AskedIn(mail, job, p) \in Nat
      BY <1>16
    <3>3. QED
      BY <3>1, <3>2 DEF One
  <2>2. ASSUME NEW u \in Task
        PROVE  /\ rec'[u] \in {"finished", "cancelled"} => u \in sent'
               /\ u \in sent' => rec'[u] # "absent"
    <3>1. CASE u = t
      BY <1>3, <1>7, <1>9, <3>1
    <3>2. CASE u # t
      BY <1>6, <1>7, <3>2, SoundNow
    <3>3. QED
      BY <3>1, <3>2
  <2>3. ASSUME ~crossed', NEW p \in Prints
        PROVE  /\ AskedIn(mail', job', p) + Away(mail', wire', drv'.spool, m', p) <= 1
               /\ p \in sent' => AskedIn(mail', job', p) = 0
    <3>1. /\ AskedIn(mail, job, p) + Away(mail, wire, drv.spool, m, p) <= 1
          /\ p \in sent => AskedIn(mail, job, p) = 0
          /\ Away(mail, wire, drv.spool, m, p) \in Nat
      BY <2>3, SoundNow
    <3>2. /\ AskedIn(mail', job', p) = AskedIn(mail, job, p) - One(p = t)
          /\ AskedIn(mail', job', p) \in Nat /\ AskedIn(mail, job, p) \in Nat
      BY <1>16
    <3>3. /\ Away(mail', wire', drv'.spool, m', p) \in Nat
          /\ Away(mail', wire', drv'.spool, m', p) <= Away(mail, wire, drv.spool, m, p) + One(p = t)
          /\ One(p = t) \in Nat
      BY <1>17 DEF One
    <3>4. AskedIn(mail', job', p) + Away(mail', wire', drv'.spool, m', p) <= 1
      BY <3>1, <3>2, <3>3
    <3>5. p \in sent' => p \in sent \/ p = t
      BY <1>6
    <3>6. p = t => AskedIn(mail', job', p) = 0
      BY <3>1, <3>2 DEF One
    <3>7. p \in sent => AskedIn(mail', job', p) = 0
      BY <3>1, <3>2 DEF One
    <3>8. QED
      BY <3>4, <3>5, <3>6, <3>7
  <2>4. QED
    BY <1>13, <1>15, <1>16, <2>1, <2>2, <2>3, SoundNext
<1>19. IInv'
  <2>1. StillWaits(mail, mail')
    BY <1>1, <1>8, StillWaitsBeyond
  <2>2. Alive(m', mail', retry')
    BY <1>4, <2>1, AliveKeeps
  <2>3. QED
    BY <1>18, <2>2, IInvIs
<1>20. ASSUME ~crossed', NEW u \in Task PROVE Goes(u)
  <2>1. CASE u = t
    <3>1. credit[t] > 0
      <4>1. Load(mail, job, t) <= credit[t] /\ credit[t] \in Nat
        BY <1>2, SoundNow
      <4>2. CountOf(mail', Carry(t)) = CountOf(mail, Carry(t)) - 1 /\ CountOf(mail, Carry(t)) \in Nat /\ CountOf(mail', Carry(t)) \in Nat
        BY <1>2, <1>5, <1>14 DEF One
      <4>3. QED
        BY <4>1, <4>2 DEF Load, One
    <3>2. SpendsTo(rec[t], rec'[t], credit[t], credit'[t], t \in sent, t \in sent')
      BY <1>9, <1>12, <3>1 DEF SpendsTo
    <3>3. CASE lands => rec[t] \in Pending
      BY <1>7, <2>1, <3>2, <3>3 DEF Goes
    <3>4. CASE lands /\ rec[t] \notin Pending
      <4>1. e.type = "SpoolPrint" /\ t \in Prints
        BY <1>2, <1>3, <3>4 DEF Pending
      <4>2. AskedIn(mail, job, t) # 0
        BY <1>16, <4>1 DEF One
      <4>3. t \notin sent /\ rec[t] \notin {"finished", "cancelled"}
        BY <1>2, <1>20, <4>1, <4>2, SoundNow
      <4>4. rec[t] = "errored" /\ rec'[t] = "sent"
        BY <1>7, <3>4, <4>3 DEF Final
      <4>5. QED
        BY <1>9, <2>1, <3>2, <4>3, <4>4 DEF Goes
    <3>5. QED
      BY <3>3, <3>4
  <2>2. CASE u # t
    BY <1>6, <1>7, <1>12, <2>2, GoesNowhere
  <2>3. QED
    BY <2>1, <2>2
<1>21. QED
  BY <1>19, <1>20, StepsAre

LEMMA HandleSpoolTaskKeeps ==
  ASSUME IInv, HandleSpoolTask
  PROVE  IInv' /\ (Records!Step \/ UNCHANGED <<rec, credit, sent>> \/ crossed')
<1> DEFINE e == Head(mail)
<1>1. /\ mail # <<>> /\ e.type = "SpoolTask"
      /\ UNCHANGED <<job, resuming, retry, drv, ops, faults>>
  BY DEF HandleSpoolTask, Receives, bounds
<1>2. e \in SpoolTasks
  BY <1>1, ReceivesHead, MailableByType
<1>3. e.override \in BOOLEAN /\ e.fresh \in BOOLEAN
  BY <1>2 DEF SpoolTasks
<1>4. m \in Machines(sent) /\ parted \in BOOLEAN
  BY DEF IInv, TypeOK
<1> HIDE DEF e
<1>5. \/ Refuse
      \/ \E ok \in SendResults :
           IF ok
           THEN /\ wire' = Sent(<<SpoolMsg(e.task, e.override)>>)
                /\ rec' = Spooled(rec, e.task, e.fresh)
                /\ mail' = StaleIn(IF e.fresh THEN {e.task} ELSE {}, Tail(mail))
                /\ Spend({e.task}) /\ sent' = sent \cup {e.task}
                /\ parted' = (parted \/ ~e.fresh) /\ crossed' = crossed
                /\ m' = m
           ELSE /\ StopActor(Tail(mail))
                /\ UNCHANGED <<rec, m, wire, history>>
  BY DEF HandleSpoolTask, e
<1>6. CASE Refuse
  <2>1. mail' = Tail(mail) /\ UNCHANGED <<rec, m, wire, credit, sent, parted, crossed>>
    BY <1>6 DEF Refuse, history
  <2>2. IInv'
    BY <1>1, <2>1, HandsOn DEF e
  <2>3. QED
    BY <2>1, <2>2
<1>7. CASE StopActor(Tail(mail)) /\ UNCHANGED <<rec, m, wire, history>>
  <2>1. mail' = Append(Tail(mail), Msg("Stop")) /\ UNCHANGED <<rec, m, wire, credit, sent, parted, crossed>>
    BY <1>7 DEF StopActor, history
  <2>2. IInv'
    BY <1>1, <2>1, HandsOn DEF e
  <2>3. QED
    BY <2>1, <2>2
<1>8. CASE /\ wire' = Sent(<<SpoolMsg(e.task, e.override)>>)
           /\ rec' = Spooled(rec, e.task, e.fresh)
           /\ mail' = StaleIn(IF e.fresh THEN {e.task} ELSE {}, Tail(mail))
           /\ Spend({e.task}) /\ sent' = sent \cup {e.task}
           /\ parted' = (parted \/ ~e.fresh) /\ crossed' = crossed
           /\ m' = m
  <2>1. parted' \in BOOLEAN
    BY <1>8
  <2>2. PICK lands \in BOOLEAN : lands = e.fresh
    BY <1>3
  <2>3. /\ rec' = Spooled(rec, e.task, lands)
        /\ mail' = StaleIn(IF lands THEN {e.task} ELSE {}, Tail(mail))
        /\ lands => e.fresh \/ e.type = "SpoolPrint"
    BY <1>8, <2>2
  <2>4. QED
    BY <1>1, <1>3, <1>4, <1>8, <2>1, <2>3, SendsTask DEF e
<1>9. QED
  BY <1>5, <1>6, <1>7, <1>8

\* The compilation of a print that cannot be spooled is told of it.
LEMMA FailsKeeps ==
  ASSUME IInv, mail # <<>>, Head(mail).type = "SpoolPrint", Fails(Head(mail).task),
         \/ mail' = Tail(mail)
         \/ \E ts \in SUBSET Task : mail' = Append(StaleIn(ts, Tail(mail)), Msg("Stop")),
         UNCHANGED <<rec, m, wire, credit, sent, parted, crossed, resuming, retry, drv, ops, faults>>
  PROVE  IInv'
<1> DEFINE e == Head(mail)
           p == e.task
           rest == Tail(mail)
<1>1. /\ e \in Mailable /\ Names(e, rec, sent) /\ rest \in Seq(Messages(rec, sent))
      /\ \A T : CountOf(mail, T) = CountOf(rest, T) + One(e \in T)
      /\ StillWaits(mail, rest)
  BY ReceivesHead
<1>2. /\ e.type = "SpoolPrint" /\ p \in Prints /\ p \in Task
  <2>1. e \in SpoolPrints
    BY <1>1, MailableByType
  <2>2. QED
    BY <2>1 DEF SpoolPrints, Task
<1>3. /\ TypeOK /\ mail \in Seq(Messages(rec, sent)) /\ Counts(mail) /\ Alive(m, mail, retry)
      /\ job \in [Prints -> Jobs] /\ rec[p] # "absent"
  BY <1>1, <1>2, SoundNow DEF TypeOK, Names
<1>4. /\ \A q \in Prints : /\ e \notin Answers(q)
                           /\ e \in Asks(q) <=> q = p
  BY <1>1, <1>2 DEF Asks, Answers
<1>5. /\ job' \in [Prints -> Jobs] /\ job'[p].phase = "failing" /\ \A q \in Prints : q # p => job'[q] = job[q]
  BY <1>2, <1>3 DEF Fails, NoJob, Jobs
<1>6. \/ mail' = rest
      \/ \E ts \in SUBSET Task : mail' = Append(StaleIn(ts, rest), Msg("Stop"))
  OBVIOUS
<1> HIDE DEF e, p, rest
<1>7. /\ mail' \in Seq(Messages(rec, sent)) /\ SameCounts(mail', rest) /\ StillWaits(rest, mail')
  <2>1. CASE mail' = rest
    BY <1>1, <2>1 DEF SameCounts, StillWaits
  <2>2. CASE \E ts \in SUBSET Task : mail' = Append(StaleIn(ts, rest), Msg("Stop"))
    <3>1. PICK ts \in SUBSET Task : mail' = Append(StaleIn(ts, rest), Msg("Stop"))
      BY <2>2
    <3>2. Moved(rec, rec, sent, sent, ts)
      BY DEF Moved
    <3>3. /\ StaleIn(ts, rest) \in Seq(Messages(rec, sent)) /\ StillWaits(rest, StaleIn(ts, rest))
          /\ SameCounts(StaleIn(ts, rest), rest)
      BY <1>1, <3>2, StaleMail
    <3> DEFINE box == StaleIn(ts, rest)
    <3> HIDE DEF box
    <3>4. /\ Append(box, Msg("Stop")) \in Seq(Messages(rec, sent))
          /\ SameCounts(Append(box, Msg("Stop")), box) /\ StillWaits(box, Append(box, Msg("Stop")))
      BY <3>3, AddSignalTo DEF box
    <3>5. mail' = Append(box, Msg("Stop")) /\ SameCounts(box, rest) /\ StillWaits(rest, box)
      BY <3>1, <3>3 DEF box
    <3>6. SameCounts(mail', rest)
      BY <3>4, <3>5 DEF SameCounts
    <3>7. QED
      BY <3>4, <3>5, <3>6, StillWaitsBeyond
  <2>3. QED
    BY <1>6, <2>1, <2>2
<1>8. TypeOK'
  BY <1>3, <1>5, <1>7 DEF TypeOK
<1>9. ASSUME NEW q \in Prints
      PROVE  /\ AskedIn(mail', job', q) = AskedIn(mail, job, q)
             /\ job'[q].phase # "none" => rec'[q] # "absent"
             /\ job'[q].phase = "compiling" => job'[q] = job[q]
             /\ q = p => job[q].phase = "none"
  <2>1. CountOf(mail, Asks(q)) = CountOf(rest, Asks(q)) + One(q = p)
    BY <1>1, <1>4 DEF One
  <2>2. CountOf(mail', Asks(q)) = CountOf(rest, Asks(q)) /\ CountOf(rest, Asks(q)) \in Nat
    BY <1>1, <1>7, CountIsNat DEF SameCounts
  <2>3. AskedIn(mail, job, q) <= 1
    BY SoundNow
  <2>4. q = p => job[q].phase = "none"
    BY <2>1, <2>2, <2>3 DEF AskedIn, One
  <2>5. CASE q = p
    BY <1>3, <1>5, <2>1, <2>2, <2>4, <2>5 DEF AskedIn, One
  <2>6. CASE q # p
    <3>1. job'[q] = job[q]
      BY <1>5, <2>6
    <3>2. CountOf(mail', Asks(q)) = CountOf(mail, Asks(q))
      BY <2>1, <2>2, <2>6 DEF One
    <3>3. QED
      BY <2>4, <2>6, <3>1, <3>2, SoundNow DEF AskedIn
  <2>7. QED
    BY <2>5, <2>6
<1>10. ASSUME NEW t \in Task PROVE Load(mail', job', t) <= credit'[t]
  <2>1. Load(mail, job, t) <= credit[t] /\ credit[t] \in Nat /\ CountOf(mail, Carry(t)) \in Nat
    BY SoundNow DEF Counts
  <2>2. CountOf(mail, Carry(t)) = CountOf(rest, Carry(t)) + One(e \in Carry(t))
    BY <1>1
  <2>3. CountOf(mail', Carry(t)) = CountOf(rest, Carry(t)) /\ CountOf(rest, Carry(t)) \in Nat
    BY <1>1, <1>7, CountIsNat DEF SameCounts
  <2>4. CountOf(mail', Carry(t)) <= CountOf(mail, Carry(t)) /\ CountOf(mail', Carry(t)) \in Nat
    BY <2>2, <2>3 DEF One
  <2>5. t \in Prints /\ job'[t].phase = "compiling" => job[t].phase = "compiling"
    BY <1>9
  <2>6. QED
    BY <2>1, <2>4, <2>5 DEF Load, One
<1>11. \A q \in Prints : Away(mail', wire', drv'.spool, m', q) = Away(mail, wire, drv.spool, m, q)
  <2>1. SUFFICES ASSUME NEW q \in Prints
                 PROVE  Away(mail', wire', drv'.spool, m', q) = Away(mail, wire, drv.spool, m, q)
    OBVIOUS
  <2>2. One(e \in Answers(q)) = 0
    BY <1>4 DEF One
  <2>3. CountOf(mail, Answers(q)) = CountOf(rest, Answers(q)) + One(e \in Answers(q))
    BY <1>1
  <2>4. CountOf(mail', Answers(q)) = CountOf(rest, Answers(q)) /\ CountOf(rest, Answers(q)) \in Nat
    BY <1>1, <1>7, CountIsNat DEF SameCounts
  <2>5. CountOf(mail', Answers(q)) = CountOf(mail, Answers(q))
    BY <2>2, <2>3, <2>4
  <2>6. QED
    BY <2>5 DEF Away
<1>12. Sound'
  <2>1. \A q \in Prints :
          /\ AskedIn(mail', job', q) <= 1
          /\ job'[q].phase # "none" => rec'[q] # "absent"
          /\ job'[q].phase = "compiling" /\ job'[q].held => rec'[q] = "created"
    BY <1>9, SoundNow
  <2>2. \A t \in Task : /\ rec'[t] \in {"finished", "cancelled"} => t \in sent'
                        /\ t \in sent' => rec'[t] # "absent"
    BY SoundNow
  <2>3. ~crossed' => \A q \in Prints :
           /\ AskedIn(mail', job', q) + Away(mail', wire', drv'.spool, m', q) <= 1
           /\ q \in sent' => AskedIn(mail', job', q) = 0
    BY <1>9, <1>11, SoundNow
  <2>4. QED
    BY <1>8, <1>10, <2>1, <2>2, <2>3, SoundNext
<1>13. Alive(m', mail', retry')
  <2>1. StillWaits(mail, mail')
    BY <1>1, <1>7, StillWaitsBeyond
  <2>2. QED
    BY <1>3, <2>1, AliveKeeps
<1>14. QED
  BY <1>12, <1>13, IInvIs

LEMMA HandleSpoolPrintKeeps ==
  ASSUME IInv, HandleSpoolPrint
  PROVE  IInv' /\ (Records!Step \/ UNCHANGED <<rec, credit, sent>> \/ crossed')
<1> DEFINE e == Head(mail)
           p == e.task
<1>1. /\ mail # <<>> /\ e.type = "SpoolPrint"
      /\ UNCHANGED <<resuming, retry, drv, ops, faults>>
  BY DEF HandleSpoolPrint, Receives, bounds
<1>2. e \in SpoolPrints
  BY <1>1, ReceivesHead, MailableByType
<1>3. p \in Prints /\ p \in Task /\ e.fresh \in BOOLEAN /\ e.late \in BOOLEAN
  BY <1>2 DEF SpoolPrints, Task
<1>4. m \in Machines(sent) /\ parted \in BOOLEAN
  BY DEF IInv, TypeOK
<1> HIDE DEF e
<1>5. \/ Fails(p) /\ mail' = Tail(mail) /\ UNCHANGED <<rec, m, wire, history>>
      \/ \E ok \in SendResults :
           IF ok
           THEN /\ wire' = Sent(<<SpoolMsg(p, FALSE)>>)
                /\ rec' = Spooled(rec, p, e.fresh \/ e.late)
                /\ mail' = StaleIn(IF e.fresh \/ e.late THEN {p} ELSE {}, Tail(mail))
                /\ m' = Printing(m, p, FALSE)
                /\ Spend({p}) /\ sent' = sent \cup {p}
                /\ parted' = (parted \/ ~(e.fresh \/ e.late)) /\ crossed' = crossed
                /\ job' = job
           ELSE /\ Fails(p) /\ StopActor(StaleIn(IF e.fresh THEN {p} ELSE {}, Tail(mail)))
                /\ UNCHANGED <<rec, m, wire, history>>
  BY DEF HandleSpoolPrint, e
<1>6. CASE Fails(p) /\ mail' = Tail(mail) /\ UNCHANGED <<rec, m, wire, history>>
  <2>1. UNCHANGED <<rec, m, wire, credit, sent, parted, crossed>>
    BY <1>6 DEF history
  <2>2. IInv'
    BY <1>1, <1>6, <2>1, FailsKeeps DEF e
  <2>3. QED
    BY <2>1, <2>2
<1>7. CASE /\ Fails(p) /\ StopActor(StaleIn(IF e.fresh THEN {p} ELSE {}, Tail(mail)))
           /\ UNCHANGED <<rec, m, wire, history>>
  <2>1. UNCHANGED <<rec, m, wire, credit, sent, parted, crossed>>
    BY <1>7 DEF history
  <2>2. \E ts \in SUBSET Task : mail' = Append(StaleIn(ts, Tail(mail)), Msg("Stop"))
    <3> DEFINE ts == IF e.fresh THEN {p} ELSE {}
    <3>1. ts \in SUBSET Task
      BY <1>3
    <3>2. mail' = Append(StaleIn(ts, Tail(mail)), Msg("Stop"))
      BY <1>7 DEF StopActor
    <3> HIDE DEF ts
    <3>3. QED
      BY <3>1, <3>2
  <2>3. IInv'
    BY <1>1, <1>7, <2>1, <2>2, FailsKeeps DEF e
  <2>4. QED
    BY <2>1, <2>3
<1>8. CASE /\ wire' = Sent(<<SpoolMsg(p, FALSE)>>)
           /\ rec' = Spooled(rec, p, e.fresh \/ e.late)
           /\ mail' = StaleIn(IF e.fresh \/ e.late THEN {p} ELSE {}, Tail(mail))
           /\ m' = Printing(m, p, FALSE)
           /\ Spend({p}) /\ sent' = sent \cup {p}
           /\ parted' = (parted \/ ~(e.fresh \/ e.late)) /\ crossed' = crossed
           /\ job' = job
  <2>1. parted' \in BOOLEAN
    BY <1>8
  <2>2. /\ m' \in Machines(sent) /\ m'.saved = NoTask /\ m'.conn = m.conn
        /\ m'.attempting = m.attempting
    <3>1. m' = Printing(m, p, FALSE) /\ FALSE \in BOOLEAN
      BY <1>8
    <3>2. QED
      BY <1>3, <1>4, <3>1, PrintingIs
  <2>3. PICK no, lands \in BOOLEAN : no = FALSE /\ lands = (e.fresh \/ e.late)
    OBVIOUS
  <2>4. /\ wire' = Sent(<<SpoolMsg(p, no)>>)
        /\ rec' = Spooled(rec, p, lands)
        /\ mail' = StaleIn(IF lands THEN {p} ELSE {}, Tail(mail))
    BY <1>8, <2>3
  <2>5. QED
    BY <1>1, <1>8, <2>1, <2>2, <2>4, SendsTask DEF e
<1>9. QED
  BY <1>5, <1>6, <1>7, <1>8

LEMMA JoinNeutral ==
  ASSUME NEW M, NEW s \in Seq(M), NEW x \in Seq(M), Neutral(x)
  PROVE  s \o x \in Seq(M) /\ SameCounts(s \o x, s) /\ StillWaits(s, s \o x)
<1>1. s \o x \in Seq(M)
  OBVIOUS
<1>2. \A T : CountOf(s \o x, T) = CountOf(s, T) + CountOf(x, T) /\ CountOf(s, T) \in Nat
  BY CountConcat, CountIsNat
<1>3. StillWaits(s, s \o x)
  BY StillWaitsJoin
<1>4. QED
  BY <1>1, <1>2, <1>3 DEF Neutral, SameCounts

\* What a pause sends: the pause, and the hook.
PauseSends(p, hook, ok, okHook) ==
  (IF ok THEN <<[type |-> "Pause", task |-> p]>> ELSE <<>>)
    \o (IF okHook THEN <<SpoolMsg(hook, FALSE)>> ELSE <<>>)

LEMMA PauseSendsType ==
  ASSUME NEW S \in SUBSET Task, wire \in Seq(Wires(S)), NEW p \in Prints, NEW hook \in Inlines,
         NEW ok \in BOOLEAN, NEW okHook \in BOOLEAN, okHook => hook \in S
  PROVE  /\ Sent(PauseSends(p, hook, ok, okHook)) \in Seq(Wires(S))
         /\ \A q \in Prints :
              /\ CountOf(Sent(PauseSends(p, hook, ok, okHook)), OnWire(q)) \in Nat
              /\ CountOf(Sent(PauseSends(p, hook, ok, okHook)), OnWire(q)) <= CountOf(wire, OnWire(q))
<1> DEFINE e == [type |-> "Pause", task |-> p]
           f == SpoolMsg(hook, FALSE)
           a == IF ok THEN <<e>> ELSE <<>>
           b == IF okHook THEN <<f>> ELSE <<>>
<1>1. \A q \in Prints : q # hook
  BY TasksAssumption
<1>2. e \in Wires(S) /\ \A q \in Prints : e \notin OnWire(q)
  BY DEF Wires, Wireable, OnWire
<1>3. okHook => f \in Wires(S) /\ \A q \in Prints : f \notin OnWire(q)
  BY <1>1, SpoolMsgIs
<1> HIDE DEF e, f
<1>4. a \in Seq(Wires(S)) /\ \A q \in Prints : CountOf(a, OnWire(q)) = 0
  <2>1. <<e>> \in Seq(Wires(S)) /\ \A q \in Prints : CountOf(<<e>>, OnWire(q)) = 0
    BY <1>2, CountOne
  <2>2. QED
    BY <2>1, CountEmpty
<1>5. b \in Seq(Wires(S)) /\ \A q \in Prints : CountOf(b, OnWire(q)) = 0
  <2>1. okHook => <<f>> \in Seq(Wires(S)) /\ \A q \in Prints : CountOf(<<f>>, OnWire(q)) = 0
    BY <1>3, CountOne
  <2>2. QED
    BY <2>1, CountEmpty
<1>6. PauseSends(p, hook, ok, okHook) = a \o b
  BY DEF PauseSends, e, f
<1> HIDE DEF a, b
<1> DEFINE x == a \o b
<1>7. x \in Seq(Wires(S))
  BY <1>4, <1>5
<1>8. \A T : CountOf(x, T) = CountOf(a, T) + CountOf(b, T)
  BY <1>4, <1>5, CountConcat
<1> HIDE DEF x
<1>9. /\ Sent(x) \in Seq(Wires(S))
      /\ \A T : /\ CountOf(Sent(x), T) \in Nat /\ CountOf(wire, T) \in Nat /\ CountOf(x, T) \in Nat
                /\ CountOf(Sent(x), T) <= CountOf(wire, T) + CountOf(x, T)
  BY <1>7, SentType
<1>10. \A q \in Prints : CountOf(x, OnWire(q)) = 0
  BY <1>4, <1>5, <1>8
<1>11. ASSUME NEW q \in Prints
       PROVE  CountOf(Sent(x), OnWire(q)) \in Nat /\ CountOf(Sent(x), OnWire(q)) <= CountOf(wire, OnWire(q))
  <2>1. CountOf(x, OnWire(q)) = 0
    BY <1>10
  <2>2. QED
    BY <1>9, <2>1
<1>12. QED
  BY <1>6, <1>9, <1>11 DEF x

\* PauseTask, with what it goes on with: x is what follows in the mailbox.
PausesBy(hook, ok, okHook, x) ==
  /\ mail # <<>> /\ Head(mail).type = "Pause"
  /\ rec[Head(mail).task] \notin Final \cup {"paused"}
  /\ m' = Printing(m, Head(mail).task, TRUE)
  /\ rec' = [rec EXCEPT ![Head(mail).task] = "paused",
                        ![hook] = IF okHook THEN "sent" ELSE "created"]
  /\ wire' = Sent(PauseSends(Head(mail).task, hook, ok, okHook))
  /\ mail' = StaleIn({Head(mail).task}, Tail(mail)) \o x
  /\ credit' = [credit EXCEPT ![hook] = IF okHook THEN @ ELSE @ + 1]
  /\ sent' = (IF okHook THEN sent \cup {hook} ELSE sent)
  /\ job' = StaleJobs({Head(mail).task}, job)
  /\ UNCHANGED <<resuming, retry, drv, parted, crossed, ops, faults>>

LEMMA PausesTask ==
  ASSUME IInv, NEW hook \in NewInline, NEW ok \in BOOLEAN, NEW okHook \in BOOLEAN,
         NEW x \in {<<>>, <<Msg("Stop")>>, <<Msg("Stop"), Msg("Stop")>>},
         PausesBy(hook, ok, okHook, x)
  PROVE  IInv' /\ Records!Step
<1> DEFINE e == Head(mail)
           p == e.task
           rest == Tail(mail)
           box == StaleIn({p}, rest)
           s == IF okHook THEN "sent" ELSE "created"
<1>0. mail # <<>> /\ e.type = "Pause"
  BY DEF PausesBy
<1>1. /\ e \in Mailable /\ Names(e, rec, sent) /\ rest \in Seq(Messages(rec, sent))
      /\ StillWaits(mail, rest) /\ NoMore(rest, mail)
  BY <1>0, ReceivesHead
<1>2. p \in Prints /\ p \in Task /\ rec[p] # "absent"
  <2>1. e \in Pauses
    BY <1>0, <1>1, MailableByType
  <2>2. QED
    BY <1>1, <2>1 DEF Pauses, Task, Names
<1>3. /\ hook \in Inlines /\ hook \in Task /\ hook \notin Prints /\ rec[hook] = "absent"
      /\ hook \notin sent /\ CountOf(mail, Carry(hook)) = 0
  BY NewInlineIs
<1>4. /\ TypeOK /\ mail \in Seq(Messages(rec, sent)) /\ Counts(mail) /\ Sound /\ Alive(m, mail, retry)
      /\ wire \in Seq(Wires(sent)) /\ sent \subseteq Task /\ m \in Machines(sent)
      /\ drv \in Drivers(sent) /\ credit \in [Task -> Int] /\ job \in [Prints -> Jobs]
      /\ rec \in [Task -> Statuses]
  BY SoundNow DEF TypeOK
<1>5. /\ rec' = [rec EXCEPT ![p] = "paused", ![hook] = s]
      /\ m' = Printing(m, p, TRUE) /\ wire' = Sent(PauseSends(p, hook, ok, okHook))
      /\ mail' = box \o x /\ job' = StaleJobs({p}, job) /\ rec[p] \notin Final \cup {"paused"}
      /\ credit' = [credit EXCEPT ![hook] = IF okHook THEN @ ELSE @ + 1]
      /\ sent' = (IF okHook THEN sent \cup {hook} ELSE sent)
      /\ retry' = retry /\ drv' = drv /\ crossed' = crossed
      /\ UNCHANGED <<resuming, parted, ops, faults>>
  BY DEF PausesBy
<1> HIDE DEF e, p, rest, s
<1>16. rec[p] \in Pending \ {"paused"}
  BY <1>2, <1>4, <1>5 DEF Statuses
<1>6. /\ rec' \in [Task -> Statuses] /\ rec'[p] = "paused" /\ rec'[hook] = s
      /\ \A t \in Task : t \notin {p, hook} => rec'[t] = rec[t]
  <2>1. "paused" \in Statuses /\ s \in Statuses /\ p # hook
    BY <1>2, <1>3 DEF Statuses, Pending, s
  <2>2. QED
    BY <1>2, <1>3, <1>4, <1>5, <2>1
<1>7. s \in {"sent", "created"}
  BY DEF s
<1>8. /\ sent \subseteq sent' /\ sent' \in SUBSET Task
      /\ \A t \in Task : t # hook => (t \in sent' <=> t \in sent)
      /\ okHook => hook \in sent'
      /\ ~okHook => hook \notin sent'
  BY <1>3, <1>4, <1>5
<1>9. /\ box \in Seq(Messages(rec', sent')) /\ SameCounts(box, rest) /\ StillWaits(rest, box)
  <2>1. Moved(rec, rec', sent, sent', {p})
    BY <1>2, <1>3, <1>6, <1>7, <1>8 DEF Moved
  <2>2. QED
    BY <1>1, <2>1, StaleMail
<1> HIDE DEF box
<1>10. /\ mail' \in Seq(Messages(rec', sent')) /\ SameCounts(mail', rest) /\ StillWaits(mail, mail')
  <2> DEFINE c == Msg("Stop")
  <2>1. c \in Messages(rec', sent') /\ Neutral(<<c>>)
    BY NeutralOnes
  <2>2. x = <<>> \/ x = <<c>> \/ x = <<c, c>>
    OBVIOUS
  <2> HIDE DEF c
  <2>3. <<c>> \in Seq(Messages(rec', sent')) /\ <<c, c>> \in Seq(Messages(rec', sent')) /\ Neutral(<<c, c>>)
    BY <2>1, NeutralTwo
  <2>4. Neutral(<<>>)
    BY CountEmpty DEF Neutral
  <2>5. x \in Seq(Messages(rec', sent')) /\ Neutral(x)
    <3>1. CASE x = <<>>
      BY <2>4, <3>1
    <3>2. CASE x = <<c>>
      BY <2>1, <2>3, <3>2
    <3>3. CASE x = <<c, c>>
      BY <2>3, <3>3
    <3>4. QED
      BY <2>2, <3>1, <3>2, <3>3
  <2>6. /\ box \o x \in Seq(Messages(rec', sent')) /\ SameCounts(box \o x, box) /\ StillWaits(box, box \o x)
    BY <1>9, <2>5, JoinNeutral
  <2>7. SameCounts(mail', rest)
    BY <1>5, <1>9, <2>6 DEF SameCounts
  <2>8. StillWaits(rest, mail')
    BY <1>5, <1>9, <2>6, StillWaitsBeyond
  <2>9. QED
    BY <1>1, <1>5, <2>6, <2>7, <2>8, StillWaitsBeyond
<1>11. /\ wire' \in Seq(Wires(sent'))
       /\ \A q \in Prints : /\ CountOf(wire', OnWire(q)) \in Nat
                            /\ CountOf(wire', OnWire(q)) <= CountOf(wire, OnWire(q))
  <2> DEFINE S == sent'
             w == Sent(PauseSends(p, hook, ok, okHook))
  <2>1. S \in SUBSET Task /\ wire \in Seq(Wires(S)) /\ wire' = w /\ (okHook => hook \in S)
    BY <1>4, <1>5, <1>8, GrowsWithSent
  <2> HIDE DEF S
  <2>2. /\ w \in Seq(Wires(S))
        /\ \A q \in Prints : /\ CountOf(w, OnWire(q)) \in Nat
                             /\ CountOf(w, OnWire(q)) <= CountOf(wire, OnWire(q))
    BY <1>2, <1>3, <2>1, PauseSendsType
  <2> HIDE DEF w
  <2>3. QED
    BY <2>1, <2>2 DEF S
<1>12. /\ m' \in Machines(sent') /\ m'.saved = NoTask /\ m'.conn = m.conn /\ m'.attempting = m.attempting
       /\ drv' \in Drivers(sent')
  <2>1. m \in Machines(sent') /\ drv \in Drivers(sent')
    BY <1>4, <1>8, GrowsWithSent
  <2>2. QED
    <3> DEFINE S == sent'
               n == Printing(m, p, TRUE)
    <3>1. m \in Machines(S)
      BY <2>1
    <3> HIDE DEF S
    <3>2. /\ n \in Machines(S) /\ n.saved = NoTask /\ n.conn = m.conn
          /\ n.attempting = m.attempting
      BY <1>2, <3>1, PrintingIs
    <3>3. m' = n /\ drv' = drv
      BY <1>5
    <3> HIDE DEF n
    <3>4. QED
      BY <2>1, <3>2, <3>3 DEF S
<1>13. /\ job' \in [Prints -> Jobs]
       /\ \A q \in Prints : job'[q].phase = job[q].phase /\ (job'[q].held => job[q].held /\ q # p)
  BY <1>4, <1>5, StaleJobsAre
<1>14. /\ credit' \in [Task -> Int]
       /\ \A t \in Task : credit'[t] = credit[t] + One(t = hook /\ ~okHook)
  <2>1. CASE okHook
    <3>1. credit' = credit
      BY <1>3, <1>4, <1>5, <2>1
    <3>2. QED
      BY <1>4, <2>1, <3>1 DEF One
  <2>2. CASE ~okHook
    <3>1. credit' = [credit EXCEPT ![hook] = credit[hook] + 1] /\ credit[hook] + 1 \in Int
      BY <1>3, <1>4, <1>5, <2>2
    <3>2. QED
      BY <1>3, <1>4, <2>2, <3>1 DEF One
  <2>3. QED
    BY <2>1, <2>2
<1>15. TypeOK'
  BY <1>4, <1>5, <1>6, <1>8, <1>10, <1>11, <1>12, <1>13, <1>14 DEF TypeOK
<1>24. NoMore(mail', mail) /\ Counts(mail')
  <2>1. Counts(mail') /\ Counts(rest)
    BY <1>1, <1>10, CountsAreNat
  <2>2. QED
    BY <1>1, <1>10, <2>1 DEF NoMore, SameCounts, Counts
<1>17. ASSUME NEW t \in Task PROVE Load(mail', job', t) <= credit'[t]
  <2>1. Load(mail, job, t) <= credit[t] /\ credit[t] \in Nat
    BY SoundNow
  <2>2. /\ CountOf(mail, Carry(t)) \in Nat /\ CountOf(mail', Carry(t)) \in Nat
        /\ CountOf(mail', Carry(t)) <= CountOf(mail, Carry(t))
    BY <1>4, <1>24 DEF Counts, NoMore
  <2>3. One(t \in Prints /\ job'[t].phase = "compiling") = One(t \in Prints /\ job[t].phase = "compiling")
    BY <1>13 DEF One
  <2>4. Load(mail', job', t) <= Load(mail, job, t) /\ Load(mail', job', t) \in Nat /\ Load(mail, job, t) \in Nat
    BY <2>2, <2>3 DEF Load, One
  <2>5. credit[t] <= credit'[t] /\ credit'[t] \in Int
    BY <1>14, <2>1 DEF One
  <2>6. QED
    BY <2>1, <2>4, <2>5
<1>18. ASSUME NEW q \in Prints
       PROVE  /\ AskedIn(mail', job', q) <= AskedIn(mail, job, q)
              /\ AskedIn(mail', job', q) \in Nat /\ AskedIn(mail, job, q) \in Nat
              /\ job'[q].phase # "none" => rec'[q] # "absent"
              /\ job'[q].phase = "compiling" /\ job'[q].held => rec'[q] = "created"
  <2>1. /\ CountOf(mail, Asks(q)) \in Nat /\ CountOf(mail', Asks(q)) \in Nat
        /\ CountOf(mail', Asks(q)) <= CountOf(mail, Asks(q))
    BY <1>4, <1>24 DEF Counts, NoMore
  <2>2. job'[q].phase = job[q].phase /\ (job'[q].held => job[q].held /\ q # p)
    BY <1>13
  <2>3. q # p => rec'[q] = rec[q]
    BY <1>3, <1>6 DEF Task
  <2>4. QED
    BY <1>6, <2>1, <2>2, <2>3, SoundNow DEF AskedIn, One
<1>19. ASSUME NEW q \in Prints
       PROVE  /\ Away(mail', wire', drv'.spool, m', q) <= Away(mail, wire, drv.spool, m, q)
              /\ Away(mail', wire', drv'.spool, m', q) \in Nat
  <2>1. /\ CountOf(mail, Answers(q)) \in Nat /\ CountOf(mail', Answers(q)) \in Nat
        /\ CountOf(mail', Answers(q)) <= CountOf(mail, Answers(q))
    BY <1>4, <1>24 DEF Counts, NoMore
  <2>2. CountOf(wire', OnWire(q)) \in Nat /\ CountOf(wire', OnWire(q)) <= CountOf(wire, OnWire(q))
    BY <1>11
  <2>3. CountOf(wire, OnWire(q)) \in Nat /\ CountOf(drv.spool, {q}) \in Nat /\ drv'.spool = drv.spool
    BY <1>4, <1>5, PlacesAreNat
  <2>4. One(m'.saved = q) = 0 /\ One(m.saved = q) \in Nat
    BY <1>12, TasksAssumption DEF One, Task
  <2>5. QED
    BY <2>1, <2>2, <2>3, <2>4 DEF Away
<1>20. Sound'
  <2>1. ASSUME NEW q \in Prints PROVE AskedIn(mail', job', q) <= 1
    <3>1. AskedIn(mail, job, q) <= 1
      BY SoundNow
    <3>2. QED
      BY <1>18, <3>1
  <2>2. ASSUME NEW t \in Task
        PROVE  /\ rec'[t] \in {"finished", "cancelled"} => t \in sent'
               /\ t \in sent' => rec'[t] # "absent"
    <3>1. CASE t \in {p, hook}
      BY <1>6, <1>7, <3>1
    <3>2. CASE t \notin {p, hook}
      BY <1>6, <1>8, <3>2, SoundNow
    <3>3. QED
      BY <3>1, <3>2
  <2>3. ASSUME ~crossed', NEW q \in Prints
        PROVE  /\ AskedIn(mail', job', q) + Away(mail', wire', drv'.spool, m', q) <= 1
               /\ q \in sent' => AskedIn(mail', job', q) = 0
    <3>1. /\ AskedIn(mail, job, q) + Away(mail, wire, drv.spool, m, q) <= 1
          /\ q \in sent => AskedIn(mail, job, q) = 0
          /\ Away(mail, wire, drv.spool, m, q) \in Nat
      BY <1>5, <2>3, SoundNow
    <3>2. /\ AskedIn(mail', job', q) <= AskedIn(mail, job, q)
          /\ AskedIn(mail', job', q) \in Nat /\ AskedIn(mail, job, q) \in Nat
      BY <1>18
    <3>3. /\ Away(mail', wire', drv'.spool, m', q) <= Away(mail, wire, drv.spool, m, q)
          /\ Away(mail', wire', drv'.spool, m', q) \in Nat
      BY <1>19
    <3>4. q \in sent' => q \in sent
      BY <1>3, <1>8 DEF Task
    <3>5. QED
      BY <3>1, <3>2, <3>3, <3>4
  <2>4. QED
    BY <1>15, <1>17, <1>18, <2>1, <2>2, <2>3, SoundNext
<1>21. IInv'
  <2>1. Alive(m', mail', retry')
    <3>1. retry' = retry
      BY <1>5
    <3>2. QED
      BY <1>4, <1>10, <1>12, <3>1 DEF Alive, StillWaits
  <2>2. QED
    BY <1>20, <2>1, IInvIs
<1>22. ASSUME NEW t \in Task PROVE Goes(t)
  <2>1. CASE t = hook
    <3>1. credit'[t] = credit[t] + One(~okHook)
      BY <1>14, <2>1 DEF One
    <3>2. CASE okHook
      <4>1. rec'[t] = "sent" /\ rec[t] = "absent" /\ t \in sent'
        BY <1>3, <1>6, <1>8, <2>1, <3>2 DEF s
      <4>2. credit'[t] = credit[t]
        BY <1>4, <3>1, <3>2 DEF One
      <4>3. QED
        BY <4>1, <4>2 DEF Goes
    <3>3. CASE ~okHook
      <4>1. rec'[t] = "created" /\ rec[t] = "absent" /\ t \notin sent' /\ t \notin sent
        BY <1>3, <1>6, <1>8, <2>1, <3>3 DEF s
      <4>2. credit'[t] = credit[t] + 1
        BY <3>1, <3>3 DEF One
      <4>3. QED
        BY <4>1, <4>2 DEF Goes, MovesTo, SpendsTo
    <3>4. QED
      BY <3>2, <3>3
  <2>2. CASE t # hook
    <3>1. credit'[t] = credit[t] /\ (t \in sent' <=> t \in sent)
      BY <1>4, <1>8, <1>14, <2>2 DEF One
    <3>2. CASE t = p
      BY <1>16, <1>6, <3>1, <3>2 DEF Goes, MovesTo, SpendsTo, Pending
    <3>3. CASE t # p
      BY <1>6, <2>2, <3>1, <3>3, GoesNowhere
    <3>4. QED
      BY <3>2, <3>3
  <2>3. QED
    BY <2>1, <2>2
<1>23. QED
  BY <1>21, <1>22, StepsAre

LEMMA SendResultsAre == TypeOK => SendResults \subseteq BOOLEAN
BY DEF SendResults, TypeOK, Machines

LEMMA HandlePauseKeeps ==
  ASSUME IInv, HandlePause
  PROVE  IInv' /\ (Records!Step \/ UNCHANGED <<rec, credit, sent>>)
<1> DEFINE e == Head(mail)
           p == e.task
<1>1. /\ mail # <<>> /\ e.type = "Pause" /\ SendResults \subseteq BOOLEAN
      /\ UNCHANGED <<resuming, retry, drv, parted, crossed, ops, faults>>
  BY SendResultsAre DEF HandlePause, Receives, bounds, IInv
<1>2. CASE Refuse /\ UNCHANGED job
  <2>1. mail' = Tail(mail) /\ UNCHANGED <<rec, m, wire, credit, sent, parted, crossed>>
    BY <1>2 DEF Refuse, history
  <2>2. IInv'
    BY <1>1, <1>2, <2>1, HandsOn
  <2>3. QED
    BY <2>1, <2>2
<1>3. CASE /\ rec[p] \notin Final \cup {"paused"}
           /\ \E hook \in NewInline, ok \in SendResults, okHook \in SendResults :
                /\ m' = Printing(m, p, TRUE)
                /\ rec' = [rec EXCEPT ![p] = "paused",
                                      ![hook] = IF okHook THEN "sent" ELSE "created"]
                /\ wire' = Sent(PauseSends(p, hook, ok, okHook))
                /\ LET rest == StaleIn({p}, Tail(mail))
                   IN  IF ok /\ okHook THEN mail' = rest
                       ELSE IF ok \/ okHook THEN StopActor(rest)
                       ELSE mail' = rest \o <<Msg("Stop"), Msg("Stop")>>
                /\ credit' = [credit EXCEPT ![hook] = IF okHook THEN @ ELSE @ + 1]
                /\ sent' = IF okHook THEN sent \cup {hook} ELSE sent
                /\ job' = StaleJobs({p}, job)
  <2>1. PICK hook \in NewInline, ok \in SendResults, okHook \in SendResults :
          /\ m' = Printing(m, p, TRUE)
          /\ rec' = [rec EXCEPT ![p] = "paused",
                                ![hook] = IF okHook THEN "sent" ELSE "created"]
          /\ wire' = Sent(PauseSends(p, hook, ok, okHook))
          /\ LET rest == StaleIn({p}, Tail(mail))
             IN  IF ok /\ okHook THEN mail' = rest
                 ELSE IF ok \/ okHook THEN StopActor(rest)
                 ELSE mail' = rest \o <<Msg("Stop"), Msg("Stop")>>
          /\ credit' = [credit EXCEPT ![hook] = IF okHook THEN @ ELSE @ + 1]
          /\ sent' = IF okHook THEN sent \cup {hook} ELSE sent
          /\ job' = StaleJobs({p}, job)
    BY <1>3
  <2> DEFINE rest == Tail(mail)
             box == StaleIn({p}, rest)
  <2>2. rest \in Seq(Messages(rec, sent))
    BY <1>1, ReceivesHead
  <2> HIDE DEF e, rest
  <2>3. box \in Seq(Messages(rec, sent))
    <3>1. Moved(rec, rec, sent, sent, {p})
      BY DEF Moved
    <3>2. QED
      BY <2>2, <3>1, StaleMail
  <2>4. \/ mail' = box \/ mail' = Append(box, Msg("Stop"))
        \/ mail' = box \o <<Msg("Stop"), Msg("Stop")>>
    BY <2>1 DEF StopActor, rest
  <2> HIDE DEF box
  <2>5. box = box \o <<>> /\ Append(box, Msg("Stop")) = box \o <<Msg("Stop")>>
    <3>1. Msg("Stop") \in Messages(rec, sent)
      BY NeutralOnes
    <3>2. QED
      BY <2>3, <3>1, ConcatEmptySeq, AppendIsConcat
  <2>6. PICK x \in {<<>>, <<Msg("Stop")>>, <<Msg("Stop"), Msg("Stop")>>} : mail' = box \o x
    BY <2>4, <2>5
  <2>7. ok \in BOOLEAN /\ okHook \in BOOLEAN
    BY <1>1
  <2>8. IInv' /\ Records!Step
    <3>1. PausesBy(hook, ok, okHook, x)
      BY <1>1, <1>3, <2>1, <2>6 DEF PausesBy, e, box, rest
    <3>2. QED
      BY <2>6, <2>7, <3>1, PausesTask
  <2>9. QED
    BY <2>8
<1>4. QED
  <2>1. \E homed \in {FALSE, m.homed} :
          IF ~m.data \/ ~homed \/ rec[p] \in Final \cup {"paused"}
          THEN Refuse /\ UNCHANGED job
          ELSE \E hook \in NewInline, ok \in SendResults, okHook \in SendResults :
                /\ m' = Printing(m, p, TRUE)
                /\ rec' = [rec EXCEPT ![p] = "paused",
                                      ![hook] = IF okHook THEN "sent" ELSE "created"]
                /\ wire' = Sent(PauseSends(p, hook, ok, okHook))
                /\ LET rest == StaleIn({p}, Tail(mail))
                   IN  IF ok /\ okHook THEN mail' = rest
                       ELSE IF ok \/ okHook THEN StopActor(rest)
                       ELSE mail' = rest \o <<Msg("Stop"), Msg("Stop")>>
                /\ credit' = [credit EXCEPT ![hook] = IF okHook THEN @ ELSE @ + 1]
                /\ sent' = IF okHook THEN sent \cup {hook} ELSE sent
                /\ job' = StaleJobs({p}, job)
    BY Zenon DEF HandlePause, PauseSends
  <2>2. QED
    BY <1>2, <1>3, <2>1

\* What is left of the mailbox behind an event that was handled, when the records
\* ts have changed, and possibly a Stop behind it.
Rest(e, was, is) ==
  /\ Counts(was) /\ Counts(is) /\ StillWaits(was, is)
  /\ \A t \in Task : CountOf(was, Carry(t)) = CountOf(is, Carry(t)) + One(e \in Carry(t))
  /\ \A p \in Prints :
       /\ CountOf(was, Asks(p)) = CountOf(is, Asks(p)) + One(e \in Asks(p))
       /\ CountOf(was, Answers(p)) = CountOf(is, Answers(p)) + One(e \in Answers(p))

LEMMA RestOf ==
  ASSUME IInv, mail # <<>>, Head(mail).type \notin {"Connect", "Closed", "Stop"},
         NEW old \in Seq(Messages(rec', sent')),
         SameCounts(old, Tail(mail)), StillWaits(Tail(mail), old),
         NEW box, box = old \/ box = Append(old, Msg("Stop"))
  PROVE  box \in Seq(Messages(rec', sent')) /\ Rest(Head(mail), mail, box)
<1> DEFINE e == Head(mail)
           rest == Tail(mail)
<1>1. /\ rest \in Seq(Messages(rec, sent)) /\ StillWaits(mail, rest)
      /\ \A T : CountOf(mail, T) = CountOf(rest, T) + One(e \in T)
  BY ReceivesHead
<1>3. mail \in Seq(Messages(rec, sent))
  BY SoundNow
<1>4. old \in Seq(Messages(rec', sent')) /\ SameCounts(old, rest) /\ StillWaits(rest, old)
  OBVIOUS
<1> HIDE DEF e, rest
<1>5. box \in Seq(Messages(rec', sent')) /\ SameCounts(box, rest) /\ StillWaits(mail, box)
  <2>1. /\ Append(old, Msg("Stop")) \in Seq(Messages(rec', sent'))
        /\ SameCounts(Append(old, Msg("Stop")), old)
        /\ StillWaits(old, Append(old, Msg("Stop")))
    BY <1>4, AddSignalTo
  <2>2. SameCounts(Append(old, Msg("Stop")), rest)
    BY <1>4, <2>1 DEF SameCounts
  <2>3. StillWaits(mail, old)
    BY <1>1, <1>4, StillWaitsBeyond
  <2>4. StillWaits(mail, Append(old, Msg("Stop")))
    BY <2>1, <2>3, StillWaitsBeyond
  <2>5. QED
    BY <1>4, <2>1, <2>2, <2>3, <2>4
<1>6. Counts(mail) /\ Counts(box)
  BY <1>3, <1>5, CountsAreNat
<1>7. Rest(e, mail, box)
  BY <1>1, <1>5, <1>6 DEF Rest, SameCounts
<1>8. QED
  BY <1>5, <1>7 DEF e

LEMMA RestIs ==
  ASSUME IInv, mail # <<>>, Head(mail).type \notin {"Connect", "Closed", "Stop"},
         NEW ts, NEW box,
         Moved(rec, rec', sent, sent', ts),
         box = StaleIn(ts, Tail(mail)) \/ box = Append(StaleIn(ts, Tail(mail)), Msg("Stop"))
  PROVE  box \in Seq(Messages(rec', sent')) /\ Rest(Head(mail), mail, box)
<1> DEFINE rest == Tail(mail)
           old == StaleIn(ts, rest)
<1>1. rest \in Seq(Messages(rec, sent))
  BY ReceivesHead
<1> HIDE DEF rest
<1>2. old \in Seq(Messages(rec', sent')) /\ SameCounts(old, rest) /\ StillWaits(rest, old)
  BY <1>1, StaleMail
<1>3. box = old \/ box = Append(old, Msg("Stop"))
  BY DEF rest
<1> HIDE DEF old
<1>4. QED
  BY <1>2, <1>3, RestOf DEF rest

\* The same where the copies of more are one update later still.
LEMMA RestTwice ==
  ASSUME IInv, mail # <<>>, Head(mail).type \notin {"Connect", "Closed", "Stop"},
         NEW ts, NEW more, NEW box,
         Moved(rec, rec', sent, sent', ts),
         \/ box = StaleIn(more, StaleIn(ts, Tail(mail)))
         \/ box = Append(StaleIn(more, StaleIn(ts, Tail(mail))), Msg("Stop"))
  PROVE  box \in Seq(Messages(rec', sent')) /\ Rest(Head(mail), mail, box)
<1> DEFINE rest == Tail(mail)
           one == StaleIn(ts, rest)
           old == StaleIn(more, one)
<1>1. rest \in Seq(Messages(rec, sent))
  BY ReceivesHead
<1> HIDE DEF rest
<1>2. one \in Seq(Messages(rec', sent')) /\ SameCounts(one, rest) /\ StillWaits(rest, one)
  BY <1>1, StaleMail
<1>3. box = old \/ box = Append(old, Msg("Stop"))
  BY DEF rest
<1> HIDE DEF one
<1>4. Moved(rec', rec', sent', sent', more)
  BY DEF Moved
<1>5. old \in Seq(Messages(rec', sent')) /\ SameCounts(old, one) /\ StillWaits(one, old)
  BY <1>2, <1>4, StaleMail
<1> HIDE DEF old
<1>6. SameCounts(old, rest) /\ StillWaits(rest, old)
  BY <1>2, <1>5, StillWaitsBeyond DEF SameCounts
<1>7. QED
  BY <1>3, <1>5, <1>6, RestOf DEF rest

\* What a resume sends: the first n of the warm-up, the hook and the print.
InOrder(warm, hook, p) == <<warm, hook, p>>
ResumeSends(warm, hook, p, n) == [i \in 1 .. n |-> SpoolMsg(InOrder(warm, hook, p)[i], FALSE)]
FirstOf(warm, hook, p, n) == {InOrder(warm, hook, p)[i] : i \in 1 .. n}

LEMMA FirstAre ==
  ASSUME NEW warm, NEW hook, NEW p, NEW n \in 0 .. 3
  PROVE  /\ FirstOf(warm, hook, p, n) \subseteq {warm, hook, p}
         /\ n = 0 => FirstOf(warm, hook, p, n) = {}
         /\ n > 0 => warm \in FirstOf(warm, hook, p, n)
         /\ n = 3 => FirstOf(warm, hook, p, n) = {warm, hook, p}
         /\ n # 3 => FirstOf(warm, hook, p, n) \subseteq {warm, hook}
<1> DEFINE o == InOrder(warm, hook, p)
<1>1. o[1] = warm /\ o[2] = hook /\ o[3] = p
  BY DEF InOrder
<1>2. FirstOf(warm, hook, p, n) = {o[i] : i \in 1 .. n}
  BY DEF FirstOf
<1> HIDE DEF o
<1>3. CASE n = 0
  BY <1>2, <1>3
<1>4. CASE n = 1
  <2>1. 1 .. n = {1}
    BY <1>4
  <2>2. QED
    BY <1>1, <1>2, <1>4, <2>1
<1>5. CASE n = 2
  <2>1. 1 .. n = {1, 2}
    BY <1>5
  <2>2. QED
    BY <1>1, <1>2, <1>5, <2>1
<1>6. CASE n = 3
  <2>1. 1 .. n = {1, 2, 3}
    BY <1>6
  <2>2. QED
    BY <1>1, <1>2, <1>6, <2>1
<1>7. QED
  BY <1>3, <1>4, <1>5, <1>6

LEMMA ResumeSendsType ==
  ASSUME NEW S \in SUBSET Task, wire \in Seq(Wires(S)), NEW n \in 0 .. 3, NEW p \in Prints,
         NEW warm \in Inlines, NEW hook \in Inlines, FirstOf(warm, hook, p, n) \subseteq S
  PROVE  /\ Sent(ResumeSends(warm, hook, p, n)) \in Seq(Wires(S))
         /\ \A q \in Prints :
              /\ CountOf(Sent(ResumeSends(warm, hook, p, n)), OnWire(q)) \in Nat
              /\ CountOf(Sent(ResumeSends(warm, hook, p, n)), OnWire(q))
                   <= CountOf(wire, OnWire(q)) + One(q = p /\ n = 3)
<1> DEFINE o == InOrder(warm, hook, p)
           x == ResumeSends(warm, hook, p, n)
<1>1. o[1] = warm /\ o[2] = hook /\ o[3] = p
  BY DEF InOrder
<1>2. /\ Len(x) = n /\ DOMAIN x = 1 .. n
      /\ \A i \in 1 .. n : x[i] = SpoolMsg(o[i], FALSE)
  BY DEF ResumeSends
<1>3. \A i \in 1 .. n : o[i] \in S
  BY DEF FirstOf
<1> HIDE DEF o
<1>4. \A i \in 1 .. n : /\ x[i] \in Wires(S)
                        /\ \A q \in Prints : x[i] \in OnWire(q) <=> q = o[i]
  <2>1. SUFFICES ASSUME NEW i \in 1 .. n
                 PROVE  /\ x[i] \in Wires(S)
                        /\ \A q \in Prints : x[i] \in OnWire(q) <=> q = o[i]
    OBVIOUS
  <2>2. o[i] \in S /\ x[i] = SpoolMsg(o[i], FALSE)
    BY <1>2, <1>3
  <2> DEFINE t == o[i]
  <2>3. t \in S /\ x[i] = SpoolMsg(t, FALSE)
    BY <2>2
  <2> HIDE DEF t
  <2>4. /\ SpoolMsg(t, FALSE) \in Wires(S)
        /\ \A q \in Prints : SpoolMsg(t, FALSE) \in OnWire(q) <=> q = t
    BY <2>3, SpoolMsgIs
  <2>5. QED
    BY <2>3, <2>4 DEF t
<1>5. x \in Seq(Wires(S))
  <2>1. x = [i \in 1 .. n |-> x[i]]
    BY DEF ResumeSends
  <2> HIDE DEF x
  <2>2. QED
    BY <1>4, <2>1
<1> HIDE DEF x
<1>6. /\ Sent(x) \in Seq(Wires(S))
      /\ \A T : /\ CountOf(Sent(x), T) \in Nat /\ CountOf(wire, T) \in Nat /\ CountOf(x, T) \in Nat
                /\ CountOf(Sent(x), T) <= CountOf(wire, T) + CountOf(x, T)
  BY <1>5, SentType
<1>7. ASSUME NEW q \in Prints PROVE CountOf(x, OnWire(q)) = One(q = p /\ n = 3)
  <2>1. q # warm /\ q # hook
    BY TasksAssumption
  <2>2. CASE q = p /\ n = 3
    <3>1. {i \in 1 .. Len(x) : x[i] \in OnWire(q)} = {3}
      <4>1. ASSUME NEW i \in 1 .. n PROVE x[i] \in OnWire(q) <=> i = 3
        <5>1. i = 1 \/ i = 2 \/ i = 3
          BY <2>2
        <5>2. x[i] \in OnWire(q) <=> q = o[i]
          BY <1>4
        <5>3. QED
          BY <1>1, <2>1, <2>2, <5>1, <5>2
      <4>2. Len(x) = n /\ 3 \in 1 .. n
        BY <1>2, <2>2
      <4>3. QED
        BY <4>1, <4>2
    <3>2. QED
      BY <2>2, <3>1, FS_Singleton DEF CountOf, One
  <2>3. CASE ~(q = p /\ n = 3)
    <3>1. ASSUME NEW i \in 1 .. n PROVE x[i] \notin OnWire(q)
      <4>1. i = 1 \/ i = 2 \/ (i = 3 /\ n = 3)
        OBVIOUS
      <4>2. x[i] \in OnWire(q) <=> q = o[i]
        BY <1>4
      <4>3. QED
        BY <1>1, <2>1, <2>3, <4>1, <4>2
    <3>2. CountOf(x, OnWire(q)) = 0
      BY <1>2, <1>5, <3>1, CountNone
    <3>3. QED
      BY <2>3, <3>2 DEF One
  <2>4. QED
    BY <2>2, <2>3
<1>8. ASSUME NEW q \in Prints
      PROVE  /\ CountOf(Sent(x), OnWire(q)) \in Nat
             /\ CountOf(Sent(x), OnWire(q)) <= CountOf(wire, OnWire(q)) + One(q = p /\ n = 3)
  BY <1>6, <1>7
<1>9. QED
  BY <1>6, <1>8 DEF x

\* ResumeTask, that sends the first n.
Fresh(warm) ==
  {warm} \cup (IF Head(mail).freshHook THEN {Head(mail).hook} ELSE {})
         \cup (IF Head(mail).fresh THEN {Head(mail).task} ELSE {})

ResumesBy(warm, n) ==
  LET e    == Head(mail)
      done == FirstOf(warm, e.hook, e.task, n)
      ts   == done \cap Fresh(warm)
  IN  /\ mail # <<>> /\ e.type = "Resume"
      /\ rec' = [t \in Task |-> IF t \in ts THEN "sent"
                                ELSE IF t = warm THEN "created" ELSE rec[t]]
      /\ wire' = Sent(ResumeSends(warm, e.hook, e.task, n))
      /\ sent' = sent \cup done
      /\ credit' = [t \in Task |-> credit[t] + (IF t = warm THEN 1 ELSE 0)
                                             - (IF t \in done THEN 1 ELSE 0)]
      /\ mail' = IF n = 3 THEN StaleIn(ts, Tail(mail))
                 ELSE Append(StaleIn(ts, Tail(mail)), Msg("Stop"))
      /\ m' = IF n = 3 THEN Printing(m, e.task, FALSE) ELSE [m EXCEPT !.saved = NoTask]
      /\ job' = StaleJobs(ts, job)
      /\ parted' = (parted \/ ~e.fresh \/ ~e.freshHook)
      /\ crossed' = (crossed \/ m.saved # e.task)
      /\ UNCHANGED <<resuming, retry, drv, ops, faults>>

LEMMA ResumesTask ==
  ASSUME IInv, NEW warm \in NewInline, NEW n \in 0 .. 3, ResumesBy(warm, n)
  PROVE  IInv' /\ Records!Step
<1> DEFINE e == Head(mail)
           p == e.task
           hook == e.hook
           done == FirstOf(warm, hook, p, n)
           ts == done \cap Fresh(warm)
<1>1. /\ mail # <<>> /\ e.type = "Resume" /\ e \in Mailable /\ Names(e, rec, sent)
  BY ReceivesHead DEF ResumesBy
<1>2. /\ p \in Prints /\ hook \in Inlines /\ p \in Task /\ hook \in Task /\ hook \notin Prints
      /\ e.fresh \in BOOLEAN /\ e.freshHook \in BOOLEAN
      /\ rec[p] # "absent" /\ rec[hook] # "absent"
      /\ e.fresh => rec[p] = "created"
      /\ e.freshHook => rec[hook] = "created"
  <2>1. e \in Resumes
    BY <1>1, MailableByType
  <2>2. QED
    BY <1>1, <2>1, TasksAssumption DEF Resumes, Task, Names
<1>3. /\ warm \in Inlines /\ warm \in Task /\ warm \notin Prints /\ rec[warm] = "absent"
      /\ warm \notin sent /\ warm # hook /\ warm # p /\ hook # p
  BY <1>2, NewInlineIs
<1>4. /\ TypeOK /\ mail \in Seq(Messages(rec, sent)) /\ Counts(mail) /\ Sound /\ Alive(m, mail, retry)
      /\ wire \in Seq(Wires(sent)) /\ sent \subseteq Task /\ m \in Machines(sent)
      /\ drv \in Drivers(sent) /\ credit \in [Task -> Int] /\ job \in [Prints -> Jobs]
      /\ rec \in [Task -> Statuses]
  BY SoundNow DEF TypeOK
<1>5. /\ rec' = [t \in Task |-> IF t \in ts THEN "sent"
                                ELSE IF t = warm THEN "created" ELSE rec[t]]
      /\ wire' = Sent(ResumeSends(warm, hook, p, n)) /\ sent' = sent \cup done
      /\ credit' = [t \in Task |-> credit[t] + (IF t = warm THEN 1 ELSE 0)
                                             - (IF t \in done THEN 1 ELSE 0)]
      /\ m' = (IF n = 3 THEN Printing(m, p, FALSE) ELSE [m EXCEPT !.saved = NoTask])
      /\ job' = StaleJobs(ts, job) /\ parted' = (parted \/ ~e.fresh \/ ~e.freshHook)
      /\ crossed' = (crossed \/ m.saved # p)
      /\ retry' = retry /\ drv' = drv /\ UNCHANGED <<resuming, ops, faults>>
      /\ mail' = StaleIn(ts, Tail(mail)) \/ mail' = Append(StaleIn(ts, Tail(mail)), Msg("Stop"))
  BY DEF ResumesBy
<1>6. /\ e \in Carry(p) /\ e \in Carry(hook) /\ e \notin Carry(warm)
      /\ \A t \in Task : e \in Carry(t) <=> t \in {p, hook}
      /\ \A q \in Prints : e \notin Asks(q) /\ e \notin Answers(q)
  BY <1>1, <1>2, <1>3 DEF Carry, Asks, Answers
<1>7. /\ ts \subseteq done /\ ts \subseteq {warm, hook, p} /\ (warm \in done => warm \in ts)
      /\ hook \in ts => rec[hook] = "created"
      /\ p \in ts => rec[p] = "created"
  <2>1. Fresh(warm) = {warm} \cup (IF e.freshHook THEN {hook} ELSE {}) \cup (IF e.fresh THEN {p} ELSE {})
    BY DEF Fresh
  <2> HIDE DEF e, p, hook, done
  <2>2. QED
    BY <1>2, <1>3, <2>1
<1>8. /\ done \subseteq {warm, hook, p}
      /\ n = 0 => done = {}
      /\ n > 0 => warm \in done
      /\ n # 3 => done \subseteq {warm, hook}
      /\ n = 3 => p \in done
  <2> HIDE DEF e, p, hook
  <2>1. QED
    BY FirstAre
<1> HIDE DEF e, p, hook, done, ts
<1>9. /\ rec' \in [Task -> Statuses]
      /\ \A t \in ts : rec'[t] = "sent"
      /\ warm \notin ts => rec'[warm] = "created"
      /\ \A t \in Task : t \notin ts \cup {warm} => rec'[t] = rec[t]
  <2>1. {"sent", "created"} \subseteq Statuses /\ ts \subseteq Task
    BY <1>2, <1>3, <1>7 DEF Statuses, Pending
  <2>2. QED
    BY <1>3, <1>4, <1>5, <2>1
<1>10. /\ sent \subseteq sent' /\ sent' \in SUBSET Task /\ done \subseteq sent'
       /\ \A t \in Task : t \notin done => (t \in sent' <=> t \in sent)
  BY <1>2, <1>3, <1>4, <1>5, <1>8
<1>11. mail' \in Seq(Messages(rec', sent')) /\ Rest(e, mail, mail')
  <2>1. Moved(rec, rec', sent, sent', ts)
    <3>1. ASSUME NEW t \in Task
          PROVE  /\ rec[t] # "absent" => rec'[t] # "absent"
                 /\ t \notin ts /\ rec[t] = "created" => rec'[t] = "created"
      BY <1>3, <1>9
    <3>2. QED
      BY <1>10, <3>1 DEF Moved
  <2>2. e.type \notin {"Connect", "Closed", "Stop"}
    BY <1>1
  <2> DEFINE box == mail'
  <2>3. box = StaleIn(ts, Tail(mail)) \/ box = Append(StaleIn(ts, Tail(mail)), Msg("Stop"))
    BY <1>5
  <2> HIDE DEF box
  <2>4. box \in Seq(Messages(rec', sent')) /\ Rest(Head(mail), mail, box)
    BY <1>1, <2>1, <2>2, <2>3, RestIs DEF e
  <2>5. QED
    BY <2>4 DEF box, e
<1>12. /\ wire' \in Seq(Wires(sent'))
       /\ \A q \in Prints : /\ CountOf(wire', OnWire(q)) \in Nat
                            /\ CountOf(wire', OnWire(q)) <= CountOf(wire, OnWire(q)) + One(q = p /\ n = 3)
  <2> DEFINE S == sent'
             w == Sent(ResumeSends(warm, hook, p, n))
  <2>1. S \in SUBSET Task /\ wire \in Seq(Wires(S)) /\ wire' = w /\ FirstOf(warm, hook, p, n) \subseteq S
    BY <1>4, <1>5, <1>10, GrowsWithSent DEF done
  <2> HIDE DEF S
  <2>2. /\ w \in Seq(Wires(S))
        /\ \A q \in Prints : /\ CountOf(w, OnWire(q)) \in Nat
                             /\ CountOf(w, OnWire(q)) <= CountOf(wire, OnWire(q)) + One(q = p /\ n = 3)
    BY <1>2, <1>3, <2>1, ResumeSendsType
  <2> HIDE DEF w
  <2>3. QED
    BY <2>1, <2>2 DEF S
<1>13. /\ m' \in Machines(sent') /\ m'.saved = NoTask /\ m'.conn = m.conn /\ m'.attempting = m.attempting
       /\ drv' \in Drivers(sent')
  <2> DEFINE S == sent'
             a == Printing(m, p, FALSE)
             b == [m EXCEPT !.saved = NoTask]
  <2>1. m \in Machines(S) /\ drv \in Drivers(S)
    BY <1>4, <1>10, GrowsWithSent
  <2> HIDE DEF S
  <2>2. /\ a \in Machines(S) /\ a.saved = NoTask /\ a.conn = m.conn /\ a.attempting = m.attempting
    BY <1>2, <2>1, PrintingIs
  <2>3. /\ b \in Machines(S) /\ b.saved = NoTask /\ b.conn = m.conn /\ b.attempting = m.attempting
    BY <2>1 DEF Machines, Maybe
  <2>4. m' = a \/ m' = b
    BY <1>5
  <2>5. drv' = drv
    BY <1>5
  <2> HIDE DEF a, b
  <2>6. QED
    BY <2>1, <2>2, <2>3, <2>4, <2>5 DEF S
<1>14. /\ job' \in [Prints -> Jobs]
       /\ \A q \in Prints : job'[q].phase = job[q].phase /\ (job'[q].held => job[q].held /\ q \notin ts)
  <2>1. job \in [Prints -> Jobs] /\ job' = StaleJobs(ts, job)
    BY <1>4, <1>5
  <2>2. QED
    BY <2>1 DEF StaleJobs, Jobs
<1>15. /\ credit' \in [Task -> Int]
       /\ \A t \in Task : credit'[t] = credit[t] + One(t = warm) - One(t \in done)
  BY <1>4, <1>5 DEF One
<1>16. TypeOK'
  <2>1. parted' \in BOOLEAN /\ crossed' \in BOOLEAN
    BY <1>2, <1>4, <1>5 DEF TypeOK
  <2>2. QED
    BY <1>4, <1>5, <1>9, <1>10, <1>11, <1>12, <1>13, <1>14, <1>15, <2>1 DEF TypeOK
<1>17. ASSUME NEW t \in Task PROVE Load(mail', job', t) <= credit'[t]
  <2>1. Load(mail, job, t) <= credit[t] /\ credit[t] \in Nat
    BY SoundNow
  <2>2. /\ CountOf(mail, Carry(t)) \in Nat /\ CountOf(mail', Carry(t)) \in Nat
        /\ CountOf(mail, Carry(t)) = CountOf(mail', Carry(t)) + One(t \in {p, hook})
    BY <1>6, <1>11 DEF Rest, Counts, One
  <2>3. One(t \in Prints /\ job'[t].phase = "compiling") = One(t \in Prints /\ job[t].phase = "compiling")
    BY <1>14 DEF One
  <2>4. /\ Load(mail, job, t) = Load(mail', job', t) + One(t \in {p, hook})
        /\ Load(mail', job', t) \in Nat
    BY <2>2, <2>3 DEF Load, One
  <2>5. credit'[t] = credit[t] + One(t = warm) - One(t \in done)
    BY <1>15
  <2>6. One(t \in done) <= One(t = warm) + One(t \in {p, hook})
    BY <1>8 DEF One
  <2>7. One(t \in done) \in Nat /\ One(t = warm) \in Nat /\ One(t \in {p, hook}) \in Nat
    BY DEF One
  <2>8. QED
    BY <2>1, <2>4, <2>5, <2>6, <2>7
<1>18. ASSUME NEW q \in Prints
       PROVE  /\ AskedIn(mail', job', q) = AskedIn(mail, job, q)
              /\ AskedIn(mail, job, q) \in Nat
              /\ job'[q].phase # "none" => rec'[q] # "absent"
              /\ job'[q].phase = "compiling" /\ job'[q].held => rec'[q] = "created"
  <2>1. CountOf(mail, Asks(q)) \in Nat /\ CountOf(mail', Asks(q)) = CountOf(mail, Asks(q))
    BY <1>6, <1>11 DEF Rest, Counts, One
  <2>2. job'[q].phase = job[q].phase /\ (job'[q].held => job[q].held /\ q \notin ts)
    BY <1>14
  <2>3. q \notin ts => rec'[q] = rec[q]
    BY <1>3, <1>9 DEF Task
  <2>4. q \in ts => rec'[q] = "sent"
    BY <1>9
  <2>5. QED
    BY <2>1, <2>2, <2>3, <2>4, SoundNow DEF AskedIn, One
<1>19. ASSUME m.saved = p, NEW q \in Prints
       PROVE  /\ Away(mail', wire', drv'.spool, m', q) <= Away(mail, wire, drv.spool, m, q)
              /\ Away(mail', wire', drv'.spool, m', q) \in Nat
  <2>1. /\ CountOf(mail, Answers(q)) \in Nat /\ CountOf(mail', Answers(q)) = CountOf(mail, Answers(q))
    BY <1>6, <1>11 DEF Rest, Counts, One
  <2>2. /\ CountOf(wire', OnWire(q)) \in Nat
        /\ CountOf(wire', OnWire(q)) <= CountOf(wire, OnWire(q)) + One(q = p /\ n = 3)
    BY <1>12
  <2>3. CountOf(wire, OnWire(q)) \in Nat /\ CountOf(drv.spool, {q}) \in Nat /\ drv'.spool = drv.spool
    BY <1>4, <1>5, PlacesAreNat
  <2>4. One(m'.saved = q) = 0 /\ One(m.saved = q) = One(q = p)
    BY <1>13, <1>19, TasksAssumption DEF One, Task
  <2>5. One(q = p /\ n = 3) <= One(q = p) /\ One(q = p /\ n = 3) \in Nat /\ One(q = p) \in Nat
    BY DEF One
  <2>6. QED
    BY <2>1, <2>2, <2>3, <2>4, <2>5 DEF Away
<1>20. Sound'
  <2>1. ASSUME NEW q \in Prints PROVE AskedIn(mail', job', q) <= 1
    <3>1. AskedIn(mail, job, q) <= 1
      BY SoundNow
    <3>2. QED
      BY <1>18, <3>1
  <2>2. ASSUME NEW t \in Task
        PROVE  /\ rec'[t] \in {"finished", "cancelled"} => t \in sent'
               /\ t \in sent' => rec'[t] # "absent"
    <3>1. CASE t \in ts \cup {warm}
      <4>1. rec'[t] \in {"sent", "created"}
        BY <1>9, <3>1
      <4>2. QED
        BY <4>1
    <3>2. CASE t \notin ts \cup {warm}
      <4>1. rec'[t] = rec[t] /\ (rec[t] = "absent" => t \notin done)
        BY <1>2, <1>8, <1>9, <3>2
      <4>2. QED
        BY <1>10, <4>1, SoundNow
    <3>3. QED
      BY <3>1, <3>2
  <2>3. ASSUME ~crossed', NEW q \in Prints
        PROVE  /\ AskedIn(mail', job', q) + Away(mail', wire', drv'.spool, m', q) <= 1
               /\ q \in sent' => AskedIn(mail', job', q) = 0
    <3>0. ~crossed /\ m.saved = p
      BY <1>5, <2>3
    <3>1. /\ AskedIn(mail, job, q) + Away(mail, wire, drv.spool, m, q) <= 1
          /\ q \in sent => AskedIn(mail, job, q) = 0
          /\ Away(mail, wire, drv.spool, m, q) \in Nat
      BY <3>0, SoundNow
    <3>2. /\ AskedIn(mail', job', q) = AskedIn(mail, job, q) /\ AskedIn(mail, job, q) \in Nat
      BY <1>18
    <3>3. /\ Away(mail', wire', drv'.spool, m', q) <= Away(mail, wire, drv.spool, m, q)
          /\ Away(mail', wire', drv'.spool, m', q) \in Nat
      BY <1>19, <3>0
    <3>4. q \in sent' => q \in sent
      <4>1. p \in sent
        BY <1>2, <1>4, <3>0, TasksAssumption DEF Machines, Maybe, Task
      <4>2. q # warm /\ q # hook
        BY <1>2, <1>3
      <4>3. QED
        BY <1>8, <1>10, <4>1, <4>2 DEF Task
    <3>5. QED
      BY <3>1, <3>2, <3>3, <3>4
  <2>4. QED
    BY <1>16, <1>17, <1>18, <2>1, <2>2, <2>3, SoundNext
<1>21. IInv'
  <2>1. Alive(m', mail', retry')
    BY <1>4, <1>5, <1>11, <1>13 DEF Alive, StillWaits, Rest
  <2>2. QED
    BY <1>20, <2>1, IInvIs
<1>22. ASSUME NEW t \in Task PROVE Goes(t)
  <2>0. credit'[t] = credit[t] + One(t = warm) - One(t \in done) /\ credit[t] \in Int
    BY <1>4, <1>15
  <2>1. CASE t = warm
    <3>1. CASE n = 0
      <4>1. warm \notin done /\ warm \notin ts
        BY <1>7, <1>8, <3>1
      <4>2. rec'[t] = "created" /\ rec[t] = "absent" /\ (t \in sent' <=> t \in sent)
        BY <1>3, <1>9, <1>10, <2>1, <4>1
      <4>3. credit'[t] = credit[t] + 1
        BY <2>0, <2>1, <4>1 DEF One
      <4>4. QED
        BY <4>2, <4>3 DEF Goes, MovesTo, SpendsTo
    <3>2. CASE n > 0
      <4>1. warm \in done /\ warm \in ts
        BY <1>7, <1>8, <3>2
      <4>2. rec'[t] = "sent" /\ rec[t] = "absent" /\ t \in sent'
        BY <1>3, <1>9, <1>10, <2>1, <4>1
      <4>3. credit'[t] = credit[t]
        BY <2>0, <2>1, <4>1 DEF One
      <4>4. QED
        BY <4>2, <4>3 DEF Goes
    <3>3. QED
      BY <3>1, <3>2
  <2>2. CASE t \in done /\ t # warm
    <3>1. t \in {p, hook}
      BY <1>8, <2>2
    <3>2. credit[t] > 0
      <4>1. Load(mail, job, t) <= credit[t] /\ credit[t] \in Nat
        BY SoundNow
      <4>2. /\ CountOf(mail, Carry(t)) \in Nat /\ CountOf(mail', Carry(t)) \in Nat
            /\ CountOf(mail, Carry(t)) = CountOf(mail', Carry(t)) + 1
        BY <1>6, <1>11, <3>1 DEF Rest, Counts, One
      <4>3. QED
        BY <4>1, <4>2 DEF Load, One
    <3>3. credit'[t] = credit[t] - 1 /\ t \in sent'
      BY <1>10, <2>0, <2>2 DEF One
    <3>4. MovesTo(rec[t], rec'[t], t \in sent)
      <4>1. CASE t \in ts
        <5>1. rec[t] = "created" /\ rec'[t] = "sent"
          BY <1>7, <1>9, <3>1, <4>1
        <5>2. QED
          BY <5>1 DEF MovesTo, Pending
      <4>2. CASE t \notin ts
        BY <1>9, <2>2, <4>2 DEF MovesTo
      <4>3. QED
        BY <4>1, <4>2
    <3>5. QED
      BY <3>2, <3>3, <3>4 DEF Goes, SpendsTo
  <2>3. CASE t \notin done /\ t # warm
    <3>1. rec'[t] = rec[t] /\ (t \in sent' <=> t \in sent) /\ credit'[t] = credit[t]
      BY <1>7, <1>9, <1>10, <2>0, <2>3 DEF One
    <3>2. QED
      BY <3>1, GoesNowhere
  <2>4. QED
    BY <2>1, <2>2, <2>3
<1>23. QED
  BY <1>21, <1>22, StepsAre

LEMMA HandleResumeKeeps ==
  ASSUME IInv, HandleResume
  PROVE  IInv' /\ (Records!Step \/ UNCHANGED <<rec, credit, sent>>)
<1> DEFINE e == Head(mail)
<1>1. /\ mail # <<>> /\ e.type = "Resume" /\ SendResults \subseteq BOOLEAN
      /\ UNCHANGED <<resuming, retry, drv, ops, faults>>
  BY SendResultsAre DEF HandleResume, Receives, bounds, IInv
<1>2. CASE Refuse /\ UNCHANGED job
  <2>1. mail' = Tail(mail) /\ UNCHANGED <<rec, m, wire, credit, sent, parted, crossed>>
    BY <1>2 DEF Refuse, history
  <2>2. IInv'
    BY <1>1, <1>2, <2>1, HandsOn
  <2>3. QED
    BY <2>1, <2>2
<1>3. CASE \E warm \in NewInline, n \in 0 .. 3 : ResumesBy(warm, n)
  BY <1>3, ResumesTask
<1>4. (Refuse /\ UNCHANGED job) \/ \E warm \in NewInline, n \in 0 .. 3 : ResumesBy(warm, n)
  <2>1. CASE ~(Refuse /\ UNCHANGED job)
    <3>1. PICK warm \in NewInline, n \in {IF ok THEN 3 ELSE 0 : ok \in SendResults}
                                          \cup (IF m.conn = "dead" THEN {1, 2} ELSE {}) :
                LET order == <<warm, e.hook, e.task>>
                    fresh == {warm} \cup (IF e.freshHook THEN {e.hook} ELSE {})
                                    \cup (IF e.fresh THEN {e.task} ELSE {})
                    done  == {order[i] : i \in 1 .. n}
                IN  /\ rec' = [t \in Task |-> IF t \in done \cap fresh THEN "sent"
                                              ELSE IF t = warm THEN "created" ELSE rec[t]]
                    /\ wire' = Sent([i \in 1 .. n |-> SpoolMsg(order[i], FALSE)])
                    /\ sent' = sent \cup done
                    /\ credit' = [t \in Task |->
                         credit[t] + (IF t = warm THEN 1 ELSE 0) - (IF t \in done THEN 1 ELSE 0)]
                    /\ mail' = LET rest == StaleIn(done \cap fresh, Tail(mail))
                               IN  IF n = 3 THEN rest ELSE Append(rest, Msg("Stop"))
                    /\ m' = IF n = 3 THEN Printing(m, e.task, FALSE)
                                     ELSE [m EXCEPT !.saved = NoTask]
                    /\ job' = StaleJobs(done \cap fresh, job)
                    /\ parted' = (parted \/ ~e.fresh \/ ~e.freshHook)
                    /\ crossed' = (crossed \/ m.saved # e.task)
      BY <2>1 DEF HandleResume
    <3>2. n \in 0 .. 3
      OBVIOUS
    <3>3. ResumesBy(warm, n)
      BY <1>1, <3>1 DEF ResumesBy, Fresh, FirstOf, InOrder, ResumeSends
    <3>4. QED
      BY <3>2, <3>3
  <2>2. QED
    BY <2>1
<1>5. QED
  BY <1>2, <1>3, <1>4

-----------------------------------------------------------------------------
(***************************************************************************)
(* A feedback is recorded.                                                 *)
(***************************************************************************)
Deletes == [type : {"DeleteTaskHistory"}, task : Task]

\* What recording a feedback may have done to a record: the print that starts
\* behind another one is inserted, and any other record that changes is touched,
\* was not settled before, and is only settled as ended if it was sent.
Works(next, states) ==
  {w \in [rec : [Task -> Statuses], m : Machines(sent), touched : SUBSET Task,
          again : SUBSET Task, out : Seq(Deletes), next : {NoTask, next},
          auto : {NoTask, next}, failed : BOOLEAN] :
     /\ w.m.conn = m.conn /\ w.m.attempting = m.attempting /\ w.m.saved \in states
     /\ w.auto # NoTask => w.next = NoTask
     /\ \A t \in Task :
          \/ t = w.auto /\ (w.rec[t] = "created" \/ (w.rec[t] = "errored" /\ t \in w.touched))
          \/ t # w.auto /\ w.rec[t] = rec[t]
          \/ /\ t # w.auto /\ t \in w.touched /\ rec[t] \in Pending
             /\ \/ w.rec[t] \in Pending \cup {"errored"}
                \/ w.rec[t] \in Final /\ t \in sent}

Startable(next) == next = NoTask \/ (next \in Prints /\ rec[next] = "absent")

LEMMA WorkIs ==
  ASSUME TypeOK, NEW next, NEW fb
  PROVE  Work(fb, next) \in Works(next, {m.saved, NoTask})
<1>1. rec \in [Task -> Statuses] /\ m \in Machines(sent) /\ <<>> \in Seq(Deletes)
  BY DEF TypeOK
<1>2. \A t \in Task : t # NoTask
  BY TasksAssumption
<1>3. QED
  BY <1>1, <1>2 DEF Work, Works

\* A work whose machine and records are changed as they may be.
LEMMA WorkMoves ==
  ASSUME TypeOK, NEW next, NEW states, NEW w \in Works(next, states),
         NEW r \in [Task -> Statuses], NEW mm \in Machines(sent), NEW ts \in SUBSET Task,
         NEW more,
         mm.conn = w.m.conn, mm.attempting = w.m.attempting, mm.saved \in more,
         \A t \in Task :
            \/ r[t] = w.rec[t]
            \/ t \in ts /\ w.rec[t] \in Pending /\ r[t] = "errored"
            \/ /\ t \in ts /\ w.rec[t] \in Pending /\ t # w.auto
               /\ r[t] \in Pending \/ (r[t] \in Final /\ t \in sent)
  PROVE  [w EXCEPT !.rec = r, !.m = mm, !.touched = @ \cup ts,
                   !.again = @ \cup (ts \cap w.touched)] \in Works(next, more)
<1> DEFINE v == [w EXCEPT !.rec = r, !.m = mm, !.touched = @ \cup ts,
                          !.again = @ \cup (ts \cap w.touched)]
<1>1. /\ w.rec \in [Task -> Statuses] /\ w.touched \subseteq Task /\ w.again \subseteq Task
      /\ w.out \in Seq(Deletes)
      /\ w.next \in {NoTask, next} /\ w.auto \in {NoTask, next} /\ w.failed \in BOOLEAN
      /\ w.m.conn = m.conn /\ w.m.attempting = m.attempting
      /\ w.auto # NoTask => w.next = NoTask
  BY DEF Works
<1>2. /\ v.rec = r /\ v.m = mm /\ v.touched = w.touched \cup ts /\ v.out = w.out
      /\ v.again = w.again \cup (ts \cap w.touched)
      /\ v.next = w.next /\ v.auto = w.auto /\ v.failed = w.failed
      /\ v \in [rec : [Task -> Statuses], m : Machines(sent), touched : SUBSET Task,
                again : SUBSET Task, out : Seq(Deletes), next : {NoTask, next},
                auto : {NoTask, next}, failed : BOOLEAN]
  BY <1>1 DEF Works
<1> HIDE DEF v
<1>3. ASSUME NEW t \in Task
      PROVE  \/ t = v.auto /\ (v.rec[t] = "created" \/ (v.rec[t] = "errored" /\ t \in v.touched))
             \/ t # v.auto /\ v.rec[t] = rec[t]
             \/ /\ t # v.auto /\ t \in v.touched /\ rec[t] \in Pending
                /\ \/ v.rec[t] \in Pending \cup {"errored"}
                   \/ v.rec[t] \in Final /\ t \in sent
  <2>1. \/ t = w.auto /\ (w.rec[t] = "created" \/ (w.rec[t] = "errored" /\ t \in w.touched))
        \/ t # w.auto /\ w.rec[t] = rec[t]
        \/ /\ t # w.auto /\ t \in w.touched /\ rec[t] \in Pending
           /\ \/ w.rec[t] \in Pending \cup {"errored"}
              \/ w.rec[t] \in Final /\ t \in sent
    BY DEF Works
  <2>2. \/ v.rec[t] = w.rec[t]
        \/ t \in ts /\ w.rec[t] \in Pending /\ v.rec[t] = "errored"
        \/ /\ t \in ts /\ w.rec[t] \in Pending /\ t # w.auto
           /\ v.rec[t] \in Pending \/ (v.rec[t] \in Final /\ t \in sent)
    BY <1>2
  <2>3. Pending \cap Final = {}
    BY DEF Pending, Final
  <2>4. w.rec[t] \in Pending /\ t # w.auto => rec[t] \in Pending
    BY <2>1
  <2>5. CASE v.rec[t] = w.rec[t]
    BY <1>2, <2>1, <2>5
  <2>6. CASE t \in ts /\ w.rec[t] \in Pending /\ v.rec[t] = "errored"
    BY <1>2, <2>4, <2>6
  <2>7. CASE /\ t \in ts /\ w.rec[t] \in Pending /\ t # w.auto
             /\ v.rec[t] \in Pending \/ (v.rec[t] \in Final /\ t \in sent)
    BY <1>2, <2>4, <2>7
  <2>8. QED
    BY <2>2, <2>5, <2>6, <2>7
<1>4. v \in Works(next, more)
  BY <1>1, <1>2, <1>3 DEF Works
<1>5. QED
  BY <1>4 DEF v

LEMMA FirstFeedbackIs ==
  ASSUME TypeOK, NEW next, NEW states, NoTask \in states,
         NEW w \in Works(next, states), NEW fb, NEW pick
  PROVE  FirstFeedback(w, fb, pick) \in Works(next, states)
<1> DEFINE running == {t \in Running(w.rec) : w.rec[t] # "created"}
           lost    == running \ Listed(fb)
           kept    == (running \cap Listed(fb)) \cap Prints
           r       == [t \in Task |-> IF t \in lost THEN "errored" ELSE w.rec[t]]
           c       == IF pick \in kept THEN pick ELSE CHOOSE p \in kept : TRUE
           mm      == IF kept = {} THEN w.m ELSE Printing(w.m, c, FALSE)
<1>1. w.rec \in [Task -> Statuses] /\ w.m \in Machines(sent) /\ w.m.saved \in states
  BY DEF Works
<1>2. lost \subseteq Task /\ \A t \in lost : w.rec[t] \in Pending
  BY DEF Running
<1>3. kept # {} => c \in Prints
  OBVIOUS
<1>4. r \in [Task -> Statuses]
  BY <1>1 DEF Statuses, Final
<1>5. FirstFeedback(w, fb, pick) = [w EXCEPT !.rec = r, !.m = mm, !.touched = @ \cup lost,
                                             !.again = @ \cup (lost \cap w.touched)]
  <2>1. w = [w EXCEPT !.rec = w.rec]
    BY DEF Works
  <2>2. QED
    BY DEF FirstFeedback
<1> HIDE DEF lost, kept, c
<1>6. /\ mm \in Machines(sent) /\ mm.conn = w.m.conn /\ mm.attempting = w.m.attempting
      /\ mm.saved \in states
  <2>1. CASE kept = {}
    BY <1>1, <2>1
  <2>2. CASE kept # {}
    <3> DEFINE old == w.m
    <3>1. old \in Machines(sent) /\ c \in Prints /\ mm = Printing(old, c, FALSE)
      BY <1>1, <1>3, <2>2
    <3> HIDE DEF mm, old
    <3>2. /\ mm \in Machines(sent) /\ mm.saved = NoTask /\ mm.conn = old.conn
          /\ mm.attempting = old.attempting
      BY <3>1, PrintingIs
    <3>3. QED
      BY <3>2 DEF old
  <2>3. QED
    BY <2>1, <2>2
<1> HIDE DEF mm
<1>7. \A t \in Task : r[t] = w.rec[t] \/ (t \in lost /\ w.rec[t] \in Pending /\ r[t] = "errored")
  BY <1>2
<1> HIDE DEF r
<1>8. [w EXCEPT !.rec = r, !.m = mm, !.touched = @ \cup lost,
                !.again = @ \cup (lost \cap w.touched)] \in Works(next, states)
  BY <1>1, <1>2, <1>4, <1>6, <1>7, WorkMoves
<1>9. QED
  BY <1>5, <1>8

\* Settle, of a task that was sent and has not settled.
LEMMA SettleIs ==
  ASSUME IInv, NEW next, Startable(next), NEW states,
         NEW w \in Works(next, states), NEW t \in sent, w.rec[t] \in Pending,
         t \in w.touched, NEW status \in Final
  PROVE  /\ Settle(w, t, status) \in Works(next, states)
         /\ Settle(w, t, status).out = w.out /\ Settle(w, t, status).failed = w.failed
         /\ Settle(w, t, status).m = w.m
<1> DEFINE r == [w.rec EXCEPT ![t] = status]
           u == [w EXCEPT !.rec = r]
           v == [w EXCEPT !.rec = [r EXCEPT ![w.next] = "created"],
                          !.auto = w.next, !.next = NoTask]
           starts == status = "finished" /\ t \in Prints /\ Automatic /\ w.next # NoTask
           Rs == [rec : [Task -> Statuses], m : Machines(sent), touched : SUBSET Task,
                  again : SUBSET Task, out : Seq(Deletes), next : {NoTask, next},
                  auto : {NoTask, next}, failed : BOOLEAN]
           Fine(x, y) ==
             \/ x = y.auto /\ (y.rec[x] = "created" \/ (y.rec[x] = "errored" /\ x \in y.touched))
             \/ x # y.auto /\ y.rec[x] = rec[x]
             \/ /\ x # y.auto /\ x \in y.touched /\ rec[x] \in Pending
                /\ \/ y.rec[x] \in Pending \cup {"errored"}
                   \/ y.rec[x] \in Final /\ x \in sent
<1>1. /\ w \in Rs /\ w.m.conn = m.conn /\ w.m.attempting = m.attempting /\ w.m.saved \in states
      /\ w.auto # NoTask => w.next = NoTask
  BY DEF Works
<1>2. /\ w.rec \in [Task -> Statuses] /\ t \in Task /\ sent \subseteq Task
      /\ rec \in [Task -> Statuses]
  BY <1>1 DEF IInv, TypeOK
<1>3. \A x \in Task : Fine(x, w)
  BY DEF Works
<1>4. Settle(w, t, status) = IF starts THEN v ELSE u
  BY DEF Settle
<1>5. \A x \in Task : x # NoTask
  BY TasksAssumption
<1>6. /\ rec[t] # "absent" /\ t # w.auto /\ t # w.next
      /\ w.auto # NoTask => w.auto \in Prints
      /\ w.next # NoTask => w.next \in Prints /\ w.next \in Task /\ rec[w.next] = "absent"
  <2>1. rec[t] # "absent"
    BY <1>2, SoundNow
  <2>2. QED
    BY <1>1, <1>2, <1>5, <2>1 DEF Startable, Task
<1>7. rec[t] \in Pending
  BY <1>2, <1>3, <1>6
<1>8. Final \subseteq Statuses /\ "created" \in Statuses
  BY DEF Statuses, Pending, Final
<1>9. r \in [Task -> Statuses] /\ r[t] = status /\ \A x \in Task : x # t => r[x] = w.rec[x]
  BY <1>2, <1>8
<1> HIDE DEF r
<1>10. /\ u \in Rs /\ u.m = w.m /\ u.auto = w.auto /\ u.next = w.next /\ u.rec = r
       /\ u.touched = w.touched /\ u.out = w.out /\ u.failed = w.failed
  BY <1>1, <1>9
<1>11. starts => /\ v \in Rs /\ v.m = w.m /\ v.auto = w.next /\ v.next = NoTask
                 /\ v.touched = w.touched /\ v.out = w.out /\ v.failed = w.failed
                 /\ v.rec[w.next] = "created"
                 /\ \A x \in Task : x # w.next => v.rec[x] = r[x]
  <2> DEFINE r2 == [r EXCEPT ![w.next] = "created"]
  <2>1. starts => /\ r2 \in [Task -> Statuses] /\ r2[w.next] = "created"
                  /\ \A x \in Task : x # w.next => r2[x] = r[x]
    BY <1>6, <1>8, <1>9
  <2> HIDE DEF r2
  <2>2. v = [w EXCEPT !.rec = r2, !.auto = w.next, !.next = NoTask]
    BY DEF r2
  <2> HIDE DEF v
  <2>3. QED
    BY <1>1, <2>1, <2>2
<1> HIDE DEF u, v
<1>12. \A x \in Task : Fine(x, u)
  <2>1. SUFFICES ASSUME NEW x \in Task PROVE Fine(x, u)
    OBVIOUS
  <2>2. CASE x = t
    BY <1>6, <1>7, <1>9, <1>10, <2>2
  <2>3. CASE x # t
    BY <1>3, <1>9, <1>10, <2>3
  <2>4. QED
    BY <2>2, <2>3
<1>13. ASSUME starts, NEW x \in Task PROVE Fine(x, v)
  <2>1. w.auto = NoTask /\ x # w.auto
    BY <1>1, <1>5, <1>13
  <2>2. CASE x = w.next
    BY <1>11, <1>13, <2>2
  <2>3. CASE x = t
    <3>1. v.rec[x] = status /\ x # v.auto /\ x \in v.touched
      BY <1>6, <1>9, <1>11, <1>13, <2>3
    <3>2. QED
      BY <1>7, <2>3, <3>1
  <2>4. CASE x # t /\ x # w.next
    <3>1. v.rec[x] = w.rec[x] /\ v.touched = w.touched /\ x # v.auto
      BY <1>9, <1>11, <1>13, <2>4
    <3>2. Fine(x, w)
      BY <1>3
    <3>3. QED
      BY <2>1, <3>1, <3>2
  <2>5. QED
    BY <2>2, <2>3, <2>4
<1>14. u \in Works(next, states)
  BY <1>1, <1>10, <1>12 DEF Works
<1>15. starts => v \in Works(next, states)
  BY <1>1, <1>11, <1>13 DEF Works
<1>16. QED
  BY <1>4, <1>10, <1>11, <1>14, <1>15

\* What a work has of its own.
LEMMA WorkHas ==
  ASSUME NEW next, NEW states, NEW w \in Works(next, states)
  PROVE  /\ w.rec \in [Task -> Statuses] /\ w.m \in Machines(sent) /\ w.touched \in SUBSET Task
         /\ w.again \in SUBSET Task
         /\ w.out \in Seq(Deletes) /\ w.failed \in BOOLEAN
         /\ w.m.conn = m.conn /\ w.m.attempting = m.attempting /\ w.m.saved \in states
         /\ w = [w EXCEPT !.rec = w.rec] /\ w = [w EXCEPT !.m = w.m]
BY DEF Works

LEMMA WorkSends ==
  ASSUME NEW next, NEW states, NEW w \in Works(next, states), NEW x \in Seq(Deletes),
         NEW b \in BOOLEAN
  PROVE  [w EXCEPT !.out = x, !.failed = b] \in Works(next, states)
BY DEF Works

LEMMA AfterPrintIs ==
  ASSUME TypeOK, NEW next, NEW states, NoTask \in states,
         NEW w \in Works(next, states), NEW t, NEW pick
  PROVE  AfterPrint(w, t, pick) \in Works(next, states)
<1> DEFINE prints == Running(w.rec) \cap Prints
           p == IF pick \in prints THEN pick ELSE CHOOSE q \in prints : TRUE
           mm == IF w.m.status = "Printing" /\ ~w.m.paused /\ w.m.task = t
                 THEN IF prints = {} THEN InStatus(w.m, "Ready")
                      ELSE Printing(w.m, p, w.rec[p] = "paused")
                 ELSE w.m
           old == w.m
<1>1. /\ w.rec \in [Task -> Statuses] /\ old \in Machines(sent) /\ old.saved \in states
      /\ w = [w EXCEPT !.m = w.m]
  BY WorkHas
<1>2. AfterPrint(w, t, pick) = [w EXCEPT !.m = mm]
  BY <1>1 DEF AfterPrint
<1>3. prints # {} => p \in Prints
  OBVIOUS
<1>4. mm = old \/ mm = InStatus(old, "Ready") \/ (prints # {} /\ mm = Printing(old, p, w.rec[p] = "paused"))
  OBVIOUS
<1> HIDE DEF mm, old, prints, p
<1>5. /\ mm \in Machines(sent) /\ mm.conn = old.conn /\ mm.attempting = old.attempting
      /\ mm.saved \in states
  <2>1. CASE mm = old
    BY <1>1, <2>1
  <2>2. CASE mm = InStatus(old, "Ready")
    BY <1>1, <2>2 DEF InStatus, Machines, Maybe
  <2>3. CASE prints # {} /\ mm = Printing(old, p, w.rec[p] = "paused")
    <3>1. p \in Prints /\ (w.rec[p] = "paused") \in BOOLEAN
      BY <1>3, <2>3
    <3> DEFINE b == w.rec[p] = "paused"
               n == Printing(old, p, b)
    <3>2. b \in BOOLEAN
      BY <3>1
    <3> HIDE DEF b
    <3>3. n \in Machines(sent) /\ n.saved = NoTask /\ n.conn = old.conn /\ n.attempting = old.attempting
      BY <1>1, <3>1, <3>2, PrintingIs
    <3>4. mm = n /\ NoTask \in states
      BY <2>3 DEF b
    <3> HIDE DEF n
    <3>5. QED
      BY <3>3, <3>4
  <2>4. QED
    BY <1>4, <2>1, <2>2, <2>3
<1>6. w \in Works(next, states) /\ mm.conn = w.m.conn /\ mm.attempting = w.m.attempting
  BY <1>5 DEF old
<1>7. [w EXCEPT !.m = mm] \in Works(next, states)
  BY <1>5, <1>6 DEF Works
<1>8. QED
  BY <1>2, <1>7

LEMMA RecordProgressIs ==
  ASSUME IInv, NEW next, Startable(next), NEW states, NoTask \in states,
         NEW w \in Works(next, states), NEW e \in [task : sent, status : Progress],
         NEW pick, NEW ok \in BOOLEAN
  PROVE  RecordProgress(w, e, pick, ok) \in Works(next, states)
<1> DEFINE t == e.task
           status == e.status
           changed == w.rec[t] \notin Final /\ ~(w.rec[t] = "paused" /\ status = "paused")
           u == [w EXCEPT !.touched = @ \cup {t},
                          !.again = @ \cup ({t} \cap w.touched)]
           z == [u EXCEPT !.rec = [@ EXCEPT ![t] = status]]
           v == IF ~changed THEN u
                ELSE IF status \in Final THEN AfterPrint(Settle(u, t, status), t, pick)
                ELSE z
           x == IF ok THEN Append(v.out, [type |-> "DeleteTaskHistory", task |-> t]) ELSE v.out
<1>1. TypeOK /\ sent \subseteq Task /\ rec \in [Task -> Statuses]
  BY SoundNow DEF TypeOK
<1>2. t \in sent /\ t \in Task /\ status \in Progress
  BY <1>1
<1>3. /\ w.rec \in [Task -> Statuses] /\ w.m \in Machines(sent) /\ w.touched \subseteq Task
      /\ w = [w EXCEPT !.rec = w.rec] /\ w = [w EXCEPT !.m = w.m]
      /\ w.m.conn = m.conn /\ w.m.attempting = m.attempting /\ w.m.saved \in states
  BY WorkHas
<1>4. RecordProgress(w, e, pick, ok) =
        IF w.failed \/ w.rec[t] = "absent" THEN w
        ELSE IF changed /\ status \in Final \cup {"paused"}
        THEN [v EXCEPT !.out = x, !.failed = ~ok] ELSE v
  BY DEF RecordProgress
<1>5. t # w.auto
  <2>1. rec[t] # "absent"
    BY <1>2, SoundNow
  <2>2. w.auto \in {NoTask, next} /\ t # NoTask
    BY <1>2, TasksAssumption DEF Works
  <2>3. QED
    BY <2>1, <2>2 DEF Startable
<1> HIDE DEF t, status
<1>6. u \in Works(next, states) /\ t \in u.touched /\ u.rec = w.rec
  <2>1. /\ u = [w EXCEPT !.rec = w.rec, !.m = w.m, !.touched = @ \cup {t},
                         !.again = @ \cup ({t} \cap w.touched)]
        /\ t \in u.touched /\ u.rec = w.rec
    BY DEF Works
  <2>2. [w EXCEPT !.rec = w.rec, !.m = w.m, !.touched = @ \cup {t},
                  !.again = @ \cup ({t} \cap w.touched)] \in Works(next, states)
    <3> DEFINE r == w.rec
               mm == w.m
               ts == {t}
    <3>1. /\ r \in [Task -> Statuses] /\ mm \in Machines(sent) /\ ts \in SUBSET Task
          /\ mm.conn = w.m.conn /\ mm.attempting = w.m.attempting /\ mm.saved \in states
          /\ \A y \in Task : r[y] = w.rec[y]
      BY <1>2, <1>3
    <3> HIDE DEF r, mm, ts
    <3>2. [w EXCEPT !.rec = r, !.m = mm, !.touched = @ \cup ts,
                    !.again = @ \cup (ts \cap w.touched)] \in Works(next, states)
      BY <1>1, <3>1, WorkMoves
    <3>3. QED
      BY <3>2 DEF r, mm, ts
  <2>3. QED
    BY <2>1, <2>2
<1>7. changed /\ w.rec[t] # "absent" => w.rec[t] \in Pending
  BY <1>2, <1>3 DEF Statuses
<1>8. ASSUME changed, w.rec[t] # "absent", status \in Final
      PROVE  AfterPrint(Settle(u, t, status), t, pick) \in Works(next, states)
  <2> DEFINE s == Settle(u, t, status)
  <2> HIDE DEF u
  <2>1. u.rec[t] \in Pending
    BY <1>6, <1>7, <1>8
  <2>2. s \in Works(next, states)
    BY <1>2, <1>6, <1>8, <2>1, SettleIs
  <2> HIDE DEF s
  <2>3. AfterPrint(s, t, pick) \in Works(next, states)
    BY <1>1, <2>2, AfterPrintIs
  <2>4. QED
    BY <2>3 DEF s
<1>9. ASSUME changed, w.rec[t] # "absent", status \notin Final
      PROVE  z \in Works(next, states)
  <2> DEFINE r == [w.rec EXCEPT ![t] = status]
             mm == w.m
             ts == {t}
  <2>1. status \in Pending
    BY <1>2, <1>9 DEF Progress, Pending, Final
  <2>2. /\ r \in [Task -> Statuses] /\ r[t] = status /\ \A y \in Task : y # t => r[y] = w.rec[y]
    BY <1>2, <1>3, <2>1 DEF Statuses
  <2>3. z = [w EXCEPT !.rec = r, !.m = mm, !.touched = @ \cup ts,
                      !.again = @ \cup (ts \cap w.touched)]
    <3>1. u.rec = w.rec
      BY <1>6
    <3>2. QED
      BY <3>1 DEF Works
  <2>4. /\ mm \in Machines(sent) /\ ts \in SUBSET Task
        /\ mm.conn = w.m.conn /\ mm.attempting = w.m.attempting /\ mm.saved \in states
    BY <1>2, <1>3
  <2> HIDE DEF r, mm
  <2>5. \A y \in Task : r[y] = w.rec[y] \/ (y \in ts /\ w.rec[y] \in Pending /\ y # w.auto /\ r[y] \in Pending)
    BY <1>5, <1>7, <1>9, <2>1, <2>2
  <2> HIDE DEF ts, z
  <2>6. [w EXCEPT !.rec = r, !.m = mm, !.touched = @ \cup ts,
                  !.again = @ \cup (ts \cap w.touched)] \in Works(next, states)
    BY <1>1, <2>2, <2>4, <2>5, WorkMoves
  <2>7. QED
    BY <2>3, <2>6
<1> HIDE DEF u, z
<1>10. w.rec[t] # "absent" => v \in Works(next, states)
  BY <1>6, <1>8, <1>9
<1>11. w.rec[t] # "absent" => x \in Seq(Deletes)
  <2>1. [type |-> "DeleteTaskHistory", task |-> t] \in Deletes
    BY <1>2 DEF Deletes
  <2>2. v \in Works(next, states) => v.out \in Seq(Deletes)
    BY WorkHas
  <2>3. QED
    BY <1>10, <2>1, <2>2
<1> HIDE DEF v, x, changed
<1>12. w.rec[t] # "absent" => [v EXCEPT !.out = x, !.failed = ~ok] \in Works(next, states)
  BY <1>10, <1>11, WorkSends
<1>13. QED
  BY <1>4, <1>10, <1>12

\* The entries are recorded in their order.
LEMMA RecordedSteps ==
  ASSUME NEW Y, NEW w \in Y, NEW E, NEW fb, fb.prog \in Seq(E), NEW pick, NEW ok,
         \A y \in Y, e \in E : RecordProgress(y, e, pick, ok) \in Y
  PROVE  /\ Recorded(w, fb, pick, ok)[0] = w
         /\ \A k \in 0 .. Len(fb.prog) : Recorded(w, fb, pick, ok)[k] \in Y
         /\ \A k \in 1 .. Len(fb.prog) :
              Recorded(w, fb, pick, ok)[k]
                = RecordProgress(Recorded(w, fb, pick, ok)[k - 1], fb.prog[k], pick, ok)
<1> DEFINE n == Len(fb.prog)
           Step(y, k) == RecordProgress(y, fb.prog[k], pick, ok)
           D == [k \in 1 .. n |-> [y \in Y |-> Step(y, k)]]
           Sol(g) == g = [k \in 0 .. n |-> IF k = 0 THEN w
                                           ELSE RecordProgress(g[k - 1], fb.prog[k], pick, ok)]
           f == CHOOSE h : Sol(h)
<1>0. n \in Nat /\ w \in Y
  <2> DEFINE s == fb.prog
  <2>1. s \in Seq(E)
    OBVIOUS
  <2> HIDE DEF s
  <2>2. Len(s) \in Nat
    BY <2>1
  <2>3. QED
    BY <2>2 DEF s
<1>1. \A y \in Y, k \in 1 .. n : Step(y, k) \in Y
  <2>1. \A k \in 1 .. n : fb.prog[k] \in E
    <3> DEFINE s == fb.prog
    <3>1. s \in Seq(E)
      OBVIOUS
    <3> HIDE DEF s
    <3>2. \A k \in 1 .. Len(s) : s[k] \in E
      BY <3>1
    <3>3. QED
      BY <3>2 DEF s
  <2>2. QED
    BY <2>1
<1>2. \A y \in Y, k \in 1 .. n : D[k][y] = Step(y, k)
  BY Zenon
<1>3. D \in [1 .. n -> [Y -> Y]]
  <2> HIDE DEF n, Step
  <2>1. QED
    BY <1>1
<1>4. PICK g \in [0 .. n -> Y] : Solves(g, n, w, D)
  <2> HIDE DEF n, D, Step
  <2>1. QED
    BY <1>0, <1>3, RecursionExists
<1>5. Sol(g)
  <2>1. ASSUME NEW k \in 0 .. n PROVE g[k] = IF k = 0 THEN w ELSE Step(g[k - 1], k)
    <3>1. CASE k = 0
      BY <1>4, <3>1 DEF Solves
    <3>2. CASE k # 0
      <4>1. k - 1 \in 0 .. n /\ k \in 1 .. n
        BY <1>0, <3>2
      <4> HIDE DEF D, Step, n
      <4>2. g[k - 1] \in Y
        BY <4>1
      <4>3. g[k] = D[k][g[k - 1]]
        BY <1>4, <3>2 DEF Solves
      <4>4. QED
        BY <1>2, <3>2, <4>1, <4>2, <4>3
    <3>3. QED
      BY <3>1, <3>2
  <2> HIDE DEF D, n
  <2>2. g = [k \in 0 .. n |-> g[k]]
    OBVIOUS
  <2>3. QED
    BY <2>1, <2>2
<1>6. Sol(f)
  BY <1>5, Zenon
<1> HIDE DEF f, D
<1>7. \A k \in 0 .. n : f[k] = IF k = 0 THEN w ELSE Step(f[k - 1], k)
  BY <1>6
<1>8. 0 .. n \subseteq {k \in 0 .. n : f[k] \in Y}
  <2> DEFINE T == {k \in 0 .. n : f[k] \in Y}
  <2>1. 0 \in T
    <3> HIDE DEF Step, n
    <3>1. QED
      BY <1>0, <1>7
  <2>2. ASSUME NEW k \in 0 .. n - 1, k \in T PROVE k + 1 \in T
    <3>1. k + 1 \in 1 .. n /\ k + 1 \in 0 .. n /\ (k + 1) - 1 = k /\ k + 1 # 0
      BY <1>0
    <3>2. f[k] \in Y
      BY <2>2
    <3> HIDE DEF Step, n
    <3>3. f[k + 1] = Step(f[k], k + 1)
      BY <1>7, <3>1
    <3>4. QED
      BY <1>1, <3>1, <3>2, <3>3
  <2> HIDE DEF T
  <2>3. QED
    BY <1>0, <2>1, <2>2, IntervalInduction DEF T
<1>9. Recorded(w, fb, pick, ok) = f
  BY DEF Recorded, f
<1>10. f[0] = w /\ \A k \in 1 .. n : f[k] = Step(f[k - 1], k)
  <2> HIDE DEF Step, n
  <2>1. 0 \in 0 .. n /\ \A k \in 1 .. n : k \in 0 .. n /\ k # 0
    BY <1>0
  <2>2. QED
    BY <1>7, <2>1
<1>11. QED
  BY <1>8, <1>9, <1>10

\* One entry after the other, within any set of works that an entry does not leave.
LEMMA RecordedIn ==
  ASSUME NEW Y, NEW w \in Y, NEW E, NEW fb, fb.prog \in Seq(E), NEW pick, NEW ok,
         \A y \in Y, e \in E : RecordProgress(y, e, pick, ok) \in Y
  PROVE  Recorded(w, fb, pick, ok)[Len(fb.prog)] \in Y
<1> DEFINE s == fb.prog
<1>1. s \in Seq(E)
  OBVIOUS
<1> HIDE DEF s
<1>2. Len(s) \in 0 .. Len(s)
  BY <1>1
<1>3. QED
  BY <1>2, RecordedSteps DEF s

LEMMA RecordedIs ==
  ASSUME IInv, NEW next, Startable(next), NEW states, NoTask \in states,
         NEW w \in Works(next, states), NEW fb, fb.prog \in Entries(sent),
         NEW pick, NEW ok \in BOOLEAN
  PROVE  Recorded(w, fb, pick, ok)[Len(fb.prog)] \in Works(next, states)
<1> DEFINE E == [task : sent, status : Progress]
           Y == Works(next, states)
<1>1. \A y \in Y, e \in E : RecordProgress(y, e, pick, ok) \in Y
  BY RecordProgressIs
<1>2. fb.prog \in Seq(E) /\ w \in Y
  BY DEF Entries
<1> HIDE DEF E, Y
<1>3. Recorded(w, fb, pick, ok)[Len(fb.prog)] \in Y
  BY <1>1, <1>2, RecordedIn
<1>4. QED
  BY <1>3 DEF Y

LEMMA RecordBlockingIs ==
  ASSUME TypeOK, NEW next, NEW states, NEW w \in Works(next, states), NEW fb,
         fb.blocking \in BOOLEAN
  PROVE  RecordBlocking(w, fb) \in Works(next, states)
<1> DEFINE ts == IF w.m.blocked /\ ~fb.blocking
                 THEN {t \in Running(w.rec) : w.rec[t] # "paused"} ELSE {}
           r == w.rec
           mm == [w.m EXCEPT !.blocked = fb.blocking]
<1>1. /\ w.rec \in [Task -> Statuses] /\ w.m \in Machines(sent) /\ w.touched \subseteq Task
      /\ w = [w EXCEPT !.rec = w.rec] /\ w.m.saved \in states
  BY WorkHas
<1>2. ts \in SUBSET Task
  BY DEF Running
<1>3. /\ mm \in Machines(sent) /\ mm.conn = w.m.conn /\ mm.attempting = w.m.attempting
      /\ mm.saved \in states
  BY <1>1 DEF Machines
<1>4. RecordBlocking(w, fb) = IF w.failed THEN w
                              ELSE [w EXCEPT !.rec = r, !.m = mm, !.touched = @ \cup ts,
                                             !.again = @ \cup (ts \cap w.touched)]
  BY <1>1 DEF RecordBlocking, Works
<1>5. r \in [Task -> Statuses] /\ \A t \in Task : r[t] = w.rec[t]
  BY <1>1
<1> HIDE DEF ts, r, mm
<1>6. [w EXCEPT !.rec = r, !.m = mm, !.touched = @ \cup ts,
                !.again = @ \cup (ts \cap w.touched)] \in Works(next, states)
  BY <1>2, <1>3, <1>5, WorkMoves
<1>7. QED
  BY <1>4, <1>6

LEMMA InStatusIs ==
  ASSUME NEW S, NEW old \in Machines(S),
         NEW s \in {"Disconnected", "Connecting", "Ready", "Errored", "Stopped"}
  PROVE  /\ InStatus(old, s) \in Machines(S) /\ InStatus(old, s).saved = NoTask
         /\ InStatus(old, s).conn = old.conn
         /\ InStatus(old, s).attempting = old.attempting
BY DEF Machines, Maybe, InStatus

LEMMA UpdateMachineIs ==
  ASSUME TypeOK, NEW next, NEW states, NoTask \in states, NEW w \in Works(next, states), NEW fb,
         fb.st \in DriverSt, fb.flag \in Maybe(Prints \cap sent)
  PROVE  UpdateMachine(w, fb) \in Works(next, states \cup {fb.flag})
<1> DEFINE s       == MachineStatus(fb.st)
           differs == s # w.m.status \/ s = "Errored"
           gone    == IF differs /\ s # "Ready" THEN Running(w.rec) ELSE {}
           mm      == IF differs /\ ~(w.m.status = "Printing" /\ s = "Ready")
                      THEN InStatus(w.m, s) ELSE w.m
           saved   == IF mm.saved = NoTask /\ mm.status = "Printing" /\ mm.paused
                      THEN fb.flag ELSE mm.saved
           r       == [t \in Task |-> IF t \in gone THEN "errored" ELSE w.rec[t]]
           nn      == [mm EXCEPT !.seen = TRUE, !.homed = fb.st = "ready", !.saved = saved]
           more    == states \cup {fb.flag}
<1>1. /\ w.rec \in [Task -> Statuses] /\ w.m \in Machines(sent) /\ w.touched \subseteq Task
      /\ w.m.saved \in states
  BY WorkHas
<1>2. gone \in SUBSET Task /\ \A t \in gone : w.rec[t] \in Pending
  BY DEF Running
<1>3. s \in {"Disconnected", "Connecting", "Ready", "Errored", "Stopped"}
  BY DEF MachineStatus, DriverSt
<1>4. UpdateMachine(w, fb) = IF w.failed THEN w
                             ELSE [w EXCEPT !.rec = r, !.m = nn, !.touched = @ \cup gone,
                                            !.again = @ \cup (gone \cap w.touched)]
  BY DEF UpdateMachine
<1>5. r \in [Task -> Statuses]
  BY <1>1 DEF Statuses, Final
<1>6. \A t \in Task : r[t] = w.rec[t] \/ (t \in gone /\ w.rec[t] \in Pending /\ r[t] = "errored")
  BY <1>2
<1> HIDE DEF s, differs, gone, r
<1>7. /\ mm \in Machines(sent) /\ mm.conn = w.m.conn /\ mm.attempting = w.m.attempting
      /\ mm.saved \in states
  <2>1. CASE mm = w.m
    BY <1>1, <2>1
  <2>2. CASE mm = InStatus(w.m, s)
    <3> DEFINE old == w.m
    <3>1. old \in Machines(sent) /\ mm = InStatus(old, s)
      BY <1>1, <2>2
    <3> HIDE DEF old, mm
    <3>2. /\ mm \in Machines(sent) /\ mm.saved = NoTask /\ mm.conn = old.conn
          /\ mm.attempting = old.attempting
      BY <1>3, <3>1, InStatusIs
    <3>3. QED
      BY <3>2 DEF old
  <2>3. QED
    BY <2>1, <2>2
<1>8. saved \in more /\ saved \in Maybe(Prints \cap sent)
  BY <1>7 DEF Machines
<1> HIDE DEF mm, saved
<1>9. /\ nn \in Machines(sent) /\ nn.conn = w.m.conn /\ nn.attempting = w.m.attempting
      /\ nn.saved \in more
  BY <1>7, <1>8 DEF Machines
<1> HIDE DEF nn, more
<1>10. [w EXCEPT !.rec = r, !.m = nn, !.touched = @ \cup gone,
                 !.again = @ \cup (gone \cap w.touched)] \in Works(next, more)
  BY <1>2, <1>5, <1>6, <1>9, WorkMoves
<1>11. w \in Works(next, more)
  BY <1>1 DEF Works, more
<1>12. QED
  BY <1>4, <1>10, <1>11 DEF more

LEMMA DeletesSent ==
  ASSUME wire \in Seq(Wires(sent)), NEW x \in Seq(Deletes)
  PROVE  /\ Sent(x) \in Seq(Wires(sent))
         /\ \A q \in Prints : /\ CountOf(Sent(x), OnWire(q)) \in Nat
                              /\ CountOf(Sent(x), OnWire(q)) <= CountOf(wire, OnWire(q))
<1>1. Deletes \subseteq Wires(sent) /\ \A e \in Deletes : \A q \in Prints : e \notin OnWire(q)
  BY DEF Deletes, Wires, Wireable, OnWire
<1>2. x \in Seq(Wires(sent))
  BY <1>1, SeqMonotonic
<1>3. /\ Sent(x) \in Seq(Wires(sent))
      /\ \A T : /\ CountOf(Sent(x), T) \in Nat /\ CountOf(wire, T) \in Nat /\ CountOf(x, T) \in Nat
                /\ CountOf(Sent(x), T) <= CountOf(wire, T) + CountOf(x, T)
  BY <1>2, SentType
<1>4. ASSUME NEW q \in Prints
      PROVE  /\ CountOf(Sent(x), OnWire(q)) \in Nat
             /\ CountOf(Sent(x), OnWire(q)) <= CountOf(wire, OnWire(q))
  <2>1. CountOf(x, OnWire(q)) = 0
    BY <1>1, CountNone
  <2>2. QED
    BY <1>3, <2>1
<1>5. QED
  BY <1>3, <1>4

\* What HandleFeedback makes of the work w.
Takes(w) ==
  LET jobs == IF w.auto = NoTask THEN job
              ELSE [job EXCEPT ![w.auto] = [NoJob EXCEPT !.phase = "compiling", !.auto = TRUE, !.held = TRUE]]
  IN  /\ mail # <<>> /\ Head(mail).type = "Feedback"
      /\ rec' = w.rec
      /\ m' = w.m
      /\ wire' = Sent(w.out)
      /\ job' = StaleJobs(w.again, StaleJobs(w.touched, jobs))
      /\ \/ mail' = StaleIn(w.again, StaleIn(w.touched, Tail(mail)))
         \/ mail' = Append(StaleIn(w.again, StaleIn(w.touched, Tail(mail))), Msg("Stop"))
      /\ credit' = [t \in Task |-> credit[t] + (IF t = w.auto THEN 1 ELSE 0)]
      /\ UNCHANGED <<resuming, retry, drv, sent, parted, crossed, ops, faults>>

LEMMA TakesKeeps ==
  ASSUME IInv, NEW next, Startable(next),
         NEW w \in Works(next, {m.saved, NoTask} \cup {Head(mail).flag}), Takes(w)
  PROVE  IInv' /\ Records!Step
<1> DEFINE e == Head(mail)
           a == w.auto
           ts == w.touched
           more == w.again
<1>1. /\ mail # <<>> /\ e.type = "Feedback" /\ e \in Mailable /\ Names(e, rec, sent)
  BY ReceivesHead DEF Takes
<1>2. /\ \A t \in Task : e \notin Carry(t)
      /\ \A q \in Prints : e \notin Asks(q) /\ (e \in Answers(q) <=> q = e.flag)
  BY <1>1 DEF Carry, Asks, Answers
<1>3. e.flag \in Maybe(sent)
  BY <1>1 DEF Names
<1>4. /\ TypeOK /\ mail \in Seq(Messages(rec, sent)) /\ Counts(mail) /\ Sound /\ Alive(m, mail, retry)
      /\ wire \in Seq(Wires(sent)) /\ sent \subseteq Task /\ m \in Machines(sent)
      /\ drv \in Drivers(sent) /\ credit \in [Task -> Int] /\ job \in [Prints -> Jobs]
      /\ rec \in [Task -> Statuses]
  BY SoundNow DEF TypeOK
<1>5. /\ w.m \in Machines(sent) /\ w.rec \in [Task -> Statuses] /\ ts \subseteq Task
      /\ w.out \in Seq(Deletes) /\ a \in {NoTask, next}
      /\ w.m.conn = m.conn /\ w.m.attempting = m.attempting
      /\ w.m.saved \in {m.saved, NoTask, e.flag}
  BY DEF Works
<1>6. \A t \in Task :
          \/ t = a /\ (w.rec[t] = "created" \/ (w.rec[t] = "errored" /\ t \in ts))
          \/ t # a /\ w.rec[t] = rec[t]
          \/ /\ t # a /\ t \in ts /\ rec[t] \in Pending
             /\ \/ w.rec[t] \in Pending \cup {"errored"}
                \/ w.rec[t] \in Final /\ t \in sent
  BY DEF Works
<1>7. /\ rec' = w.rec /\ m' = w.m /\ wire' = Sent(w.out)
      /\ job' = StaleJobs(more, StaleJobs(ts,
                   IF a = NoTask THEN job
                   ELSE [job EXCEPT ![a] =
                          [NoJob EXCEPT !.phase = "compiling", !.auto = TRUE, !.held = TRUE]]))
      /\ \/ mail' = StaleIn(more, StaleIn(ts, Tail(mail)))
         \/ mail' = Append(StaleIn(more, StaleIn(ts, Tail(mail))), Msg("Stop"))
      /\ credit' = [t \in Task |-> credit[t] + (IF t = a THEN 1 ELSE 0)]
      /\ retry' = retry /\ drv' = drv /\ sent' = sent /\ crossed' = crossed
      /\ UNCHANGED <<resuming, parted, ops, faults>>
  BY DEF Takes
<1> HIDE DEF e, a, ts, more
<1>8. \A t \in Task : t # NoTask
  BY TasksAssumption
<1>9. a # NoTask => /\ a \in Prints /\ a \in Task /\ rec[a] = "absent" /\ a \notin sent
                    /\ CountOf(mail, Carry(a)) = 0 /\ CountOf(mail, Asks(a)) = 0
                    /\ job[a].phase = "none" /\ Away(mail, wire, drv.spool, m, a) = 0
  <2>1. a # NoTask => a \in Prints /\ a \in Task /\ rec[a] = "absent"
    BY <1>5 DEF Startable, Task
  <2>2. QED
    BY <2>1, Absent
<1>10. /\ rec' \in [Task -> Statuses] /\ m' \in Machines(sent')
       /\ \A t \in Task : /\ t # a /\ t \notin ts => rec'[t] = rec[t]
                          /\ t # a /\ t \in ts => rec'[t] = rec[t] \/ rec[t] \in Pending
                          /\ rec[t] # "absent" => rec'[t] # "absent"
  <2>1. "absent" \notin Pending \cup Final
    BY DEF Pending, Final
  <2>2. ASSUME NEW t \in Task PROVE rec[t] # "absent" => rec'[t] # "absent"
    BY <1>6, <1>7, <2>1
  <2>3. QED
    BY <1>5, <1>6, <1>7, <2>2
<1>11. mail' \in Seq(Messages(rec', sent')) /\ Rest(e, mail, mail')
  <2>1. Moved(rec, rec', sent, sent', ts)
    <3>1. ASSUME NEW t \in Task
          PROVE  /\ rec[t] # "absent" => rec'[t] # "absent"
                 /\ t \notin ts /\ rec[t] = "created" => rec'[t] = "created"
      BY <1>8, <1>9, <1>10
    <3>2. QED
      BY <1>7, <3>1 DEF Moved
  <2>2. e.type \notin {"Connect", "Closed", "Stop"}
    BY <1>1
  <2> DEFINE box == mail'
  <2>3. \/ box = StaleIn(more, StaleIn(ts, Tail(mail)))
        \/ box = Append(StaleIn(more, StaleIn(ts, Tail(mail))), Msg("Stop"))
    BY <1>7
  <2> HIDE DEF box
  <2>4. box \in Seq(Messages(rec', sent')) /\ Rest(Head(mail), mail, box)
    BY <1>1, <2>1, <2>2, <2>3, RestTwice DEF e
  <2>5. QED
    BY <2>4 DEF box, e
<1>12. /\ wire' \in Seq(Wires(sent'))
       /\ \A q \in Prints : /\ CountOf(wire', OnWire(q)) \in Nat
                            /\ CountOf(wire', OnWire(q)) <= CountOf(wire, OnWire(q))
  BY <1>4, <1>5, <1>7, DeletesSent
<1>13. /\ job' \in [Prints -> Jobs]
       /\ \A q \in Prints :
            /\ q # a => job'[q].phase = job[q].phase /\ (job'[q].held => job[q].held /\ q \notin ts)
            /\ q = a => job'[q].phase = "compiling" /\ (job'[q].held => q \notin ts)
  <2> DEFINE new == [NoJob EXCEPT !.phase = "compiling", !.auto = TRUE, !.held = TRUE]
             jobs == IF a = NoTask THEN job ELSE [job EXCEPT ![a] = new]
  <2>1. new \in Jobs /\ new.phase = "compiling"
    BY DEF Jobs, NoJob
  <2> HIDE DEF new
  <2>2. /\ jobs \in [Prints -> Jobs]
        /\ \A q \in Prints : /\ q # a => jobs[q] = job[q]
                             /\ q = a => jobs[q] = new
    BY <1>4, <1>8, <2>1 DEF Task
  <2> DEFINE once == StaleJobs(ts, jobs)
  <2>3. job' = StaleJobs(more, once)
    BY <1>7 DEF new
  <2> HIDE DEF jobs
  <2>4. /\ job' \in [Prints -> Jobs]
        /\ \A q \in Prints : job'[q].phase = jobs[q].phase /\ (job'[q].held => jobs[q].held /\ q \notin ts)
    <3>1. /\ once \in [Prints -> Jobs]
          /\ \A q \in Prints : once[q].phase = jobs[q].phase /\ (once[q].held => jobs[q].held /\ q \notin ts)
      BY <2>2, StaleJobsAre
    <3> HIDE DEF once
    <3>2. /\ StaleJobs(more, once) \in [Prints -> Jobs]
          /\ \A q \in Prints : /\ StaleJobs(more, once)[q].phase = once[q].phase
                               /\ StaleJobs(more, once)[q].held => once[q].held
      BY <3>1, StaleJobsAre
    <3>3. QED
      BY <2>3, <3>1, <3>2
  <2>5. QED
    BY <2>1, <2>2, <2>4
<1>14. /\ credit' \in [Task -> Int]
       /\ \A t \in Task : credit'[t] = credit[t] + One(t = a)
  BY <1>4, <1>7 DEF One
<1>15. TypeOK'
  BY <1>4, <1>7, <1>10, <1>11, <1>12, <1>13, <1>14 DEF TypeOK
<1>16. ASSUME NEW t \in Task PROVE Load(mail', job', t) <= credit'[t]
  <2>1. Load(mail, job, t) <= credit[t] /\ credit[t] \in Nat
    BY SoundNow
  <2>2. /\ CountOf(mail, Carry(t)) \in Nat /\ CountOf(mail', Carry(t)) = CountOf(mail, Carry(t))
    BY <1>2, <1>11 DEF Rest, Counts, One
  <2>3. credit'[t] = credit[t] + One(t = a)
    BY <1>14
  <2>4. CASE t = a
    BY <1>8, <1>9, <2>1, <2>2, <2>3, <2>4 DEF Load, One
  <2>5. CASE t # a
    <3>1. t \in Prints => job'[t].phase = job[t].phase
      BY <1>13, <2>5
    <3>2. Load(mail', job', t) = Load(mail, job, t)
      BY <2>2, <3>1 DEF Load, One
    <3>3. QED
      BY <2>1, <2>3, <2>5, <3>2 DEF One
  <2>6. QED
    BY <2>4, <2>5
<1>17. ASSUME NEW q \in Prints
       PROVE  /\ AskedIn(mail', job', q) <= 1
              /\ AskedIn(mail', job', q) \in Nat
              /\ q # a => AskedIn(mail', job', q) = AskedIn(mail, job, q)
              /\ job'[q].phase # "none" => rec'[q] # "absent"
              /\ job'[q].phase = "compiling" /\ job'[q].held => rec'[q] = "created"
  <2>1. CountOf(mail, Asks(q)) \in Nat /\ CountOf(mail', Asks(q)) = CountOf(mail, Asks(q))
    BY <1>2, <1>11 DEF Rest, Counts, One
  <2>2. CASE q = a
    <3>1. CountOf(mail', Asks(q)) = 0 /\ job'[q].phase = "compiling" /\ (job'[q].held => q \notin ts)
      BY <1>8, <1>9, <1>13, <2>1, <2>2 DEF Task
    <3>2. rec'[q] = "created" \/ (rec'[q] = "errored" /\ q \in ts)
      BY <1>6, <1>7, <2>2 DEF Task
    <3>3. QED
      BY <2>2, <3>1, <3>2 DEF AskedIn, One
  <2>3. CASE q # a
    <3>1. job'[q].phase = job[q].phase /\ (job'[q].held => job[q].held /\ q \notin ts)
      BY <1>13, <2>3
    <3>2. AskedIn(mail', job', q) = AskedIn(mail, job, q) /\ AskedIn(mail, job, q) \in Nat
      BY <2>1, <3>1 DEF AskedIn, One
    <3>3. q \in Task /\ (q \notin ts => rec'[q] = rec[q]) /\ (rec[q] # "absent" => rec'[q] # "absent")
      BY <1>10, <2>3 DEF Task
    <3>4. /\ AskedIn(mail, job, q) <= 1
          /\ job[q].phase # "none" => rec[q] # "absent"
          /\ job[q].phase = "compiling" /\ job[q].held => rec[q] = "created"
      BY SoundNow
    <3>5. QED
      BY <2>3, <3>1, <3>2, <3>3, <3>4
  <2>4. QED
    BY <2>2, <2>3
<1>18. ASSUME NEW q \in Prints
       PROVE  /\ Away(mail', wire', drv'.spool, m', q) <= Away(mail, wire, drv.spool, m, q)
              /\ Away(mail', wire', drv'.spool, m', q) \in Nat
  <2>1. /\ CountOf(mail, Answers(q)) \in Nat /\ CountOf(mail', Answers(q)) \in Nat
        /\ CountOf(mail, Answers(q)) = CountOf(mail', Answers(q)) + One(q = e.flag)
    BY <1>2, <1>11 DEF Rest, Counts, One
  <2>2. CountOf(wire', OnWire(q)) \in Nat /\ CountOf(wire', OnWire(q)) <= CountOf(wire, OnWire(q))
    BY <1>12
  <2>3. CountOf(wire, OnWire(q)) \in Nat /\ CountOf(drv.spool, {q}) \in Nat /\ drv'.spool = drv.spool
    BY <1>4, <1>7, PlacesAreNat
  <2>4. /\ One(m'.saved = q) <= One(m.saved = q) + One(q = e.flag)
        /\ One(m'.saved = q) \in Nat /\ One(m.saved = q) \in Nat /\ One(q = e.flag) \in Nat
    <3>1. q # NoTask
      BY <1>8 DEF Task
    <3>2. QED
      BY <1>5, <1>7, <3>1 DEF One
  <2>5. QED
    BY <2>1, <2>2, <2>3, <2>4 DEF Away
<1>19. Sound'
  <2>1. ASSUME NEW t \in Task
        PROVE  /\ rec'[t] \in {"finished", "cancelled"} => t \in sent'
               /\ t \in sent' => rec'[t] # "absent"
    <3>1. /\ rec[t] \in {"finished", "cancelled"} => t \in sent
          /\ t \in sent => rec[t] # "absent"
      BY SoundNow
    <3>2. rec'[t] \in {"finished", "cancelled"} => rec'[t] \notin {"created", "errored"} \cup Pending
      BY DEF Pending
    <3>3. rec'[t] \in {"finished", "cancelled"} => t \in sent
      BY <1>6, <1>7, <3>1, <3>2
    <3>4. QED
      BY <1>7, <1>10, <3>1, <3>3
  <2>2. ASSUME ~crossed', NEW q \in Prints
        PROVE  /\ AskedIn(mail', job', q) + Away(mail', wire', drv'.spool, m', q) <= 1
               /\ q \in sent' => AskedIn(mail', job', q) = 0
    <3>1. /\ AskedIn(mail, job, q) + Away(mail, wire, drv.spool, m, q) <= 1
          /\ q \in sent => AskedIn(mail, job, q) = 0
          /\ Away(mail, wire, drv.spool, m, q) \in Nat
      BY <1>7, <2>2, SoundNow
    <3>2. /\ AskedIn(mail', job', q) <= 1 /\ AskedIn(mail', job', q) \in Nat
          /\ q # a => AskedIn(mail', job', q) = AskedIn(mail, job, q)
      BY <1>17
    <3>3. /\ Away(mail', wire', drv'.spool, m', q) <= Away(mail, wire, drv.spool, m, q)
          /\ Away(mail', wire', drv'.spool, m', q) \in Nat
      BY <1>18
    <3>4. q = a => q \notin sent /\ Away(mail, wire, drv.spool, m, q) = 0
      BY <1>8, <1>9 DEF Task
    <3>5. QED
      BY <1>7, <3>1, <3>2, <3>3, <3>4
  <2>3. QED
    BY <1>15, <1>16, <1>17, <2>1, <2>2, SoundNext
<1>20. IInv'
  <2>1. Alive(m', mail', retry')
    BY <1>4, <1>5, <1>7, <1>11 DEF Alive, StillWaits, Rest
  <2>2. QED
    BY <1>19, <2>1, IInvIs
<1>21. ASSUME NEW t \in Task PROVE Goes(t)
  <2>0. credit'[t] = credit[t] + One(t = a) /\ credit[t] \in Int /\ (t \in sent' <=> t \in sent)
    BY <1>4, <1>7, <1>14
  <2>1. CASE t = a
    <3>1. rec[t] = "absent" /\ rec'[t] \in {"created", "errored"}
      BY <1>6, <1>7, <1>8, <1>9, <2>1
    <3>2. credit'[t] = credit[t] + 1
      BY <2>0, <2>1 DEF One
    <3>3. QED
      BY <2>0, <3>1, <3>2 DEF Goes, MovesTo, SpendsTo
  <2>2. CASE t # a
    <3>1. credit'[t] = credit[t]
      BY <2>0, <2>2 DEF One
    <3>2. MovesTo(rec[t], rec'[t], t \in sent)
      <4>1. \/ rec'[t] = rec[t]
            \/ /\ rec[t] \in Pending
               /\ \/ rec'[t] \in Pending \cup {"errored"}
                  \/ rec'[t] \in Final /\ t \in sent
        BY <1>6, <1>7, <2>2
      <4>2. QED
        BY <4>1 DEF MovesTo, Final
    <3>3. QED
      BY <2>0, <3>1, <3>2 DEF Goes, SpendsTo
  <2>3. QED
    BY <2>1, <2>2
<1>22. QED
  BY <1>20, <1>21, StepsAre

LEMMA HandleFeedbackKeeps ==
  ASSUME IInv, HandleFeedback
  PROVE  IInv' /\ Records!Step
<1> DEFINE fb == Head(mail)
           states == {m.saved, NoTask}
<1>1. /\ mail # <<>> /\ fb.type = "Feedback" /\ SendResults \subseteq BOOLEAN /\ TypeOK
      /\ UNCHANGED <<resuming, retry, drv, sent, parted, crossed, ops, faults>>
  BY SendResultsAre DEF HandleFeedback, Receives, bounds, IInv
<1>2. /\ fb \in Mailable /\ Names(fb, rec, sent)
  BY <1>1, ReceivesHead
<1>3. /\ fb.prog \in Entries(sent) /\ fb.blocking \in BOOLEAN /\ fb.st \in DriverSt
      /\ fb.flag \in Maybe(Prints \cap sent)
  <2>1. fb \in Feedbacks /\ fb.prog \in Entries(sent) /\ fb.flag \in Maybe(sent)
    BY <1>1, <1>2, MailableByType DEF Names
  <2>2. QED
    BY <2>1 DEF Feedbacks, Maybe
<1>4. PICK pick \in Prints, ok \in SendResults,
           next \in {NoTask} \cup {p \in Prints : Automatic /\ rec[p] = "absent"} :
        LET w == UpdateMachine(UpdateTasks(Work(fb, next), fb, pick, ok), fb)
            jobs == IF w.auto = NoTask THEN job
                    ELSE [job EXCEPT ![w.auto] =
                           [NoJob EXCEPT !.phase = "compiling", !.auto = TRUE, !.held = TRUE]]
        IN  /\ rec' = w.rec
            /\ m' = w.m
            /\ wire' = Sent(w.out)
            /\ job' = StaleJobs(w.again, StaleJobs(w.touched, jobs))
            /\ mail' = LET rest == StaleIn(w.again, StaleIn(w.touched, Tail(mail)))
                       IN  IF w.failed THEN Append(rest, Msg("Stop")) ELSE rest
            /\ credit' = [t \in Task |-> credit[t] + (IF t = w.auto THEN 1 ELSE 0)]
  BY DEF HandleFeedback
<1> DEFINE w0 == Work(fb, next)
           w1 == IF w0.m.seen THEN w0 ELSE FirstFeedback(w0, fb, pick)
           w2 == Recorded(w1, fb, pick, ok)[Len(fb.prog)]
           w3 == RecordBlocking(w2, fb)
           w4 == UpdateMachine(w3, fb)
<1>5. Takes(w4)
  BY <1>1, <1>4 DEF Takes, UpdateTasks
<1>6. Startable(next) /\ NoTask \in states /\ ok \in BOOLEAN
  BY <1>1 DEF Startable
<1> HIDE DEF fb, states
<1>7. w0 \in Works(next, states)
  BY <1>1, WorkIs DEF states
<1> HIDE DEF w0
<1>8. w1 \in Works(next, states)
  BY <1>1, <1>6, <1>7, FirstFeedbackIs
<1> HIDE DEF w1
<1>9. w2 \in Works(next, states)
  BY <1>3, <1>6, <1>8, RecordedIs
<1> HIDE DEF w2
<1>10. w3 \in Works(next, states)
  BY <1>1, <1>3, <1>9, RecordBlockingIs
<1> HIDE DEF w3
<1>11. w4 \in Works(next, states \cup {fb.flag})
  BY <1>1, <1>3, <1>6, <1>10, UpdateMachineIs
<1> HIDE DEF w4
<1>12. w4 \in Works(next, {m.saved, NoTask} \cup {Head(mail).flag})
  BY <1>11 DEF states, fb
<1>13. QED
  BY <1>5, <1>6, <1>12, TakesKeeps

-----------------------------------------------------------------------------
(***************************************************************************)
(* The theorems.                                                           *)
(***************************************************************************)
Kept == IInv' /\ (Records!Step \/ crossed' \/ UNCHANGED <<rec, credit, sent>>)

LEMMA ClientsKeep == ASSUME IInv, Clients PROVE Kept
<1>1. ASSUME NEW p \in Prints, PrintMutation(p) PROVE Kept
  BY <1>1, PrintMutationKeeps DEF Kept
<1>2. ASSUME NEW p \in Prints, PausePrint(p) PROVE Kept
  BY <1>2, PausePrintKeeps DEF Kept, PausePrint, database, history
<1>3. ASSUME NEW p \in Prints, CheckPaused(p) PROVE Kept
  BY <1>3, CheckPausedKeeps DEF Kept, CheckPaused, database, history
<1>4. ASSUME NEW p \in Prints, NEW hook \in NewInline, CommitResume(p, hook) PROVE Kept
  BY <1>4, CommitResumeKeeps DEF Kept
<1>5. ASSUME NEW t \in NewInline, NEW override \in BOOLEAN, ExecGCodes(t, override) PROVE Kept
  BY <1>5, ExecGCodesKeeps DEF Kept
<1>6. ASSUME NEW type \in {"StopMachine", "ResetMachine", "AddDevice"}, Request(type) PROVE Kept
  BY <1>6, RequestKeeps DEF Kept, Request, database, history
<1>7. QED
  BY <1>1, <1>2, <1>3, <1>4, <1>5, <1>6 DEF Clients

LEMMA CompilationKeeps == ASSUME IInv, Compilation PROVE Kept
<1>1. ASSUME NEW p \in Prints, CompilePrint(p) PROVE Kept
  BY <1>1, CompilePrintKeeps DEF Kept, CompilePrint, history
<1>2. ASSUME NEW p \in Prints, CompileFails(p) PROVE Kept
  BY <1>2, CompileFailsKeeps DEF Kept, CompileFails, history
<1>3. ASSUME NEW p \in Prints, ReadFailed(p) PROVE Kept
  BY <1>3, ReadFailedKeeps DEF Kept, ReadFailed, history
<1>4. ASSUME NEW p \in Prints, SettleFailed(p) PROVE Kept
  BY <1>4, SettleFailedKeeps DEF Kept
<1>5. QED
  BY <1>1, <1>2, <1>3, <1>4 DEF Compilation

LEMMA ActorKeeps == ASSUME IInv, Actor PROVE Kept
<1> USE DEF Kept
<1>1. CASE HandleStop
  BY <1>1, HandleStopKeeps DEF HandleStop, database
<1>2. CASE HandleConnect
  <2>1. UNCHANGED <<rec, credit, sent>>
    BY <1>2 DEF HandleConnect, Ignore, database, history
  <2>2. QED
    BY <1>2, <2>1, HandleConnectKeeps
<1>3. CASE HandleClosed
  BY <1>3, HandleClosedKeeps DEF HandleClosed, database, history
<1>4. CASE HandleBroken
  BY <1>4, HandleBrokenKeeps DEF HandleBroken, database, history
<1>5. CASE HandleInit
  BY <1>5, HandleInitKeeps DEF HandleInit, database, history
<1>6. CASE HandleResetWhenIdle
  BY <1>6, ForwardKeeps DEF HandleResetWhenIdle, Forward, database, history
<1>7. CASE HandleStopMachine
  BY <1>7, ForwardKeeps DEF HandleStopMachine, Forward, database, history
<1>8. CASE HandleAddDevice
  BY <1>8, HandleAddDeviceKeeps DEF HandleAddDevice, database, history
<1>9. CASE HandleResetMachine
  BY <1>9, HandleResetMachineKeeps DEF HandleResetMachine, database, history
<1>10. CASE HandleSpoolTask
  BY <1>10, HandleSpoolTaskKeeps
<1>11. CASE HandleSpoolPrint
  BY <1>11, HandleSpoolPrintKeeps
<1>12. CASE HandlePause
  BY <1>12, HandlePauseKeeps
<1>13. CASE HandleResume
  BY <1>13, HandleResumeKeeps
<1>14. CASE FeedbackWithoutData
  BY <1>14, FeedbackWithoutDataKeeps DEF FeedbackWithoutData, database, history
<1>15. CASE HandleFeedback
  BY <1>15, HandleFeedbackKeeps
<1>16. QED
  BY <1>1, <1>2, <1>3, <1>4, <1>5, <1>6, <1>7, <1>8, <1>9, <1>10, <1>11, <1>12, <1>13,
     <1>14, <1>15 DEF Actor

LEMMA DriverKeepsIt == ASSUME IInv, Driver PROVE Kept
<1> USE DEF Kept
<1>1. CASE DriverHello
  BY <1>1, DriverHelloKeeps DEF DriverHello, DriverKeeps, database, history
<1>2. CASE DriverSpool
  BY <1>2, DriverSpoolKeeps DEF DriverSpool, DriverKeeps, database, history
<1>3. CASE DriverPause
  BY <1>3, DriverPauseKeeps DEF DriverPause, DriverKeeps, database, history
<1>4. CASE DriverDelete
  BY <1>4, DriverDeleteKeeps DEF DriverDelete, DriverKeeps, database, history
<1>5. CASE DriverEstop
  BY <1>5, DriverEstopKeeps DEF DriverEstop, DriverKeeps, database, history
<1>6. CASE DriverResetWhenIdle
  BY <1>6, DriverResetWhenIdleKeeps DEF DriverResetWhenIdle, database, history
<1>7. CASE DriverFinish
  BY <1>7, DriverFinishKeeps DEF DriverFinish, database, history
<1>8. CASE DriverConnects
  BY <1>8, DriverConnectsKeeps DEF DriverConnects, DriverKeeps, database, history
<1>9. QED
  BY <1>1, <1>2, <1>3, <1>4, <1>5, <1>6, <1>7, <1>8 DEF Driver

LEMMA FailuresKeep == ASSUME IInv, Failures PROVE Kept
<1> USE DEF Kept
<1>1. ASSUME NEW st \in {"disconnected", "errored"}, DriverFails(st) PROVE Kept
  BY <1>1, DriverFailsKeeps DEF DriverFails, database
<1>2. CASE DriverCrash
  BY <1>2, DriverCrashKeeps DEF DriverCrash, database, history
<1>3. CASE StreamBreaks
  BY <1>3, StreamBreaksKeeps DEF StreamBreaks, database, history
<1>4. CASE ServerRestart
  BY <1>4, ServerRestartKeeps DEF ServerRestart
<1>5. QED
  BY <1>1, <1>2, <1>3, <1>4 DEF Failures

LEMMA StepKeeps == ASSUME IInv, [Next]_vars PROVE Kept
<1>1. CASE RetryConnect
  BY <1>1, RetryConnectKeeps DEF Kept, RetryConnect, database, history
<1>2. CASE UNCHANGED vars
  <2>2. IInv'
    BY <1>2 DEF vars, IInv, TypeOK, NeverStranded, Waiting, AttemptsEnd, Credited, Inserted,
                Asked, EndsAreSent, InOnePlace, Places
  <2>3. QED
    BY <1>2, <2>2 DEF Kept, vars
<1>3. QED
  BY <1>1, <1>2, ClientsKeep, CompilationKeeps, ActorKeeps, DriverKeepsIt, FailuresKeep DEF Next

LEMMA InitHolds == Init => IInv
<1> DEFINE c == Msg("Connect")
<1> SUFFICES ASSUME Init PROVE IInv
  OBVIOUS
<1>1. /\ rec = [t \in Task |-> "absent"] /\ job = [p \in Prints |-> NoJob] /\ resuming = {}
      /\ m = NewMachine /\ mail = <<c>> /\ retry = FALSE /\ wire = <<>>
      /\ drv = [NewDriver EXCEPT !.up = FALSE] /\ credit = [t \in Task |-> 0] /\ sent = {}
      /\ parted = FALSE /\ crossed = FALSE /\ ops = 0 /\ faults = 0
  BY DEF Init
<1>2. c \in Messages(rec, sent) /\ Neutral(<<c>>) /\ c.type = "Connect"
  BY NeutralOnes DEF Msg
<1> HIDE DEF c
<1>3. /\ mail \in Seq(Messages(rec, sent)) /\ Neutral(mail) /\ Waits(mail, "Connect")
  BY <1>1, <1>2, WaitsOne
<1>4. m \in Machines(sent) /\ m.conn = "none" /\ m.attempting = FALSE /\ m.saved = NoTask
  BY <1>1 DEF NewMachine, Machines, Maybe
<1>5. drv \in Drivers(sent) /\ drv.spool = <<>>
  <2>1. <<>> \in Entries(sent) /\ <<>> \in Seq(sent)
    BY DEF Entries
  <2>2. QED
    BY <1>1, <2>1 DEF NewDriver, Drivers, DriverSt
<1>6. job \in [Prints -> Jobs] /\ \A p \in Prints : job[p].phase = "none"
  BY <1>1 DEF NoJob, Jobs
<1>7. rec \in [Task -> Statuses] /\ credit \in [Task -> Int]
  BY <1>1 DEF Statuses
<1>8. wire \in Seq(Wires(sent)) /\ sent \subseteq Task /\ resuming \subseteq Prints
  BY <1>1
<1>9. TypeOK
  BY <1>1, <1>3, <1>4, <1>5, <1>6, <1>7, <1>8 DEF TypeOK
<1>10. Alive(m, mail, retry)
  BY <1>3, <1>4 DEF Alive
<1>11. \A p \in Prints : Asked(p) = 0
  BY <1>3, <1>6 DEF Asked, Neutral, One
<1>12. Credited
  BY <1>1, <1>3, <1>6 DEF Credited, Neutral, One
<1>13. Inserted
  BY <1>6, <1>11 DEF Inserted
<1>14. EndsAreSent
  BY <1>1 DEF EndsAreSent
<1>15. InOnePlace
  <2>1. SUFFICES ASSUME NEW p \in Prints PROVE Places(p) <= 1 /\ Asked(p) = 0
    BY DEF InOnePlace
  <2>2. CountOf(mail, Answers(p)) = 0 /\ CountOf(wire, OnWire(p)) = 0 /\ CountOf(drv.spool, {p}) = 0
    BY <1>1, <1>3, <1>5, CountEmpty DEF Neutral
  <2>3. One(m.saved = p) = 0
    BY <1>4, TasksAssumption DEF One, Task
  <2>4. QED
    BY <1>11, <2>2, <2>3 DEF Places
<1>16. Sound
  BY <1>9, <1>12, <1>13, <1>14, <1>15 DEF Sound
<1>17. QED
  BY <1>10, <1>16, IInvIs

\* The invariant that carries the others: the types; a machine without a stream
\* has something under way; every message and compilation that will send a task has
\* the leave to (credit), every print is asked for once and in one place.
THEOREM Invariant == Spec => []IInv
<1>1. Init => IInv
  BY InitHolds
<1>2. IInv /\ [Next]_vars => IInv'
  BY StepKeeps DEF Kept
<1>3. QED
  BY <1>1, <1>2, PTL DEF Spec

\* The database, the machine, the mailbox, the socket and the driver only hold what
\* they may: among others, a message of the mailbox names a record that exists, and
\* the copy of a record it holds is only taken for fresh while the record is as it
\* was created.
THEOREM TypeCorrect == Spec => []TypeOK
<1>1. IInv => TypeOK
  BY DEF IInv
<1>2. QED
  BY <1>1, Invariant, PTL

\* Whatever fails, a machine without a stream to its driver has a connection, the
\* end of a stream, a restart or a retry on its way.
THEOREM NeverStrandedHolds == Spec => []NeverStranded
<1>1. IInv => NeverStranded
  BY DEF IInv
<1>2. QED
  BY <1>1, Invariant, PTL

\* A print that can be resumed, with the state of its own pause, is neither in the
\* driver's spool nor on the way there, so that a resume does not spool it twice.
THEOREM ResumableHasLeftDriverHolds == Spec => []ResumableHasLeftDriver
<1>1. ASSUME IInv, m.saved # NoTask, m.saved = m.task, ~crossed PROVE ~InDriver(m.task)
  <2> DEFINE p == m.task
  <2>1. TypeOK /\ p \in Prints /\ p = m.saved
    BY <1>1 DEF IInv, TypeOK, Machines, Maybe
  <2>2. /\ CountOf(mail, Answers(p)) \in Nat /\ CountOf(wire, OnWire(p)) \in Nat
        /\ CountOf(drv.spool, {p}) \in Nat
    BY <2>1, PlacesAreNat
  <2>3. AskedIn(mail, job, p) + Away(mail, wire, drv.spool, m, p) <= 1 /\ AskedIn(mail, job, p) \in Nat
    <3>1. mail \in Seq(Messages(rec, sent))
      BY <2>1 DEF TypeOK
    <3>2. QED
      BY <1>1, <2>1, <3>1, SoundNow, LoadIsNat
  <2>4. CountOf(wire, OnWire(p)) = 0 /\ CountOf(drv.spool, {p}) = 0
    BY <2>1, <2>2, <2>3 DEF Away, One
  <2>5. wire \in Seq(Wires(sent)) /\ drv.spool \in Seq(sent)
    BY <2>1 DEF TypeOK, Drivers
  <2>6. ASSUME NEW i \in 1 .. Len(wire) PROVE ~(wire[i].type = "SpoolTask" /\ wire[i].task = p)
    <3>1. wire[i] \in Wireable /\ wire[i] \notin OnWire(p)
      BY <2>4, <2>5, CountSome DEF Wires
    <3>2. QED
      BY <3>1 DEF OnWire
  <2>7. ASSUME NEW i \in 1 .. Len(drv.spool) PROVE drv.spool[i] # p
    BY <2>4, <2>5, CountSome
  <2>8. QED
    BY <2>6, <2>7 DEF InDriver
<1>2. IInv => ResumableHasLeftDriver
  BY <1>1 DEF ResumableHasLeftDriver
<1>3. QED
  BY <1>2, Invariant, PTL

\* The actor, its mailbox, the mutations of the clients and the compilations of
\* prints, with all that may fail, implement TaskLifecycle: step by step, each
\* record moves along its edges and is sent once for its insertion and once for each
\* resume; a settled one moves again only if it was errored before it was ever sent:
\* the second of the two updates by which a print is spooled then makes it sent.
THEOREM RecordsFollowLifecycleHolds == Spec => RecordsFollowLifecycle
<1>1. Init => Records!Init
  BY DEF Init, Records!Init
<1>2. IInv /\ [Next]_vars => [Records!Step \/ crossed']_(Records!lifecycle)
  BY StepKeeps DEF Kept, Records!lifecycle
<1>3. QED
  BY <1>1, <1>2, Invariant, PTL DEF Spec, RecordsFollowLifecycle
=============================================================================
