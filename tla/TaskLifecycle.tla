--------------------------- MODULE TaskLifecycle ---------------------------
(***************************************************************************)
(* What the records of tasks promise to the rest of the server (the print  *)
(* queue, the GraphQL clients, the hooks of the machine): a task is        *)
(* inserted once, finishes only if it was sent to the driver, and is sent  *)
(* at most once for its insertion and once for each time its pause was     *)
(* ended. It settles once, but for one case: a task that was errored       *)
(* before it was ever sent may be sent nevertheless, and then it is        *)
(* pending again.  MachineActor implements it.                             *)
(***************************************************************************)
EXTENDS Naturals

CONSTANT Task

VARIABLES rec,     \* the status of each record
          credit,  \* how often each task may still be sent
          sent     \* the tasks that have been sent at least once

Pending == {"created", "sent", "started", "paused"}
Final   == {"finished", "cancelled", "errored"}
Status  == {"absent"} \cup Pending \cup Final

lifecycle == <<rec, credit, sent>>

TypeOK ==
  /\ rec \in [Task -> Status]
  /\ credit \in [Task -> Nat]
  /\ sent \subseteq Task

Init ==
  /\ rec = [t \in Task |-> "absent"]
  /\ credit = [t \in Task |-> 0]
  /\ sent = {}

\* One feedback moves several records, each of them along one of these edges. The
\* last one is that of a record which is updated twice from one copy.
Moves(t) ==
  \/ rec'[t] = rec[t]
  \/ rec[t] = "absent" /\ rec'[t] \in {"created", "errored"}
  \/ /\ rec[t] \in Pending
     /\ \/ rec'[t] \in Pending \cup {"cancelled", "errored"}
        \/ rec'[t] = "finished" /\ t \in sent
  \/ /\ rec[t] = "errored" /\ rec'[t] = "sent"
     /\ t \notin sent /\ t \in sent'

\* An insertion and a resume give leave to send, and a send uses it up.
Spends(t) ==
  \/ credit'[t] = credit[t] /\ (t \in sent' <=> t \in sent)
  \/ /\ \/ rec[t] = "absent"
        \/ rec[t] = "paused" /\ rec'[t] = "created"
     /\ credit'[t] = credit[t] + 1 /\ (t \in sent' <=> t \in sent)
  \/ credit[t] > 0 /\ credit'[t] = credit[t] - 1 /\ t \in sent'

\* A task that is inserted and sent by one handler, as the warm-up of a resume.
InsertsAndSends(t) ==
  /\ rec[t] = "absent" /\ rec'[t] = "sent"
  /\ credit'[t] = credit[t] /\ t \in sent'

Step ==
  /\ \A t \in Task : (Moves(t) /\ Spends(t)) \/ InsertsAndSends(t)
  /\ TypeOK'

Spec == Init /\ [][Step]_lifecycle
=============================================================================
