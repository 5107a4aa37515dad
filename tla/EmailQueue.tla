----------------------------- MODULE EmailQueue -----------------------------
(***************************************************************************)
(* The email queue: jobs that the services add, and the workers that turn  *)
(* a job into a mail and a row of EmailLog.  The server runs a worker, the *)
(* worker script runs another one on the same queue, and each handles      *)
(* several jobs at a time.  Workers here are those slots.                  *)
(*                                                                         *)
(* One attempt at a job:                                                   *)
(*                                                                         *)
(*   Take --> "send" --Sent--> "logSuccess" --LogSuccess--> "complete"     *)
(*   "send" --SendFails--> "logFailure" --LogFailure--> "throw"            *)
(*   "logSuccess" --LogSuccessFails--> "logFailure"                        *)
(*                                                                         *)
(* A job is locked for the worker that took it.  BullMQ puts a job whose   *)
(* lock has run out back into the queue, because the worker died or failed *)
(* to renew the lock; in the second case the worker goes on with its       *)
(* attempt, and only its verdict is ignored.                               *)
(***************************************************************************)
EXTENDS Naturals, FiniteSets

CONSTANTS Jobs,       \* jobs; bound: each of them is added once
          Workers,    \* slots of the running workers
          Attempts,   \* 3 in the code
          MaxStalls   \* BullMQ's maxStalledCount, 1 unless configured

None == "none"

ASSUME QueueAssumption == /\ Attempts \in Nat \ {0} /\ MaxStalls \in Nat
                          /\ IsFiniteSet(Workers) /\ None \notin Workers

VARIABLES state,     \* absent, waiting, active, delayed, doomed, completed or failed
          attempts,  \* failed attempts that counted (attemptsMade)
          stalls,    \* how often a job's lock ran out
          lock,      \* the worker a job is locked for
          slots,     \* what each worker is doing
          mails,     \* how many mails went out for a job
          logs       \* the rows of EmailLog of a job, counted by status

vars == <<state, attempts, stalls, lock, slots, mails, logs>>

Free == [step |-> "free"]

Init == /\ state    = [j \in Jobs |-> "absent"]
        /\ attempts = [j \in Jobs |-> 0]
        /\ stalls   = [j \in Jobs |-> 0]
        /\ lock     = [j \in Jobs |-> None]
        /\ slots    = [w \in Workers |-> Free]
        /\ mails    = [j \in Jobs |-> 0]
        /\ logs     = [j \in Jobs |-> [success |-> 0, failed |-> 0]]

-----------------------------------------------------------------------------
(* The queue.                                                              *)

Add(j) == /\ state[j] = "absent"
          /\ state' = [state EXCEPT ![j] = "waiting"]
          /\ UNCHANGED <<attempts, stalls, lock, slots, mails, logs>>

(* A free worker locks a job that waits. *)
Locked(w, j) ==
  /\ slots[w] = Free
  /\ state[j] = "waiting"
  /\ lock'  = [lock EXCEPT ![j] = w]
  /\ slots' = [slots EXCEPT ![w] = [step |-> "send", job |-> j]]
  /\ UNCHANGED <<attempts, stalls, mails, logs>>

(* Bug: the job stays in the queue while it is worked on. *)
TakeCopy(w, j) == Locked(w, j) /\ UNCHANGED state

(* Bug: a job that failed is not taken again. *)
TakeFresh(w, j) ==
  Locked(w, j) /\ attempts[j] = 0 /\ state' = [state EXCEPT ![j] = "active"]

Take(w, j) == Locked(w, j) /\ state' = [state EXCEPT ![j] = "active"]

(* A delayed retry falls due. *)
Due(j) == /\ state[j] = "delayed"
          /\ state' = [state EXCEPT ![j] = "waiting"]
          /\ UNCHANGED <<attempts, stalls, lock, slots, mails, logs>>

(* The lock of an active job runs out.  A job that stalls too often goes back *)
(* into the queue as well, but only to be failed by the worker that takes it. *)
Stall(j) ==
  /\ state[j] = "active"
  /\ stalls' = [stalls EXCEPT ![j] = @ + 1]
  /\ state'  = [state EXCEPT ![j] = IF stalls[j] < MaxStalls THEN "waiting" ELSE "doomed"]
  /\ lock'   = [lock EXCEPT ![j] = None]
  /\ UNCHANGED <<attempts, slots, mails, logs>>

(* A free worker takes such a job and fails it; the processor is not called. *)
Dismiss(j) == /\ state[j] = "doomed"
              /\ \E w \in Workers : slots[w] = Free
              /\ state' = [state EXCEPT ![j] = "failed"]
              /\ UNCHANGED <<attempts, stalls, lock, slots, mails, logs>>

-----------------------------------------------------------------------------
(* sendEmail.                                                              *)

Goto(w, step) == slots' = [slots EXCEPT ![w].step = step]

At(w, step) == slots[w] # Free /\ slots[w].step = step

Sent(w) ==
  /\ At(w, "send")
  /\ mails' = [mails EXCEPT ![slots[w].job] = @ + 1]
  /\ Goto(w, "logSuccess")
  /\ UNCHANGED <<state, attempts, stalls, lock, logs>>

(* Bug: an error of the mail server is only written to the console. *)
SendFailureIgnored(w) ==
  /\ At(w, "send")
  /\ \/ UNCHANGED mails
     \/ mails' = [mails EXCEPT ![slots[w].job] = @ + 1]
  /\ Goto(w, "logSuccess")
  /\ UNCHANGED <<state, attempts, stalls, lock, logs>>

(* The mail server refuses, or accepts the mail and its answer is lost. *)
SendFails(w) ==
  /\ At(w, "send")
  /\ \/ UNCHANGED mails
     \/ mails' = [mails EXCEPT ![slots[w].job] = @ + 1]
  /\ Goto(w, "logFailure")
  /\ UNCHANGED <<state, attempts, stalls, lock, logs>>

(* One more row of EmailLog with this status for the worker's job. *)
Written(w, status) == logs' = [logs EXCEPT ![slots[w].job][status] = @ + 1]

LogSuccess(w) ==
  /\ At(w, "logSuccess")
  /\ Written(w, "success")
  /\ Goto(w, "complete")
  /\ UNCHANGED <<state, attempts, stalls, lock, mails>>

(* The insert fails, or its answer is lost; the catch that is meant for the   *)
(* mail catches this failure too.                                             *)
LogSuccessFails(w) ==
  /\ At(w, "logSuccess")
  /\ \/ UNCHANGED logs
     \/ Written(w, "success")
  /\ Goto(w, "logFailure")
  /\ UNCHANGED <<state, attempts, stalls, lock, mails>>

(* The row of the failure is written, or is not; either way the attempt throws. *)
LogFailure(w) ==
  /\ At(w, "logFailure")
  /\ \/ UNCHANGED logs
     \/ Written(w, "failed")
  /\ Goto(w, "throw")
  /\ UNCHANGED <<state, attempts, stalls, lock, mails>>

-----------------------------------------------------------------------------
(* The end of an attempt.                                                  *)

(* Only the verdict of the worker that holds the lock counts. *)
Holds(w, j) == lock[j] = w

(* The processor returns. *)
Returns(w) ==
  LET j == slots[w].job
  IN  /\ slots' = [slots EXCEPT ![w] = Free]
      /\ IF Holds(w, j)
         THEN /\ state' = [state EXCEPT ![j] = "completed"]
              /\ lock'  = [lock EXCEPT ![j] = None]
         ELSE UNCHANGED <<state, lock>>
      /\ UNCHANGED <<attempts, stalls, mails, logs>>

Complete(w) == At(w, "complete") /\ Returns(w)

(* Bug: one attempt more than configured. *)
RetriesOnceMore(n) == n <= Attempts

(* Bug: a job that failed is always tried again. *)
RetriesForEver(n) == TRUE

(* A job that has failed n times is tried again. *)
Retries(n) == n < Attempts

(* Bug: the failure is written to the log and not thrown on. *)
Swallow(w) == At(w, "throw") /\ Returns(w)

Throw(w) ==
  LET j == slots[w].job
  IN  /\ At(w, "throw")
      /\ slots' = [slots EXCEPT ![w] = Free]
      /\ IF Holds(w, j)
         THEN /\ attempts' = [attempts EXCEPT ![j] = @ + 1]
              /\ state'    = [state EXCEPT ![j] =
                                IF Retries(attempts[j] + 1) THEN "delayed" ELSE "failed"]
              /\ lock'     = [lock EXCEPT ![j] = None]
         ELSE UNCHANGED <<attempts, state, lock>>
      /\ UNCHANGED <<stalls, mails, logs>>

(* The worker's process ends in the middle of an attempt. *)
Crash(w) ==
  /\ slots[w] # Free
  /\ slots' = [slots EXCEPT ![w] = Free]
  /\ UNCHANGED <<state, attempts, stalls, lock, mails, logs>>

Work(w) == \/ Sent(w) \/ SendFails(w) \/ LogSuccess(w) \/ LogSuccessFails(w)
           \/ LogFailure(w) \/ Complete(w) \/ Throw(w)

Next == \/ \E j \in Jobs : \/ Add(j) \/ Due(j) \/ Stall(j) \/ Dismiss(j)
                           \/ \E w \in Workers : Take(w, j)
        \/ \E w \in Workers : Work(w) \/ Crash(w)

Spec == Init /\ [][Next]_vars

(* Delays end, some worker takes a waiting job, attempts go on, and the lock  *)
(* of a job that nobody works on runs out.  Sending, logging and staying      *)
(* alive are never owed.                                                      *)
On(j) == {w \in Workers : slots[w] # Free /\ slots[w].job = j}

Abandoned(j) == lock[j] \notin On(j)

Fairness == /\ \A j \in Jobs : /\ WF_vars(Due(j))
                               /\ SF_vars(\E w \in Workers : Take(w, j))
                               /\ SF_vars(Dismiss(j))
                               /\ WF_vars(Abandoned(j) /\ Stall(j))
            /\ \A w \in Workers : WF_vars(Work(w))

LiveSpec == Spec /\ Fairness

-----------------------------------------------------------------------------
(* Properties.                                                             *)

States == {"absent", "waiting", "active", "delayed", "doomed", "completed", "failed"}
Steps  == {"send", "logSuccess", "logFailure", "complete", "throw"}

(* Every variable holds values of its type; the counts stay within the        *)
(* configured ones.                                                           *)
TypeOK ==
  /\ state \in [Jobs -> States]
  /\ attempts \in [Jobs -> 0..Attempts]
  /\ stalls \in [Jobs -> 0..MaxStalls + 1]
  /\ lock \in [Jobs -> Workers \cup {None}]
  /\ slots \in [Workers -> {Free} \cup [step : Steps, job : Jobs]]
  /\ mails \in [Jobs -> Nat]
  /\ logs \in [Jobs -> [success : Nat, failed : Nat]]

(* However attempts fail half-way, stall and overlap, a recipient gets at     *)
(* most one mail per configured attempt and per tolerated stall.              *)
MailsBounded == \A j \in Jobs : mails[j] <= Attempts + MaxStalls

(* Two workers are at work on one job only if its lock has run out, once for  *)
(* each worker too many.                                                      *)
OverlapOnlyAfterStall == \A j \in Jobs : Cardinality(On(j)) <= stalls[j] + 1

(* The delivery log claims no more successes than mails went out, and a       *)
(* completed job has its success on record.                                   *)
LogHonest ==
  \A j \in Jobs : /\ logs[j].success <= mails[j]
                  /\ state[j] = "completed" => logs[j].success > 0

(* What Delivery sees of the queue. *)
outcome == [j \in Jobs |-> CASE state[j] = "completed" -> "done"
                             [] state[j] = "failed"    -> "givenUp"
                             [] OTHER                  -> "open"]
mailed == {j \in Jobs : mails[j] > 0}

Promise == INSTANCE Delivery

(* A job is finished once and for all, and finished well only if mailed:      *)
(* a late worker changes nothing about it.                                    *)
ImplementsDelivery == Promise!Spec

(* Every job that was added is completed or given up, even if every worker    *)
(* that takes it dies.                                                        *)
JobsEnd == \A j \in Jobs : state[j] = "waiting" ~> state[j] \in {"completed", "failed"}
=============================================================================
