-------------------------- MODULE EmailQueue_proof --------------------------
(***************************************************************************)
(* Theorems about EmailQueue.  An attempt owes at most one mail, and a     *)
(* mail at most one success row, so the proofs count what is still owed:   *)
(* the workers about to send, and those about to log a success.  A job     *)
(* begins an attempt only after the last one was counted as failed or      *)
(* stalled, which bounds the mails; the last lock holder is the only       *)
(* worker on a job that no stall accounts for.                             *)
(***************************************************************************)
EXTENDS EmailQueue, FiniteSetTheorems, TLAPS

Doing == [step : Steps, job : Jobs]

(* The number of workers of which f says x. *)
Number(f, x) == Cardinality({w \in Workers : f[w] = x})

Sending(j) == Number(slots, [step |-> "send", job |-> j])
Logging(j) == Number(slots, [step |-> "logSuccess", job |-> j])

(* A job is locked while it is active, and only one that failed, or is bound  *)
(* to, has used up its attempts or its stalls; never both.                    *)
LockInv == \A j \in Jobs :
  /\ state[j] = "active" <=> lock[j] # None
  /\ state[j] \notin {"doomed", "failed"} => attempts[j] < Attempts /\ stalls[j] <= MaxStalls
  /\ attempts[j] + stalls[j] <= Attempts + MaxStalls

(* The attempt that is neither failed nor stalled. *)
Begun(j) == IF state[j] \in {"active", "completed"} THEN 1 ELSE 0

MailInv == \A j \in Jobs : mails[j] + Sending(j) <= attempts[j] + stalls[j] + Begun(j)

LogInv ==
  /\ \A j \in Jobs : logs[j].success + Logging(j) <= mails[j]
  /\ \A w \in Workers, j \in Jobs :
       slots[w] = [step |-> "complete", job |-> j] => logs[j].success > 0
  /\ \A j \in Jobs : state[j] = "completed" => logs[j].success > 0

QueueInv == TypeOK /\ LockInv /\ MailInv /\ LogInv

-----------------------------------------------------------------------------
(* Counting workers.                                                       *)

LEMMA NumberType ==
  ASSUME NEW f, NEW x
  PROVE  Number(f, x) \in Nat /\ IsFiniteSet({w \in Workers : f[w] = x})
BY FS_Subset, FS_CardinalityType, QueueAssumption DEF Number

(* From f to g, worker w turns to v. *)
Turns(f, g, w, v) == f \in [Workers -> {Free} \cup Doing] /\ g = [f EXCEPT ![w] = v]

LEMMA NumberChanges ==
  ASSUME NEW w \in Workers, NEW v, NEW x, NEW f, NEW g, Turns(f, g, w, v)
  PROVE  /\ Number(g, x) <= Number(f, x) + 1
         /\ v # x => Number(g, x) <= Number(f, x)
         /\ v # x /\ f[w] = x => Number(g, x) = Number(f, x) - 1
<1> DEFINE F == {u \in Workers : f[u] = x}
           G == {u \in Workers : g[u] = x}
<1>0. Number(f, x) = Cardinality(F) /\ Number(g, x) = Cardinality(G)
  BY DEF Number
<1>1. IsFiniteSet(F) /\ IsFiniteSet(G) /\ Cardinality(F) \in Nat /\ Cardinality(G) \in Nat
  BY NumberType DEF Number
<1>2. G \subseteq F \cup {w} /\ (v # x => G = F \ {w}) /\ (f[w] = x => w \in F)
  BY DEF Turns
<1> HIDE DEF F, G
<1>3. IsFiniteSet(F \cup {w}) /\ Cardinality(F \cup {w}) \in Nat
        /\ Cardinality(F \cup {w}) <= Cardinality(F) + 1
  <2>1. /\ IsFiniteSet(F \cup {w})
        /\ Cardinality(F \cup {w}) = Cardinality(F) \/ Cardinality(F \cup {w}) = Cardinality(F) + 1
    BY <1>1, FS_AddElement
  <2> QED
    BY <1>1, <2>1
<1>4. Cardinality(G) <= Cardinality(F) + 1
  BY <1>1, <1>2, <1>3, FS_Subset
<1>5. IsFiniteSet(F \ {w}) /\ Cardinality(F \ {w}) <= Cardinality(F)
        /\ (w \in F => Cardinality(F \ {w}) = Cardinality(F) - 1)
  BY <1>1, FS_RemoveElement, FS_Subset
<1> QED
  BY <1>0, <1>2, <1>4, <1>5

(* The same for the two numbers the invariant uses. *)
LEMMA OwedChanges ==
  ASSUME TypeOK, NEW w \in Workers, NEW v \in {Free} \cup Doing,
         slots' = [slots EXCEPT ![w] = v]
  PROVE  \A j \in Jobs :
           /\ Sending(j) \in Nat /\ Sending(j)' \in Nat
           /\ Logging(j) \in Nat /\ Logging(j)' \in Nat
           /\ Sending(j)' <= Sending(j) + 1
           /\ v # [step |-> "send", job |-> j] => Sending(j)' <= Sending(j)
           /\ v # [step |-> "send", job |-> j] /\ slots[w] = [step |-> "send", job |-> j]
                => Sending(j)' = Sending(j) - 1
           /\ Logging(j)' <= Logging(j) + 1
           /\ v # [step |-> "logSuccess", job |-> j] => Logging(j)' <= Logging(j)
           /\ v # [step |-> "logSuccess", job |-> j]
                /\ slots[w] = [step |-> "logSuccess", job |-> j]
                => Logging(j)' = Logging(j) - 1
<1> TAKE j \in Jobs
<1>1. Turns(slots, slots', w, v)
  BY DEF TypeOK, Doing, Turns
<1>2. /\ Sending(j) = Number(slots, [step |-> "send", job |-> j])
      /\ Logging(j) = Number(slots, [step |-> "logSuccess", job |-> j])
      /\ Sending(j)' = Number(slots', [step |-> "send", job |-> j])
      /\ Logging(j)' = Number(slots', [step |-> "logSuccess", job |-> j])
  BY DEF Sending, Logging, Number
<1>3. \A f, x : Number(f, x) \in Nat
  BY NumberType
<1>5. \A x :
        /\ Number(slots', x) <= Number(slots, x) + 1
        /\ v # x => Number(slots', x) <= Number(slots, x)
        /\ v # x /\ slots[w] = x => Number(slots', x) = Number(slots, x) - 1
  BY <1>1, NumberChanges
<1> QED
  BY <1>2, <1>3, <1>5

-----------------------------------------------------------------------------
(* What a worker does when it is at a step.                                *)

LEMMA AtJob ==
  ASSUME TypeOK, NEW w \in Workers, NEW s \in Steps, At(w, s)
  PROVE  /\ slots[w].job \in Jobs
         /\ slots[w] = [step |-> s, job |-> slots[w].job]
BY DEF TypeOK, At, Free, Steps

LEMMA GotoJob ==
  ASSUME TypeOK, NEW w \in Workers, NEW s \in Steps, At(w, s), NEW t \in Steps, Goto(w, t)
  PROVE  slots' = [slots EXCEPT ![w] = [step |-> t, job |-> slots[w].job]]
<1>1. slots' = [slots EXCEPT ![w] = [slots[w] EXCEPT !.step = t]]
  BY DEF Goto
<1>2. slots[w] = [step |-> s, job |-> slots[w].job]
  BY AtJob
<1>3. [slots[w] EXCEPT !.step = t] = [step |-> t, job |-> slots[w].job]
  BY <1>2
<1> QED
  BY <1>1, <1>3

-----------------------------------------------------------------------------
(* Every step preserves the invariant.                                     *)

LEMMA QueueInit == Init => QueueInv
<1> SUFFICES ASSUME Init PROVE QueueInv
  OBVIOUS
<1>1. TypeOK
  BY QueueAssumption DEF Init, TypeOK, States
<1>2. LockInv
  BY QueueAssumption DEF Init, LockInv
<1>3. \A j \in Jobs : Sending(j) = 0 /\ Logging(j) = 0
  <2> TAKE j \in Jobs
  <2>1. {w \in Workers : slots[w] = [step |-> "send", job |-> j]} = {}
    BY DEF Init, Free
  <2>2. {w \in Workers : slots[w] = [step |-> "logSuccess", job |-> j]} = {}
    BY DEF Init, Free
  <2> QED
    BY <2>1, <2>2, FS_EmptySet DEF Sending, Logging, Number
<1>4. MailInv
  BY <1>3 DEF Init, MailInv, Begun
<1>5. LogInv
  BY <1>3 DEF Init, LogInv, Free
<1> QED
  BY <1>1, <1>2, <1>4, <1>5 DEF QueueInv

(* Steps of the queue itself: what workers still owe does not change. *)
LEMMA SameOwed ==
  ASSUME UNCHANGED slots
  PROVE  \A j \in Jobs : /\ Sending(j)' = Sending(j) /\ Sending(j) \in Nat
                         /\ Logging(j)' = Logging(j) /\ Logging(j) \in Nat
BY NumberType DEF Sending, Logging, Number

LEMMA AddStep ==
  ASSUME QueueInv, NEW j \in Jobs, Add(j) \/ Due(j)
  PROVE  QueueInv'
<1>1. TypeOK'
  BY DEF QueueInv, Add, Due, TypeOK, States
<1>2. LockInv'
  BY DEF QueueInv, Add, Due, TypeOK, LockInv
<1>3. MailInv'
  BY SameOwed DEF QueueInv, Add, Due, TypeOK, MailInv, Begun
<1>4. LogInv'
  BY SameOwed DEF QueueInv, Add, Due, TypeOK, LogInv
<1> QED
  BY <1>1, <1>2, <1>3, <1>4 DEF QueueInv

LEMMA StallStep ==
  ASSUME QueueInv, NEW j \in Jobs, Stall(j)
  PROVE  QueueInv'
<1>1. attempts[j] < Attempts /\ stalls[j] <= MaxStalls
  BY DEF QueueInv, Stall, LockInv
<1>2. TypeOK'
  BY <1>1, QueueAssumption DEF QueueInv, Stall, TypeOK, States
<1>3. LockInv'
  BY <1>1, QueueAssumption DEF QueueInv, Stall, TypeOK, LockInv
<1>4. MailInv'
  BY <1>1, QueueAssumption, SameOwed DEF QueueInv, Stall, TypeOK, MailInv, Begun
<1>5. LogInv'
  BY SameOwed DEF QueueInv, Stall, TypeOK, LogInv
<1> QED
  BY <1>2, <1>3, <1>4, <1>5 DEF QueueInv

LEMMA DismissStep ==
  ASSUME QueueInv, NEW j \in Jobs, Dismiss(j)
  PROVE  QueueInv'
<1>1. TypeOK'
  BY DEF QueueInv, Dismiss, TypeOK, States
<1>2. LockInv'
  BY DEF QueueInv, Dismiss, TypeOK, LockInv
<1>3. MailInv'
  BY SameOwed DEF QueueInv, Dismiss, TypeOK, MailInv, Begun
<1>4. LogInv'
  BY SameOwed DEF QueueInv, Dismiss, TypeOK, LogInv
<1> QED
  BY <1>1, <1>2, <1>3, <1>4 DEF QueueInv

LEMMA TakeStep ==
  ASSUME QueueInv, NEW w \in Workers, NEW j \in Jobs, Take(w, j)
  PROVE  QueueInv'
<1> DEFINE v == [step |-> "send", job |-> j]
<1>1. slots' = [slots EXCEPT ![w] = v] /\ v \in {Free} \cup Doing /\ slots[w] = Free
  BY DEF Take, Locked, Doing, Steps
<1>2. TypeOK'
  BY <1>1 DEF QueueInv, Take, Locked, TypeOK, States, Doing
<1>3. LockInv'
  BY QueueAssumption DEF QueueInv, Take, Locked, TypeOK, LockInv
<1>4. \A i \in Jobs : /\ Sending(i)' \in Nat /\ Sending(i) \in Nat
                      /\ Sending(i)' <= Sending(i) + 1
                      /\ i # j => Sending(i)' <= Sending(i)
                      /\ Logging(i)' \in Nat /\ Logging(i) \in Nat
                      /\ Logging(i)' <= Logging(i)
  <2> TAKE i \in Jobs
  <2>1. (i # j => v # [step |-> "send", job |-> i]) /\ v # [step |-> "logSuccess", job |-> i]
    OBVIOUS
  <2> HIDE DEF v
  <2> QED
    BY <1>1, <2>1, OwedChanges DEF QueueInv
<1>5. MailInv'
  BY <1>4 DEF QueueInv, Take, Locked, TypeOK, MailInv, Begun
<1>6. LogInv'
  BY <1>1, <1>4 DEF QueueInv, Take, Locked, TypeOK, LogInv
<1> QED
  BY <1>2, <1>3, <1>5, <1>6 DEF QueueInv

(* The mail is sent, or only seems not to be: a worker that owed a mail no    *)
(* longer does, and owes a success row only if there is a mail.               *)
LEMMA SendStep ==
  ASSUME QueueInv, NEW w \in Workers, Sent(w) \/ SendFails(w)
  PROVE  QueueInv'
<1> DEFINE j == slots[w].job
           t == IF Sent(w) THEN "logSuccess" ELSE "logFailure"
           v == [step |-> t, job |-> j]
<1>1. At(w, "send") /\ Goto(w, t) /\ t \in Steps /\ "send" \in Steps
        /\ UNCHANGED <<state, attempts, stalls, lock, logs>>
  BY DEF Sent, SendFails, Steps
<1>2. j \in Jobs /\ slots[w] = [step |-> "send", job |-> j] /\ slots' = [slots EXCEPT ![w] = v]
  BY <1>1, AtJob, GotoJob DEF QueueInv
<1>3. \/ mails' = mails /\ ~Sent(w)
      \/ mails' = [mails EXCEPT ![j] = @ + 1]
  BY DEF Sent, SendFails, At, Goto
<1>4. v \in {Free} \cup Doing
  BY <1>1, <1>2 DEF Doing
<1>5. \A i \in Jobs : /\ Sending(i)' \in Nat /\ Sending(i) \in Nat
                      /\ Sending(i)' <= Sending(i)
                      /\ i = j => Sending(i)' = Sending(i) - 1
                      /\ Logging(i)' \in Nat /\ Logging(i) \in Nat
                      /\ Logging(i)' <= Logging(i) + 1
                      /\ i # j \/ ~Sent(w) => Logging(i)' <= Logging(i)
  <2> TAKE i \in Jobs
  <2>1. /\ v # [step |-> "send", job |-> i]
        /\ i # j \/ ~Sent(w) => v # [step |-> "logSuccess", job |-> i]
    OBVIOUS
  <2> HIDE DEF v, j
  <2> QED
    BY <1>2, <1>4, <2>1, OwedChanges DEF QueueInv
<1>6. TypeOK'
  BY <1>1, <1>2, <1>3, <1>4 DEF QueueInv, TypeOK, Doing
<1>7. LockInv'
  BY <1>1 DEF QueueInv, LockInv
<1> HIDE DEF j, v, t
<1>8. MailInv'
  BY <1>1, <1>2, <1>3, <1>5 DEF QueueInv, MailInv, Begun, TypeOK
<1>9. LogInv'
  <2>1. \A u \in Workers, i \in Jobs :
          slots'[u] = [step |-> "complete", job |-> i] => slots[u] = slots'[u]
    BY <1>2 DEF QueueInv, TypeOK, v, t
  <2> QED
    BY <1>1, <1>2, <1>3, <1>5, <2>1 DEF QueueInv, LogInv, TypeOK
<1> QED
  BY <1>6, <1>7, <1>8, <1>9 DEF QueueInv

(* The outcome is logged or is not: a success row was owed. *)
LEMMA LogStep ==
  ASSUME QueueInv, NEW w \in Workers, LogSuccess(w) \/ LogSuccessFails(w) \/ LogFailure(w)
  PROVE  QueueInv'
<1> DEFINE j == slots[w].job
           s == IF LogFailure(w) THEN "logFailure" ELSE "logSuccess"
           t == IF LogSuccess(w) THEN "complete"
                ELSE IF LogFailure(w) THEN "throw" ELSE "logFailure"
           v == [step |-> t, job |-> j]
<1>1. At(w, s) /\ Goto(w, t) /\ t \in Steps /\ s \in Steps
        /\ UNCHANGED <<state, attempts, stalls, lock, mails>>
        /\ ~(LogSuccess(w) /\ LogFailure(w))
  <2>1. CASE LogSuccess(w)
    BY <2>1 DEF LogSuccess, LogFailure, Steps, At
  <2>2. CASE LogSuccessFails(w) /\ ~LogSuccess(w)
    BY <2>2 DEF LogSuccessFails, LogFailure, Steps, At
  <2>3. CASE LogFailure(w) /\ ~LogSuccess(w)
    BY <2>3 DEF LogFailure, Steps
  <2> QED
    BY <2>1, <2>2, <2>3
<1>2. j \in Jobs /\ slots[w] = [step |-> s, job |-> j] /\ slots' = [slots EXCEPT ![w] = v]
  BY <1>1, AtJob, GotoJob DEF QueueInv
<1>3. /\ logs' \in [Jobs -> [success : Nat, failed : Nat]]
      /\ \A i \in Jobs : \/ logs'[i].success = logs[i].success /\ (i # j \/ ~LogSuccess(w))
                         \/ logs'[i].success = logs[i].success + 1 /\ i = j /\ ~LogFailure(w)
  <2>1. CASE logs' = logs /\ ~LogSuccess(w)
    BY <2>1 DEF QueueInv, TypeOK
  <2>2. CASE logs' = [logs EXCEPT ![j].success = @ + 1] /\ ~LogFailure(w)
    BY <1>2, <2>2 DEF QueueInv, TypeOK
  <2>3. CASE logs' = [logs EXCEPT ![j].failed = @ + 1] /\ LogFailure(w) /\ ~LogSuccess(w)
    BY <1>2, <2>3 DEF QueueInv, TypeOK
  <2> QED
    BY <1>1, <2>1, <2>2, <2>3, Zenon DEF LogSuccess, LogSuccessFails, LogFailure, At, Written
<1>4. v \in {Free} \cup Doing
  BY <1>1, <1>2 DEF Doing
<1>5. \A i \in Jobs : /\ Sending(i)' \in Nat /\ Sending(i) \in Nat
                      /\ Sending(i)' <= Sending(i)
                      /\ Logging(i)' \in Nat /\ Logging(i) \in Nat
                      /\ Logging(i)' <= Logging(i)
                      /\ i = j /\ ~LogFailure(w) => Logging(i)' = Logging(i) - 1
  <2> TAKE i \in Jobs
  <2>1. v # [step |-> "send", job |-> i] /\ v # [step |-> "logSuccess", job |-> i]
    BY <1>1
  <2>2. i = j /\ ~LogFailure(w) => slots[w] = [step |-> "logSuccess", job |-> i]
    BY <1>2
  <2> HIDE DEF v, j
  <2> QED
    BY <1>2, <1>4, <2>1, <2>2, OwedChanges DEF QueueInv
<1>6. TypeOK'
  BY <1>1, <1>2, <1>3, <1>4 DEF QueueInv, TypeOK, Doing
<1>7. LockInv'
  BY <1>1 DEF QueueInv, LockInv
<1>8. MailInv'
  BY <1>1, <1>5 DEF QueueInv, MailInv, Begun, TypeOK
<1>9. LogInv'
  <2>1. \A u \in Workers, i \in Jobs :
          slots'[u] = [step |-> "complete", job |-> i] =>
            slots[u] = slots'[u] \/ (LogSuccess(w) /\ i = j)
    BY <1>1, <1>2 DEF QueueInv, TypeOK
  <2>2. \A i \in Jobs : /\ mails'[i] = mails[i] /\ mails[i] \in Nat /\ logs[i].success \in Nat
                        /\ logs[i].success + Logging(i) <= mails[i]
                        /\ state'[i] = state[i]
    BY <1>1 DEF QueueInv, TypeOK, LogInv
  <2>3. \A i \in Jobs : logs'[i].success \in Nat /\ logs'[i].success >= logs[i].success
                        /\ (LogSuccess(w) /\ i = j => logs'[i].success > 0)
    BY <1>1, <1>3, <2>2
  <2> HIDE DEF j, v, t, s
  <2>4. \A i \in Jobs : logs'[i].success + Logging(i)' <= mails'[i]
    BY <1>3, <1>5, <2>2
  <2>5. \A u \in Workers, i \in Jobs :
          slots'[u] = [step |-> "complete", job |-> i] => logs'[i].success > 0
    BY <2>1, <2>2, <2>3 DEF QueueInv, LogInv
  <2>6. \A i \in Jobs : state'[i] = "completed" => logs'[i].success > 0
    BY <2>2, <2>3 DEF QueueInv, LogInv
  <2> QED
    BY <2>4, <2>5, <2>6 DEF LogInv
<1> QED
  BY <1>6, <1>7, <1>8, <1>9 DEF QueueInv

(* A worker becomes free: what it owed is owed no longer. *)
Frees(w) == slots' = [slots EXCEPT ![w] = Free]

LEMMA Freed ==
  ASSUME QueueInv, NEW w \in Workers, Frees(w)
  PROVE  /\ slots' \in [Workers -> {Free} \cup Doing]
         /\ \A i \in Jobs : /\ Sending(i)' \in Nat /\ Sending(i) \in Nat
                            /\ Sending(i)' <= Sending(i)
                            /\ Logging(i)' \in Nat /\ Logging(i) \in Nat
                            /\ Logging(i)' <= Logging(i)
         /\ \A u \in Workers, i \in Jobs :
              slots'[u] = [step |-> "complete", job |-> i] => slots[u] = slots'[u]
<1>1. \A i \in Jobs : /\ Free # [step |-> "send", job |-> i]
                      /\ Free # [step |-> "logSuccess", job |-> i]
                      /\ Free # [step |-> "complete", job |-> i]
  BY DEF Free
<1>2. slots' \in [Workers -> {Free} \cup Doing]
  BY DEF QueueInv, TypeOK, Doing, Frees
<1>3. \A u \in Workers : slots'[u] = IF u = w THEN Free ELSE slots[u]
  BY DEF QueueInv, TypeOK, Frees
<1>4. \A i \in Jobs : /\ Sending(i)' \in Nat /\ Sending(i) \in Nat
                      /\ Sending(i)' <= Sending(i)
                      /\ Logging(i)' \in Nat /\ Logging(i) \in Nat
                      /\ Logging(i)' <= Logging(i)
  BY <1>1, OwedChanges DEF QueueInv, Frees
<1> QED
  BY <1>1, <1>2, <1>3, <1>4

LEMMA CrashStep ==
  ASSUME QueueInv, NEW w \in Workers, Crash(w)
  PROVE  QueueInv'
<1>1. Frees(w) /\ UNCHANGED <<state, attempts, stalls, lock, mails, logs>>
  BY DEF Crash, Frees
<1>2. TypeOK' /\ LockInv'
  BY <1>1, Freed DEF QueueInv, TypeOK, LockInv, Doing
<1>3. MailInv' /\ LogInv'
  BY <1>1, Freed DEF QueueInv, TypeOK, MailInv, Begun, LogInv
<1> QED
  BY <1>2, <1>3 DEF QueueInv

(* The verdict of a worker counts only while its job is active. *)
LEMMA HolderActive ==
  ASSUME QueueInv, NEW w \in Workers, NEW j \in Jobs, Holds(w, j)
  PROVE  state[j] = "active" /\ attempts[j] < Attempts /\ stalls[j] <= MaxStalls
BY QueueAssumption DEF QueueInv, LockInv, Holds

LEMMA CompleteStep ==
  ASSUME QueueInv, NEW w \in Workers, Complete(w)
  PROVE  QueueInv'
<1> DEFINE j == slots[w].job
<1>1. At(w, "complete") /\ "complete" \in Steps /\ Frees(w)
        /\ UNCHANGED <<attempts, stalls, mails, logs>>
  BY DEF Complete, Returns, Steps, Frees
<1>2. j \in Jobs /\ slots[w] = [step |-> "complete", job |-> j]
  BY <1>1, AtJob DEF QueueInv
<1>3. logs[j].success > 0
  BY <1>2 DEF QueueInv, LogInv
<1>4. \/ UNCHANGED <<state, lock>>
      \/ /\ Holds(w, j)
         /\ state' = [state EXCEPT ![j] = "completed"]
         /\ lock' = [lock EXCEPT ![j] = None]
  BY DEF Complete, Returns
<1> HIDE DEF j
<1>5. TypeOK'
  BY <1>1, <1>2, <1>4, Freed DEF QueueInv, TypeOK, States, Doing
<1>6. LockInv'
  BY <1>1, <1>2, <1>4, HolderActive DEF QueueInv, TypeOK, LockInv
<1>7. MailInv'
  BY <1>1, <1>2, <1>4, Freed, HolderActive DEF QueueInv, TypeOK, MailInv, Begun
<1>8. LogInv'
  BY <1>1, <1>2, <1>3, <1>4, Freed DEF QueueInv, TypeOK, LogInv
<1> QED
  BY <1>5, <1>6, <1>7, <1>8 DEF QueueInv

LEMMA ThrowStep ==
  ASSUME QueueInv, NEW w \in Workers, Throw(w)
  PROVE  QueueInv'
<1> DEFINE j == slots[w].job
<1>1. At(w, "throw") /\ "throw" \in Steps /\ Frees(w)
        /\ UNCHANGED <<stalls, mails, logs>>
  BY DEF Throw, Steps, Frees
<1>2. j \in Jobs
  BY <1>1, AtJob DEF QueueInv
<1>3. \/ UNCHANGED <<state, attempts, lock>>
      \/ /\ Holds(w, j)
         /\ attempts' = [attempts EXCEPT ![j] = @ + 1]
         /\ state' = [state EXCEPT ![j] =
                         IF attempts[j] + 1 < Attempts THEN "delayed" ELSE "failed"]
         /\ lock' = [lock EXCEPT ![j] = None]
  BY DEF Throw, Retries
<1> HIDE DEF j
<1>4. TypeOK'
  <2>1. state' \in [Jobs -> States] /\ lock' \in [Jobs -> Workers \cup {None}]
    BY <1>2, <1>3 DEF QueueInv, TypeOK, States
  <2>2. attempts' \in [Jobs -> 0..Attempts]
    BY <1>2, <1>3, HolderActive, QueueAssumption DEF QueueInv, TypeOK
  <2> QED
    BY <1>1, <2>1, <2>2, Freed DEF QueueInv, TypeOK, Doing
<1>5. LockInv'
  BY <1>1, <1>2, <1>3, HolderActive, QueueAssumption DEF QueueInv, TypeOK, LockInv
<1>6. MailInv'
  BY <1>1, <1>2, <1>3, Freed, HolderActive DEF QueueInv, TypeOK, MailInv, Begun
<1>7. LogInv'
  BY <1>1, <1>2, <1>3, Freed DEF QueueInv, TypeOK, LogInv
<1> QED
  BY <1>4, <1>5, <1>6, <1>7 DEF QueueInv

LEMMA QueueStep == QueueInv /\ [Next]_vars => QueueInv'
<1> SUFFICES ASSUME QueueInv, [Next]_vars PROVE QueueInv'
  OBVIOUS
<1>1. ASSUME NEW j \in Jobs,
             Add(j) \/ Due(j) \/ Stall(j) \/ Dismiss(j) \/ \E w \in Workers : Take(w, j)
      PROVE  QueueInv'
  BY <1>1, AddStep, StallStep, DismissStep, TakeStep
<1>2. ASSUME NEW w \in Workers, Work(w) \/ Crash(w)
      PROVE  QueueInv'
  BY <1>2, SendStep, LogStep, CompleteStep, ThrowStep, CrashStep DEF Work
<1>3. CASE UNCHANGED vars
  BY <1>3, SameOwed DEF vars, QueueInv, TypeOK, LockInv, MailInv, Begun, LogInv
<1> QED
  BY <1>1, <1>2, <1>3 DEF Next

-----------------------------------------------------------------------------
(* What follows from the invariant.                                        *)

LEMMA InvMails == QueueInv => MailsBounded
<1> SUFFICES ASSUME QueueInv, NEW j \in Jobs PROVE mails[j] <= Attempts + MaxStalls
  BY DEF MailsBounded
<1>1. Sending(j) \in Nat
  BY NumberType DEF Sending
<1> QED
  BY <1>1, QueueAssumption DEF QueueInv, TypeOK, LockInv, MailInv, Begun

LEMMA InvLogs == QueueInv => LogHonest
<1> SUFFICES ASSUME QueueInv, NEW j \in Jobs
             PROVE  /\ logs[j].success <= mails[j]
                    /\ state[j] = "completed" => logs[j].success > 0
  BY DEF LogHonest
<1>1. Logging(j) \in Nat
  BY NumberType DEF Logging
<1> QED
  BY <1>1 DEF QueueInv, TypeOK, LogInv

(* Attempts and stalls stay within the configured numbers, for any jobs and   *)
(* any number of workers: retries and lost locks cannot go on for ever.       *)
THEOREM TypeCorrect == Spec => []TypeOK
<1>1. QueueInv => TypeOK
  BY DEF QueueInv
<1> QED
  BY <1>1, QueueInit, QueueStep, PTL DEF Spec

(* A recipient gets at most one mail per attempt and tolerated stall, however *)
(* attempts of several workers overlap, fail half-way and are cut short.      *)
THEOREM MailsCorrect == Spec => []MailsBounded
BY QueueInit, QueueStep, InvMails, PTL DEF Spec

(* The log claims no success without a mail, and none is missing for a        *)
(* completed job.                                                             *)
THEOREM LogCorrect == Spec => []LogHonest
BY QueueInit, QueueStep, InvLogs, PTL DEF Spec

-----------------------------------------------------------------------------
(* Workers on one job.                                                     *)

(* All of them but the holder of the lock stem from a stall. *)
Others(j) == On(j) \ {lock[j]}

OverlapInv == \A j \in Jobs : Cardinality(Others(j)) <= stalls[j]

LEMMA OnFinite ==
  ASSUME NEW j
  PROVE  IsFiniteSet(On(j)) /\ IsFiniteSet(Others(j)) /\ Cardinality(Others(j)) \in Nat
<1>1. IsFiniteSet(On(j))
  BY QueueAssumption, FS_Subset DEF On
<1> QED
  BY <1>1, FS_Subset, FS_CardinalityType DEF Others

LEMMA FewerOthers ==
  ASSUME NEW j, NEW A, A \subseteq Others(j)
  PROVE  IsFiniteSet(A) /\ Cardinality(A) \in Nat /\ Cardinality(A) <= Cardinality(Others(j))
BY OnFinite, FS_Subset, FS_CardinalityType

(* A stall leaves one worker more without the lock. *)
LEMMA OneMoreOther ==
  ASSUME NEW j, NEW A, A \subseteq Others(j) \cup {lock[j]}
  PROVE  Cardinality(A) \in Nat /\ Cardinality(A) <= Cardinality(Others(j)) + 1
<1> DEFINE O == Others(j)
<1>1. IsFiniteSet(O) /\ Cardinality(O) \in Nat
  BY OnFinite
<1> HIDE DEF O
<1>2. /\ IsFiniteSet(O \cup {lock[j]})
      /\ \/ Cardinality(O \cup {lock[j]}) = Cardinality(O)
         \/ Cardinality(O \cup {lock[j]}) = Cardinality(O) + 1
  BY <1>1, FS_AddElement
<1>3. A \subseteq O \cup {lock[j]}
  BY DEF O
<1>4. IsFiniteSet(A) /\ Cardinality(A) <= Cardinality(O \cup {lock[j]})
  BY <1>2, <1>3, FS_Subset
<1> QED
  BY <1>1, <1>2, <1>4, FS_CardinalityType DEF O

LEMMA OverlapStep == QueueInv /\ OverlapInv /\ [Next]_vars => OverlapInv'
<1> SUFFICES ASSUME QueueInv, OverlapInv, [Next]_vars, NEW j \in Jobs
             PROVE  (Cardinality(Others(j)) <= stalls[j])'
  BY DEF OverlapInv
<1>0. stalls[j] \in Nat /\ Cardinality(Others(j)) <= stalls[j]
  BY DEF QueueInv, TypeOK, OverlapInv
<1>1. ASSUME stalls'[j] = stalls[j], Others(j)' \subseteq Others(j)
      PROVE  (Cardinality(Others(j)) <= stalls[j])'
  BY <1>0, <1>1, FewerOthers
<1>2. CASE Stall(j)
  <2>1. Others(j)' \subseteq Others(j) \cup {lock[j]} /\ stalls'[j] = stalls[j] + 1
    BY <1>2 DEF Stall, Others, On, QueueInv, TypeOK
  <2> QED
    BY <1>0, <2>1, OneMoreOther
<1>3. ASSUME NEW i \in Jobs, Add(i) \/ Due(i) \/ (Stall(i) /\ i # j) \/ Dismiss(i)
      PROVE  stalls'[j] = stalls[j] /\ Others(j)' \subseteq Others(j)
  BY <1>3 DEF Add, Due, Stall, Dismiss, Others, On, QueueInv, TypeOK
<1>4. ASSUME NEW w \in Workers, NEW i \in Jobs, Take(w, i)
      PROVE  stalls'[j] = stalls[j] /\ Others(j)' \subseteq Others(j)
  <2>1. lock[i] = None
    BY <1>4 DEF Take, Locked, QueueInv, LockInv
  <2> QED
    BY <1>4, <2>1, QueueAssumption DEF Take, Locked, Others, On, Free, QueueInv, TypeOK
<1>5. ASSUME NEW w \in Workers, NEW t, Goto(w, t), slots[w] # Free, UNCHANGED <<stalls, lock>>
      PROVE  stalls'[j] = stalls[j] /\ Others(j)' \subseteq Others(j)
  <2>1. \A u \in Workers : slots[u] # Free /\ slots'[u].job = j => slots[u].job = j
    BY <1>5 DEF Goto, QueueInv, TypeOK
  <2>2. \A u \in Workers : slots'[u] # Free => slots[u] # Free
    BY <1>5 DEF Goto, QueueInv, TypeOK
  <2> QED
    BY <1>5, <2>1, <2>2 DEF Others, On
<1>6. ASSUME NEW w \in Workers, Frees(w), UNCHANGED stalls,
             \/ UNCHANGED lock
             \/ lock[slots[w].job] = w /\ lock' = [lock EXCEPT ![slots[w].job] = None]
      PROVE  stalls'[j] = stalls[j] /\ Others(j)' \subseteq Others(j)
  BY <1>6, QueueAssumption DEF Frees, Others, On, QueueInv, TypeOK
<1>7. ASSUME NEW w \in Workers, Work(w) \/ Crash(w)
      PROVE  stalls'[j] = stalls[j] /\ Others(j)' \subseteq Others(j)
  <2>1. CASE \E t : Goto(w, t) /\ slots[w] # Free /\ UNCHANGED <<stalls, lock>>
    BY <1>5, <2>1
  <2>2. CASE /\ Frees(w) /\ UNCHANGED stalls
             /\ \/ UNCHANGED lock
                \/ lock[slots[w].job] = w /\ lock' = [lock EXCEPT ![slots[w].job] = None]
    BY <1>6, <2>2
  <2> QED
    BY <1>7, <2>1, <2>2 DEF Work, Crash, Sent, SendFails, LogSuccess, LogSuccessFails, LogFailure,
                            Complete, Returns, Throw, Holds, At, Frees
<1>8. CASE UNCHANGED vars
  BY <1>0, <1>8 DEF vars, Others, On
<1> QED
  BY <1>1, <1>2, <1>3, <1>4, <1>7, <1>8 DEF Next

LEMMA OverlapInit == Init => OverlapInv
<1> SUFFICES ASSUME Init, NEW j \in Jobs PROVE Cardinality(Others(j)) <= stalls[j]
  BY DEF OverlapInv
<1>1. Others(j) = {}
  BY DEF Init, Others, On
<1> QED
  BY <1>1, FS_EmptySet DEF Init

LEMMA InvOverlap == QueueInv /\ OverlapInv => OverlapOnlyAfterStall
<1> SUFFICES ASSUME QueueInv, OverlapInv, NEW j \in Jobs PROVE Cardinality(On(j)) <= stalls[j] + 1
  BY DEF OverlapOnlyAfterStall
<1>1. On(j) \subseteq Others(j) \cup {lock[j]}
  BY DEF Others
<1> QED
  BY <1>1, OnFinite, OneMoreOther DEF OverlapInv, QueueInv, TypeOK

(* Every worker on a job beyond the first stems from a stall of that job. *)
THEOREM OverlapCorrect == Spec => []OverlapOnlyAfterStall
BY QueueInit, QueueStep, OverlapInit, OverlapStep, InvOverlap, PTL DEF Spec

-----------------------------------------------------------------------------
(* The refinement.                                                         *)

LEMMA Outcomes ==
  ASSUME NEW j \in Jobs
  PROVE  /\ state[j] = "completed" => outcome[j] = "done"
         /\ state[j] = "failed" => outcome[j] = "givenUp"
         /\ state[j] \notin {"completed", "failed"} => outcome[j] = "open"
BY DEF outcome

(* What happens to one job's state and mails is all that Delivery sees of it. *)
LEMMA SameOutcome ==
  ASSUME \A j \in Jobs : state'[j] = state[j]
                        \/ {state[j], state'[j]} \cap {"completed", "failed"} = {}
  PROVE  outcome' = outcome
BY DEF outcome

LEMMA NewOutcome ==
  ASSUME TypeOK, NEW j \in Jobs, state[j] \in {"active", "doomed"},
         NEW s, state' = [state EXCEPT ![j] = s]
  PROVE  /\ outcome[j] = "open"
         /\ s = "completed" => outcome' = [outcome EXCEPT ![j] = "done"]
         /\ s = "failed" => outcome' = [outcome EXCEPT ![j] = "givenUp"]
         /\ s \in {"waiting", "delayed", "doomed"} => outcome' = outcome
<1>1. \A i \in Jobs : state'[i] = IF i = j THEN s ELSE state[i]
  BY DEF TypeOK
<1>2. outcome[j] = "open"
  BY Outcomes
<1>3. s = "completed" => outcome' = [outcome EXCEPT ![j] = "done"]
  BY <1>1, <1>2 DEF outcome
<1>4. s = "failed" => outcome' = [outcome EXCEPT ![j] = "givenUp"]
  BY <1>1, <1>2 DEF outcome
<1>5. s \in {"waiting", "delayed", "doomed"} => outcome' = outcome
  BY <1>1, SameOutcome
<1> QED
  BY <1>2, <1>3, <1>4, <1>5, Zenon

LEMMA NewMail ==
  ASSUME TypeOK, NEW j \in Jobs, mails' = [mails EXCEPT ![j] = @ + 1]
  PROVE  mailed' = mailed \cup {j}
BY DEF TypeOK, mailed

LEMMA DeliveryStep == QueueInv /\ [Next]_vars => [Promise!Next]_<<outcome, mailed>>
<1> SUFFICES ASSUME QueueInv, [Next]_vars PROVE [Promise!Next]_<<outcome, mailed>>
  OBVIOUS
<1>0. TypeOK
  BY DEF QueueInv
<1>1. ASSUME NEW j \in Jobs, Add(j) \/ Due(j) \/ \E w \in Workers : Take(w, j)
      PROVE  UNCHANGED <<outcome, mailed>>
  <2>1. UNCHANGED mails /\ \A i \in Jobs : state'[i] = state[i]
          \/ {state[i], state'[i]} \cap {"completed", "failed"} = {}
    BY <1>0, <1>1 DEF Add, Due, Take, Locked, TypeOK
  <2> QED
    BY <2>1, SameOutcome DEF mailed
<1>2. ASSUME NEW j \in Jobs, Stall(j) \/ Dismiss(j)
      PROVE  Promise!GiveUp(j) \/ UNCHANGED <<outcome, mailed>>
  <2>1. UNCHANGED mails /\ state[j] \in {"active", "doomed"}
          /\ \E s \in {"waiting", "doomed", "failed"} : state' = [state EXCEPT ![j] = s]
    BY <1>2 DEF Stall, Dismiss
  <2> QED
    BY <1>0, <2>1, NewOutcome DEF Promise!GiveUp, mailed
<1>3. ASSUME NEW w \in Workers, Sent(w) \/ SendFails(w)
      PROVE  Promise!Mail(slots[w].job) \/ UNCHANGED <<outcome, mailed>>
  <2>1. slots[w].job \in Jobs
    BY <1>0, <1>3, AtJob DEF Sent, SendFails, Steps
  <2>2. UNCHANGED state /\ (UNCHANGED mails \/ mails' = [mails EXCEPT ![slots[w].job] = @ + 1])
    BY <1>3 DEF Sent, SendFails
  <2> QED
    BY <1>0, <2>1, <2>2, SameOutcome, NewMail DEF Promise!Mail, mailed
<1>4. ASSUME NEW w \in Workers, Complete(w)
      PROVE  Promise!Finish(slots[w].job) \/ UNCHANGED <<outcome, mailed>>
  <2> DEFINE j == slots[w].job
  <2>1. At(w, "complete") /\ "complete" \in Steps /\ UNCHANGED mails
    BY <1>4 DEF Complete, Returns, Steps
  <2>2. j \in Jobs /\ slots[w] = [step |-> "complete", job |-> j]
    BY <1>0, <2>1, AtJob
  <2>3. j \in mailed
    <3>1. Logging(j) \in Nat
      BY NumberType DEF Logging
    <3> QED
      BY <2>2, <3>1 DEF QueueInv, TypeOK, LogInv, mailed
  <2>4. UNCHANGED state \/ (Holds(w, j) /\ state' = [state EXCEPT ![j] = "completed"])
    BY <1>4 DEF Complete, Returns
  <2> HIDE DEF j
  <2>5. CASE UNCHANGED state
    BY <2>1, <2>5, SameOutcome DEF mailed
  <2>6. CASE Holds(w, j) /\ state' = [state EXCEPT ![j] = "completed"]
    <3>1. outcome[j] = "open" /\ outcome' = [outcome EXCEPT ![j] = "done"]
      BY <1>0, <2>2, <2>6, HolderActive, NewOutcome
    <3>2. Promise!Finish(j)
      BY <2>1, <2>3, <3>1 DEF Promise!Finish, mailed
    <3> QED
      BY <3>2 DEF j
  <2> QED
    BY <2>4, <2>5, <2>6
<1>5. ASSUME NEW w \in Workers, Throw(w)
      PROVE  Promise!GiveUp(slots[w].job) \/ UNCHANGED <<outcome, mailed>>
  <2> DEFINE j == slots[w].job
  <2>1. j \in Jobs /\ UNCHANGED mails
    BY <1>0, <1>5, AtJob DEF Throw, Steps
  <2>2. \/ UNCHANGED state
        \/ Holds(w, j) /\ \E s \in {"delayed", "failed"} : state' = [state EXCEPT ![j] = s]
    BY <1>5 DEF Throw
  <2> HIDE DEF j
  <2>3. CASE UNCHANGED state
    BY <2>1, <2>3, SameOutcome DEF mailed
  <2>4. ASSUME Holds(w, j), NEW s \in {"delayed", "failed"}, state' = [state EXCEPT ![j] = s]
        PROVE  Promise!GiveUp(j) \/ UNCHANGED <<outcome, mailed>>
    <3>1. state[j] = "active"
      BY <2>1, <2>4, HolderActive
    <3> QED
      BY <1>0, <2>1, <2>4, <3>1, NewOutcome DEF Promise!GiveUp, mailed
  <2> QED
    BY <2>2, <2>3, <2>4 DEF j
<1>6. ASSUME NEW w \in Workers, LogSuccess(w) \/ LogSuccessFails(w) \/ LogFailure(w) \/ Crash(w)
      PROVE  UNCHANGED <<outcome, mailed>>
  BY <1>6, SameOutcome DEF LogSuccess, LogSuccessFails, LogFailure, Crash, mailed
<1>7. CASE UNCHANGED vars
  BY <1>7, SameOutcome DEF vars, mailed
<1>8. ASSUME NEW w \in Workers, Work(w) \/ Crash(w)
      PROVE  (\E j \in Jobs : Promise!Mail(j) \/ Promise!Finish(j) \/ Promise!GiveUp(j))
             \/ UNCHANGED <<outcome, mailed>>
  <2>1. slots[w].job \in Jobs
    BY <1>0, <1>8 DEF Work, Crash, At, TypeOK, Sent, SendFails, LogSuccess, LogSuccessFails,
                      LogFailure, Complete, Throw
  <2> QED
    BY <1>3, <1>4, <1>5, <1>6, <1>8, <2>1 DEF Work
<1> QED
  BY <1>1, <1>2, <1>7, <1>8 DEF Next, Promise!Next

LEMMA DeliveryInit == Init => Promise!Init
BY DEF Init, Promise!Init, outcome, mailed

(* The queue, with its retries, stalls, crashes and late workers, implements  *)
(* the once-and-for-all outcome of a job.                                     *)
THEOREM DeliveryCorrect == Spec => ImplementsDelivery
BY QueueInit, QueueStep, DeliveryInit, DeliveryStep, PTL DEF Spec, ImplementsDelivery, Promise!Spec
=============================================================================
