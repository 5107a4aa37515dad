--------------------------- MODULE ApiKeys_proof ----------------------------
(***************************************************************************)
(* Theorems about ApiKeys for any users, keys, seeds and number of         *)
(* concurrent requests.                                                    *)
(***************************************************************************)
EXTENDS ApiKeys, FiniteSetTheorems, TLAPS

-----------------------------------------------------------------------------
(* Type correctness.  A request's user is the owner of the key it came with, *)
(* which is a user only because a key's row never outlives its owner: the    *)
(* two invariants are proved together.                                       *)

TypeInv == TypeOK /\ KeyHasOwner

LEMMA TypeInit == Init => TypeInv
<1> SUFFICES ASSUME Init PROVE TypeInv
  OBVIOUS
<1>1. TypeOK
  BY SeedAssumption DEF Init, TypeOK
<1>2. KeyHasOwner
  BY SeedAssumption DEF Init, KeyHasOwner, Exists
<1> QED
  BY <1>1, <1>2 DEF TypeInv

LEMMA RequestMoves ==
  ASSUME TypeOK, NEW q \in Requests, requests[q] # Idle, requests[q].op = "rotate",
         requests[q].target \in Keys, NEW step \in StepsOf("rotate"), Goto(q, step)
  PROVE  requests' \in [Requests -> {Idle} \cup Request]
<1> DEFINE r == requests[q]
<1>1. r \in Request
  BY DEF TypeOK
<1>2. [r EXCEPT !.step = step] \in Request
  BY <1>1 DEF Request, StepsOf, Operations
<1> QED
  BY <1>2 DEF Goto, TypeOK

LEMMA RequestEnds ==
  ASSUME TypeOK, NEW q \in Requests, End(q)
  PROVE  requests' \in [Requests -> {Idle} \cup Request]
BY DEF End, TypeOK

(* What a step names knows of its operation. *)
LEMMA StepOp ==
  ASSUME TypeOK, NEW q \in Requests
  PROVE  LET r == requests[q]
         IN  /\ r.step = "touch" => r \in Request /\ r.key \in Keys
             /\ r.step = "permit" => r \in Request
             /\ r.step = "create" => r \in Request /\ r.op = "create"
             /\ r.step \in {"rotate", "issue", "retire"} =>
                  r \in Request /\ r.op = "rotate" /\ r.target \in Keys
             /\ r.step = "revoke" => r \in Request /\ r.op = "revoke" /\ r.target \in Keys
             /\ r.step = "deleteUser" =>
                  r \in Request /\ r.op = "deleteUser" /\ r.target \in Users
<1> DEFINE r == requests[q]
<1>1. r \in Request \/ r = Idle
  BY DEF TypeOK
<1>2. CASE r = Idle
  BY <1>2 DEF Idle
<1>3. CASE r \in Request
  <2>1. /\ r.op \in {None, "create", "rotate", "revoke", "deleteUser"}
        /\ \/ r.step = "touch" /\ r.key \in Keys
           \/ r.step = "permit"
           \/ r.step \in StepsOf(r.op) /\ [op |-> r.op, target |-> r.target] \in Operations
    BY <1>3 DEF Request
  <2>2. [op |-> r.op, target |-> r.target] \in Operations =>
          /\ r.op # None
          /\ r.op \in {"rotate", "revoke"} => r.target \in Keys
          /\ r.op = "deleteUser" => r.target \in Users
    BY DEF Operations, None
  <2> QED
    BY <1>3, <2>1, <2>2 DEF StepsOf
<1> QED
  BY <1>1, <1>2, <1>3

LEMMA TypeStep == TypeInv /\ [Next]_vars => TypeInv'
<1> SUFFICES ASSUME TypeInv, [Next]_vars PROVE TypeInv'
  OBVIOUS
<1>t. TypeOK /\ KeyHasOwner
  BY DEF TypeInv
<1> DEFINE Rows == <<status, owner, replaces, users, rotations, timers>>
<1>req. ASSUME UNCHANGED Rows, process' \in {"up", "stopping", "down"},
               requests' \in [Requests -> {Idle} \cup Request]
        PROVE  TypeInv'
  BY <1>req, <1>t DEF TypeInv, TypeOK, KeyHasOwner, Exists
<1>1. ASSUME NEW q \in Requests, NEW k \in Keys, Lookup(q, k) PROVE TypeInv'
  <2>1. owner[k] \in Users
    BY <1>1, <1>t DEF Lookup, KeyHasOwner, Exists, TypeOK
  <2>2. Identified(k) \in Request
    BY <2>1 DEF Request, Identified
  <2>3. requests' \in [Requests -> {Idle} \cup Request]
    BY <1>1, <1>t, <2>2 DEF Lookup, TypeOK
  <2> QED
    BY <1>1, <1>t, <1>req, <2>3 DEF Lookup, TypeOK
<1>2. ASSUME NEW q \in Requests, Touch(q) PROVE TypeInv'
  <2> DEFINE r == requests[q]
  <2>1. r \in Request
    BY <1>2, <1>t, StepOp DEF Touch
  <2>2. [r EXCEPT !.step = "permit", !.key = None] \in Request
    BY <2>1 DEF Request
  <2>3. requests' \in [Requests -> {Idle} \cup Request]
    BY <1>2, <1>t, <2>2 DEF Touch, TypeOK
  <2> QED
    BY <1>2, <1>t, <1>req, <2>3 DEF Touch, TypeOK
<1>3. ASSUME NEW q \in Requests, NEW o \in Operations, Permit(q, o) PROVE TypeInv'
  <2> DEFINE r == requests[q]
  <2>1. r \in Request
    BY <1>3, <1>t, StepOp DEF Permit
  <2>2. /\ o.op \in {"create", "rotate", "revoke", "deleteUser"}
        /\ o.target \in {None} \cup Keys \cup Users
        /\ [op |-> o.op, target |-> o.target] \in Operations
    BY DEF Operations
  <2>3. [r EXCEPT !.step = o.op, !.op = o.op, !.target = o.target] \in Request
    BY <2>1, <2>2 DEF Request, StepsOf
  <2>4. requests' \in [Requests -> {Idle} \cup Request]
    BY <1>3, <1>t, <2>3, RequestEnds DEF Permit, TypeOK
  <2> QED
    BY <1>3, <1>t, <1>req, <2>4 DEF Permit, TypeOK
<1>issue. ASSUME NEW q \in Requests, NEW k \in Keys, NEW old \in Keys \cup {None},
                 Issue(k, requests[q].user, old), requests[q] \in Request,
                 UNCHANGED <<users, rotations, timers, process>>,
                 requests' \in [Requests -> {Idle} \cup Request]
          PROVE  TypeInv'
  <2>1. requests[q].user \in Users
    BY <1>issue DEF Request
  <2>2. TypeOK'
    BY <1>issue, <1>t, <2>1 DEF Issue, TypeOK
  <2>3. KeyHasOwner'
    BY <1>issue, <1>t DEF Issue, TypeOK, KeyHasOwner, Exists
  <2> QED
    BY <2>2, <2>3 DEF TypeInv
<1>4. ASSUME NEW q \in Requests, NEW k \in Keys, CreateKey(q, k) PROVE TypeInv'
  <2>1. requests[q] \in Request
    BY <1>4, <1>t, StepOp DEF CreateKey
  <2>2. requests' \in [Requests -> {Idle} \cup Request]
    BY <1>4, <1>t, RequestEnds DEF CreateKey
  <2> QED
    BY <1>4, <1>issue, <2>1, <2>2 DEF CreateKey
<1>5. ASSUME NEW q \in Requests, FindOld(q) PROVE TypeInv'
  <2>1. /\ requests[q] # Idle /\ requests[q].op = "rotate" /\ requests[q].target \in Keys
        /\ "issue" \in StepsOf("rotate")
    BY <1>5, <1>t, StepOp DEF FindOld, Idle, StepsOf
  <2>2. requests' \in [Requests -> {Idle} \cup Request]
    BY <1>5, <1>t, <2>1, RequestMoves DEF FindOld
  <2> QED
    BY <1>5, <1>t, <1>req, <2>2 DEF FindOld, TypeOK
<1>6. ASSUME NEW q \in Requests, NEW k \in Keys, IssueKey(q, k) PROVE TypeInv'
  <2>1. /\ requests[q] # Idle /\ requests[q].op = "rotate" /\ "retire" \in StepsOf("rotate")
        /\ requests[q] \in Request /\ requests[q].target \in Keys
    BY <1>6, <1>t, StepOp DEF IssueKey, Idle, StepsOf
  <2>2. requests' \in [Requests -> {Idle} \cup Request]
    BY <1>6, <1>t, <2>1, RequestMoves, RequestEnds DEF IssueKey
  <2> QED
    BY <1>6, <1>issue, <2>1, <2>2 DEF IssueKey
<1>7. ASSUME NEW q \in Requests, Retire(q) PROVE TypeInv'
  <2>1. requests[q].target \in Keys
    BY <1>7, <1>t, StepOp DEF Retire
  <2>2. requests' \in [Requests -> {Idle} \cup Request]
    BY <1>7, <1>t, RequestEnds DEF Retire
  <2>3. TypeOK'
    BY <1>7, <1>t, <2>1, <2>2 DEF Retire, SwitchedOff, TypeOK
  <2>4. KeyHasOwner'
    BY <1>7, <1>t, <2>1 DEF Retire, SwitchedOff, TypeOK, KeyHasOwner, Exists
  <2> QED
    BY <2>3, <2>4 DEF TypeInv
<1>8. ASSUME NEW q \in Requests, Revoke(q) PROVE TypeInv'
  <2>1. requests' \in [Requests -> {Idle} \cup Request]
    BY <1>8, <1>t, RequestEnds DEF Revoke
  <2>2. TypeOK'
    BY <1>8, <1>t, <2>1 DEF Revoke, SwitchedOff, TypeOK
  <2>3. KeyHasOwner'
    BY <1>8, <1>t DEF Revoke, SwitchedOff, TypeOK, KeyHasOwner, Exists
  <2> QED
    BY <2>2, <2>3 DEF TypeInv
<1>9. ASSUME NEW q \in Requests, DeleteUser(q) PROVE TypeInv'
  <2>1. requests' \in [Requests -> {Idle} \cup Request]
    BY <1>9, <1>t, RequestEnds DEF DeleteUser
  <2>2. TypeOK'
    BY <1>9, <1>t, <2>1 DEF DeleteUser, Removed, KeysOf, TypeOK
  <2>3. KeyHasOwner'
    BY <1>9, <1>t DEF DeleteUser, Removed, KeysOf, TypeOK, KeyHasOwner, Exists
  <2> QED
    BY <2>2, <2>3 DEF TypeInv
<1>10. ASSUME NEW q \in Requests, NotFound(q) \/ Fails(q) PROVE TypeInv'
  <2>1. requests' \in [Requests -> {Idle} \cup Request]
    BY <1>10, <1>t, RequestEnds DEF NotFound, Fails
  <2> QED
    BY <1>10, <1>t, <1>req, <2>1 DEF NotFound, Fails, TypeOK
<1>11. ASSUME NEW k \in Keys, Fire(k) PROVE TypeInv'
  <2>1. TypeOK'
    BY <1>11, <1>t DEF Fire, Removed, TypeOK
  <2>2. KeyHasOwner'
    BY <1>11, <1>t DEF Fire, Removed, TypeOK, KeyHasOwner, Exists
  <2> QED
    BY <2>1, <2>2 DEF TypeInv
<1>12. ASSUME NEW k \in Keys, FireFails(k) PROVE TypeInv'
  <2>1. status' \in [Keys -> {"unused", "active", "inactive", "deleted"}]
    BY <1>12, <1>t DEF FireFails, Removed, TypeOK
  <2>2. TypeOK'
    BY <1>12, <1>t, <2>1 DEF FireFails, TypeOK
  <2>3. KeyHasOwner'
    BY <1>12, <1>t DEF FireFails, Removed, TypeOK, KeyHasOwner, Exists
  <2> QED
    BY <2>2, <2>3 DEF TypeInv
<1>13. ASSUME NEW k \in Keys, FireMissing(k) PROVE TypeInv'
  <2>1. TypeOK'
    BY <1>13, <1>t DEF FireMissing, TypeOK
  <2>2. KeyHasOwner'
    BY <1>13, <1>t DEF FireMissing, KeyHasOwner, Exists
  <2> QED
    BY <2>1, <2>2 DEF TypeInv
<1>14. CASE Signal \/ Exit \/ Crash \/ Restart \/ UNCHANGED vars
  <2>1. TypeOK'
    BY <1>14, <1>t DEF Signal, Exit, Crash, Restart, vars, Down, TypeOK
  <2>2. KeyHasOwner'
    BY <1>14, <1>t DEF Signal, Exit, Crash, Restart, vars, KeyHasOwner, Exists
  <2> QED
    BY <2>1, <2>2 DEF TypeInv
<1> QED
  BY <1>1, <1>2, <1>3, <1>4, <1>5, <1>6, <1>7, <1>8, <1>9, <1>10, <1>11, <1>12, <1>13, <1>14
  DEF Next, Step

(* Requests and rows keep their types under every interleaving. *)
THEOREM TypeCorrect == Spec => []TypeOK
<1> QED BY TypeInit, TypeStep, PTL DEF Spec, TypeInv

(* A key's row never outlives its owner's. *)
THEOREM OwnerCorrect == Spec => []KeyHasOwner
<1> QED BY TypeInit, TypeStep, PTL DEF Spec, TypeInv

-----------------------------------------------------------------------------
(* The timers.  That a deletion is explained needs the count of timers to be *)
(* bounded by the count of rotations, and that count needs every timer's key *)
(* to have been switched off.                                                *)

TimerInv == TypeInv /\ TimersOnlyForRetired /\ DeletionExplained

LEMMA TimerInit == Init => TimerInv
<1> SUFFICES ASSUME Init PROVE TimersOnlyForRetired /\ DeletionExplained
  BY TypeInit DEF TimerInv
<1> QED
  BY DEF Init, TimersOnlyForRetired, DeletionExplained

LEMMA TimerStep == TimerInv /\ [Next]_vars => TimerInv'
<1> SUFFICES ASSUME TimerInv, [Next]_vars PROVE TimerInv'
  OBVIOUS
<1>t. TypeInv' /\ TypeOK /\ TimersOnlyForRetired /\ DeletionExplained
  BY TypeStep DEF TimerInv, TypeInv
<1>same. ASSUME UNCHANGED <<status, owner, users, rotations, timers>> PROVE TimerInv'
  BY <1>same, <1>t DEF TimerInv, TimersOnlyForRetired, DeletionExplained
<1>1. ASSUME NEW q \in Requests, NEW k \in Keys, NEW u, NEW old, Issue(k, u, old),
             UNCHANGED <<users, rotations, timers>>
      PROVE  TimerInv'
  BY <1>1, <1>t DEF Issue, TypeOK, TimerInv, TimersOnlyForRetired, DeletionExplained
<1>2. ASSUME NEW q \in Requests, Retire(q) PROVE TimerInv'
  <2> DEFINE k == requests[q].target
  <2>1. k \in Keys
    BY <1>2, <1>t, StepOp DEF Retire
  <2>2. \A j \in Keys : timers[j] \in Nat /\ rotations[j] \in Nat
    BY <1>t DEF TypeOK
  <2>3. /\ status' = [status EXCEPT ![k] = "inactive"] /\ Exists(k)
        /\ \/ /\ rotations' = [rotations EXCEPT ![k] = @ + 1]
              /\ timers' = [timers EXCEPT ![k] = @ + 1]
           \/ UNCHANGED <<rotations, timers>>
        /\ users' = users /\ owner' = owner
    BY <1>2 DEF Retire, SwitchedOff
  <2> HIDE DEF k
  <2>4. TimersOnlyForRetired'
    BY <1>t, <2>1, <2>2, <2>3 DEF TypeOK, TimersOnlyForRetired
  <2>5. DeletionExplained'
    BY <1>t, <2>1, <2>2, <2>3 DEF Exists, TypeOK, DeletionExplained
  <2> QED
    BY <1>t, <2>4, <2>5 DEF TimerInv
<1>3. ASSUME NEW q \in Requests, Revoke(q) PROVE TimerInv'
  BY <1>3, <1>t DEF Revoke, SwitchedOff, TypeOK, TimerInv, TimersOnlyForRetired, DeletionExplained
<1>4. ASSUME NEW q \in Requests, DeleteUser(q) PROVE TimerInv'
  <2>1. TimersOnlyForRetired'
    BY <1>4, <1>t DEF DeleteUser, Removed, KeysOf, TypeOK, TimersOnlyForRetired
  <2>2. DeletionExplained'
    BY <1>4, <1>t DEF DeleteUser, Removed, KeysOf, TypeOK, DeletionExplained
  <2> QED
    BY <1>t, <2>1, <2>2 DEF TimerInv
<1>5. ASSUME NEW k \in Keys, Fire(k) \/ FireFails(k) PROVE TimerInv'
  <2>1. \A j \in Keys : timers[j] \in Nat /\ rotations[j] \in Nat
    BY <1>t DEF TypeOK
  <2>2. /\ timers[k] > 0 /\ timers' = [timers EXCEPT ![k] = @ - 1]
        /\ status' = status \/ status' = Removed({k})
        /\ UNCHANGED <<owner, users, rotations>>
    BY <1>5 DEF Fire, FireFails
  <2>3. TimersOnlyForRetired'
    BY <1>t, <2>1, <2>2 DEF Removed, TypeOK, TimersOnlyForRetired
  <2>4. DeletionExplained'
    BY <1>t, <2>1, <2>2 DEF Removed, TypeOK, TimersOnlyForRetired, DeletionExplained
  <2> QED
    BY <1>t, <2>3, <2>4 DEF TimerInv
<1>down. ASSUME Down, UNCHANGED <<status, owner, users, rotations>> PROVE TimerInv'
  <2>1. \A j \in Keys : timers[j] \in Nat /\ rotations[j] \in Nat /\ timers'[j] = 0
    BY <1>down, <1>t DEF Down, TypeOK
  <2>2. TimersOnlyForRetired' /\ DeletionExplained'
    BY <1>down, <1>t, <2>1 DEF TimersOnlyForRetired, DeletionExplained
  <2> QED
    BY <1>t, <2>2 DEF TimerInv
<1>6. ASSUME NEW k \in Keys, FireMissing(k) PROVE TimerInv'
  <2>1. \A j \in Keys : timers[j] \in Nat /\ rotations[j] \in Nat
    BY <1>t DEF TypeOK
  <2>2. TimersOnlyForRetired' /\ DeletionExplained'
    BY <1>6, <1>t, <2>1 DEF FireMissing, TypeOK, TimersOnlyForRetired, DeletionExplained
  <2> QED
    BY <1>t, <2>2 DEF TimerInv
<1>7. CASE Exit \/ Crash
  BY <1>7, <1>down DEF Exit, Crash
<1>8. CASE Signal \/ Restart \/ UNCHANGED vars
  BY <1>8, <1>same DEF Signal, Restart, vars
<1>9. ASSUME NEW q \in Requests, NEW k \in Keys, Lookup(q, k) PROVE TimerInv'
  BY <1>9, <1>same DEF Lookup
<1>10. ASSUME NEW q \in Requests, NEW k \in Keys, CreateKey(q, k) \/ IssueKey(q, k)
       PROVE  TimerInv'
  BY <1>10, <1>1 DEF CreateKey, IssueKey
<1>11. ASSUME NEW q \in Requests, Touch(q) \/ FindOld(q) \/ NotFound(q) \/ Fails(q)
       PROVE  TimerInv'
  BY <1>11, <1>same DEF Touch, FindOld, NotFound, Fails
<1>12. ASSUME NEW q \in Requests, NEW o \in Operations, Permit(q, o) PROVE TimerInv'
  BY <1>12, <1>same DEF Permit
<1> QED
  BY <1>2, <1>3, <1>4, <1>5, <1>6, <1>7, <1>8, <1>9, <1>10, <1>11, <1>12 DEF Next, Step

(* Pending timers only ever concern keys that a rotation switched off. *)
THEOREM TimersCorrect == Spec => []TimersOnlyForRetired
<1> QED BY TimerInit, TimerStep, PTL DEF Spec, TimerInv

(* A key disappears only when one of its timers has run or with its owner. *)
THEOREM DeletionCorrect == Spec => []DeletionExplained
<1> QED BY TimerInit, TimerStep, PTL DEF Spec, TimerInv

-----------------------------------------------------------------------------
(* A rotation issues before it retires.  The invariant counts the successors *)
(* of a key against its rotations and the requests about to retire it.       *)

Successors(k) == {j \in Keys : replaces[j] = k /\ status[j] # "unused"}

Retiring(k) == {q \in Requests : requests[q].step = "retire" /\ requests[q].target = k}

SuccessorInv ==
  TypeInv /\ \A k \in Keys :
               rotations[k] + Cardinality(Retiring(k)) <= Cardinality(Successors(k))

LEMMA Finite ==
  ASSUME NEW k
  PROVE  /\ IsFiniteSet(Successors(k)) /\ Cardinality(Successors(k)) \in Nat
         /\ IsFiniteSet(Retiring(k)) /\ Cardinality(Retiring(k)) \in Nat
BY SeedAssumption, FS_Subset, FS_CardinalityType DEF Successors, Retiring

LEMMA SuccessorInit == Init => SuccessorInv
<1> SUFFICES ASSUME Init, NEW k \in Keys
             PROVE  rotations[k] + Cardinality(Retiring(k)) <= Cardinality(Successors(k))
  BY TypeInit DEF SuccessorInv
<1>1. Retiring(k) = {} /\ rotations[k] = 0
  BY DEF Init, Retiring, Idle
<1> QED
  BY <1>1, Finite, FS_EmptySet

(* A step that retires nothing more and loses no successor keeps the count. *)
LEMMA CountKept ==
  ASSUME SuccessorInv, TypeInv', rotations' = rotations,
         \A k \in Keys : Retiring(k)' \subseteq Retiring(k),
         \A k \in Keys : Successors(k) \subseteq Successors(k)'
  PROVE  SuccessorInv'
<1> SUFFICES ASSUME NEW k \in Keys
             PROVE  rotations[k]' + Cardinality(Retiring(k)') <= Cardinality(Successors(k)')
  BY DEF SuccessorInv
<1>1. Cardinality(Retiring(k)') <= Cardinality(Retiring(k))
  BY Finite, FS_Subset
<1>2. IsFiniteSet(Successors(k)')
  BY SeedAssumption, FS_Subset DEF Successors
<1>3. Cardinality(Successors(k)) <= Cardinality(Successors(k)')
  BY <1>2, FS_Subset
<1>4. Cardinality(Retiring(k)') \in Nat /\ Cardinality(Successors(k)') \in Nat
  BY <1>1, <1>2, Finite, FS_Subset, FS_CardinalityType
<1>5. rotations[k] + Cardinality(Retiring(k)) <= Cardinality(Successors(k))
      /\ rotations[k] \in Nat
  BY DEF SuccessorInv, TypeInv, TypeOK
<1> QED
  BY <1>1, <1>3, <1>4, <1>5, Finite

LEMMA SuccessorStep == SuccessorInv /\ [Next]_vars => SuccessorInv'
<1> SUFFICES ASSUME SuccessorInv, [Next]_vars PROVE SuccessorInv'
  OBVIOUS
<1>t. TypeInv /\ TypeInv' /\ TypeOK
  BY TypeStep DEF SuccessorInv, TypeInv
<1>kept. ASSUME UNCHANGED <<replaces, rotations>>,
                \A k \in Keys : status[k] # "unused" => status'[k] # "unused",
                \A q \in Requests : requests'[q] = requests[q] \/ requests'[q].step # "retire"
         PROVE  SuccessorInv'
  <2>1. \A k \in Keys : Retiring(k)' \subseteq Retiring(k)
    BY <1>kept DEF Retiring
  <2>2. \A k \in Keys : Successors(k) \subseteq Successors(k)'
    BY <1>kept DEF Successors
  <2> QED
    BY <1>t, <1>kept, <2>1, <2>2, CountKept
<1>1. ASSUME NEW q \in Requests, NEW k \in Keys, Lookup(q, k) PROVE SuccessorInv'
  <2>1. \A p \in Requests : requests'[p] = requests[p] \/ requests'[p].step # "retire"
    BY <1>1, <1>t DEF Lookup, Identified, TypeOK
  <2> QED
    BY <1>1, <1>kept, <2>1 DEF Lookup
<1>goto. ASSUME NEW q \in Requests, NEW step, Goto(q, step), step # "retire"
         PROVE  \A p \in Requests : requests'[p] = requests[p] \/ requests'[p].step # "retire"
  <2>1. \A p \in Requests \ {q} : requests'[p] = requests[p]
    BY <1>goto, <1>t DEF Goto, TypeOK
  <2>2. requests[q] = Idle => requests'[q].step # "retire"
    BY <1>goto, <1>t DEF Goto, TypeOK, Idle
  <2>3. requests[q] \in Request => requests'[q].step # "retire"
    BY <1>goto, <1>t DEF Goto, TypeOK, Request
  <2> QED
    BY <1>t, <2>1, <2>2, <2>3 DEF TypeOK
<1>end. ASSUME NEW q \in Requests, End(q)
        PROVE  \A p \in Requests : requests'[p] = requests[p] \/ requests'[p].step # "retire"
  BY <1>end, <1>t DEF End, TypeOK, Idle
<1>2. ASSUME NEW q \in Requests, Touch(q) PROVE SuccessorInv'
  <2>1. requests[q] \in Request
    BY <1>2, <1>t, StepOp DEF Touch
  <2>2. \A p \in Requests : requests'[p] = requests[p] \/ requests'[p].step # "retire"
    BY <1>2, <1>t, <2>1 DEF Touch, TypeOK, Request
  <2> QED
    BY <1>2, <1>kept, <2>2 DEF Touch
<1>3. ASSUME NEW q \in Requests, NEW o \in Operations, Permit(q, o) PROVE SuccessorInv'
  <2>1. requests[q] \in Request /\ o.op # "retire"
    BY <1>3, <1>t, StepOp DEF Permit, Operations
  <2>2. CASE End(q)
    BY <1>3, <1>kept, <1>end, <2>2 DEF Permit
  <2>3. CASE requests' = [requests EXCEPT ![q].step = o.op, ![q].op = o.op, ![q].target = o.target]
    <3>1. \A p \in Requests : requests'[p] = requests[p] \/ requests'[p].step # "retire"
      BY <1>t, <2>1, <2>3 DEF TypeOK, Request
    <3> QED
      BY <1>3, <1>kept, <3>1 DEF Permit
  <2> QED
    BY <1>3, <2>2, <2>3 DEF Permit
<1>4. ASSUME NEW q \in Requests, NEW k \in Keys, CreateKey(q, k) PROVE SuccessorInv'
  <2>1. \A p \in Requests : requests'[p] = requests[p] \/ requests'[p].step # "retire"
    BY <1>4, <1>end DEF CreateKey
  <2>2. \A j \in Keys : Retiring(j)' \subseteq Retiring(j)
    BY <2>1 DEF Retiring
  <2>3. \A j \in Keys : Successors(j) \subseteq Successors(j)'
    BY <1>4, <1>t DEF CreateKey, Issue, Successors, TypeOK
  <2> QED
    BY <1>4, <1>t, <2>2, <2>3, CountKept DEF CreateKey
<1>5. ASSUME NEW q \in Requests, FindOld(q) PROVE SuccessorInv'
  BY <1>5, <1>goto, <1>kept DEF FindOld
<1>issued. ASSUME NEW q \in Requests, NEW n \in Keys, IssueKey(q, n), End(q)
           PROVE  SuccessorInv'
  <2>1. \A j \in Keys : Retiring(j)' \subseteq Retiring(j)
    BY <1>issued, <1>end DEF Retiring
  <2>2. \A j \in Keys : Successors(j) \subseteq Successors(j)'
    BY <1>issued, <1>t DEF IssueKey, Issue, Successors, TypeOK
  <2> QED
    BY <1>issued, <1>t, <2>1, <2>2, CountKept DEF IssueKey
<1>6. ASSUME NEW q \in Requests, NEW n \in Keys, IssueKey(q, n), Goto(q, "retire")
      PROVE  SuccessorInv'
  <2> SUFFICES ASSUME NEW k \in Keys
               PROVE  rotations[k]' + Cardinality(Retiring(k)') <= Cardinality(Successors(k)')
    BY <1>t DEF SuccessorInv
  <2> DEFINE old == requests[q].target
  <2>1. /\ status[n] = "unused" /\ status' = [status EXCEPT ![n] = "active"]
        /\ replaces' = [replaces EXCEPT ![n] = old] /\ rotations' = rotations
        /\ requests' = [requests EXCEPT ![q].step = "retire"]
        /\ requests[q].step = "issue" /\ requests[q] \in Request
    BY <1>6, <1>t, StepOp DEF IssueKey, Issue, Goto
  <2>2. /\ requests'[q].step = "retire" /\ requests'[q].target = old
        /\ \A p \in Requests \ {q} : requests'[p] = requests[p]
    BY <1>t, <2>1 DEF TypeOK, Request
  <2>3. CASE k = old
    <3>1. Retiring(k)' = Retiring(k) \cup {q} /\ q \notin Retiring(k)
      BY <2>1, <2>2, <2>3 DEF Retiring
    <3>2. Successors(k)' = Successors(k) \cup {n} /\ n \notin Successors(k)
      BY <1>t, <2>1, <2>3 DEF Successors, TypeOK
    <3>3. /\ Cardinality(Retiring(k)') = Cardinality(Retiring(k)) + 1
          /\ Cardinality(Successors(k)') = Cardinality(Successors(k)) + 1
      BY <3>1, <3>2, Finite, FS_AddElement
    <3> QED
      BY <1>t, <2>1, <3>3, Finite DEF SuccessorInv, TypeOK
  <2>4. CASE k # old
    <3>1. Retiring(k)' = Retiring(k)
      BY <2>1, <2>2, <2>4 DEF Retiring
    <3>2. Successors(k)' = Successors(k)
      BY <1>t, <2>1, <2>4 DEF Successors, TypeOK
    <3> QED
      BY <2>1, <3>1, <3>2 DEF SuccessorInv
  <2> QED
    BY <2>3, <2>4
<1>lost. ASSUME NEW q \in Requests, Retire(q), rotations' = rotations PROVE SuccessorInv'
  <2>1. \A k \in Keys : status[k] # "unused" => status'[k] # "unused"
    BY <1>lost, <1>t DEF Retire, SwitchedOff, TypeOK
  <2> QED
    BY <1>lost, <1>kept, <1>end, <2>1 DEF Retire
<1>7. ASSUME NEW q \in Requests, Retire(q),
             rotations' = [rotations EXCEPT ![requests[q].target] = @ + 1]
      PROVE  SuccessorInv'
  <2> SUFFICES ASSUME NEW k \in Keys
               PROVE  rotations[k]' + Cardinality(Retiring(k)') <= Cardinality(Successors(k)')
    BY <1>t DEF SuccessorInv
  <2> DEFINE old == requests[q].target
  <2>1. /\ old \in Keys /\ Exists(old) /\ requests[q].step = "retire"
        /\ status' = [status EXCEPT ![old] = "inactive"] /\ replaces' = replaces
        /\ rotations' = [rotations EXCEPT ![old] = @ + 1]
        /\ requests' = [requests EXCEPT ![q] = Idle]
    BY <1>7, <1>t, StepOp DEF Retire, SwitchedOff, End
  <2>2. Successors(k)' = Successors(k)
    BY <1>t, <2>1 DEF Successors, TypeOK, Exists
  <2>3. CASE k = old
    <3>1. Retiring(k)' = Retiring(k) \ {q} /\ q \in Retiring(k)
      BY <1>t, <2>1, <2>3 DEF Retiring, TypeOK, Idle
    <3>2. Cardinality(Retiring(k)') = Cardinality(Retiring(k)) - 1
      BY <3>1, Finite, FS_RemoveElement
    <3>3. rotations'[k] = rotations[k] + 1 /\ rotations[k] \in Nat
      BY <1>t, <2>1, <2>3 DEF TypeOK
    <3> QED
      BY <2>2, <3>2, <3>3, Finite DEF SuccessorInv
  <2>4. CASE k # old
    <3>1. Retiring(k)' = Retiring(k)
      BY <1>t, <2>1, <2>4 DEF Retiring, TypeOK, Idle
    <3>2. rotations'[k] = rotations[k]
      BY <1>t, <2>1, <2>4 DEF TypeOK
    <3> QED
      BY <2>2, <3>1, <3>2 DEF SuccessorInv
  <2> QED
    BY <2>3, <2>4
<1>8. ASSUME NEW q \in Requests, Revoke(q) \/ DeleteUser(q) \/ NotFound(q) \/ Fails(q)
      PROVE  SuccessorInv'
  <2>1. \A p \in Requests : requests'[p] = requests[p] \/ requests'[p].step # "retire"
    BY <1>8, <1>end DEF Revoke, DeleteUser, NotFound, Fails
  <2>2. \A k \in Keys : status[k] # "unused" => status'[k] # "unused"
    BY <1>8, <1>t DEF Revoke, DeleteUser, NotFound, Fails, SwitchedOff, Removed, KeysOf, TypeOK
  <2> QED
    BY <1>8, <1>kept, <2>1, <2>2 DEF Revoke, DeleteUser, NotFound, Fails
<1>down. ASSUME Down PROVE \A p \in Requests : requests'[p].step # "retire"
  BY <1>down DEF Down, Idle
<1>9. ASSUME NEW k \in Keys, Fire(k) \/ FireMissing(k) \/ FireFails(k) PROVE SuccessorInv'
  <2>1. \A p \in Requests : requests'[p] = requests[p] \/ requests'[p].step # "retire"
    BY <1>9 DEF Fire, FireMissing, FireFails
  <2>2. \A j \in Keys : status[j] # "unused" => status'[j] # "unused"
    BY <1>9, <1>t DEF Fire, FireMissing, FireFails, Removed, TypeOK
  <2> QED
    BY <1>9, <1>kept, <2>1, <2>2 DEF Fire, FireMissing, FireFails
<1>10. CASE Signal \/ Exit \/ Crash \/ Restart \/ UNCHANGED vars
  BY <1>10, <1>kept, <1>down DEF Signal, Exit, Crash, Restart, vars
<1> QED
  <2>1. ASSUME NEW q \in Requests, Retire(q) PROVE SuccessorInv'
    BY <1>lost, <1>7, <2>1 DEF Retire
  <2>2. ASSUME NEW q \in Requests, NEW k \in Keys, IssueKey(q, k) PROVE SuccessorInv'
    BY <1>issued, <1>6, <2>2 DEF IssueKey
  <2> QED
    BY <1>1, <1>2, <1>3, <1>4, <1>5, <1>8, <1>9, <1>10, <2>1, <2>2 DEF Next, Step

(* A key is never switched off by more rotations than have issued successors *)
(* for it.                                                                   *)
THEOREM SuccessorCorrect == Spec => []SuccessorFirst
<1>1. SuccessorInv => SuccessorFirst
  <2> SUFFICES ASSUME SuccessorInv, NEW k \in Keys
               PROVE  rotations[k] <= Cardinality(Successors(k))
    BY DEF SuccessorFirst, Successors
  <2>1. rotations[k] \in Nat
    BY DEF SuccessorInv, TypeInv, TypeOK
  <2>2. Cardinality(Successors(k)) \in Nat /\ Cardinality(Retiring(k)) \in Nat
    BY Finite
  <2>3. rotations[k] + Cardinality(Retiring(k)) <= Cardinality(Successors(k))
    BY DEF SuccessorInv
  <2>4. \A a, b, c \in Nat : a + b <= c => a <= c
    BY SMTT(30)
  <2> QED
    BY <2>1, <2>2, <2>3, <2>4
<1> QED
  BY <1>1, SuccessorInit, SuccessorStep, PTL DEF Spec

-----------------------------------------------------------------------------
(* Refinement: every step of the requests, timers and process is a step of  *)
(* a key's promised life or leaves all keys as they are.                    *)

LEMMA LifecycleStep == TypeInv /\ [Next]_vars => [Lifecycle!Next]_status
<1> SUFFICES ASSUME TypeInv, [Next]_vars PROVE Lifecycle!Next \/ status' = status
  OBVIOUS
<1>t. TypeOK
  BY DEF TypeInv
<1>1. ASSUME NEW k \in Keys, NEW u, NEW old, Issue(k, u, old) PROVE Lifecycle!Next
  BY <1>1 DEF Issue, Lifecycle!Next, Lifecycle!Issue
<1>2. ASSUME NEW k \in Keys, Exists(k), status' = [status EXCEPT ![k] = "inactive"]
      PROVE  Lifecycle!Next \/ status' = status
  <2>1. CASE status[k] = "active"
    BY <1>2, <2>1 DEF Lifecycle!Next, Lifecycle!SwitchOff
  <2>2. CASE status[k] = "inactive"
    BY <1>t, <1>2, <2>2 DEF TypeOK
  <2> QED
    BY <1>2, <2>1, <2>2 DEF Exists
<1>3. ASSUME NEW S \in SUBSET Keys, \A k \in S : Exists(k),
             status' = [k \in Keys |-> IF k \in S THEN "deleted" ELSE status[k]]
      PROVE  Lifecycle!Next
  BY <1>3 DEF Exists, Lifecycle!Next, Lifecycle!Remove, Lifecycle!Exists
<1>4. ASSUME NEW q \in Requests, NEW k \in Keys, CreateKey(q, k) \/ IssueKey(q, k)
      PROVE  Lifecycle!Next
  BY <1>1, <1>4 DEF CreateKey, IssueKey
<1>5. ASSUME NEW q \in Requests, Retire(q) \/ Revoke(q)
      PROVE  Lifecycle!Next \/ status' = status
  <2>1. requests[q].target \in Keys
    BY <1>5, <1>t, StepOp DEF Retire, Revoke
  <2> QED
    BY <1>2, <1>5, <2>1 DEF Retire, Revoke, SwitchedOff
<1>6. ASSUME NEW q \in Requests, DeleteUser(q) PROVE Lifecycle!Next
  <2> DEFINE S == {k \in Keys : Exists(k) /\ owner[k] = requests[q].target}
  <2>1. status' = [k \in Keys |-> IF k \in S THEN "deleted" ELSE status[k]]
    BY <1>6 DEF DeleteUser, Removed, KeysOf
  <2>2. S \in SUBSET Keys /\ \A k \in S : Exists(k)
    OBVIOUS
  <2> QED
    BY <1>3, <2>1, <2>2
<1>7. ASSUME NEW k \in Keys, Fire(k) \/ FireFails(k), status' # status PROVE Lifecycle!Next
  <2>1. status' = [j \in Keys |-> IF j \in {k} THEN "deleted" ELSE status[j]]
    BY <1>7 DEF Fire, FireFails, Removed
  <2>2. {k} \in SUBSET Keys /\ \A j \in {k} : Exists(j)
    BY <1>7 DEF Fire, FireFails
  <2> QED
    BY <1>3, <2>1, <2>2
<1>8. ASSUME UNCHANGED status PROVE Lifecycle!Next \/ status' = status
  BY <1>8
<1> QED
  BY <1>4, <1>5, <1>6, <1>7, <1>8
  DEF Next, Step, Lookup, Touch, Permit, FindOld, NotFound, Fails, FireMissing, Signal, Exit,
      Crash, Restart, vars

(* No behaviour brings a key back to life. *)
THEOREM LifecycleCorrect == Spec => ImplementsLifecycle
<1>1. Init => Lifecycle!Init
  BY DEF Init, Lifecycle!Init
<1> QED
  BY <1>1, TypeInit, LifecycleStep, TypeStep, PTL DEF Spec, ImplementsLifecycle, Lifecycle!Spec
=============================================================================
