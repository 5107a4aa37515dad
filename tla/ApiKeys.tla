------------------------------ MODULE ApiKeys -------------------------------
(***************************************************************************)
(* The life of API keys under concurrent requests: authentication by key,  *)
(* ApiKeyService's create, rotate and revoke, the user deletion that takes *)
(* the user's keys along, and the in-memory timers that delete rotated     *)
(* keys after 15 minutes.                                                  *)
(*                                                                         *)
(* A request is a chain of awaited database calls.  Its steps are the      *)
(* calls after which something else may run:                               *)
(*                                                                         *)
(*   Idle --Lookup--> "touch" --Touch--> "permit" --Permit--> op           *)
(*   op = "create":     CreateKey --> Idle                                 *)
(*   op = "rotate":     FindOld --> "issue" --IssueKey--> "retire"         *)
(*                        --Retire--> Idle                                 *)
(*   op = "revoke":     Revoke --> Idle                                    *)
(*   op = "deleteUser": DeleteUser --> Idle                                *)
(*                                                                         *)
(* A repository update or delete is a findUnique and then the write, both  *)
(* failing when the row is gone; a removed row never returns, so they are  *)
(* one step.  The audit entry and the mail that follow the last write      *)
(* change no key.  Names, hashes, prefixes and tenant columns are left out.*)
(***************************************************************************)
EXTENDS Naturals, FiniteSets

CONSTANTS Users,      \* user ids
          Owners,     \* the users whose role is OWNER; the others are MEMBER
          Keys,       \* key ids; bound: those not seeded are still to be issued
          SeedOwner,  \* the keys that exist at the start, and their owners
          Requests    \* requests that can be in flight together

ASSUME SeedAssumption ==
  /\ Owners \subseteq Users
  /\ DOMAIN SeedOwner \subseteq Keys
  /\ \A k \in DOMAIN SeedOwner : SeedOwner[k] \in Users
  /\ IsFiniteSet(Keys) /\ IsFiniteSet(Requests)

VARIABLES status,     \* each key's row: unused, active, inactive or deleted
          owner,      \* each key's userId
          replaces,   \* the key at whose rotation a key was issued
          users,      \* the users that exist
          rotations,  \* history: how often a key's rotation came to its end
          timers,     \* deletions of a key pending in the process
          process,    \* "up", "stopping" (draining) or "down"
          requests    \* what each request in flight knows

vars == <<status, owner, replaces, users, rotations, timers, process, requests>>

None == "none"
Idle == [step |-> "idle"]

Unused   == {k \in Keys : status[k] = "unused"}
InFlight == {q \in Requests : requests[q] # Idle}
Creating == {q \in InFlight : requests[q].op \in {"create", "rotate"}}

(* Bug: a row's absence goes unnoticed once its key was issued. *)
EverIssued(k) == status[k] # "unused"

(* findById returns a row. *)
Exists(k) == status[k] \in {"active", "inactive"}

(* Bug: the delete call is never awaited and never sent. *)
RemovedNone(S) == status

(* The rows of S are deleted. *)
Removed(S) == [k \in Keys |-> IF k \in S THEN "deleted" ELSE status[k]]

(* Bug: a switched-off key keeps working. *)
StaysOn(k) == status

(* Bug: a key is deleted where it should be switched off. *)
DeletedAtOnce(k) == [status EXCEPT ![k] = "deleted"]

(* isActive becomes false. *)
SwitchedOff(k) == [status EXCEPT ![k] = "inactive"]

(* Bug: the user's keys are not deleted with the user. *)
NoCascade(u) == {}

(* The rows that ON DELETE CASCADE deletes with a user. *)
KeysOf(u) == {k \in Keys : Exists(k) /\ owner[k] = u}

Init == /\ status    = [k \in Keys |-> IF k \in DOMAIN SeedOwner THEN "active" ELSE "unused"]
        /\ owner     = [k \in Keys |-> IF k \in DOMAIN SeedOwner THEN SeedOwner[k] ELSE None]
        /\ replaces  = [k \in Keys |-> None]
        /\ users     = Users
        /\ rotations = [k \in Keys |-> 0]
        /\ timers    = [k \in Keys |-> 0]
        /\ process   = "up"
        /\ requests  = [q \in Requests |-> Idle]

-----------------------------------------------------------------------------
(* Authentication and permission.                                          *)

Operations == [op : {"create"}, target : {None}]
              \cup [op : {"rotate", "revoke"}, target : Keys]
              \cup [op : {"deleteUser"}, target : Users]

MemberOperations == {"create", "rotate"}

Goto(q, step) == requests' = [requests EXCEPT ![q].step = step]
End(q)        == requests' = [requests EXCEPT ![q] = Idle]

(* Bug: the request goes by the id of the key instead of the user's. *)
IdentifiedByKey(k) ==
  [step |-> "touch", key |-> k, user |-> k, op |-> None, target |-> None]

(* What a request knows from the key's row. *)
Identified(k) ==
  [step |-> "touch", key |-> k, user |-> owner[k], op |-> None, target |-> None]

(* validateKey reads the row and finds it active.  An inactive or missing key *)
(* ends the request with 401 and changes nothing.  A kept-alive connection    *)
(* carries new requests while the server drains.                              *)
Lookup(q, k) ==
  /\ process # "down"
  /\ requests[q] = Idle
  /\ status[k] = "active"
  /\ requests' = [requests EXCEPT ![q] = Identified(k)]
  /\ UNCHANGED <<status, owner, replaces, users, rotations, timers, process>>

(* validateKey stamps lastUsedAt; only the row's existence is checked again, *)
(* and from here on the request goes by the key's user.                      *)
Touch(q) ==
  /\ requests[q].step = "touch"
  /\ Exists(requests[q].key)
  /\ requests' = [requests EXCEPT ![q].step = "permit", ![q].key = None]
  /\ UNCHANGED <<status, owner, replaces, users, rotations, timers, process>>

Permitted(u, o) == u \in users /\ (u \in Owners \/ o.op \in MemberOperations)

(* What the request asks for plays its first part here, so it is chosen here. *)
(* It names a key that was issued at some time.  One that issues a key goes   *)
(* on only while there are keys left for it: the bound on Keys.               *)
Permit(q, o) ==
  /\ requests[q].step = "permit"
  /\ o.target \notin Unused
  /\ o.op \in {"create", "rotate"} => Cardinality(Creating) < Cardinality(Unused)
  /\ IF Permitted(requests[q].user, o)
     THEN requests' = [requests EXCEPT ![q].step = o.op, ![q].op = o.op, ![q].target = o.target]
     ELSE End(q)
  /\ UNCHANGED <<status, owner, replaces, users, rotations, timers, process>>

-----------------------------------------------------------------------------
(* The operations.                                                         *)

(* createKey inserts an active row connected to an existing user. *)
Issue(k, u, old) ==
  /\ status[k] = "unused"
  /\ u \in users
  /\ status'   = [status EXCEPT ![k] = "active"]
  /\ owner'    = [owner EXCEPT ![k] = u]
  /\ replaces' = [replaces EXCEPT ![k] = old]

CreateKey(q, k) ==
  /\ requests[q].step = "create"
  /\ Issue(k, requests[q].user, None)
  /\ End(q)
  /\ UNCHANGED <<users, rotations, timers, process>>

(* Bug: the old key is switched off before the new one is issued. *)
FindOldAndRetire(q) ==
  /\ requests[q].step = "rotate"
  /\ Exists(requests[q].target)
  /\ Goto(q, "retire")
  /\ UNCHANGED <<status, owner, replaces, users, rotations, timers, process>>

(* rotateKey asks neither whether the old key is active nor whose it is. *)
FindOld(q) ==
  /\ requests[q].step = "rotate"
  /\ Exists(requests[q].target)
  /\ Goto(q, "issue")
  /\ UNCHANGED <<status, owner, replaces, users, rotations, timers, process>>

(* The row is inserted; if its reply is lost, the request ends with an error. *)
IssueKey(q, k) ==
  /\ requests[q].step = "issue"
  /\ Issue(k, requests[q].user, requests[q].target)
  /\ Goto(q, "retire") \/ End(q)
  /\ UNCHANGED <<users, rotations, timers, process>>

(* The old key is switched off at once and its deletion is scheduled, unless *)
(* the reply to the update is lost.                                          *)
Retire(q) ==
  LET k == requests[q].target
  IN  /\ requests[q].step = "retire"
      /\ Exists(k)
      /\ status' = SwitchedOff(k)
      /\ \/ /\ rotations' = [rotations EXCEPT ![k] = @ + 1]
            /\ timers'    = [timers EXCEPT ![k] = @ + 1]
         \/ UNCHANGED <<rotations, timers>>
      /\ End(q)
      /\ UNCHANGED <<owner, replaces, users, process>>

Revoke(q) ==
  LET k == requests[q].target
  IN  /\ requests[q].step = "revoke"
      /\ Exists(k)
      /\ status' = SwitchedOff(k)
      /\ End(q)
      /\ UNCHANGED <<owner, replaces, users, rotations, timers, process>>

(* Deleting a user deletes the user's keys with it (ON DELETE CASCADE). *)
DeleteUser(q) ==
  LET u == requests[q].target
  IN  /\ requests[q].step = "deleteUser"
      /\ u \in users
      /\ users'  = users \ {u}
      /\ status' = Removed(KeysOf(u))
      /\ End(q)
      /\ UNCHANGED <<owner, replaces, rotations, timers, process>>

(* Bug: a key deleted while it is being validated is not reported. *)
RowMissingOnceValid(r) ==
  \/ r.step \in {"rotate", "retire", "revoke"} /\ ~Exists(r.target)
  \/ r.step \in {"create", "issue"} /\ r.user \notin users
  \/ r.step = "deleteUser" /\ r.target \notin users

(* The row the next call of the request needs is gone: the call throws. *)
RowMissing(r) ==
  \/ r.step = "touch" /\ ~Exists(r.key)
  \/ r.step \in {"rotate", "retire", "revoke"} /\ ~Exists(r.target)
  \/ r.step \in {"create", "issue"} /\ r.user \notin users
  \/ r.step = "deleteUser" /\ r.target \notin users

NotFound(q) ==
  /\ requests[q] # Idle
  /\ RowMissing(requests[q])
  /\ End(q)
  /\ UNCHANGED <<status, owner, replaces, users, rotations, timers, process>>

(* Any awaited call may fail for reasons of its own and end the request.  A   *)
(* last call whose effect comes without its reply is the call's own step.     *)
Fails(q) ==
  /\ requests[q] # Idle
  /\ End(q)
  /\ UNCHANGED <<status, owner, replaces, users, rotations, timers, process>>

-----------------------------------------------------------------------------
(* Timers and the process.                                                 *)

Down == /\ process'  = "down"
        /\ timers'   = [k \in Keys |-> 0]
        /\ requests' = [q \in Requests |-> Idle]

(* A timer deletes its key. *)
Fire(k) ==
  /\ process # "down"
  /\ timers[k] > 0
  /\ Exists(k)
  /\ status' = Removed({k})
  /\ timers' = [timers EXCEPT ![k] = @ - 1]
  /\ UNCHANGED <<owner, replaces, users, rotations, process, requests>>

(* A timer whose key is gone rejects, nobody handles the rejection, and the    *)
(* process starts to shut down.  If it is doing so already, the second         *)
(* shutdown waits for the same close of the server, and fails only then: Exit. *)
FireMissing(k) ==
  /\ process # "down"
  /\ timers[k] > 0
  /\ ~Exists(k)
  /\ process' = "stopping"
  /\ timers'  = [timers EXCEPT ![k] = @ - 1]
  /\ UNCHANGED <<status, owner, replaces, users, rotations, requests>>

(* The database refuses a timer's deletion, or its reply is lost: a rejection *)
(* nobody handles either.                                                     *)
FireFails(k) ==
  /\ process # "down"
  /\ timers[k] > 0
  /\ Exists(k)
  /\ status' \in {status, Removed({k})}
  /\ process' = "stopping"
  /\ timers'  = [timers EXCEPT ![k] = @ - 1]
  /\ UNCHANGED <<owner, replaces, users, rotations, requests>>

(* A signal, or an uncaught exception. *)
Signal == /\ process = "up"
          /\ process' = "stopping"
          /\ UNCHANGED <<status, owner, replaces, users, rotations, timers, requests>>

(* The drained server exits (with an error if it was told to close twice), or *)
(* is forced to after ten seconds.                                            *)
Exit == /\ process = "stopping"
        /\ Down
        /\ UNCHANGED <<status, owner, replaces, users, rotations>>

(* The process ends without a shutdown: it is killed, or its machine fails. *)
Crash == /\ process # "down"
         /\ Down
         /\ UNCHANGED <<status, owner, replaces, users, rotations>>

Restart == /\ process = "down"
           /\ process' = "up"
           /\ UNCHANGED <<status, owner, replaces, users, rotations, timers, requests>>

Step(q) == \/ Touch(q) \/ FindOld(q) \/ Retire(q) \/ Revoke(q)
           \/ DeleteUser(q) \/ NotFound(q)
           \/ \E o \in Operations : Permit(q, o)
           \/ \E k \in Keys : CreateKey(q, k) \/ IssueKey(q, k)

Next == \/ \E q \in Requests : \/ \E k \in Keys : Lookup(q, k)
                               \/ Step(q)
                               \/ Fails(q)
        \/ \E k \in Keys : Fire(k) \/ FireMissing(k) \/ FireFails(k)
        \/ Signal \/ Exit \/ Crash \/ Restart

Spec == Init /\ [][Next]_vars

(* Pending calls are answered, timers run out while the process lives, a     *)
(* draining process exits and is restarted.  Errors, signals and crashes are *)
(* never owed.                                                               *)
Fairness == /\ \A q \in Requests : WF_vars(Step(q))
            /\ \A k \in Keys : WF_vars(Fire(k) \/ FireMissing(k))
            /\ WF_vars(Exit)
            /\ WF_vars(Restart)

LiveSpec == Spec /\ Fairness

-----------------------------------------------------------------------------
(* Properties.                                                             *)

StepsOf(op) == IF op = "rotate" THEN {"rotate", "issue", "retire"} ELSE {op}

Request == {r \in [step : {"touch", "permit", "create", "rotate", "issue", "retire", "revoke",
                           "deleteUser"},
                   key : Keys \cup {None}, user : Users,
                   op : {None, "create", "rotate", "revoke", "deleteUser"},
                   target : {None} \cup Keys \cup Users] :
              \/ r.step = "touch" /\ r.key \in Keys
              \/ r.step = "permit"
              \/ r.step \in StepsOf(r.op) /\ [op |-> r.op, target |-> r.target] \in Operations}

(* Every variable holds values of its type; a request is at a step of its own *)
(* operation, with a target of the kind that operation takes.                 *)
TypeOK ==
  /\ status \in [Keys -> {"unused", "active", "inactive", "deleted"}]
  /\ owner \in [Keys -> Users \cup {None}]
  /\ replaces \in [Keys -> Keys \cup {None}]
  /\ users \subseteq Users
  /\ rotations \in [Keys -> Nat]
  /\ timers \in [Keys -> Nat]
  /\ process \in {"up", "stopping", "down"}
  /\ requests \in [Requests -> {Idle} \cup Request]

(* A key's row never outlives its owner, whichever of a rotation's insert and *)
(* the owner's deletion comes first.                                          *)
KeyHasOwner == \A k \in Keys : Exists(k) => owner[k] \in users

(* Rotation switches a key off only after it has issued a successor, once for *)
(* every rotation, so a rotation that dies half-way leaves the old key or the *)
(* new one (or both) usable, never neither.                                   *)
SuccessorFirst ==
  \A k \in Keys :
    rotations[k] <= Cardinality({j \in Keys : replaces[j] = k /\ status[j] # "unused"})

(* A pending timer never threatens a usable key: there are at most as many as *)
(* rotations of that key, and none for a key that is still active.            *)
TimersOnlyForRetired ==
  \A k \in Keys : /\ timers[k] <= rotations[k]
                  /\ timers[k] > 0 => status[k] \in {"inactive", "deleted"}

(* A key disappears only because one of its timers has run or its owner was   *)
(* deleted; hence a timer that misses its key, and shuts the server down, is  *)
(* one of several for a key rotated repeatedly or outlived the key's owner.   *)
DeletionExplained ==
  \A k \in Keys : status[k] = "deleted" =>
    timers[k] < rotations[k] \/ owner[k] \notin users

(* No interleaving of requests, timers and restarts brings a key back. *)
Lifecycle == INSTANCE KeyLifecycle

ImplementsLifecycle == Lifecycle!Spec

(* Every request in flight ends, whatever rows vanish under it. *)
RequestsEnd == \A q \in Requests : requests[q] # Idle ~> requests[q] = Idle

(* A scheduled deletion removes its key unless the process ends first. *)
TimersRun == \A k \in Keys : timers[k] > 0 ~> (status[k] = "deleted" \/ process = "down")

(* What the rotation mail says: the old key stays active until the deletion   *)
(* scheduled 15 minutes ahead.                                                *)
GraceHonoured == \A k \in Keys : timers[k] > 0 => status[k] = "active"

(* What the scheduling comment says: the timer is the old key's deletion, so  *)
(* the key is there to delete until the timer has run.                        *)
TimerFindsKey == \A k \in Keys : timers[k] > 0 => Exists(k)

(* What the mail and the comment say: a rotated key expires.  (Requires       *)
(* LiveSpec.)                                                                 *)
RotatedKeyExpires == \A k \in Keys : rotations[k] > 0 ~> status[k] = "deleted"
=============================================================================
