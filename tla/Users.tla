------------------------------- MODULE Users --------------------------------
(***************************************************************************)
(* The users of all tenants, and what UserService leaves behind when it    *)
(* changes them: rows, audit entries and invitations.                      *)
(*                                                                         *)
(* A request is a chain of awaited calls.  Other requests run between them:*)
(*                                                                         *)
(*   create: Search --> "insert" --Insert--> "log" --LogCreated-->         *)
(*             "invite" --Invite--> "answered"                             *)
(*   update: Find --> "change" --Update--> "log" --LogUpdated--> "answered"*)
(*   delete: Find --> "change" --Delete--> "log" --LogDeleted--> "answered"*)
(*                                                                         *)
(* Any call can fail, with or without having had its effect.  A repository *)
(* update or delete is a findUnique and then the write; both fail when the *)
(* row is gone, so they are one step.  The body of an update is handed to  *)
(* the database as it came, and may set the tenant and the id of the row.  *)
(* Roles and the deleted user's keys are in ApiKeys, the chain of the      *)
(* entries is in AuditChain, and the invitation's job is in EmailQueue.    *)
(***************************************************************************)
EXTENDS Naturals, Sequences

CONSTANTS Ids,       \* user ids; bound: those not seeded are still to be created
          Tenants,
          Emails,
          Names,
          Seed,      \* the users that exist at the start: id -> row
          Bodies,    \* the bodies that updates may come with
          Requests   \* bound: each request is one call of the service

None   == "none"
Rows   == [tenant : Tenants, email : Emails, name : Names]
Absent == [tenant |-> None, email |-> None, name |-> None]

ASSUME SeedAssumption ==
  /\ DOMAIN Seed \subseteq Ids /\ \A u \in DOMAIN Seed : Seed[u] \in Rows
  /\ \A u, v \in DOMAIN Seed : Seed[u].email = Seed[v].email => u = v
  /\ None \notin Ids \cup Tenants \cup Emails \cup Names

(* What the body of an update can set of a row; None is left out. *)
Updates == [id : Ids \cup {None}, tenant : Tenants \cup {None},
            email : Emails \cup {None}, name : Names \cup {None}]

ASSUME BodiesAssumption == Bodies \subseteq Updates

VARIABLES users,      \* each id's row; Absent before the insert and after the delete
          trail,      \* the audit entries of each user, in the order of their inserts
          invited,    \* how many invitations were queued for a user
          requests,   \* what each request knows
          raced,      \* history: emails searched while another create was about to insert them
          rewritten,  \* history: emails given to a user by an update
          contended,  \* history: users whom two requests were changing at once
          unlogged,   \* history: users whose creation failed to be logged
          given       \* history: ids that an update gave to a user

history == <<raced, rewritten, contended, unlogged, given>>
vars    == <<users, trail, invited, requests, history>>

(* What an audit entry shows of a row that is not there. *)
Nothing == [email |-> None, name |-> None]

Given(new, old) == IF new = None THEN old ELSE new

Overwritten(row, body) == [tenant |-> Given(body.tenant, row.tenant),
                           email  |-> Given(body.email, row.email),
                           name   |-> Given(body.name, row.name)]

New == [step |-> "new"]

Initially(u) == IF u \in DOMAIN Seed THEN Seed[u] ELSE Absent

Init == /\ users    = [u \in Ids |-> Initially(u)]
        /\ trail    = [u \in Ids |-> <<>>]
        /\ invited  = [u \in Ids |-> 0]
        /\ requests = [q \in Requests |-> New]
        /\ raced = {} /\ rewritten = {} /\ contended = {}
        /\ unlogged = {} /\ given = {}

Present == {u \in Ids : users[u] # Absent}

(* Requests between their first read of a user and its audit entry. *)
Changing(u) == {q \in Requests : /\ requests[q].step \in {"change", "log"}
                                 /\ requests[q].user = u}

(* Bug: the unique index covers the name as well. *)
UniqueByName(u, row) == \A v \in Present \ {u} :
                          \/ users[v].tenant # row.tenant
                          \/ users[v].email # row.email
                          \/ users[v].name # row.name

(* The unique index on tenant and email has room for u with this row. *)
Unique(u, row) == \A v \in Present \ {u} :
                     users[v].tenant # row.tenant \/ users[v].email # row.email

-----------------------------------------------------------------------------
(* Steps of a request.  A call may have its effect and still fail: ok says *)
(* whether its reply arrives.                                              *)

(* The call in progress has returned, and the next one is step. *)
Goes(q, step) == requests' = [requests EXCEPT ![q].step = step]

Answer(q, ok) == requests' = [requests EXCEPT ![q] =
                   [step |-> "answered", op |-> @.op, user |-> @.user, ok |-> ok]]

(* A user was changed, and the request lives or not to log it. *)
Changed(q, u, ok) ==
  /\ requests' = [requests EXCEPT ![q] =
                    IF ok THEN [@ EXCEPT !.step = "log", !.user = u]
                    ELSE [step |-> "answered", op |-> @.op, user |-> u, ok |-> FALSE]]
  /\ UNCHANGED <<trail, invited, raced, contended, unlogged>>

(* The call of AuditService.log writes the entry. *)
Logged(q, entry) ==
  /\ requests[q].step = "log" /\ requests[q].op = entry.action
  /\ trail' = [trail EXCEPT ![requests[q].user] = Append(@, entry)]
  /\ UNCHANGED <<users, invited, history>>

-----------------------------------------------------------------------------
(* createUser.                                                             *)

(* Bug: the search stops at the tenant's own users. *)
TakenInTenant(row) ==
  \E v \in Present : users[v].email = row.email /\ users[v].tenant = row.tenant

(* findByEmail looks at the users of every tenant. *)
Taken(row) == \E v \in Present : users[v].email = row.email

(* A request that finds a user where it needs none, or none where it needs *)
(* one, is answered at once.                                               *)
Refuse(q, op) ==
  /\ requests' = [requests EXCEPT ![q] =
                    [step |-> "answered", op |-> op, user |-> None, ok |-> FALSE]]
  /\ UNCHANGED <<users, trail, invited, history>>

Exists(q, row) == requests[q] = New /\ Taken(row) /\ Refuse(q, "create")

Search(q, row) ==
  /\ requests[q] = New
  /\ ~Taken(row)
  /\ requests' = [requests EXCEPT ![q] =
                    [step |-> "insert", op |-> "create", user |-> None, row |-> row]]
  /\ raced' = IF \E p \in Requests : /\ requests[p].step = "insert"
                                     /\ requests[p].row.email = row.email
              THEN raced \cup {row.email} ELSE raced
  /\ UNCHANGED <<users, trail, invited, rewritten, contended, unlogged, given>>

(* Ids no user has had. *)
Fresh == {u \in Ids \ (DOMAIN Seed \cup given) :
            \A q \in Requests : requests[q] = New \/ requests[q].user # u}

Insert(q, u, ok) ==
  /\ requests[q].step = "insert"
  /\ u \in Fresh /\ Unique(u, requests[q].row)
  /\ users' = [users EXCEPT ![u] = requests[q].row]
  /\ Changed(q, u, ok)
  /\ UNCHANGED <<rewritten, given>>

(* A failure to log a creation is caught: the request goes on. *)
LogCreated(q) ==
  /\ requests[q].step = "log" /\ requests[q].op = "create"
  /\ LET new == [email |-> requests[q].row.email, name |-> requests[q].row.name]
     IN  Logged(q, [action |-> "create", old |-> Nothing, new |-> new])
  /\ Goes(q, "invite")

CreationUnlogged(q) ==
  /\ requests[q].step = "log" /\ requests[q].op = "create"
  /\ unlogged' = unlogged \cup {requests[q].user}
  /\ Goes(q, "invite")
  /\ UNCHANGED <<users, trail, invited, raced, rewritten, contended, given>>

Invite(q, ok) ==
  /\ requests[q].step = "invite"
  /\ invited' = [invited EXCEPT ![requests[q].user] = @ + 1]
  /\ Answer(q, ok)
  /\ UNCHANGED <<users, trail, history>>

-----------------------------------------------------------------------------
(* updateUser and deleteUser.                                              *)

(* Bug: the absence of a row goes unnoticed. *)
AnyUser(u) == u \in Ids

(* findById returns the row. *)
Found(u) == u \in Present

NotFound(q, op, u) == requests[q] = New /\ ~Found(u) /\ Refuse(q, op)

(* Both read the row first, for the audit entry. *)
Find(q, op, u, body) ==
  /\ requests[q] = New
  /\ Found(u)
  /\ requests' = [requests EXCEPT ![q] = [step |-> "change", op |-> op, user |-> u,
                                          old |-> users[u], body |-> body]]
  /\ contended' = IF Changing(u) # {} THEN contended \cup {u} ELSE contended
  /\ UNCHANGED <<users, trail, invited, raced, rewritten, unlogged, given>>

(* The row is written over, and may get another id, if that is free. *)
Update(q, ok) ==
  LET u    == requests[q].user
      body == requests[q].body
      id   == Given(body.id, u)
      row  == Overwritten(users[u], body)
  IN  /\ requests[q].step = "change" /\ requests[q].op = "update"
      /\ u \in Present /\ (id = u \/ id \notin Present) /\ Unique(u, row)
      /\ users' = [users EXCEPT ![u] = Absent, ![id] = row]
      /\ rewritten' = IF row.email # users[u].email THEN rewritten \cup {row.email}
                                                    ELSE rewritten
      /\ given' = IF id # u THEN given \cup {id} ELSE given
      /\ Changed(q, u, ok)

(* The entry stays with the id that the request named. *)
LogUpdated(q, ok) ==
  /\ requests[q].step = "log" /\ requests[q].op = "update"
  /\ LET old == [email |-> None, name |-> requests[q].old.name]
     IN  Logged(q, [action |-> "update", old |-> old, new |-> requests[q].body])
  /\ Answer(q, ok)

(* The row to delete is there. *)
Deletable(u) == u \in Present

Delete(q, ok) ==
  LET u == requests[q].user
  IN  /\ requests[q].step = "change" /\ requests[q].op = "delete"
      /\ Deletable(u)
      /\ users' = [users EXCEPT ![u] = Absent]
      /\ Changed(q, u, ok)
      /\ UNCHANGED <<rewritten, given>>

LogDeleted(q, ok) ==
  /\ requests[q].step = "log" /\ requests[q].op = "delete"
  /\ LET old == [email |-> requests[q].old.email, name |-> requests[q].old.name]
     IN  Logged(q, [action |-> "delete", old |-> old, new |-> Nothing])
  /\ Answer(q, ok)

-----------------------------------------------------------------------------
(* A call fails and has changed nothing.  The log of a creation is apart:  *)
(* CreationUnlogged.  A first read that fails is left out, for it ends a   *)
(* request as Exists and NotFound do.                                      *)

Failing(q) == \/ requests[q].step \in {"insert", "change", "invite"}
              \/ requests[q].step = "log" /\ requests[q].op # "create"

(* Bug: like the log of a creation, every other one and the invitation fail   *)
(* unnoticed.                                                                 *)
FailsQuietly(q) ==
  /\ Failing(q)
  /\ Answer(q, requests[q].step \in {"log", "invite"})
  /\ UNCHANGED <<users, trail, invited, history>>

Fails(q) ==
  /\ Failing(q)
  /\ Answer(q, FALSE)
  /\ UNCHANGED <<users, trail, invited, history>>

Next ==
  \E q \in Requests :
    \/ \E row \in Rows : Exists(q, row) \/ Search(q, row)
    \/ \E u \in Ids : \E op \in {"update", "delete"} : NotFound(q, op, u)
    \/ \E u \in Ids : \E body \in Bodies : Find(q, "update", u, body)
    \/ \E u \in Ids : Find(q, "delete", u, Nothing)
    \/ LogCreated(q) \/ CreationUnlogged(q)
    \/ Fails(q)
    \/ \E ok \in BOOLEAN : \/ \E u \in Ids : Insert(q, u, ok)
                           \/ Invite(q, ok)
                           \/ Update(q, ok) \/ LogUpdated(q, ok)
                           \/ Delete(q, ok) \/ LogDeleted(q, ok)

Spec == Init /\ [][Next]_vars

-----------------------------------------------------------------------------
(* Properties.                                                             *)

(* A row as the audit entries show it. *)
Shown == [email : Emails, name : Names]

Trails == Seq(     [action : {"create"}, old : {Nothing}, new : Shown]
              \cup [action : {"update"}, old : [email : {None}, name : Names], new : Bodies]
              \cup [action : {"delete"}, old : Shown, new : {Nothing}])

InProgress ==
       [step : {"insert"}, op : {"create"}, user : {None}, row : Rows]
  \cup [step : {"log", "invite"}, op : {"create"}, user : Ids, row : Rows]
  \cup [step : {"change", "log"}, op : {"update"}, user : Ids, old : Rows, body : Bodies]
  \cup [step : {"change", "log"}, op : {"delete"}, user : Ids, old : Rows, body : {Nothing}]

Answered == [step : {"answered"}, op : {"create", "update", "delete"},
             user : Ids \cup {None}, ok : BOOLEAN]

(* Every variable has its type: a request in flight, and an audit entry, holds *)
(* rows that users really had.                                                 *)
TypeOK ==
  /\ users \in [Ids -> Rows \cup {Absent}]
  /\ trail \in [Ids -> Trails]
  /\ invited \in [Ids -> Nat]
  /\ requests \in [Requests -> {New} \cup InProgress \cup Answered]
  /\ raced \cup rewritten \subseteq Emails
  /\ contended \cup unlogged \cup given \subseteq Ids

(* createUser refuses an email any tenant's user has, and the database     *)
(* refuses it within a tenant.  So two users share an email only across    *)
(* tenants, and only because two creations searched for it before either   *)
(* inserted, or because an update, which does not search, gave it to one.  *)
SharedEmailExplained ==
  \A u, v \in Present : u # v /\ users[u].email = users[v].email =>
    /\ users[u].tenant # users[v].tenant
    /\ users[u].email \in raced \cup rewritten

(* Requests that delete one user at the same time all find it, but only    *)
(* one removes the row: the audit log has one USER_DELETED for it at most, *)
(* and none while the user exists, unless an update gave the id to another *)
(* user.                                                                   *)
DeletedOnce ==
  \A u \in Ids \ given :
    LET deletions == {i \in DOMAIN trail[u] : trail[u][i].action = "delete"}
    IN  /\ \A i, j \in deletions : i = j
        /\ u \in Present => deletions = {}

(* What an auditor reads from the entries: each one applied to the row so  *)
(* far.  An entry whose previousValue is not that row's breaks the story,  *)
(* and an update to another id ends it.                                    *)
Broken == [email |-> "?", name |-> "?"]

Leaves(u, body) == body.id \notin {None, u}

Retold(u, row, entry) ==
  CASE entry.action = "create" -> entry.new
    [] entry.action = "update" ->
         CASE entry.old.name # row.name -> Broken
           [] Leaves(u, entry.new)      -> Nothing
           [] OTHER                     -> [email |-> Given(entry.new.email, row.email),
                                            name  |-> Given(entry.new.name, row.name)]
    [] entry.action = "delete" -> IF entry.old = row THEN Nothing ELSE Broken

Told(row) == [email |-> row.email, name |-> row.name]

(* The row an auditor has after each entry. *)
Story(u) ==
  LET told[i \in 0..Len(trail[u])] == IF i = 0 THEN Told(Initially(u))
                                               ELSE Retold(u, told[i - 1], trail[u][i])
  IN  told

(* Some caller was told that a request on u failed, or the failure to log its *)
(* creation was caught.                                                        *)
Excused(u) == \/ u \in unlogged
              \/ \E q \in Requests : /\ requests[q].step = "answered"
                                     /\ requests[q].user = u /\ requests[q].ok = FALSE

(* While no request changes a user, and unless two of them overlapped over it  *)
(* or an update gave it its id, the entries retell the user: every             *)
(* previousValue continues the one before, and the last newValue is the row.   *)
(* Where they do not, the caller of some request on it got an error, or it is  *)
(* its creation that is missing.                                               *)
TrailTellsHistory ==
  \A u \in Ids \ (contended \cup given) :
    Changing(u) = {} /\ ~Excused(u) => Story(u)[Len(trail[u])] = Told(users[u])

(* An inserted user was invited, or is about to be, or its creator was told *)
(* that the creation failed; and a creator told otherwise left exactly one *)
(* invitation.  A user that an update moved is invited under its old id.   *)
InvitationAccounted ==
  /\ \A u \in Ids : invited[u] <= 1
  /\ \A q \in Requests :
       requests[q].step = "answered" /\ requests[q].op = "create" /\ requests[q].ok
         => invited[requests[q].user] = 1
  /\ \A u \in Present \ (DOMAIN Seed \cup given) : invited[u] = 0 =>
       \E q \in Requests :
         /\ requests[q] # New
         /\ requests[q].op = "create" /\ requests[q].user = u
         /\ requests[q].step = "answered" => ~requests[q].ok

(* However requests interleave and fail, the rows are a directory: only a    *)
(* creation adds a user, under a new id; an update never brings back a user   *)
(* that was removed while it waited, nor takes the id of another one; and no  *)
(* two users of a tenant ever have one email.                                 *)
Dir == INSTANCE Directory WITH Nobody <- Absent, row <- users, enrolled <- Ids \ Fresh

ImplementsDirectory == Dir!Spec
=============================================================================
